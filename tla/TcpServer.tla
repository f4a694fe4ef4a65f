----------------------------- MODULE TcpServer ------------------------------
(***************************************************************************)
(* TcpServer (src/TcpServer.cc) with its Acceptor, its connections, the    *)
(* loops of the pool and the main program (src/main.cc): from the start    *)
(* of the pool over connections that come and go to the end, when the base *)
(* loop has ended, ~TcpServer sweeps the map and joins the threads one by  *)
(* one, and the loops take what is left in their queues with them.         *)
(*                                                                         *)
(* The module is about who is called when, and what still exists then.  A  *)
(* loop is the serial executor that EventLoop implements, with the         *)
(* channels registered at it; what a connection does with bytes is in      *)
(* TcpConnection.  The descriptor of a connection is open as long as the   *)
(* TcpConnection exists, which is as long as a TcpConnectionPtr does.      *)
(***************************************************************************)
EXTENDS LoopPool

CONSTANTS
    MaxConns,        \* clients that connect
    FdLimits         \* how many descriptors the process may have for them

ASSUME BoundAssumption == {MaxConns} \cup FdLimits \subseteq Nat \ {0}

VARIABLES
    maxFds,           \* RLIMIT_NOFILE, less what the program itself needs
    listenning_,
    backlog,          \* clients the kernel has connected
    nextConnId_,
    conn,             \* the TcpConnection of every id
    connections_,     \* the ids in the map of the server
    pendingFunctors_, \* of every loop
    loopState,        \* of every loop: "looping", "quitting", "ended"
    server,           \* the TcpServer: "up" or "gone"
    user              \* a thread of the application and the pointer it holds

acceptVars == <<maxFds, listenning_, backlog, nextConnId_>>
serverVars == <<acceptVars, connections_, server>>
vars == <<poolVars, serverVars, conn, pendingFunctors_, loopState, user>>

Loops == {baseLoop_} \cup Nodes
Ids == 1..MaxConns
NoConn == 0

NewConn(ioLoop) ==
    [loop |-> ioLoop, state |-> "kConnecting", ups |-> 0, downs |-> 0,
     registered |-> FALSE,   \* its channel, with the poller of its loop
     peer |-> TRUE]          \* the peer is there

Init ==
    /\ PoolInit
    /\ maxFds \in FdLimits
    /\ listenning_ = FALSE
    /\ backlog = 0
    /\ nextConnId_ = 1
    /\ conn = [c \in Ids |-> NewConn(baseLoop_)]
    /\ connections_ = {}
    /\ pendingFunctors_ = [l \in Loops |-> <<>>]
    /\ loopState = [l \in Loops |-> "looping"]
    /\ server = "up"
    /\ user = [pc |-> "idle", conn |-> NoConn]

-----------------------------------------------------------------------------
(* Functors and lifetimes.  The functor of shutdown() holds a raw this;    *)
(* listed tells whether the connection was in the map when it was queued.  *)

Functor(op, c) == [op |-> op, conn |-> c, listed |-> c \in connections_]

queueInLoop(l, op, c) ==
    pendingFunctors_' =
        [pendingFunctors_ EXCEPT ![l] = Append(@, Functor(op, c))]

Owns(f) == f.op # "shutdownInLoop"

Accepted == 1..(nextConnId_ - 1)

Alive(c) ==
    \/ c \in connections_
    \/ user.conn = c
    \/ \E l \in Loops :
         \E f \in ToSet(pendingFunctors_[l]) : Owns(f) /\ f.conn = c

OpenFds == {c \in Accepted : Alive(c)}

Runs(l) == loopState[l] # "ended"

-----------------------------------------------------------------------------
(* start(): the pool, then Acceptor::listen(). *)

StartPool ==
    /\ StartThread
    /\ UNCHANGED <<serverVars, conn, pendingFunctors_, loopState, user>>

(* Nothing calls removeNode(); it may come at any time. *)
RemoveNode(node) ==
    /\ node \in ToSet(loops_)
    /\ removeNode(node)
    /\ UNCHANGED <<hashFunction_, loops_, serverVars, conn, pendingFunctors_,
                   loopState, user>>

Listen ==
    /\ Ready
    /\ ~listenning_
    /\ listenning_' = TRUE
    /\ UNCHANGED <<poolVars, maxFds, backlog, nextConnId_, connections_, server,
                   conn, pendingFunctors_, loopState, user>>

-----------------------------------------------------------------------------
(* TcpConnection::connectEstablished, connectDestroyed and handleClose, as *)
(* far as the server is concerned: the record they leave.                  *)

connectEstablished(r) ==
    [r EXCEPT !.state = "kConnected", !.registered = TRUE, !.ups = @ + 1]

handleClose(r) ==
    [r EXCEPT !.registered = FALSE, !.state = "kDisconnected", !.downs = @ + 1]

MutDestroyedAsEver(r) == handleClose(r)

MutStaysRegistered(r) == IF r.state = "kConnected" THEN handleClose(r) ELSE r

connectDestroyed(r) ==
    IF r.state = "kConnected" THEN handleClose(r)
                              ELSE [r EXCEPT !.registered = FALSE]

-----------------------------------------------------------------------------
(* Acceptor::handleRead() in the base loop. *)

Readable == listenning_ /\ backlog > 0 /\ server = "up" /\ Runs(baseLoop_)

(* accept() and TcpServer::newConnection(), for a peer with address k. *)
NewConnection(k) ==
    LET c == nextConnId_
        ioLoop == getNextLoop(k)
        new == NewConn(ioLoop)
    IN  /\ Readable
        /\ Cardinality(OpenFds) < maxFds
        /\ backlog' = backlog - 1
        /\ nextConnId_' = c + 1
        /\ connections_' = connections_ \cup {c}
        /\ IF ioLoop = baseLoop_
           THEN /\ conn' = [conn EXCEPT ![c] = connectEstablished(new)]
                /\ UNCHANGED pendingFunctors_
           ELSE /\ conn' = [conn EXCEPT ![c] = new]
                /\ queueInLoop(ioLoop, "connectEstablished", c)
        /\ UNCHANGED <<poolVars, maxFds, listenning_, server, loopState, user>>

(* EMFILE: two lines in the log, and the channel fires again. *)
AcceptFails ==
    /\ Readable
    /\ Cardinality(OpenFds) >= maxFds
    /\ UNCHANGED vars

-----------------------------------------------------------------------------
(* The end of a connection. *)

MutErased(c) == connections_

Erased(c) == connections_ \ {c}

(* The channel of c reports the close: handleClose(), and through          *)
(* closeCallback_ TcpServer::removeConnection().                           *)
HandleClose(c) ==
    LET l == conn[c].loop
    IN  /\ Runs(l)
        /\ conn[c].registered
        /\ ~conn[c].peer
        /\ conn' = [conn EXCEPT ![c] = handleClose(@)]
        /\ IF l = baseLoop_
           THEN /\ connections_' = Erased(c)
                /\ queueInLoop(baseLoop_, "connectDestroyed", c)
           ELSE /\ queueInLoop(baseLoop_, "removeConnectionInLoop", c)
                /\ UNCHANGED connections_
        /\ UNCHANGED <<poolVars, acceptVars, server, loopState, user>>

(* doPendingFunctors(), one functor. *)
RunFunctor(l) ==
    /\ Runs(l)
    /\ pendingFunctors_[l] # <<>>
    /\ LET f == Head(pendingFunctors_[l])
           popped == [pendingFunctors_ EXCEPT ![l] = Tail(@)]
       IN  /\ conn' = CASE f.op = "connectEstablished" ->
                             [conn EXCEPT ![f.conn] = connectEstablished(@)]
                        [] f.op = "connectDestroyed" ->
                             [conn EXCEPT ![f.conn] = connectDestroyed(@)]
                        [] OTHER -> conn
           /\ IF f.op = "removeConnectionInLoop"
              THEN /\ connections_' = Erased(f.conn)
                   /\ pendingFunctors_' =
                        [popped EXCEPT ![conn[f.conn].loop] =
                            Append(@, Functor("connectDestroyed", f.conn))]
              ELSE /\ pendingFunctors_' = popped
                   /\ UNCHANGED connections_
    /\ UNCHANGED <<poolVars, acceptVars, server, loopState, user>>

-----------------------------------------------------------------------------
(* A thread of the application that got a TcpConnectionPtr from a callback *)
(* calls shutdown(), whose test, assignment and queueInLoop are three      *)
(* steps, and lets go of the pointer some time before the program ends.    *)

UserStep(c, from, to) ==
    /\ user = [pc |-> from, conn |-> c]
    /\ user' = [pc |-> to, conn |-> IF to = "idle" THEN NoConn ELSE c]
    /\ UNCHANGED <<poolVars, serverVars, loopState>>

ShutdownTest(c) ==
    /\ user.pc = "idle"
    /\ conn[c].state = "kConnected"
    /\ loopState[baseLoop_] = "looping"
    /\ user' = [pc |-> "setState", conn |-> c]
    /\ UNCHANGED <<poolVars, serverVars, conn, pendingFunctors_, loopState>>

ShutdownSet(c) ==
    /\ UserStep(c, "setState", "queueInLoop")
    /\ conn' = [conn EXCEPT ![c].state = "kDisconnecting"]
    /\ UNCHANGED pendingFunctors_

ShutdownQueue(c) ==
    /\ UserStep(c, "queueInLoop", "holds")
    /\ queueInLoop(conn[c].loop, "shutdownInLoop", c)
    /\ UNCHANGED conn

UserDrops(c) ==
    /\ UserStep(c, "holds", "idle")
    /\ UNCHANGED <<conn, pendingFunctors_>>

-----------------------------------------------------------------------------
(* The clients. *)

ClientConnects ==
    /\ listenning_
    /\ backlog + nextConnId_ <= MaxConns
    /\ backlog' = backlog + 1
    /\ UNCHANGED <<poolVars, maxFds, listenning_, nextConnId_, connections_,
                   server, conn, pendingFunctors_, loopState, user>>

PeerCloses(c) ==
    /\ c \in Accepted
    /\ conn[c].peer
    /\ conn' = [conn EXCEPT ![c].peer = FALSE]
    /\ UNCHANGED <<poolVars, serverVars, pendingFunctors_, loopState, user>>

-----------------------------------------------------------------------------
(* The end of main(): loop() returns, then the destructors. *)

SetLoop(l, s) == loopState' = [loopState EXCEPT ![l] = s]

Quit ==
    /\ listenning_
    /\ loopState[baseLoop_] = "looping"
    /\ SetLoop(baseLoop_, "quitting")
    /\ UNCHANGED <<poolVars, serverVars, conn, pendingFunctors_, user>>

LoopReturns ==
    /\ loopState[baseLoop_] = "quitting"
    /\ user.pc = "idle"
    /\ SetLoop(baseLoop_, "ended")
    /\ UNCHANGED <<poolVars, serverVars, conn, pendingFunctors_, user>>

Destructing == loopState[baseLoop_] = "ended" /\ server = "up"

(* The body of ~TcpServer(), one connection: main is the thread of the     *)
(* base loop, so there connectDestroyed() runs at once.                    *)
Sweep(c) ==
    /\ Destructing
    /\ c \in connections_
    /\ connections_' = Erased(c)
    /\ IF conn[c].loop = baseLoop_
       THEN /\ conn' = [conn EXCEPT ![c] = connectDestroyed(@)]
            /\ UNCHANGED pendingFunctors_
       ELSE /\ queueInLoop(conn[c].loop, "connectDestroyed", c)
            /\ UNCHANGED conn
    /\ UNCHANGED <<poolVars, acceptVars, server, loopState, user>>

MutJoined(n) == TRUE

Joined(n) == loopState[n] = "ended"

(* threadPool_ goes next: every ~EventLoopThread() quits its loop and      *)
(* joins the thread before the next one does.                              *)
StopThread(n) ==
    /\ Destructing
    /\ connections_ = {}
    /\ loopState[n] = "looping"
    /\ \A k \in 1..(n - 1) : loopState[k] # "looping" /\ Joined(k)
    /\ SetLoop(n, "quitting")
    /\ UNCHANGED <<poolVars, serverVars, conn, pendingFunctors_, user>>

(* The thread ends, ~EventLoop() destroys the functors that did not run.   *)
ThreadEnds(n) ==
    /\ loopState[n] = "quitting"
    /\ SetLoop(n, "ended")
    /\ pendingFunctors_' = [pendingFunctors_ EXCEPT ![n] = <<>>]
    /\ UNCHANGED <<poolVars, serverVars, conn, user>>

ServerGone ==
    /\ Destructing
    /\ \A n \in Nodes : loopState[n] # "looping" /\ Joined(n)
    /\ server' = "gone"
    /\ UNCHANGED <<poolVars, acceptVars, connections_, conn, pendingFunctors_,
                   loopState, user>>

(* ~EventLoop() of the base loop, which main declared before the server. *)
BaseLoopGone ==
    /\ server = "gone"
    /\ pendingFunctors_[baseLoop_] # <<>>
    /\ pendingFunctors_' = [pendingFunctors_ EXCEPT ![baseLoop_] = <<>>]
    /\ UNCHANGED <<poolVars, serverVars, conn, loopState, user>>

-----------------------------------------------------------------------------
LoopStep(l) ==
    \/ RunFunctor(l)
    \/ \E c \in Ids : conn[c].loop = l /\ HandleClose(c)

UserFinishes(c) == ShutdownSet(c) \/ ShutdownQueue(c) \/ UserDrops(c)

Teardown ==
    \/ LoopReturns
    \/ \E c \in Ids : Sweep(c)
    \/ \E n \in Nodes : StopThread(n) \/ ThreadEnds(n)
    \/ ServerGone
    \/ BaseLoopGone

(* Everything waits in epoll_wait for events from outside, or has ended. *)
Waiting == UNCHANGED vars

Next ==
    \/ StartPool
    \/ \E n \in Nodes : RemoveNode(n)
    \/ Listen
    \/ \E k \in Keys : NewConnection(k)
    \/ AcceptFails
    \/ \E l \in Loops : RunFunctor(l)
    \/ \E c \in Ids : HandleClose(c)
    \/ \E c \in Ids : ShutdownTest(c) \/ UserFinishes(c)
    \/ ClientConnects
    \/ \E c \in Ids : PeerCloses(c)
    \/ Quit
    \/ Teardown
    \/ Waiting

(* Every thread that can run does, the destructors go on, and the          *)
(* application gives its pointer back.                                     *)
Fairness ==
    /\ \A l \in Loops : WF_vars(LoopStep(l))
    /\ WF_vars(\E k \in Keys : NewConnection(k))
    /\ WF_vars(Teardown)
    /\ WF_vars(\E c \in Ids : UserFinishes(c))

Spec == Init /\ [][Next]_vars /\ Fairness

-----------------------------------------------------------------------------
ConnStates == {"kConnecting", "kConnected", "kDisconnecting", "kDisconnected"}

Conns == [loop : Loops, state : ConnStates, ups : Nat, downs : Nat,
          registered : BOOLEAN, peer : BOOLEAN]

Ops == {"connectEstablished", "connectDestroyed", "removeConnectionInLoop",
        "shutdownInLoop"}

Functors == [op : Ops, conn : Ids, listed : BOOLEAN]

TypeOK ==
    /\ hashFunction_ \in HashFunctions
    /\ loops_ \in Seq(Nodes)
    /\ listenning_ \in BOOLEAN
    /\ backlog \in Nat
    /\ nextConnId_ \in Nat \ {0}
    /\ conn \in [Ids -> Conns]
    /\ connections_ \subseteq Accepted
    /\ pendingFunctors_ \in [Loops -> Seq(Functors)]
    /\ loopState \in [Loops -> {"looping", "quitting", "ended"}]
    /\ server \in {"up", "gone"}
    /\ user \in [pc : {"idle", "setState", "queueInLoop", "holds"},
                  conn : Ids \cup {NoConn}]

-----------------------------------------------------------------------------
(* Whatever a running loop still has to call exists: the connection of     *)
(* every channel at its poller (which holds a plain pointer), and the      *)
(* connection of every functor of shutdown() that was queued while the     *)
(* server still listed it (TcpConnection.cc:148 binds this).               *)
ConnectionOutlivesUses ==
    \A l \in {x \in Loops : Runs(x)} :
        /\ \A c \in Accepted :
             conn[c].registered /\ conn[c].loop = l => Alive(c)
        /\ \A f \in ToSet(pendingFunctors_[l]) : f.listed => Alive(f.conn)

(* The callbacks of connections hold the plain TcpServer pointer and the   *)
(* plain pointers of loops (TcpServer.cc:100): a loop that runs has no     *)
(* channel whose close would call a server that is gone, and nothing is    *)
(* left in the map or in a queue for a loop that has ended.                *)
ServerOutlivesUses ==
    /\ \A c \in Accepted :
         conn[c].registered /\ Runs(conn[c].loop) => server = "up"
    /\ \A n \in {x \in Nodes : ~Runs(x)} :
         pendingFunctors_[n] = <<>> /\ \A c \in connections_ : conn[c].loop # n

(* A connection whose peer has gone gives its descriptor back, also when   *)
(* the close, shutdown() in another thread and the end of the server run   *)
(* into each other and functors are dropped by quit() (EventLoop.cc:83).   *)
DescriptorReturned ==
    \A c \in Ids : (c \in Accepted /\ ~conn[c].peer) ~> ~Alive(c)

(* Every descriptor belongs to a connection whose peer is still there. *)
Starved ==
    /\ Cardinality(OpenFds) >= maxFds
    /\ \A c \in OpenFds : conn[c].peer

(* A client in the backlog is accepted, after a time without descriptors   *)
(* too, unless all of them serve peers that stay (Acceptor.cc:66).         *)
BacklogServed ==
    \A n \in Ids :
        (Readable /\ nextConnId_ = n)
            ~> (nextConnId_ > n \/ Starved \/ ~Runs(baseLoop_))

(* The life of every connection is the one its user may rely on. *)
Life(c) == INSTANCE ConnLife
    WITH state_ <- conn[c].state, ups <- conn[c].ups, downs <- conn[c].downs

LivesSpec ==
    /\ \A c \in Ids : Life(c)!Init
    /\ [][\A c \in Ids : [Life(c)!Next]_(Life(c)!vars)]_conn
=============================================================================
