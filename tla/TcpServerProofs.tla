--------------------------- MODULE TcpServerProofs --------------------------
(***************************************************************************)
(* Proofs about TcpServer, for any number of threads, clients, addresses   *)
(* and descriptors and any hash functions.                                 *)
(***************************************************************************)
EXTENDS TcpServer, SeqFacts, TLAPS

(* The clients that may still be accepted have their numbers. *)
IdsLeft == backlog + nextConnId_ <= MaxConns + 1

(* The ring holds the virtual nodes of the threads started so far, since   *)
(* removeNode() hashes names that addNode() never hashed.                  *)
RingFull ==
    /\ \A n \in 1..Len(loops_) : Virtual("add", n) \subseteq sortedHashes_
    /\ \A h \in sortedHashes_ : \E n \in 1..Len(loops_) : h \in Virtual("add", n)
    /\ DOMAIN circle_ = sortedHashes_
    /\ Len(loops_) <= numThreads_
    /\ listenning_ => Ready

(* The end of main: no thread of the pool is quit before the base loop has *)
(* returned and the map is empty, the server goes after the last of them,  *)
(* and the application has let go of its pointer before.                   *)
EndOrder ==
    /\ \A n \in Nodes :
         loopState[n] # "looping" => ~Runs(baseLoop_) /\ connections_ = {}
    /\ \A n \in Nodes : ~Runs(n) => pendingFunctors_[n] = <<>>
    /\ server = "gone" => \A l \in Loops : ~Runs(l)
    /\ user.pc # "idle" => Runs(baseLoop_) /\ user.conn \in Accepted

(* What the state of a connection says of its callbacks and its channel. *)
Consistent(r) ==
    /\ r.state = "kConnecting" => r.ups = 0 /\ r.downs = 0 /\ ~r.registered
    /\ r.state # "kConnecting" => r.ups = 1
    /\ r.state = "kConnected" => r.registered
    /\ r.registered => r.state \in {"kConnected", "kDisconnecting"} /\ r.downs = 0

ConnsConsistent ==
    \A c \in Ids :
        Consistent(conn[c]) /\ (conn[c].state # "kConnecting" => c \in Accepted)

UserConsistent == user.pc # "idle" => conn[user.conn].ups = 1

(* A functor is queued in the loop of its connection, except the one that  *)
(* asks the base loop to take the connection out of the map.               *)
Placed(l, f) ==
    /\ f.conn \in Accepted
    /\ IF f.op = "removeConnectionInLoop"
       THEN l = baseLoop_ /\ conn[f.conn].loop # baseLoop_
       ELSE conn[f.conn].loop = l
    /\ f.op = "connectEstablished" => conn[f.conn].state = "kConnecting"

FunctorsPlaced ==
    \A l \in Loops : \A i \in 1..Len(pendingFunctors_[l]) :
        Placed(l, pendingFunctors_[l][i])

(* connectEstablished() is queued once, ahead of connectDestroyed(). *)
EstablishedFirst(q) ==
    \A i, j \in 1..Len(q) :
        /\ q[i].op = "connectEstablished"
        /\ q[j].op \in {"connectEstablished", "connectDestroyed"}
        /\ q[i].conn = q[j].conn
        => i <= j

(* A connectDestroyed() of c behind position i of a queue. *)
DestroyedBehind(q, c, i) ==
    \E j \in 1..Len(q) : j > i /\ q[j].op = "connectDestroyed" /\ q[j].conn = c

(* What a running loop still has to call is listed by the server, or a     *)
(* connectDestroyed() keeps it until that call has been made.              *)
Kept(q, c, i) == c \in connections_ \/ DestroyedBehind(q, c, i)

Needed(f) == f.op = "connectEstablished" \/ (f.op = "shutdownInLoop" /\ f.listed)

QueuesKeep ==
    \A l \in Loops :
        /\ EstablishedFirst(pendingFunctors_[l])
        /\ Runs(l) =>
             \A i \in 1..Len(pendingFunctors_[l]) :
                 Needed(pendingFunctors_[l][i])
                     => Kept(pendingFunctors_[l], pendingFunctors_[l][i].conn, i)

ChannelsKept ==
    \A c \in Ids :
        conn[c].registered /\ Runs(conn[c].loop)
            => Kept(pendingFunctors_[conn[c].loop], c, 0)

IInv ==
    /\ TypeOK /\ IdsLeft /\ RingFull /\ EndOrder
    /\ ConnsConsistent /\ UserConsistent /\ FunctorsPlaced
    /\ QueuesKeep /\ ChannelsKept

-----------------------------------------------------------------------------
(* The ring and the pool. *)

(* All virtual nodes have hash values, different for different names.      *)
LEMMA VirtualNodes ==
  ASSUME hashFunction_ \in HashFunctions
  PROVE  /\ \A n \in Nodes : Virtual("add", n) \subseteq 0..(RingSize - 1)
                              /\ Virtual("add", n) # {}
         /\ \A n, m \in Nodes : Virtual("add", n) \cap Virtual("remove", m) = {}
  <1>1. \A n \in Nodes, i \in Replicas :
          <<"add", n, i>> \in Names /\ <<"remove", n, i>> \in Names
    BY DEF Names
  <1>2. hashFunction_ \in [Names -> 0..(RingSize - 1)]
        /\ \A x, y \in Names : hashFunction_[x] = hashFunction_[y] => x = y
    BY HashAssumption
  <1>3. 0 \in Replicas
    BY SizeAssumption DEF Replicas
  <1>4. ASSUME NEW n \in Nodes
        PROVE  Virtual("add", n) \subseteq 0..(RingSize - 1) /\ Virtual("add", n) # {}
    <2>1. \A i \in Replicas : hashFunction_[<<"add", n, i>>] \in 0..(RingSize - 1)
      BY <1>1, <1>2, Zenon
    <2>2. hashFunction_[<<"add", n, 0>>] \in Virtual("add", n)
      BY <1>3, Zenon DEF Virtual
    <2>3. Virtual("add", n) \subseteq 0..(RingSize - 1)
      BY <2>1, Zenon DEF Virtual
    <2> QED
      BY <2>2, <2>3
  <1>5. ASSUME NEW n \in Nodes, NEW m \in Nodes, NEW i \in Replicas, NEW j \in Replicas
        PROVE  hashFunction_[<<"add", n, i>>] # hashFunction_[<<"remove", m, j>>]
    <2>1. <<"add", n, i>> # <<"remove", m, j>>
      OBVIOUS
    <2> QED
      BY <1>1, <1>2, <2>1, Zenon
  <1>6. \A n, m \in Nodes : Virtual("add", n) \cap Virtual("remove", m) = {}
    BY <1>5 DEF Virtual
  <1> QED
    BY <1>4, <1>6

(* The values in the ring are natural numbers below the size of the ring.  *)
LEMMA RingValues ==
  ASSUME TypeOK, RingFull
  PROVE  /\ sortedHashes_ \subseteq 0..(RingSize - 1)
         /\ sortedHashes_ \subseteq Nat
         /\ Ready => sortedHashes_ # {}
  <1>1. \A n \in 1..Len(loops_) : n \in Nodes
    BY SizeAssumption DEF TypeOK, RingFull, Nodes
  <1>2. sortedHashes_ \subseteq 0..(RingSize - 1)
    BY <1>1, VirtualNodes DEF TypeOK, RingFull
  <1>3. 0..(RingSize - 1) \subseteq Nat
    BY HashAssumption
  <1>4. Ready => sortedHashes_ # {}
    BY <1>1, VirtualNodes, SizeAssumption DEF TypeOK, RingFull, Ready
  <1> QED
    BY <1>2, <1>3, <1>4

(* std::upper_bound with the way back to the beginning finds a member.     *)
LEMMA UpperBoundFound ==
  ASSUME NEW h \in Nat, sortedHashes_ \subseteq Nat, sortedHashes_ # {}
  PROVE  LET above == {x \in sortedHashes_ : x > h}
         IN  /\ UpperBound(h) \in sortedHashes_
             /\ above = {} => \A y \in sortedHashes_ : UpperBound(h) <= y
             /\ above # {} => UpperBound(h) \in above /\ \A y \in above : UpperBound(h) <= y
  <1> DEFINE above == {x \in sortedHashes_ : x > h}
  <1>1. above \in SUBSET Nat /\ above \subseteq sortedHashes_
    OBVIOUS
  <1>2. CASE above = {}
    BY <1>2, LeastNatural DEF UpperBound
  <1>3. CASE above # {}
    <2> HIDE DEF above
    <2>1. Min(above) \in above /\ \A y \in above : Min(above) <= y
      BY <1>1, <1>3, LeastNatural
    <2>2. UpperBound(h) = Min(above)
      BY <1>3 DEF UpperBound, above
    <2> QED
      BY <1>1, <1>3, <2>1, <2>2 DEF above
  <1> QED
    BY <1>2, <1>3

(* The loop of a new connection is the base loop or a loop of the pool.    *)
LEMMA NextLoopExists ==
  ASSUME TypeOK, RingFull, Ready, NEW k \in Keys
  PROVE  getNextLoop(k) \in Loops
  <1>1. <<"key", k>> \in Names
    BY DEF Names
  <1>2. hashFunction_[<<"key", k>>] \in Nat
    BY <1>1, HashAssumption DEF TypeOK
  <1>3. getNode(k) \in Nat
    BY <1>2, RingValues, UpperBoundFound DEF getNode
  <1>4. CASE getNode(k) >= Len(loops_)
    BY <1>4 DEF getNextLoop, Loops
  <1>5. CASE ~(getNode(k) >= Len(loops_))
    <2>1. getNode(k) + 1 \in 1..Len(loops_)
      BY <1>3, <1>5 DEF TypeOK
    <2>2. loops_[getNode(k) + 1] \in Nodes
      BY <2>1 DEF TypeOK
    <2> QED
      BY <1>5, <2>2 DEF getNextLoop, Loops
  <1> QED
    BY <1>4, <1>5

(* RingFull in words of the code: what addNode() put in stays in.          *)
LEMMA RingStep ==
  ASSUME TypeOK, RingFull, [Next]_vars
  PROVE  RingFull'
  <1>0. UNCHANGED hashFunction_ => \A n : Virtual("add", n)' = Virtual("add", n)
    BY DEF Virtual
  <1>1. CASE StartPool
    <2>1. Len(loops_) \in Nat /\ Len(loops_') = Len(loops_) + 1 /\ hashFunction_' = hashFunction_
          /\ sortedHashes_' = sortedHashes_ \cup Virtual("add", Len(loops_) + 1)
          /\ DOMAIN circle_' = DOMAIN circle_ \cup Virtual("add", Len(loops_) + 1)
          /\ Len(loops_) # numThreads_ /\ listenning_' = listenning_
      BY <1>1, SizeAssumption DEF StartPool, StartThread, addNode, Ready, TypeOK, serverVars, acceptVars
    <2>2. 1..Len(loops_') = 1..Len(loops_) \cup {Len(loops_) + 1}
      BY <2>1
    <2>3. \A n : Virtual("add", n)' = Virtual("add", n)
      BY <2>1 DEF Virtual
    <2>4. \A n \in 1..Len(loops_') : Virtual("add", n)' \subseteq sortedHashes_'
      BY <2>1, <2>2, <2>3 DEF RingFull
    <2>5. \A h \in sortedHashes_' : \E n \in 1..Len(loops_') : h \in Virtual("add", n)'
      BY <2>1, <2>2, <2>3 DEF RingFull
    <2>6. Len(loops_') <= numThreads_ /\ (listenning_' => Ready')
      BY <2>1, SizeAssumption DEF RingFull, Ready
    <2>7. DOMAIN circle_' = sortedHashes_'
      BY <2>1 DEF RingFull
    <2> QED
      BY <2>4, <2>5, <2>6, <2>7 DEF RingFull
  <1>2. ASSUME NEW m \in Nodes, RemoveNode(m)
        PROVE  RingFull'
    <2>1. \A n \in 1..Len(loops_) : n \in Nodes
      BY SizeAssumption DEF TypeOK, RingFull, Nodes
    <2>2. sortedHashes_ \cap Virtual("remove", m) = {}
      BY <2>1, VirtualNodes DEF TypeOK, RingFull
    <2>3. sortedHashes_' = sortedHashes_ /\ DOMAIN circle_' = DOMAIN circle_
      BY <1>2, <2>2 DEF RemoveNode, removeNode, RingFull, Restrict
    <2>4. UNCHANGED <<hashFunction_, loops_, listenning_>>
      BY <1>2 DEF RemoveNode, serverVars, acceptVars
    <2> QED
      BY <1>0, <2>3, <2>4 DEF RingFull, Ready
  <1>3. CASE Listen
    <2>1. UNCHANGED <<hashFunction_, circle_, sortedHashes_, loops_>> /\ Ready
      BY <1>3 DEF Listen, poolVars
    <2> QED
      BY <1>0, <2>1 DEF RingFull, Ready
  <1>4. CASE UNCHANGED <<poolVars, listenning_>>
    <2>1. UNCHANGED <<hashFunction_, circle_, sortedHashes_, loops_, listenning_>>
      BY <1>4 DEF poolVars
    <2> QED
      BY <1>0, <2>1 DEF RingFull, Ready
  <1>5. StartPool \/ (\E m \in Nodes : RemoveNode(m)) \/ Listen \/ UNCHANGED <<poolVars, listenning_>>
    BY DEF Next, vars, serverVars, acceptVars, NewConnection, AcceptFails, RunFunctor, HandleClose,
       ShutdownTest, UserFinishes, ShutdownSet, ShutdownQueue, UserDrops, UserStep, ClientConnects,
       PeerCloses, Quit, Teardown, LoopReturns, Sweep, StopThread, ThreadEnds, ServerGone,
       BaseLoopGone, Waiting
  <1> QED
    BY <1>1, <1>2, <1>3, <1>4, <1>5

-----------------------------------------------------------------------------
(* Types. *)

(* A functor for a connection.                                             *)
LEMMA FunctorTyped ==
  ASSUME NEW op \in Ops, NEW c \in Ids
  PROVE  Functor(op, c) \in Functors
  BY DEF Functor, Functors

(* A queue with one functor more.                                          *)
LEMMA QueueTyped ==
  ASSUME TypeOK, NEW l \in Loops, NEW op \in Ops, NEW c \in Ids, queueInLoop(l, op, c)
  PROVE  /\ Functor(op, c) \in Functors
         /\ pendingFunctors_' \in [Loops -> Seq(Functors)]
         /\ pendingFunctors_'[l] = Append(pendingFunctors_[l], Functor(op, c))
         /\ \A k \in Loops \ {l} : pendingFunctors_'[k] = pendingFunctors_[k]
  <1>1. Functor(op, c) \in Functors
    BY FunctorTyped
  <1>2. pendingFunctors_ \in [Loops -> Seq(Functors)]
    BY DEF TypeOK
  <1>3. Append(pendingFunctors_[l], Functor(op, c)) \in Seq(Functors)
    BY <1>1, <1>2, AppendAt
  <1> QED
    BY <1>1, <1>2, <1>3 DEF queueInLoop

(* A queue of a loop that has run its first functor.                       *)
LEMMA QueuePopped ==
  ASSUME TypeOK, NEW l \in Loops, pendingFunctors_[l] # <<>>
  PROVE  LET q == [pendingFunctors_ EXCEPT ![l] = Tail(@)]
         IN  /\ q \in [Loops -> Seq(Functors)]
             /\ q[l] = Tail(pendingFunctors_[l])
             /\ \A k \in Loops \ {l} : q[k] = pendingFunctors_[k]
             /\ Head(pendingFunctors_[l]) \in Functors
             /\ Head(pendingFunctors_[l]) = pendingFunctors_[l][1]
  <1>1. pendingFunctors_ \in [Loops -> Seq(Functors)]
    BY DEF TypeOK
  <1>2. Tail(pendingFunctors_[l]) \in Seq(Functors) /\ Head(pendingFunctors_[l]) \in Functors
        /\ Head(pendingFunctors_[l]) = pendingFunctors_[l][1]
    BY <1>1, TailAt
  <1> QED
    BY <1>1, <1>2

(* The records that the callbacks of a connection leave.                   *)
LEMMA ConnsTyped ==
  ASSUME NEW r \in Conns
  PROVE  /\ connectEstablished(r) \in Conns /\ handleClose(r) \in Conns
         /\ connectDestroyed(r) \in Conns
         /\ [r EXCEPT !.state = "kDisconnecting"] \in Conns
         /\ [r EXCEPT !.peer = FALSE] \in Conns
  <1>1. connectEstablished(r) \in Conns
    <2>1. r.ups + 1 \in Nat
      BY DEF Conns
    <2>2. [r EXCEPT !.state = "kConnected", !.registered = TRUE, !.ups = r.ups + 1] \in Conns
      BY <2>1 DEF Conns, ConnStates
    <2> QED
      BY <2>2 DEF connectEstablished, Conns
  <1>2. handleClose(r) \in Conns
    <2>1. r.downs + 1 \in Nat
      BY DEF Conns
    <2>2. [r EXCEPT !.registered = FALSE, !.state = "kDisconnected", !.downs = r.downs + 1] \in Conns
      BY <2>1 DEF Conns, ConnStates
    <2> QED
      BY <2>2 DEF handleClose, Conns
  <1>3. [r EXCEPT !.registered = FALSE] \in Conns
    BY DEF Conns
  <1>4. connectDestroyed(r) \in Conns
    BY <1>2, <1>3 DEF connectDestroyed
  <1>5. [r EXCEPT !.state = "kDisconnecting"] \in Conns
    BY DEF Conns, ConnStates
  <1>6. [r EXCEPT !.peer = FALSE] \in Conns
    BY DEF Conns
  <1> QED
    BY <1>1, <1>2, <1>4, <1>5, <1>6

(* The fields of those records.                                            *)
LEMMA ConnFields ==
  ASSUME NEW r \in Conns
  PROVE  /\ LET e == connectEstablished(r)
            IN  e.loop = r.loop /\ e.state = "kConnected" /\ e.ups = r.ups + 1
                /\ e.downs = r.downs /\ e.registered = TRUE /\ e.peer = r.peer
         /\ LET e == handleClose(r)
            IN  e.loop = r.loop /\ e.state = "kDisconnected" /\ e.ups = r.ups
                /\ e.downs = r.downs + 1 /\ e.registered = FALSE /\ e.peer = r.peer
         /\ LET e == connectDestroyed(r)
            IN  /\ e.loop = r.loop /\ e.ups = r.ups /\ e.registered = FALSE /\ e.peer = r.peer
                /\ r.state = "kConnected" => e.state = "kDisconnected" /\ e.downs = r.downs + 1
                /\ r.state # "kConnected" => e.state = r.state /\ e.downs = r.downs
  BY DEF Conns, connectEstablished, handleClose, connectDestroyed

(* The bounds are positive numbers.                                        *)
LEMMA Bounds ==
  MaxConns \in Nat \ {0} /\ numThreads_ \in Nat \ {0}
  <1>1. MaxConns \in {MaxConns} \cup FdLimits /\ numThreads_ \in {numThreads_, numReplicas_}
    OBVIOUS
  <1> QED
    BY <1>1, BoundAssumption, SizeAssumption, Zenon

(* What the invariant says of the base loop and of the numbers.            *)
LEMMA Numbers ==
  ASSUME TypeOK
  PROVE  /\ Accepted = {c \in Nat : 0 < c /\ c < nextConnId_}
         /\ Ids = {c \in Nat : 0 < c /\ c <= MaxConns}
         /\ baseLoop_ \in Loops /\ baseLoop_ \notin Nodes /\ Nodes \subseteq Loops
  BY Bounds DEF TypeOK, Accepted, Ids, baseLoop_, Loops, Nodes

(* The next client gets a number that no connection has yet.               *)
LEMMA IdsTyped ==
  ASSUME TypeOK, IdsLeft
  PROVE  /\ Accepted \subseteq Ids
         /\ backlog > 0 => nextConnId_ \in Ids /\ nextConnId_ \notin Accepted
  <1>1. nextConnId_ \in Nat \ {0} /\ backlog \in Nat /\ backlog + nextConnId_ <= MaxConns + 1
    BY DEF TypeOK, IdsLeft
  <1> QED
    BY <1>1, Bounds DEF Accepted, Ids

(* The numbers of the clients.                                             *)
LEMMA IdsStep ==
  ASSUME TypeOK, IdsLeft, [Next]_vars
  PROVE  IdsLeft' /\ backlog' \in Nat /\ nextConnId_' \in Nat \ {0}
         /\ Accepted \subseteq Accepted'
  <1>1. ASSUME NEW k \in Keys, NewConnection(k)
        PROVE  /\ backlog > 0 /\ backlog' = backlog - 1 /\ nextConnId_' = nextConnId_ + 1
    BY <1>1 DEF NewConnection, Readable
  <1>2. CASE ClientConnects
    BY <1>2, Bounds DEF ClientConnects, IdsLeft, TypeOK, Accepted
  <1>3. CASE UNCHANGED <<backlog, nextConnId_>>
    BY <1>3 DEF IdsLeft, TypeOK, Accepted
  <1>4. (\E k \in Keys : NewConnection(k)) \/ ClientConnects \/ UNCHANGED <<backlog, nextConnId_>>
    BY DEF Next, vars, serverVars, acceptVars, StartPool, RemoveNode, Listen, AcceptFails, RunFunctor, HandleClose,
       ShutdownTest, UserFinishes, ShutdownSet, ShutdownQueue, UserDrops, UserStep,
       PeerCloses, Quit, Teardown, LoopReturns, Sweep, StopThread, ThreadEnds, ServerGone,
       BaseLoopGone, Waiting
  <1> QED
    BY <1>1, <1>2, <1>3, <1>4, Bounds DEF IdsLeft, TypeOK, Accepted

(* The types of the pool.                                                  *)
LEMMA PoolTypeStep ==
  ASSUME TypeOK, RingFull, [Next]_vars
  PROVE  hashFunction_' \in HashFunctions /\ loops_' \in Seq(Nodes) /\ listenning_' \in BOOLEAN
  <1>1. CASE StartPool
    <2>1. Len(loops_) + 1 \in Nodes
      BY <1>1, SizeAssumption DEF StartPool, StartThread, Ready, TypeOK, RingFull, Nodes
    <2> QED
      BY <1>1, <2>1 DEF StartPool, StartThread, TypeOK, serverVars, acceptVars
  <1>2. CASE Listen
    BY <1>2 DEF Listen, TypeOK, poolVars
  <1>3. CASE UNCHANGED <<hashFunction_, loops_, listenning_>>
    BY <1>3 DEF TypeOK
  <1>4. StartPool \/ Listen \/ UNCHANGED <<hashFunction_, loops_, listenning_>>
    BY DEF Next, vars, serverVars, acceptVars, poolVars, RemoveNode, NewConnection, AcceptFails, RunFunctor,
       HandleClose, ShutdownTest, UserFinishes, ShutdownSet, ShutdownQueue, UserDrops, UserStep,
       ClientConnects, PeerCloses, Quit, Teardown, LoopReturns, Sweep, StopThread, ThreadEnds,
       ServerGone, BaseLoopGone, Waiting
  <1> QED
    BY <1>1, <1>2, <1>3, <1>4

-----------------------------------------------------------------------------
(* Queues. *)

(* A functor at the end of a queue leaves every connectDestroyed() where   *)
(* it was, and a connectDestroyed() there is behind everything else.       *)
LEMMA AppendBehind ==
  ASSUME NEW q \in Seq(Functors), NEW x \in Functors, NEW c
  PROVE  /\ \A i \in Nat : DestroyedBehind(q, c, i) => DestroyedBehind(Append(q, x), c, i)
         /\ x.op = "connectDestroyed" /\ x.conn = c
              => \A i \in 0..Len(q) : DestroyedBehind(Append(q, x), c, i)
  <1>1. Len(q) \in Nat /\ Len(Append(q, x)) = Len(q) + 1 /\ Append(q, x)[Len(q) + 1] = x
        /\ \A i \in 1..Len(q) : Append(q, x)[i] = q[i]
    BY AppendAt
  <1> DEFINE a == Append(q, x)
  <1> HIDE DEF a
  <1>2. Len(q) \in Nat /\ Len(a) = Len(q) + 1 /\ a[Len(q) + 1] = x /\ \A i \in 1..Len(q) : a[i] = q[i]
    BY <1>1 DEF a
  <1>3. \A i \in Nat : DestroyedBehind(q, c, i) => DestroyedBehind(a, c, i)
    BY <1>2 DEF DestroyedBehind
  <1>4. x.op = "connectDestroyed" /\ x.conn = c => \A i \in 0..Len(q) : DestroyedBehind(a, c, i)
    BY <1>2 DEF DestroyedBehind
  <1> QED
    BY <1>3, <1>4 DEF a

(* connectEstablished() is still first behind a functor that is no         *)
(* connectEstablished(), or one of a connection that has no functor yet.   *)
LEMMA AppendFirst ==
  ASSUME NEW q \in Seq(Functors), NEW x \in Functors, EstablishedFirst(q),
         x.op # "connectEstablished" \/ \A i \in 1..Len(q) : q[i].conn # x.conn
  PROVE  EstablishedFirst(Append(q, x))
  <1> DEFINE a == Append(q, x)
  <1> HIDE DEF a
  <1>1. Len(q) \in Nat /\ Len(a) = Len(q) + 1 /\ a[Len(q) + 1] = x /\ \A i \in 1..Len(q) : a[i] = q[i]
    BY AppendAt DEF a
  <1>2. EstablishedFirst(a)
    BY <1>1 DEF EstablishedFirst
  <1> QED
    BY <1>2 DEF a

(* Taking the first functor off moves the others up.                       *)
LEMMA TailBehind ==
  ASSUME NEW q \in Seq(Functors), q # <<>>, NEW c
  PROVE  /\ \A i \in Nat : DestroyedBehind(q, c, i + 1) => DestroyedBehind(Tail(q), c, i)
         /\ DestroyedBehind(q, c, 0) /\ ~(Head(q).op = "connectDestroyed" /\ Head(q).conn = c)
              => DestroyedBehind(Tail(q), c, 0)
         /\ EstablishedFirst(q) => EstablishedFirst(Tail(q))
  <1> DEFINE t == Tail(q)
  <1> HIDE DEF t
  <1>1. Len(q) \in Nat \ {0} /\ Len(t) = Len(q) - 1 /\ Head(q) = q[1]
        /\ \A i \in 1..Len(t) : t[i] = q[i + 1]
    BY TailAt DEF t
  <1>2. ASSUME NEW i \in Nat, DestroyedBehind(q, c, i + 1)
        PROVE  DestroyedBehind(t, c, i)
    <2>1. PICK j \in 1..Len(q) : j > i + 1 /\ q[j].op = "connectDestroyed" /\ q[j].conn = c
      BY <1>2 DEF DestroyedBehind
    <2>2. j - 1 \in 1..Len(t) /\ j - 1 > i /\ t[j - 1] = q[(j - 1) + 1] /\ (j - 1) + 1 = j
      BY <1>1, <2>1
    <2> QED
      BY <2>1, <2>2 DEF DestroyedBehind
  <1>3. ASSUME DestroyedBehind(q, c, 0), ~(Head(q).op = "connectDestroyed" /\ Head(q).conn = c)
        PROVE  DestroyedBehind(t, c, 0)
    <2>1. PICK j \in 1..Len(q) : q[j].op = "connectDestroyed" /\ q[j].conn = c
      BY <1>3 DEF DestroyedBehind
    <2>2. j # 1
      BY <1>1, <1>3, <2>1
    <2>3. j - 1 \in 1..Len(t) /\ j - 1 > 0 /\ t[j - 1] = q[(j - 1) + 1] /\ (j - 1) + 1 = j
      BY <1>1, <2>1, <2>2
    <2> QED
      BY <2>1, <2>3 DEF DestroyedBehind
  <1>4. ASSUME EstablishedFirst(q)
        PROVE  EstablishedFirst(t)
    <2>1. \A i \in 1..Len(t) : i + 1 \in 1..Len(q)
      BY <1>1
    <2> QED
      BY <1>1, <1>4, <2>1 DEF EstablishedFirst
  <1> QED
    BY <1>2, <1>3, <1>4 DEF t

(* A functor stays placed while its connection keeps its loop and is not   *)
(* established.                                                            *)
LEMMA StaysPlaced ==
  ASSUME NEW l \in Loops, NEW f \in Functors, Placed(l, f), Accepted \subseteq Accepted',
         conn'[f.conn].loop = conn[f.conn].loop,
         f.op = "connectEstablished" /\ conn[f.conn].state = "kConnecting"
           => conn'[f.conn].state = "kConnecting"
  PROVE  Placed(l, f)'
  BY DEF Placed

(* What a queue holds.                                                     *)
LEMMA QueueItem ==
  ASSUME TypeOK, FunctorsPlaced, NEW l \in Loops, NEW i \in 1..Len(pendingFunctors_[l])
  PROVE  /\ pendingFunctors_[l][i] \in Functors /\ pendingFunctors_[l][i].conn \in Ids
         /\ Placed(l, pendingFunctors_[l][i]) /\ pendingFunctors_[l][i].conn \in Accepted
  <1>1. pendingFunctors_[l] \in Seq(Functors)
    BY DEF TypeOK
  <1>2. pendingFunctors_[l][i] \in Functors
    BY <1>1
  <1> QED
    BY <1>2 DEF FunctorsPlaced, Placed, Functors

(* A step that leaves the queues alone: a connection goes out of the map   *)
(* only when its loop has ended, and a channel is registered only for one  *)
(* that is in the map.                                                     *)
LEMMA QuietStep ==
  ASSUME TypeOK, FunctorsPlaced, QueuesKeep, ChannelsKept,
         UNCHANGED pendingFunctors_, Accepted \subseteq Accepted',
         \A l \in Loops : Runs(l)' => Runs(l),
         \A d \in Accepted :
            /\ conn'[d].loop = conn[d].loop
            /\ conn[d].state = "kConnecting" => conn'[d].state = "kConnecting"
            /\ d \in connections_ /\ Runs(conn[d].loop)' => d \in connections_',
         \A d \in Ids :
            conn'[d].registered
              => \/ conn[d].registered /\ d \in Accepted
                 \/ d \in connections_'
  PROVE  FunctorsPlaced' /\ QueuesKeep' /\ ChannelsKept'
  <1>1. FunctorsPlaced'
    <2> SUFFICES ASSUME NEW l \in Loops, NEW i \in 1..Len(pendingFunctors_[l])
                 PROVE  Placed(l, pendingFunctors_[l][i])'
      BY DEF FunctorsPlaced
    <2>1. PICK f \in Functors : f = pendingFunctors_[l][i] /\ Placed(l, f) /\ f.conn \in Accepted
      BY QueueItem
    <2>2. Placed(l, f)'
      BY <2>1, StaysPlaced
    <2> QED
      BY <2>1, <2>2
  <1>2. ASSUME NEW l \in Loops, Runs(l)', NEW d \in Accepted, conn[d].loop = l,
               NEW i, Kept(pendingFunctors_[l], d, i)
        PROVE  Kept(pendingFunctors_[l], d, i)'
    BY <1>2 DEF Kept, DestroyedBehind
  <1>3. ASSUME NEW l \in Loops, Runs(l)', NEW i \in 1..Len(pendingFunctors_[l]),
               Needed(pendingFunctors_[l][i])
        PROVE  Kept(pendingFunctors_[l], pendingFunctors_[l][i].conn, i)'
    <2>1. PICK f \in Functors : f = pendingFunctors_[l][i] /\ Placed(l, f) /\ f.conn \in Accepted
      BY QueueItem
    <2>2. Kept(pendingFunctors_[l], f.conn, i) /\ conn[f.conn].loop = l
      BY <1>3, <2>1 DEF QueuesKeep, Needed, Placed
    <2> QED
      BY <1>2, <1>3, <2>1, <2>2
  <1>4. QueuesKeep'
    BY <1>3 DEF QueuesKeep, Needed, EstablishedFirst
  <1>5. ASSUME NEW d \in Ids, conn'[d].registered, Runs(conn[d].loop)'
        PROVE  Kept(pendingFunctors_[conn[d].loop], d, 0)'
    <2>1. CASE d \in connections_'
      BY <2>1 DEF Kept
    <2>2. CASE conn[d].registered /\ d \in Accepted
      <3>1. conn'[d].loop = conn[d].loop /\ conn[d].loop \in Loops
        BY <2>2 DEF TypeOK, Conns
      <3>2. Kept(pendingFunctors_[conn[d].loop], d, 0)
        BY <1>5, <2>2, <3>1 DEF ChannelsKept
      <3> QED
        BY <1>2, <1>5, <2>2, <3>1, <3>2
    <2> QED
      BY <1>5, <2>1, <2>2
  <1> QED
    BY <1>1, <1>4, <1>5 DEF ChannelsKept

(* A step that drops the queue of a loop that does not run.                *)
LEMMA DropStep ==
  ASSUME TypeOK, FunctorsPlaced, QueuesKeep, ChannelsKept, NEW l \in Loops, ~Runs(l)',
         pendingFunctors_' = [pendingFunctors_ EXCEPT ![l] = <<>>],
         UNCHANGED <<conn, connections_, nextConnId_>>,
         \A k \in Loops : Runs(k)' => Runs(k)
  PROVE  FunctorsPlaced' /\ QueuesKeep' /\ ChannelsKept'
  <1>1. pendingFunctors_'[l] = <<>> /\ \A k \in Loops \ {l} : pendingFunctors_'[k] = pendingFunctors_[k]
    BY DEF TypeOK
  <1>2. \A k \in Loops : \A f : Placed(k, f) => Placed(k, f)'
    BY DEF Placed, Accepted
  <1>3. FunctorsPlaced'
    BY <1>1, <1>2 DEF FunctorsPlaced
  <1>4. QueuesKeep'
    BY <1>1 DEF QueuesKeep, Needed, Kept, DestroyedBehind, EstablishedFirst
  <1>5. ChannelsKept'
    BY <1>1 DEF ChannelsKept, Kept, DestroyedBehind, TypeOK, Conns
  <1> QED
    BY <1>3, <1>4, <1>5

(* A step that queues one functor, and possibly takes its connection out   *)
(* of the map.                                                             *)
LEMMA AppendStep ==
  ASSUME TypeOK, FunctorsPlaced, QueuesKeep, ChannelsKept,
         NEW l \in Loops, NEW op \in Ops, NEW c \in Ids, queueInLoop(l, op, c),
         Accepted \subseteq Accepted', c \in Accepted',
         \A k \in Loops : Runs(k)' => Runs(k),
         \A d \in Accepted :
            /\ conn'[d].loop = conn[d].loop
            /\ conn[d].state = "kConnecting" => conn'[d].state = "kConnecting",
         \A d \in Ids : conn[d].registered => d \in Accepted,
         \A d \in Ids :
            conn'[d].registered
              => \/ conn[d].registered /\ conn'[d].loop = conn[d].loop
                 \/ d \in connections_',
         IF op = "removeConnectionInLoop" THEN l = baseLoop_ /\ conn'[c].loop # baseLoop_
                                          ELSE conn'[c].loop = l,
         op = "connectEstablished" =>
            conn'[c].state = "kConnecting" /\ c \notin Accepted /\ c \in connections_',
         op = "shutdownInLoop" => connections_ \subseteq connections_',
         \/ connections_ \subseteq connections_'
         \/ connections_' = connections_ \ {c} /\ op = "connectDestroyed"
  PROVE  FunctorsPlaced' /\ QueuesKeep' /\ ChannelsKept'
  <1>1. PICK x \in Functors :
          /\ x.op = op /\ x.conn = c /\ (x.listed => c \in connections_)
          /\ pendingFunctors_'[l] = Append(pendingFunctors_[l], x)
    BY QueueTyped DEF Functor
  <1>2. /\ pendingFunctors_' \in [Loops -> Seq(Functors)]
        /\ pendingFunctors_ \in [Loops -> Seq(Functors)]
        /\ \A k \in Loops \ {l} : pendingFunctors_'[k] = pendingFunctors_[k]
    BY QueueTyped DEF TypeOK
  <1>3. /\ Len(pendingFunctors_[l]) \in Nat
        /\ Len(pendingFunctors_'[l]) = Len(pendingFunctors_[l]) + 1
        /\ pendingFunctors_'[l][Len(pendingFunctors_[l]) + 1] = x
        /\ \A i \in 1..Len(pendingFunctors_[l]) : pendingFunctors_'[l][i] = pendingFunctors_[l][i]
    BY <1>1, <1>2, AppendAt
  <1>4. Placed(l, x)'
    BY <1>1 DEF Placed
  <1>5. ASSUME NEW k \in Loops, NEW i \in 1..Len(pendingFunctors_[k])
        PROVE  /\ Placed(k, pendingFunctors_[k][i]) /\ pendingFunctors_[k][i] \in Functors
               /\ pendingFunctors_'[k][i] = pendingFunctors_[k][i]
               /\ Placed(k, pendingFunctors_[k][i])'
    <2>1. PICK f \in Functors : f = pendingFunctors_[k][i] /\ Placed(k, f) /\ f.conn \in Accepted
      BY QueueItem
    <2>2. Placed(k, f)'
      BY <2>1, StaysPlaced
    <2>3. pendingFunctors_'[k][i] = f
      BY <1>2, <1>3, <2>1
    <2> QED
      BY <2>1, <2>2, <2>3
  <1>6. ASSUME NEW k \in Loops, NEW i \in 1..Len(pendingFunctors_'[k])
        PROVE  \/ i \in 1..Len(pendingFunctors_[k])
               \/ k = l /\ i = Len(pendingFunctors_[l]) + 1 /\ pendingFunctors_'[k][i] = x
    BY <1>2, <1>3
  <1>7. FunctorsPlaced'
    <2> SUFFICES ASSUME NEW k \in Loops, NEW i \in 1..Len(pendingFunctors_'[k])
                 PROVE  Placed(k, pendingFunctors_[k][i])'
      BY DEF FunctorsPlaced
    <2> QED
      BY <1>4, <1>5, <1>6
  <1>8. ASSUME NEW k \in Loops, NEW d \in Accepted, NEW i \in 0..Len(pendingFunctors_[k]),
               conn[d].loop = k, Kept(pendingFunctors_[k], d, i)
        PROVE  Kept(pendingFunctors_[k], d, i)'
    <2>1. i \in Nat
      BY <1>2
    <2>2. DestroyedBehind(pendingFunctors_[k], d, i) => DestroyedBehind(pendingFunctors_'[k], d, i)
      <3>1. pendingFunctors_[l] \in Seq(Functors)
        BY <1>2
      <3>2. CASE k = l
        BY <1>1, <2>1, <3>1, <3>2, AppendBehind
      <3>3. CASE k # l
        BY <1>2, <3>3
      <3> QED
        BY <3>2, <3>3
    <2>3. CASE connections_ \subseteq connections_'
      BY <1>8, <2>2, <2>3 DEF Kept
    <2>4. CASE connections_' = connections_ \ {c} /\ op = "connectDestroyed"
      <3>1. CASE d = c
        <4>1. k = l
          BY <1>8, <2>4, <3>1
        <4>2. x.op = "connectDestroyed" /\ x.conn = d /\ i \in 0..Len(pendingFunctors_[l])
              /\ pendingFunctors_[l] \in Seq(Functors)
          BY <1>1, <1>2, <2>4, <3>1, <4>1
        <4>3. DestroyedBehind(pendingFunctors_'[k], d, i)
          BY <1>1, <4>1, <4>2, AppendBehind
        <4> QED
          BY <4>3 DEF Kept
      <3>2. CASE d # c
        BY <1>8, <2>2, <2>4, <3>2 DEF Kept
      <3> QED
        BY <3>1, <3>2
    <2> QED
      BY <2>3, <2>4
  <1>9. QueuesKeep'
    <2>1. ASSUME NEW k \in Loops
          PROVE  EstablishedFirst(pendingFunctors_'[k])
      <3>1. EstablishedFirst(pendingFunctors_[k])
        BY DEF QueuesKeep
      <3>2. CASE k = l
        <4>1. x.op = "connectEstablished" => \A i \in 1..Len(pendingFunctors_[k]) : pendingFunctors_[k][i].conn # x.conn
          BY <1>1, QueueItem
        <4>2. pendingFunctors_[l] \in Seq(Functors)
          BY <1>2
        <4>3. EstablishedFirst(Append(pendingFunctors_[l], x))
          BY <3>1, <3>2, <4>1, <4>2, AppendFirst
        <4> QED
          BY <1>1, <3>2, <4>3
      <3>3. CASE k # l
        BY <1>2, <3>1, <3>3
      <3> QED
        BY <3>2, <3>3
    <2>2. ASSUME NEW k \in Loops, Runs(k)', NEW i \in 1..Len(pendingFunctors_'[k]),
                 Needed(pendingFunctors_'[k][i])
          PROVE  Kept(pendingFunctors_[k], pendingFunctors_[k][i].conn, i)'
      <3>1. CASE i \in 1..Len(pendingFunctors_[k])
        <4>1. PICK f \in Functors : f = pendingFunctors_[k][i] /\ Placed(k, f) /\ f.conn \in Accepted
                                     /\ pendingFunctors_'[k][i] = f
          BY <1>5, <3>1, QueueItem
        <4>2. Kept(pendingFunctors_[k], f.conn, i) /\ conn[f.conn].loop = k
          BY <2>2, <3>1, <4>1 DEF QueuesKeep, Needed, Placed
        <4>3. i \in 0..Len(pendingFunctors_[k])
          BY <1>2, <3>1
        <4> QED
          BY <1>8, <4>1, <4>2, <4>3
      <3>2. CASE pendingFunctors_'[k][i] = x
        <4>1. c \in connections_'
          BY <1>1, <2>2, <3>2 DEF Needed
        <4> QED
          BY <1>1, <3>2, <4>1 DEF Kept
      <3> QED
        BY <1>6, <3>1, <3>2
    <2> QED
      BY <2>1, <2>2 DEF QueuesKeep, Needed, EstablishedFirst
  <1>10. ChannelsKept'
    <2> SUFFICES ASSUME NEW d \in Ids, conn'[d].registered, Runs(conn[d].loop)'
                 PROVE  Kept(pendingFunctors_[conn[d].loop], d, 0)'
      BY DEF ChannelsKept
    <2>1. CASE d \in connections_'
      BY <2>1 DEF Kept
    <2>2. CASE conn[d].registered /\ conn'[d].loop = conn[d].loop
      <3>1. d \in Accepted /\ conn[d].loop \in Loops
        BY <2>2 DEF TypeOK, Conns
      <3>2. Kept(pendingFunctors_[conn[d].loop], d, 0) /\ 0 \in 0..Len(pendingFunctors_[conn[d].loop])
        BY <1>2, <2>2, <3>1 DEF ChannelsKept
      <3> QED
        BY <1>8, <2>2, <3>1, <3>2
    <2> QED
      BY <2>1, <2>2
  <1> QED
    BY <1>7, <1>9, <1>10

(* A loop runs the first functor of its queue; removeConnectionInLoop()    *)
(* takes its connection out of the map and queues connectDestroyed() in    *)
(* the loop of the connection, which is another one.                       *)
LEMMA RunStep ==
  ASSUME TypeOK, IdsLeft, ConnsConsistent, FunctorsPlaced, QueuesKeep, ChannelsKept,
         NEW l \in Loops, RunFunctor(l)
  PROVE  FunctorsPlaced' /\ QueuesKeep' /\ ChannelsKept'
  <1>1. PICK f \in Functors :
          /\ f = Head(pendingFunctors_[l]) /\ f = pendingFunctors_[l][1]
          /\ 1 \in 1..Len(pendingFunctors_[l])
          /\ Placed(l, f) /\ f.conn \in Ids /\ f.conn \in Accepted
    <2>1. pendingFunctors_[l] \in Seq(Functors) /\ pendingFunctors_[l] # <<>>
      BY DEF RunFunctor, TypeOK
    <2>2. 1 \in 1..Len(pendingFunctors_[l]) /\ Head(pendingFunctors_[l]) = pendingFunctors_[l][1]
      BY <2>1, TailAt
    <2> QED
      BY <2>2, QueueItem
  <1>2. pendingFunctors_ \in [Loops -> Seq(Functors)] /\ pendingFunctors_[l] # <<>>
        /\ conn \in [Ids -> Conns] /\ conn[f.conn] \in Conns /\ conn[f.conn].loop \in Loops
    BY <1>1 DEF RunFunctor, TypeOK, Conns
  <1>3. UNCHANGED <<nextConnId_, loopState>>
    BY DEF RunFunctor, acceptVars
  <1>4. /\ \A d \in Ids : conn'[d].loop = conn[d].loop
        /\ \A d \in Ids : conn[d].state = "kConnecting"
             => conn'[d].state = "kConnecting" \/ (f.op = "connectEstablished" /\ d = f.conn)
        /\ \A d \in Ids : conn'[d].registered
             => \/ conn[d].registered /\ ~(f.op = "connectDestroyed" /\ d = f.conn)
                \/ f.op = "connectEstablished" /\ d = f.conn
    <2>1. CASE f.op = "connectEstablished"
      <3>1. conn' = [conn EXCEPT ![f.conn] = connectEstablished(conn[f.conn])]
        BY <1>1, <2>1 DEF RunFunctor
      <3>2. conn'[f.conn] = connectEstablished(conn[f.conn])
            /\ \A d \in Ids \ {f.conn} : conn'[d] = conn[d]
        BY <1>1, <1>2, <3>1
      <3>3. conn'[f.conn].loop = conn[f.conn].loop
            /\ conn'[f.conn].registered = TRUE
        BY <1>1, <1>2, <3>2, ConnFields
      <3> QED
        BY <1>1, <2>1, <3>2, <3>3
    <2>2. CASE f.op = "connectDestroyed"
      <3>1. conn' = [conn EXCEPT ![f.conn] = connectDestroyed(conn[f.conn])]
        BY <1>1, <2>2 DEF RunFunctor
      <3>2. conn'[f.conn] = connectDestroyed(conn[f.conn])
            /\ \A d \in Ids \ {f.conn} : conn'[d] = conn[d]
        BY <1>1, <1>2, <3>1
      <3>3. conn'[f.conn].loop = conn[f.conn].loop
            /\ (conn[f.conn].state = "kConnecting" => conn'[f.conn].state = "kConnecting")
            /\ conn'[f.conn].registered = FALSE
        BY <1>1, <1>2, <3>2, ConnFields
      <3> QED
        BY <1>1, <2>2, <3>2, <3>3
    <2>3. CASE f.op \notin {"connectEstablished", "connectDestroyed"}
      BY <1>1, <2>3 DEF RunFunctor
    <2> QED
      BY <2>1, <2>2, <2>3
  <1>5. PICK x \in Functors : x.op = "connectDestroyed" /\ x.conn = f.conn
          /\ x = Functor("connectDestroyed", f.conn)
    <2>1. Functor("connectDestroyed", f.conn) \in Functors
      BY <1>1, FunctorTyped DEF Ops
    <2> QED
      BY <2>1 DEF Functor
  <1>6. /\ pendingFunctors_'[l] = Tail(pendingFunctors_[l])
        /\ \A k \in Loops \ {l} :
             IF f.op = "removeConnectionInLoop" /\ k = conn[f.conn].loop
             THEN pendingFunctors_'[k] = Append(pendingFunctors_[k], x)
             ELSE pendingFunctors_'[k] = pendingFunctors_[k]
        /\ connections_' = IF f.op = "removeConnectionInLoop" THEN connections_ \ {f.conn}
                                                              ELSE connections_
        /\ f.op = "removeConnectionInLoop" => conn[f.conn].loop # l
    <2> DEFINE p == [pendingFunctors_ EXCEPT ![l] = Tail(@)]
    <2>1. p \in [Loops -> Seq(Functors)] /\ p[l] = Tail(pendingFunctors_[l])
          /\ \A k \in Loops \ {l} : p[k] = pendingFunctors_[k]
      BY <1>2, QueuePopped
    <2>2. IF f.op = "removeConnectionInLoop"
          THEN /\ connections_' = connections_ \ {f.conn}
               /\ pendingFunctors_' = [p EXCEPT ![conn[f.conn].loop] = Append(@, x)]
          ELSE pendingFunctors_' = p /\ connections_' = connections_
      BY <1>1, <1>5 DEF RunFunctor, Erased
    <2>3. f.op = "removeConnectionInLoop" => conn[f.conn].loop # l
      BY <1>1 DEF Placed
    <2> HIDE DEF p
    <2>4. CASE f.op = "removeConnectionInLoop"
      <3>1. pendingFunctors_' = [p EXCEPT ![conn[f.conn].loop] = Append(@, x)]
        BY <2>2, <2>4
      <3>2. pendingFunctors_'[conn[f.conn].loop] = Append(p[conn[f.conn].loop], x)
            /\ \A k \in Loops \ {conn[f.conn].loop} : pendingFunctors_'[k] = p[k]
        BY <1>2, <2>1, <3>1
      <3> QED
        BY <1>2, <2>1, <2>2, <2>3, <2>4, <3>2
    <2>5. CASE f.op # "removeConnectionInLoop"
      BY <2>1, <2>2, <2>5
    <2> QED
      BY <2>4, <2>5
  <1>7. /\ Len(pendingFunctors_[l]) \in Nat \ {0}
        /\ Len(pendingFunctors_'[l]) = Len(pendingFunctors_[l]) - 1
        /\ \A i \in 1..Len(pendingFunctors_'[l]) :
             pendingFunctors_'[l][i] = pendingFunctors_[l][i + 1] /\ i + 1 \in 1..Len(pendingFunctors_[l])
    BY <1>2, <1>6, TailAt
  <1>8. ASSUME NEW k \in Loops \ {l}, NEW i \in 1..Len(pendingFunctors_'[k])
        PROVE  \/ i \in 1..Len(pendingFunctors_[k]) /\ pendingFunctors_'[k][i] = pendingFunctors_[k][i]
               \/ pendingFunctors_'[k][i] = x /\ k = conn[f.conn].loop
    <2>1. pendingFunctors_[k] \in Seq(Functors)
      BY <1>2
    <2>2. CASE f.op = "removeConnectionInLoop" /\ k = conn[f.conn].loop
      <3>1. pendingFunctors_'[k] = Append(pendingFunctors_[k], x)
        BY <1>6, <2>2
      <3>2. /\ Len(pendingFunctors_[k]) \in Nat /\ Len(pendingFunctors_'[k]) = Len(pendingFunctors_[k]) + 1
            /\ pendingFunctors_'[k][Len(pendingFunctors_[k]) + 1] = x
            /\ \A j \in 1..Len(pendingFunctors_[k]) : pendingFunctors_'[k][j] = pendingFunctors_[k][j]
        BY <2>1, <3>1, AppendAt
      <3> QED
        BY <2>2, <3>2
    <2>3. CASE ~(f.op = "removeConnectionInLoop" /\ k = conn[f.conn].loop)
      BY <1>6, <2>3
    <2> QED
      BY <2>2, <2>3
  <1>9. FunctorsPlaced'
    <2>1. ASSUME NEW k \in Loops, NEW i \in 1..Len(pendingFunctors_[k]),
                 k = l => i > 1
          PROVE  Placed(k, pendingFunctors_[k][i]) /\ \A g : g = pendingFunctors_[k][i] => Placed(k, g)'
      <3>1. PICK g \in Functors : g = pendingFunctors_[k][i] /\ Placed(k, g) /\ g.conn \in Accepted /\ g.conn \in Ids
        BY QueueItem
      <3>2. ~(g.op = "connectEstablished" /\ f.op = "connectEstablished" /\ g.conn = f.conn)
        <4>1. SUFFICES ASSUME g.op = "connectEstablished", f.op = "connectEstablished", g.conn = f.conn
                       PROVE  FALSE
          OBVIOUS
        <4>2. k = l
          BY <1>1, <3>1, <4>1 DEF Placed
        <4>3. EstablishedFirst(pendingFunctors_[l])
          BY DEF QueuesKeep
        <4>4. i <= 1
          BY <1>1, <3>1, <4>1, <4>2, <4>3 DEF EstablishedFirst
        <4> QED
          BY <1>7, <2>1, <4>2, <4>4
      <3>3. Accepted' = Accepted
        BY <1>3 DEF Accepted
      <3>4. Placed(k, g)'
        BY <1>4, <3>1, <3>2, <3>3, StaysPlaced
      <3> QED
        BY <3>1, <3>4
    <2>2. ASSUME NEW k \in Loops, k = conn[f.conn].loop
          PROVE  Placed(k, x)'
      <3>1. Accepted' = Accepted /\ conn'[f.conn].loop = conn[f.conn].loop
        BY <1>1, <1>3, <1>4 DEF Accepted
      <3> QED
        BY <1>1, <1>5, <2>2, <3>1 DEF Placed
    <2> SUFFICES ASSUME NEW k \in Loops, NEW i \in 1..Len(pendingFunctors_'[k])
                 PROVE  Placed(k, pendingFunctors_[k][i])'
      BY DEF FunctorsPlaced
    <2>3. CASE k = l
      <3>1. i + 1 \in 1..Len(pendingFunctors_[l]) /\ i + 1 > 1
            /\ pendingFunctors_'[l][i] = pendingFunctors_[l][i + 1]
        BY <1>7, <2>3
      <3> QED
        BY <2>1, <2>3, <3>1
    <2>4. CASE k # l
      BY <1>8, <2>1, <2>2, <2>4
    <2> QED
      BY <2>3, <2>4
  <1>10. ASSUME NEW d \in Accepted, conn[d].loop = l, NEW i \in Nat,
                \/ Kept(pendingFunctors_[l], d, i + 1)
                \/ /\ i = 0 /\ Kept(pendingFunctors_[l], d, 0)
                   /\ ~(f.op = "connectDestroyed" /\ d = f.conn)
         PROVE  Kept(pendingFunctors_[l], d, i)'
    <2>1. d \in connections_ => d \in connections_'
      BY <1>6, <1>10
    <2>2. CASE Kept(pendingFunctors_[l], d, i + 1)
      <3>1. DestroyedBehind(pendingFunctors_[l], d, i + 1) => DestroyedBehind(pendingFunctors_'[l], d, i)
        BY <1>2, <1>6, TailBehind
      <3> QED
        BY <2>1, <2>2, <3>1 DEF Kept
    <2>3. CASE i = 0 /\ Kept(pendingFunctors_[l], d, 0) /\ ~(f.op = "connectDestroyed" /\ d = f.conn)
      <3>1. DestroyedBehind(pendingFunctors_[l], d, 0) => DestroyedBehind(pendingFunctors_'[l], d, 0)
        BY <1>1, <1>2, <1>6, <2>3, TailBehind
      <3> QED
        BY <2>1, <2>3, <3>1 DEF Kept
    <2> QED
      BY <1>10, <2>2, <2>3
  <1>11. ASSUME NEW k \in Loops \ {l}, NEW d \in Accepted, conn[d].loop = k,
                NEW i \in 0..Len(pendingFunctors_[k]), Kept(pendingFunctors_[k], d, i)
         PROVE  Kept(pendingFunctors_[k], d, i)'
    <2>1. pendingFunctors_[k] \in Seq(Functors) /\ i \in Nat
      BY <1>2
    <2>2. CASE f.op = "removeConnectionInLoop" /\ k = conn[f.conn].loop
      <3>1. pendingFunctors_'[k] = Append(pendingFunctors_[k], x)
        BY <1>6, <2>2
      <3>2. DestroyedBehind(pendingFunctors_[k], d, i) => DestroyedBehind(pendingFunctors_'[k], d, i)
        BY <2>1, <3>1, AppendBehind
      <3>3. d = f.conn => DestroyedBehind(pendingFunctors_'[k], d, i)
        BY <1>5, <2>1, <3>1, AppendBehind
      <3>4. d \in connections_ /\ d # f.conn => d \in connections_'
        BY <1>6
      <3> QED
        BY <1>11, <3>2, <3>3, <3>4 DEF Kept
    <2>3. CASE ~(f.op = "removeConnectionInLoop" /\ k = conn[f.conn].loop)
      <3>1. pendingFunctors_'[k] = pendingFunctors_[k]
        BY <1>6, <2>3
      <3>2. d \in connections_ => d \in connections_'
        BY <1>6, <1>11, <2>3
      <3> QED
        BY <1>11, <3>1, <3>2 DEF Kept
    <2> QED
      BY <2>2, <2>3
  <1>12. QueuesKeep'
    <2>1. ASSUME NEW k \in Loops
          PROVE  EstablishedFirst(pendingFunctors_'[k])
      <3>1. EstablishedFirst(pendingFunctors_[k]) /\ pendingFunctors_[k] \in Seq(Functors)
        BY <1>2 DEF QueuesKeep
      <3>2. CASE k = l
        BY <1>2, <1>6, <3>1, <3>2, TailBehind
      <3>3. CASE k # l /\ f.op = "removeConnectionInLoop" /\ k = conn[f.conn].loop
        <4>1. pendingFunctors_'[k] = Append(pendingFunctors_[k], x)
          BY <1>6, <3>3
        <4>2. x.op # "connectEstablished"
          BY <1>5
        <4> QED
          BY <3>1, <4>1, <4>2, AppendFirst
      <3>4. CASE k # l /\ ~(f.op = "removeConnectionInLoop" /\ k = conn[f.conn].loop)
        BY <1>6, <3>1, <3>4
      <3> QED
        BY <3>2, <3>3, <3>4
    <2>2. ASSUME NEW k \in Loops, Runs(k), NEW i \in 1..Len(pendingFunctors_[k]),
                 Needed(pendingFunctors_[k][i])
          PROVE  /\ Kept(pendingFunctors_[k], pendingFunctors_[k][i].conn, i)
                 /\ pendingFunctors_[k][i].conn \in Accepted
                 /\ conn[pendingFunctors_[k][i].conn].loop = k
      BY <2>2, QueueItem DEF QueuesKeep, Needed, Placed
    <2>3. ASSUME NEW k \in Loops, Runs(k), NEW i \in 1..Len(pendingFunctors_'[k]),
                 Needed(pendingFunctors_'[k][i])
          PROVE  Kept(pendingFunctors_[k], pendingFunctors_[k][i].conn, i)'
      <3>1. CASE k = l
        <4>1. i \in Nat /\ i + 1 \in 1..Len(pendingFunctors_[l])
              /\ pendingFunctors_'[l][i] = pendingFunctors_[l][i + 1]
          BY <1>7, <3>1
        <4> QED
          BY <1>10, <2>2, <2>3, <3>1, <4>1
      <3>2. CASE k # l
        <4>1. pendingFunctors_'[k][i] # x
          BY <1>5, <2>3 DEF Needed
        <4>2. i \in 1..Len(pendingFunctors_[k]) /\ pendingFunctors_'[k][i] = pendingFunctors_[k][i]
          BY <1>8, <3>2, <4>1
        <4>3. i \in 0..Len(pendingFunctors_[k])
          BY <1>2, <4>2
        <4> QED
          BY <1>11, <2>2, <2>3, <3>2, <4>2, <4>3
      <3> QED
        BY <3>1, <3>2
    <2>4. \A k \in Loops : Runs(k)' = Runs(k)
      BY <1>3 DEF Runs
    <2> QED
      BY <2>1, <2>3, <2>4 DEF QueuesKeep, Needed, EstablishedFirst
  <1>13. ChannelsKept'
    <2> SUFFICES ASSUME NEW d \in Ids, conn'[d].registered, Runs(conn[d].loop)'
                 PROVE  Kept(pendingFunctors_[conn[d].loop], d, 0)'
      BY DEF ChannelsKept
    <2>1. conn'[d].loop = conn[d].loop /\ conn[d].loop \in Loops /\ Runs(conn[d].loop)
      BY <1>2, <1>3, <1>4 DEF Runs, Conns
    <2>2. CASE f.op = "connectEstablished" /\ d = f.conn
      <3>1. conn[d].loop = l /\ d \in Accepted
        BY <1>1, <2>2 DEF Placed
      <3>2. Kept(pendingFunctors_[l], d, 0 + 1)
        BY <1>1, <2>1, <2>2, <3>1 DEF QueuesKeep, Needed
      <3> QED
        BY <1>10, <2>1, <3>1, <3>2
    <2>3. CASE conn[d].registered /\ ~(f.op = "connectDestroyed" /\ d = f.conn)
      <3>1. d \in Accepted
        BY <2>3 DEF ConnsConsistent, Consistent
      <3>2. Kept(pendingFunctors_[conn[d].loop], d, 0) /\ 0 \in 0..Len(pendingFunctors_[conn[d].loop])
        BY <1>2, <2>1, <2>3 DEF ChannelsKept
      <3>3. CASE conn[d].loop = l
        BY <1>10, <2>1, <2>3, <3>1, <3>2, <3>3
      <3>4. CASE conn[d].loop # l
        BY <1>11, <2>1, <3>1, <3>2, <3>4
      <3> QED
        BY <3>3, <3>4
    <2> QED
      BY <1>4, <2>2, <2>3
  <1> QED
    BY <1>9, <1>12, <1>13

-----------------------------------------------------------------------------
(* The actions, one by one.  The ring and the numbers of the clients are   *)
(* dealt with above; the rest of the invariant is Rest.                    *)

ServerTyped ==
    /\ conn \in [Ids -> Conns]
    /\ connections_ \subseteq Accepted
    /\ pendingFunctors_ \in [Loops -> Seq(Functors)]
    /\ loopState \in [Loops -> {"looping", "quitting", "ended"}]
    /\ server \in {"up", "gone"}
    /\ user \in [pc : {"idle", "setState", "queueInLoop", "holds"},
                  conn : Ids \cup {NoConn}]

Rest ==
    /\ ServerTyped /\ EndOrder /\ ConnsConsistent /\ UserConsistent
    /\ FunctorsPlaced /\ QueuesKeep /\ ChannelsKept

(* The callbacks of a connection leave a consistent record.                *)
LEMMA StaysConsistent ==
  ASSUME NEW r \in Conns, Consistent(r)
  PROVE  /\ r.state = "kConnecting" => Consistent(connectEstablished(r))
         /\ r.registered => Consistent(handleClose(r))
         /\ Consistent(connectDestroyed(r))
         /\ r.ups = 1 => Consistent([r EXCEPT !.state = "kDisconnecting"])
         /\ Consistent([r EXCEPT !.peer = FALSE])
  <1>1. r.state = "kConnecting" => Consistent(connectEstablished(r))
    <2>1. SUFFICES ASSUME r.state = "kConnecting"
                   PROVE  Consistent(connectEstablished(r))
      OBVIOUS
    <2>2. r.ups = 0 /\ r.downs = 0
      BY <2>1 DEF Consistent
    <2>3. /\ connectEstablished(r).state = "kConnected" /\ connectEstablished(r).ups = r.ups + 1
          /\ connectEstablished(r).downs = r.downs /\ connectEstablished(r).registered = TRUE
      BY ConnFields
    <2> QED
      BY <2>2, <2>3 DEF Consistent
  <1>2. r.registered => Consistent(handleClose(r))
    BY ConnFields DEF Consistent
  <1>3. Consistent(connectDestroyed(r))
    BY ConnFields DEF Consistent
  <1>4. r.ups = 1 => Consistent([r EXCEPT !.state = "kDisconnecting"])
    BY DEF Consistent, Conns
  <1>5. Consistent([r EXCEPT !.peer = FALSE])
    BY DEF Consistent, Conns
  <1> QED
    BY <1>1, <1>2, <1>3, <1>4, <1>5

(* A new connection.                                                       *)
LEMMA NewConnFields ==
  ASSUME NEW l \in Loops
  PROVE  /\ NewConn(l) \in Conns /\ Consistent(NewConn(l)) /\ NewConn(l).loop = l
         /\ NewConn(l).state = "kConnecting" /\ NewConn(l).registered = FALSE
  BY DEF NewConn, Conns, ConnStates, Consistent

(* A step that changes one connection of the map from r to s keeps the     *)
(* connections consistent.                                                 *)
LEMMA OneConnStep ==
  ASSUME TypeOK, ConnsConsistent, NEW c \in Ids, NEW r \in Conns, Consistent(r),
         Accepted \subseteq Accepted', r.state # "kConnecting" => c \in Accepted',
         conn' = [conn EXCEPT ![c] = r]
  PROVE  ConnsConsistent' /\ conn' \in [Ids -> Conns] /\ conn'[c] = r
         /\ \A d \in Ids \ {c} : conn'[d] = conn[d]
  <1>1. conn' \in [Ids -> Conns] /\ conn'[c] = r /\ \A d \in Ids \ {c} : conn'[d] = conn[d]
    BY DEF TypeOK
  <1>2. ConnsConsistent'
    BY <1>1 DEF ConnsConsistent, Consistent
  <1> QED
    BY <1>1, <1>2

(* While the base loop runs, or a connection is in the map, every thread   *)
(* of the pool runs.                                                       *)
LEMMA PoolRuns ==
  ASSUME TypeOK, EndOrder, Runs(baseLoop_) \/ connections_ # {}
  PROVE  \A n \in Nodes : loopState[n] = "looping" /\ Runs(n)
  BY DEF EndOrder, Runs

(* The server accepts a connection.                                        *)
LEMMA NewConnectionKeeps ==
  ASSUME IInv, NEW k \in Keys, NewConnection(k)
  PROVE  Rest'
  <1> DEFINE c == nextConnId_
             l == getNextLoop(k)
  <1>0. TypeOK /\ IdsLeft /\ RingFull /\ EndOrder /\ ConnsConsistent /\ UserConsistent
        /\ FunctorsPlaced /\ QueuesKeep /\ ChannelsKept
    BY DEF IInv
  <1>1. c \in Ids /\ c \notin Accepted /\ l \in Loops /\ Runs(baseLoop_)
    <2>1. backlog > 0 /\ Ready /\ Runs(baseLoop_)
      BY <1>0 DEF NewConnection, Readable, RingFull
    <2> QED
      BY <1>0, <2>1, IdsTyped, NextLoopExists
  <1>2. Accepted' = Accepted \cup {c} /\ connections_' = connections_ \cup {c}
        /\ UNCHANGED <<loopState, server, user>>
    BY <1>0 DEF NewConnection, TypeOK, Accepted
  <1>3. NewConn(l) \in Conns /\ Consistent(NewConn(l)) /\ NewConn(l).loop = l
        /\ NewConn(l).state = "kConnecting" /\ NewConn(l).registered = FALSE
    BY <1>1, NewConnFields
  <1>4. PICK r \in Conns :
          /\ r = IF l = baseLoop_ THEN connectEstablished(NewConn(l)) ELSE NewConn(l)
          /\ Consistent(r) /\ r.loop = l
          /\ conn' = [conn EXCEPT ![c] = r]
    <2>1. connectEstablished(NewConn(l)) \in Conns /\ Consistent(connectEstablished(NewConn(l)))
          /\ connectEstablished(NewConn(l)).loop = l
      BY <1>3, ConnsTyped, ConnFields, StaysConsistent
    <2>2. conn' = IF l = baseLoop_ THEN [conn EXCEPT ![c] = connectEstablished(NewConn(l))]
                                   ELSE [conn EXCEPT ![c] = NewConn(l)]
      BY DEF NewConnection
    <2>3. CASE l = baseLoop_
      BY <2>1, <2>2, <2>3
    <2>4. CASE l # baseLoop_
      BY <1>3, <2>2, <2>4
    <2> QED
      BY <2>3, <2>4
  <1> HIDE DEF c, l
  <1>5. ConnsConsistent' /\ conn' \in [Ids -> Conns] /\ conn'[c] = r
        /\ \A d \in Ids \ {c} : conn'[d] = conn[d]
    BY <1>0, <1>1, <1>2, <1>4, OneConnStep
  <1>6. \A d \in Accepted : d \in Ids /\ conn'[d] = conn[d]
    BY <1>0, <1>1, <1>5, IdsTyped
  <1>7. FunctorsPlaced' /\ QueuesKeep' /\ ChannelsKept'
    <2>1. \A d \in Ids : conn[d].registered => d \in Accepted
      BY <1>0 DEF ConnsConsistent, Consistent
    <2>2. \A d \in Ids : conn'[d].registered => conn[d].registered \/ d \in connections_'
      BY <1>2, <1>5
    <2>3. CASE l = baseLoop_
      <3>1. UNCHANGED pendingFunctors_
        BY <2>3 DEF NewConnection, l
      <3> QED
        BY <1>0, <1>2, <1>6, <2>1, <2>2, <3>1, QuietStep DEF Runs
    <2>4. CASE l # baseLoop_
      <3>1. queueInLoop(l, "connectEstablished", c) /\ "connectEstablished" \in Ops
        BY <2>4 DEF NewConnection, l, c, Ops
      <3>2. \A d \in Ids : conn'[d].registered
              => (conn[d].registered /\ conn'[d].loop = conn[d].loop) \/ d \in connections_'
        BY <1>2, <1>5
      <3>3. conn'[c].state = "kConnecting" /\ conn'[c].loop = l
        BY <1>3, <1>4, <1>5, <2>4
      <3>4. \A m \in Loops : Runs(m)' => Runs(m)
        BY <1>2 DEF Runs
      <3> QED
        BY <1>0, <1>1, <1>2, <1>6, <2>1, <3>1, <3>2, <3>3, <3>4, AppendStep
    <2> QED
      BY <2>3, <2>4
  <1>8. EndOrder'
    <2>1. \A n \in Nodes : loopState[n] = "looping" /\ Runs(n)
      BY <1>0, <1>1, PoolRuns
    <2> QED
      BY <1>0, <1>1, <1>2, <2>1 DEF EndOrder, Runs
  <1>9. UserConsistent'
    BY <1>0, <1>1, <1>2, <1>5, <1>6 DEF EndOrder, UserConsistent
  <1>10. ServerTyped'
    <2>1. pendingFunctors_' \in [Loops -> Seq(Functors)]
      <3>1. CASE l = baseLoop_
        BY <1>0, <3>1 DEF NewConnection, l, TypeOK
      <3>2. CASE l # baseLoop_
        BY <1>0, <1>1, <3>2, QueueTyped DEF NewConnection, l, c, Ops
      <3> QED
        BY <3>1, <3>2
    <2> QED
      BY <1>0, <1>2, <1>5, <2>1 DEF TypeOK, ServerTyped
  <1> QED
    BY <1>5, <1>7, <1>8, <1>9, <1>10 DEF Rest

(* A loop runs a functor.                                                  *)
LEMMA RunFunctorKeeps ==
  ASSUME IInv, NEW l \in Loops, RunFunctor(l)
  PROVE  Rest'
  <1>0. TypeOK /\ IdsLeft /\ EndOrder /\ ConnsConsistent /\ UserConsistent
        /\ FunctorsPlaced /\ QueuesKeep /\ ChannelsKept
    BY DEF IInv
  <1>1. PICK f \in Functors :
          f = Head(pendingFunctors_[l]) /\ Placed(l, f) /\ f.conn \in Ids /\ f.conn \in Accepted
    <2>1. pendingFunctors_[l] \in Seq(Functors) /\ pendingFunctors_[l] # <<>>
      BY <1>0 DEF RunFunctor, TypeOK
    <2>2. 1 \in 1..Len(pendingFunctors_[l]) /\ Head(pendingFunctors_[l]) = pendingFunctors_[l][1]
      BY <2>1, TailAt
    <2> QED
      BY <1>0, <2>2, QueueItem
  <1>2. conn \in [Ids -> Conns] /\ conn[f.conn] \in Conns /\ Consistent(conn[f.conn])
        /\ conn[f.conn].loop \in Loops
    BY <1>0, <1>1 DEF TypeOK, ConnsConsistent, Conns
  <1>3. UNCHANGED <<nextConnId_, loopState, server, user>> /\ Accepted' = Accepted /\ Runs(l)
    BY DEF RunFunctor, acceptVars, Accepted
  <1>4. PICK r \in Conns : Consistent(r) /\ conn' = [conn EXCEPT ![f.conn] = r]
                           /\ (conn[f.conn].ups = 1 => r.ups = 1)
    <2>1. CASE f.op = "connectEstablished"
      <3>1. conn[f.conn].state = "kConnecting" /\ conn[f.conn].ups # 1
        BY <1>1, <1>2, <2>1 DEF Placed, Consistent
      <3>2. conn' = [conn EXCEPT ![f.conn] = connectEstablished(conn[f.conn])]
        BY <1>1, <2>1 DEF RunFunctor
      <3>3. connectEstablished(conn[f.conn]) \in Conns /\ Consistent(connectEstablished(conn[f.conn]))
        BY <1>2, <3>1, ConnsTyped, StaysConsistent
      <3> QED
        BY <3>1, <3>2, <3>3, Zenon
    <2>2. CASE f.op = "connectDestroyed"
      <3>1. conn' = [conn EXCEPT ![f.conn] = connectDestroyed(conn[f.conn])]
        BY <1>1, <2>2 DEF RunFunctor
      <3>2. connectDestroyed(conn[f.conn]).ups = conn[f.conn].ups
            /\ connectDestroyed(conn[f.conn]) \in Conns /\ Consistent(connectDestroyed(conn[f.conn]))
        BY <1>2, ConnFields, ConnsTyped, StaysConsistent
      <3> QED
        BY <3>1, <3>2
    <2>3. CASE f.op \notin {"connectEstablished", "connectDestroyed"}
      <3>1. conn' = [conn EXCEPT ![f.conn] = conn[f.conn]]
        BY <1>1, <1>2, <2>3 DEF RunFunctor
      <3> QED
        BY <1>2, <3>1
    <2> QED
      BY <2>1, <2>2, <2>3
  <1>5. ConnsConsistent' /\ conn' \in [Ids -> Conns] /\ conn'[f.conn] = r
        /\ \A d \in Ids \ {f.conn} : conn'[d] = conn[d]
    BY <1>0, <1>1, <1>3, <1>4, OneConnStep
  <1>6. FunctorsPlaced' /\ QueuesKeep' /\ ChannelsKept'
    BY <1>0, RunStep
  <1>7. UserConsistent'
    BY <1>0, <1>3, <1>4, <1>5, IdsTyped DEF UserConsistent, EndOrder
  <1> DEFINE p == [pendingFunctors_ EXCEPT ![l] = Tail(@)]
             x == Functor("connectDestroyed", f.conn)
  <1>8. /\ p \in [Loops -> Seq(Functors)] /\ x \in Functors
        /\ \A k \in Loops \ {l} : p[k] = pendingFunctors_[k]
    BY <1>0, <1>1, QueuePopped, FunctorTyped DEF RunFunctor, Ops
  <1>9. \/ pendingFunctors_' = p /\ connections_' = connections_
        \/ /\ connections_' = connections_ \ {f.conn}
           /\ pendingFunctors_' = [p EXCEPT ![conn[f.conn].loop] = Append(@, x)]
           /\ l = baseLoop_
    BY <1>1 DEF RunFunctor, Erased, Placed
  <1> HIDE DEF p, x
  <1>10. pendingFunctors_' \in [Loops -> Seq(Functors)]
    <2>1. Append(p[conn[f.conn].loop], x) \in Seq(Functors)
      BY <1>2, <1>8, AppendAt
    <2> QED
      BY <1>8, <1>9, <2>1
  <1>11. ServerTyped'
    BY <1>0, <1>3, <1>5, <1>9, <1>10 DEF TypeOK, ServerTyped
  <1>12. EndOrder'
    <2>1. ASSUME NEW n \in Nodes, ~Runs(n)
          PROVE  pendingFunctors_'[n] = <<>>
      <3>1. n # l /\ n \in Loops /\ ~Runs(baseLoop_)
        BY <1>0, <1>3, <2>1 DEF EndOrder, Runs, Loops
      <3>2. pendingFunctors_' = p
        BY <1>3, <1>9, <3>1
      <3> QED
        BY <1>0, <1>8, <2>1, <3>1, <3>2 DEF EndOrder
    <2>2. connections_' \subseteq connections_
      BY <1>9
    <2> QED
      BY <1>0, <1>3, <2>1, <2>2 DEF EndOrder, Runs
  <1> QED
    BY <1>5, <1>6, <1>7, <1>11, <1>12 DEF Rest

(* The channel of a connection reports the close.                          *)
LEMMA HandleCloseKeeps ==
  ASSUME IInv, NEW c \in Ids, HandleClose(c)
  PROVE  Rest'
  <1>0. TypeOK /\ IdsLeft /\ EndOrder /\ ConnsConsistent /\ UserConsistent
        /\ FunctorsPlaced /\ QueuesKeep /\ ChannelsKept
    BY DEF IInv
  <1>1. conn \in [Ids -> Conns] /\ conn[c] \in Conns /\ Consistent(conn[c]) /\ conn[c].loop \in Loops
        /\ conn[c].registered /\ Runs(conn[c].loop) /\ c \in Accepted
    BY <1>0 DEF HandleClose, TypeOK, ConnsConsistent, Conns, Consistent
  <1>2. UNCHANGED <<nextConnId_, loopState, server, user>> /\ Accepted' = Accepted
    BY DEF HandleClose, acceptVars, Accepted
  <1>3. PICK r \in Conns : r = handleClose(conn[c]) /\ Consistent(r) /\ conn' = [conn EXCEPT ![c] = r]
    BY <1>1, ConnsTyped, StaysConsistent DEF HandleClose
  <1>4. ConnsConsistent' /\ conn' \in [Ids -> Conns] /\ conn'[c] = r
        /\ \A d \in Ids \ {c} : conn'[d] = conn[d]
    BY <1>0, <1>1, <1>2, <1>3, OneConnStep
  <1>5. r.loop = conn[c].loop /\ r.ups = conn[c].ups /\ r.registered = FALSE
        /\ conn[c].state # "kConnecting"
    BY <1>1, <1>3, ConnFields DEF Consistent
  <1>6. PICK op \in Ops :
          /\ op \in {"connectDestroyed", "removeConnectionInLoop"}
          /\ op = "connectDestroyed" <=> conn[c].loop = baseLoop_
          /\ queueInLoop(baseLoop_, op, c)
          /\ connections_' = IF op = "connectDestroyed" THEN connections_ \ {c} ELSE connections_
    <2>1. CASE conn[c].loop = baseLoop_
      <3>1. queueInLoop(baseLoop_, "connectDestroyed", c) /\ connections_' = connections_ \ {c}
        BY <2>1 DEF HandleClose, Erased
      <3> QED
        BY <2>1, <3>1 DEF Ops
    <2>2. CASE conn[c].loop # baseLoop_
      <3>1. queueInLoop(baseLoop_, "removeConnectionInLoop", c) /\ connections_' = connections_
        BY <2>2 DEF HandleClose
      <3> QED
        BY <2>2, <3>1 DEF Ops
    <2> QED
      BY <2>1, <2>2
  <1>7. /\ pendingFunctors_' \in [Loops -> Seq(Functors)]
        /\ \A k \in Loops \ {baseLoop_} : pendingFunctors_'[k] = pendingFunctors_[k]
        /\ baseLoop_ \in Loops /\ baseLoop_ \notin Nodes /\ Nodes \subseteq Loops
    BY <1>0, <1>6, QueueTyped, Numbers
  <1>8. FunctorsPlaced' /\ QueuesKeep' /\ ChannelsKept'
    <2>1. \A d \in Accepted : d \in Ids /\ conn'[d].loop = conn[d].loop
             /\ (conn[d].state = "kConnecting" => conn'[d].state = "kConnecting")
      BY <1>0, <1>4, <1>5, IdsTyped
    <2>2. \A d \in Ids : conn[d].registered => d \in Accepted
      BY <1>0 DEF ConnsConsistent, Consistent
    <2>3. \A d \in Ids : conn'[d].registered => conn[d].registered /\ conn'[d].loop = conn[d].loop
      BY <1>4, <1>5
    <2>4. \A k \in Loops : Runs(k)' => Runs(k)
      BY <1>2 DEF Runs
    <2>5. IF op = "removeConnectionInLoop" THEN conn'[c].loop # baseLoop_ ELSE conn'[c].loop = baseLoop_
      BY <1>4, <1>5, <1>6
    <2> QED
      BY <1>0, <1>1, <1>2, <1>6, <1>7, <2>1, <2>2, <2>3, <2>4, <2>5, AppendStep
  <1>9. UserConsistent'
    BY <1>0, <1>2, <1>4, <1>5, IdsTyped DEF UserConsistent, EndOrder
  <1>10. ServerTyped'
    BY <1>0, <1>2, <1>4, <1>6, <1>7 DEF TypeOK, ServerTyped
  <1>11. EndOrder'
    <2>1. connections_' \subseteq connections_
      BY <1>6
    <2> QED
      BY <1>0, <1>2, <1>7, <2>1 DEF EndOrder, Runs
  <1> QED
    BY <1>4, <1>8, <1>9, <1>10, <1>11 DEF Rest

(* shutdown() finds the connection up.                                     *)
LEMMA ShutdownTestKeeps ==
  ASSUME IInv, NEW c \in Ids, ShutdownTest(c)
  PROVE  Rest'
  <1>0. TypeOK /\ IdsLeft /\ EndOrder /\ ConnsConsistent /\ UserConsistent
        /\ FunctorsPlaced /\ QueuesKeep /\ ChannelsKept
    BY DEF IInv
  <1>1. /\ UNCHANGED <<nextConnId_, loopState, server, conn, pendingFunctors_, connections_>>
        /\ Accepted' = Accepted /\ user' = [pc |-> "setState", conn |-> c] /\ Runs(baseLoop_)
        /\ conn[c].state = "kConnected"
    BY DEF ShutdownTest, serverVars, acceptVars, Accepted, Runs
  <1>2. c \in Accepted /\ conn[c].ups = 1
    BY <1>0, <1>1 DEF ConnsConsistent, Consistent
  <1>3. FunctorsPlaced' /\ QueuesKeep' /\ ChannelsKept'
    <2>1. \A d \in Ids : conn[d].registered => d \in Accepted
      BY <1>0 DEF ConnsConsistent, Consistent
    <2> QED
      BY <1>0, <1>1, <2>1, QuietStep DEF Runs
  <1>4. ServerTyped'
    BY <1>0, <1>1 DEF TypeOK, ServerTyped
  <1>5. EndOrder' /\ UserConsistent' /\ ConnsConsistent'
    BY <1>0, <1>1, <1>2 DEF EndOrder, Runs, UserConsistent, ConnsConsistent
  <1> QED
    BY <1>3, <1>4, <1>5 DEF Rest

(* shutdown() sets the state, whatever it has become in between.           *)
LEMMA ShutdownSetKeeps ==
  ASSUME IInv, NEW c \in Ids, ShutdownSet(c)
  PROVE  Rest'
  <1>0. TypeOK /\ IdsLeft /\ EndOrder /\ ConnsConsistent /\ UserConsistent
        /\ FunctorsPlaced /\ QueuesKeep /\ ChannelsKept
    BY DEF IInv
  <1>1. /\ UNCHANGED <<nextConnId_, loopState, server, pendingFunctors_, connections_>>
        /\ Accepted' = Accepted /\ user' = [pc |-> "queueInLoop", conn |-> c]
        /\ user = [pc |-> "setState", conn |-> c]
        /\ conn' = [conn EXCEPT ![c].state = "kDisconnecting"]
    BY DEF ShutdownSet, UserStep, serverVars, acceptVars, Accepted
  <1>2. c \in Accepted /\ conn[c].ups = 1 /\ conn[c] \in Conns /\ Consistent(conn[c])
        /\ conn[c].state # "kConnecting" /\ Runs(baseLoop_)
    BY <1>0, <1>1 DEF EndOrder, UserConsistent, ConnsConsistent, TypeOK, Consistent
  <1>3. PICK r \in Conns : r = [conn[c] EXCEPT !.state = "kDisconnecting"] /\ Consistent(r)
    BY <1>2, ConnsTyped, StaysConsistent
  <1>4. r.loop = conn[c].loop /\ r.registered = conn[c].registered /\ r.ups = 1
    BY <1>2, <1>3 DEF Conns
  <1>5. ConnsConsistent' /\ conn' \in [Ids -> Conns] /\ conn'[c] = r
        /\ \A d \in Ids \ {c} : conn'[d] = conn[d]
    BY <1>0, <1>1, <1>2, <1>3, OneConnStep
  <1>6. FunctorsPlaced' /\ QueuesKeep' /\ ChannelsKept'
    <2>1. \A d \in Ids : conn[d].registered => d \in Accepted
      BY <1>0 DEF ConnsConsistent, Consistent
    <2>2. Accepted \subseteq Ids
      BY <1>0, IdsTyped
    <2>3. \A d \in Ids : /\ conn'[d].loop = conn[d].loop /\ conn'[d].registered = conn[d].registered
                         /\ conn[d].state = "kConnecting" => conn'[d].state = "kConnecting"
      BY <1>2, <1>4, <1>5
    <2> QED
      BY <1>0, <1>1, <2>1, <2>2, <2>3, QuietStep DEF Runs
  <1>7. ServerTyped'
    BY <1>0, <1>1, <1>5 DEF TypeOK, ServerTyped
  <1>8. EndOrder' /\ UserConsistent'
    BY <1>0, <1>1, <1>2, <1>4, <1>5 DEF EndOrder, Runs, UserConsistent
  <1> QED
    BY <1>5, <1>6, <1>7, <1>8 DEF Rest

(* shutdown() queues shutdownInLoop().                                     *)
LEMMA ShutdownQueueKeeps ==
  ASSUME IInv, NEW c \in Ids, ShutdownQueue(c)
  PROVE  Rest'
  <1>0. TypeOK /\ IdsLeft /\ EndOrder /\ ConnsConsistent /\ UserConsistent
        /\ FunctorsPlaced /\ QueuesKeep /\ ChannelsKept
    BY DEF IInv
  <1> DEFINE l == conn[c].loop
  <1>1. /\ UNCHANGED <<nextConnId_, loopState, server, conn, connections_>>
        /\ Accepted' = Accepted /\ user' = [pc |-> "holds", conn |-> c]
        /\ user = [pc |-> "queueInLoop", conn |-> c]
        /\ queueInLoop(l, "shutdownInLoop", c)
    BY DEF ShutdownQueue, UserStep, serverVars, acceptVars, Accepted
  <1>2. c \in Accepted /\ conn[c].ups = 1 /\ l \in Loops /\ Runs(baseLoop_) /\ "shutdownInLoop" \in Ops
    BY <1>0, <1>1 DEF EndOrder, UserConsistent, TypeOK, Conns, Ops
  <1> HIDE DEF l
  <1>3. /\ pendingFunctors_' \in [Loops -> Seq(Functors)]
        /\ \A k \in Loops \ {l} : pendingFunctors_'[k] = pendingFunctors_[k]
    BY <1>0, <1>1, <1>2, QueueTyped
  <1>4. FunctorsPlaced' /\ QueuesKeep' /\ ChannelsKept'
    <2>1. \A d \in Ids : conn[d].registered => d \in Accepted
      BY <1>0 DEF ConnsConsistent, Consistent
    <2>2. \A k \in Loops : Runs(k)' => Runs(k)
      BY <1>1 DEF Runs
    <2>3. conn'[c].loop = l
      BY <1>1 DEF l
    <2> QED
      BY <1>0, <1>1, <1>2, <2>1, <2>2, <2>3, AppendStep
  <1>5. ServerTyped'
    BY <1>0, <1>1, <1>3 DEF TypeOK, ServerTyped
  <1>6. EndOrder' /\ UserConsistent' /\ ConnsConsistent'
    <2>1. \A n \in Nodes : Runs(n) /\ loopState[n] = "looping"
      BY <1>0, <1>2, PoolRuns
    <2> QED
      BY <1>0, <1>1, <1>2, <2>1 DEF EndOrder, Runs, UserConsistent, ConnsConsistent
  <1> QED
    BY <1>4, <1>5, <1>6 DEF Rest

(* The peer closes.                                                        *)
LEMMA PeerClosesKeeps ==
  ASSUME IInv, NEW c \in Ids, PeerCloses(c)
  PROVE  Rest'
  <1>0. TypeOK /\ IdsLeft /\ EndOrder /\ ConnsConsistent /\ UserConsistent
        /\ FunctorsPlaced /\ QueuesKeep /\ ChannelsKept
    BY DEF IInv
  <1>1. /\ UNCHANGED <<nextConnId_, loopState, server, pendingFunctors_, connections_, user>>
        /\ Accepted' = Accepted /\ c \in Accepted
        /\ conn' = [conn EXCEPT ![c].peer = FALSE]
    BY DEF PeerCloses, serverVars, acceptVars, Accepted
  <1>2. conn[c] \in Conns /\ Consistent(conn[c])
    BY <1>0, <1>1 DEF ConnsConsistent, TypeOK
  <1>3. PICK r \in Conns : r = [conn[c] EXCEPT !.peer = FALSE] /\ Consistent(r)
    BY <1>2, ConnsTyped, StaysConsistent
  <1>4. r.loop = conn[c].loop /\ r.registered = conn[c].registered /\ r.ups = conn[c].ups
        /\ r.state = conn[c].state
    BY <1>2, <1>3 DEF Conns
  <1>5. ConnsConsistent' /\ conn' \in [Ids -> Conns] /\ conn'[c] = r
        /\ \A d \in Ids \ {c} : conn'[d] = conn[d]
    BY <1>0, <1>1, <1>2, <1>3, OneConnStep
  <1>6. FunctorsPlaced' /\ QueuesKeep' /\ ChannelsKept'
    <2>1. \A d \in Ids : conn[d].registered => d \in Accepted
      BY <1>0 DEF ConnsConsistent, Consistent
    <2>2. Accepted \subseteq Ids
      BY <1>0, IdsTyped
    <2>3. \A d \in Ids : /\ conn'[d].loop = conn[d].loop /\ conn'[d].registered = conn[d].registered
                         /\ conn'[d].state = conn[d].state
      BY <1>4, <1>5
    <2> QED
      BY <1>0, <1>1, <2>1, <2>2, <2>3, QuietStep DEF Runs
  <1>7. ServerTyped'
    BY <1>0, <1>1, <1>5 DEF TypeOK, ServerTyped
  <1>8. EndOrder' /\ UserConsistent'
    BY <1>0, <1>1, <1>4, <1>5, IdsTyped DEF EndOrder, Runs, UserConsistent
  <1> QED
    BY <1>5, <1>6, <1>7, <1>8 DEF Rest

(* ~TcpServer() takes a connection out of the map.                         *)
LEMMA SweepKeeps ==
  ASSUME IInv, NEW c \in Ids, Sweep(c)
  PROVE  Rest'
  <1>0. TypeOK /\ IdsLeft /\ EndOrder /\ ConnsConsistent /\ UserConsistent
        /\ FunctorsPlaced /\ QueuesKeep /\ ChannelsKept
    BY DEF IInv
  <1>1. /\ UNCHANGED <<nextConnId_, loopState, server, user>> /\ Accepted' = Accepted
        /\ c \in connections_ /\ connections_' = connections_ \ {c} /\ ~Runs(baseLoop_)
    BY DEF Sweep, Destructing, acceptVars, Accepted, Erased, Runs
  <1>2. conn \in [Ids -> Conns] /\ conn[c] \in Conns /\ Consistent(conn[c]) /\ conn[c].loop \in Loops
        /\ c \in Accepted /\ user.pc = "idle"
    BY <1>0, <1>1 DEF TypeOK, ConnsConsistent, Conns, EndOrder
  <1>3. \A n \in Nodes : loopState[n] = "looping" /\ Runs(n)
    BY <1>0, <1>1, PoolRuns
  <1>4. PICK r \in Conns : Consistent(r) /\ conn' = [conn EXCEPT ![c] = r] /\ r.loop = conn[c].loop
          /\ (r.registered => conn[c].registered)
          /\ (conn[c].state = "kConnecting" => r.state = "kConnecting")
    <2>1. CASE conn[c].loop = baseLoop_
      <3>1. conn' = [conn EXCEPT ![c] = connectDestroyed(conn[c])]
        BY <2>1 DEF Sweep
      <3>2. connectDestroyed(conn[c]) \in Conns /\ Consistent(connectDestroyed(conn[c]))
        BY <1>2, ConnsTyped, StaysConsistent
      <3>3. connectDestroyed(conn[c]).loop = conn[c].loop /\ connectDestroyed(conn[c]).registered = FALSE
            /\ (conn[c].state = "kConnecting" => connectDestroyed(conn[c]).state = "kConnecting")
        BY <1>2, ConnFields
      <3> QED
        BY <3>1, <3>2, <3>3
    <2>2. CASE conn[c].loop # baseLoop_
      <3>1. conn' = [conn EXCEPT ![c] = conn[c]]
        BY <1>2, <2>2 DEF Sweep
      <3> QED
        BY <1>2, <3>1
    <2> QED
      BY <2>1, <2>2
  <1>5. ConnsConsistent' /\ conn' \in [Ids -> Conns] /\ conn'[c] = r
        /\ \A d \in Ids \ {c} : conn'[d] = conn[d]
    BY <1>0, <1>1, <1>2, <1>4, OneConnStep
  <1>6. /\ \A d \in Ids : conn[d].registered => d \in Accepted
        /\ Accepted \subseteq Ids
        /\ \A d \in Ids :
             /\ conn'[d].loop = conn[d].loop
             /\ conn[d].state = "kConnecting" => conn'[d].state = "kConnecting"
             /\ conn'[d].registered => conn[d].registered
        /\ \A k \in Loops : Runs(k)' = Runs(k)
    BY <1>0, <1>1, <1>4, <1>5, IdsTyped DEF ConnsConsistent, Consistent, Runs
  <1>7. FunctorsPlaced' /\ QueuesKeep' /\ ChannelsKept' /\ pendingFunctors_' \in [Loops -> Seq(Functors)]
    <2>1. CASE conn[c].loop = baseLoop_
      <3>1. UNCHANGED pendingFunctors_
        BY <2>1 DEF Sweep
      <3>2. ~Runs(conn[c].loop)'
        BY <1>1, <1>2, <1>6, <2>1
      <3> QED
        BY <1>0, <1>1, <1>6, <3>1, <3>2, QuietStep DEF TypeOK
    <2>2. CASE conn[c].loop # baseLoop_
      <3>1. queueInLoop(conn[c].loop, "connectDestroyed", c) /\ "connectDestroyed" \in Ops
        BY <2>2 DEF Sweep, Ops
      <3>2. pendingFunctors_' \in [Loops -> Seq(Functors)]
        BY <1>0, <1>2, <3>1, QueueTyped
      <3> QED
        BY <1>0, <1>1, <1>2, <1>6, <3>1, <3>2, AppendStep
    <2> QED
      BY <2>1, <2>2
  <1>8. ServerTyped'
    BY <1>0, <1>1, <1>5, <1>7 DEF TypeOK, ServerTyped
  <1>9. EndOrder' /\ UserConsistent'
    BY <1>0, <1>1, <1>2, <1>3 DEF EndOrder, Runs, UserConsistent
  <1> QED
    BY <1>5, <1>7, <1>8, <1>9 DEF Rest

(* The application lets go of its pointer, or a loop goes on to its end.   *)
LEMMA LoopStateKeeps ==
  ASSUME IInv,
         \/ \E c \in Ids : UserDrops(c)
         \/ Quit
         \/ LoopReturns
         \/ \E n \in Nodes : StopThread(n)
         \/ ServerGone
         \/ UNCHANGED <<nextConnId_, conn, connections_, pendingFunctors_, loopState, server, user>>
  PROVE  Rest'
  <1>0. TypeOK /\ IdsLeft /\ EndOrder /\ ConnsConsistent /\ UserConsistent
        /\ FunctorsPlaced /\ QueuesKeep /\ ChannelsKept
        /\ baseLoop_ \in Loops /\ baseLoop_ \notin Nodes /\ Nodes \subseteq Loops
    BY Numbers DEF IInv
  <1>1. UNCHANGED <<nextConnId_, conn, connections_, pendingFunctors_>> /\ Accepted' = Accepted
    BY DEF UserDrops, UserStep, Quit, LoopReturns, StopThread, ServerGone, serverVars, acceptVars, Accepted
  <1>2. \/ UNCHANGED <<loopState, server>> /\ user' \in [pc : {"idle"}, conn : {NoConn}]
        \/ /\ UNCHANGED <<server, user>> /\ loopState[baseLoop_] = "looping"
           /\ loopState' = [loopState EXCEPT ![baseLoop_] = "quitting"]
        \/ /\ UNCHANGED <<server, user>> /\ loopState[baseLoop_] = "quitting" /\ user.pc = "idle"
           /\ loopState' = [loopState EXCEPT ![baseLoop_] = "ended"]
        \/ /\ UNCHANGED <<server, user>> /\ ~Runs(baseLoop_) /\ connections_ = {}
           /\ \E n \in Nodes : loopState[n] = "looping" /\ loopState' = [loopState EXCEPT ![n] = "quitting"]
        \/ /\ UNCHANGED <<loopState, user>> /\ server' = "gone" /\ ~Runs(baseLoop_)
           /\ \A n \in Nodes : ~Runs(n)
        \/ UNCHANGED <<loopState, server, user>>
    BY DEF UserDrops, UserStep, Quit, LoopReturns, StopThread, ServerGone, serverVars, acceptVars,
           SetLoop, Destructing, Joined, Runs, NoConn
  <1>3. ServerTyped'
    BY <1>0, <1>1, <1>2 DEF TypeOK, ServerTyped
  <1>4. \A l \in Loops : Runs(l)' => Runs(l)
    BY <1>0, <1>2 DEF TypeOK, Runs
  <1>5. EndOrder'
    <2>1. Loops = Nodes \cup {baseLoop_}
      BY DEF Loops
    <2> QED
      BY <1>0, <1>1, <1>2, <2>1 DEF TypeOK, EndOrder, Runs
  <1>6. UserConsistent' /\ ConnsConsistent'
    BY <1>0, <1>1, <1>2 DEF UserConsistent, ConnsConsistent
  <1>7. FunctorsPlaced' /\ QueuesKeep' /\ ChannelsKept'
    <2>1. \A d \in Ids : conn[d].registered => d \in Accepted
      BY <1>0 DEF ConnsConsistent, Consistent
    <2> QED
      BY <1>0, <1>1, <1>4, <2>1, QuietStep
  <1> QED
    BY <1>3, <1>5, <1>6, <1>7 DEF Rest

(* ~EventLoop() drops the functors that did not run.                       *)
LEMMA LoopGoneKeeps ==
  ASSUME IInv, BaseLoopGone \/ \E n \in Nodes : ThreadEnds(n)
  PROVE  Rest'
  <1>0. TypeOK /\ IdsLeft /\ EndOrder /\ ConnsConsistent /\ UserConsistent
        /\ FunctorsPlaced /\ QueuesKeep /\ ChannelsKept
        /\ baseLoop_ \in Loops /\ baseLoop_ \notin Nodes /\ Nodes \subseteq Loops
    BY Numbers DEF IInv
  <1>1. UNCHANGED <<nextConnId_, conn, connections_, server, user>> /\ Accepted' = Accepted
    BY DEF BaseLoopGone, ThreadEnds, serverVars, acceptVars, Accepted
  <1>2. PICK l \in Loops :
          /\ pendingFunctors_' = [pendingFunctors_ EXCEPT ![l] = <<>>]
          /\ ~Runs(baseLoop_)
          /\ \/ loopState' = loopState /\ ~Runs(l)
             \/ /\ l \in Nodes /\ loopState[l] = "quitting"
                /\ loopState' = [loopState EXCEPT ![l] = "ended"]
    <2>1. CASE BaseLoopGone
      <3>1. ~Runs(baseLoop_)
        BY <1>0, <2>1 DEF BaseLoopGone, EndOrder
      <3> QED
        BY <1>0, <2>1, <3>1 DEF BaseLoopGone
    <2>2. ASSUME NEW n \in Nodes, ThreadEnds(n)
          PROVE  /\ pendingFunctors_' = [pendingFunctors_ EXCEPT ![n] = <<>>]
                 /\ ~Runs(baseLoop_) /\ loopState[n] = "quitting"
                 /\ loopState' = [loopState EXCEPT ![n] = "ended"]
      BY <1>0, <2>2 DEF ThreadEnds, SetLoop, EndOrder
    <2> QED
      BY <1>0, <2>1, <2>2
  <1>3. /\ pendingFunctors_'[l] = <<>>
        /\ \A k \in Loops \ {l} : pendingFunctors_'[k] = pendingFunctors_[k]
        /\ pendingFunctors_' \in [Loops -> Seq(Functors)]
    BY <1>0, <1>2 DEF TypeOK
  <1>4. loopState' \in [Loops -> {"looping", "quitting", "ended"}] /\ ~Runs(l)'
        /\ \A k \in Loops \ {l} : loopState'[k] = loopState[k]
    BY <1>0, <1>2 DEF TypeOK, Runs
  <1>5. \A k \in Loops : Runs(k)' => Runs(k)
    BY <1>4 DEF Runs
  <1>6. FunctorsPlaced' /\ QueuesKeep' /\ ChannelsKept'
    BY <1>0, <1>1, <1>2, <1>4, <1>5, DropStep
  <1>7. ServerTyped'
    BY <1>0, <1>1, <1>3, <1>4 DEF TypeOK, ServerTyped
  <1>8. EndOrder'
    <2>1. \A n \in Nodes : loopState'[n] # "looping" => loopState[n] # "looping"
      BY <1>0, <1>2 DEF TypeOK, Runs
    <2>2. \A n \in Nodes : ~Runs(n)' => pendingFunctors_'[n] = <<>>
      BY <1>0, <1>3, <1>4 DEF EndOrder, Runs
    <2>3. ~Runs(baseLoop_)'
      BY <1>0, <1>2, <1>5
    <2> QED
      BY <1>0, <1>1, <1>2, <1>5, <2>1, <2>2, <2>3 DEF EndOrder
  <1>9. UserConsistent' /\ ConnsConsistent'
    BY <1>0, <1>1 DEF UserConsistent, ConnsConsistent
  <1> QED
    BY <1>6, <1>7, <1>8, <1>9 DEF Rest

-----------------------------------------------------------------------------
(* The invariant. *)

(* The invariant holds before start(), when the server has no connection.  *)
LEMMA InitIInv == Init => IInv
  <1> SUFFICES ASSUME Init
               PROVE  IInv
    OBVIOUS
  <1> USE DEF Init, PoolInit
  <1>1. TypeOK
    <2>1. conn \in [Ids -> Conns]
      BY NewConnFields DEF Loops
    <2>2. <<>> \in Seq(Functors) /\ loops_ \in Seq(Nodes)
      OBVIOUS
    <2>3. pendingFunctors_ \in [Loops -> Seq(Functors)]
          /\ loopState \in [Loops -> {"looping", "quitting", "ended"}]
      BY <2>2
    <2>4. user \in [pc : {"idle", "setState", "queueInLoop", "holds"}, conn : Ids \cup {NoConn}]
      BY DEF NoConn
    <2>5. listenning_ \in BOOLEAN /\ server \in {"up", "gone"} /\ connections_ \subseteq Accepted
      BY Zenon
    <2>6. hashFunction_ \in HashFunctions /\ backlog \in Nat /\ nextConnId_ \in Nat \ {0}
      OBVIOUS
    <2> QED
      BY <2>1, <2>2, <2>3, <2>4, <2>5, <2>6, Zenon DEF TypeOK
  <1>2. IdsLeft
    BY Bounds DEF IdsLeft
  <1>3. RingFull
    BY Bounds DEF RingFull
  <1>4. EndOrder
    BY DEF EndOrder, Runs, Loops
  <1>5. ConnsConsistent
    BY NewConnFields DEF ConnsConsistent, Loops
  <1>6. UserConsistent
    BY DEF UserConsistent
  <1>7. \A l \in Loops : pendingFunctors_[l] = <<>> /\ Len(pendingFunctors_[l]) = 0
    OBVIOUS
  <1>8. FunctorsPlaced /\ QueuesKeep
    BY <1>7 DEF FunctorsPlaced, QueuesKeep, EstablishedFirst
  <1>9. ChannelsKept
    BY NewConnFields DEF ChannelsKept, Loops
  <1> QED
    BY <1>1, <1>2, <1>3, <1>4, <1>5, <1>6, <1>8, <1>9 DEF IInv

(* Every step of the server, its loops, the clients and the application    *)
(* keeps the invariant.                                                    *)
LEMMA NextIInv == IInv /\ [Next]_vars => IInv'
  <1> SUFFICES ASSUME IInv, [Next]_vars
               PROVE  IInv'
    OBVIOUS
  <1>1. Rest'
    <2>1. ASSUME NEW k \in Keys, NewConnection(k)
          PROVE  Rest'
      BY <2>1, NewConnectionKeeps
    <2>2. ASSUME NEW l \in Loops, RunFunctor(l)
          PROVE  Rest'
      BY <2>2, RunFunctorKeeps
    <2>3. ASSUME NEW c \in Ids, HandleClose(c)
          PROVE  Rest'
      BY <2>3, HandleCloseKeeps
    <2>4. ASSUME NEW c \in Ids, ShutdownTest(c)
          PROVE  Rest'
      BY <2>4, ShutdownTestKeeps
    <2>5. ASSUME NEW c \in Ids, UserFinishes(c)
          PROVE  Rest'
      BY <2>5, ShutdownSetKeeps, ShutdownQueueKeeps, LoopStateKeeps DEF UserFinishes
    <2>6. ASSUME NEW c \in Ids, PeerCloses(c)
          PROVE  Rest'
      BY <2>6, PeerClosesKeeps
    <2>7. CASE Quit
      BY <2>7, LoopStateKeeps
    <2>8. CASE Teardown
      BY <2>8, LoopStateKeeps, SweepKeeps, LoopGoneKeeps DEF Teardown
    <2>9. CASE StartPool \/ (\E n \in Nodes : RemoveNode(n)) \/ Listen \/ AcceptFails \/ ClientConnects
               \/ Waiting \/ UNCHANGED vars
      <3>1. UNCHANGED <<nextConnId_, conn, connections_, pendingFunctors_, loopState, server, user>>
        BY <2>9 DEF StartPool, RemoveNode, Listen, AcceptFails, ClientConnects, Waiting, vars,
                    serverVars, acceptVars
      <3> QED
        BY <3>1, LoopStateKeeps
    <2> QED
      BY <2>1, <2>2, <2>3, <2>4, <2>5, <2>6, <2>7, <2>8, <2>9 DEF Next
  <1>2. TypeOK /\ IdsLeft /\ RingFull
    BY DEF IInv
  <1>3. RingFull' /\ IdsLeft' /\ backlog' \in Nat /\ nextConnId_' \in Nat \ {0}
        /\ hashFunction_' \in HashFunctions /\ loops_' \in Seq(Nodes) /\ listenning_' \in BOOLEAN
    BY <1>2, RingStep, IdsStep, PoolTypeStep
  <1>4. TypeOK'
    BY <1>1, <1>3 DEF Rest, ServerTyped, TypeOK
  <1> QED
    BY <1>1, <1>3, <1>4 DEF Rest, IInv

(* The invariant holds in every state of the server, and with it the types *)
(* of its state.                                                           *)
THEOREM Invariant == Spec => []IInv
  BY InitIInv, NextIInv, PTL DEF Spec

-----------------------------------------------------------------------------
(* What follows. *)

(* A member of a queue is somewhere in it.                                 *)
LEMMA InQueue ==
  ASSUME TypeOK, NEW l \in Loops, NEW f
  PROVE  f \in ToSet(pendingFunctors_[l])
           <=> \E i \in 1..Len(pendingFunctors_[l]) : f = pendingFunctors_[l][i]
  <1>1. pendingFunctors_[l] \in Seq(Functors)
    BY DEF TypeOK
  <1> QED
    BY <1>1 DEF ToSet

(* Whoever is in the map, or awaits its connectDestroyed(), exists.        *)
LEMMA KeptAlive ==
  ASSUME TypeOK, NEW l \in Loops, NEW c, NEW i, Kept(pendingFunctors_[l], c, i)
  PROVE  Alive(c)
  <1>1. CASE c \in connections_
    BY <1>1 DEF Alive
  <1>2. CASE DestroyedBehind(pendingFunctors_[l], c, i)
    <2>1. PICK j \in 1..Len(pendingFunctors_[l]) :
            pendingFunctors_[l][j].op = "connectDestroyed" /\ pendingFunctors_[l][j].conn = c
      BY <1>2 DEF DestroyedBehind
    <2>2. pendingFunctors_[l][j] \in ToSet(pendingFunctors_[l])
      BY InQueue
    <2> QED
      BY <2>1, <2>2 DEF Alive, Owns
  <1> QED
    BY <1>1, <1>2 DEF Kept

(* No loop calls a connection that has been destroyed: not through the     *)
(* plain pointer of its channel, not through the plain this of a           *)
(* shutdown() queued while the server listed the connection.               *)
THEOREM NoDanglingConnection == Spec => []ConnectionOutlivesUses
  <1>1. IInv => ConnectionOutlivesUses
    <2> SUFFICES ASSUME IInv, NEW l \in Loops, Runs(l)
                 PROVE  /\ \A c \in Accepted : conn[c].registered /\ conn[c].loop = l => Alive(c)
                        /\ \A f \in ToSet(pendingFunctors_[l]) : f.listed => Alive(f.conn)
      BY DEF ConnectionOutlivesUses
    <2>0. TypeOK /\ IdsLeft /\ FunctorsPlaced /\ QueuesKeep /\ ChannelsKept
      BY DEF IInv
    <2>1. ASSUME NEW c \in Accepted, conn[c].registered, conn[c].loop = l
          PROVE  Alive(c)
      <3>1. c \in Ids
        BY <2>0, IdsTyped
      <3>2. Kept(pendingFunctors_[l], c, 0)
        BY <2>0, <2>1, <3>1 DEF ChannelsKept
      <3> QED
        BY <2>0, <3>2, KeptAlive
    <2>2. ASSUME NEW f \in ToSet(pendingFunctors_[l]), f.listed
          PROVE  Alive(f.conn)
      <3>1. PICK i \in 1..Len(pendingFunctors_[l]) : f = pendingFunctors_[l][i]
        BY <2>0, InQueue
      <3>2. CASE Owns(f)
        BY <3>2 DEF Alive
      <3>3. CASE ~Owns(f)
        <4>1. Kept(pendingFunctors_[l], f.conn, i)
          BY <2>0, <2>2, <3>1, <3>3 DEF QueuesKeep, Needed, Owns
        <4> QED
          BY <2>0, <4>1, KeptAlive
      <3> QED
        BY <3>2, <3>3
    <2> QED
      BY <2>1, <2>2
  <1> QED
    BY <1>1, Invariant, PTL

(* No loop calls the server after it is gone, and nothing is left for a    *)
(* loop that has ended.                                                    *)
THEOREM NoDanglingServer == Spec => []ServerOutlivesUses
  <1>1. IInv => ServerOutlivesUses
    <2> SUFFICES ASSUME IInv
                 PROVE  ServerOutlivesUses
      OBVIOUS
    <2>0. TypeOK /\ IdsLeft /\ EndOrder
      BY DEF IInv
    <2>1. ASSUME NEW c \in Accepted, Runs(conn[c].loop)
          PROVE  server = "up"
      <3>1. conn[c].loop \in Loops
        BY <2>0, IdsTyped DEF TypeOK, Conns
      <3> QED
        BY <2>0, <2>1, <3>1 DEF EndOrder, TypeOK
    <2>2. ASSUME NEW n \in Nodes, ~Runs(n)
          PROVE  pendingFunctors_[n] = <<>> /\ connections_ = {}
      BY <2>0, <2>2 DEF EndOrder, Runs
    <2> QED
      BY <2>1, <2>2 DEF ServerOutlivesUses
  <1> QED
    BY <1>1, Invariant, PTL

-----------------------------------------------------------------------------
(* The life of a connection, ConnLife, is what the server makes of it. *)

(* The steps of ConnLife from a record r of a connection to a record s. *)
LifeMove(r, s) ==
    \/ s.state = r.state /\ s.ups = r.ups /\ s.downs = r.downs
    \/ r.state = "kConnecting" /\ s.state = "kConnected" /\ s.ups = 1 /\ s.downs = r.downs
    \/ r.ups = 1 /\ s.state = "kDisconnecting" /\ s.ups = r.ups /\ s.downs = r.downs
    \/ /\ r.state \in {"kConnected", "kDisconnecting"} /\ r.downs = 0
       /\ s.state = "kDisconnected" /\ s.downs = 1 /\ s.ups = r.ups

(* The callbacks of a consistent connection take such steps.               *)
LEMMA CallbackMoves ==
  ASSUME NEW r \in Conns, Consistent(r)
  PROVE  /\ r.state = "kConnecting" => LifeMove(r, connectEstablished(r))
         /\ r.registered => LifeMove(r, handleClose(r))
         /\ LifeMove(r, connectDestroyed(r))
  <1>1. r.state = "kConnecting" => LifeMove(r, connectEstablished(r))
    <2>1. /\ connectEstablished(r).state = "kConnected" /\ connectEstablished(r).ups = r.ups + 1
          /\ connectEstablished(r).downs = r.downs
      BY ConnFields
    <2> QED
      BY <2>1 DEF LifeMove, Consistent
  <1>2. /\ handleClose(r).state = "kDisconnected" /\ handleClose(r).ups = r.ups
        /\ handleClose(r).downs = r.downs + 1
    BY ConnFields
  <1>3. r.registered => LifeMove(r, handleClose(r))
    BY <1>2 DEF LifeMove, Consistent
  <1>4. LifeMove(r, connectDestroyed(r))
    <2>1. CASE r.state = "kConnected"
      BY <1>3, <2>1 DEF connectDestroyed, Consistent
    <2>2. CASE r.state # "kConnected"
      BY <2>2, ConnFields DEF LifeMove
    <2> QED
      BY <2>1, <2>2
  <1> QED
    BY <1>1, <1>3, <1>4

(* So does every step of the server, for every connection.                 *)
LEMMA LifeStep ==
  ASSUME IInv, [Next]_vars, NEW c \in Ids
  PROVE  LifeMove(conn[c], conn'[c])
  <1>0. TypeOK /\ IdsLeft /\ RingFull /\ EndOrder /\ ConnsConsistent /\ UserConsistent /\ FunctorsPlaced
        /\ conn \in [Ids -> Conns]
    BY DEF IInv, TypeOK
  <1>1. \A d \in Ids : conn[d] \in Conns /\ Consistent(conn[d]) /\ LifeMove(conn[d], conn[d])
    BY <1>0 DEF ConnsConsistent, LifeMove
  <1>2. ASSUME NEW d \in Ids, NEW r, conn' = [conn EXCEPT ![d] = r], LifeMove(conn[d], r)
        PROVE  LifeMove(conn[c], conn'[c])
    BY <1>0, <1>1, <1>2
  <1>3. ASSUME NEW k \in Keys, NewConnection(k)
        PROVE  LifeMove(conn[c], conn'[c])
    <2> DEFINE d == nextConnId_
               l == getNextLoop(k)
    <2>1. d \in Ids /\ d \notin Accepted /\ l \in Loops
      <3>1. backlog > 0 /\ Ready
        BY <1>0, <1>3 DEF NewConnection, Readable, RingFull
      <3> QED
        BY <1>0, <3>1, IdsTyped, NextLoopExists
    <2>2. conn[d].state = "kConnecting" /\ conn[d].ups = 0 /\ conn[d].downs = 0
      BY <1>0, <2>1 DEF ConnsConsistent, Consistent
    <2>3. NewConn(l) \in Conns /\ Consistent(NewConn(l)) /\ NewConn(l).state = "kConnecting"
      BY <2>1, NewConnFields
    <2>4. NewConn(l).ups = 0 /\ NewConn(l).downs = 0
      BY <2>3 DEF Consistent
    <2>5. connectEstablished(NewConn(l)).state = "kConnected" /\ connectEstablished(NewConn(l)).downs = 0
          /\ connectEstablished(NewConn(l)).ups = 0 + 1
      BY <2>3, <2>4, ConnFields
    <2>6. \/ conn' = [conn EXCEPT ![d] = connectEstablished(NewConn(l))]
          \/ conn' = [conn EXCEPT ![d] = NewConn(l)]
      BY <1>3 DEF NewConnection
    <2> HIDE DEF d, l
    <2>7. LifeMove(conn[d], NewConn(l)) /\ LifeMove(conn[d], connectEstablished(NewConn(l)))
      BY <2>2, <2>3, <2>4, <2>5 DEF LifeMove
    <2> QED
      BY <1>2, <2>1, <2>6, <2>7
  <1>4. ASSUME NEW l \in Loops, RunFunctor(l)
        PROVE  LifeMove(conn[c], conn'[c])
    <2>1. pendingFunctors_[l] \in Seq(Functors) /\ pendingFunctors_[l] # <<>>
      BY <1>0, <1>4 DEF RunFunctor, TypeOK
    <2>2. 1 \in 1..Len(pendingFunctors_[l]) /\ Head(pendingFunctors_[l]) = pendingFunctors_[l][1]
      BY <2>1, TailAt
    <2>3. PICK f \in Functors : f = Head(pendingFunctors_[l]) /\ Placed(l, f) /\ f.conn \in Ids
      BY <1>0, <2>2, QueueItem
    <2>4. CASE f.op = "connectEstablished"
      <3>1. conn' = [conn EXCEPT ![f.conn] = connectEstablished(conn[f.conn])]
        BY <1>4, <2>3, <2>4 DEF RunFunctor
      <3>2. conn[f.conn].state = "kConnecting"
        BY <2>3, <2>4 DEF Placed
      <3> QED
        BY <1>1, <1>2, <2>3, <3>1, <3>2, CallbackMoves
    <2>5. CASE f.op = "connectDestroyed"
      <3>1. conn' = [conn EXCEPT ![f.conn] = connectDestroyed(conn[f.conn])]
        BY <1>4, <2>3, <2>5 DEF RunFunctor
      <3> QED
        BY <1>1, <1>2, <2>3, <3>1, CallbackMoves
    <2>6. CASE f.op \notin {"connectEstablished", "connectDestroyed"}
      <3>1. conn' = conn
        BY <1>4, <2>3, <2>6 DEF RunFunctor
      <3> QED
        BY <1>1, <3>1
    <2> QED
      BY <2>4, <2>5, <2>6
  <1>5. ASSUME NEW d \in Ids, HandleClose(d)
        PROVE  LifeMove(conn[c], conn'[c])
    <2>1. conn' = [conn EXCEPT ![d] = handleClose(conn[d])] /\ conn[d].registered
      BY <1>5 DEF HandleClose
    <2> QED
      BY <1>1, <1>2, <2>1, CallbackMoves
  <1>6. ASSUME NEW d \in Ids, ShutdownSet(d)
        PROVE  LifeMove(conn[c], conn'[c])
    <2>1. conn' = [conn EXCEPT ![d] = [conn[d] EXCEPT !.state = "kDisconnecting"]] /\ conn[d].ups = 1
      BY <1>0, <1>6 DEF ShutdownSet, UserStep, UserConsistent
    <2>2. LifeMove(conn[d], [conn[d] EXCEPT !.state = "kDisconnecting"])
      BY <1>1, <2>1 DEF LifeMove, Conns
    <2> QED
      BY <1>2, <2>1, <2>2
  <1>7. ASSUME NEW d \in Ids, PeerCloses(d)
        PROVE  LifeMove(conn[c], conn'[c])
    <2>1. conn' = [conn EXCEPT ![d] = [conn[d] EXCEPT !.peer = FALSE]]
      BY <1>7 DEF PeerCloses
    <2>2. LifeMove(conn[d], [conn[d] EXCEPT !.peer = FALSE])
      BY <1>1 DEF LifeMove, Conns
    <2> QED
      BY <1>2, <2>1, <2>2
  <1>8. ASSUME NEW d \in Ids, Sweep(d)
        PROVE  LifeMove(conn[c], conn'[c])
    <2>1. conn' = conn \/ conn' = [conn EXCEPT ![d] = connectDestroyed(conn[d])]
      BY <1>8 DEF Sweep
    <2> QED
      BY <1>1, <1>2, <2>1, CallbackMoves
  <1>9. CASE UNCHANGED conn
    BY <1>1, <1>9
  <1>10. \/ \E k \in Keys : NewConnection(k)
         \/ \E l \in Loops : RunFunctor(l)
         \/ \E d \in Ids : HandleClose(d) \/ ShutdownSet(d) \/ PeerCloses(d) \/ Sweep(d)
         \/ UNCHANGED conn
    BY DEF Next, vars, StartPool, RemoveNode, Listen, AcceptFails, ShutdownTest, UserFinishes,
       ShutdownQueue, UserDrops, ClientConnects, Quit, Teardown, LoopReturns, StopThread, ThreadEnds,
       ServerGone, BaseLoopGone, Waiting
  <1> QED
    BY <1>3, <1>4, <1>5, <1>6, <1>7, <1>8, <1>9, <1>10

(* Every connection lives the life ConnLife describes: the callback for    *)
(* its coming up once and first, the one for its going down at most once,  *)
(* whatever the loops, shutdown() in another thread and ~TcpServer() do.   *)
THEOREM LivesAreConnLife == Spec => LivesSpec
  <1>1. Init => \A c \in Ids : Life(c)!Init
    BY DEF Init, NewConn, Life!Init
  <1>2. IInv /\ [Next]_vars => [\A c \in Ids : [Life(c)!Next]_(Life(c)!vars)]_conn
    <2> SUFFICES ASSUME IInv, [Next]_vars, NEW c \in Ids
                 PROVE  [Life(c)!Next]_(Life(c)!vars)
      OBVIOUS
    <2>1. LifeMove(conn[c], conn'[c])
      BY LifeStep
    <2> QED
      BY <2>1 DEF LifeMove, Life!Next, Life!vars, Life!Up, Life!Disconnecting, Life!Down
  <1> QED
    BY <1>1, <1>2, Invariant, PTL DEF Spec, LivesSpec
=============================================================================
