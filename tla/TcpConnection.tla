--------------------------- MODULE TcpConnection ----------------------------
(***************************************************************************)
(* One TcpConnection (src/TcpConnection.cc) with its Channel, the io loop  *)
(* it belongs to, the server that created it, the threads that use it and  *)
(* the peer.                                                               *)
(*                                                                         *)
(* The loop is what EventLoop was shown to be: it alternates between the   *)
(* callbacks of one poll and the batch of functors queued by then, in the  *)
(* order of queueInLoop, and a queued functor makes the poll return.  todo *)
(* is the stack of what the loop thread still has to do inside the         *)
(* callback or functor it is running; "user" stands for user code, which   *)
(* may call back into the connection.                                      *)
(*                                                                         *)
(* A byte is <<m, i>>, the i-th byte of the message m.                     *)
(***************************************************************************)
EXTENDS Naturals, Sequences, SequencesExt, ChannelPoller

CONSTANTS
    Threads,         \* user threads other than the io loop's
    ThreadMsgs,      \* what those threads send
    Msgs,            \* messages, each sent at most once
    MsgLen,          \* their lengths in bytes
    File,            \* the name of the file of sendFile
    FileCount,       \* the count given to sendFile; 0: nobody calls it
    FileSize,        \* what the file really holds
    PeerChunks,      \* how many chunks of data the peer sends at most
    Callbacks,       \* which of writeComplete, highWater are set
    highWaterMark_,
    SigpipeIgnored,  \* the application ignores SIGPIPE; the library does not
    StringsOutlive   \* callers keep a sent string until the functor has run

ASSUME MsgAssumption == MsgLen \in [Msgs -> Nat \ {0}]
ASSUME FileAssumption == FileCount \in Nat /\ FileSize \in Nat /\ File \notin Msgs
ASSUME ThreadAssumption == ThreadMsgs \subseteq Msgs \cup {File}
ASSUME LimitAssumption == PeerChunks \in Nat /\ highWaterMark_ \in Nat \ {0}
ASSUME CallbackAssumption == Callbacks \subseteq {"writeComplete", "highWater"}
ASSUME ModeAssumption == SigpipeIgnored \in BOOLEAN /\ StringsOutlive \in BOOLEAN

VARIABLES
    state_,             \* kConnecting, kConnected, kDisconnecting or kDisconnected
    ch,              \* channel_ and its registration
    outputBuffer_,   \* the readable bytes
    queue,           \* the loop's functors: the batch's rest, then pending
    batch,           \* how many of them belong to the batch
    phase,           \* "poll", "events" or "functors"
    todo,            \* what the loop thread is inside of
    peer,            \* "open", "fin" (it closed) or "rst" (the connection broke)
    soErr,           \* the socket's pending error
    arrived,         \* unread chunks in the socket
    chunks,          \* chunks the peer may still send
    wrShut,          \* shutdown(SHUT_WR) was called: our FIN
    wire,            \* history: the bytes of messages the kernel took
    fileWire,        \* history: the bytes of the file the kernel took
    sent,            \* history: the bytes handed to sendInLoop
    tpc,             \* where every user thread is
    unsent,          \* messages not sent yet, and the file
    strings,         \* messages whose std::string is still there
    ups, downs,      \* history: connectionCallback_ calls, by direction
    inMap,           \* the server's connections_ holds the connection
    removals,        \* removeConnectionInLoop calls queued in the main loop
    killed           \* the process died of SIGPIPE

connVars == <<state_, ch, outputBuffer_>>
loopVars == <<queue, batch, phase, todo>>
streams == <<wire, fileWire>>
sockVars == <<peer, soErr, arrived, chunks, wrShut, streams>>
userVars == <<sent, tpc, unsent, strings>>
serverVars == <<ups, downs, inMap, removals>>
vars == <<connVars, loopVars, sockVars, userVars, serverVars, killed>>

Functor(op, arg) == [op |-> op, arg |-> arg]
NoArg == 0

Bytes(m, from, to) == [i \in 1 .. (to - from) |-> <<m, from + i>>]
Message(m) == Bytes(m, 0, MsgLen[m])
Garbage(m) == [i \in 1 .. MsgLen[m] |-> <<"garbage", i>>]

(* TcpServer::newConnection has queued connectEstablished in the io loop. *)
Init ==
    /\ state_ = "kConnecting"
    /\ ch = NewChannel
    /\ outputBuffer_ = <<>>
    /\ queue = <<Functor("established", NoArg)>>
    /\ batch = 0
    /\ phase = "poll"
    /\ todo = <<>>
    /\ peer = "open"
    /\ soErr = "none"
    /\ arrived = 0
    /\ chunks = PeerChunks
    /\ wrShut = FALSE
    /\ wire = <<>>
    /\ fileWire = <<>>
    /\ sent = <<>>
    /\ tpc = [t \in Threads |-> <<"idle">>]
    /\ unsent = Msgs \cup (IF FileCount > 0 THEN {File} ELSE {})
    /\ strings = Msgs
    /\ ups = 0
    /\ downs = 0
    /\ inMap = TRUE
    /\ removals = 0
    /\ killed = FALSE

-----------------------------------------------------------------------------
(* write(2) and sendfile(2) of len bytes on the socket.  A pending error   *)
(* is returned and cleared; otherwise a socket that may not send any more  *)
(* gives EPIPE.  A socket in order takes some of the bytes; none at all is *)
(* EWOULDBLOCK or an error of the moment (ENOBUFS, EIO of the file), which *)
(* the code treats alike: it only logs the latter.                         *)

CannotSend == wrShut \/ peer = "rst"

SendResults(len) ==
    IF CannotSend
    THEN {[n |-> 0, error |-> IF soErr = "none" THEN "EPIPE" ELSE soErr]}
    ELSE [n : 0..len, error : {"none"}]

(* What the result leaves behind in the socket and the process: EPIPE,     *)
(* pending or not, comes with SIGPIPE.                                     *)
AfterSend(r) ==
    /\ soErr' = IF r.error = "none" THEN soErr ELSE "none"
    /\ killed' = (r.error = "EPIPE" /\ ~SigpipeIgnored)

Skipped == [n |-> 0, error |-> "none"]

(* Of the errors only these two make the code drop what it was to send;    *)
(* after any other it keeps the bytes as if the socket were just full.     *)
faultError(r) == r.error \in {"EPIPE", "ECONNRESET"}

Notify(callback, condition) ==
    IF condition /\ callback \in Callbacks
    THEN <<Functor(callback, NoArg)>> ELSE <<>>

-----------------------------------------------------------------------------
(* sendInLoop(data).  rest is the functor queue it is called with.  At     *)
(* kDisconnected it logs that it gives up writing, and writes.             *)

MutWritesDirectly(c) == TRUE

MayWriteDirectly(c) == ~isWriting(c) /\ outputBuffer_ = <<>>

StartWriting(c) == IF isWriting(c) THEN c ELSE enableWriting(c)

sendInLoop(data, rest) ==
    \E r \in IF MayWriteDirectly(ch) THEN SendResults(Len(data)) ELSE {Skipped} :
      LET remaining == SubSeq(data, r.n + 1, Len(data))
          keeps == ~faultError(r) /\ remaining # <<>>
          oldLen == Len(outputBuffer_)
          newLen == oldLen + Len(remaining)
      IN  /\ wire' = wire \o SubSeq(data, 1, r.n)
          /\ AfterSend(r)
          /\ outputBuffer_' = IF keeps THEN outputBuffer_ \o remaining
                                       ELSE outputBuffer_
          /\ ch' = IF keeps THEN StartWriting(ch) ELSE ch
          /\ queue' = rest
               \o Notify("writeComplete", r.error = "none" /\ remaining = <<>>)
               \o Notify("highWater", keeps /\ newLen >= highWaterMark_
                                            /\ oldLen < highWaterMark_)

MutShutdownAtOnce == TRUE

OutputDrained == ~isWriting(ch)

(* shutdownInLoop(): the FIN, if nothing is being written. *)
shutdownInLoop == wrShut' = (wrShut \/ OutputDrained)

FileResults(offset) ==
    LET here == Min({FileCount, FileSize}) - offset
    IN  IF here = 0 THEN {Skipped} ELSE SendResults(here)

(* sendFileInLoop(offset): asks the kernel directly, and asks again from a *)
(* functor of its own for what remains.                                    *)
sendFileInLoop(offset, rest) ==
    \/ /\ state_ = "kDisconnecting"
       /\ queue' = rest
       /\ UNCHANGED <<fileWire, soErr, killed>>
    \/ /\ state_ # "kDisconnecting"
       /\ \E r \in IF MayWriteDirectly(ch) THEN FileResults(offset)
                                            ELSE {Skipped} :
            LET next == offset + r.n
            IN  /\ fileWire' = fileWire \o Bytes(File, offset, next)
                /\ AfterSend(r)
                /\ queue' = rest
                     \o Notify("writeComplete", r.error = "none" /\ next = FileCount)
                     \o (IF ~faultError(r) /\ next < FileCount
                         THEN <<Functor("file", next)>> ELSE <<>>)

-----------------------------------------------------------------------------
(* The loop thread: poll ... *)

Has(condition, x) == IF condition THEN {x} ELSE {}

Revents(space) ==
    IF ~ch.registered THEN {}
    ELSE Has("in" \in ch.interest /\ (arrived > 0 \/ peer # "open"), "in")
         \cup Has("out" \in ch.interest /\ (space \/ CannotSend), "out")
         \cup Has(peer = "rst" \/ (peer = "fin" /\ wrShut), "hup")
         \cup Has(soErr # "none", "err")

When(condition, cb) == IF condition THEN <<cb>> ELSE <<>>

(* handleEventWithGuard(): which callbacks, in which order. *)
CallbackOrder(revents) ==
    When("hup" \in revents /\ "in" \notin revents, "close")
    \o When("err" \in revents, "error")
    \o When("in" \in revents, "read")
    \o When("out" \in revents, "write")

Poll(space) ==
    /\ ~killed
    /\ phase = "poll"
    /\ Revents(space) # {} \/ queue # <<>>
    /\ todo' = CallbackOrder(Revents(space))
    /\ phase' = "events"
    /\ UNCHANGED <<connVars, queue, batch, sockVars, userVars, serverVars, killed>>

BatchSize == Len(queue)

(* ... doPendingFunctors ... *)
SwapFunctors ==
    /\ ~killed
    /\ phase = "events"
    /\ todo = <<>>
    /\ batch' = BatchSize
    /\ phase' = "functors"
    /\ UNCHANGED <<connVars, queue, todo, sockVars, userVars, serverVars, killed>>

EndRound ==
    /\ ~killed
    /\ phase = "functors"
    /\ todo = <<>>
    /\ batch = 0
    /\ phase' = "poll"
    /\ UNCHANGED <<connVars, queue, batch, todo, sockVars, userVars, serverVars, killed>>

(* The callback, or the rest of one, that the loop thread enters next. *)
Entering(cb) == ~killed /\ todo # <<>> /\ Head(todo) = cb

(* ... and the functor at the head of the batch. *)
Running(op) ==
    /\ ~killed
    /\ phase = "functors"
    /\ todo = <<>>
    /\ batch > 0
    /\ Head(queue).op = op
    /\ batch' = batch - 1
    /\ UNCHANGED phase

connectEstablished ==
    /\ Running("established")
    /\ queue' = Tail(queue)
    /\ state_' = "kConnected"
    /\ ch' = enableReading(ch)
    /\ ups' = ups + 1
    /\ todo' = <<"user">>
    /\ UNCHANGED <<outputBuffer_, sockVars, userVars, downs, inMap, removals, killed>>

MutAlwaysConnected == TRUE

connected == state_ = "kConnected"

connectDestroyed ==
    /\ Running("destroyed")
    /\ queue' = Tail(queue)
    /\ IF connected
       THEN /\ state_' = "kDisconnected"
            /\ ch' = disableAll(ch)
            /\ downs' = downs + 1
            /\ todo' = <<"user", "remove">>
       ELSE /\ ch' = removeChannel(ch)
            /\ UNCHANGED <<state_, downs, todo>>
    /\ UNCHANGED <<outputBuffer_, sockVars, userVars, ups, inMap, removals, killed>>

(* The end of connectDestroyed after its callback. *)
RemoveChannel ==
    /\ Entering("remove")
    /\ ch' = removeChannel(ch)
    /\ todo' = Tail(todo)
    /\ UNCHANGED <<state_, outputBuffer_, queue, batch, phase, sockVars,
                   userVars, serverVars, killed>>

(* The functor of a send() from another thread holds a pointer to the      *)
(* caller's string.                                                        *)
RunSend ==
    /\ Running("send")
    /\ LET m == Head(queue).arg
       IN  /\ \E data \in {Message(m)} \cup (IF m \in strings THEN {} ELSE {Garbage(m)}) :
                sendInLoop(data, Tail(queue))
           /\ sent' = sent \o Message(m)
           /\ strings' = strings \ {m}
    /\ UNCHANGED <<state_, todo, peer, arrived, chunks, wrShut, fileWire, tpc,
                   unsent, serverVars>>

RunShutdown ==
    /\ Running("shutdown")
    /\ shutdownInLoop
    /\ queue' = Tail(queue)
    /\ UNCHANGED <<connVars, todo, peer, soErr, arrived, chunks, streams,
                   userVars, serverVars, killed>>

RunFile ==
    /\ Running("file")
    /\ sendFileInLoop(Head(queue).arg, Tail(queue))
    /\ UNCHANGED <<connVars, todo, peer, arrived, chunks, wrShut, wire,
                   userVars, serverVars>>

(* writeCompleteCallback_ and highWaterMarkCallback_ are user code. *)
RunUserCallback ==
    /\ \E callback \in Callbacks : Running(callback)
    /\ queue' = Tail(queue)
    /\ todo' = <<"user">>
    /\ UNCHANGED <<connVars, sockVars, userVars, serverVars, killed>>

-----------------------------------------------------------------------------
(* The callbacks of the channel. *)

MutCloseForgetsServer ==
    /\ state_' = "kDisconnected"
    /\ ch' = disableAll(ch)
    /\ downs' = downs + 1
    /\ todo' = <<"user">> \o Tail(todo)
    /\ UNCHANGED <<outputBuffer_, ups, inMap, removals>>

(* handleClose() with what follows it on the stack: connectionCallback_    *)
(* and closeCallback_.                                                     *)
handleClose ==
    /\ state_' = "kDisconnected"
    /\ ch' = disableAll(ch)
    /\ downs' = downs + 1
    /\ todo' = <<"user", "closeCallback">> \o Tail(todo)
    /\ UNCHANGED <<outputBuffer_, ups, inMap, removals>>

HandleHup ==
    /\ Entering("close")
    /\ handleClose
    /\ UNCHANGED <<queue, batch, phase, sockVars, userVars, killed>>

(* getsockopt(SO_ERROR) takes the pending error. *)
HandleError ==
    /\ Entering("error")
    /\ soErr' = "none"
    /\ todo' = Tail(todo)
    /\ UNCHANGED <<connVars, queue, batch, phase, peer, arrived, chunks,
                   wrShut, streams, userVars, serverVars, killed>>

(* handleRead(): data, or an error (which handleError only logs), or the   *)
(* end of the stream.                                                      *)
HandleReadData ==
    /\ Entering("read")
    /\ arrived > 0
    /\ arrived' = 0
    /\ todo' = <<"user">> \o Tail(todo)
    /\ UNCHANGED <<connVars, queue, batch, phase, peer, soErr, chunks, wrShut,
                   streams, userVars, serverVars, killed>>

HandleReadError ==
    /\ Entering("read")
    /\ arrived = 0
    /\ soErr # "none"
    /\ soErr' = "none"
    /\ todo' = Tail(todo)
    /\ UNCHANGED <<connVars, queue, batch, phase, peer, arrived, chunks,
                   wrShut, streams, userVars, serverVars, killed>>

HandleReadEnd ==
    /\ Entering("read")
    /\ arrived = 0
    /\ soErr = "none"
    /\ handleClose
    /\ UNCHANGED <<queue, batch, phase, sockVars, userVars, killed>>

MutKeepsWriting(c) == c

StopWriting(c) == disableWriting(c)

MutNoFinAfterDrain == FALSE

FinAfterDrain == state_ = "kDisconnecting"

(* handleWrite(): EPOLLOUT said that there is room, so at least one byte   *)
(* goes out unless the socket broke in the meantime.                       *)
HandleWrite ==
    /\ Entering("write")
    /\ todo' = Tail(todo)
    /\ IF isWriting(ch)
       THEN \E r \in {x \in SendResults(Len(outputBuffer_)) :
                          x.n > 0 \/ x.error # "none"} :
              LET left == SubSeq(outputBuffer_, r.n + 1, Len(outputBuffer_))
                  emptied == r.n > 0 /\ left = <<>>
              IN  /\ wire' = wire \o SubSeq(outputBuffer_, 1, r.n)
                  /\ outputBuffer_' = left
                  /\ AfterSend(r)
                  /\ ch' = IF emptied THEN StopWriting(ch) ELSE ch
                  /\ queue' = queue \o Notify("writeComplete", emptied)
                  /\ wrShut' = (wrShut \/ (emptied /\ FinAfterDrain))
       ELSE UNCHANGED <<wire, outputBuffer_, soErr, killed, ch, queue, wrShut>>
    /\ UNCHANGED <<state_, batch, phase, peer, arrived, chunks, fileWire,
                   userVars, serverVars>>

-----------------------------------------------------------------------------
(* User code in the loop thread: send(), shutdown() and sendFile() run     *)
(* their InLoop half at once.                                              *)

Send(m) ==
    /\ Entering("user")
    /\ m \in unsent \cap Msgs
    /\ state_ = "kConnected"
    /\ unsent' = unsent \ {m}
    /\ sent' = sent \o Message(m)
    /\ sendInLoop(Message(m), queue)
    /\ UNCHANGED <<state_, batch, phase, todo, peer, arrived, chunks, wrShut,
                   fileWire, tpc, strings, serverVars>>

SendFile ==
    /\ Entering("user")
    /\ File \in unsent
    /\ state_ = "kConnected"
    /\ unsent' = unsent \ {File}
    /\ sendFileInLoop(0, queue)
    /\ UNCHANGED <<connVars, batch, phase, todo, peer, arrived, chunks, wrShut,
                   wire, sent, tpc, strings, serverVars>>

Shutdown ==
    /\ Entering("user")
    /\ state_ = "kConnected"
    /\ state_' = "kDisconnecting"
    /\ shutdownInLoop
    /\ UNCHANGED <<ch, outputBuffer_, loopVars, peer, soErr, arrived, chunks,
                   streams, userVars, serverVars, killed>>

UserReturn ==
    /\ Entering("user")
    /\ todo' = Tail(todo)
    /\ UNCHANGED <<connVars, queue, batch, phase, sockVars, userVars,
                   serverVars, killed>>

-----------------------------------------------------------------------------
(* User threads: the test of state_ is one step, what follows another. *)

Goto(t, where) == tpc' = [tpc EXCEPT ![t] = where]

SendTest(t, m) ==
    /\ ~killed
    /\ tpc[t] = <<"idle">>
    /\ ups > 0
    /\ m \in unsent
    /\ state_ = "kConnected"
    /\ unsent' = unsent \ {m}
    /\ Goto(t, <<"send", m>>)
    /\ UNCHANGED <<connVars, loopVars, sockVars, sent, strings, serverVars, killed>>

SendQueue(t) ==
    /\ ~killed
    /\ tpc[t][1] = "send"
    /\ LET m == tpc[t][2]
       IN  IF m = File
           THEN queue' = Append(queue, Functor("file", 0))
           ELSE queue' = Append(queue, Functor("send", m))
    /\ Goto(t, <<"idle">>)
    /\ UNCHANGED <<connVars, batch, phase, todo, sockVars, sent, unsent,
                   strings, serverVars, killed>>

ShutdownTest(t) ==
    /\ ~killed
    /\ tpc[t] = <<"idle">>
    /\ ups > 0
    /\ state_ = "kConnected"
    /\ Goto(t, <<"setState">>)
    /\ UNCHANGED <<connVars, loopVars, sockVars, sent, unsent, strings,
                   serverVars, killed>>

(* The loop may have closed the connection since the test. *)
ShutdownSet(t) ==
    /\ ~killed
    /\ tpc[t] = <<"setState">>
    /\ state_' = "kDisconnecting"
    /\ Goto(t, <<"shutdown">>)
    /\ UNCHANGED <<ch, outputBuffer_, loopVars, sockVars, sent, unsent,
                   strings, serverVars, killed>>

ShutdownQueue(t) ==
    /\ ~killed
    /\ tpc[t] = <<"shutdown">>
    /\ queue' = Append(queue, Functor("shutdown", NoArg))
    /\ Goto(t, <<"idle">>)
    /\ UNCHANGED <<connVars, batch, phase, todo, sockVars, sent, unsent,
                   strings, serverVars, killed>>

(* The caller of send() returns and its string goes. *)
StringDies(m) ==
    /\ ~killed
    /\ ~StringsOutlive
    /\ m \in strings
    /\ \E i \in DOMAIN queue : queue[i] = Functor("send", m)
    /\ strings' = strings \ {m}
    /\ UNCHANGED <<connVars, loopVars, sockVars, sent, tpc, unsent, serverVars, killed>>

-----------------------------------------------------------------------------
(* The server, in the main loop: removeConnection, removeConnectionInLoop, *)
(* and the destructor's sweep of connections_.                             *)

CloseCallback ==
    /\ Entering("closeCallback")
    /\ removals' = removals + 1
    /\ todo' = Tail(todo)
    /\ UNCHANGED <<connVars, queue, batch, phase, sockVars, userVars, ups,
                   downs, inMap, killed>>

RemoveConnectionInLoop ==
    /\ ~killed
    /\ removals > 0
    /\ removals' = removals - 1
    /\ inMap' = FALSE
    /\ queue' = Append(queue, Functor("destroyed", NoArg))
    /\ UNCHANGED <<connVars, batch, phase, todo, sockVars, userVars, ups,
                   downs, killed>>

ServerDestroyed ==
    /\ ~killed
    /\ inMap
    /\ inMap' = FALSE
    /\ queue' = Append(queue, Functor("destroyed", NoArg))
    /\ UNCHANGED <<connVars, batch, phase, todo, sockVars, userVars, ups,
                   downs, removals, killed>>

-----------------------------------------------------------------------------
(* The peer. *)

PeerSends ==
    /\ peer = "open"
    /\ chunks > 0
    /\ chunks' = chunks - 1
    /\ arrived' = arrived + 1
    /\ UNCHANGED <<connVars, loopVars, peer, soErr, wrShut, streams, userVars,
                   serverVars, killed>>

PeerCloses ==
    /\ peer = "open"
    /\ peer' = "fin"
    /\ UNCHANGED <<connVars, loopVars, soErr, arrived, chunks, wrShut, streams,
                   userVars, serverVars, killed>>

(* A reset of a connection the peer has closed is reported as EPIPE. *)
PeerResets ==
    /\ peer # "rst"
    /\ peer' = "rst"
    /\ soErr' = IF peer = "fin" THEN "EPIPE" ELSE "ECONNRESET"
    /\ UNCHANGED <<connVars, loopVars, arrived, chunks, wrShut, streams,
                   userVars, serverVars, killed>>

(* The kernel gives up a peer that stays silent, to retransmissions or to  *)
(* the keepalive probes that TcpConnection's constructor asks for.         *)
TimesOut ==
    /\ peer # "rst"
    /\ peer' = "rst"
    /\ soErr' = "ETIMEDOUT"
    /\ UNCHANGED <<connVars, loopVars, arrived, chunks, wrShut, streams,
                   userVars, serverVars, killed>>

-----------------------------------------------------------------------------
LoopCallback ==
    \/ HandleHup \/ HandleError \/ HandleReadData \/ HandleReadError
    \/ HandleReadEnd \/ HandleWrite \/ UserReturn \/ CloseCallback
    \/ RemoveChannel

LoopFunctor ==
    \/ connectEstablished \/ connectDestroyed \/ RunSend \/ RunShutdown
    \/ RunFile \/ RunUserCallback

LoopThread ==
    \/ \E space \in BOOLEAN : Poll(space)
    \/ SwapFunctors \/ EndRound \/ LoopFunctor \/ LoopCallback

InLoopUser ==
    \/ \E m \in Msgs : Send(m)
    \/ SendFile
    \/ Shutdown

UserThread(t) ==
    \/ \E m \in ThreadMsgs : SendTest(t, m)
    \/ SendQueue(t)
    \/ ShutdownTest(t) \/ ShutdownSet(t) \/ ShutdownQueue(t)

Peer == PeerSends \/ PeerCloses \/ PeerResets \/ TimesOut

(* Blocked in epoll_wait, or dead. *)
Waiting == (phase = "poll" \/ killed) /\ UNCHANGED vars

Next ==
    \/ LoopThread
    \/ InLoopUser
    \/ \E t \in Threads : UserThread(t)
    \/ \E m \in Msgs : StringDies(m)
    \/ RemoveConnectionInLoop
    \/ ServerDestroyed
    \/ Peer
    \/ Waiting

(* Threads that can run do; a peer that neither closes nor resets reads in *)
(* the end, so that the socket becomes writable again and again.           *)
Fairness ==
    /\ WF_vars(LoopThread)
    /\ SF_vars(Poll(TRUE))
    /\ WF_vars(RemoveConnectionInLoop)
    /\ \A t \in Threads :
         WF_vars(SendQueue(t) \/ ShutdownSet(t) \/ ShutdownQueue(t))

Safety == Init /\ [][Next]_vars

Spec == Safety /\ Fairness

-----------------------------------------------------------------------------
(* Closed: handleClose or connectDestroyed has run. *)
Closed == downs > 0

(* Whatever order handlers, functors and API calls come in, the poller's   *)
(* index_ and channels_ agree with the kernel's epoll set and no epoll_ctl *)
(* fails in the way that aborts the process (EPollPoller.cc:143).          *)
EpollAgrees == Consistent(ch)

(* Until it is closed, the connection is registered for EPOLLOUT exactly   *)
(* while it has bytes to write: it neither stalls with unsent bytes nor    *)
(* spins on a writable socket with nothing to send.                        *)
WritingIffBuffered ==
    ~Closed => (isWriting(ch) <=> outputBuffer_ # <<>>)

(* bytes are the first ones that sendInLoop was given, in the order of its *)
(* calls.  A string that died spoils its own bytes only, and none does if  *)
(* callers keep them until the functor has run.                            *)
Stands(bytes) ==
    /\ Len(bytes) <= Len(sent)
    /\ \A i \in DOMAIN bytes :
          \/ bytes[i] = sent[i]
          \/ ~StringsOutlive /\ bytes[i] = <<"garbage", sent[i][2]>>

(* The peer never gets bytes out of order, twice or past a gap: what went  *)
(* out is the beginning of what was sent, and until the connection closes  *)
(* or breaks or has sent its FIN, outputBuffer_ holds all the rest.  What  *)
(* a send() leaves behind after that, whether the code drops it, buffers   *)
(* it or, at kDisconnected, still writes it, is not claimed to arrive.     *)
(* The file's bytes go out in order and once, from whatever functors;      *)
(* messages may come in their middle, which is why the two are counted     *)
(* apart.                                                                  *)
StreamOrder ==
    /\ Stands(wire)
    /\ ~CannotSend /\ ~Closed =>
          /\ Stands(wire \o outputBuffer_)
          /\ Len(wire) + Len(outputBuffer_) = Len(sent)
    /\ IsPrefix(fileWire, Bytes(File, 0, FileCount))

(* shutdownInLoop() sends the FIN of a connection that is neither closed   *)
(* nor broken only when "all data in the current outputBuffer_ has been    *)
(* sent" (TcpConnection.cc:154), and that is all that sendInLoop has been  *)
(* given so far, short writes, high water and handleWrite's own FIN        *)
(* included.  It does not wait for a file, nor for a send() that another   *)
(* thread has yet to queue or that is queued behind it: those are lost.    *)
FinAfterOutput ==
    [][(wrShut' /\ ~wrShut /\ ~Closed /\ peer # "rst") =>
          (outputBuffer_' = <<>> /\ Len(wire') = Len(sent'))]_vars

(* At kDisconnected "it cannot be sent again", sendInLoop logs that it     *)
(* gives up writing (TcpConnection.cc:86-89) -- and writes, or buffers and *)
(* registers the channel again.                                            *)
GivesUpWriting ==
    [][(RunSend /\ state_ = "kDisconnected") =>
          UNCHANGED <<wire, outputBuffer_>>]_vars

(* The life of the connection is the one its user may rely on: one UP,     *)
(* then at most one DOWN, although handlers, connectDestroyed and the      *)
(* racing shutdown() of other threads all change state_.  It holds unless  *)
(* other threads send messages: a send() queued across the close registers *)
(* the channel again (TcpConnection.cc:86), and a second DOWN follows.     *)
Life == INSTANCE ConnLife
LifeSpec == Life!Spec

(* A connection whose peer goes away is taken out of the poller and of the *)
(* server's map.                                                           *)
Released == ch.index = kNew /\ ~inMap
PeerGoneReleases == (ups > 0 /\ peer # "open") ~> (Released \/ killed)

(* shutdown() of a connection whose peer keeps reading ends in a FIN.      *)
ShutdownSendsFin ==
    (state_ = "kDisconnecting") ~> (wrShut \/ Closed \/ peer = "rst" \/ killed
                                      \/ Released)
=============================================================================
