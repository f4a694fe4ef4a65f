------------------------ MODULE TcpConnectionProofs -------------------------
(***************************************************************************)
(* Proofs about TcpConnection and ChannelPoller, for any threads and       *)
(* messages, any file, any high water mark and any behaviour of the peer.  *)
(***************************************************************************)
EXTENDS TcpConnection, SeqFacts, TLAPS

-----------------------------------------------------------------------------
(* The channel. *)

ChannelSet ==
    [events : SUBSET {"in", "out"}, index : {kNew, kAdded, kDeleted}, mapped : BOOLEAN,
     registered : BOOLEAN, interest : SUBSET {"in", "out"}, aborted : BOOLEAN]

ChannelOK(c) == c \in ChannelSet /\ Consistent(c)

(* The four calls of Channel that end in update(): epoll_ctl is asked for  *)
(* what the kernel can do, and the channel is registered afterwards unless *)
(* it was and wants nothing any more.                                      *)
LEMMA ChannelCalls ==
  ASSUME NEW c, ChannelOK(c)
  PROVE  /\ LET d == enableReading(c)
            IN  ChannelOK(d) /\ d.events = c.events \cup {"in"} /\ d.index = kAdded
         /\ LET d == enableWriting(c)
            IN  ChannelOK(d) /\ d.events = c.events \cup {"out"} /\ d.index = kAdded
         /\ LET d == disableWriting(c)
            IN  /\ ChannelOK(d) /\ d.events = c.events \ {"out"}
                /\ d.events # {} => d.index = kAdded
         /\ LET d == disableAll(c)
            IN  /\ ChannelOK(d) /\ d.events = {}
                /\ c.index = kAdded => d.index = kDeleted
  <1>1. LET d == enableReading(c)
        IN  ChannelOK(d) /\ d.events = c.events \cup {"in"} /\ d.index = kAdded
    BY DEF ChannelOK, ChannelSet, updateChannel, CtlAdd, CtlMod, CtlDel, isNoneEvent,
           kNoneEvent, kReadEvent, kWriteEvent, kNew, kAdded, kDeleted, Consistent,
           enableReading
  <1>2. LET d == enableWriting(c)
        IN  ChannelOK(d) /\ d.events = c.events \cup {"out"} /\ d.index = kAdded
    BY DEF ChannelOK, ChannelSet, updateChannel, CtlAdd, CtlMod, CtlDel, isNoneEvent,
           kNoneEvent, kReadEvent, kWriteEvent, kNew, kAdded, kDeleted, Consistent,
           enableWriting
  <1>3. LET d == disableWriting(c)
        IN  /\ ChannelOK(d) /\ d.events = c.events \ {"out"}
            /\ d.events # {} => d.index = kAdded
    BY DEF ChannelOK, ChannelSet, updateChannel, CtlAdd, CtlMod, CtlDel, isNoneEvent,
           kNoneEvent, kReadEvent, kWriteEvent, kNew, kAdded, kDeleted, Consistent,
           disableWriting
  <1>4. LET d == disableAll(c)
        IN  /\ ChannelOK(d) /\ d.events = {}
            /\ c.index = kAdded => d.index = kDeleted
    BY DEF ChannelOK, ChannelSet, updateChannel, CtlAdd, CtlMod, CtlDel, isNoneEvent,
           kNoneEvent, kReadEvent, kWriteEvent, kNew, kAdded, kDeleted, Consistent,
           disableAll
  <1> QED
    BY <1>1, <1>2, <1>3, <1>4

(* removeChannel() takes the channel out of the map and of the kernel's    *)
(* set.                                                                    *)
LEMMA RemoveAgrees ==
  ASSUME NEW c, ChannelOK(c)
  PROVE  LET d == removeChannel(c)
         IN  ChannelOK(d) /\ d.events = c.events /\ d.index = kNew
  BY DEF ChannelOK, ChannelSet, removeChannel, CtlDel, kNew, kAdded, kDeleted, Consistent

-----------------------------------------------------------------------------
(* Types. *)

CallbackNames == {"close", "error", "read", "write", "user", "closeCallback", "remove"}

FunctorSet ==
    {f \in [op : {"established", "destroyed", "send", "shutdown", "file",
                  "writeComplete", "highWater"},
            arg : Msgs \cup Nat] :
        /\ f.op = "send" => f.arg \in Msgs
        /\ f.op = "file" => f.arg \in Nat}

ByteSet == (Msgs \cup {"garbage"}) \X Nat

Typed ==
    /\ state_ \in {"kConnecting", "kConnected", "kDisconnecting", "kDisconnected"}
    /\ outputBuffer_ \in Seq(ByteSet)
    /\ queue \in Seq(FunctorSet)
    /\ batch \in 0..Len(queue)
    /\ todo \in Seq(CallbackNames)
    /\ wrShut \in BOOLEAN
    /\ tpc \in [Threads -> {<<"idle">>, <<"setState">>, <<"shutdown">>}
                            \cup {<<"send", m>> : m \in ThreadMsgs}]
    /\ downs \in Nat

(* Only a broken connection has an error other than EPIPE to report.       *)
PendingError == soErr # "none" => peer = "rst"

(* Once the FIN is out nothing is left to write, unless the connection     *)
(* breaks: the next send() may then get an error that makes it buffer.     *)
FinSent == wrShut /\ ~Closed /\ peer # "rst" => outputBuffer_ = <<>>

(* What every step keeps.  The two properties about the output need each   *)
(* other: once the FIN is out only the empty buffer, hence MayWriteDirectly *)
(* and EPIPE, keeps new bytes out of the buffer.                           *)
ConnInv ==
    /\ Typed
    /\ ChannelOK(ch)
    /\ WritingIffBuffered
    /\ PendingError
    /\ FinSent

(* What every step does to the socket: it stays broken.                    *)
SocketKept == PendingError' /\ (peer = "rst" => peer' = "rst")

(* Threads other than the loop's send nothing but the file.                *)
NoForeignSend == ThreadMsgs \subseteq {File}

(* r is q with functors queued behind it that are not connectEstablished,  *)
(* and a send() only if other threads send.                                *)
Queued(r, q) ==
    /\ r \in Seq(FunctorSet)
    /\ Len(q) <= Len(r)
    /\ \A i \in 1..Len(q) : r[i] = q[i]
    /\ \A i \in (Len(q) + 1)..Len(r) :
         r[i].op # "established" /\ (r[i].op = "send" => ~NoForeignSend)

(* The functors the code makes.                                            *)
LEMMA FunctorTypes ==
  /\ \A op \in {"established", "destroyed", "shutdown", "file", "writeComplete", "highWater"},
        a \in Nat : Functor(op, a) \in FunctorSet /\ Functor(op, a).op = op
  /\ \A m \in Msgs : Functor("send", m) \in FunctorSet /\ Functor("send", m).op = "send"
  BY DEF Functor, FunctorSet

(* Queueing one functor, or a notification that may or may not be due.     *)
LEMMA QueueOne ==
  ASSUME NEW q \in Seq(FunctorSet), NEW f \in FunctorSet, f.op # "established",
         f.op = "send" => ~NoForeignSend
  PROVE  Queued(Append(q, f), q)
  BY AppendAt DEF Queued

(* Queueing a sequence of functors.                                        *)
LEMMA QueueMore ==
  ASSUME NEW q \in Seq(FunctorSet), NEW r, Queued(r, q),
         NEW s \in Seq(FunctorSet), Len(s) <= 1,
         Len(s) = 1 => s[1].op \notin {"established", "send"}
  PROVE  Queued(r \o s, q)
  <1>1. r \in Seq(FunctorSet)
    BY DEF Queued
  <1>2. PICK a \in Nat, b \in Nat, c \in {0, 1} : a = Len(q) /\ b = Len(r) /\ c = Len(s)
    <2>1. Len(q) \in Nat /\ Len(r) \in Nat /\ Len(s) \in Nat
      BY <1>1
    <2>2. \A n \in Nat : n <= 1 => n \in {0, 1}
      OBVIOUS
    <2> QED
      BY <2>1, <2>2
  <1>3. r \o s \in Seq(FunctorSet) /\ Len(r \o s) = b + c
        /\ (\A i \in 1..b : (r \o s)[i] = r[i])
        /\ (c = 1 => (r \o s)[b + 1] = s[1])
    BY <1>1, <1>2
  <1>4. /\ a <= b
        /\ \A i \in 1..a : r[i] = q[i]
        /\ \A i \in (a + 1)..b : r[i].op # "established" /\ (r[i].op = "send" => ~NoForeignSend)
    BY <1>2 DEF Queued
  <1> DEFINE z == r \o s
  <1>5. z \in Seq(FunctorSet) /\ Len(z) = b + c /\ (\A i \in 1..b : z[i] = r[i])
        /\ (c = 1 => z[b + 1] = s[1])
    BY <1>3
  <1> HIDE DEF z
  <1>6. \A i \in (a + 1)..(b + c) : i \in (a + 1)..b \/ (c = 1 /\ i = b + 1)
    BY <1>4
  <1>7. \A i \in (a + 1)..b : i \in 1..b
    BY <1>4
  <1>8. \A i \in (a + 1)..(b + c) :
           z[i].op # "established" /\ (z[i].op = "send" => ~NoForeignSend)
    BY <1>2, <1>4, <1>5, <1>6, <1>7
  <1>9. a <= b + c /\ \A i \in 1..a : z[i] = q[i]
    BY <1>4, <1>5
  <1>10. Queued(z, q)
    BY <1>2, <1>5, <1>8, <1>9 DEF Queued
  <1> QED
    BY <1>10 DEF z

(* Notify() queues at most the one callback.                               *)
LEMMA NotifyQueues ==
  ASSUME NEW q \in Seq(FunctorSet), NEW r, Queued(r, q),
         NEW cb \in {"writeComplete", "highWater"}, NEW P
  PROVE  Queued(r \o Notify(cb, P), q)
  <1>1. Functor(cb, NoArg) \in FunctorSet /\ Functor(cb, NoArg).op = cb
    BY FunctorTypes DEF NoArg
  <1>2. Notify(cb, P) = <<Functor(cb, NoArg)>> \/ Notify(cb, P) = <<>>
    BY DEF Notify
  <1> DEFINE s == Notify(cb, P)
  <1>3. s \in Seq(FunctorSet) /\ Len(s) <= 1
        /\ (Len(s) = 1 => s[1].op \notin {"established", "send"})
    <2>1. CASE s = <<Functor(cb, NoArg)>>
      BY <1>1, <2>1
    <2>2. CASE s = <<>>
      BY <2>2
    <2> QED
      BY <1>2, <2>1, <2>2
  <1> HIDE DEF s
  <1>4. Queued(r \o s, q)
    BY <1>3, QueueMore
  <1> QED
    BY <1>4 DEF s

(* A queue is itself, queued behind nothing.                               *)
LEMMA QueuedSelf ==
  ASSUME NEW q \in Seq(FunctorSet)
  PROVE  Queued(q, q)
  BY DEF Queued

(* A message, or what is read through a dangling pointer, is a sequence of *)
(* bytes that is not empty.                                                *)
LEMMA DataTypes ==
  ASSUME NEW m \in Msgs
  PROVE  /\ Message(m) \in Seq(ByteSet) /\ Message(m) # <<>>
         /\ Garbage(m) \in Seq(ByteSet) /\ Garbage(m) # <<>>
  <1>1. MsgLen[m] \in Nat \ {0} /\ MsgLen[m] - 0 = MsgLen[m]
    BY MsgAssumption
  <1>2. PICK k \in Nat \ {0} : k = MsgLen[m]
    BY <1>1
  <1>3. Message(m) = [i \in 1..k |-> <<m, 0 + i>>]
    BY <1>1, <1>2 DEF Message, Bytes
  <1>4. Message(m) \in Seq(ByteSet) /\ Len(Message(m)) = k
    <2>1. \A i \in 1..k : <<m, 0 + i>> \in ByteSet
      BY DEF ByteSet
    <2> QED
      BY <1>3, <2>1
  <1>5. Garbage(m) = [i \in 1..k |-> <<"garbage", i>>]
    BY <1>2 DEF Garbage
  <1>6. Garbage(m) \in Seq(ByteSet) /\ Len(Garbage(m)) = k
    <2>1. \A i \in 1..k : <<"garbage", i>> \in ByteSet
      BY DEF ByteSet
    <2> QED
      BY <1>5, <2>1
  <1> QED
    BY <1>4, <1>6

(* The results of a write of len bytes.                                    *)
LEMMA SendResultTypes ==
  ASSUME NEW len \in Int, NEW r \in SendResults(len)
  PROVE  \/ CannotSend /\ r.n = 0 /\ (soErr = "none" => faultError(r))
         \/ ~CannotSend /\ r.n \in 0..len /\ ~faultError(r)
  <1>1. CASE CannotSend
    <2>1. r = [n |-> 0, error |-> IF soErr = "none" THEN "EPIPE" ELSE soErr]
      BY <1>1 DEF SendResults
    <2> QED
      BY <1>1, <2>1 DEF faultError
  <1>2. CASE ~CannotSend
    <2>1. r \in [n : 0..len, error : {"none"}]
      BY <1>2 DEF SendResults
    <2>2. r.n \in 0..len /\ r.error = "none"
      BY <2>1
    <2> QED
      BY <1>2, <2>2 DEF faultError
  <1> QED
    BY <1>1, <1>2

(* What is left of a sequence after its first k elements.                  *)
LEMMA RestOf ==
  ASSUME NEW S, NEW q \in Seq(S), NEW k \in 0..Len(q)
  PROVE  /\ SubSeq(q, k + 1, Len(q)) \in Seq(S)
         /\ Len(SubSeq(q, k + 1, Len(q))) = Len(q) - k
         /\ k = 0 => SubSeq(q, k + 1, Len(q)) = q
  <1>1. PICK l \in Nat : l = Len(q)
    OBVIOUS
  <1>2. k \in Nat /\ k <= l
    BY <1>1
  <1> DEFINE z == SubSeq(q, k + 1, l)
  <1>3. z = [i \in 1..(l - k) |-> q[k + i]]
    BY <1>1, <1>2
  <1>4. z \in Seq(S) /\ Len(z) = l - k
    <2>1. l - k \in Nat /\ \A i \in 1..(l - k) : k + i \in 1..l
      BY <1>1, <1>2
    <2>2. \A i \in 1..(l - k) : q[k + i] \in S
      BY <1>1, <2>1
    <2>3. PICK d \in Nat : d = l - k
      BY <2>1
    <2>4. z = [i \in 1..d |-> q[k + i]] /\ \A i \in 1..d : q[k + i] \in S
      BY <1>3, <2>2, <2>3
    <2>5. z \in [1..d -> S]
      BY <2>4
    <2>6. z \in Seq(S) /\ Len(z) = d
      BY <2>5, <2>4
    <2> QED
      BY <2>3, <2>6
  <1>5. ASSUME k = 0
        PROVE  z = q
    <2>1. Len(z) = Len(q) /\ \A i \in 1..Len(z) : z[i] = q[i]
      BY <1>1, <1>3, <1>4, <1>5
    <2> HIDE DEF z
    <2> QED
      BY <1>4, <2>1, SeqEqual
  <1> QED
    BY <1>1, <1>4, <1>5

(* sendInLoop() keeps the output and the channel right, and leaves only    *)
(* notifications behind the functors it was called with.                   *)
LEMMA SendInLoop ==
  ASSUME ConnInv, NEW data \in Seq(ByteSet), NEW rest \in Seq(FunctorSet),
         sendInLoop(data, rest)
  PROVE  /\ Queued(queue', rest)
         /\ outputBuffer_' \in Seq(ByteSet)
         /\ ch' = ch \/ ch' = enableWriting(ch)
         /\ ~Closed => (isWriting(ch') <=> outputBuffer_' # <<>>)
         /\ wrShut /\ ~Closed /\ peer # "rst" => outputBuffer_' = <<>>
  <1>1. PICK r \in IF MayWriteDirectly(ch) THEN SendResults(Len(data)) ELSE {Skipped} :
      LET remaining == SubSeq(data, r.n + 1, Len(data))
          keeps == ~faultError(r) /\ remaining # <<>>
          oldLen == Len(outputBuffer_)
          newLen == oldLen + Len(remaining)
      IN  /\ outputBuffer_' = IF keeps THEN outputBuffer_ \o remaining
                                       ELSE outputBuffer_
          /\ ch' = IF keeps THEN StartWriting(ch) ELSE ch
          /\ queue' = rest
               \o Notify("writeComplete", r.error = "none" /\ remaining = <<>>)
               \o Notify("highWater", keeps /\ newLen >= highWaterMark_
                                            /\ oldLen < highWaterMark_)
    BY DEF sendInLoop
  <1>2. Queued(queue', rest)
    BY <1>1, QueuedSelf, NotifyQueues
  <1>3. PICK k \in 0..Len(data) : k = r.n
    <2>1. CASE MayWriteDirectly(ch)
      <3>1. r \in SendResults(Len(data)) /\ Len(data) \in Nat /\ Len(data) \in Int
        BY <2>1
      <3>2. r.n = 0 \/ r.n \in 0..Len(data)
        BY <3>1, SendResultTypes, Zenon
      <3> QED
        BY <3>1, <3>2
    <2>2. CASE ~MayWriteDirectly(ch)
      BY <2>2 DEF Skipped
    <2> QED
      BY <2>1, <2>2
  <1> DEFINE remaining == SubSeq(data, k + 1, Len(data))
             keeps == ~faultError(r) /\ remaining # <<>>
  <1>4. remaining \in Seq(ByteSet)
    BY RestOf
  <1>5. /\ outputBuffer_' = IF keeps THEN outputBuffer_ \o remaining ELSE outputBuffer_
        /\ ch' = IF keeps THEN StartWriting(ch) ELSE ch
    BY <1>1, <1>3
  <1>6. outputBuffer_ \in Seq(ByteSet) /\ ChannelOK(ch)
    BY DEF ConnInv, Typed
  <1>7. ASSUME wrShut, ~Closed, peer # "rst"
        PROVE  ~keeps
    <2>1. MayWriteDirectly(ch) /\ CannotSend /\ soErr = "none"
      BY <1>7 DEF ConnInv, WritingIffBuffered, FinSent, PendingError, MayWriteDirectly,
           CannotSend
    <2>2. r \in SendResults(Len(data))
      BY <2>1
    <2>3. Len(data) \in Int
      OBVIOUS
    <2>4. faultError(r)
      BY <2>1, <2>2, <2>3, SendResultTypes, Zenon
    <2> QED
      BY <2>4
  <1> HIDE DEF remaining
  <1>8. CASE keeps
    <2>1. outputBuffer_' \in Seq(ByteSet) /\ outputBuffer_' # <<>>
      BY <1>4, <1>5, <1>6, <1>8
    <2>2. (ch' = ch /\ isWriting(ch)) \/ ch' = enableWriting(ch)
      BY <1>5, <1>8 DEF StartWriting
    <2>3. isWriting(ch')
      BY <1>6, <2>2, ChannelCalls DEF isWriting
    <2> QED
      BY <1>2, <1>7, <1>8, <2>1, <2>2, <2>3
  <1>9. CASE ~keeps
    <2>1. outputBuffer_' = outputBuffer_ /\ ch' = ch
      BY <1>5, <1>9
    <2> QED
      BY <1>2, <1>6, <2>1 DEF ConnInv, WritingIffBuffered, FinSent
  <1> QED
    BY <1>8, <1>9

(* sendFileInLoop() at an offset leaves a notification or the functor that *)
(* asks for the rest.                                                      *)
LEMMA SendFileInLoop ==
  ASSUME NEW offset \in Nat, NEW rest \in Seq(FunctorSet), sendFileInLoop(offset, rest)
  PROVE  Queued(queue', rest)
  <1>1. CASE queue' = rest
    BY <1>1, QueuedSelf
  <1>2. CASE \E r \in IF MayWriteDirectly(ch) THEN FileResults(offset) ELSE {Skipped} :
               queue' = rest
                     \o Notify("writeComplete", r.error = "none" /\ offset + r.n = FileCount)
                     \o (IF ~faultError(r) /\ offset + r.n < FileCount
                         THEN <<Functor("file", offset + r.n)>> ELSE <<>>)
    <2>1. PICK r \in IF MayWriteDirectly(ch) THEN FileResults(offset) ELSE {Skipped} :
               queue' = rest
                     \o Notify("writeComplete", r.error = "none" /\ offset + r.n = FileCount)
                     \o (IF ~faultError(r) /\ offset + r.n < FileCount
                         THEN <<Functor("file", offset + r.n)>> ELSE <<>>)
      BY <1>2
    <2>2. PICK k \in Nat : k = r.n
      <3>1. CASE r = Skipped
        BY <3>1 DEF Skipped
      <3>2. CASE r \in SendResults(Min({FileCount, FileSize}) - offset)
        <4>1. {FileCount, FileSize} \in SUBSET Nat /\ {FileCount, FileSize} # {}
          BY FileAssumption
        <4>2. Min({FileCount, FileSize}) \in Nat
          BY <4>1, LeastNatural
        <4>3. Min({FileCount, FileSize}) - offset \in Int
          BY <4>2
        <4>4. r.n = 0 \/ r.n \in 0..(Min({FileCount, FileSize}) - offset)
          BY <3>2, <4>3, SendResultTypes, Zenon
        <4> QED
          BY <4>3, <4>4
      <3> QED
        BY <3>1, <3>2 DEF FileResults
    <2> DEFINE n == Notify("writeComplete", r.error = "none" /\ offset + k = FileCount)
               s == IF ~faultError(r) /\ offset + k < FileCount
                    THEN <<Functor("file", offset + k)>> ELSE <<>>
    <2>3. Queued(rest \o n, rest)
      BY QueuedSelf, NotifyQueues
    <2>4. Functor("file", offset + k) \in FunctorSet /\ Functor("file", offset + k).op = "file"
      <3>1. offset + k \in Nat
        OBVIOUS
      <3> QED
        BY <3>1, FunctorTypes
    <2>5. s = <<Functor("file", offset + k)>> \/ s = <<>>
      OBVIOUS
    <2> HIDE DEF n, s
    <2>6. s \in Seq(FunctorSet) /\ Len(s) <= 1
          /\ (Len(s) = 1 => s[1].op \notin {"established", "send"})
      <3>1. CASE s = <<Functor("file", offset + k)>>
        BY <2>4, <3>1
      <3>2. CASE s = <<>>
        BY <3>2
      <3> QED
        BY <2>5, <3>1, <3>2
    <2>7. queue' = (rest \o n) \o s
      BY <2>1, <2>2 DEF n, s
    <2> QED
      BY <2>3, <2>6, <2>7, QueueMore
  <1> QED
    BY <1>1, <1>2 DEF sendFileInLoop

(* Callbacks that may close the connection: none, or at most one, in a     *)
(* stack.                                                                  *)
Closing == {"close", "read"}
NoneClosing(s) == \A i \in 1..Len(s) : s[i] \notin Closing
OneClosing(s) == \A i, j \in 1..Len(s) : s[i] \in Closing /\ s[j] \in Closing => i = j

(* How both fare when stacks are put together.                             *)
LEMMA ClosingConcat ==
  ASSUME NEW S, NEW s \in Seq(S), NEW t \in Seq(S)
  PROVE  /\ s \o t \in Seq(S)
         /\ NoneClosing(s) /\ NoneClosing(t) => NoneClosing(s \o t)
         /\ NoneClosing(s) /\ OneClosing(t) => OneClosing(s \o t)
         /\ OneClosing(s) /\ NoneClosing(t) => OneClosing(s \o t)
  <1>1. PICK a \in Nat, b \in Nat : a = Len(s) /\ b = Len(t)
    OBVIOUS
  <1> DEFINE z == s \o t
  <1>2. z \in Seq(S) /\ Len(z) = a + b
        /\ (\A i \in 1..a : z[i] = s[i])
        /\ (\A i \in (a + 1)..(a + b) : z[i] = t[i - a])
    BY <1>1
  <1> HIDE DEF z
  <1>3. \A i \in 1..(a + b) : i \in 1..a \/ (i \in (a + 1)..(a + b) /\ i - a \in 1..b)
    OBVIOUS
  <1>4. \A i, j \in (a + 1)..(a + b) : i - a = j - a => i = j
    OBVIOUS
  <1>5. NoneClosing(s) /\ NoneClosing(t) => NoneClosing(z)
    BY <1>1, <1>2, <1>3 DEF NoneClosing
  <1>6. ASSUME NoneClosing(s), OneClosing(t)
        PROVE  OneClosing(z)
    <2>1. SUFFICES ASSUME NEW i \in 1..(a + b), NEW j \in 1..(a + b),
                          z[i] \in Closing, z[j] \in Closing
                   PROVE  i = j
      BY <1>2 DEF OneClosing
    <2>2. i \notin 1..a /\ j \notin 1..a
      BY <1>1, <1>2, <1>6, <2>1 DEF NoneClosing
    <2>3. i \in (a + 1)..(a + b) /\ j \in (a + 1)..(a + b) /\ i - a \in 1..b /\ j - a \in 1..b
      BY <1>3, <2>2
    <2>4. i - a = j - a
      BY <1>1, <1>2, <1>6, <2>1, <2>3 DEF OneClosing
    <2> QED
      BY <1>4, <2>3, <2>4
  <1>7. ASSUME OneClosing(s), NoneClosing(t)
        PROVE  OneClosing(z)
    <2>1. SUFFICES ASSUME NEW i \in 1..(a + b), NEW j \in 1..(a + b),
                          z[i] \in Closing, z[j] \in Closing
                   PROVE  i = j
      BY <1>2 DEF OneClosing
    <2>2. i \in 1..a /\ j \in 1..a
      BY <1>1, <1>2, <1>3, <1>7, <2>1 DEF NoneClosing
    <2> QED
      BY <1>1, <1>2, <1>7, <2>1, <2>2 DEF OneClosing
  <1> QED
    BY <1>2, <1>5, <1>6, <1>7 DEF z

(* handleEventWithGuard() calls the close or the read callback at most     *)
(* once, and never both; without events it calls nothing.                  *)
LEMMA OrderOfCallbacks ==
  ASSUME NEW R
  PROVE  /\ CallbackOrder(R) \in Seq({"close", "error", "read", "write"})
         /\ OneClosing(CallbackOrder(R))
         /\ R = {} => CallbackOrder(R) = <<>>
  <1> DEFINE a == When("hup" \in R /\ "in" \notin R, "close")
             b == When("err" \in R, "error")
             c == When("in" \in R, "read")
             d == When("out" \in R, "write")
             S == {"close", "error", "read", "write"}
  <1>1. (a = <<>> \/ (a = <<"close">> /\ c = <<>>)) /\ (b = <<>> \/ b = <<"error">>)
        /\ (c = <<>> \/ c = <<"read">>) /\ (d = <<>> \/ d = <<"write">>)
    BY DEF When
  <1>2. R = {} => a = <<>> /\ b = <<>> /\ c = <<>> /\ d = <<>>
    BY DEF When
  <1>3. CallbackOrder(R) = ((a \o b) \o c) \o d
    BY DEF CallbackOrder
  <1> HIDE DEF a, b, c, d
  <1>4. \A x \in {"close", "error", "read", "write"} :
           <<x>> \in Seq(S) /\ OneClosing(<<x>>) /\ (x \notin Closing => NoneClosing(<<x>>))
    BY DEF OneClosing, NoneClosing
  <1>5. <<>> \in Seq(S) /\ OneClosing(<<>>) /\ NoneClosing(<<>>)
    BY DEF OneClosing, NoneClosing
  <1>6. a \in Seq(S) /\ b \in Seq(S) /\ c \in Seq(S) /\ d \in Seq(S)
    BY <1>1, <1>4, <1>5
  <1>7. NoneClosing(b) /\ NoneClosing(d) /\ OneClosing(a) /\ OneClosing(c)
        /\ (NoneClosing(a) \/ NoneClosing(c))
    <2>1. NoneClosing(<<"error">>) /\ NoneClosing(<<"write">>)
      BY <1>4 DEF Closing
    <2>2. OneClosing(<<"close">>) /\ OneClosing(<<"read">>)
      BY <1>4
    <2> QED
      BY <1>1, <1>5, <2>1, <2>2
  <1>8. a \o b \in Seq(S) /\ OneClosing(a \o b) /\ (NoneClosing(a) => NoneClosing(a \o b))
    BY <1>6, <1>7, ClosingConcat
  <1>9. (a \o b) \o c \in Seq(S) /\ OneClosing((a \o b) \o c)
    BY <1>6, <1>7, <1>8, ClosingConcat
  <1>10. ((a \o b) \o c) \o d \in Seq(S) /\ OneClosing(((a \o b) \o c) \o d)
    BY <1>6, <1>7, <1>9, ClosingConcat
  <1>11. R = {} => ((a \o b) \o c) \o d = <<>>
    BY <1>2
  <1> QED
    BY <1>3, <1>10, <1>11

(* What is left of the stack when the callback on top of it returns, and   *)
(* with user code and closeCallback_ on top of that.                       *)
LEMMA Returning ==
  ASSUME NEW S, {"user", "closeCallback"} \subseteq S, NEW t \in Seq(S), t # <<>>
  PROVE  /\ Tail(t) \in Seq(S)
         /\ OneClosing(t) => OneClosing(Tail(t))
         /\ OneClosing(t) /\ Head(t) \in Closing => NoneClosing(Tail(t))
         /\ NoneClosing(t) => NoneClosing(Tail(t))
         /\ \A u \in {<<"user">>, <<"user", "closeCallback">>} :
              /\ u \o Tail(t) \in Seq(S)
              /\ OneClosing(Tail(t)) => OneClosing(u \o Tail(t))
              /\ NoneClosing(Tail(t)) => NoneClosing(u \o Tail(t))
  <1>1. PICK a \in Nat \ {0} : a = Len(t)
    OBVIOUS
  <1> DEFINE z == Tail(t)
  <1>2. z \in Seq(S) /\ Len(z) = a - 1 /\ Head(t) = t[1]
        /\ \A i \in 1..(a - 1) : z[i] = t[i + 1]
    BY <1>1
  <1> HIDE DEF z
  <1>3. \A i \in 1..(a - 1) : i + 1 \in 1..a /\ i + 1 # 1
    OBVIOUS
  <1>4. \A i, j \in 1..(a - 1) : i + 1 = j + 1 => i = j
    OBVIOUS
  <1>5. ASSUME OneClosing(t) PROVE OneClosing(z)
    <2>1. SUFFICES ASSUME NEW i \in 1..(a - 1), NEW j \in 1..(a - 1),
                          z[i] \in Closing, z[j] \in Closing
                   PROVE  i = j
      BY <1>2 DEF OneClosing
    <2>2. i + 1 = j + 1
      BY <1>1, <1>2, <1>3, <1>5, <2>1 DEF OneClosing
    <2> QED
      BY <1>4, <2>2
  <1>6. ASSUME OneClosing(t), Head(t) \in Closing PROVE NoneClosing(z)
    <2>1. SUFFICES ASSUME NEW i \in 1..(a - 1), z[i] \in Closing
                   PROVE  FALSE
      BY <1>2 DEF NoneClosing
    <2>2. 1 \in 1..a
      OBVIOUS
    <2> QED
      BY <1>1, <1>2, <1>3, <1>6, <2>1, <2>2 DEF OneClosing
  <1>7. NoneClosing(t) => NoneClosing(z)
    BY <1>1, <1>2, <1>3 DEF NoneClosing
  <1>8. ASSUME NEW u \in {<<"user">>, <<"user", "closeCallback">>}
        PROVE  /\ u \o z \in Seq(S)
               /\ OneClosing(z) => OneClosing(u \o z)
               /\ NoneClosing(z) => NoneClosing(u \o z)
    <2>1. u \in Seq(S) /\ NoneClosing(u)
      <3>1. CASE u = <<"user">>
        BY <3>1 DEF NoneClosing, Closing
      <3>2. CASE u = <<"user", "closeCallback">>
        BY <3>2 DEF NoneClosing, Closing
      <3> QED
        BY <3>1, <3>2
    <2> QED
      BY <1>2, <2>1, ClosingConcat
  <1> QED
    BY <1>2, <1>5, <1>6, <1>7, <1>8 DEF z

-----------------------------------------------------------------------------
(* The invariant of the channel and the output. *)

(* The batch stays within the queue when functors are queued ...           *)
LEMMA BatchKept ==
  ASSUME Typed, Queued(queue', queue), batch' = batch
  PROVE  queue' \in Seq(FunctorSet) /\ batch' \in 0..Len(queue')
  <1>1. queue \in Seq(FunctorSet) /\ queue' \in Seq(FunctorSet) /\ Len(queue) <= Len(queue')
        /\ batch \in 0..Len(queue)
    BY DEF Queued, Typed
  <1>2. Len(queue) \in Nat /\ Len(queue') \in Nat
    BY <1>1
  <1> QED
    BY <1>1, <1>2

(* ... and when the head of the batch is taken.                            *)
LEMMA BatchTaken ==
  ASSUME Typed, NEW op, Running(op)
  PROVE  /\ queue # <<>> /\ Head(queue) \in FunctorSet /\ Head(queue) = queue[1]
         /\ queue[1].op = op /\ Len(queue) \in Nat \ {0}
         /\ Tail(queue) \in Seq(FunctorSet) /\ Len(Tail(queue)) = Len(queue) - 1
         /\ \A i \in 1..Len(Tail(queue)) : Tail(queue)[i] = queue[i + 1] /\ i + 1 \in 1..Len(queue)
         /\ Queued(queue', Tail(queue)) =>
               queue' \in Seq(FunctorSet) /\ batch' \in 0..Len(queue')
  <1>1. queue \in Seq(FunctorSet) /\ batch \in 0..Len(queue) /\ batch > 0
        /\ Head(queue).op = op /\ batch' = batch - 1
    BY DEF Typed, Running
  <1>2. Len(queue) \in Nat \ {0} /\ queue # <<>>
    BY <1>1
  <1>3. /\ Head(queue) \in FunctorSet /\ Head(queue) = queue[1]
        /\ Tail(queue) \in Seq(FunctorSet) /\ Len(Tail(queue)) = Len(queue) - 1
        /\ \A i \in 1..Len(Tail(queue)) : Tail(queue)[i] = queue[i + 1] /\ i + 1 \in 1..Len(queue)
    BY <1>1, <1>2, TailAt
  <1>4. ASSUME Queued(queue', Tail(queue))
        PROVE  queue' \in Seq(FunctorSet) /\ batch' \in 0..Len(queue')
    <2>1. queue' \in Seq(FunctorSet) /\ Len(queue) - 1 <= Len(queue')
      BY <1>3, <1>4 DEF Queued
    <2>2. Len(queue') \in Nat
      BY <2>1
    <2> QED
      BY <1>1, <1>2, <2>1, <2>2
  <1> QED
    BY <1>1, <1>2, <1>3, <1>4

TpcSet ==
    [Threads -> {<<"idle">>, <<"setState">>, <<"shutdown">>}
                \cup {<<"send", m>> : m \in ThreadMsgs}]

LoopTyped ==
    /\ state_ \in {"kConnecting", "kConnected", "kDisconnecting", "kDisconnected"}
    /\ queue \in Seq(FunctorSet)
    /\ batch \in 0..Len(queue)
    /\ todo \in Seq(CallbackNames)
    /\ tpc \in TpcSet

(* A step that leaves the channel, the output and the FIN alone.           *)
LEMMA QuietStep ==
  ASSUME ConnInv, SocketKept, UNCHANGED <<ch, outputBuffer_, wrShut, downs>>, LoopTyped'
  PROVE  ConnInv'
  BY DEF ConnInv, Typed, LoopTyped, TpcSet, WritingIffBuffered, FinSent, SocketKept, Closed

(* The initial state.                                                      *)
LEMMA ConnInit ==
  ASSUME Init
  PROVE  ConnInv
  <1>1. Functor("established", NoArg) \in FunctorSet
    BY FunctorTypes DEF NoArg
  <1>2. queue \in Seq(FunctorSet) /\ Len(queue) = 1
    BY <1>1 DEF Init
  <1>3. Typed
    <2>1. tpc \in TpcSet
      BY Zenon DEF Init, TpcSet
    <2>2. outputBuffer_ \in Seq(ByteSet) /\ todo \in Seq(CallbackNames) /\ batch \in 0..Len(queue)
      BY <1>2 DEF Init
    <2> QED
      BY <1>2, <2>1, <2>2 DEF Init, Typed, TpcSet
  <1>4. ch \in ChannelSet /\ Consistent(ch) /\ ~isWriting(ch)
    BY DEF Init, NewChannel, ChannelSet, Consistent, kNoneEvent, kNew, kAdded, kDeleted,
           isWriting
  <1> QED
    BY <1>3, <1>4 DEF ConnInv, ChannelOK, WritingIffBuffered, FinSent, PendingError, Init

(* The functors the loop runs.                                             *)
LEMMA ConnFunctor ==
  ASSUME ConnInv, SocketKept, LoopFunctor
  PROVE  ConnInv'
  <1>0. LoopTyped /\ Typed /\ ChannelOK(ch)
    BY DEF ConnInv, LoopTyped, Typed, TpcSet
  <1>1. CASE connectEstablished
    <2>1. queue' = Tail(queue) /\ UNCHANGED <<outputBuffer_, wrShut, tpc, downs>>
          /\ ch' = enableReading(ch) /\ todo' = <<"user">> /\ state_' = "kConnected"
          /\ Running("established")
      BY <1>1 DEF connectEstablished, sockVars, userVars
    <2>2. queue' \in Seq(FunctorSet) /\ batch' \in 0..Len(queue')
      BY <1>0, <2>1, BatchTaken, QueuedSelf
    <2>3. ChannelOK(ch') /\ (isWriting(ch') <=> isWriting(ch))
      BY <1>0, <2>1, ChannelCalls DEF isWriting
    <2>4. todo' \in Seq(CallbackNames)
      BY <2>1 DEF CallbackNames
    <2> QED
      BY <2>1, <2>2, <2>3, <2>4 DEF ConnInv, Typed, WritingIffBuffered, FinSent, SocketKept, Closed
  <1>2. CASE connectDestroyed
    <2>1. queue' = Tail(queue) /\ UNCHANGED <<outputBuffer_, wrShut, tpc>>
          /\ Running("destroyed")
      BY <1>2 DEF connectDestroyed, sockVars, userVars
    <2>2. queue' \in Seq(FunctorSet) /\ batch' \in 0..Len(queue')
      BY <1>0, <2>1, BatchTaken, QueuedSelf
    <2>3. CASE connected
      <3>1. state_' = "kDisconnected" /\ ch' = disableAll(ch) /\ downs' = downs + 1
            /\ todo' = <<"user", "remove">>
        BY <1>2, <2>3 DEF connectDestroyed
      <3>2. ChannelOK(ch')
        BY <1>0, <3>1, ChannelCalls
      <3>3. todo' \in Seq(CallbackNames) /\ downs' \in Nat /\ downs' > 0
        BY <1>0, <3>1 DEF CallbackNames, Typed
      <3> QED
        BY <2>1, <2>2, <3>1, <3>2, <3>3
           DEF ConnInv, Typed, WritingIffBuffered, FinSent, SocketKept, Closed
    <2>4. CASE ~connected
      <3>1. UNCHANGED <<state_, downs, todo>> /\ ch' = removeChannel(ch)
        BY <1>2, <2>4 DEF connectDestroyed
      <3>2. ChannelOK(ch') /\ (isWriting(ch') <=> isWriting(ch))
        BY <1>0, <3>1, RemoveAgrees DEF isWriting
      <3> QED
        BY <2>1, <2>2, <3>1, <3>2
           DEF ConnInv, Typed, WritingIffBuffered, FinSent, SocketKept, Closed
    <2> QED
      BY <2>3, <2>4
  <1>3. CASE RunSend
    <2>1. Running("send") /\ UNCHANGED <<state_, todo, wrShut, tpc, downs>>
      BY <1>3 DEF RunSend, serverVars
    <2>2. PICK m \in Msgs : m = Head(queue).arg
      <3>1. Head(queue) \in FunctorSet /\ Head(queue).op = "send"
        BY <1>0, <2>1, BatchTaken
      <3> QED
        BY <3>1 DEF FunctorSet
    <2>3. PICK data \in {Message(m), Garbage(m)} : sendInLoop(data, Tail(queue))
      BY <1>3, <2>2 DEF RunSend
    <2>4. data \in Seq(ByteSet) /\ Tail(queue) \in Seq(FunctorSet)
      BY <1>0, <2>1, DataTypes, BatchTaken
    <2>5. /\ Queued(queue', Tail(queue))
          /\ outputBuffer_' \in Seq(ByteSet)
          /\ ch' = ch \/ ch' = enableWriting(ch)
          /\ ~Closed => (isWriting(ch') <=> outputBuffer_' # <<>>)
          /\ wrShut /\ ~Closed /\ peer # "rst" => outputBuffer_' = <<>>
      BY <2>3, <2>4, SendInLoop
    <2>6. ChannelOK(ch')
      BY <1>0, <2>5, ChannelCalls
    <2>7. queue' \in Seq(FunctorSet) /\ batch' \in 0..Len(queue')
      BY <1>0, <2>1, <2>5, BatchTaken
    <2> QED
      BY <2>1, <2>5, <2>6, <2>7 DEF ConnInv, Typed, WritingIffBuffered, FinSent, SocketKept, Closed
  <1>4. CASE RunShutdown
    <2>1. Running("shutdown") /\ queue' = Tail(queue) /\ shutdownInLoop
          /\ UNCHANGED <<state_, ch, outputBuffer_, todo, tpc, downs>>
      BY <1>4 DEF RunShutdown, connVars, userVars, serverVars
    <2>2. queue' \in Seq(FunctorSet) /\ batch' \in 0..Len(queue')
      BY <1>0, <2>1, BatchTaken, QueuedSelf
    <2>3. wrShut' = (wrShut \/ ~isWriting(ch))
      BY <2>1 DEF shutdownInLoop, OutputDrained
    <2> QED
      BY <2>1, <2>2, <2>3 DEF ConnInv, Typed, WritingIffBuffered, FinSent, SocketKept, Closed
  <1>5. CASE RunFile
    <2>1. Running("file") /\ sendFileInLoop(Head(queue).arg, Tail(queue))
          /\ UNCHANGED <<state_, ch, outputBuffer_, todo, wrShut, tpc, downs>>
      BY <1>5 DEF RunFile, connVars, userVars, serverVars
    <2>2. PICK offset \in Nat : offset = Head(queue).arg
      <3>1. Head(queue) \in FunctorSet /\ Head(queue).op = "file"
        BY <1>0, <2>1, BatchTaken
      <3> QED
        BY <3>1 DEF FunctorSet
    <2>3. Queued(queue', Tail(queue))
      BY <1>0, <2>1, <2>2, BatchTaken, SendFileInLoop
    <2>4. queue' \in Seq(FunctorSet) /\ batch' \in 0..Len(queue')
      BY <1>0, <2>1, <2>3, BatchTaken
    <2> QED
      BY <1>0, <2>1, <2>4, QuietStep DEF LoopTyped
  <1>6. CASE RunUserCallback
    <2>1. PICK callback \in Callbacks : Running(callback)
      BY <1>6 DEF RunUserCallback
    <2>2. queue' = Tail(queue) /\ todo' = <<"user">>
          /\ UNCHANGED <<state_, ch, outputBuffer_, wrShut, tpc, downs>>
      BY <1>6 DEF RunUserCallback, connVars, sockVars, userVars, serverVars
    <2>3. queue' \in Seq(FunctorSet) /\ batch' \in 0..Len(queue')
      BY <1>0, <2>1, <2>2, BatchTaken, QueuedSelf
    <2>4. todo' \in Seq(CallbackNames)
      BY <2>2 DEF CallbackNames
    <2> QED
      BY <1>0, <2>2, <2>3, <2>4, QuietStep DEF LoopTyped
  <1> QED
    BY <1>1, <1>2, <1>3, <1>4, <1>5, <1>6 DEF LoopFunctor

(* The callbacks the loop calls.                                           *)
LEMMA ConnCallback ==
  ASSUME ConnInv, SocketKept, LoopCallback
  PROVE  ConnInv'
  <1>0. LoopTyped /\ Typed /\ ChannelOK(ch)
    BY DEF ConnInv, LoopTyped, Typed, TpcSet
  <1>1. /\ todo \in Seq(CallbackNames) /\ todo # <<>> /\ Tail(todo) \in Seq(CallbackNames)
        /\ <<"user">> \o Tail(todo) \in Seq(CallbackNames)
        /\ <<"user", "closeCallback">> \o Tail(todo) \in Seq(CallbackNames)
    <2>1. todo \in Seq(CallbackNames) /\ todo # <<>>
      BY <1>0 DEF Typed, LoopCallback, Entering, HandleHup, HandleError, HandleReadData,
           HandleReadError, HandleReadEnd, HandleWrite, UserReturn, CloseCallback, RemoveChannel
    <2>2. {"user", "closeCallback"} \subseteq CallbackNames
      BY DEF CallbackNames
    <2> QED
      BY <2>1, <2>2, Returning
  <1>2. CASE handleClose /\ UNCHANGED <<queue, batch, wrShut, tpc>>
    <2>1. state_' = "kDisconnected" /\ ch' = disableAll(ch) /\ downs' = downs + 1
          /\ todo' = <<"user", "closeCallback">> \o Tail(todo)
          /\ UNCHANGED <<outputBuffer_, queue, batch, wrShut, tpc>>
      BY <1>2 DEF handleClose
    <2>2. ChannelOK(ch')
      BY <1>0, <2>1, ChannelCalls
    <2>3. downs' \in Nat /\ downs' > 0
      BY <1>0, <2>1 DEF Typed
    <2> QED
      BY <1>1, <2>1, <2>2, <2>3 DEF ConnInv, Typed, WritingIffBuffered, FinSent, SocketKept, Closed
  <1>3. CASE HandleHup \/ HandleReadEnd
    BY <1>2, <1>3 DEF HandleHup, HandleReadEnd, sockVars, userVars
  <1>4. CASE HandleError \/ HandleReadError \/ UserReturn \/ CloseCallback
    <2>1. todo' = Tail(todo)
          /\ UNCHANGED <<state_, ch, outputBuffer_, queue, batch, wrShut, tpc, downs>>
      BY <1>4 DEF HandleError, HandleReadError, UserReturn, CloseCallback, connVars, sockVars,
           userVars, serverVars
    <2> QED
      BY <1>0, <1>1, <2>1, QuietStep DEF LoopTyped
  <1>5. CASE HandleReadData
    <2>1. todo' = <<"user">> \o Tail(todo)
          /\ UNCHANGED <<state_, ch, outputBuffer_, queue, batch, wrShut, tpc, downs>>
      BY <1>5 DEF HandleReadData, connVars, userVars, serverVars
    <2> QED
      BY <1>0, <1>1, <2>1, QuietStep DEF LoopTyped
  <1>6. CASE RemoveChannel
    <2>1. todo' = Tail(todo) /\ ch' = removeChannel(ch)
          /\ UNCHANGED <<state_, outputBuffer_, queue, batch, wrShut, tpc, downs>>
      BY <1>6 DEF RemoveChannel, sockVars, userVars, serverVars
    <2>2. ChannelOK(ch') /\ (isWriting(ch') <=> isWriting(ch))
      BY <1>0, <2>1, RemoveAgrees DEF isWriting
    <2> QED
      BY <1>1, <2>1, <2>2 DEF ConnInv, Typed, WritingIffBuffered, FinSent, SocketKept, Closed
  <1>7. CASE HandleWrite
    <2>1. todo' = Tail(todo) /\ UNCHANGED <<state_, batch, tpc, downs>>
      BY <1>7 DEF HandleWrite, userVars, serverVars
    <2>2. CASE ~isWriting(ch)
      <3>1. UNCHANGED <<outputBuffer_, ch, queue, wrShut>>
        BY <1>7, <2>2 DEF HandleWrite
      <3> QED
        BY <1>0, <1>1, <2>1, <3>1, QuietStep DEF LoopTyped
    <2>3. CASE isWriting(ch)
      <3>1. PICK r \in {x \in SendResults(Len(outputBuffer_)) : x.n > 0 \/ x.error # "none"} :
              LET left == SubSeq(outputBuffer_, r.n + 1, Len(outputBuffer_))
                  emptied == r.n > 0 /\ left = <<>>
              IN  /\ outputBuffer_' = left
                  /\ ch' = IF emptied THEN StopWriting(ch) ELSE ch
                  /\ queue' = queue \o Notify("writeComplete", emptied)
                  /\ wrShut' = (wrShut \/ (emptied /\ FinAfterDrain))
        BY <1>7, <2>3 DEF HandleWrite
      <3>2. queue \in Seq(FunctorSet) /\ outputBuffer_ \in Seq(ByteSet)
            /\ Len(outputBuffer_) \in Nat /\ Len(outputBuffer_) \in Int /\ wrShut \in BOOLEAN
        BY <1>0 DEF Typed
      <3>3. Queued(queue', queue)
        BY <3>1, <3>2, QueuedSelf, NotifyQueues
      <3>4. queue' \in Seq(FunctorSet) /\ batch' \in 0..Len(queue')
        BY <1>0, <2>1, <3>3, BatchKept
      <3>5. PICK k \in 0..Len(outputBuffer_) : k = r.n
        <4>1. r.n = 0 \/ r.n \in 0..Len(outputBuffer_)
          BY <3>1, <3>2, SendResultTypes, Zenon
        <4> QED
          BY <3>2, <4>1
      <3> DEFINE left == SubSeq(outputBuffer_, k + 1, Len(outputBuffer_))
                 emptied == k > 0 /\ left = <<>>
      <3>6. left \in Seq(ByteSet) /\ (k = 0 => left = outputBuffer_)
        BY <3>2, RestOf
      <3>7. /\ outputBuffer_' = left
            /\ ch' = IF emptied THEN StopWriting(ch) ELSE ch
            /\ wrShut' = (wrShut \/ (emptied /\ FinAfterDrain))
        BY <3>1, <3>5
      <3> HIDE DEF left
      <3>8. CASE emptied
        <4>1. ChannelOK(ch') /\ ~isWriting(ch')
          BY <1>0, <3>7, <3>8, ChannelCalls DEF StopWriting, isWriting
        <4>2. outputBuffer_' = <<>> /\ outputBuffer_' \in Seq(ByteSet) /\ wrShut' \in BOOLEAN
          BY <3>2, <3>6, <3>7, <3>8
        <4> QED
          BY <1>1, <2>1, <3>4, <4>1, <4>2
             DEF ConnInv, Typed, WritingIffBuffered, FinSent, SocketKept, Closed
      <3>9. CASE ~emptied
        <4>1. ch' = ch /\ wrShut' = wrShut /\ outputBuffer_' \in Seq(ByteSet)
          BY <3>2, <3>6, <3>7, <3>9
        <4>2. ~Closed => outputBuffer_ # <<>>
          BY <2>3 DEF ConnInv, WritingIffBuffered
        <4>3. ~Closed => outputBuffer_' # <<>>
          <5>1. k = 0 \/ k > 0
            BY <3>5
          <5> QED
            BY <3>6, <3>7, <3>9, <4>2, <5>1
        <4> QED
          BY <1>1, <2>1, <2>3, <3>4, <4>1, <4>2, <4>3
             DEF ConnInv, Typed, WritingIffBuffered, FinSent, SocketKept, Closed
      <3> QED
        BY <3>8, <3>9
    <2> QED
      BY <2>2, <2>3
  <1> QED
    BY <1>3, <1>4, <1>5, <1>6, <1>7 DEF LoopCallback

(* User code in the loop thread.                                           *)
LEMMA ConnInLoopUser ==
  ASSUME ConnInv, SocketKept, InLoopUser
  PROVE  ConnInv'
  <1>0. LoopTyped /\ Typed /\ ChannelOK(ch)
    BY DEF ConnInv, LoopTyped, Typed, TpcSet
  <1>1. ASSUME NEW m \in Msgs, Send(m)
        PROVE  ConnInv'
    <2>1. sendInLoop(Message(m), queue)
          /\ UNCHANGED <<state_, batch, todo, wrShut, tpc, downs>>
      BY <1>1 DEF Send, serverVars
    <2>2. Message(m) \in Seq(ByteSet) /\ queue \in Seq(FunctorSet)
      BY <1>0, DataTypes DEF Typed
    <2>3. /\ Queued(queue', queue)
          /\ outputBuffer_' \in Seq(ByteSet)
          /\ ch' = ch \/ ch' = enableWriting(ch)
          /\ ~Closed => (isWriting(ch') <=> outputBuffer_' # <<>>)
          /\ wrShut /\ ~Closed /\ peer # "rst" => outputBuffer_' = <<>>
      BY <2>1, <2>2, SendInLoop
    <2>4. ChannelOK(ch')
      BY <1>0, <2>3, ChannelCalls
    <2>5. queue' \in Seq(FunctorSet) /\ batch' \in 0..Len(queue')
      BY <1>0, <2>1, <2>3, BatchKept
    <2> QED
      BY <2>1, <2>3, <2>4, <2>5 DEF ConnInv, Typed, WritingIffBuffered, FinSent, SocketKept, Closed
  <1>2. CASE SendFile
    <2>1. sendFileInLoop(0, queue)
          /\ UNCHANGED <<state_, ch, outputBuffer_, batch, todo, wrShut, tpc, downs>>
      BY <1>2 DEF SendFile, connVars, serverVars
    <2>2. Queued(queue', queue)
      BY <1>0, <2>1, SendFileInLoop DEF Typed
    <2>3. queue' \in Seq(FunctorSet) /\ batch' \in 0..Len(queue')
      BY <1>0, <2>1, <2>2, BatchKept
    <2> QED
      BY <1>0, <2>1, <2>3, QuietStep DEF LoopTyped
  <1>3. CASE Shutdown
    <2>1. state_' = "kDisconnecting" /\ shutdownInLoop
          /\ UNCHANGED <<ch, outputBuffer_, queue, batch, todo, tpc, downs>>
      BY <1>3 DEF Shutdown, loopVars, userVars, serverVars
    <2>2. wrShut' = (wrShut \/ ~isWriting(ch))
      BY <2>1 DEF shutdownInLoop, OutputDrained
    <2> QED
      BY <2>1, <2>2 DEF ConnInv, Typed, WritingIffBuffered, FinSent, SocketKept, Closed
  <1> QED
    BY <1>1, <1>2, <1>3 DEF InLoopUser

(* Where a thread goes.                                                    *)
LEMMA Going ==
  ASSUME tpc \in TpcSet, NEW t \in Threads,
         NEW where \in {<<"idle">>, <<"setState">>, <<"shutdown">>}
                       \cup {<<"send", m>> : m \in ThreadMsgs},
         Goto(t, where)
  PROVE  tpc' \in TpcSet
  BY DEF Goto, TpcSet

(* A thread about to queue its send() has one of ThreadMsgs to send.       *)
LEMMA AboutToSend ==
  ASSUME tpc \in TpcSet, NEW t \in Threads, tpc[t][1] = "send"
  PROVE  tpc[t][2] \in ThreadMsgs
  <1>1. tpc[t] \in {<<"idle">>, <<"setState">>, <<"shutdown">>}
                   \cup {<<"send", m>> : m \in ThreadMsgs}
    BY DEF TpcSet
  <1>2. tpc[t] # <<"idle">> /\ tpc[t] # <<"setState">> /\ tpc[t] # <<"shutdown">>
    OBVIOUS
  <1>3. PICK m \in ThreadMsgs : tpc[t] = <<"send", m>>
    BY <1>1, <1>2
  <1> QED
    BY <1>3

(* What a thread queues: sendFileInLoop, or sendInLoop of its message.     *)
LEMMA ThreadQueues ==
  ASSUME LoopTyped, NEW t \in Threads, SendQueue(t)
  PROVE  Queued(queue', queue)
  <1>1. PICK m \in ThreadMsgs : m = tpc[t][2]
    BY AboutToSend DEF SendQueue, LoopTyped
  <1>2. CASE m = File
    <2>1. queue' = Append(queue, Functor("file", 0))
      BY <1>1, <1>2 DEF SendQueue
    <2>2. Functor("file", 0) \in FunctorSet /\ Functor("file", 0).op = "file"
      BY FunctorTypes
    <2> QED
      BY <2>1, <2>2, QueueOne DEF LoopTyped
  <1>3. CASE m # File
    <2>1. queue' = Append(queue, Functor("send", m)) /\ m \in Msgs
      BY <1>1, <1>3, ThreadAssumption DEF SendQueue
    <2>2. Functor("send", m) \in FunctorSet
      BY <2>1, FunctorTypes
    <2>3. Functor("send", m).op # "established"
      BY <2>1, FunctorTypes
    <2>4. ~NoForeignSend
      BY <1>3 DEF NoForeignSend
    <2> QED
      BY <2>1, <2>2, <2>3, <2>4, QueueOne DEF LoopTyped
  <1> QED
    BY <1>2, <1>3

(* The threads that use the connection.                                    *)
LEMMA ConnUserThread ==
  ASSUME ConnInv, SocketKept, NEW t \in Threads, UserThread(t)
  PROVE  ConnInv'
  <1>0. LoopTyped /\ Typed /\ tpc \in TpcSet /\ queue \in Seq(FunctorSet)
    BY DEF ConnInv, LoopTyped, Typed, TpcSet
  <1>1. ASSUME NEW m \in ThreadMsgs, SendTest(t, m)
        PROVE  ConnInv'
    <2>1. Goto(t, <<"send", m>>)
          /\ UNCHANGED <<state_, ch, outputBuffer_, queue, batch, todo, wrShut, downs>>
      BY <1>1 DEF SendTest, connVars, loopVars, sockVars, serverVars
    <2>2. tpc' \in TpcSet
      BY <1>0, <2>1, Going
    <2> QED
      BY <1>0, <2>1, <2>2, QuietStep DEF LoopTyped
  <1>2. CASE SendQueue(t)
    <2>1. Goto(t, <<"idle">>) /\ UNCHANGED <<state_, ch, outputBuffer_, batch, todo, wrShut, downs>>
      BY <1>2 DEF SendQueue, connVars, sockVars, serverVars
    <2>2. tpc' \in TpcSet
      BY <1>0, <2>1, Going
    <2>3. queue' \in Seq(FunctorSet) /\ batch' \in 0..Len(queue')
      BY <1>0, <1>2, <2>1, ThreadQueues, BatchKept
    <2> QED
      BY <1>0, <2>1, <2>2, <2>3, QuietStep DEF LoopTyped
  <1>3. CASE ShutdownTest(t)
    <2>1. Goto(t, <<"setState">>)
          /\ UNCHANGED <<state_, ch, outputBuffer_, queue, batch, todo, wrShut, downs>>
      BY <1>3 DEF ShutdownTest, connVars, loopVars, sockVars, serverVars
    <2>2. tpc' \in TpcSet
      BY <1>0, <2>1, Going
    <2> QED
      BY <1>0, <2>1, <2>2, QuietStep DEF LoopTyped
  <1>4. CASE ShutdownSet(t)
    <2>1. Goto(t, <<"shutdown">>) /\ state_' = "kDisconnecting"
          /\ UNCHANGED <<ch, outputBuffer_, queue, batch, todo, wrShut, downs>>
      BY <1>4 DEF ShutdownSet, loopVars, sockVars, serverVars
    <2>2. tpc' \in TpcSet
      BY <1>0, <2>1, Going
    <2> QED
      BY <1>0, <2>1, <2>2, QuietStep DEF LoopTyped
  <1>5. CASE ShutdownQueue(t)
    <2>1. Goto(t, <<"idle">>) /\ queue' = Append(queue, Functor("shutdown", NoArg))
          /\ UNCHANGED <<state_, ch, outputBuffer_, batch, todo, wrShut, downs>>
      BY <1>5 DEF ShutdownQueue, connVars, sockVars, serverVars
    <2>2. tpc' \in TpcSet
      BY <1>0, <2>1, Going
    <2>3. Functor("shutdown", NoArg) \in FunctorSet /\ Functor("shutdown", NoArg).op = "shutdown"
      BY FunctorTypes DEF NoArg
    <2>4. Queued(queue', queue)
      BY <1>0, <2>1, <2>3, QueueOne
    <2>5. queue' \in Seq(FunctorSet) /\ batch' \in 0..Len(queue')
      BY <1>0, <2>1, <2>4, BatchKept
    <2> QED
      BY <1>0, <2>1, <2>2, <2>5, QuietStep DEF LoopTyped
  <1> QED
    BY <1>1, <1>2, <1>3, <1>4, <1>5 DEF UserThread

(* The server queues connectDestroyed.                                     *)
LEMMA ServerQueues ==
  ASSUME queue \in Seq(FunctorSet), RemoveConnectionInLoop \/ ServerDestroyed
  PROVE  Queued(queue', queue)
  <1>1. queue' = Append(queue, Functor("destroyed", NoArg))
    BY DEF RemoveConnectionInLoop, ServerDestroyed
  <1>2. Functor("destroyed", NoArg) \in FunctorSet /\ Functor("destroyed", NoArg).op = "destroyed"
    BY FunctorTypes DEF NoArg
  <1> QED
    BY <1>1, <1>2, QueueOne

(* Every step of the system keeps the socket broken if it is, and takes    *)
(* errors away; the peer and the kernel's timers break it and leave one.   *)
LEMMA SocketStep ==
  ASSUME PendingError, [Next]_vars
  PROVE  SocketKept
  <1>1. CASE UNCHANGED <<peer, soErr>>
    BY <1>1 DEF SocketKept, PendingError
  <1>2. CASE peer' = peer /\ soErr' \in {soErr, "none"}
    BY <1>2 DEF SocketKept, PendingError
  <1>3. ASSUME NEW data, NEW rest, sendInLoop(data, rest), peer' = peer
        PROVE  SocketKept
    BY <1>2, <1>3 DEF sendInLoop, AfterSend
  <1>4. ASSUME NEW offset, NEW rest, sendFileInLoop(offset, rest), peer' = peer
        PROVE  SocketKept
    BY <1>2, <1>4 DEF sendFileInLoop, AfterSend
  <1>5. CASE \/ \E space \in BOOLEAN : Poll(space)
             \/ SwapFunctors \/ EndRound \/ connectEstablished \/ connectDestroyed
             \/ RunShutdown \/ RunUserCallback \/ Waiting \/ UNCHANGED vars
    BY <1>1, <1>5 DEF Poll, SwapFunctors, EndRound, connectEstablished, connectDestroyed,
         RunShutdown, RunUserCallback, Waiting, vars, sockVars
  <1>6. CASE \/ HandleHup \/ HandleError \/ HandleReadData \/ HandleReadError
             \/ HandleReadEnd \/ UserReturn \/ CloseCallback \/ RemoveChannel
    BY <1>1, <1>2, <1>6 DEF HandleHup, HandleError, HandleReadData, HandleReadError,
         HandleReadEnd, UserReturn, CloseCallback, RemoveChannel, sockVars
  <1>7. CASE HandleWrite
    BY <1>2, <1>7 DEF HandleWrite, AfterSend
  <1>8. CASE RunSend
    BY <1>3, <1>8 DEF RunSend
  <1>9. CASE RunFile
    BY <1>4, <1>9 DEF RunFile
  <1>10. CASE InLoopUser
    BY <1>1, <1>3, <1>4, <1>10 DEF InLoopUser, Send, SendFile, Shutdown
  <1>11. CASE \/ \E t \in Threads : UserThread(t)
              \/ \E m \in Msgs : StringDies(m)
              \/ RemoveConnectionInLoop \/ ServerDestroyed
    BY <1>1, <1>11 DEF UserThread, SendTest, SendQueue, ShutdownTest, ShutdownSet,
         ShutdownQueue, StringDies, RemoveConnectionInLoop, ServerDestroyed, sockVars
  <1>12. CASE Peer
    BY <1>12 DEF Peer, PeerSends, PeerCloses, PeerResets, TimesOut, SocketKept, PendingError
  <1> QED
    BY <1>5, <1>6, <1>7, <1>8, <1>9, <1>10, <1>11, <1>12
       DEF Next, LoopThread, LoopFunctor, LoopCallback

(* Every step keeps the invariant.                                         *)
LEMMA ConnStep ==
  ASSUME ConnInv, [Next]_vars
  PROVE  ConnInv'
  <1>0. LoopTyped /\ Typed /\ queue \in Seq(FunctorSet) /\ SocketKept
    BY SocketStep DEF ConnInv, LoopTyped, Typed, TpcSet
  <1>1. ASSUME NEW space \in BOOLEAN, Poll(space)
        PROVE  ConnInv'
    <2>1. todo' = CallbackOrder(Revents(space))
          /\ UNCHANGED <<state_, ch, outputBuffer_, queue, batch, wrShut, tpc, downs>>
      BY <1>1 DEF Poll, connVars, sockVars, userVars, serverVars
    <2>2. CallbackOrder(Revents(space)) \in Seq({"close", "error", "read", "write"})
      BY OrderOfCallbacks
    <2>3. todo' \in Seq(CallbackNames)
      BY <2>1, <2>2 DEF CallbackNames
    <2> QED
      BY <1>0, <2>1, <2>3, QuietStep DEF LoopTyped
  <1>2. CASE SwapFunctors
    <2>1. batch' = Len(queue)
          /\ UNCHANGED <<state_, ch, outputBuffer_, queue, todo, wrShut, tpc, downs>>
      BY <1>2 DEF SwapFunctors, BatchSize, connVars, sockVars, userVars, serverVars
    <2>2. batch' \in 0..Len(queue')
      BY <1>0, <2>1
    <2> QED
      BY <1>0, <2>1, <2>2, QuietStep DEF LoopTyped
  <1>3. CASE EndRound \/ Peer \/ UNCHANGED vars \/ \E m \in Msgs : StringDies(m)
    <2>1. UNCHANGED <<state_, ch, outputBuffer_, queue, batch, todo, wrShut, tpc, downs>>
      BY <1>3 DEF EndRound, Peer, PeerSends, PeerCloses, PeerResets, TimesOut, StringDies, vars, connVars,
           loopVars, sockVars, userVars, serverVars
    <2> QED
      BY <1>0, <2>1, QuietStep DEF LoopTyped
  <1>4. CASE RemoveConnectionInLoop \/ ServerDestroyed
    <2>1. UNCHANGED <<state_, ch, outputBuffer_, batch, todo, wrShut, tpc, downs>>
      BY <1>4 DEF RemoveConnectionInLoop, ServerDestroyed, connVars, sockVars, userVars
    <2>2. queue' \in Seq(FunctorSet) /\ batch' \in 0..Len(queue')
      BY <1>0, <1>4, <2>1, ServerQueues, BatchKept
    <2> QED
      BY <1>0, <2>1, <2>2, QuietStep DEF LoopTyped
  <1> QED
    BY <1>0, <1>1, <1>2, <1>3, <1>4, ConnFunctor, ConnCallback, ConnInLoopUser, ConnUserThread
       DEF Next, LoopThread, Waiting

(* For any threads, messages, file and peer, whatever the interleaving of  *)
(* handlers, functors, API calls and the server: the invariant holds.      *)
THEOREM Invariant == Safety => []ConnInv
  BY ConnInit, ConnStep, PTL DEF Safety

(* The poller's index_ and channels_ always agree with the kernel's epoll  *)
(* set, and no epoll_ctl of the connection's channel ever aborts the       *)
(* process (EPollPoller.cc), also when sends, shutdowns and handlers come  *)
(* after the close or after connectDestroyed.                              *)
THEOREM PollerAlwaysAgrees == Safety => []EpollAgrees
  <1>1. ConnInv => EpollAgrees
    BY DEF ConnInv, ChannelOK, EpollAgrees
  <1> QED
    BY <1>1, Invariant, PTL

(* An open connection is registered for EPOLLOUT exactly while it has      *)
(* bytes to write (sendInLoop, handleWrite).                               *)
THEOREM WritesWhileBuffered == Safety => []WritingIffBuffered
  <1>1. ConnInv => WritingIffBuffered
    BY DEF ConnInv
  <1> QED
    BY <1>1, Invariant, PTL

-----------------------------------------------------------------------------
(* The stream. *)

(* What may stand for a byte: the byte or, if strings may die, what its    *)
(* place in memory holds then.                                             *)
Reads(b) == {b} \cup (IF StringsOutlive THEN {} ELSE {<<"garbage", b[2]>>})

DataFor(m) == {Message(m)} \cup (IF StringsOutlive THEN {} ELSE {Garbage(m)})

(* The bytes that are out stand, one for one, for the first of those given. *)
Delivered(out, given) ==
    /\ Len(out) <= Len(given)
    /\ \A i \in 1..Len(out) : out[i] \in Reads(given[i])

(* While the socket may send, what it took and the buffer are all that was *)
(* given; once it may not, it takes nothing any more.                      *)
StreamInv ==
    /\ wire \in Seq(ByteSet) /\ sent \in Seq(Msgs \X Nat)
    /\ Delivered(wire, sent)
    /\ ~CannotSend => /\ Delivered(wire \o outputBuffer_, sent)
                      /\ Len(wire \o outputBuffer_) = Len(sent)

(* The beginning of what stands for the bytes does, too.                   *)
LEMMA DeliveredHead ==
  ASSUME NEW S, NEW a \in Seq(S), NEW b \in Seq(S), NEW T, NEW given \in Seq(T),
         Delivered(a \o b, given)
  PROVE  Delivered(a, given)
  <1>1. PICK k \in Nat, l \in Nat, n \in Nat : k = Len(a) /\ l = Len(b) /\ n = Len(given)
    OBVIOUS
  <1> DEFINE z == a \o b
  <1>2. Len(z) = k + l /\ \A i \in 1..k : z[i] = a[i]
    BY <1>1
  <1>3. Len(z) <= n /\ \A i \in 1..Len(z) : z[i] \in Reads(given[i])
    BY <1>1 DEF Delivered
  <1> HIDE DEF z
  <1>4. k <= n /\ \A i \in 1..k : i \in 1..Len(z)
    BY <1>2, <1>3
  <1>5. \A i \in 1..k : a[i] \in Reads(given[i])
    BY <1>2, <1>3, <1>4
  <1> QED
    BY <1>1, <1>4, <1>5 DEF Delivered

(* The first k bytes and the rest.                                         *)
LEMMA SplitAt ==
  ASSUME NEW S, NEW q \in Seq(S), NEW k \in 0..Len(q)
  PROVE  /\ SubSeq(q, 1, k) \in Seq(S) /\ Len(SubSeq(q, 1, k)) = k
         /\ SubSeq(q, 1, k) \o SubSeq(q, k + 1, Len(q)) = q
  <1>1. PICK l \in Nat : l = Len(q)
    OBVIOUS
  <1>2. k \in Nat /\ k <= l /\ l - k \in Nat
    BY <1>1
  <1> DEFINE a == SubSeq(q, 1, k)
             z == SubSeq(q, k + 1, l)
  <1>3. a = [i \in 1..k |-> q[i]]
    BY <1>1, <1>2
  <1>4. a \in Seq(S) /\ Len(a) = k
    BY <1>1, <1>2, <1>3
  <1>5. z \in Seq(S) /\ Len(z) = l - k /\ \A i \in 1..(l - k) : z[i] = q[k + i]
    <2>1. z = [i \in 1..(l - k) |-> q[k + i]]
      BY <1>1, <1>2
    <2> QED
      BY <1>1, <2>1, RestOf
  <1>6. \A i \in 1..k : a[i] = q[i]
    BY <1>3
  <1> HIDE DEF a, z
  <1> DEFINE y == a \o z
  <1>7. y \in Seq(S) /\ Len(y) = k + (l - k) /\ (\A i \in 1..k : y[i] = a[i])
        /\ \A i \in (k + 1)..l : y[i] = z[i - k]
    <2>1. PICK d \in Nat : d = l - k
      BY <1>2
    <2>2. /\ y \in Seq(S) /\ Len(y) = k + d
          /\ \A i \in 1..(k + d) : y[i] = IF i <= k THEN a[i] ELSE z[i - k]
      <3>1. a \in Seq(S) /\ z \in Seq(S)
        BY <1>4, <1>5
      <3>2. /\ y \in Seq(S) /\ Len(y) = Len(a) + Len(z)
            /\ \A i \in 1 .. Len(a) + Len(z) : y[i] = IF i <= Len(a) THEN a[i] ELSE z[i - Len(a)]
        BY <3>1, ConcatProperties
      <3>3. Len(a) = k /\ Len(z) = d
        BY <1>4, <1>5, <2>1
      <3> HIDE DEF y
      <3> QED
        BY <3>2, <3>3
    <2>3. k + d = l
      BY <1>2, <2>1
    <2> HIDE DEF y
    <2>4. ASSUME NEW i \in 1..k PROVE y[i] = a[i]
      BY <1>2, <2>2, <2>3
    <2>5. ASSUME NEW i \in (k + 1)..l PROVE y[i] = z[i - k]
      BY <1>2, <2>2, <2>3
    <2> QED
      BY <2>1, <2>2, <2>4, <2>5
  <1> HIDE DEF y
  <1>8. Len(y) = l
    BY <1>2, <1>7
  <1>9. ASSUME NEW i \in 1..l PROVE y[i] = q[i]
    <2>1. CASE i <= k
      BY <1>2, <1>6, <1>7, <2>1
    <2>2. CASE ~(i <= k)
      <3>1. i \in (k + 1)..l /\ i - k \in 1..(l - k) /\ k + (i - k) = i
        BY <1>2, <2>2
      <3> QED
        BY <1>5, <1>7, <3>1
    <2> QED
      BY <2>1, <2>2
  <1>10. y = q
    BY <1>1, <1>7, <1>8, <1>9, SeqEqual
  <1> QED
    BY <1>1, <1>4, <1>10 DEF a, y, z

(* sendInLoop() puts all of its bytes behind those that are out, whatever  *)
(* the kernel takes of them, or the kernel takes none.                     *)
LEMMA SendStream ==
  ASSUME ConnInv, wire \in Seq(ByteSet), NEW data \in Seq(ByteSet), data # <<>>, NEW rest,
         sendInLoop(data, rest)
  PROVE  \/ CannotSend /\ wire' = wire
         \/ /\ ~CannotSend
            /\ wire' \in Seq(ByteSet)
            /\ wire' \o outputBuffer_' = (wire \o outputBuffer_) \o data
  <1>1. PICK r \in IF MayWriteDirectly(ch) THEN SendResults(Len(data)) ELSE {Skipped} :
      LET remaining == SubSeq(data, r.n + 1, Len(data))
          keeps == ~faultError(r) /\ remaining # <<>>
      IN  /\ wire' = wire \o SubSeq(data, 1, r.n)
          /\ outputBuffer_' = IF keeps THEN outputBuffer_ \o remaining
                                       ELSE outputBuffer_
          /\ ch' = IF keeps THEN StartWriting(ch) ELSE ch
    BY DEF sendInLoop
  <1>2. outputBuffer_ \in Seq(ByteSet) /\ Len(data) \in Nat /\ Len(data) \in Int
    BY DEF ConnInv, Typed
  <1>3. \/ CannotSend /\ r.n = 0
        \/ ~CannotSend /\ MayWriteDirectly(ch) /\ r.n \in 0..Len(data) /\ ~faultError(r)
        \/ ~CannotSend /\ ~MayWriteDirectly(ch) /\ r.n = 0 /\ ~faultError(r)
    <2>1. CASE MayWriteDirectly(ch)
      <3>1. r \in SendResults(Len(data))
        BY <2>1
      <3> QED
        BY <1>2, <2>1, <3>1, SendResultTypes, Zenon
    <2>2. CASE ~MayWriteDirectly(ch)
      BY <2>2 DEF Skipped, faultError
    <2> QED
      BY <2>1, <2>2
  <1>4. PICK k \in 0..Len(data) : k = r.n
    BY <1>2, <1>3
  <1> DEFINE head == SubSeq(data, 1, k)
             remaining == SubSeq(data, k + 1, Len(data))
  <1>5. head \in Seq(ByteSet) /\ remaining \in Seq(ByteSet) /\ head \o remaining = data
        /\ Len(head) = k
    BY SplitAt, RestOf
  <1>6. /\ wire' = wire \o head
        /\ outputBuffer_' = IF ~faultError(r) /\ remaining # <<>> THEN outputBuffer_ \o remaining
                                                            ELSE outputBuffer_
        /\ ch' = IF ~faultError(r) /\ remaining # <<>> THEN StartWriting(ch) ELSE ch
    BY <1>1, <1>4
  <1> HIDE DEF head, remaining
  <1>7. k = 0 => head = <<>> /\ remaining = data
    <2>1. k = 0 => head = <<>>
      BY <1>5
    <2>2. <<>> \o remaining = remaining
      BY <1>5
    <2> QED
      BY <1>5, <2>1, <2>2
  <1>8. CASE CannotSend /\ r.n = 0
    BY <1>4, <1>6, <1>7, <1>8
  <1>9. CASE ~CannotSend /\ MayWriteDirectly(ch) /\ r.n \in 0..Len(data) /\ ~faultError(r)
    <2>1. outputBuffer_ = <<>>
      BY <1>9 DEF MayWriteDirectly
    <2>2. outputBuffer_' = remaining
      BY <1>5, <1>6, <1>9, <2>1
    <2>3. (wire \o head) \o remaining = wire \o (head \o remaining)
      <3>1. head \in Seq(ByteSet) /\ remaining \in Seq(ByteSet)
        BY <1>5
      <3> QED
        BY <3>1, ConcatAssociative
    <2>4. wire \o outputBuffer_ = wire
      BY <2>1
    <2>5. wire' \in Seq(ByteSet)
      BY <1>5, <1>6
    <2> QED
      BY <1>5, <1>6, <1>9, <2>2, <2>3, <2>4, <2>5
  <1>10. CASE ~CannotSend /\ ~MayWriteDirectly(ch) /\ r.n = 0 /\ ~faultError(r)
    <2>1. wire' = wire
      BY <1>4, <1>6, <1>7, <1>10
    <2>2. outputBuffer_' = outputBuffer_ \o data
      BY <1>4, <1>6, <1>7, <1>10
    <2>3. (wire \o outputBuffer_) \o data = wire \o (outputBuffer_ \o data)
      BY <1>2, ConcatAssociative
    <2> QED
      BY <1>10, <2>1, <2>2, <2>3
  <1> QED
    BY <1>3, <1>8, <1>9, <1>10

(* A message and what is read in its place.                                *)
LEMMA DataReads ==
  ASSUME NEW m \in Msgs, NEW data \in DataFor(m)
  PROVE  /\ Message(m) \in Seq(Msgs \X Nat)
         /\ data \in Seq(ByteSet) /\ data # <<>>
         /\ Len(data) = Len(Message(m))
         /\ \A i \in 1..Len(data) : data[i] \in Reads(Message(m)[i])
  <1>1. MsgLen[m] \in Nat \ {0} /\ MsgLen[m] - 0 = MsgLen[m]
    BY MsgAssumption
  <1>2. PICK k \in Nat \ {0} : k = MsgLen[m]
    BY <1>1
  <1>3. Message(m) = [i \in 1..k |-> <<m, 0 + i>>]
    BY <1>1, <1>2 DEF Message, Bytes
  <1>4. Garbage(m) = [i \in 1..k |-> <<"garbage", i>>]
    BY <1>2 DEF Garbage
  <1>5. Message(m) \in Seq(Msgs \X Nat) /\ Len(Message(m)) = k
    BY <1>3
  <1>6. Len(Garbage(m)) = k
    BY <1>4
  <1>7. \A i \in 1..k : /\ Message(m)[i] \in Reads(Message(m)[i])
                        /\ ~StringsOutlive => Garbage(m)[i] \in Reads(Message(m)[i])
    BY <1>3, <1>4 DEF Reads
  <1>8. data \in Seq(ByteSet) /\ data # <<>>
    BY DataTypes DEF DataFor
  <1>9. CASE data = Message(m)
    BY <1>5, <1>7, <1>8, <1>9
  <1>10. CASE data = Garbage(m) /\ ~StringsOutlive
    BY <1>5, <1>6, <1>7, <1>8, <1>10
  <1> QED
    BY <1>9, <1>10 DEF DataFor

(* A message sent: it is behind the others, or the socket could not send   *)
(* and still cannot.                                                       *)
LEMMA StreamSends ==
  ASSUME ConnInv, StreamInv, NEW m \in Msgs, NEW data \in DataFor(m),
         NEW rest \in Seq(FunctorSet),
         sendInLoop(data, rest), sent' = sent \o Message(m), UNCHANGED <<wrShut, peer>>
  PROVE  StreamInv'
  <1> DEFINE out == wire \o outputBuffer_
             msg == Message(m)
  <1>1. /\ msg \in Seq(Msgs \X Nat) /\ data \in Seq(ByteSet) /\ data # <<>> /\ Len(data) = Len(msg)
        /\ \A i \in 1..Len(data) : data[i] \in Reads(msg[i])
    BY DataReads
  <1>2. wire \in Seq(ByteSet) /\ sent \in Seq(Msgs \X Nat) /\ outputBuffer_ \in Seq(ByteSet)
        /\ Delivered(wire, sent)
        /\ (~CannotSend => Delivered(out, sent) /\ Len(out) = Len(sent))
    BY DEF StreamInv, ConnInv, Typed
  <1>3. out \in Seq(ByteSet)
    BY <1>2
  <1>4. CannotSend' <=> CannotSend
    BY DEF CannotSend
  <1> HIDE DEF msg
  <1>5. PICK a \in Nat, b \in Nat, l \in Nat : a = Len(out) /\ b = Len(sent) /\ l = Len(msg)
    BY <1>1, <1>2, <1>3
  <1>6. /\ sent' \in Seq(Msgs \X Nat) /\ Len(sent') = b + l
        /\ \A i \in 1..b + l : sent'[i] = IF i <= b THEN sent[i] ELSE msg[i - b]
    <2>1. sent' = sent \o msg
      BY DEF msg
    <2> QED
      BY <1>1, <1>2, <1>5, <2>1, ConcatProperties
  <1>7. ASSUME NEW x \in Seq(ByteSet), Delivered(x, sent)
        PROVE  Delivered(x, sent') /\ \A i \in 1..Len(x) : x[i] \in Reads(sent'[i])
    <2>1. PICK n \in Nat : n = Len(x)
      OBVIOUS
    <2>2. n <= b /\ \A i \in 1..n : x[i] \in Reads(sent[i])
      BY <1>5, <1>7, <2>1 DEF Delivered
    <2>3. \A i \in 1..n : i \in 1..b + l /\ i <= b
      BY <2>2
    <2>4. \A i \in 1..n : x[i] \in Reads(sent'[i])
      BY <1>6, <2>2, <2>3
    <2> QED
      BY <1>6, <2>1, <2>2, <2>4 DEF Delivered
  <1>9. CASE CannotSend /\ wire' = wire
    <2>1. Delivered(wire', sent')
      BY <1>2, <1>7, <1>9
    <2> QED
      BY <1>2, <1>4, <1>6, <1>9, <2>1 DEF StreamInv
  <1>10. CASE /\ ~CannotSend
              /\ wire' \in Seq(ByteSet)
              /\ wire' \o outputBuffer_' = out \o data
    <2>1. a = b
      BY <1>2, <1>5, <1>10
    <2>8. \A i \in 1..a : out[i] \in Reads(sent'[i])
      BY <1>2, <1>3, <1>5, <1>7, <1>10
    <2> HIDE DEF out
    <2> DEFINE new == out \o data
    <2>2. Len(new) = a + l /\ \A i \in 1..a + l : new[i] = IF i <= a THEN out[i] ELSE data[i - a]
      <3>1. data \in Seq(ByteSet) /\ Len(data) = l /\ Len(out) = a
        BY <1>1, <1>5
      <3>2. /\ Len(new) = Len(out) + Len(data)
            /\ \A i \in 1 .. Len(out) + Len(data) :
                  new[i] = IF i <= Len(out) THEN out[i] ELSE data[i - Len(out)]
        BY <1>3, <3>1, ConcatProperties
      <3> QED
        BY <3>1, <3>2
    <2> HIDE DEF new
    <2>3. ASSUME NEW i \in 1..a + l PROVE new[i] \in Reads(sent'[i])
      <3>1. CASE i <= a
        <4>1. i \in 1..a
          BY <3>1
        <4> QED
          BY <2>8, <2>2, <3>1, <4>1
      <3>2. CASE ~(i <= a)
        <4>1. i - a \in 1..l
          BY <3>2
        <4>2. sent'[i] = msg[i - a] /\ new[i] = data[i - a]
          BY <1>6, <2>1, <2>2, <3>2
        <4> QED
          BY <1>1, <1>5, <4>1, <4>2
      <3> QED
        BY <3>1, <3>2
    <2>4. wire' \o outputBuffer_' = new
      BY <1>10 DEF new
    <2>5. Delivered(wire' \o outputBuffer_', sent') /\ Len(wire' \o outputBuffer_') = Len(sent')
      BY <1>6, <2>1, <2>2, <2>3, <2>4 DEF Delivered
    <2>6. outputBuffer_' \in Seq(ByteSet)
      BY <1>1, SendInLoop
    <2>7. Delivered(wire', sent')
      BY <1>6, <1>10, <2>5, <2>6, DeliveredHead
    <2> QED
      BY <1>6, <1>10, <2>5, <2>7 DEF StreamInv
  <1> QED
    BY <1>1, <1>2, <1>9, <1>10, SendStream

(* handleWrite() moves bytes from the buffer to the wire.                  *)
LEMMA StreamWrites ==
  ASSUME ConnInv, StreamInv, HandleWrite
  PROVE  StreamInv'
  <1>1. UNCHANGED <<sent, peer>>
    BY DEF HandleWrite, userVars
  <1>2. wire \in Seq(ByteSet) /\ outputBuffer_ \in Seq(ByteSet)
    BY DEF StreamInv, ConnInv, Typed
  <1>3. CASE ~isWriting(ch)
    <2>1. UNCHANGED <<wire, outputBuffer_, ch, wrShut>>
      BY <1>3 DEF HandleWrite
    <2> QED
      BY <1>1, <2>1 DEF StreamInv, CannotSend
  <1>4. CASE isWriting(ch)
    <2>1. PICK r \in SendResults(Len(outputBuffer_)) :
            /\ wire' = wire \o SubSeq(outputBuffer_, 1, r.n)
            /\ outputBuffer_' = SubSeq(outputBuffer_, r.n + 1, Len(outputBuffer_))
      BY <1>4 DEF HandleWrite
    <2>2. Len(outputBuffer_) \in Nat /\ Len(outputBuffer_) \in Int
      BY <1>2
    <2>10. CannotSend => CannotSend' /\ r.n = 0
      <3>1. wrShut => wrShut'
        BY <1>4 DEF HandleWrite
      <3>2. CannotSend => r.n = 0
        BY <2>2, SendResultTypes, Zenon
      <3> QED
        BY <1>1, <3>1, <3>2 DEF CannotSend
    <2>3. PICK k \in 0..Len(outputBuffer_) : k = r.n
      <3>1. r.n = 0 \/ r.n \in 0..Len(outputBuffer_)
        BY <2>2, SendResultTypes, Zenon
      <3> QED
        BY <2>2, <3>1
    <2> DEFINE head == SubSeq(outputBuffer_, 1, k)
               left == SubSeq(outputBuffer_, k + 1, Len(outputBuffer_))
    <2>4. head \in Seq(ByteSet) /\ left \in Seq(ByteSet) /\ head \o left = outputBuffer_
          /\ Len(head) = k
      BY <1>2, SplitAt, RestOf
    <2>5. wire' = wire \o head /\ outputBuffer_' = left
      BY <2>1, <2>3
    <2> HIDE DEF head, left
    <2>6. (wire \o head) \o left = wire \o (head \o left)
      <3>1. head \in Seq(ByteSet) /\ left \in Seq(ByteSet)
        BY <2>4
      <3> QED
        BY <1>2, <3>1, ConcatAssociative
    <2>7. wire' \in Seq(ByteSet)
      BY <1>2, <2>4, <2>5
    <2>8. wire' \o outputBuffer_' = wire \o outputBuffer_
      BY <2>4, <2>5, <2>6
    <2>9. CASE CannotSend
      <3>1. head = <<>>
        BY <2>3, <2>4, <2>9, <2>10
      <3>2. wire' = wire
        BY <1>2, <2>5, <3>1
      <3> QED
        BY <1>1, <2>9, <2>10, <3>2 DEF StreamInv
    <2>11. CASE ~CannotSend
      <3>1. Delivered(wire' \o outputBuffer_', sent') /\ Len(wire' \o outputBuffer_') = Len(sent')
        BY <1>1, <2>8, <2>11 DEF StreamInv
      <3>2. sent' \in Seq(Msgs \X Nat) /\ outputBuffer_' \in Seq(ByteSet)
        BY <1>1, <2>4, <2>5 DEF StreamInv
      <3>3. Delivered(wire', sent')
        BY <2>7, <3>1, <3>2, DeliveredHead
      <3> QED
        BY <2>7, <3>1, <3>2, <3>3 DEF StreamInv
    <2> QED
      BY <2>9, <2>11
  <1> QED
    BY <1>3, <1>4

(* A step that sends and writes nothing.                                   *)
LEMMA StreamQuiet ==
  ASSUME StreamInv, UNCHANGED <<wire, outputBuffer_, sent>>, CannotSend => CannotSend'
  PROVE  StreamInv'
  BY DEF StreamInv

-----------------------------------------------------------------------------
(* Where a message, or the file, is before it is written. *)

FileEnd == Min({FileCount, FileSize})

(* f is the functor that sends m, or goes on with the file.                *)
Carries(f, m) == IF m = File THEN f.op = "file" ELSE f.op = "send" /\ f.arg = m

NoneCarries(q, m) == \A i \in 1..Len(q) : ~Carries(q[i], m)

Sending(t, m) == tpc[t] = <<"send", m>>

(* It is in one place only: with nobody yet, with one thread, or in one    *)
(* functor.                                                                *)
OnePlace(m) ==
    /\ \A i, j \in 1..Len(queue) : Carries(queue[i], m) /\ Carries(queue[j], m) => i = j
    /\ m \in unsent => NoneCarries(queue, m)
    /\ \A t \in Threads : Sending(t, m) =>
          /\ m \notin unsent /\ NoneCarries(queue, m)
          /\ \A u \in Threads : Sending(u, m) => u = t

(* It is not in the loop yet.                                              *)
Waits(m) == m \in unsent \/ \E t \in Threads : Sending(t, m)

(* If callers keep their strings, the string of every message that has not *)
(* been written is there.                                                  *)
StringKept(m) == StringsOutlive /\ (Waits(m) \/ ~NoneCarries(queue, m)) => m \in strings

(* The first n bytes of the file are out, and the functor knows it.        *)
FileAt(n) ==
    /\ fileWire = Bytes(File, 0, n)
    /\ Waits(File) => n = 0
    /\ \A i \in 1..Len(queue) : Carries(queue[i], File) => queue[i].arg = n

PlaceInv ==
    /\ \A m \in Msgs \cup {File} : OnePlace(m)
    /\ \A m \in Msgs : StringKept(m)
    /\ \E n \in 0..FileEnd : FileAt(n)

(* Of the functors in r, those that carry m are in q, d places further on. *)
CarriedFrom(r, q, d, m) ==
    \A i \in 1..Len(r) : Carries(r[i], m) => i + d \in 1..Len(q) /\ r[i] = q[i + d]

(* The end of the file is a number.                                        *)
LEMMA FileEndType == FileEnd \in Nat /\ FileEnd <= FileCount /\ FileCount \in Nat
  <1>1. {FileCount, FileSize} \in SUBSET Nat /\ {FileCount, FileSize} # {}
    BY FileAssumption
  <1>2. FileEnd \in {FileCount, FileSize} /\ \A y \in {FileCount, FileSize} : FileEnd <= y
    BY <1>1, LeastNatural DEF FileEnd
  <1> QED
    BY <1>2, FileAssumption

(* Consecutive parts of the file.                                          *)
LEMMA BytesConcat ==
  ASSUME NEW a \in Nat, NEW k \in Nat
  PROVE  /\ Bytes(File, 0, a) \in Seq({File} \X Nat) /\ Len(Bytes(File, 0, a)) = a
         /\ Bytes(File, 0, a) \o Bytes(File, a, a + k) = Bytes(File, 0, a + k)
  <1>1. a - 0 = a /\ (a + k) - a = k /\ (a + k) - 0 = a + k /\ a + k \in Nat
    OBVIOUS
  <1> DEFINE x == Bytes(File, 0, a)
             y == Bytes(File, a, a + k)
             z == Bytes(File, 0, a + k)
  <1>2. /\ x = [i \in 1..a |-> <<File, 0 + i>>]
        /\ y = [i \in 1..k |-> <<File, a + i>>]
        /\ z = [i \in 1..(a + k) |-> <<File, 0 + i>>]
    BY <1>1 DEF Bytes
  <1>3. x \in Seq({File} \X Nat) /\ y \in Seq({File} \X Nat) /\ z \in Seq({File} \X Nat)
    <2>1. x \in [1..a -> {File} \X Nat]
      BY <1>2
    <2>2. y \in [1..k -> {File} \X Nat]
      BY <1>2
    <2>3. z \in [1..(a + k) -> {File} \X Nat]
      BY <1>2
    <2> HIDE DEF x, y, z
    <2> QED
      BY <1>1, <2>1, <2>2, <2>3
  <1>4. Len(x) = a /\ Len(y) = k /\ Len(z) = a + k
    BY <1>1, <1>2
  <1>5. /\ \A i \in 1..a : x[i] = <<File, 0 + i>>
        /\ \A i \in 1..k : y[i] = <<File, a + i>>
        /\ \A i \in 1..(a + k) : z[i] = <<File, 0 + i>>
    BY <1>2
  <1> HIDE DEF x, y, z
  <1> DEFINE w == x \o y
  <1>6. /\ w \in Seq({File} \X Nat) /\ Len(w) = a + k
        /\ \A i \in 1 .. a + k : w[i] = IF i <= a THEN x[i] ELSE y[i - a]
    BY <1>3, <1>4, ConcatProperties
  <1> HIDE DEF w
  <1>7. ASSUME NEW i \in 1 .. a + k PROVE w[i] = z[i]
    <2>1. CASE i <= a
      <3>1. i \in 1..a
        BY <2>1
      <3> QED
        BY <1>5, <1>6, <2>1, <3>1
    <2>2. CASE ~(i <= a)
      <3>1. i - a \in 1..k /\ a + (i - a) = 0 + i
        BY <2>2
      <3> QED
        BY <1>5, <1>6, <2>2, <3>1
    <2> QED
      BY <2>1, <2>2
  <1>8. w = z
    BY <1>3, <1>4, <1>6, <1>7, SeqEqual
  <1> QED
    BY <1>3, <1>4, <1>8 DEF w, x, y, z

(* A step after which m is nowhere it was not before.                      *)
LEMMA PlaceShrinks ==
  ASSUME NEW m, OnePlace(m), NEW d \in {0, 1}, CarriedFrom(queue', queue, d, m),
         m \in unsent' => m \in unsent,
         \A t \in Threads : Sending(t, m)' => Sending(t, m)
  PROVE  /\ OnePlace(m)'
         /\ Waits(m)' => Waits(m)
         /\ NoneCarries(queue, m) => NoneCarries(queue', m)
  <1>1. NoneCarries(queue, m) => NoneCarries(queue', m)
    BY DEF NoneCarries, CarriedFrom
  <1>2. ASSUME NEW i \in 1..Len(queue'), NEW j \in 1..Len(queue'),
               Carries(queue'[i], m), Carries(queue'[j], m)
        PROVE  i = j
    <2>1. /\ i + d \in 1..Len(queue) /\ Carries(queue[i + d], m)
          /\ j + d \in 1..Len(queue) /\ Carries(queue[j + d], m)
      BY <1>2 DEF CarriedFrom
    <2>2. i + d = j + d
      BY <2>1 DEF OnePlace
    <2> QED
      BY <2>2
  <1>3. OnePlace(m)'
    BY <1>1, <1>2 DEF OnePlace
  <1>4. Waits(m)' => Waits(m)
    BY DEF Waits
  <1> QED
    BY <1>1, <1>3, <1>4

(* The file is not touched.                                                *)
LEMMA FileStays ==
  ASSUME NEW n, FileAt(n), NEW d \in {0, 1}, CarriedFrom(queue', queue, d, File),
         UNCHANGED fileWire, Waits(File)' => Waits(File)
  PROVE  FileAt(n)'
  BY DEF FileAt, CarriedFrom

(* A step that puts no message and no file anywhere.                       *)
LEMMA PlaceQuiet ==
  ASSUME PlaceInv, NEW d \in {0, 1},
         \A m \in Msgs \cup {File} : CarriedFrom(queue', queue, d, m),
         UNCHANGED <<fileWire, strings>>, unsent' \subseteq unsent,
         \A t \in Threads : \A m \in Msgs \cup {File} : Sending(t, m)' => Sending(t, m)
  PROVE  PlaceInv'
  <1>1. ASSUME NEW m \in Msgs \cup {File}
        PROVE  /\ OnePlace(m)' /\ (Waits(m)' => Waits(m))
               /\ NoneCarries(queue, m) => NoneCarries(queue', m)
    BY PlaceShrinks DEF PlaceInv
  <1>2. ASSUME NEW m \in Msgs PROVE StringKept(m)'
    BY <1>1 DEF StringKept, PlaceInv
  <1>3. PICK n \in 0..FileEnd : FileAt(n)
    BY DEF PlaceInv
  <1>4. FileAt(n)'
    BY <1>1, <1>3, FileStays
  <1> QED
    BY <1>1, <1>2, <1>4 DEF PlaceInv

(* One more functor, which carries nothing.                                *)
LEMMA CarriedBehind ==
  ASSUME NEW q, NEW r \in Seq(FunctorSet), NEW d \in {0, 1}, NEW m, CarriedFrom(r, q, d, m),
         NEW s \in Seq(FunctorSet), Len(s) <= 1, Len(s) = 1 => ~Carries(s[1], m)
  PROVE  r \o s \in Seq(FunctorSet) /\ CarriedFrom(r \o s, q, d, m)
  <1>1. PICK b \in Nat, c \in {0, 1} : b = Len(r) /\ c = Len(s)
    <2>1. Len(r) \in Nat /\ Len(s) \in Nat
      OBVIOUS
    <2>2. \A n \in Nat : n <= 1 => n \in {0, 1}
      OBVIOUS
    <2> QED
      BY <2>1, <2>2
  <1> DEFINE z == r \o s
  <1>2. z \in Seq(FunctorSet) /\ Len(z) = b + c /\ (\A i \in 1..b : z[i] = r[i])
        /\ (c = 1 => z[b + 1] = s[1])
    BY <1>1
  <1> HIDE DEF z
  <1>3. ASSUME NEW i \in 1..(b + c), Carries(z[i], m) PROVE i + d \in 1..Len(q) /\ z[i] = q[i + d]
    <2>1. i \in 1..b \/ (c = 1 /\ i = b + 1)
      OBVIOUS
    <2>2. i \in 1..b
      BY <1>1, <1>2, <1>3, <2>1
    <2> QED
      BY <1>1, <1>2, <1>3, <2>2 DEF CarriedFrom
  <1>4. CarriedFrom(z, q, d, m)
    BY <1>2, <1>3 DEF CarriedFrom
  <1> QED
    BY <1>2, <1>4 DEF z

(* A notification carries nothing.                                         *)
LEMMA NotifyCarriesNothing ==
  ASSUME NEW cb \in {"writeComplete", "highWater"}, NEW P, NEW m
  PROVE  /\ Notify(cb, P) \in Seq(FunctorSet) /\ Len(Notify(cb, P)) <= 1
         /\ Len(Notify(cb, P)) = 1 => ~Carries(Notify(cb, P)[1], m)
  <1>1. Functor(cb, NoArg) \in FunctorSet /\ Functor(cb, NoArg).op = cb
    BY FunctorTypes DEF NoArg
  <1> DEFINE s == Notify(cb, P)
  <1>2. s = <<Functor(cb, NoArg)>> \/ s = <<>>
    BY DEF Notify
  <1> HIDE DEF s
  <1>3. CASE s = <<Functor(cb, NoArg)>>
    BY <1>1, <1>3 DEF Carries, s
  <1>4. CASE s = <<>>
    BY <1>4 DEF s
  <1> QED
    BY <1>2, <1>3, <1>4

(* sendInLoop() queues notifications only.                                 *)
LEMMA SendCarriesNothing ==
  ASSUME NEW q, NEW rest \in Seq(FunctorSet), NEW d \in {0, 1}, NEW m, CarriedFrom(rest, q, d, m),
         NEW data, sendInLoop(data, rest)
  PROVE  CarriedFrom(queue', q, d, m)
  <1>1. PICK P, Q : queue' = (rest \o Notify("writeComplete", P)) \o Notify("highWater", Q)
    BY Zenon DEF sendInLoop
  <1>2. /\ rest \o Notify("writeComplete", P) \in Seq(FunctorSet)
        /\ CarriedFrom(rest \o Notify("writeComplete", P), q, d, m)
    BY NotifyCarriesNothing, CarriedBehind
  <1>3. CarriedFrom((rest \o Notify("writeComplete", P)) \o Notify("highWater", Q), q, d, m)
    BY <1>2, NotifyCarriesNothing, CarriedBehind
  <1> QED
    BY <1>1, <1>3

(* A functor at the end of a queue that does not carry m is the only one   *)
(* that may.                                                               *)
LEMMA CarriedLast ==
  ASSUME NEW q \in Seq(FunctorSet), NEW f \in FunctorSet, NEW m, NoneCarries(q, m)
  PROVE  LET z == Append(q, f)
         IN  /\ \A i \in 1..Len(z) : Carries(z[i], m) => z[i] = f
             /\ \A i, j \in 1..Len(z) : Carries(z[i], m) /\ Carries(z[j], m) => i = j
  <1> DEFINE z == Append(q, f)
  <1>1. PICK l \in Nat : l = Len(q)
    OBVIOUS
  <1>2. Len(z) = l + 1 /\ z[l + 1] = f /\ \A i \in 1..l : z[i] = q[i]
    BY <1>1, AppendAt
  <1> HIDE DEF z
  <1>3. \A i \in 1..(l + 1) : Carries(z[i], m) => i = l + 1
    <2> SUFFICES ASSUME NEW i \in 1..(l + 1), i # l + 1 PROVE ~Carries(z[i], m)
      OBVIOUS
    <2>1. i \in 1..l
      OBVIOUS
    <2> QED
      BY <1>1, <1>2, <2>1 DEF NoneCarries
  <1>4. /\ \A i \in 1..Len(z) : Carries(z[i], m) => z[i] = f
        /\ \A i, j \in 1..Len(z) : Carries(z[i], m) /\ Carries(z[j], m) => i = j
    BY <1>2, <1>3
  <1> QED
    BY <1>4 DEF z

(* sendFileInLoop() goes on where the file stands.                         *)
LEMMA FileSends ==
  ASSUME NEW offset \in 0..FileEnd, fileWire = Bytes(File, 0, offset),
         NEW rest \in Seq(FunctorSet), NoneCarries(rest, File), sendFileInLoop(offset, rest)
  PROVE  /\ \E n \in 0..FileEnd :
              /\ fileWire' = Bytes(File, 0, n)
              /\ \A i \in 1..Len(queue') : Carries(queue'[i], File) => queue'[i].arg = n
         /\ \A i, j \in 1..Len(queue') : Carries(queue'[i], File) /\ Carries(queue'[j], File) => i = j
         /\ \A q : \A m \in Msgs, d \in {0, 1} :
              CarriedFrom(rest, q, d, m) => CarriedFrom(queue', q, d, m)
  <1> DEFINE Goal ==
         /\ \E n \in 0..FileEnd :
              /\ fileWire' = Bytes(File, 0, n)
              /\ \A i \in 1..Len(queue') : Carries(queue'[i], File) => queue'[i].arg = n
         /\ \A i, j \in 1..Len(queue') : Carries(queue'[i], File) /\ Carries(queue'[j], File) => i = j
         /\ \A q : \A m \in Msgs, d \in {0, 1} :
              CarriedFrom(rest, q, d, m) => CarriedFrom(queue', q, d, m)
  <1>0. FileEnd \in Nat /\ FileCount \in Nat /\ offset \in Nat /\ offset <= FileEnd
    BY FileEndType
  <1>1. CASE queue' = rest /\ UNCHANGED fileWire
    BY <1>1 DEF NoneCarries
  <1>2. ASSUME NEW r \in IF MayWriteDirectly(ch) THEN FileResults(offset) ELSE {Skipped},
               fileWire' = fileWire \o Bytes(File, offset, offset + r.n),
               queue' = rest
                     \o Notify("writeComplete", r.error = "none" /\ offset + r.n = FileCount)
                     \o (IF ~faultError(r) /\ offset + r.n < FileCount
                         THEN <<Functor("file", offset + r.n)>> ELSE <<>>)
        PROVE  Goal
    <2>1. PICK k \in 0..(FileEnd - offset) : k = r.n
      <3>1. CASE r = Skipped
        BY <1>0, <3>1 DEF Skipped
      <3>2. CASE r \in SendResults(FileEnd - offset)
        <4>1. FileEnd - offset \in Int /\ FileEnd - offset >= 0
          BY <1>0
        <4>2. r.n = 0 \/ r.n \in 0..(FileEnd - offset)
          BY <3>2, <4>1, SendResultTypes, Zenon
        <4> QED
          BY <4>1, <4>2
      <3> QED
        BY <3>1, <3>2 DEF FileResults, FileEnd
    <2>2. PICK n \in 0..FileEnd : n = offset + k
      BY <1>0, <2>1
    <2>3. fileWire' = Bytes(File, 0, n)
      <3>1. Bytes(File, 0, offset) \o Bytes(File, offset, offset + k) = Bytes(File, 0, offset + k)
        <4>1. k \in Nat
          BY <1>0, <2>1
        <4> QED
          BY <1>0, <4>1, BytesConcat
      <3> QED
        BY <1>2, <2>1, <2>2, <3>1
    <2> DEFINE c == Notify("writeComplete", r.error = "none" /\ n = FileCount)
               s == IF ~faultError(r) /\ n < FileCount THEN <<Functor("file", n)>> ELSE <<>>
               x == rest \o c
    <2>4. queue' = x \o s
      BY <1>2, <2>1, <2>2
    <2>5. CarriedFrom(rest, <<>>, 0, File)
      BY DEF CarriedFrom, NoneCarries
    <2>6. x \in Seq(FunctorSet) /\ CarriedFrom(x, <<>>, 0, File)
      BY <2>5, NotifyCarriesNothing, CarriedBehind
    <2>7. NoneCarries(x, File)
      BY <2>6 DEF CarriedFrom, NoneCarries
    <2>8. ASSUME NEW m \in Msgs, NEW q, NEW d \in {0, 1}, CarriedFrom(rest, q, d, m)
          PROVE  CarriedFrom(x, q, d, m)
      BY <2>8, NotifyCarriesNothing, CarriedBehind
    <2>9. s = <<Functor("file", n)>> \/ s = <<>>
      OBVIOUS
    <2> HIDE DEF x, s
    <2>10. CASE s = <<>>
      <3>1. queue' = x
        BY <2>4, <2>6, <2>10
      <3> QED
        BY <2>3, <2>7, <2>8, <3>1 DEF NoneCarries
    <2>11. CASE s = <<Functor("file", n)>>
      <3>1. /\ Functor("file", n) \in FunctorSet /\ Functor("file", n).arg = n
            /\ Functor("file", n).op = "file"
        BY <1>0, <2>2, FunctorTypes DEF Functor
      <3> DEFINE f == Functor("file", n)
      <3> HIDE DEF f
      <3>2. queue' = Append(x, f)
        BY <2>4, <2>6, <2>11, <3>1 DEF f
      <3>3. /\ \A i \in 1..Len(queue') : Carries(queue'[i], File) => queue'[i] = f
            /\ \A i, j \in 1..Len(queue') : Carries(queue'[i], File) /\ Carries(queue'[j], File) => i = j
        BY <2>6, <2>7, <3>1, <3>2, CarriedLast DEF f
      <3>4. ASSUME NEW m \in Msgs, NEW q, NEW d \in {0, 1}, CarriedFrom(rest, q, d, m)
            PROVE  CarriedFrom(queue', q, d, m)
        <4>1. CarriedFrom(x, q, d, m)
          BY <2>8, <3>4
        <4>2. s \in Seq(FunctorSet) /\ Len(s) <= 1 /\ s[1].op = "file"
          BY <2>11, <3>1
        <4>3. ~Carries(s[1], m)
          BY <4>2, FileAssumption DEF Carries
        <4> QED
          BY <2>4, <2>6, <4>1, <4>2, <4>3, CarriedBehind
      <3> QED
        BY <2>3, <3>1, <3>3, <3>4 DEF f
    <2> QED
      BY <2>9, <2>10, <2>11
  <1> QED
    BY <1>1, <1>2 DEF sendFileInLoop

(* The functors the loop runs.                                             *)
LEMMA PlaceFunctor ==
  ASSUME ConnInv, PlaceInv, LoopFunctor
  PROVE  PlaceInv'
  <1>0. Typed /\ queue \in Seq(FunctorSet)
    BY DEF ConnInv, Typed
  <1>1. ASSUME NEW op, Running(op)
        PROVE  Tail(queue) \in Seq(FunctorSet) /\ \A m : CarriedFrom(Tail(queue), queue, 1, m)
    BY <1>0, <1>1, BatchTaken DEF CarriedFrom
  <1>2. UNCHANGED <<unsent, tpc>>
    BY DEF LoopFunctor, connectEstablished, connectDestroyed, RunSend, RunShutdown, RunFile,
       RunUserCallback, userVars
  <1>3. \A t \in Threads : \A m \in Msgs \cup {File} : Sending(t, m)' => Sending(t, m)
    BY <1>2 DEF Sending
  <1>4. CASE connectEstablished \/ connectDestroyed \/ RunShutdown \/ RunUserCallback
    <2>1. queue' = Tail(queue) /\ UNCHANGED <<fileWire, strings>>
      BY <1>4 DEF connectEstablished, connectDestroyed, RunShutdown, RunUserCallback, sockVars,
           streams, userVars
    <2>2. \E op : Running(op)
      BY <1>4 DEF connectEstablished, connectDestroyed, RunShutdown, RunUserCallback
    <2>3. \A m \in Msgs \cup {File} : CarriedFrom(queue', queue, 1, m)
      BY <1>1, <2>1, <2>2
    <2> QED
      BY <1>2, <1>3, <2>1, <2>3, PlaceQuiet
  <1>5. CASE RunSend
    <2>1. Running("send") /\ UNCHANGED fileWire
          /\ (\E data : sendInLoop(data, Tail(queue)))
          /\ strings' = strings \ {Head(queue).arg}
      BY <1>5 DEF RunSend
    <2>2. ASSUME NEW m \in Msgs \cup {File}
          PROVE  /\ CarriedFrom(queue', queue, 1, m)
                 /\ OnePlace(m)' /\ (Waits(m)' => Waits(m))
                 /\ NoneCarries(queue, m) => NoneCarries(queue', m)
      <3>1. CarriedFrom(queue', queue, 1, m)
        BY <1>1, <2>1, SendCarriesNothing
      <3> QED
        BY <1>2, <1>3, <3>1, PlaceShrinks DEF PlaceInv
    <2>3. PICK n \in 0..FileEnd : FileAt(n)
      BY DEF PlaceInv
    <2>4. FileAt(n)'
      BY <2>1, <2>2, <2>3, FileStays
    <2>5. PICK x \in Msgs : x = Head(queue).arg /\ Carries(queue[1], x) /\ 1 \in 1..Len(queue)
      <3>1. /\ Head(queue) \in FunctorSet /\ Head(queue) = queue[1] /\ queue[1].op = "send"
            /\ Len(queue) \in Nat \ {0}
        BY <1>0, <2>1, BatchTaken
      <3> QED
        BY <3>1, FileAssumption DEF FunctorSet, Carries
    <2>6. ~Waits(x)
      BY <2>5 DEF PlaceInv, OnePlace, NoneCarries, Waits
    <2>7. NoneCarries(queue', x)
      <3> SUFFICES ASSUME NEW i \in 1..Len(queue'), Carries(queue'[i], x) PROVE FALSE
        BY DEF NoneCarries
      <3>1. i + 1 \in 1..Len(queue) /\ Carries(queue[i + 1], x)
        BY <2>2, <2>5 DEF CarriedFrom
      <3>2. i + 1 = 1
        BY <2>5, <3>1 DEF PlaceInv, OnePlace
      <3> QED
        BY <3>2
    <2>8. ASSUME NEW m \in Msgs PROVE StringKept(m)'
      <3>1. CASE m = x
        BY <2>2, <2>6, <2>7, <3>1 DEF StringKept
      <3>2. CASE m # x
        <4>1. m \in strings => m \in strings'
          BY <2>1, <2>5, <3>2
        <4>2. StringKept(m)
          BY DEF PlaceInv
        <4> QED
          BY <2>2, <4>1, <4>2 DEF StringKept
      <3> QED
        BY <3>1, <3>2
    <2> QED
      BY <2>2, <2>4, <2>8 DEF PlaceInv
  <1>6. CASE RunFile
    <2>1. Running("file") /\ sendFileInLoop(Head(queue).arg, Tail(queue)) /\ UNCHANGED strings
      BY <1>6 DEF RunFile, userVars
    <2>2. PICK n \in 0..FileEnd : FileAt(n)
      BY DEF PlaceInv
    <2>3. /\ Head(queue) = queue[1] /\ Carries(queue[1], File) /\ Len(queue) \in Nat \ {0}
          /\ Tail(queue) \in Seq(FunctorSet) /\ Len(Tail(queue)) = Len(queue) - 1
          /\ \A i \in 1..Len(Tail(queue)) : Tail(queue)[i] = queue[i + 1] /\ i + 1 \in 1..Len(queue)
      BY <1>0, <2>1, BatchTaken DEF Carries
    <2>4. Head(queue).arg = n /\ 1 \in 1..Len(queue) /\ fileWire = Bytes(File, 0, n)
      BY <2>2, <2>3 DEF FileAt
    <2>5. OnePlace(File)
      BY DEF PlaceInv
    <2>6. NoneCarries(Tail(queue), File)
      <3> SUFFICES ASSUME NEW i \in 1..Len(Tail(queue)), Carries(Tail(queue)[i], File) PROVE FALSE
        BY DEF NoneCarries
      <3>1. i + 1 = 1
        BY <2>3, <2>4, <2>5 DEF OnePlace
      <3> QED
        BY <2>3, <3>1
    <2>7. /\ \E k \in 0..FileEnd :
               /\ fileWire' = Bytes(File, 0, k)
               /\ \A i \in 1..Len(queue') : Carries(queue'[i], File) => queue'[i].arg = k
          /\ \A i, j \in 1..Len(queue') : Carries(queue'[i], File) /\ Carries(queue'[j], File) => i = j
          /\ \A q : \A m \in Msgs, d \in {0, 1} :
               CarriedFrom(Tail(queue), q, d, m) => CarriedFrom(queue', q, d, m)
      BY <2>1, <2>3, <2>4, <2>6, FileSends
    <2>8. ~NoneCarries(queue, File)
      BY <2>3, <2>4 DEF NoneCarries
    <2>9. ~Waits(File) /\ ~Waits(File)'
      BY <1>2, <2>5, <2>8 DEF OnePlace, Waits, Sending
    <2>10. OnePlace(File)' /\ \E k \in 0..FileEnd : FileAt(k)'
      BY <2>7, <2>9 DEF OnePlace, FileAt, Waits
    <2>11. ASSUME NEW m \in Msgs PROVE OnePlace(m)' /\ StringKept(m)'
      <3>1. CarriedFrom(queue', queue, 1, m)
        BY <1>1, <2>1, <2>7
      <3>2. OnePlace(m)' /\ (Waits(m)' => Waits(m)) /\ (NoneCarries(queue, m) => NoneCarries(queue', m))
        BY <1>2, <1>3, <3>1, PlaceShrinks DEF PlaceInv
      <3> QED
        BY <2>1, <3>2 DEF PlaceInv, StringKept
    <2> QED
      BY <2>10, <2>11 DEF PlaceInv
  <1> QED
    BY <1>4, <1>5, <1>6 DEF LoopFunctor

(* A queue with one more functor, which does not carry m.                  *)
LEMMA CarriedAppend ==
  ASSUME NEW q \in Seq(FunctorSet), NEW f \in FunctorSet, NEW m, ~Carries(f, m)
  PROVE  CarriedFrom(Append(q, f), q, 0, m)
  <1>1. CarriedFrom(q, q, 0, m)
    BY DEF CarriedFrom
  <1> DEFINE s == <<f>>
  <1>2. s \in Seq(FunctorSet) /\ Len(s) = 1 /\ s[1] = f /\ Append(q, f) = q \o s
    OBVIOUS
  <1> HIDE DEF s
  <1>3. CarriedFrom(q \o s, q, 0, m)
    <2>1. Len(s) <= 1 /\ ~Carries(s[1], m) /\ 0 \in {0, 1}
      BY <1>2
    <2> QED
      BY <1>1, <1>2, <2>1, CarriedBehind
  <1> QED
    BY <1>2, <1>3

(* send() and sendFile() from a thread: what was with nobody is with the   *)
(* thread, and then in the queue.                                          *)
LEMMA PlaceThreadSends ==
  ASSUME ConnInv, PlaceInv, NEW t \in Threads,
         SendQueue(t) \/ \E m \in ThreadMsgs : SendTest(t, m)
  PROVE  PlaceInv'
  <1>0. tpc \in TpcSet /\ queue \in Seq(FunctorSet) /\ UNCHANGED <<fileWire, strings>>
    BY DEF ConnInv, Typed, TpcSet, SendTest, SendQueue, sockVars, streams
  <1>1. PICK n \in 0..FileEnd : FileAt(n)
    BY DEF PlaceInv
  <1>2. ASSUME NEW where, Goto(t, where)
        PROVE  tpc'[t] = where /\ \A u \in Threads : u # t => tpc'[u] = tpc[u]
    BY <1>0, <1>2 DEF Goto, TpcSet
  <1>3. ASSUME NEW x \in Msgs \cup {File}, OnePlace(x)', Waits(x)' => Waits(x),
               ~NoneCarries(queue', x) => Waits(x) \/ ~NoneCarries(queue, x),
               \A i \in 1..Len(queue') : x = File /\ Carries(queue'[i], x) => queue'[i].arg = n,
               \A m \in Msgs \cup {File} : m # x =>
                  /\ CarriedFrom(queue', queue, 0, m)
                  /\ m \in unsent' => m \in unsent
                  /\ \A u \in Threads : Sending(u, m)' => Sending(u, m)
        PROVE  PlaceInv'
    <2>1. ASSUME NEW m \in Msgs \cup {File}, m # x
          PROVE  OnePlace(m)' /\ (Waits(m)' => Waits(m)) /\ (NoneCarries(queue, m) => NoneCarries(queue', m))
      BY <1>3, <2>1, PlaceShrinks DEF PlaceInv
    <2>2. ASSUME NEW m \in Msgs PROVE StringKept(m)'
      <3>1. CASE m = x
        BY <1>0, <1>3, <3>1 DEF StringKept, PlaceInv
      <3>2. CASE m # x
        BY <1>0, <2>1, <3>2 DEF StringKept, PlaceInv
      <3> QED
        BY <3>1, <3>2
    <2>3. FileAt(n)'
      <3>1. CASE x = File
        BY <1>0, <1>1, <1>3, <3>1 DEF FileAt
      <3>2. CASE x # File
        BY <1>0, <1>1, <1>3, <2>1, <3>2, FileStays
      <3> QED
        BY <3>1, <3>2
    <2> QED
      BY <1>3, <2>1, <2>2, <2>3 DEF PlaceInv
  <1>4. ASSUME NEW x \in ThreadMsgs, SendTest(t, x)
        PROVE  PlaceInv'
    <2>1. UNCHANGED queue /\ Goto(t, <<"send", x>>) /\ unsent' = unsent \ {x} /\ x \in unsent
          /\ x \in Msgs \cup {File}
      BY <1>4, ThreadAssumption DEF SendTest, loopVars
    <2>2. tpc'[t] = <<"send", x>> /\ \A u \in Threads : u # t => tpc'[u] = tpc[u]
      BY <1>2, <2>1
    <2>3. OnePlace(x) /\ NoneCarries(queue, x) /\ Waits(x) /\ \A u \in Threads : ~Sending(u, x)
      BY <2>1 DEF PlaceInv, OnePlace, Waits
    <2>4. \A u \in Threads : Sending(u, x)' => u = t
      BY <2>2, <2>3 DEF Sending
    <2>5. OnePlace(x)'
      BY <2>1, <2>3, <2>4 DEF OnePlace
    <2>6. ASSUME NEW m \in Msgs \cup {File}, m # x
          PROVE  /\ CarriedFrom(queue', queue, 0, m)
                 /\ m \in unsent' => m \in unsent
                 /\ \A u \in Threads : Sending(u, m)' => Sending(u, m)
      <3>1. CarriedFrom(queue', queue, 0, m)
        BY <1>0, <2>1 DEF CarriedFrom
      <3>2. <<"send", x>> # <<"send", m>>
        BY <2>6
      <3>3. \A u \in Threads : Sending(u, m)' => Sending(u, m)
        BY <2>2, <3>2 DEF Sending
      <3> QED
        BY <2>1, <3>1, <3>3
    <2>7. NoneCarries(queue', x)
      BY <2>1, <2>3
    <2>8. \A i \in 1..Len(queue') : x = File /\ Carries(queue'[i], x) => queue'[i].arg = n
      BY <2>7 DEF NoneCarries
    <2> QED
      BY <1>3, <2>1, <2>3, <2>5, <2>6, <2>7, <2>8
  <1>5. CASE SendQueue(t)
    <2>1. Goto(t, <<"idle">>) /\ UNCHANGED unsent /\ tpc[t][1] = "send"
      BY <1>5 DEF SendQueue
    <2>2. PICK x \in Msgs \cup {File} : x = tpc[t][2] /\ tpc[t] = <<"send", x>>
      <3>1. tpc[t] \in {<<"idle">>, <<"setState">>, <<"shutdown">>}
                       \cup {<<"send", m>> : m \in ThreadMsgs}
        BY <1>0 DEF TpcSet
      <3>2. tpc[t] # <<"idle">> /\ tpc[t] # <<"setState">> /\ tpc[t] # <<"shutdown">>
        BY <2>1
      <3>3. PICK m \in ThreadMsgs : tpc[t] = <<"send", m>>
        BY <3>1, <3>2
      <3>4. tpc[t][2] = m /\ m \in Msgs \cup {File}
        BY <3>3, ThreadAssumption
      <3> QED
        BY <3>3, <3>4
    <2>3. PICK f \in FunctorSet :
            /\ queue' = Append(queue, f)
            /\ \A m \in Msgs \cup {File} : Carries(f, m) => m = x
            /\ x = File => f.arg = 0
      <3>1. CASE x = File
        <4>1. queue' = Append(queue, Functor("file", 0))
          BY <1>5, <2>2, <3>1 DEF SendQueue
        <4>2. Functor("file", 0) \in FunctorSet /\ Functor("file", 0).arg = 0
              /\ Functor("file", 0).op = "file"
          BY FunctorTypes DEF Functor
        <4>3. \A m \in Msgs \cup {File} : Carries(Functor("file", 0), m) => m = x
          BY <3>1, <4>2 DEF Carries
        <4> QED
          BY <4>1, <4>2, <4>3
      <3>2. CASE x # File
        <4>1. queue' = Append(queue, Functor("send", x)) /\ x \in Msgs
          BY <1>5, <2>2, <3>2 DEF SendQueue
        <4>2. Functor("send", x) \in FunctorSet /\ Functor("send", x).arg = x
              /\ Functor("send", x).op = "send"
          BY <4>1, FunctorTypes DEF Functor
        <4>3. \A m \in Msgs \cup {File} : Carries(Functor("send", x), m) => m = x
          BY <4>2 DEF Carries
        <4> QED
          BY <3>2, <4>1, <4>2, <4>3
      <3> QED
        BY <3>1, <3>2
    <2>4. tpc'[t] = <<"idle">> /\ \A u \in Threads : u # t => tpc'[u] = tpc[u]
      BY <1>2, <2>1
    <2>5. \A m : <<"idle">> # <<"send", m>>
      OBVIOUS
    <2>6. ASSUME NEW m, NEW u \in Threads, Sending(u, m)' PROVE Sending(u, m) /\ u # t
      BY <2>4, <2>5, <2>6 DEF Sending
    <2>7. Sending(t, x) /\ Waits(x)
      BY <2>2 DEF Sending, Waits
    <2>8. OnePlace(x) /\ x \notin unsent /\ NoneCarries(queue, x)
          /\ \A u \in Threads : Sending(u, x) => u = t
      BY <2>7 DEF PlaceInv, OnePlace
    <2>9. ~Waits(x)'
      BY <2>1, <2>6, <2>8 DEF Waits
    <2>10. /\ \A i \in 1..Len(queue') : Carries(queue'[i], x) => queue'[i] = f
           /\ \A i, j \in 1..Len(queue') : Carries(queue'[i], x) /\ Carries(queue'[j], x) => i = j
      BY <1>0, <2>3, <2>8, CarriedLast
    <2>11. OnePlace(x)'
      BY <2>9, <2>10 DEF OnePlace, Waits
    <2>12. ASSUME NEW m \in Msgs \cup {File}, m # x
           PROVE  /\ CarriedFrom(queue', queue, 0, m)
                  /\ m \in unsent' => m \in unsent
                  /\ \A u \in Threads : Sending(u, m)' => Sending(u, m)
      <3>1. ~Carries(f, m)
        BY <2>3, <2>12
      <3>2. CarriedFrom(queue', queue, 0, m)
        BY <1>0, <2>3, <3>1, CarriedAppend
      <3> QED
        BY <2>1, <2>6, <3>2
    <2>13. \A i \in 1..Len(queue') : x = File /\ Carries(queue'[i], x) => queue'[i].arg = n
      <3>1. x = File => n = 0 /\ f.arg = n
        BY <1>1, <2>3, <2>7 DEF FileAt
      <3> QED
        BY <2>10, <3>1
    <2> QED
      BY <1>3, <2>7, <2>9, <2>11, <2>12, <2>13
  <1> QED
    BY <1>4, <1>5

(* shutdown() from a thread.                                               *)
LEMMA PlaceThreadShuts ==
  ASSUME ConnInv, PlaceInv, NEW t \in Threads,
         ShutdownTest(t) \/ ShutdownSet(t) \/ ShutdownQueue(t)
  PROVE  PlaceInv'
  <1>0. tpc \in TpcSet /\ queue \in Seq(FunctorSet) /\ UNCHANGED <<fileWire, strings, unsent>>
    BY DEF ConnInv, Typed, TpcSet, ShutdownTest, ShutdownSet, ShutdownQueue, sockVars, streams
  <1>1. Goto(t, <<"setState">>) \/ Goto(t, <<"shutdown">>) \/ Goto(t, <<"idle">>)
    BY DEF ShutdownTest, ShutdownSet, ShutdownQueue
  <1>2. /\ tpc'[t] \in {<<"setState">>, <<"shutdown">>, <<"idle">>}
        /\ \A u \in Threads : u # t => tpc'[u] = tpc[u]
    BY <1>0, <1>1 DEF Goto, TpcSet
  <1>3. \A m : <<"idle">> # <<"send", m>> /\ <<"setState">> # <<"send", m>>
               /\ <<"shutdown">> # <<"send", m>>
    OBVIOUS
  <1>4. \A u \in Threads : \A m \in Msgs \cup {File} : Sending(u, m)' => Sending(u, m)
    BY <1>2, <1>3 DEF Sending
  <1>5. Functor("shutdown", NoArg) \in FunctorSet /\ Functor("shutdown", NoArg).op = "shutdown"
    BY FunctorTypes DEF NoArg
  <1>6. queue' = queue \/ queue' = Append(queue, Functor("shutdown", NoArg))
    BY DEF ShutdownTest, ShutdownSet, ShutdownQueue, loopVars
  <1>7. ASSUME NEW m \in Msgs \cup {File} PROVE CarriedFrom(queue', queue, 0, m)
    <2>1. ~Carries(Functor("shutdown", NoArg), m)
      BY <1>5 DEF Carries
    <2>2. queue' = queue => CarriedFrom(queue', queue, 0, m)
      BY <1>0 DEF CarriedFrom
    <2>3. CarriedFrom(Append(queue, Functor("shutdown", NoArg)), queue, 0, m)
      BY <1>0, <1>5, <2>1, CarriedAppend
    <2> QED
      BY <1>6, <2>2, <2>3
  <1> QED
    BY <1>0, <1>4, <1>7, PlaceQuiet

(* Every step keeps messages and file in one place, and the file in order. *)
LEMMA PlaceStep ==
  ASSUME ConnInv, PlaceInv, [Next]_vars
  PROVE  PlaceInv'
  <1>0. queue \in Seq(FunctorSet)
    BY DEF ConnInv, Typed
  <1>1. \A m : CarriedFrom(queue, queue, 0, m)
    BY <1>0 DEF CarriedFrom
  <1>2. UNCHANGED tpc => \A t \in Threads : \A m \in Msgs \cup {File} : Sending(t, m)' => Sending(t, m)
    BY DEF Sending
  <1>3. CASE UNCHANGED <<queue, fileWire, unsent, strings, tpc>>
    BY <1>1, <1>2, <1>3, PlaceQuiet
  <1>4. CASE \/ \E space \in BOOLEAN : Poll(space)
             \/ SwapFunctors \/ EndRound \/ Shutdown
             \/ Peer \/ UNCHANGED vars
    BY <1>3, <1>4 DEF Poll, SwapFunctors, EndRound, Shutdown, Peer, PeerSends,
         PeerCloses, PeerResets, TimesOut, vars, loopVars, sockVars, streams, userVars
  <1>5. CASE \/ HandleHup \/ HandleError \/ HandleReadData \/ HandleReadError
             \/ HandleReadEnd \/ UserReturn \/ CloseCallback \/ RemoveChannel
    BY <1>3, <1>5 DEF HandleHup, HandleError, HandleReadData, HandleReadError, HandleReadEnd,
         UserReturn, CloseCallback, RemoveChannel, sockVars, streams, userVars
  <1>6. ASSUME NEW x \in Msgs, StringDies(x) PROVE PlaceInv'
    <2>1. UNCHANGED <<queue, fileWire, unsent, tpc>> /\ ~StringsOutlive
      BY <1>6 DEF StringDies, loopVars, sockVars, streams
    <2>2. \A m \in Msgs \cup {File} : OnePlace(m)' /\ (Waits(m)' => Waits(m))
      BY <1>1, <1>2, <2>1, PlaceShrinks DEF PlaceInv
    <2>3. PICK n \in 0..FileEnd : FileAt(n)
      BY DEF PlaceInv
    <2>4. FileAt(n)'
      BY <1>1, <2>1, <2>2, <2>3, FileStays
    <2>5. \A m \in Msgs : StringKept(m)'
      BY <2>1 DEF StringKept
    <2> QED
      BY <2>2, <2>4, <2>5 DEF PlaceInv
  <1>7. CASE HandleWrite
    <2>1. UNCHANGED <<fileWire, unsent, strings, tpc>>
      BY <1>7 DEF HandleWrite, userVars
    <2>2. queue' = queue \/ \E P : queue' = queue \o Notify("writeComplete", P)
      BY <1>7, Zenon DEF HandleWrite
    <2>3. ASSUME NEW m \in Msgs \cup {File} PROVE CarriedFrom(queue', queue, 0, m)
      <3>1. ASSUME NEW P PROVE CarriedFrom(queue \o Notify("writeComplete", P), queue, 0, m)
        BY <1>0, <1>1, NotifyCarriesNothing, CarriedBehind
      <3> QED
        BY <1>1, <2>2, <3>1
    <2> QED
      BY <1>2, <2>1, <2>3, PlaceQuiet
  <1>8. ASSUME NEW x \in Msgs, Send(x) PROVE PlaceInv'
    <2>1. sendInLoop(Message(x), queue) /\ unsent' = unsent \ {x} /\ UNCHANGED <<fileWire, strings, tpc>>
      BY <1>8 DEF Send
    <2>2. \A m \in Msgs \cup {File} : CarriedFrom(queue', queue, 0, m)
      BY <1>0, <1>1, <2>1, SendCarriesNothing
    <2> QED
      BY <1>2, <2>1, <2>2, PlaceQuiet
  <1>9. CASE SendFile
    <2>1. sendFileInLoop(0, queue) /\ File \in unsent /\ unsent' = unsent \ {File}
          /\ UNCHANGED <<strings, tpc>>
      BY <1>9 DEF SendFile
    <2>2. PICK n \in 0..FileEnd : FileAt(n)
      BY DEF PlaceInv
    <2>3. /\ n = 0 /\ fileWire = Bytes(File, 0, 0) /\ NoneCarries(queue, File)
          /\ \A t \in Threads : ~Sending(t, File)
      BY <2>1, <2>2 DEF FileAt, PlaceInv, OnePlace, Waits
    <2>4. 0 \in 0..FileEnd
      BY FileEndType
    <2>5. /\ \E k \in 0..FileEnd :
               /\ fileWire' = Bytes(File, 0, k)
               /\ \A i \in 1..Len(queue') : Carries(queue'[i], File) => queue'[i].arg = k
          /\ \A i, j \in 1..Len(queue') : Carries(queue'[i], File) /\ Carries(queue'[j], File) => i = j
          /\ \A q : \A m \in Msgs, d \in {0, 1} :
               CarriedFrom(queue, q, d, m) => CarriedFrom(queue', q, d, m)
      BY <1>0, <2>1, <2>3, <2>4, FileSends
    <2>6. ~Waits(File)'
      BY <2>1, <2>3 DEF Waits, Sending
    <2>7. OnePlace(File)' /\ \E k \in 0..FileEnd : FileAt(k)'
      BY <2>5, <2>6 DEF OnePlace, FileAt, Waits
    <2>8. ASSUME NEW m \in Msgs PROVE OnePlace(m)' /\ StringKept(m)'
      <3>1. CarriedFrom(queue', queue, 0, m)
        BY <1>1, <2>5
      <3>2. OnePlace(m)' /\ (Waits(m)' => Waits(m)) /\ (NoneCarries(queue, m) => NoneCarries(queue', m))
        BY <1>2, <2>1, <3>1, PlaceShrinks DEF PlaceInv
      <3> QED
        BY <2>1, <3>2 DEF PlaceInv, StringKept
    <2> QED
      BY <2>7, <2>8 DEF PlaceInv
  <1>10. CASE RemoveConnectionInLoop \/ ServerDestroyed
    <2>1. queue' = Append(queue, Functor("destroyed", NoArg))
          /\ UNCHANGED <<fileWire, unsent, strings, tpc>>
      BY <1>10 DEF RemoveConnectionInLoop, ServerDestroyed, sockVars, streams, userVars
    <2>2. Functor("destroyed", NoArg) \in FunctorSet /\ Functor("destroyed", NoArg).op = "destroyed"
      BY FunctorTypes DEF NoArg
    <2>3. ASSUME NEW m \in Msgs \cup {File} PROVE CarriedFrom(queue', queue, 0, m)
      <3>1. ~Carries(Functor("destroyed", NoArg), m)
        BY <2>2 DEF Carries
      <3> QED
        BY <1>0, <2>1, <2>2, <3>1, CarriedAppend
    <2> QED
      BY <1>2, <2>1, <2>3, PlaceQuiet
  <1> QED
    BY <1>4, <1>5, <1>6, <1>7, <1>8, <1>9, <1>10, PlaceFunctor, PlaceThreadSends, PlaceThreadShuts
       DEF Next, LoopThread, LoopCallback, InLoopUser, UserThread, Waiting

(* Every step keeps the stream.                                            *)
LEMMA StreamStep ==
  ASSUME ConnInv, StreamInv, PlaceInv, [Next]_vars
  PROVE  StreamInv'
  <1>0. Typed /\ ChannelOK(ch)
    BY DEF ConnInv
  <1>1. CASE UNCHANGED <<outputBuffer_, wire, sent, wrShut, peer>>
    BY <1>1, StreamQuiet DEF CannotSend
  <1>2. CASE \/ \E space \in BOOLEAN : Poll(space)
             \/ SwapFunctors \/ EndRound \/ HandleError \/ HandleReadData \/ HandleReadError
             \/ UserReturn \/ CloseCallback \/ RunUserCallback
    BY <1>1, <1>2 DEF Poll, SwapFunctors, EndRound, HandleError, HandleReadData, HandleReadError,
         UserReturn, CloseCallback, RunUserCallback, connVars, sockVars, streams, userVars
  <1>3. CASE \/ \E t \in Threads : UserThread(t)
             \/ \E m \in Msgs : StringDies(m)
             \/ RemoveConnectionInLoop \/ ServerDestroyed \/ PeerSends \/ UNCHANGED vars
    BY <1>1, <1>3 DEF UserThread, SendTest, SendQueue, ShutdownTest, ShutdownSet, ShutdownQueue,
         StringDies, RemoveConnectionInLoop, ServerDestroyed, PeerSends, vars, connVars, sockVars,
         streams, userVars
  <1>4. CASE RunFile \/ SendFile
    BY <1>1, <1>4 DEF RunFile, SendFile, connVars, userVars
  <1>5. CASE RunShutdown \/ Shutdown
    <2>1. UNCHANGED <<outputBuffer_, wire, sent, peer>> /\ shutdownInLoop
      BY <1>5 DEF RunShutdown, Shutdown, connVars, streams, userVars
    <2> QED
      BY <2>1, StreamQuiet DEF CannotSend, shutdownInLoop
  <1>6. CASE PeerCloses \/ PeerResets \/ TimesOut
    <2>1. UNCHANGED <<outputBuffer_, wire, sent, wrShut>> /\ (peer = "rst" => peer' = "rst")
      BY <1>6 DEF PeerCloses, PeerResets, TimesOut, connVars, streams, userVars
    <2> QED
      BY <2>1, StreamQuiet DEF CannotSend
  <1>8. CASE connectEstablished \/ connectDestroyed \/ RemoveChannel \/ HandleHup \/ HandleReadEnd
    BY <1>1, <1>8 DEF connectEstablished, connectDestroyed, RemoveChannel, HandleHup, HandleReadEnd,
         handleClose, sockVars, streams, userVars
  <1>9. CASE RunSend
    <2>1. Running("send") /\ UNCHANGED <<wrShut, peer>>
      BY <1>9 DEF RunSend
    <2>2. PICK m \in Msgs : m = Head(queue).arg
      <3>1. Head(queue) \in FunctorSet /\ Head(queue).op = "send"
        BY <1>0, <2>1, BatchTaken
      <3> QED
        BY <3>1 DEF FunctorSet
    <2>3. PICK data \in {Message(m)} \cup (IF m \in strings THEN {} ELSE {Garbage(m)}) :
            sendInLoop(data, Tail(queue)) /\ sent' = sent \o Message(m)
      BY <1>9, <2>2 DEF RunSend
    <2>4. StringsOutlive => m \in strings
      <3>1. Head(queue) = queue[1] /\ queue[1].op = "send" /\ 1 \in 1..Len(queue)
        BY <1>0, <2>1, BatchTaken
      <3>2. ~NoneCarries(queue, m)
        BY <2>2, <3>1, FileAssumption DEF NoneCarries, Carries
      <3> QED
        BY <3>2 DEF PlaceInv, StringKept
    <2>5. data \in DataFor(m)
      BY <2>3, <2>4 DEF DataFor
    <2>6. Tail(queue) \in Seq(FunctorSet)
      BY <1>0, <2>1, BatchTaken
    <2> QED
      BY <2>1, <2>3, <2>5, <2>6, StreamSends
  <1>10. ASSUME NEW m \in Msgs, Send(m) PROVE StreamInv'
    <2>1. Message(m) \in DataFor(m)
      BY DEF DataFor
    <2>2. queue \in Seq(FunctorSet)
      BY <1>0 DEF Typed
    <2> QED
      BY <1>10, <2>1, <2>2, StreamSends DEF Send
  <1>11. CASE HandleWrite
    BY <1>11, StreamWrites
  <1> QED
    BY <1>2, <1>3, <1>4, <1>5, <1>6, <1>8, <1>9, <1>10, <1>11
       DEF Next, LoopThread, LoopFunctor, LoopCallback, InLoopUser, Peer, Waiting

(* What the invariants say of the bytes.                                   *)
LEMMA StreamFollows ==
  ASSUME StreamInv, PlaceInv, ConnInv
  PROVE  StreamOrder
  <1>1. ASSUME NEW x \in Seq(ByteSet), Delivered(x, sent) PROVE Stands(x)
    <2>1. DOMAIN x = 1..Len(x)
      OBVIOUS
    <2> QED
      BY <1>1, <2>1 DEF Delivered, Reads, Stands
  <1>2. Stands(wire)
    BY <1>1 DEF StreamInv
  <1>3. ASSUME ~CannotSend
        PROVE  Stands(wire \o outputBuffer_) /\ Len(wire) + Len(outputBuffer_) = Len(sent)
    <2>1. wire \in Seq(ByteSet) /\ outputBuffer_ \in Seq(ByteSet)
          /\ Delivered(wire \o outputBuffer_, sent) /\ Len(wire \o outputBuffer_) = Len(sent)
      BY <1>3 DEF StreamInv, ConnInv, Typed
    <2>2. wire \o outputBuffer_ \in Seq(ByteSet)
          /\ Len(wire \o outputBuffer_) = Len(wire) + Len(outputBuffer_)
      BY <2>1
    <2> QED
      BY <1>1, <2>1, <2>2
  <1>4. IsPrefix(fileWire, Bytes(File, 0, FileCount))
    <2>1. PICK n \in 0..FileEnd : fileWire = Bytes(File, 0, n)
      BY DEF PlaceInv, FileAt
    <2>2. n \in Nat /\ FileCount \in Nat /\ n <= FileCount /\ FileCount - n \in Nat
      BY FileEndType
    <2> DEFINE all == Bytes(File, 0, FileCount)
    <2>3. Len(fileWire) = n /\ Len(all) = FileCount
      BY <2>1, <2>2, BytesConcat
    <2>4. fileWire = [i \in 1..n |-> <<File, 0 + i>>] /\ all = [i \in 1..FileCount |-> <<File, 0 + i>>]
      <3>1. n - 0 = n /\ FileCount - 0 = FileCount
        BY <2>2
      <3> QED
        BY <2>1, <3>1 DEF Bytes
    <2> HIDE DEF all
    <2>5. SubSeq(fileWire, 1, n) = [i \in 1..n |-> fileWire[i]]
      BY <2>2
    <2>6. SubSeq(all, 1, n) = [i \in 1..n |-> all[i]]
      BY <2>2
    <2>7. \A i \in 1..n : fileWire[i] = all[i]
      BY <2>2, <2>4
    <2>8. SubSeq(fileWire, 1, n) = SubSeq(all, 1, n)
      BY <2>5, <2>6, <2>7
    <2> QED
      BY <2>2, <2>3, <2>8 DEF IsPrefix, all
  <1> QED
    BY <1>2, <1>3, <1>4 DEF StreamOrder

(* The initial state.                                                      *)
LEMMA StreamInit == Init => StreamInv /\ PlaceInv
  <1> SUFFICES ASSUME Init PROVE StreamInv /\ PlaceInv
    OBVIOUS
  <1>1. StreamInv
    <2>1. wire = <<>> /\ outputBuffer_ = <<>> /\ sent = <<>>
      BY DEF Init
    <2>2. wire \o outputBuffer_ = <<>> /\ wire \in Seq(ByteSet) /\ sent \in Seq(Msgs \X Nat)
      BY <2>1
    <2> QED
      BY <2>1, <2>2 DEF StreamInv, Delivered
  <1>2. /\ fileWire = <<>> /\ strings = Msgs /\ queue = <<Functor("established", NoArg)>>
        /\ \A t \in Threads : tpc[t] = <<"idle">>
    BY DEF Init
  <1>3. \A m : NoneCarries(queue, m)
    <2>1. Len(queue) = 1 /\ queue[1].op = "established"
      BY <1>2 DEF Functor
    <2> QED
      BY <2>1 DEF NoneCarries, Carries
  <1>4. \A t \in Threads : \A m : ~Sending(t, m)
    <2>1. \A m : <<"idle">> # <<"send", m>>
      OBVIOUS
    <2> QED
      BY <1>2, <2>1 DEF Sending
  <1>5. \A m : OnePlace(m)
    BY <1>3, <1>4 DEF OnePlace, NoneCarries
  <1>6. \A m \in Msgs : StringKept(m)
    BY <1>2 DEF StringKept
  <1>7. FileAt(0)
    <2>1. Bytes(File, 0, 0) \in Seq({File} \X Nat) /\ Len(Bytes(File, 0, 0)) = 0
      BY BytesConcat
    <2>2. Bytes(File, 0, 0) = <<>>
      BY <2>1
    <2> QED
      BY <1>2, <1>3, <2>2 DEF FileAt, NoneCarries
  <1>8. 0 \in 0..FileEnd
    BY FileEndType
  <1> QED
    BY <1>1, <1>5, <1>6, <1>7, <1>8 DEF PlaceInv

(* The stream is kept by every step from the beginning.                    *)
LEMMA StreamInvariant == Safety => [](ConnInv /\ StreamInv /\ PlaceInv)
  <1>1. Init => ConnInv /\ StreamInv /\ PlaceInv
    BY ConnInit, StreamInit
  <1>2. ConnInv /\ StreamInv /\ PlaceInv /\ [Next]_vars => (ConnInv /\ StreamInv /\ PlaceInv)'
    BY ConnStep, StreamStep, PlaceStep
  <1> QED
    BY <1>1, <1>2, PTL DEF Safety

(* What the peer gets is in the order of the sends, without gaps or        *)
(* repetitions, through direct, partial, buffered and failing writes, and  *)
(* a connection that can still send has all the rest in its buffer; no     *)
(* byte is other than the one sent unless its string died, and then only   *)
(* in its own place; those of the file leave in order and once, from       *)
(* whichever functor writes them.                                          *)
THEOREM StreamInOrder == Safety => []StreamOrder
  <1>1. ConnInv /\ StreamInv /\ PlaceInv => StreamOrder
    BY StreamFollows
  <1> QED
    BY <1>1, StreamInvariant, PTL

(* When the FIN of a connection that is neither closed nor broken goes     *)
(* out, from shutdownInLoop or from handleWrite, everything sendInLoop was *)
(* given up to then has gone out before it.  Sends that are queued or      *)
(* still to be queued by other threads are not among it.                   *)
THEOREM FinIsLast == Safety => FinAfterOutput
  <1> DEFINE Fin == wrShut' /\ ~wrShut /\ ~Closed /\ peer # "rst"
             Out == outputBuffer_' = <<>> /\ Len(wire') = Len(sent')
  <1>1. ASSUME ConnInv, StreamInv, [Next]_vars, Fin
        PROVE  Out
    <2>1. wire \in Seq(ByteSet) /\ outputBuffer_ \in Seq(ByteSet)
          /\ Len(wire \o outputBuffer_) = Len(sent)
      BY <1>1 DEF StreamInv, ConnInv, Typed, CannotSend
    <2>2. CASE RunShutdown \/ Shutdown
      <3>1. UNCHANGED <<outputBuffer_, wire, sent>> /\ shutdownInLoop
        BY <2>2 DEF RunShutdown, Shutdown, connVars, streams, userVars
      <3>2. ~isWriting(ch)
        BY <1>1, <3>1 DEF shutdownInLoop, OutputDrained
      <3>3. outputBuffer_ = <<>>
        BY <1>1, <3>2 DEF ConnInv, WritingIffBuffered
      <3>4. wire \o outputBuffer_ = wire
        BY <2>1, <3>3
      <3> QED
        BY <2>1, <3>1, <3>3, <3>4
    <2>3. CASE HandleWrite
      <3>1. isWriting(ch)
        BY <1>1, <2>3 DEF HandleWrite
      <3>2. PICK r : /\ outputBuffer_' = SubSeq(outputBuffer_, r.n + 1, Len(outputBuffer_))
                     /\ wire' = wire \o SubSeq(outputBuffer_, 1, r.n)
                     /\ wrShut' => r.n > 0 /\ outputBuffer_' = <<>>
                     /\ r \in SendResults(Len(outputBuffer_))
        BY <1>1, <2>3, <3>1 DEF HandleWrite
      <3>3. Len(outputBuffer_) \in Nat /\ Len(outputBuffer_) \in Int
        BY <2>1
      <3>4. PICK k \in 0..Len(outputBuffer_) : k = r.n
        <4>1. r.n = 0 \/ r.n \in 0..Len(outputBuffer_)
          BY <3>2, <3>3, SendResultTypes, Zenon
        <4> QED
          BY <3>3, <4>1
      <3> DEFINE head == SubSeq(outputBuffer_, 1, k)
                 left == SubSeq(outputBuffer_, k + 1, Len(outputBuffer_))
      <3>5. head \in Seq(ByteSet) /\ left \in Seq(ByteSet) /\ head \o left = outputBuffer_
        BY <2>1, SplitAt, RestOf
      <3>6. outputBuffer_' = left /\ wire' = wire \o head /\ left = <<>>
        BY <1>1, <3>2, <3>4
      <3> HIDE DEF head, left
      <3>7. head = outputBuffer_
        BY <3>5, <3>6
      <3>8. sent' = sent
        BY <2>3 DEF HandleWrite, userVars
      <3> QED
        BY <2>1, <3>6, <3>7, <3>8
    <2>4. CASE wrShut' = wrShut
      BY <1>1, <2>4
    <2>5. CASE \/ \E space \in BOOLEAN : Poll(space)
               \/ SwapFunctors \/ EndRound \/ connectEstablished \/ connectDestroyed
               \/ RunSend \/ RunFile \/ RunUserCallback \/ Waiting \/ UNCHANGED vars
      BY <2>4, <2>5 DEF Poll, SwapFunctors, EndRound, connectEstablished, connectDestroyed,
           RunSend, RunFile, RunUserCallback, Waiting, vars, sockVars
    <2>6. CASE \/ HandleHup \/ HandleError \/ HandleReadData \/ HandleReadError
               \/ HandleReadEnd \/ UserReturn \/ CloseCallback \/ RemoveChannel
      BY <2>4, <2>6 DEF HandleHup, HandleError, HandleReadData, HandleReadError,
           HandleReadEnd, UserReturn, CloseCallback, RemoveChannel, sockVars
    <2>7. CASE \/ \E m \in Msgs : Send(m)
               \/ SendFile \/ Peer
               \/ \E t \in Threads : UserThread(t)
               \/ \E m \in Msgs : StringDies(m)
               \/ RemoveConnectionInLoop \/ ServerDestroyed
      BY <2>4, <2>7 DEF Send, SendFile, Peer, PeerSends, PeerCloses, PeerResets, TimesOut,
           UserThread, SendTest, SendQueue, ShutdownTest, ShutdownSet, ShutdownQueue,
           StringDies, RemoveConnectionInLoop, ServerDestroyed, sockVars
    <2> QED
      BY <1>1, <2>2, <2>3, <2>5, <2>6, <2>7
         DEF Next, LoopThread, LoopFunctor, LoopCallback, InLoopUser
  <1>2. ConnInv /\ StreamInv /\ [Next]_vars => [Fin => Out]_vars
    BY <1>1
  <1> QED
    BY <1>2, StreamInvariant, PTL DEF Safety, FinAfterOutput

-----------------------------------------------------------------------------
(* The life of the connection. *)

(* connectEstablished is the first functor of the loop until it has run,   *)
(* and never queued again.                                                 *)
QueuePart(q, u) ==
    /\ \A i \in 1..Len(q) :
         q[i].op # "send" /\ (q[i].op = "established" => i = 1 /\ u = 0)
    /\ u = 0 => q # <<>> /\ q[1].op = "established"

(* Before the UP nothing else has happened to the connection.              *)
BeforeUp ==
    ups = 0 => /\ state_ = "kConnecting" /\ ch.index = kNew /\ downs = 0 /\ todo = <<>>
               /\ \A t \in Threads : tpc[t] = <<"idle">>

(* Until the DOWN the channel wants to read, and a kConnected one is       *)
(* registered: its disableAll() takes it out of the epoll set.             *)
WhileUp ==
    /\ ups = 1 /\ downs = 0 => state_ \in {"kConnected", "kDisconnecting"} /\ "in" \in ch.events
    /\ state_ = "kConnected" => ch.index = kAdded

(* After the DOWN nobody registers the channel again: no callback comes.   *)
AfterDown ==
    downs = 1 => /\ state_ \in {"kDisconnecting", "kDisconnected"}
                 /\ ch.events = {} /\ ch.index # kAdded
                 /\ NoneClosing(todo)

(* At most one callback on the stack may close, and only a registered      *)
(* channel; connectDestroyed() takes the channel out after its DOWN.       *)
StackPart ==
    /\ OneClosing(todo)
    /\ NoneClosing(todo) \/ ch.index = kAdded
    /\ downs = 0 => todo \in Seq(CallbackNames \ {"remove"})

LifeInv ==
    /\ ups \in {0, 1} /\ downs \in {0, 1}
    /\ QueuePart(queue, ups)
    /\ BeforeUp
    /\ WhileUp
    /\ AfterDown
    /\ StackPart

(* The queue when functors are queued ...                                  *)
LEMMA LifeQueued ==
  ASSUME NoForeignSend, NEW q \in Seq(FunctorSet), NEW u, QueuePart(q, u), NEW r, Queued(r, q)
  PROVE  QueuePart(r, u)
  <1>1. r \in Seq(FunctorSet)
    BY DEF Queued
  <1>2. PICK a \in Nat, b \in Nat : a = Len(q) /\ b = Len(r)
    BY <1>1
  <1>3. a <= b /\ (\A i \in 1..a : r[i] = q[i])
        /\ \A i \in (a + 1)..b : r[i].op # "established" /\ r[i].op # "send"
    BY <1>2 DEF Queued
  <1>4. \A i \in 1..b : i \in 1..a \/ i \in (a + 1)..b
    OBVIOUS
  <1>5. \A i \in 1..a : q[i].op # "send" /\ (q[i].op = "established" => i = 1 /\ u = 0)
    BY <1>2 DEF QueuePart
  <1>6. \A i \in 1..b : r[i].op # "send" /\ (r[i].op = "established" => i = 1 /\ u = 0)
    BY <1>3, <1>4, <1>5
  <1>7. ASSUME u = 0
        PROVE  r # <<>> /\ r[1].op = "established"
    <2>1. q # <<>> /\ q[1].op = "established"
      BY <1>7 DEF QueuePart
    <2>2. a # 0
      BY <1>2, <2>1
    <2>3. 1 \in 1..a /\ b # 0
      BY <1>3, <2>2
    <2> QED
      BY <1>1, <1>2, <1>3, <2>1, <2>3
  <1> QED
    BY <1>2, <1>6, <1>7 DEF QueuePart

(* ... and when the first one is taken: connectEstablished is not in what  *)
(* is left.                                                                *)
LEMMA LifeTaken ==
  ASSUME NEW q \in Seq(FunctorSet), NEW u, QueuePart(q, u), q # <<>>
  PROVE  QueuePart(Tail(q), 1)
  <1>1. PICK a \in Nat \ {0} : a = Len(q)
    OBVIOUS
  <1> DEFINE z == Tail(q)
  <1>2. Len(z) = a - 1 /\ \A i \in 1..(a - 1) : z[i] = q[i + 1]
    BY <1>1
  <1>3. \A i \in 1..(a - 1) : i + 1 \in 1..a /\ i + 1 # 1
    OBVIOUS
  <1> HIDE DEF z
  <1>4. \A i \in 1..a : q[i].op # "send" /\ (q[i].op = "established" => i = 1)
    BY <1>1 DEF QueuePart
  <1>5. \A i \in 1..(a - 1) : z[i].op # "send" /\ z[i].op # "established"
    BY <1>2, <1>3, <1>4
  <1>6. QueuePart(z, 1)
    BY <1>2, <1>5 DEF QueuePart
  <1> QED
    BY <1>6 DEF z

(* A step that changes neither state_, nor the channel, nor the counts.    *)
LEMMA LifeQuiet ==
  ASSUME LifeInv, UNCHANGED <<state_, ch, ups, downs>>, QueuePart(queue', ups),
         ups = 0 => todo' = <<>> /\ \A t \in Threads : tpc'[t] = <<"idle">>,
         OneClosing(todo'), NoneClosing(todo) => NoneClosing(todo'),
         downs = 0 => todo' \in Seq(CallbackNames \ {"remove"})
  PROVE  LifeInv' /\ UNCHANGED <<state_, ups, downs>>
  <1>1. ups' = ups /\ downs' = downs /\ state_' = state_ /\ ch' = ch
    OBVIOUS
  <1>2. QueuePart(queue, ups)'
    BY <1>1
  <1>3. BeforeUp'
    BY <1>1 DEF LifeInv, BeforeUp
  <1>4. WhileUp' /\ AfterDown'
    BY <1>1 DEF LifeInv, WhileUp, AfterDown
  <1>5. StackPart'
    BY <1>1 DEF LifeInv, StackPart
  <1> QED
    BY <1>1, <1>2, <1>3, <1>4, <1>5 DEF LifeInv

(* A functor other than connectEstablished runs only after the UP, on an   *)
(* empty stack.                                                            *)
LEMMA LifeRunning ==
  ASSUME ConnInv, LifeInv, NEW op, op # "established", Running(op)
  PROVE  /\ ups = 1 /\ op # "send" /\ todo = <<>>
         /\ queue \in Seq(FunctorSet) /\ queue # <<>> /\ Tail(queue) \in Seq(FunctorSet)
         /\ QueuePart(Tail(queue), 1)
  <1>1. queue # <<>> /\ queue[1].op = op /\ 1 \in 1..Len(queue) /\ queue \in Seq(FunctorSet)
        /\ Tail(queue) \in Seq(FunctorSet)
    <2>1. Typed
      BY DEF ConnInv
    <2>2. queue # <<>> /\ queue[1].op = op /\ Len(queue) \in Nat \ {0}
          /\ Tail(queue) \in Seq(FunctorSet)
      BY <2>1, BatchTaken
    <2> QED
      BY <2>1, <2>2 DEF Typed
  <1>2. QueuePart(queue, ups) /\ ups \in {0, 1}
    BY DEF LifeInv
  <1>3. ups = 1 /\ op # "send"
    BY <1>1, <1>2 DEF QueuePart
  <1>4. todo = <<>>
    BY DEF Running
  <1> QED
    BY <1>1, <1>2, <1>3, <1>4, LifeTaken

(* No callback on an empty stack may close.                                *)
LEMMA EmptyStack ==
  /\ OneClosing(<<>>) /\ NoneClosing(<<>>)
  /\ \A S : <<>> \in Seq(S)
  /\ <<"user">> \in Seq(CallbackNames \ {"remove"})
  /\ OneClosing(<<"user">>) /\ NoneClosing(<<"user">>)
  /\ OneClosing(<<"user", "remove">>) /\ NoneClosing(<<"user", "remove">>)
  BY DEF OneClosing, NoneClosing, Closing, CallbackNames

(* The life begins when newConnection() has queued connectEstablished.     *)
LEMMA LifeInit ==
  ASSUME Init
  PROVE  LifeInv /\ Life!Init
  <1>1. queue = <<Functor("established", NoArg)>> /\ todo = <<>> /\ ups = 0 /\ downs = 0
        /\ state_ = "kConnecting" /\ ch.index = kNew
        /\ tpc = [t \in Threads |-> <<"idle">>]
    BY DEF Init, NewChannel
  <1>2. Functor("established", NoArg).op = "established"
    BY FunctorTypes DEF NoArg
  <1>3. QueuePart(queue, ups)
    BY <1>1, <1>2 DEF QueuePart
  <1>4. BeforeUp /\ WhileUp /\ AfterDown
    BY <1>1 DEF BeforeUp, WhileUp, AfterDown
  <1>5. StackPart
    BY <1>1, EmptyStack DEF StackPart
  <1> QED
    BY <1>1, <1>3, <1>4, <1>5 DEF LifeInv, Life!Init

LifeStepped == LifeInv' /\ (Life!Next \/ UNCHANGED <<state_, ups, downs>>)

(* connectEstablished(), connectDestroyed() and the other functors.        *)
LEMMA LifeFunctor ==
  ASSUME NoForeignSend, ConnInv, LifeInv, LoopFunctor
  PROVE  LifeStepped
  <1>0. Typed /\ ChannelOK(ch) /\ queue \in Seq(FunctorSet)
    BY DEF ConnInv, Typed
  <1>1. CASE connectEstablished
    <2>1. Running("established") /\ queue' = Tail(queue) /\ state_' = "kConnected"
          /\ ch' = enableReading(ch) /\ ups' = ups + 1 /\ todo' = <<"user">> /\ downs' = downs
      BY <1>1 DEF connectEstablished
    <2>2. queue # <<>> /\ queue[1].op = "established" /\ 1 \in 1..Len(queue)
      <3>1. queue # <<>> /\ queue[1].op = "established" /\ Len(queue) \in Nat \ {0}
        BY <1>0, <2>1, BatchTaken
      <3> QED
        BY <3>1
    <2>3. ups = 0
      BY <2>2 DEF LifeInv, QueuePart
    <2>4. state_ = "kConnecting" /\ downs = 0
      BY <2>3 DEF LifeInv, BeforeUp
    <2>5. ups' = 1 /\ downs' = 0
      BY <2>1, <2>3, <2>4
    <2>6. QueuePart(queue', 1)
      BY <1>0, <2>1, <2>2, LifeTaken DEF LifeInv
    <2>7. ch'.index = kAdded /\ "in" \in ch'.events
      BY <1>0, <2>1, ChannelCalls
    <2>8. BeforeUp' /\ WhileUp' /\ AfterDown'
      BY <2>1, <2>5, <2>7 DEF BeforeUp, WhileUp, AfterDown
    <2>9. StackPart'
      BY <2>1, <2>7, EmptyStack DEF StackPart
    <2>10. LifeInv'
      BY <2>5, <2>6, <2>8, <2>9 DEF LifeInv
    <2>11. Life!Up
      BY <2>1, <2>4, <2>5 DEF Life!Up
    <2> QED
      BY <2>10, <2>11 DEF LifeStepped, Life!Next
  <1>2. CASE connectDestroyed
    <2>1. Running("destroyed") /\ queue' = Tail(queue) /\ ups' = ups
      BY <1>2 DEF connectDestroyed
    <2>2. ups = 1 /\ todo = <<>> /\ QueuePart(Tail(queue), 1)
      BY <2>1, LifeRunning
    <2>3. ups' = 1 /\ QueuePart(queue', 1)
      BY <2>1, <2>2
    <2>4. CASE connected
      <3>1. state_' = "kDisconnected" /\ ch' = disableAll(ch) /\ downs' = downs + 1
            /\ todo' = <<"user", "remove">>
        BY <1>2, <2>4 DEF connectDestroyed
      <3>2. state_ = "kConnected" /\ ch.index = kAdded /\ downs = 0
        BY <2>4 DEF connected, LifeInv, WhileUp, AfterDown
      <3>3. ch'.index # kAdded /\ ch'.events = {}
        BY <1>0, <3>1, <3>2, ChannelCalls DEF kAdded, kDeleted
      <3>4. downs' = 1
        BY <3>1, <3>2
      <3>5. BeforeUp' /\ WhileUp' /\ AfterDown'
        BY <2>3, <3>1, <3>3, <3>4, EmptyStack DEF BeforeUp, WhileUp, AfterDown
      <3>6. StackPart'
        BY <3>1, <3>4, EmptyStack DEF StackPart
      <3>7. LifeInv'
        BY <2>3, <3>4, <3>5, <3>6 DEF LifeInv
      <3>8. Life!Down
        BY <2>1, <3>1, <3>2, <3>4 DEF Life!Down
      <3> QED
        BY <3>7, <3>8 DEF LifeStepped, Life!Next
    <2>5. CASE ~connected
      <3>1. UNCHANGED <<state_, downs, todo>> /\ ch' = removeChannel(ch)
        BY <1>2, <2>5 DEF connectDestroyed
      <3>2. ch'.index = kNew /\ ch'.events = ch.events /\ kNew # kAdded
        BY <1>0, <3>1, RemoveAgrees DEF kNew, kAdded
      <3>3. BeforeUp' /\ WhileUp' /\ AfterDown'
        BY <2>2, <2>3, <2>5, <3>1, <3>2 DEF connected, LifeInv, BeforeUp, WhileUp, AfterDown
      <3>4. StackPart'
        BY <2>2, <3>1, EmptyStack DEF StackPart
      <3>5. LifeInv'
        BY <2>3, <3>1, <3>3, <3>4 DEF LifeInv
      <3> QED
        BY <2>1, <3>1, <3>5 DEF LifeStepped
    <2> QED
      BY <2>4, <2>5
  <1>3. CASE RunSend
    BY <1>3, LifeRunning DEF RunSend
  <1>4. ASSUME NEW op, op # "established", Running(op), Queued(queue', Tail(queue)),
               todo' \in {<<>>, <<"user">>}, UNCHANGED <<state_, ch, ups, downs>>
        PROVE  LifeStepped
    <2>1. ups = 1 /\ todo = <<>> /\ QueuePart(Tail(queue), 1) /\ Tail(queue) \in Seq(FunctorSet)
      BY <1>4, LifeRunning
    <2>2. QueuePart(queue', 1)
      BY <1>4, <2>1, LifeQueued
    <2>3. OneClosing(todo') /\ NoneClosing(todo') /\ todo' \in Seq(CallbackNames \ {"remove"})
      BY <1>4, EmptyStack
    <2> QED
      BY <1>4, <2>1, <2>2, <2>3, LifeQuiet DEF LifeStepped
  <1>5. CASE RunShutdown
    <2>1. Running("shutdown") /\ queue' = Tail(queue) /\ todo' = todo
          /\ UNCHANGED <<state_, ch, ups, downs>>
      BY <1>5 DEF RunShutdown, connVars, serverVars
    <2>2. todo = <<>> /\ Tail(queue) \in Seq(FunctorSet)
      BY <2>1, LifeRunning
    <2> QED
      BY <1>4, <2>1, <2>2, QueuedSelf
  <1>6. CASE RunFile
    <2>1. Running("file") /\ sendFileInLoop(Head(queue).arg, Tail(queue)) /\ todo' = todo
          /\ UNCHANGED <<state_, ch, ups, downs>>
      BY <1>6 DEF RunFile, connVars, serverVars
    <2>2. todo = <<>> /\ Tail(queue) \in Seq(FunctorSet)
      BY <2>1, LifeRunning
    <2>3. PICK offset \in Nat : offset = Head(queue).arg
      <3>1. Head(queue) \in FunctorSet /\ Head(queue).op = "file"
        BY <1>0, <2>1, BatchTaken
      <3> QED
        BY <3>1 DEF FunctorSet
    <2>4. Queued(queue', Tail(queue))
      BY <2>1, <2>2, <2>3, SendFileInLoop
    <2> QED
      BY <1>4, <2>1, <2>2, <2>4
  <1>7. CASE RunUserCallback
    <2>1. PICK callback \in Callbacks : Running(callback)
      BY <1>7 DEF RunUserCallback
    <2>2. callback # "established"
      BY CallbackAssumption
    <2>3. queue' = Tail(queue) /\ todo' = <<"user">> /\ UNCHANGED <<state_, ch, ups, downs>>
      BY <1>7 DEF RunUserCallback, connVars, serverVars
    <2>4. Tail(queue) \in Seq(FunctorSet)
      BY <2>1, <2>2, LifeRunning
    <2> QED
      BY <1>4, <2>1, <2>2, <2>3, <2>4, QueuedSelf
  <1> QED
    BY <1>1, <1>2, <1>3, <1>5, <1>6, <1>7 DEF LoopFunctor

(* Inside a callback the connection is up.                                 *)
LEMMA LifeEntering ==
  ASSUME ConnInv, LifeInv, NEW cb, Entering(cb)
  PROVE  /\ ups = 1 /\ todo \in Seq(CallbackNames) /\ todo # <<>> /\ Head(todo) = cb
         /\ OneClosing(Tail(todo))
         /\ NoneClosing(todo) => NoneClosing(Tail(todo))
         /\ cb \in Closing => NoneClosing(Tail(todo)) /\ ~NoneClosing(todo)
         /\ downs = 0 => Tail(todo) \in Seq(CallbackNames \ {"remove"}) /\ cb # "remove"
         /\ OneClosing(<<"user">> \o Tail(todo))
         /\ NoneClosing(Tail(todo)) => NoneClosing(<<"user">> \o Tail(todo))
                                    /\ NoneClosing(<<"user", "closeCallback">> \o Tail(todo))
                                    /\ OneClosing(<<"user", "closeCallback">> \o Tail(todo))
         /\ downs = 0 => <<"user">> \o Tail(todo) \in Seq(CallbackNames \ {"remove"})
  <1>1. todo \in Seq(CallbackNames) /\ todo # <<>> /\ Head(todo) = cb
    BY DEF Entering, ConnInv, Typed
  <1>2. ups = 1
    BY <1>1 DEF LifeInv, BeforeUp
  <1>3. OneClosing(todo)
    BY DEF LifeInv, StackPart
  <1>4. {"user", "closeCallback"} \subseteq CallbackNames
        /\ {"user", "closeCallback"} \subseteq CallbackNames \ {"remove"}
    BY DEF CallbackNames
  <1>5. cb \in Closing => ~NoneClosing(todo)
    <2>1. Len(todo) \in Nat \ {0} /\ Head(todo) = todo[1]
      BY <1>1
    <2>2. 1 \in 1..Len(todo)
      BY <2>1
    <2> QED
      BY <1>1, <2>1, <2>2 DEF NoneClosing
  <1>6. /\ OneClosing(Tail(todo))
        /\ NoneClosing(todo) => NoneClosing(Tail(todo))
        /\ cb \in Closing => NoneClosing(Tail(todo))
        /\ OneClosing(<<"user">> \o Tail(todo))
        /\ NoneClosing(Tail(todo)) => NoneClosing(<<"user">> \o Tail(todo))
                                    /\ NoneClosing(<<"user", "closeCallback">> \o Tail(todo))
        /\ OneClosing(<<"user", "closeCallback">> \o Tail(todo))
    BY <1>1, <1>3, <1>4, Returning
  <1>7. ASSUME downs = 0
        PROVE  /\ Tail(todo) \in Seq(CallbackNames \ {"remove"}) /\ cb # "remove"
               /\ <<"user">> \o Tail(todo) \in Seq(CallbackNames \ {"remove"})
    <2>1. todo \in Seq(CallbackNames \ {"remove"})
      BY <1>7 DEF LifeInv, StackPart
    <2>2. Head(todo) \in CallbackNames \ {"remove"}
      BY <1>1, <2>1
    <2> QED
      BY <1>1, <1>4, <2>1, <2>2, Returning
  <1> QED
    BY <1>1, <1>2, <1>5, <1>6, <1>7

(* While the connection is up, writing is switched on and off without      *)
(* taking the channel out of the epoll set: it still wants to read.        *)
LEMMA LifeWriting ==
  ASSUME LifeInv, ups = 1, downs = 0, UNCHANGED <<state_, ups, downs>>,
         "in" \in ch'.events, ch' = ch \/ ch'.index = kAdded, QueuePart(queue', 1),
         OneClosing(todo'), NoneClosing(todo) => NoneClosing(todo'),
         todo' \in Seq(CallbackNames \ {"remove"})
  PROVE  LifeStepped
  <1>1. ups' = 1 /\ downs' = 0 /\ state_' = state_
    OBVIOUS
  <1>2. BeforeUp' /\ WhileUp' /\ AfterDown'
    BY <1>1 DEF LifeInv, BeforeUp, WhileUp, AfterDown
  <1>3. StackPart'
    BY <1>1 DEF LifeInv, StackPart
  <1> QED
    BY <1>1, <1>2, <1>3 DEF LifeInv, LifeStepped

(* The callbacks of the loop: handleClose() is the DOWN.                   *)
LEMMA LifeCallback ==
  ASSUME NoForeignSend, ConnInv, LifeInv, LoopCallback
  PROVE  LifeStepped
  <1>0. Typed /\ ChannelOK(ch) /\ queue \in Seq(FunctorSet) /\ QueuePart(queue, ups)
    BY DEF ConnInv, Typed, LifeInv
  <1>1. ASSUME NEW cb \in Closing, Entering(cb), handleClose, queue' = queue
        PROVE  LifeStepped
    <2>1. state_' = "kDisconnected" /\ ch' = disableAll(ch) /\ downs' = downs + 1
          /\ todo' = <<"user", "closeCallback">> \o Tail(todo) /\ ups' = ups
      BY <1>1 DEF handleClose
    <2>2. ups = 1 /\ ~NoneClosing(todo) /\ OneClosing(todo') /\ NoneClosing(todo')
      BY <1>1, <2>1, LifeEntering
    <2>3. downs = 0 /\ ch.index = kAdded
      BY <2>2 DEF LifeInv, AfterDown, StackPart
    <2>4. state_ \in {"kConnected", "kDisconnecting"}
      BY <2>2, <2>3 DEF LifeInv, WhileUp
    <2>5. ch'.index # kAdded /\ ch'.events = {}
      BY <1>0, <2>1, <2>3, ChannelCalls DEF kAdded, kDeleted
    <2>6. ups' = 1 /\ downs' = 1 /\ QueuePart(queue', ups')
      BY <1>0, <1>1, <2>1, <2>2, <2>3
    <2>7. BeforeUp' /\ WhileUp' /\ AfterDown'
      BY <2>1, <2>2, <2>5, <2>6 DEF BeforeUp, WhileUp, AfterDown
    <2>8. StackPart'
      BY <2>2, <2>6 DEF StackPart
    <2>9. LifeInv'
      BY <2>6, <2>7, <2>8 DEF LifeInv
    <2>10. Life!Down
      BY <2>1, <2>3, <2>4, <2>6 DEF Life!Down
    <2> QED
      BY <2>9, <2>10 DEF LifeStepped, Life!Next
  <1>2. CASE HandleHup
    <2>1. Entering("close") /\ handleClose /\ queue' = queue /\ "close" \in Closing
      BY <1>2 DEF HandleHup, Closing
    <2> QED
      BY <1>1, <2>1
  <1>3. CASE HandleReadEnd
    <2>1. Entering("read") /\ handleClose /\ queue' = queue /\ "read" \in Closing
      BY <1>3 DEF HandleReadEnd, Closing
    <2> QED
      BY <1>1, <2>1
  <1>4. ASSUME NEW cb, Entering(cb), todo' \in {Tail(todo), <<"user">> \o Tail(todo)},
               UNCHANGED <<state_, ch, ups, downs, queue>>
        PROVE  LifeStepped
    <2>1. ups = 1 /\ OneClosing(todo') /\ (NoneClosing(todo) => NoneClosing(todo'))
          /\ (downs = 0 => todo' \in Seq(CallbackNames \ {"remove"}))
      BY <1>4, LifeEntering
    <2>2. QueuePart(queue', ups)
      BY <1>0, <1>4
    <2> QED
      BY <1>4, <2>1, <2>2, LifeQuiet DEF LifeStepped
  <1>5. CASE HandleError
    BY <1>4, <1>5 DEF HandleError, connVars, serverVars
  <1>6. CASE HandleReadData
    BY <1>4, <1>6 DEF HandleReadData, connVars, serverVars
  <1>7. CASE HandleReadError
    BY <1>4, <1>7 DEF HandleReadError, connVars, serverVars
  <1>8. CASE UserReturn
    BY <1>4, <1>8 DEF UserReturn, connVars, serverVars
  <1>9. CASE CloseCallback
    BY <1>4, <1>9 DEF CloseCallback, connVars, serverVars
  <1>10. CASE HandleWrite
    <2>1. Entering("write") /\ todo' = Tail(todo) /\ UNCHANGED <<state_, ups, downs>>
      BY <1>10 DEF HandleWrite, serverVars
    <2>2. CASE ~isWriting(ch)
      <3>1. UNCHANGED <<ch, queue>>
        BY <1>10, <2>2 DEF HandleWrite
      <3> QED
        BY <1>4, <2>1, <3>1
    <2>3. CASE isWriting(ch)
      <3>1. PICK P : queue' = queue \o Notify("writeComplete", P)
        BY <1>10, <2>3 DEF HandleWrite
      <3>2. ch' = ch \/ ch' = disableWriting(ch)
        BY <1>10, <2>3 DEF HandleWrite, StopWriting
      <3>3. ups = 1 /\ OneClosing(todo') /\ (NoneClosing(todo) => NoneClosing(todo'))
            /\ (downs = 0 => todo' \in Seq(CallbackNames \ {"remove"}))
        BY <2>1, LifeEntering
      <3>4. downs = 0
        BY <2>3 DEF LifeInv, AfterDown, isWriting
      <3>5. "in" \in ch.events
        BY <3>3, <3>4 DEF LifeInv, WhileUp
      <3>6. "in" \in ch'.events /\ (ch' = ch \/ ch'.index = kAdded)
        BY <1>0, <3>2, <3>5, ChannelCalls
      <3>7. Queued(queue', queue)
        BY <1>0, <3>1, QueuedSelf, NotifyQueues
      <3>8. QueuePart(queue', 1)
        BY <1>0, <3>3, <3>7, LifeQueued
      <3> QED
        BY <2>1, <3>3, <3>4, <3>6, <3>8, LifeWriting
    <2> QED
      BY <2>2, <2>3
  <1>11. CASE RemoveChannel
    <2>1. Entering("remove") /\ ch' = removeChannel(ch) /\ todo' = Tail(todo)
          /\ UNCHANGED <<state_, queue, ups, downs>>
      BY <1>11 DEF RemoveChannel, serverVars
    <2>2. ups = 1 /\ downs # 0 /\ OneClosing(todo') /\ (NoneClosing(todo) => NoneClosing(todo'))
      BY <2>1, LifeEntering
    <2>3. downs = 1
      BY <2>2 DEF LifeInv
    <2>4. NoneClosing(todo)
      BY <2>3 DEF LifeInv, AfterDown
    <2>5. ch'.index = kNew /\ ch'.events = ch.events /\ kNew # kAdded
      BY <1>0, <2>1, RemoveAgrees DEF kNew, kAdded
    <2>6. BeforeUp' /\ WhileUp' /\ AfterDown'
      BY <2>1, <2>2, <2>3, <2>4, <2>5 DEF LifeInv, BeforeUp, WhileUp, AfterDown
    <2>7. StackPart'
      BY <2>1, <2>2, <2>3, <2>4 DEF StackPart
    <2>8. LifeInv'
      BY <1>0, <2>1, <2>2, <2>3, <2>6, <2>7 DEF LifeInv
    <2> QED
      BY <2>1, <2>8 DEF LifeStepped
  <1> QED
    BY <1>2, <1>3, <1>5, <1>6, <1>7, <1>8, <1>9, <1>10, <1>11 DEF LoopCallback

(* User code in the loop thread: only a kConnected, hence registered,      *)
(* connection is written to.                                               *)
LEMMA LifeInLoopUser ==
  ASSUME NoForeignSend, ConnInv, LifeInv, InLoopUser
  PROVE  LifeStepped
  <1>0. Typed /\ ChannelOK(ch) /\ queue \in Seq(FunctorSet) /\ QueuePart(queue, ups)
        /\ OneClosing(todo) /\ (downs = 0 => todo \in Seq(CallbackNames \ {"remove"}))
        /\ downs \in {0, 1}
    BY DEF ConnInv, Typed, LifeInv, StackPart
  <1>1. Entering("user") /\ state_ = "kConnected"
    BY DEF InLoopUser, Send, SendFile, Shutdown
  <1>2. ups = 1 /\ downs = 0
    BY <1>0, <1>1, LifeEntering DEF LifeInv, AfterDown
  <1>3. ASSUME NEW m \in Msgs, Send(m)
        PROVE  LifeStepped
    <2>1. sendInLoop(Message(m), queue) /\ UNCHANGED <<state_, todo, ups, downs>>
      BY <1>3 DEF Send, serverVars
    <2>2. Message(m) \in Seq(ByteSet)
      BY DataTypes
    <2>3. Queued(queue', queue) /\ (ch' = ch \/ ch' = enableWriting(ch))
      BY <1>0, <2>1, <2>2, SendInLoop
    <2>4. "in" \in ch.events
      BY <1>2 DEF LifeInv, WhileUp
    <2>5. "in" \in ch'.events /\ (ch' = ch \/ ch'.index = kAdded)
      BY <1>0, <2>3, <2>4, ChannelCalls
    <2>6. QueuePart(queue', 1)
      BY <1>0, <1>2, <2>3, LifeQueued
    <2> QED
      BY <1>0, <1>2, <2>1, <2>5, <2>6, LifeWriting
  <1>4. CASE SendFile
    <2>1. sendFileInLoop(0, queue) /\ UNCHANGED <<state_, ch, todo, ups, downs>>
      BY <1>4 DEF SendFile, connVars, serverVars
    <2>2. Queued(queue', queue)
      BY <1>0, <2>1, SendFileInLoop
    <2>3. QueuePart(queue', ups)
      BY <1>0, <2>2, LifeQueued
    <2> QED
      BY <1>0, <1>2, <2>1, <2>3, LifeQuiet DEF LifeStepped
  <1>5. CASE Shutdown
    <2>1. state_' = "kDisconnecting" /\ UNCHANGED <<ch, queue, todo, ups, downs>>
      BY <1>5 DEF Shutdown, loopVars, serverVars
    <2>2. BeforeUp' /\ WhileUp' /\ AfterDown' /\ StackPart'
      BY <1>2, <2>1 DEF LifeInv, BeforeUp, WhileUp, AfterDown, StackPart
    <2>3. LifeInv'
      BY <2>1, <2>2 DEF LifeInv
    <2>4. Life!Disconnecting
      BY <1>2, <2>1 DEF Life!Disconnecting
    <2> QED
      BY <2>3, <2>4 DEF LifeStepped, Life!Next
  <1> QED
    BY <1>3, <1>4, <1>5 DEF InLoopUser

(* The other threads: a shutdown() may overwrite state_ after the DOWN,    *)
(* and does no more harm than that.                                        *)
LEMMA LifeUserThread ==
  ASSUME NoForeignSend, ConnInv, LifeInv, NEW t \in Threads, UserThread(t)
  PROVE  LifeStepped
  <1>0. LoopTyped /\ queue \in Seq(FunctorSet) /\ QueuePart(queue, ups)
        /\ OneClosing(todo) /\ (downs = 0 => todo \in Seq(CallbackNames \ {"remove"}))
        /\ ups \in {0, 1}
    BY DEF ConnInv, Typed, LifeInv, StackPart, LoopTyped, TpcSet
  <1>1. ASSUME ups # 0, Queued(queue', queue), UNCHANGED <<state_, ch, todo, ups, downs>>
        PROVE  LifeStepped
    <2>1. QueuePart(queue', ups)
      BY <1>0, <1>1, LifeQueued
    <2> QED
      BY <1>0, <1>1, <2>1, LifeQuiet DEF LifeStepped
  <1>2. tpc[t] # <<"idle">> => ups # 0
    BY DEF LifeInv, BeforeUp
  <1>3. ASSUME NEW m \in ThreadMsgs, SendTest(t, m)
        PROVE  LifeStepped
    BY <1>0, <1>1, <1>3, QueuedSelf DEF SendTest, connVars, loopVars, serverVars
  <1>4. CASE SendQueue(t)
    <2>1. tpc[t] # <<"idle">>
      BY <1>4 DEF SendQueue
    <2>2. Queued(queue', queue)
      BY <1>0, <1>4, ThreadQueues
    <2>3. UNCHANGED <<state_, ch, todo, ups, downs>>
      BY <1>4 DEF SendQueue, connVars, serverVars
    <2> QED
      BY <1>1, <1>2, <2>1, <2>2, <2>3
  <1>5. CASE ShutdownTest(t)
    BY <1>0, <1>1, <1>5, QueuedSelf DEF ShutdownTest, connVars, loopVars, serverVars
  <1>6. CASE ShutdownSet(t)
    <2>1. tpc[t] # <<"idle">>
      BY <1>6 DEF ShutdownSet
    <2>2. ups = 1
      BY <1>0, <1>2, <2>1
    <2>3. state_' = "kDisconnecting" /\ UNCHANGED <<ch, queue, todo, ups, downs>>
      BY <1>6 DEF ShutdownSet, loopVars, serverVars
    <2>4. BeforeUp' /\ WhileUp' /\ AfterDown' /\ StackPart'
      BY <2>2, <2>3 DEF LifeInv, BeforeUp, WhileUp, AfterDown, StackPart
    <2>5. LifeInv'
      BY <2>3, <2>4 DEF LifeInv
    <2>6. Life!Disconnecting
      BY <2>2, <2>3 DEF Life!Disconnecting
    <2> QED
      BY <2>5, <2>6 DEF LifeStepped, Life!Next
  <1>7. CASE ShutdownQueue(t)
    <2>1. tpc[t] # <<"idle">>
      BY <1>7 DEF ShutdownQueue
    <2>2. Functor("shutdown", NoArg) \in FunctorSet /\ Functor("shutdown", NoArg).op = "shutdown"
      BY FunctorTypes DEF NoArg
    <2>3. Queued(queue', queue)
      BY <1>0, <1>7, <2>2, QueueOne DEF ShutdownQueue
    <2>4. UNCHANGED <<state_, ch, todo, ups, downs>>
      BY <1>7 DEF ShutdownQueue, connVars, serverVars
    <2> QED
      BY <1>1, <1>2, <2>1, <2>3, <2>4
  <1> QED
    BY <1>3, <1>4, <1>5, <1>6, <1>7 DEF UserThread

(* Every step is a step of the life the user may rely on, or none.         *)
LEMMA LifeStep ==
  ASSUME NoForeignSend, ConnInv, LifeInv, [Next]_vars
  PROVE  LifeStepped
  <1>0. queue \in Seq(FunctorSet) /\ QueuePart(queue, ups)
        /\ OneClosing(todo) /\ (downs = 0 => todo \in Seq(CallbackNames \ {"remove"}))
        /\ ups \in {0, 1} /\ downs \in {0, 1} /\ ChannelOK(ch)
    BY DEF ConnInv, Typed, LifeInv, StackPart
  <1>1. ASSUME NEW space \in BOOLEAN, Poll(space)
        PROVE  LifeStepped
    <2>1. todo' = CallbackOrder(Revents(space))
          /\ UNCHANGED <<state_, ch, ups, downs, queue, tpc>>
      BY <1>1 DEF Poll, connVars, userVars, serverVars
    <2>2. CallbackOrder(Revents(space)) \in Seq({"close", "error", "read", "write"})
          /\ OneClosing(todo') /\ (Revents(space) = {} => todo' = <<>>)
      BY <2>1, OrderOfCallbacks
    <2>3. todo' \in Seq(CallbackNames \ {"remove"})
      BY <2>1, <2>2 DEF CallbackNames
    <2>4. ch.index # kAdded => todo' = <<>>
      BY <1>0, <2>2 DEF Revents, ChannelOK, Consistent
    <2>5. CASE ch.index # kAdded
      <3>1. NoneClosing(todo') /\ todo' = <<>>
        BY <2>4, <2>5, EmptyStack
      <3>2. ups = 0 => \A t \in Threads : tpc'[t] = <<"idle">>
        BY <2>1 DEF LifeInv, BeforeUp
      <3>3. QueuePart(queue', ups)
        BY <1>0, <2>1
      <3> QED
        BY <2>1, <2>2, <2>3, <3>1, <3>2, <3>3, LifeQuiet DEF LifeStepped
    <2>6. CASE ch.index = kAdded
      <3>1. ups = 1 /\ downs = 0
        BY <1>0, <2>6 DEF LifeInv, BeforeUp, AfterDown, kNew, kAdded
      <3>2. BeforeUp' /\ WhileUp' /\ AfterDown' /\ StackPart'
        BY <2>1, <2>2, <2>3, <2>6, <3>1 DEF LifeInv, BeforeUp, WhileUp, AfterDown, StackPart
      <3>3. LifeInv'
        BY <2>1, <3>2 DEF LifeInv
      <3> QED
        BY <2>1, <3>3 DEF LifeStepped
    <2> QED
      BY <2>5, <2>6
  <1>2. ASSUME Queued(queue', queue), UNCHANGED <<state_, ch, todo, ups, downs, tpc>>
        PROVE  LifeStepped
    <2>1. QueuePart(queue', ups)
      BY <1>0, <1>2, LifeQueued
    <2>2. ups = 0 => todo' = <<>> /\ \A t \in Threads : tpc'[t] = <<"idle">>
      BY <1>2 DEF LifeInv, BeforeUp
    <2> QED
      BY <1>0, <1>2, <2>1, <2>2, LifeQuiet DEF LifeStepped
  <1>3. CASE SwapFunctors \/ EndRound \/ Peer \/ UNCHANGED vars \/ \E m \in Msgs : StringDies(m)
    <2>1. UNCHANGED <<state_, ch, todo, ups, downs, tpc, queue>>
      BY <1>3 DEF SwapFunctors, EndRound, Peer, PeerSends, PeerCloses, PeerResets, TimesOut, StringDies,
           vars, connVars, loopVars, userVars, serverVars
    <2> QED
      BY <1>0, <1>2, <2>1, QueuedSelf
  <1>4. CASE RemoveConnectionInLoop \/ ServerDestroyed
    <2>1. UNCHANGED <<state_, ch, todo, ups, downs, tpc>>
      BY <1>4 DEF RemoveConnectionInLoop, ServerDestroyed, connVars, userVars
    <2> QED
      BY <1>0, <1>2, <1>4, <2>1, ServerQueues
  <1> QED
    BY <1>1, <1>3, <1>4, LifeFunctor, LifeCallback, LifeInLoopUser, LifeUserThread
       DEF Next, LoopThread, Waiting

(* Unless other threads send messages, the connection goes up once and     *)
(* down at most once, in this order, whatever the peer, the server and the *)
(* threads that call shutdown() do.  The assumption is needed: the functor *)
(* of a send() queued across the close registers the channel again         *)
(* (TcpConnection.cc:86), and the next event calls a second DOWN.          *)
THEOREM LifeImplemented ==
  ASSUME NoForeignSend
  PROVE  Safety => LifeSpec
  <1>1. Init => ConnInv /\ LifeInv /\ Life!Init
    BY ConnInit, LifeInit
  <1>2. ConnInv /\ LifeInv /\ [Next]_vars
          => (ConnInv /\ LifeInv)' /\ [Life!Next]_(Life!vars)
    BY ConnStep, LifeStep DEF LifeStepped, Life!vars
  <1> QED
    BY <1>1, <1>2, PTL DEF Safety, LifeSpec, Life!Spec
=============================================================================
