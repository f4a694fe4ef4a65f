---------------------------- MODULE LoggerProofs ----------------------------
(***************************************************************************)
(* Proofs about the logging: AsyncLogging, the Logger in front of it,      *)
(* which may abort the process at any FATAL message, and the LogFile       *)
(* behind it.  They hold for any messages, any number and lengths of lines *)
(* and any size of the buffers, and for any limits and times of the file.  *)
(***************************************************************************)
EXTENDS Logger, LogFile, SeqFacts, TLAPS

(* What the backend holds outside a round, and the count of what it holds  *)
(* inside one.                                                             *)
BackendInv ==
    /\ pc # "write" => toWrite = <<>>
    /\ pc = "write" => numToWrite >= 1
    /\ owner = "created" => pc = "unstarted"
    /\ pc = "unstarted" => newbuffer1 /\ newbuffer2

(* The spare of the front is gone only after a rotation, which has put a   *)
(* buffer into buffers_.                                                   *)
SpareUsed == ~nextBuffer_ => numBuffers > 0

IInv == TypeOK /\ BackendInv /\ SpareUsed /\ SparesReady /\ FullBufferNotified

-----------------------------------------------------------------------------
(* The initial state satisfies the inductive invariant.                    *)
LEMMA InitInv == Init => IInv
  <1> SUFFICES ASSUME Init PROVE IInv
    OBVIOUS
  <1>1. LinesTyped
    BY EmptySeq DEF Init, LinesTyped
  <1>2. CountsTyped
    BY LinesAssumption, BufferAssumption DEF Init, CountsTyped
  <1>3. FlagsTyped
    BY DEF Init, FlagsTyped
  <1> QED
    BY <1>1, <1>2, <1>3 DEF Init, IInv, TypeOK, BackendInv, SpareUsed,
                            SparesReady, FullBufferNotified

(* No step of a thread that logs, of the backend or of the owner breaks    *)
(* the flags and program points.                                           *)
LEMMA NextFlags == FlagsTyped /\ [Next]_vars => FlagsTyped'
  <1> SUFFICES ASSUME FlagsTyped, [Next]_vars PROVE FlagsTyped'
    OBVIOUS
  <1> USE DEF FlagsTyped, backVars, frontVars, ownerVars
  <1>1. CASE AppendToCurrent
    BY <1>1 DEF AppendToCurrent
  <1>2. CASE AppendRotating
    BY <1>2 DEF AppendRotating, NotifyOne
  <1>3. CASE Start
    BY <1>3 DEF Start
  <1>4. CASE StopStore
    BY <1>4 DEF StopStore
  <1>5. CASE StopNotify
    BY <1>5 DEF StopNotify, NotifyOne
  <1>6. CASE BeginRound \/ Leave \/ Wait
    BY <1>6 DEF BeginRound, Leave, Wait
  <1>7. CASE SwapAtOnce \/ SwapAfterWait
    BY <1>7 DEF SwapAtOnce, SwapAfterWait, SwapBuffers
  <1>8. CASE WriteLine
    BY <1>8 DEF WriteLine
  <1>9. CASE Recycle
    BY <1>9 DEF Recycle
  <1>10. CASE UNCHANGED vars
    BY <1>10 DEF vars
  <1> QED
    BY <1>1, <1>2, <1>3, <1>4, <1>5, <1>6, <1>7, <1>8, <1>9, <1>10
    DEF Next, Backend, Finished

(* A line that append() is given is one of the lines, and its length       *)
(* leaves room in an empty buffer.                                         *)
LEMMA LineTyped ==
  ASSUME CountsTyped, appended < MaxLines
  PROVE  Line \in 1..MaxLines /\ LineLen[Line] \in 1..(BufferSize - 1)
  <1>1. Line \in 1..MaxLines
    BY LinesAssumption DEF CountsTyped, Line
  <1> QED
    BY <1>1, LengthAssumption

(* append() never fills a buffer beyond its size, and nothing but lines    *)
(* is ever in a buffer.                                                    *)
LEMMA NextLines ==
  ASSUME LinesTyped, CountsTyped, [Next]_vars
  PROVE  LinesTyped' /\ CountsTyped'
  <1> USE LinesAssumption, BufferAssumption DEF backVars, frontVars, ownerVars
  <1>1. CASE AppendToCurrent
    <2>1. Line \in 1..MaxLines /\ LineLen[Line] \in 1..(BufferSize - 1)
      BY <1>1, LineTyped DEF AppendToCurrent
    <2>2. LinesTyped'
      BY <1>1, <2>1 DEF AppendToCurrent, LinesTyped
    <2>3. CountsTyped'
      BY <1>1, <2>1 DEF AppendToCurrent, CountsTyped, Fits
    <2> QED
      BY <2>2, <2>3
  <1>2. CASE AppendRotating
    <2>1. Line \in 1..MaxLines /\ LineLen[Line] \in 1..(BufferSize - 1)
      BY <1>2, LineTyped DEF AppendRotating
    <2>2. <<Line>> \in Seq(1..MaxLines)
      BY <2>1
    <2>3. buffers_ \o current \in Seq(1..MaxLines)
      BY ConcatProperties DEF LinesTyped
    <2>4. LinesTyped'
      BY <1>2, <2>2, <2>3 DEF AppendRotating, LinesTyped
    <2>5. CountsTyped'
      BY <1>2, <2>1 DEF AppendRotating, CountsTyped
    <2> QED
      BY <2>4, <2>5
  <1>3. CASE Start \/ StopStore \/ StopNotify
    BY <1>3 DEF Start, StopStore, StopNotify, LinesTyped, CountsTyped
  <1>4. CASE BeginRound \/ Wait
    BY <1>4 DEF BeginRound, Wait, LinesTyped, CountsTyped
  <1>5. CASE Leave
    BY <1>5 DEF Leave, LinesTyped, CountsTyped
  <1>6. CASE SwapAtOnce \/ SwapAfterWait
    <2>1. SwapBuffers
      BY <1>6 DEF SwapAtOnce, SwapAfterWait
    <2>2. SwappedOut \in Seq(1..MaxLines)
      BY ConcatProperties DEF LinesTyped, SwappedOut
    <2>3. LinesTyped'
      BY <2>1, <2>2, EmptySeq DEF SwapBuffers, LinesTyped
    <2>4. CountsTyped'
      BY <2>1 DEF SwapBuffers, CountsTyped
    <2> QED
      BY <2>3, <2>4
  <1>7. CASE WriteLine
    BY <1>7 DEF WriteLine, LinesTyped, CountsTyped
  <1>8. CASE Recycle
    BY <1>8 DEF Recycle, LinesTyped, CountsTyped
  <1>9. CASE UNCHANGED vars
    BY <1>9 DEF vars, LinesTyped, CountsTyped
  <1> QED
    BY <1>1, <1>2, <1>3, <1>4, <1>5, <1>6, <1>7, <1>8, <1>9
    DEF Next, Backend, Finished

(* The spares: a swap gives newbuffer2 away only if the front had used its *)
(* own spare, and then it brings back at least two buffers.                *)
LEMMA SparesStep ==
  ASSUME IInv, [Next]_vars
  PROVE  BackendInv' /\ SpareUsed' /\ SparesReady' /\ FullBufferNotified'
  <1> USE DEF IInv, TypeOK, FlagsTyped, CountsTyped, BackendInv, SpareUsed, SparesReady,
              FullBufferNotified, backVars, frontVars, ownerVars
  <1>1. CASE AppendToCurrent
    BY <1>1 DEF AppendToCurrent
  <1>2. CASE AppendRotating
    BY <1>2 DEF AppendRotating, NotifyOne
  <1>3. CASE Start \/ StopStore
    BY <1>3 DEF Start, StopStore
  <1>9. CASE StopNotify
    BY <1>9 DEF StopNotify, NotifyOne
  <1>4. CASE BeginRound \/ Leave \/ Wait
    BY <1>4 DEF BeginRound, Leave, Wait
  <1>5. CASE SwapAtOnce \/ SwapAfterWait
    <2>1. SwapBuffers /\ newbuffer2 /\ owner # "created"
      BY <1>5 DEF SwapAtOnce, SwapAfterWait
    <2>2. BackendInv' /\ FullBufferNotified'
      BY <2>1 DEF SwapBuffers
    <2>3. SpareUsed'
      BY <2>1 DEF SwapBuffers
    <2>4. CASE nextBuffer_
      BY <2>1, <2>2, <2>3, <2>4 DEF SwapBuffers
    <2>5. CASE ~nextBuffer_
      BY <2>1, <2>2, <2>3, <2>5 DEF SwapBuffers
    <2> QED
      BY <2>4, <2>5
  <1>6. CASE WriteLine
    BY <1>6 DEF WriteLine
  <1>7. CASE Recycle
    <2>1. newbuffer1' /\ newbuffer2'
      BY <1>7 DEF Recycle, Kept
    <2> QED
      BY <1>7, <2>1 DEF Recycle
  <1>8. CASE UNCHANGED vars
    BY <1>8 DEF vars
  <1> QED
    BY <1>1, <1>2, <1>3, <1>4, <1>5, <1>6, <1>7, <1>8, <1>9 DEF Next, Backend, Finished

(* The inductive invariant holds throughout.                               *)
THEOREM InvHolds == Safety => []IInv
  <1>1. IInv /\ [Next]_vars => IInv'
    BY NextFlags, NextLines, SparesStep DEF IInv, TypeOK
  <1> QED
    BY <1>1, InitInv, PTL DEF Safety

-----------------------------------------------------------------------------
(* One line more.                                                          *)
LEMMA NextLine ==
  ASSUME NEW n \in 0..MaxLines, n < MaxLines
  PROVE  Append(FirstLines(n), n + 1) = FirstLines(n + 1)
  <1> DEFINE l == Append(FirstLines(n), n + 1)
             r == FirstLines(n + 1)
  <1>1. FirstLines(n) \in Seq(Nat) /\ Len(FirstLines(n)) = n
    BY LinesAssumption DEF FirstLines
  <1>2. r \in Seq(Nat) /\ Len(r) = n + 1
    BY LinesAssumption DEF FirstLines
  <1>3. l \in Seq(Nat) /\ Len(l) = n + 1
    BY <1>1, AppendProperties, LinesAssumption
  <1>4. ASSUME NEW i \in 1..(n + 1) PROVE l[i] = r[i]
    <2>1. CASE i <= n
      <3>1. i \in 1..n /\ i \in 1..(n + 1)
        BY <2>1, LinesAssumption
      <3>2. l[i] = FirstLines(n)[i]
        BY <1>1, <3>1, LinesAssumption, AppendProperties
      <3> QED
        BY <3>1, <3>2 DEF FirstLines
    <2>2. CASE i = n + 1
      <3>1. l[i] = n + 1
        BY <1>1, <2>2, LinesAssumption, AppendProperties
      <3> QED
        BY <3>1, <2>2 DEF FirstLines
    <2>3. i <= n \/ i = n + 1
      BY LinesAssumption
    <2> QED
      BY <2>1, <2>2, <2>3
  <1> HIDE DEF l, r
  <1> QED
    BY <1>2, <1>3, <1>4, SeqEqual DEF l, r

(* Every step keeps the lines in order: append() adds one at the end, a    *)
(* rotation and a swap only move the boundaries between the buffers.       *)
LEMMA OrderStep ==
  ASSUME LinesTyped, CountsTyped, BackendInv, LogOrder, [Next]_vars
  PROVE  LogOrder'
  <1> DEFINE L == 1..MaxLines
             front == output \o toWrite \o buffers_
  <1> USE DEF backVars, frontVars, ownerVars
  <1>0. /\ output \o toWrite \in Seq(L) /\ front \in Seq(L)
        /\ current \in Seq(L) /\ buffers_ \in Seq(L)
        /\ output \in Seq(L) /\ toWrite \in Seq(L)
    BY ConcatProperties DEF LinesTyped
  <1>10. output \o toWrite \o (buffers_ \o current) = front \o current
    <2> DEFINE before == output \o toWrite
    <2>1. before \in Seq(L) /\ buffers_ \in Seq(L) /\ current \in Seq(L)
      BY <1>0
    <2> HIDE DEF before, L, front
    <2>2. (before \o buffers_) \o current = before \o (buffers_ \o current)
      BY ONLY <2>1, ConcatAssociative
    <2> QED
      BY <2>2 DEF before, front
  <1>1. CASE AppendToCurrent
    <2>1. Line \in L
      BY <1>1, LineTyped DEF AppendToCurrent
    <2>2. front \o Append(current, Line) = Append(front \o current, Line)
      BY <1>0, <2>1, ConcatAppend
    <2>3. Append(FirstLines(appended), Line) = FirstLines(Line)
      BY <1>1, NextLine DEF AppendToCurrent, CountsTyped, Line
    <2> QED
      BY <1>1, <2>2, <2>3 DEF AppendToCurrent, LogOrder
  <1>2. CASE AppendRotating
    <2>1. Line \in L
      BY <1>2, LineTyped DEF AppendRotating
    <2>3. front \o current \in Seq(L)
      BY <1>0, ConcatProperties
    <2>4. (front \o current) \o <<Line>> = Append(front \o current, Line)
      BY <2>1, <2>3
    <2>5. Append(FirstLines(appended), Line) = FirstLines(Line)
      BY <1>2, NextLine DEF AppendRotating, CountsTyped, Line
    <2> QED
      BY <1>2, <1>10, <2>4, <2>5 DEF AppendRotating, LogOrder
  <1>3. CASE SwapAtOnce \/ SwapAfterWait
    <2>1. SwapBuffers /\ toWrite = <<>>
      BY <1>3 DEF SwapAtOnce, SwapAfterWait, BackendInv
    <2>2. output \o toWrite = output
      BY <1>0, <2>1, ConcatEmptySeq
    <2>3. output \o (buffers_ \o current) = front \o current
      BY <1>10, <2>2
    <2>4. front \o current \in Seq(L)
      BY <1>0, ConcatProperties
    <2>5. (front \o current) \o <<>> \o <<>> = front \o current
      BY <2>4, ConcatEmptySeq
    <2> QED
      BY <2>1, <2>3, <2>5 DEF SwapBuffers, SwappedOut, LogOrder
  <1>4. CASE WriteLine
    <2>1. Append(output, Head(toWrite)) \o Tail(toWrite) = output \o toWrite
      BY <1>0, <1>4, ShiftHead DEF WriteLine
    <2> QED
      BY <1>4, <2>1 DEF WriteLine, LogOrder
  <1>5. CASE Start \/ StopStore \/ StopNotify
    BY <1>5 DEF Start, StopStore, StopNotify, LogOrder
  <1>6. CASE BeginRound \/ Leave \/ Wait
    BY <1>6 DEF BeginRound, Leave, Wait, LogOrder
  <1>7. CASE Recycle
    BY <1>7 DEF Recycle, LogOrder
  <1>8. CASE UNCHANGED vars
    BY <1>8 DEF vars, LogOrder
  <1> QED
    BY <1>1, <1>2, <1>3, <1>4, <1>5, <1>6, <1>7, <1>8 DEF Next, Backend, Finished

(* The lines stay in order throughout.                                     *)
THEOREM OrderHolds == Safety => []LogOrder
  <1>1. Init => LogOrder
    BY EmptySeq DEF Init, LogOrder, FirstLines
  <1>2. IInv /\ LogOrder /\ [Next]_vars => LogOrder'
    BY OrderStep DEF IInv, TypeOK
  <1> QED
    BY <1>1, <1>2, InvHolds, PTL DEF Safety

-----------------------------------------------------------------------------
(* The Logger. *)

(* A Logger, FATAL messages and abort() included, uses the AsyncLogging as *)
(* it is meant to be used: every step is one of AsyncLogging or leaves it  *)
(* alone.                                                                  *)
THEOREM LoggerImplementsAsync == LoggerSpec => Safety
  <1>1. LoggerInit => Init
    BY DEF LoggerInit
  <1>2. [LoggerNext]_loggerVars => [Next]_vars
    BY DEF LoggerNext, loggerVars, Log, Abort, Next
  <1> QED
    BY <1>1, <1>2, PTL DEF LoggerSpec, LoggerSafety, Safety

(* The buffers of the logger never run out under its feet: append() always *)
(* has a current buffer, and pop_back() is never called on an empty vector *)
(* (AsyncLogging.cc:86-97).                                                *)
THEOREM SparesAlwaysReady == LoggerSpec => []SparesReady
  BY LoggerImplementsAsync, InvHolds, PTL DEF IInv

(* The backend never sleeps unnotified on a full buffer, although neither  *)
(* wait_for nor notify_one looks at a predicate.                           *)
THEOREM FullBufferAlwaysNotified == LoggerSpec => []FullBufferNotified
  BY LoggerImplementsAsync, InvHolds, PTL DEF IInv

(* No line is lost, repeated or overtaken between append() and LogFile,    *)
(* for any lengths of the lines and any size of the buffers.               *)
THEOREM LinesInOrder == LoggerSpec => []LogOrder
  BY LoggerImplementsAsync, OrderHolds, PTL

-----------------------------------------------------------------------------
(* LogFile: what is always true of it between two calls.                   *)

FileStates ==
    [count : Int, period : Int, roll : Nat, flush : Nat, size : Nat,
     written : Nat, unflushed : Nat \cup {Nothing}, late : Nat]

(* Whatever the clock does: count_ is never further below zero than it was *)
(* at first.                                                               *)
Counted(f) == f \in FileStates /\ f.count >= -below

(* A file in whose time the clock was never set back, at the second t: its *)
(* times are past, and nothing that stdio still holds is older than its    *)
(* last flush.                                                             *)
InOrder(f, t) ==
    /\ Counted(f)
    /\ f.period = PeriodOf(f.roll)
    /\ f.roll <= t
    /\ f.flush <= t
    /\ f.unflushed # Nothing => f.flush <= f.unflushed

(* Late appends are counted by count_ as well, and the day of the file is  *)
(* over once there was one.                                                *)
LateCounted(f, t) ==
    /\ f.late <= f.count + below
    /\ f.late > 0 => PeriodOf(t) # f.period

(* Between two calls count_ has not come as far as checkEveryN_ then.      *)
FileInv ==
    /\ now \in Nat /\ below \in Nat /\ setBack \in BOOLEAN
    /\ Counted(File)
    /\ ~setBack =>
          /\ InOrder(File, now)
          /\ LateCounted(File, now)
          /\ late > 0 => count_ < checkEveryN_

(* What the constants are.                                                 *)
LEMMA FileConstants ==
  /\ rollsize_ \in Nat /\ \A len \in Lengths : len \in Nat /\ len > 0
  /\ flushInterval_ \in Nat /\ MaxTime \in Nat
  /\ checkEveryN_ \in Nat /\ checkEveryN_ > 0
  /\ kRollPerSeconds_ \in Nat /\ kRollPerSeconds_ > 0
  /\ BelowZero \in Nat /\ AboveZero \in Nat
  BY FileSizeAssumption, TimeAssumption, CountAssumption

(* The days that seconds belong to are in the order of the seconds.        *)
LEMMA PeriodMonotone ==
  ASSUME NEW a \in Nat, NEW b \in Nat, a <= b
  PROVE  PeriodOf(a) \in Nat /\ PeriodOf(a) <= PeriodOf(b)
  <1>1. \A x \in Nat : /\ x \div kRollPerSeconds_ \in Nat
    BY FileConstants
  <1>2. a \div kRollPerSeconds_ <= b \div kRollPerSeconds_
    BY FileConstants
  <1> QED
    BY <1>1, <1>2, FileConstants DEF PeriodOf

(* Later in the day, or on a later one, a late append is still late.       *)
LEMMA StaysLate ==
  ASSUME NEW f, NEW t \in Nat, NEW t2 \in Nat, t <= t2, InOrder(f, t), LateCounted(f, t)
  PROVE  InOrder(f, t2) /\ LateCounted(f, t2)
  <1>1. f.roll \in Nat /\ f.flush \in Nat /\ f.late \in Nat
    BY DEF InOrder, Counted, FileStates
  <1>2. PeriodOf(f.roll) <= PeriodOf(t) /\ PeriodOf(t) <= PeriodOf(t2)
        /\ PeriodOf(f.roll) \in Nat /\ PeriodOf(t) \in Nat /\ PeriodOf(t2) \in Nat
    BY <1>1, PeriodMonotone DEF InOrder
  <1> QED
    BY <1>1, <1>2 DEF InOrder, LateCounted

(* What FileUtil::append and the count_ + 1 behind it change.              *)
LEMMA WrittenFields ==
  ASSUME NEW f \in FileStates, NEW t \in Nat, NEW len \in Lengths,
         NEW w \in PartWritten(f, len, t)
  PROVE  LET g == [w EXCEPT !.count = @ + 1]
         IN  /\ g \in FileStates
             /\ g.period = f.period /\ g.roll = f.roll /\ g.flush = f.flush
             /\ g.count = f.count + 1
             /\ g.unflushed = f.unflushed \/ g.unflushed = t
             /\ g.late = IF PeriodOf(t) # f.period THEN f.late + 1 ELSE f.late
  <1>0. len \in Nat
    BY FileConstants
  <1> DEFINE Put(n, counted) ==
               [f EXCEPT !.size = @ + n,
                         !.written = @ + counted,
                         !.unflushed = IF n > 0 /\ @ = Nothing THEN t ELSE @,
                         !.late = IF PeriodOf(t) # f.period THEN @ + 1 ELSE @]
             g == [w EXCEPT !.count = @ + 1]
             Changed ==
               /\ g \in FileStates
               /\ g.period = f.period /\ g.roll = f.roll /\ g.flush = f.flush
               /\ g.count = f.count + 1
               /\ g.unflushed = f.unflushed \/ g.unflushed = t
               /\ g.late = IF PeriodOf(t) # f.period THEN f.late + 1 ELSE f.late
  <1>1. w = Put(len, len) \/ \E n \in 0..(len - 1) : w = Put(n, 0)
    BY Zenon DEF PartWritten
  <1>2. ASSUME NEW n \in Nat, NEW counted \in Nat, w = Put(n, counted)
        PROVE  Changed
    <2>1. PICK u \in Nat \cup {Nothing} :
            /\ u = IF n > 0 /\ f.unflushed = Nothing THEN t ELSE f.unflushed
            /\ u = f.unflushed \/ u = t
      BY DEF FileStates
    <2>2. PICK l \in Nat : l = IF PeriodOf(t) # f.period THEN f.late + 1 ELSE f.late
      BY DEF FileStates
    <2>3. PICK z \in Nat, v \in Nat : z = f.size + n /\ v = f.written + counted
      BY DEF FileStates
    <2>4. w = [f EXCEPT !.size = z, !.written = v, !.unflushed = u, !.late = l]
      BY <1>2, <2>1, <2>2, <2>3
    <2>5. w \in FileStates
      BY <2>1, <2>2, <2>3, <2>4 DEF FileStates
    <2>6. /\ w.period = f.period /\ w.roll = f.roll /\ w.flush = f.flush
          /\ w.count = f.count /\ w.unflushed = u /\ w.late = l
      BY <2>4 DEF FileStates
    <2>7. g \in FileStates
      BY <2>5 DEF FileStates
    <2>8. /\ g.period = w.period /\ g.roll = w.roll /\ g.flush = w.flush
          /\ g.count = w.count + 1 /\ g.unflushed = w.unflushed /\ g.late = w.late
      BY <2>5 DEF FileStates
    <2> QED
      BY <2>1, <2>2, <2>6, <2>7, <2>8
  <1> HIDE DEF Changed, Put
  <1>3. ASSUME w = Put(len, len) PROVE Changed
    BY <1>0, <1>2, <1>3, Zenon
  <1>4. ASSUME \E n \in 0..(len - 1) : w = Put(n, 0) PROVE Changed
    <2>1. PICK n \in 0..(len - 1) : w = Put(n, 0)
      BY <1>4, Zenon
    <2>2. n \in Nat /\ 0 \in Nat
      BY <1>0
    <2> QED
      BY <1>2, <2>1, <2>2, Zenon
  <1>5. Changed
    BY <1>1, <1>3, <1>4, Zenon
  <1> QED
    BY <1>5 DEF Changed

(* A late append is counted twice, in late and in count_.                  *)
LEMMA WrittenState ==
  ASSUME below \in Nat, NEW f, NEW t \in Nat, NEW len \in Lengths, Counted(f),
         NEW w \in PartWritten(f, len, t)
  PROVE  LET g == [w EXCEPT !.count = @ + 1]
         IN  /\ Counted(g)
             /\ g.roll = f.roll
             /\ InOrder(f, t) /\ LateCounted(f, t) => InOrder(g, t) /\ LateCounted(g, t)
  <1> DEFINE g == [w EXCEPT !.count = @ + 1]
  <1>1. /\ f \in FileStates
        /\ g \in FileStates
        /\ g.period = f.period /\ g.roll = f.roll /\ g.flush = f.flush
        /\ g.count = f.count + 1
        /\ g.unflushed = f.unflushed \/ g.unflushed = t
        /\ g.late = IF PeriodOf(t) # f.period THEN f.late + 1 ELSE f.late
    BY WrittenFields DEF Counted
  <1> HIDE DEF g
  <1>2. f.late \in Nat /\ f.count \in Int /\ f.flush \in Nat /\ f.count >= -below
    BY DEF Counted, FileStates
  <1>3. Counted(g)
    BY <1>1, <1>2 DEF Counted
  <1>4. InOrder(f, t) => InOrder(g, t)
    BY <1>1, <1>2, <1>3 DEF InOrder
  <1>5. LateCounted(f, t) => LateCounted(g, t)
    BY <1>1, <1>2 DEF LateCounted
  <1> QED
    BY <1>1, <1>3, <1>4, <1>5 DEF g

(* A new file is empty, and dated by the second of its creation: in order, *)
(* and it has no late append.                                              *)
LEMMA NewFile ==
  ASSUME below \in Nat, NEW f, Counted(f), NEW t \in Nat, MayRoll(f, t)
  PROVE  LET r == rollFile(f, t)
         IN  /\ InOrder(r, t) /\ LateCounted(r, t)
             /\ r.late = 0 /\ r.written = 0 /\ r.roll = t /\ r.count = f.count
  <1> DEFINE r == rollFile(f, t)
  <1>1. PICK p \in Int : p = PeriodOf(t)
    BY PeriodMonotone
  <1>2. r = [count |-> f.count, period |-> p, roll |-> t, flush |-> t,
             size |-> 0, written |-> 0, unflushed |-> Nothing, late |-> 0]
    BY <1>1 DEF rollFile
  <1>3. f.count \in Int /\ f.count >= -below
    BY DEF Counted, FileStates
  <1>4. /\ r \in FileStates
        /\ r.flush = t /\ r.roll = t /\ r.period = PeriodOf(t)
        /\ r.written = 0 /\ r.unflushed = Nothing /\ r.late = 0 /\ r.count = f.count
    BY <1>1, <1>2, <1>3 DEF FileStates
  <1> HIDE DEF r
  <1>5. InOrder(r, t) /\ LateCounted(r, t)
    BY <1>3, <1>4 DEF InOrder, LateCounted, Counted
  <1> QED
    BY <1>4, <1>5 DEF r

(* The count starts again at 0, and nothing else changes.                  *)
LEMMA CountReset ==
  ASSUME below \in Nat, NEW f, Counted(f)
  PROVE  LET g == [f EXCEPT !.count = 0]
         IN  /\ Counted(g) /\ g.count = 0
             /\ g.period = f.period /\ g.roll = f.roll /\ g.flush = f.flush
             /\ g.unflushed = f.unflushed /\ g.late = f.late /\ g.written = f.written
  <1>1. f \in FileStates /\ 0 >= -below
    BY DEF Counted
  <1> QED
    BY <1>1 DEF Counted, FileStates

(* The file that appendInlock() goes on with is the one it was, or a new   *)
(* one; and it is too big only if the clock forbids a new one.             *)
LEMMA RolledAnyClock ==
  ASSUME below \in Nat, NEW f, Counted(f), NEW t \in Nat, NEW t2 \in Nat
  PROVE  LET r == Rolled(f, t, t2)
         IN  /\ Counted(r)
             /\ r.written <= rollsize_ \/ r.roll >= t2
             /\ r.roll # f.roll => InOrder(r, t2) /\ LateCounted(r, t2) /\ r.late = 0
  <1>0. /\ f.written \in Nat /\ f.roll \in Nat /\ rollsize_ \in Nat
    BY FileConstants DEF Counted, FileStates
  <1>1. CASE f.written > rollsize_
    <2>1. Rolled(f, t, t2) = rollFile(f, t2)
      BY <1>1 DEF Rolled
    <2>2. CASE MayRoll(f, t2)
      BY <1>0, <2>1, <2>2, NewFile DEF InOrder
    <2>3. CASE ~MayRoll(f, t2)
      <3>1. rollFile(f, t2) = f /\ f.roll >= t2
        BY <1>0, <2>3 DEF rollFile, MayRoll
      <3> QED
        BY <2>1, <3>1
    <2> QED
      BY <2>2, <2>3
  <1>2. CASE ~(f.written > rollsize_) /\ ~CheckDue(f)
    <2>1. Rolled(f, t, t2) = f
      BY <1>2 DEF Rolled
    <2> QED
      BY <1>0, <1>2, <2>1
  <1>3. CASE ~(f.written > rollsize_) /\ CheckDue(f)
    <2> DEFINE g == [f EXCEPT !.count = 0]
    <2>1. /\ Counted(g) /\ g.roll = f.roll /\ g.written = f.written
      BY CountReset
    <2>2. Rolled(f, t, t2) = IF PeriodOf(t) # f.period THEN rollFile(g, t2) ELSE g
      BY <1>3 DEF Rolled
    <2> HIDE DEF g
    <2>3. CASE PeriodOf(t) # f.period /\ MayRoll(g, t2)
      BY <1>0, <2>1, <2>2, <2>3, NewFile DEF InOrder
    <2>4. CASE ~(PeriodOf(t) # f.period /\ MayRoll(g, t2))
      <3>1. Rolled(f, t, t2) = g
        BY <2>2, <2>4 DEF rollFile
      <3> QED
        BY <1>0, <1>3, <2>1, <3>1
    <2> QED
      BY <2>3, <2>4
  <1> QED
    BY <1>1, <1>2, <1>3

(* With a clock that only went on, a file whose day is over is rolled when *)
(* the counter has come to checkEveryN_.                                   *)
LEMMA RolledState ==
  ASSUME below \in Nat, NEW f, NEW t \in Nat, NEW t2 \in Nat, t <= t2,
         InOrder(f, t), LateCounted(f, t)
  PROVE  LET r == Rolled(f, t, t2)
         IN  /\ InOrder(r, t2) /\ LateCounted(r, t2)
             /\ r.late > 0 => r.count < checkEveryN_
  <1>0. /\ Counted(f)
        /\ f.roll \in Nat /\ f.count \in Int /\ f.late \in Nat
        /\ checkEveryN_ \in Nat /\ f.roll <= t
    BY FileConstants DEF InOrder, Counted, FileStates
  <1>1. CASE Rolled(f, t, t2).roll # f.roll
    <2>1. PICK r : r = Rolled(f, t, t2)
      OBVIOUS
    <2>2. InOrder(r, t2) /\ LateCounted(r, t2) /\ r.late = 0
      BY <1>0, <1>1, <2>1, RolledAnyClock
    <2> QED
      BY <2>1, <2>2
  <1>2. CASE Rolled(f, t, t2).roll = f.roll
    <2>1. CASE f.written > rollsize_
      <3>1. Rolled(f, t, t2) = rollFile(f, t2)
        BY <2>1 DEF Rolled
      <3>2. ~MayRoll(f, t2)
        <4>1. SUFFICES ASSUME MayRoll(f, t2) PROVE FALSE
          OBVIOUS
        <4>2. Rolled(f, t, t2).roll = t2
          BY <1>0, <3>1, <4>1, NewFile
        <4> QED
          BY <1>0, <1>2, <4>1, <4>2 DEF MayRoll
      <3>3. Rolled(f, t, t2) = f
        BY <3>1, <3>2 DEF rollFile
      <3>4. f.roll = t
        BY <1>0, <3>2 DEF MayRoll
      <3>5. f.late = 0
        BY <1>0, <3>4 DEF InOrder, LateCounted
      <3> QED
        BY <3>3, <3>5, StaysLate
    <2>2. CASE ~(f.written > rollsize_) /\ ~CheckDue(f)
      <3>1. Rolled(f, t, t2) = f
        BY <2>2 DEF Rolled
      <3>2. f.count < checkEveryN_
        BY <1>0, <2>2 DEF CheckDue
      <3> QED
        BY <3>1, <3>2, StaysLate
    <2>3. CASE ~(f.written > rollsize_) /\ CheckDue(f)
      <3> DEFINE g == [f EXCEPT !.count = 0]
      <3>1. /\ Counted(g) /\ g.count = 0
            /\ g.period = f.period /\ g.roll = f.roll /\ g.flush = f.flush
            /\ g.unflushed = f.unflushed /\ g.late = f.late /\ g.written = f.written
        BY <1>0, CountReset
      <3>2. Rolled(f, t, t2) = IF PeriodOf(t) # f.period THEN rollFile(g, t2) ELSE g
        BY <2>3 DEF Rolled
      <3> HIDE DEF g
      <3>3. PeriodOf(t) = f.period
        <4>1. SUFFICES ASSUME PeriodOf(t) # f.period PROVE FALSE
          OBVIOUS
        <4>2. ~MayRoll(g, t2)
          <5>1. SUFFICES ASSUME MayRoll(g, t2) PROVE FALSE
            OBVIOUS
          <5>2. Rolled(f, t, t2).roll = t2
            BY <3>1, <3>2, <4>1, <5>1, NewFile
          <5> QED
            BY <1>0, <1>2, <3>1, <5>1, <5>2 DEF MayRoll
        <4>3. f.roll = t
          BY <1>0, <3>1, <4>2 DEF MayRoll
        <4> QED
          BY <4>1, <4>3 DEF InOrder
      <3>4. f.late = 0
        BY <1>0, <3>3 DEF LateCounted
      <3>5. InOrder(g, t)
        BY <3>1 DEF InOrder
      <3>6. LateCounted(g, t)
        BY <3>1, <3>4 DEF LateCounted
      <3>7. InOrder(g, t2) /\ LateCounted(g, t2)
        BY <3>5, <3>6, StaysLate
      <3> QED
        BY <3>1, <3>2, <3>3, <3>4, <3>7
    <2> QED
      BY <2>1, <2>2, <2>3
  <1> QED
    BY <1>1, <1>2

(* What is not flushed at the second t is no older than flushInterval_, if *)
(* the last flush is not in the future.                                    *)
LEMMA FlushedState ==
  ASSUME NEW f, NEW t \in Nat, NEW t2 \in Nat, Counted(f)
  PROVE  LET z == Flushed(f, t)
         IN  /\ Counted(z)
             /\ z.count = f.count /\ z.late = f.late /\ z.period = f.period
             /\ z.written = f.written /\ z.roll = f.roll
             /\ t <= t2 /\ InOrder(f, t2) =>
                  /\ InOrder(z, t2)
                  /\ z.unflushed = Nothing \/ t - z.unflushed <= flushInterval_
  <1>0. f \in FileStates /\ f.flush \in Nat /\ flushInterval_ \in Nat
        /\ f.unflushed \in Nat \cup {Nothing}
    BY FileConstants DEF Counted, FileStates
  <1>1. CASE t - f.flush > flushInterval_
    <2> DEFINE z == Flushed(f, t)
    <2>1. /\ z \in FileStates /\ z.flush = t /\ z.unflushed = Nothing
          /\ z.count = f.count /\ z.late = f.late /\ z.period = f.period
          /\ z.written = f.written /\ z.roll = f.roll
      BY <1>0, <1>1 DEF Flushed, FileStates
    <2> HIDE DEF z
    <2>2. Counted(z)
      BY <2>1 DEF Counted
    <2>3. t <= t2 /\ InOrder(f, t2) => InOrder(z, t2)
      BY <2>1, <2>2 DEF InOrder
    <2> QED
      BY <2>1, <2>2, <2>3 DEF z
  <1>2. CASE ~(t - f.flush > flushInterval_)
    <2>1. Flushed(f, t) = f
      BY <1>2 DEF Flushed
    <2>2. InOrder(f, t2) /\ f.unflushed # Nothing => t - f.unflushed <= flushInterval_
      BY <1>0, <1>2 DEF InOrder, Nothing
    <2> QED
      BY <2>1, <2>2
  <1> QED
    BY <1>1, <1>2

(* append() leaves a file too big only while the clock is not past its     *)
(* creation, and nothing unflushed that is older than the interval in one  *)
(* in whose time the clock was not set back.                               *)
LEMMA AppendState ==
  ASSUME FileInv, NEW len \in Lengths, AppendData(len)
  PROVE  /\ FileInv'
         /\ writtenBytes_' <= rollsize_ \/ lastRoll_' >= now'
         /\ setBack' \/ unflushed' = Nothing \/ now - unflushed' <= flushInterval_
  <1>1. PICK t2 \in Clock, w \in PartWritten(File, len, now) :
          /\ FileBecomes(Flushed(Rolled([w EXCEPT !.count = @ + 1], now, t2), now))
          /\ now' = t2
    BY Zenon DEF AppendData
  <1>2. /\ now \in Nat /\ t2 \in Nat /\ below \in Nat /\ below' = below
        /\ setBack' = (t2 < now \/ (setBack /\ lastRoll_' = lastRoll_))
        /\ Counted(File) /\ File.roll = lastRoll_
    BY <1>1, FileConstants DEF FileInv, AppendData, Clock, File
  <1> DEFINE g == [w EXCEPT !.count = @ + 1]
             r == Rolled(g, now, t2)
             z == Flushed(r, now)
  <1>3. /\ Counted(g) /\ g.roll = lastRoll_
        /\ ~setBack => InOrder(g, now) /\ LateCounted(g, now)
    BY <1>2, WrittenState, Zenon DEF FileInv
  <1> HIDE DEF g
  <1>4. /\ Counted(r)
        /\ r.written <= rollsize_ \/ r.roll >= t2
        /\ r.roll # g.roll => InOrder(r, t2) /\ LateCounted(r, t2) /\ r.late = 0
    BY <1>2, <1>3, RolledAnyClock
  <1>5. now <= t2 /\ ~setBack =>
          /\ InOrder(r, t2) /\ LateCounted(r, t2)
          /\ r.late > 0 => r.count < checkEveryN_
    BY <1>2, <1>3, RolledState
  <1> HIDE DEF r
  <1>6. /\ Counted(z)
        /\ z.count = r.count /\ z.late = r.late /\ z.period = r.period
        /\ z.written = r.written /\ z.roll = r.roll
        /\ now <= t2 /\ InOrder(r, t2) =>
             /\ InOrder(z, t2)
             /\ z.unflushed = Nothing \/ now - z.unflushed <= flushInterval_
    BY <1>2, <1>4, FlushedState
  <1>7. FileBecomes(z)
    BY <1>1 DEF g, r
  <1> HIDE DEF z
  <1>8. File' = [count |-> z.count, period |-> z.period, roll |-> z.roll,
                 flush |-> z.flush, size |-> z.size, written |-> z.written,
                 unflushed |-> z.unflushed, late |-> z.late]
    BY <1>7 DEF FileBecomes, File
  <1>9. File' = z
    BY <1>6, <1>8 DEF Counted, FileStates
  <1>10. /\ lastRoll_' = z.roll /\ writtenBytes_' = z.written
         /\ unflushed' = z.unflushed /\ late' = z.late /\ count_' = z.count
    BY <1>7 DEF FileBecomes
  <1>11. ~setBack' => now <= t2 /\ (~setBack \/ r.roll # g.roll)
    <2>1. SUFFICES ASSUME ~setBack'
                   PROVE  now <= t2 /\ (~setBack \/ r.roll # g.roll)
      OBVIOUS
    <2>2. ~(t2 < now) /\ ~(setBack /\ lastRoll_' = lastRoll_)
      BY <1>2, <2>1, Zenon
    <2>3. now <= t2
      BY <1>2, <2>2
    <2>4. lastRoll_' = lastRoll_ <=> r.roll = g.roll
      BY <1>3, <1>6, <1>10
    <2> QED
      BY <2>2, <2>3, <2>4, Zenon
  <1>12. ~setBack' =>
           /\ now <= t2
           /\ InOrder(r, t2) /\ LateCounted(r, t2)
           /\ r.late > 0 => r.count < checkEveryN_
    BY <1>4, <1>5, <1>11
  <1>13. LateCounted(r, t2) => LateCounted(z, t2)
    BY <1>6 DEF LateCounted
  <1>14. Counted(File)'
    BY <1>2, <1>6, <1>9 DEF Counted
  <1>15. ~setBack' =>
           /\ InOrder(File, now)' /\ LateCounted(File, now)'
           /\ late' > 0 => count_' < checkEveryN_
    <2>1. SUFFICES ASSUME ~setBack'
                   PROVE  /\ InOrder(File, now)' /\ LateCounted(File, now)'
                          /\ late' > 0 => count_' < checkEveryN_
      OBVIOUS
    <2>2. InOrder(z, t2) /\ LateCounted(z, t2)
      BY <1>6, <1>12, <1>13, <2>1
    <2>3. InOrder(File, now)'
      BY <1>1, <1>9, <1>14, <2>2 DEF InOrder
    <2>4. LateCounted(File, now)'
      BY <1>1, <1>2, <1>9, <2>2 DEF LateCounted
    <2> QED
      BY <1>6, <1>10, <1>12, <2>1, <2>3, <2>4
  <1>16. now' \in Nat /\ below' \in Nat /\ setBack' \in BOOLEAN
    BY <1>1, <1>2
  <1>17. FileInv'
    BY <1>14, <1>15, <1>16 DEF FileInv
  <1>18. writtenBytes_' <= rollsize_ \/ lastRoll_' >= now'
    BY <1>1, <1>4, <1>6, <1>10
  <1>19. setBack' \/ unflushed' = Nothing \/ now - unflushed' <= flushInterval_
    BY <1>6, <1>10, <1>12
  <1> QED
    BY <1>17, <1>18, <1>19

(* A new file is in order.                                                 *)
LEMMA FileInitInv == FileInit => FileInv
  <1> SUFFICES ASSUME FileInit PROVE FileInv
    OBVIOUS
  <1>1. PeriodOf(1) \in Nat
    BY PeriodMonotone
  <1>2. count_ \in Int /\ below \in Nat /\ count_ >= -below
    BY FileConstants DEF FileInit
  <1>3. File = [count |-> count_, period |-> PeriodOf(1), roll |-> 1, flush |-> 1,
                size |-> 0, written |-> 0, unflushed |-> Nothing, late |-> 0]
    BY DEF FileInit, File
  <1>4. Counted(File)
    BY <1>1, <1>2, <1>3 DEF Counted, FileStates
  <1>5. InOrder(File, 1) /\ LateCounted(File, 1)
    BY <1>2, <1>3, <1>4 DEF InOrder, LateCounted
  <1>6. now = 1 /\ late = 0 /\ setBack \in BOOLEAN
    BY DEF FileInit
  <1>7. InOrder(File, now) /\ LateCounted(File, now)
    BY <1>5, <1>6
  <1>8. now \in Nat /\ (late > 0 => count_ < checkEveryN_)
    BY <1>6
  <1> QED
    BY <1>2, <1>4, <1>6, <1>7, <1>8, Zenon DEF FileInv

(* flush() empties stdio's buffer and leaves everything else.              *)
LEMMA FlushKeeps == FileInv /\ Flush => FileInv'
  <1> SUFFICES ASSUME FileInv, Flush PROVE FileInv'
    OBVIOUS
  <1>1. /\ File \in FileStates
        /\ File' = [File EXCEPT !.unflushed = Nothing]
    BY DEF Flush, FileInv, Counted, File
  <1>2. /\ Nothing \in Nat \cup {Nothing}
    OBVIOUS
  <1>3. /\ File' \in FileStates /\ File'.count = File.count /\ File'.period = File.period
        /\ File'.roll = File.roll /\ File'.flush = File.flush
        /\ File'.late = File.late /\ File'.unflushed = Nothing
    BY <1>1, <1>2 DEF FileStates
  <1>4. /\ now' = now /\ below' = below /\ setBack' = setBack
        /\ late' = late /\ count_' = count_
    BY DEF Flush
  <1>5. Counted(File)'
    BY <1>3, <1>4 DEF FileInv, Counted
  <1>6. InOrder(File, now) => InOrder(File, now)'
    BY <1>3, <1>4, <1>5 DEF InOrder
  <1>7. LateCounted(File, now) => LateCounted(File, now)'
    BY <1>3, <1>4 DEF LateCounted
  <1> QED
    BY <1>4, <1>5, <1>6, <1>7 DEF FileInv

(* append(), flush() and any clock keep the invariant.                     *)
LEMMA FileStepInv == FileInv /\ [FileNext]_fileVars => FileInv'
  <1> SUFFICES ASSUME FileInv, [FileNext]_fileVars PROVE FileInv'
    OBVIOUS
  <1>1. ASSUME NEW len \in Lengths, AppendData(len) PROVE FileInv'
    BY <1>1, AppendState
  <1>2. CASE Flush
    BY <1>2, FlushKeeps
  <1>3. CASE Tick
    <2>1. /\ File' = File /\ now \in Nat /\ now' \in Nat
          /\ below \in Nat /\ below' = below /\ setBack \in BOOLEAN
          /\ setBack' = (setBack \/ now' < now) /\ late' = late /\ count_' = count_
      BY <1>3, FileConstants DEF Tick, Clock, File, FileInv
    <2>2. Counted(File)'
      BY <2>1 DEF FileInv, Counted
    <2>3. ~setBack' => ~setBack /\ now <= now'
      <3>1. SUFFICES ASSUME ~setBack' PROVE ~setBack /\ now <= now'
        OBVIOUS
      <3>2. ~setBack /\ ~(now' < now)
        BY <2>1, <3>1, Zenon
      <3> QED
        BY <2>1, <3>2
    <2>4. ~setBack' => InOrder(File, now') /\ LateCounted(File, now')
      BY <2>1, <2>3, StaysLate DEF FileInv
    <2>5. ~setBack' => InOrder(File, now)' /\ LateCounted(File, now)'
      BY <2>1, <2>2, <2>4 DEF InOrder, LateCounted
    <2>6. ~setBack' => (late' > 0 => count_' < checkEveryN_)
      BY <2>1, <2>3 DEF FileInv
    <2>7. setBack' \in BOOLEAN
      BY <2>1
    <2> QED
      BY <2>1, <2>2, <2>5, <2>6, <2>7 DEF FileInv
  <1>4. CASE UNCHANGED fileVars
    <2>1. /\ File' = File /\ now' = now /\ late' = late /\ count_' = count_
          /\ below' = below /\ setBack' = setBack
      BY <1>4 DEF File, fileVars
    <2> QED
      BY <2>1 DEF FileInv, Counted, InOrder, LateCounted
  <1> QED
    BY <1>1, <1>2, <1>3, <1>4 DEF FileNext

(* In every reachable state, whatever the clock is set to, the invariant   *)
(* of the file holds.                                                      *)
THEOREM FileInvariance == FileSpec => []FileInv
  BY FileInitInv, FileStepInv, PTL DEF FileSpec

(* The checkEveryN_-th append after its day is the last one of a file in   *)
(* whose time the clock was not set back, and an uninitialised count_      *)
(* delays that by no more than it is below zero.                           *)
THEOREM RollsAfterDayHolds == FileSpec => []RollsAfterDay
  <1>1. FileInv => RollsAfterDay
    <2> SUFFICES ASSUME FileInv, ~setBack PROVE late < checkEveryN_ + below
      BY DEF RollsAfterDay
    <2>1. late \in Nat /\ count_ \in Int /\ below \in Nat
      BY DEF FileInv, Counted, FileStates, File
    <2>2. late <= count_ + below
      BY DEF FileInv, LateCounted, File
    <2> QED
      BY <2>1, <2>2, FileConstants DEF FileInv
  <1> QED
    BY <1>1, FileInvariance, PTL

(* An append leaves no writtenBytes_ above rollsize_, unless the clock is  *)
(* not past the second of the file; it may be set to anything.             *)
THEOREM OversizeIsYoungHolds == FileSpec => OversizeIsYoung
  <1>1. FileInv /\ [FileNext]_fileVars =>
          [\A len \in Lengths :
             AppendData(len) => writtenBytes_' <= rollsize_ \/ lastRoll_' >= now']_fileVars
    BY AppendState
  <1> QED
    BY <1>1, FileInvariance, PTL DEF FileSpec, OversizeIsYoung

(* After an append stdio holds nothing older than flushInterval_, unless   *)
(* the clock was set back in the time of the file.                         *)
THEOREM FlushLagHolds == FileSpec => FlushLag
  <1>1. FileInv /\ [FileNext]_fileVars =>
          [\A len \in Lengths :
             AppendData(len) =>
               setBack' \/ unflushed' = Nothing \/ now - unflushed' <= flushInterval_]_fileVars
    BY AppendState
  <1> QED
    BY <1>1, FileInvariance, PTL DEF FileSpec, FlushLag
=============================================================================
