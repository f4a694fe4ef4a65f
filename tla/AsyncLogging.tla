---------------------------- MODULE AsyncLogging ----------------------------
(***************************************************************************)
(* The double-buffered logger (log/AsyncLogging.cc, include/AsyncLogging.h)*)
(* with the FixedBuffers it hands around: the threads that append() log    *)
(* lines, the backend thread that writes them, and the owner that starts   *)
(* and stops it.                                                           *)
(*                                                                         *)
(* A line is its number in the order append() got them; which thread       *)
(* appends it does not matter, append() holds mutex_.  A vector of buffers *)
(* is the lines in it, in order, and how many buffers there are.           *)
(***************************************************************************)
EXTENDS Naturals, Sequences

CONSTANTS
    MaxLines,      \* bound: how many lines are appended in all
    LineLen,       \* their lengths
    BufferSize     \* kLargeBufferSize

ASSUME LinesAssumption == MaxLines \in Nat
ASSUME BufferAssumption == BufferSize \in Nat \ {0}

(* A line comes from a Logger, whose own buffer is far smaller. *)
ASSUME LengthAssumption == LineLen \in [1..MaxLines -> 1..(BufferSize - 1)]

VARIABLES
    running_,
    current,       \* the lines in currentBuffer_
    size,          \* and its size_
    nextBuffer_,   \* nextBuffer_ is not null
    buffers_,      \* the lines in buffers_
    numBuffers,    \* and buffers_.size()
    pc,            \* where the backend is in threadFunc()
    newbuffer1,    \* newbuffer1 is not null
    newbuffer2,    \* newbuffer2 is not null
    toWrite,       \* the lines of buffersToWrite not written yet
    numToWrite,    \* and buffersToWrite.size()
    notified,      \* the backend's wait on cond_ was notified
    owner,         \* where the owner is: start(), stop()
    output,        \* the lines given to LogFile::append
    flushed,       \* how many of them LogFile::flush has pushed out
    appended       \* history: how many lines append() has got

vars == <<running_, current, size, nextBuffer_, buffers_, numBuffers, pc,
          newbuffer1, newbuffer2, toWrite, numToWrite, notified, owner,
          output, flushed, appended>>

frontVars == <<current, size, nextBuffer_, buffers_, numBuffers, appended>>
backVars == <<pc, newbuffer1, newbuffer2, toWrite, numToWrite, output, flushed>>
ownerVars == <<running_, owner>>

Init ==
    /\ running_ = FALSE
    /\ current = <<>> /\ size = 0
    /\ nextBuffer_ = TRUE
    /\ buffers_ = <<>> /\ numBuffers = 0
    /\ pc = "unstarted"
    /\ newbuffer1 = TRUE /\ newbuffer2 = TRUE
    /\ toWrite = <<>> /\ numToWrite = 0
    /\ notified = FALSE
    /\ owner = "created"
    /\ output = <<>> /\ flushed = 0
    /\ appended = 0

MutNoNotify == UNCHANGED notified

(* cond_.notify_one(): only a thread that is waiting notices. *)
NotifyOne == notified' = IF pc = "waiting" THEN TRUE ELSE notified

-----------------------------------------------------------------------------
(* append() *)

Line == appended + 1

(* currentBuffer_->avail() > len *)
Fits(len) == BufferSize - size > len

AppendToCurrent ==
    /\ appended < MaxLines
    /\ Fits(LineLen[Line])
    /\ current' = Append(current, Line)
    /\ size' = size + LineLen[Line]
    /\ appended' = Line
    /\ UNCHANGED <<nextBuffer_, buffers_, numBuffers, notified, backVars, ownerVars>>

(* The full buffer joins buffers_; the spare, or a new one, takes over. *)
AppendRotating ==
    /\ appended < MaxLines
    /\ ~Fits(LineLen[Line])
    /\ buffers_' = buffers_ \o current
    /\ numBuffers' = numBuffers + 1
    /\ nextBuffer_' = FALSE
    /\ current' = <<Line>>
    /\ size' = LineLen[Line]
    /\ appended' = Line
    /\ NotifyOne
    /\ UNCHANGED <<backVars, ownerVars>>

-----------------------------------------------------------------------------
(* The owner. *)

Start ==
    /\ owner = "created"
    /\ owner' = "started"
    /\ running_' = TRUE
    /\ pc' = "check"
    /\ UNCHANGED <<frontVars, newbuffer1, newbuffer2, toWrite, numToWrite,
                   output, flushed, notified>>

(* stop() holds no lock between its store and its notify_one. *)
StopStore ==
    /\ owner = "started"
    /\ owner' = "stopping"
    /\ running_' = FALSE
    /\ UNCHANGED <<frontVars, backVars, notified>>

StopNotify ==
    /\ owner = "stopping"
    /\ owner' = "stopped"
    /\ NotifyOne
    /\ UNCHANGED <<frontVars, backVars, running_>>

-----------------------------------------------------------------------------
(* threadFunc() *)

BeginRound ==
    /\ pc = "check"
    /\ running_
    /\ pc' = "lock"
    /\ UNCHANGED <<frontVars, newbuffer1, newbuffer2, toWrite, numToWrite,
                   output, flushed, notified, ownerVars>>

(* The loop is left: the last flush. *)
Leave ==
    /\ pc = "check"
    /\ ~running_
    /\ flushed' = Len(output)
    /\ pc' = "exited"
    /\ UNCHANGED <<frontVars, newbuffer1, newbuffer2, toWrite, numToWrite,
                   output, notified, ownerVars>>

(* buffers_ is empty: wait_for lets go of mutex_. *)
Wait ==
    /\ pc = "lock"
    /\ numBuffers = 0
    /\ pc' = "waiting"
    /\ UNCHANGED <<frontVars, newbuffer1, newbuffer2, toWrite, numToWrite,
                   output, flushed, notified, ownerVars>>

MutSwapDropsCurrent == buffers_

SwappedOut == buffers_ \o current

(* The rest of the critical section. *)
SwapBuffers ==
    /\ toWrite' = SwappedOut
    /\ numToWrite' = numBuffers + 1
    /\ buffers_' = <<>>
    /\ numBuffers' = 0
    /\ current' = <<>>
    /\ size' = 0
    /\ newbuffer1' = FALSE
    /\ nextBuffer_' = TRUE
    /\ newbuffer2' = IF nextBuffer_ THEN newbuffer2 ELSE FALSE
    /\ notified' = FALSE
    /\ pc' = "write"
    /\ UNCHANGED <<output, flushed, appended, ownerVars>>

SwapAtOnce == pc = "lock" /\ numBuffers > 0 /\ SwapBuffers

MutWaitsForNotify == pc = "waiting" /\ notified /\ SwapBuffers

(* Notified, or three seconds later, or spuriously. *)
SwapAfterWait == pc = "waiting" /\ SwapBuffers

WriteLine ==
    /\ pc = "write"
    /\ toWrite # <<>>
    /\ output' = Append(output, Head(toWrite))
    /\ toWrite' = Tail(toWrite)
    /\ UNCHANGED <<frontVars, pc, newbuffer1, newbuffer2, numToWrite, flushed,
                   notified, ownerVars>>

MutKept(n) == IF n > 1 THEN 1 ELSE n

(* buffersToWrite.resize(2) if it is longer. *)
Kept(n) == IF n > 2 THEN 2 ELSE n

(* The spares that the swap gave away are taken from the back of what is   *)
(* kept; back() of an empty vector yields no buffer.  Then clear() and the *)
(* flush.                                                                  *)
Recycle ==
    /\ pc = "write"
    /\ toWrite = <<>>
    /\ newbuffer1' = IF Kept(numToWrite) > 0 THEN TRUE ELSE newbuffer1
    /\ newbuffer2' = IF Kept(numToWrite) > (IF newbuffer1 THEN 0 ELSE 1)
                     THEN TRUE ELSE newbuffer2
    /\ numToWrite' = 0
    /\ flushed' = Len(output)
    /\ pc' = "check"
    /\ UNCHANGED <<frontVars, toWrite, output, notified, ownerVars>>

-----------------------------------------------------------------------------
Backend ==
    \/ BeginRound \/ Leave \/ Wait \/ SwapAtOnce \/ SwapAfterWait
    \/ WriteLine \/ Recycle

(* The backend is gone; lines appended from now on stay in the buffers. *)
Finished == pc = "exited" /\ UNCHANGED vars

Next ==
    \/ AppendToCurrent \/ AppendRotating
    \/ Start \/ StopStore \/ StopNotify
    \/ Backend
    \/ Finished

Safety == Init /\ [][Next]_vars

-----------------------------------------------------------------------------
FlagsTyped ==
    /\ running_ \in BOOLEAN /\ nextBuffer_ \in BOOLEAN
    /\ newbuffer1 \in BOOLEAN /\ newbuffer2 \in BOOLEAN
    /\ notified \in BOOLEAN
    /\ pc \in {"unstarted", "check", "lock", "waiting", "write", "exited"}
    /\ owner \in {"created", "started", "stopping", "stopped"}

LinesTyped ==
    /\ current \in Seq(1..MaxLines) /\ buffers_ \in Seq(1..MaxLines)
    /\ toWrite \in Seq(1..MaxLines) /\ output \in Seq(1..MaxLines)

CountsTyped ==
    /\ size \in 0..(BufferSize - 1)
    /\ numBuffers \in Nat /\ numToWrite \in Nat /\ flushed \in Nat
    /\ appended \in 0..MaxLines

(* Every variable keeps its type; a buffer never holds more than its size. *)
TypeOK == FlagsTyped /\ LinesTyped /\ CountsTyped

(* The first n lines, in order. *)
FirstLines(n) == [i \in 1..n |-> i]

(* Between append() and LogFile no line is lost, repeated or overtaken,    *)
(* whatever rotations and swaps it goes through.                           *)
LogOrder ==
    output \o toWrite \o buffers_ \o current = FirstLines(appended)

(* When the backend swaps, both its spares are there, so currentBuffer_ is *)
(* never null for append(); and when it takes the spares back,             *)
(* buffersToWrite is long enough for back() and pop_back().                *)
SparesReady ==
    /\ pc \in {"check", "lock", "waiting"} => newbuffer1 /\ newbuffer2
    /\ pc = "write" /\ ~newbuffer2 => numToWrite >= 2

(* A full buffer is never left waiting: with something in buffers_ the     *)
(* backend does not sleep on cond_ unnotified, though neither wait has a   *)
(* predicate.                                                              *)
FullBufferNotified == pc = "waiting" /\ numBuffers > 0 => notified
=============================================================================
