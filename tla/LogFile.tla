------------------------------ MODULE LogFile -------------------------------
(***************************************************************************)
(* LogFile (log/LogFile.cc) and the FileUtil it writes through             *)
(* (log/FileUtil.cc), as the backend of the logger uses them: append() and *)
(* flush() by one thread, while the wall clock goes on or is set.          *)
(*                                                                         *)
(* Time is counted in seconds.  Of the current file the model keeps its    *)
(* size, writtenBytes_, and how old the bytes are that stdio still holds.  *)
(***************************************************************************)
EXTENDS Integers, Sequences, FiniteSets

CONSTANTS
    rollsize_,
    flushInterval_,
    checkEveryN_,
    kRollPerSeconds_,   \* the seconds of a day
    BelowZero, AboveZero, \* what count_, which nothing initialises, may hold
    Lengths,            \* how long the appended data are
    MayFail,            \* fwrite may fail
    MaxTime,            \* bound: the clock shows no more than this
    MaxSize, MaxCount   \* bounds: a file this big, or a count_ or late this
                        \* high, that the clock keeps from rolling takes no more

ASSUME FileSizeAssumption == rollsize_ \in Nat /\ Lengths \subseteq Nat \ {0}
ASSUME TimeAssumption ==
    /\ {flushInterval_, MaxTime} \subseteq Nat
    /\ {checkEveryN_, kRollPerSeconds_} \subseteq Nat \ {0}
ASSUME CountAssumption ==
    /\ {BelowZero, AboveZero, MaxSize, MaxCount} \subseteq Nat
    /\ MayFail \in BOOLEAN

VARIABLES
    now,                \* time(NULL)
    count_,
    startOfPeriod_,
    lastRoll_,
    lastFlush_,
    fileSize,           \* the size of the current file, buffer included
    writtenBytes_,
    unflushed,          \* the second of the oldest bytes in stdio's buffer
    late,               \* history: appends to the file since its day ended
    below,              \* history: how far below zero count_ was at first
    setBack             \* history: the clock went back since the file is there

fileVars == <<now, count_, startOfPeriod_, lastRoll_, lastFlush_, fileSize,
              writtenBytes_, unflushed, late, below, setBack>>

Clock == 1..MaxTime
Nothing == -1
PeriodOf(t) == (t \div kRollPerSeconds_) * kRollPerSeconds_

(* The constructor's rollFile(), which leaves count_ what it is; the clock *)
(* is past the epoch.                                                      *)
FileInit ==
    /\ now = 1
    /\ count_ \in (-BelowZero)..AboveZero
    /\ startOfPeriod_ = PeriodOf(now)
    /\ lastRoll_ = now
    /\ lastFlush_ = now
    /\ fileSize = 0
    /\ writtenBytes_ = 0
    /\ unflushed = Nothing
    /\ late = 0
    /\ below = IF count_ < 0 THEN -count_ ELSE 0
    /\ setBack = FALSE

-----------------------------------------------------------------------------
(* The state of the file while appendInlock() works on it. *)
File == [count |-> count_, period |-> startOfPeriod_, roll |-> lastRoll_,
         flush |-> lastFlush_, size |-> fileSize,
         written |-> writtenBytes_, unflushed |-> unflushed, late |-> late]

FileBecomes(f) ==
    /\ count_' = f.count
    /\ startOfPeriod_' = f.period
    /\ lastRoll_' = f.roll
    /\ lastFlush_' = f.flush
    /\ fileSize' = f.size
    /\ writtenBytes_' = f.written
    /\ unflushed' = f.unflushed
    /\ late' = f.late

(* FileUtil::append: all of the data, or the part that an error of fwrite  *)
(* let through, which writtenBytes_ then leaves out.                       *)
PartWritten(f, len, t) ==
    LET Put(n, counted) ==
          [f EXCEPT !.size = @ + n,
                    !.written = @ + counted,
                    !.unflushed = IF n > 0 /\ @ = Nothing THEN t ELSE @,
                    !.late = IF PeriodOf(t) # f.period THEN @ + 1 ELSE @]
    IN  {Put(len, len)} \cup (IF MayFail THEN {Put(n, 0) : n \in 0..(len - 1)} ELSE {})

(* No two files of the same second. *)
MayRoll(f, t) == t > f.roll

(* rollFile() at the second t: a new file, and the old one is closed. *)
rollFile(f, t) ==
    IF MayRoll(f, t)
    THEN [count |-> f.count, period |-> PeriodOf(t), roll |-> t, flush |-> t,
          size |-> 0, written |-> 0, unflushed |-> Nothing, late |-> 0]
    ELSE f

MutCheckDue(f) == f.count > checkEveryN_

CheckDue(f) == f.count >= checkEveryN_

MutRolled(f, t, t2) ==
    IF ~CheckDue(f) THEN f
    ELSE LET reset == [f EXCEPT !.count = 0]
         IN  IF f.written > rollsize_ \/ PeriodOf(t) # f.period
             THEN rollFile(reset, t2) ELSE reset

(* The size is looked at on every append, the day on every so many. *)
Rolled(f, t, t2) ==
    IF f.written > rollsize_ THEN rollFile(f, t2)
    ELSE IF ~CheckDue(f) THEN f
    ELSE LET reset == [f EXCEPT !.count = 0]
         IN  IF PeriodOf(t) # f.period THEN rollFile(reset, t2) ELSE reset

MutFlushed(f, t) ==
    IF t - f.flush > flushInterval_ THEN [f EXCEPT !.flush = t] ELSE f

Flushed(f, t) ==
    IF t - f.flush > flushInterval_
    THEN [f EXCEPT !.flush = t, !.unflushed = Nothing] ELSE f

(* append(): appendInlock() reads the clock, and so does rollFile().  The  *)
(* clock may have gone on by then, or back.                                *)
AppendData(len) ==
    /\ \E t2 \in Clock, f \in PartWritten(File, len, now) :
          /\ FileBecomes(Flushed(Rolled([f EXCEPT !.count = @ + 1], now, t2), now))
          /\ now' = t2
    /\ setBack' = (now' < now \/ (setBack /\ lastRoll_' = lastRoll_))
    /\ UNCHANGED below

(* flush() leaves lastFlush_ alone. *)
Flush ==
    /\ unflushed' = Nothing
    /\ UNCHANGED <<now, count_, startOfPeriod_, lastRoll_, lastFlush_,
                   fileSize, writtenBytes_, late, below, setBack>>

(* Time passes, or somebody sets the clock. *)
Tick ==
    /\ now' \in Clock
    /\ setBack' = (setBack \/ now' < now)
    /\ UNCHANGED <<count_, startOfPeriod_, lastRoll_, lastFlush_, fileSize,
                   writtenBytes_, unflushed, late, below>>

FileNext ==
    \/ /\ fileSize <= MaxSize /\ count_ <= MaxCount /\ late <= MaxCount
       /\ \E len \in Lengths : AppendData(len)
    \/ Flush
    \/ Tick

FileSpec == FileInit /\ [][FileNext]_fileVars

-----------------------------------------------------------------------------
(* When append() returns, writtenBytes_ does not exceed rollsize_          *)
(* (LogFile.h:40), unless the clock has not gone past the second the file  *)
(* was created in, which no second file may carry in its name.             *)
(* writtenBytes_ is not all that is in the file: what a failing fwrite let *)
(* through is not counted, and may take the file itself past rollsize_.    *)
OversizeIsYoung ==
    [][\A len \in Lengths :
         AppendData(len) => writtenBytes_' <= rollsize_ \/ lastRoll_' >= now']_fileVars

(* The append that is the checkEveryN_-th after the day of the file has    *)
(* ended is the last one of it, although a roll by size and the same       *)
(* second's refusal leave count_ where it is (LogFile.h:19).  A count_     *)
(* that was below zero when the process started delays this by as many;    *)
(* and nothing is said of a file in whose time the clock was set back,     *)
(* which MayRoll holds until the clock is past its creation again.         *)
RollsAfterDay == ~setBack => late < checkEveryN_ + below

(* What LogFile.h:19 and :71 say of the count, without the allowance for   *)
(* what the constructor leaves in it: the day is looked at after           *)
(* checkEveryN_ writes.                                                    *)
ChecksEveryN == ~setBack => late < checkEveryN_

(* After an append nothing older than flushInterval_ is still in stdio's   *)
(* buffer, whatever rolls and flushes came in between: as long as the      *)
(* clock was not set back in the file's time, for then lastFlush_ is in    *)
(* the future and append() flushes nothing until the clock is past it.     *)
FlushLag ==
    [][\A len \in Lengths :
         AppendData(len) =>
             setBack' \/ unflushed' = Nothing \/ now - unflushed' <= flushInterval_]_fileVars
=============================================================================
