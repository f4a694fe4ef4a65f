------------------------------- MODULE Logger -------------------------------
(***************************************************************************)
(* Logger and LogStream (src/Logger.cc, log/LogStream.cc) in front of      *)
(* AsyncLogging, as main.cc connects them: LOG_xxx << ... << ...; puts the *)
(* pieces of a line into a FixedBuffer, and the destructor of the Logger   *)
(* appends the line to the AsyncLogging and, at FATAL, aborts.             *)
(*                                                                         *)
(* A piece is <<"text", len>>, which stands for everything but integers,   *)
(* or <<"num", n>>.  In the buffer a text keeps its length, and a number   *)
(* is the characters it was turned into.                                   *)
(***************************************************************************)
EXTENDS AsyncLogging, Integers, SequencesExt

CONSTANTS
    kSmallBufferSize,
    kMaxNumberSize,
    Messages        \* what is logged: level, pieces, filename and line of the
                    \* source; a filename is the lengths of its path's parts

ASSUME MessagesAssumption == Len(Messages) = MaxLines

VARIABLE fatal      \* ~Logger of a FATAL message: "none", "flushing", "aborted"

loggerVars == <<vars, fatal>>

LoggerInit == Init /\ fatal = "none"

-----------------------------------------------------------------------------
(* FixedBuffer *)

EmptyBuffer == [data |-> <<>>, size |-> 0]

avail(b) == kSmallBufferSize - b.size

add(b, piece, len) == [data |-> Append(b.data, piece), size |-> b.size + len]

append(b, len) == IF avail(b) > len THEN add(b, <<"text", len>>, len) ELSE b

-----------------------------------------------------------------------------
(* LogStream::formatInteger().  % and / of C round towards zero, and the   *)
(* table of digits goes from -9 to 9.                                      *)

Minus == 10     \* the character after the digits
Abs(n) == IF n < 0 THEN -n ELSE n

MutDigit(n) == n % 10

Digit(n) == Abs(n) % 10

Tenth(n) == IF n < 0 THEN -((-n) \div 10) ELSE n \div 10

(* The do-while loop: the digits from the last to the first. *)
Digits[n \in Int] ==
    <<Digit(n)>> \o (IF Tenth(n) = 0 THEN <<>> ELSE Digits[Tenth(n)])

formatInteger(b, n) ==
    LET chars == Reverse(Digits[n] \o (IF n < 0 THEN <<Minus>> ELSE <<>>))
    IN  IF avail(b) >= kMaxNumberSize THEN add(b, <<"num", chars>>, Len(chars))
                                      ELSE b

Insert(b, piece) ==
    IF piece[1] = "num" THEN formatInteger(b, piece[2]) ELSE append(b, piece[2])

-----------------------------------------------------------------------------
(* Logger *)

(* SourceFile: what is behind the last slash. *)
basename(filename) == Last(filename)

(* Impl(): 17 characters of the time, the microseconds, the level. *)
Prefix == <<<<"text", 17>>, <<"text", 7>>, <<"text", 6>>>>

(* finish(): " - ", the file, ':', the line, '\n'. *)
Suffix(m) == <<<<"text", 3>>, <<"text", basename(m.filename)>>, <<"text", 1>>,
               <<"num", m.line>>, <<"text", 1>>>>

Text(m) == FoldLeft(Insert, EmptyBuffer, Prefix \o m.pieces \o Suffix(m))

Texts == [i \in 1..MaxLines |-> Text(Messages[i])]

(* ~Logger(), up to g_output: main has set it to asyncLog(). *)
Log ==
    /\ AppendToCurrent \/ AppendRotating
    /\ fatal' = IF Messages[Line].level = "FATAL" /\ fatal = "none"
                THEN "flushing" ELSE fatal

(* The rest of it: g_flush() is still the one that flushes stdout, and     *)
(* abort() takes what the AsyncLogging holds with it.                      *)
Abort ==
    /\ fatal = "flushing"
    /\ fatal' = "aborted"
    /\ UNCHANGED vars

-----------------------------------------------------------------------------
LoggerNext ==
    \/ /\ fatal # "aborted"
       /\ \/ Log
          \/ Abort
          \/ (Start \/ StopStore \/ StopNotify \/ Backend) /\ UNCHANGED fatal
    \/ (fatal = "aborted" \/ pc = "exited") /\ UNCHANGED loggerVars

LoggerSafety == LoggerInit /\ [][LoggerNext]_loggerVars

(* The backend is scheduled, its wait ends by timeout if by nothing else,  *)
(* and a thread in ~Logger goes on.                                        *)
LoggerSpec ==
    /\ LoggerSafety
    /\ WF_loggerVars(fatal # "aborted" /\ Backend /\ UNCHANGED fatal)
    /\ WF_loggerVars(Abort)

-----------------------------------------------------------------------------
(* The number that a sequence of characters shows. *)
Shown(chars) ==
    LET negative == Head(chars) = Minus
        digits == IF negative THEN Tail(chars) ELSE chars
        value == FoldLeft(LAMBDA v, d : 10 * v + d, 0, digits)
    IN  IF negative THEN -value ELSE value

(* s is t without some of its elements. *)
IsSubsequence(s, t) ==
    LET step(k, x) == IF k < Len(s) /\ s[k + 1] = x THEN k + 1 ELSE k
    IN  FoldLeft(step, 0, t) = Len(s)

(* How many characters a piece is. *)
Width(piece) == IF piece[1] = "num" THEN Len(ToString(piece[2])) ELSE piece[2]

(* All of the pieces are in the buffer with room for a number to spare. *)
FitsEasily(pieces) ==
    FoldLeft(LAMBDA sum, p : sum + Width(p), 0, pieces) + kMaxNumberSize
        <= kSmallBufferSize

(* A line that leaves kMaxNumberSize bytes of its buffer free reaches the  *)
(* AsyncLogging whole: all that was logged, in its order, numbers shown as *)
(* they are, zero and the most negative one too.  From a longer line       *)
(* pieces are missing, but what is there is in order and as it was logged, *)
(* and never fills the buffer.  Which ones are missing is not said: a      *)
(* piece that just fits is dropped as well, although there is "enough      *)
(* available space" for it (FixedBuffer.h:22), and so is a number for      *)
(* which fewer than kMaxNumberSize bytes are left.                         *)
LineText ==
    \A i \in 1..appended :
        LET m == Messages[i]
            logged == Prefix \o m.pieces \o Suffix(m)
            text == Texts[i]
            read == [j \in 1..Len(text.data) |->
                       LET p == text.data[j]
                       IN  IF p[1] = "num" THEN <<"num", Shown(p[2])>> ELSE p]
        IN  /\ FitsEasily(logged) => read = logged
            /\ IsSubsequence(read, logged)
            /\ text.size < kSmallBufferSize

(* A line appended while the logger runs reaches LogFile and is flushed,   *)
(* unless the logger is stopped or a FATAL message aborts the process.     *)
EveryLineFlushed ==
    \A i \in 1..MaxLines :
        (appended >= i /\ pc # "unstarted")
            ~> (flushed >= i \/ ~running_ \/ fatal # "none")

(* stop() ends the backend.                                                *)
StopEnds == (owner = "stopping") ~> (pc = "exited" \/ fatal # "none")
=============================================================================
