----------------------------- MODULE TimerQueue -----------------------------
(***************************************************************************)
(* The timers of a loop (src/TimerQueue.cc, src/Timer.cc, include/Timer.h) *)
(* with their timerfd: threads and callbacks that add timers, the kernel   *)
(* that makes the timerfd readable, the loop that runs what has expired.   *)
(*                                                                         *)
(* Every time is the time left until then, in ticks of the 100 us that     *)
(* resetTimerfd() waits at the least; 0 is now or in the past.  The wall   *)
(* clock of Timestamp::now() and the monotonic clock of the timerfd        *)
(* advance together, except that the wall clock may be set once.           *)
(***************************************************************************)
EXTENDS Naturals, Sequences, FiniteSets, FiniteSetsExt

CONSTANTS
    Timers,        \* the Timer objects
    Delays,        \* how far ahead their first expiration lies
    Intervals,     \* their interval_: 0 for a timer that runs once
    Steps          \* by how much the wall clock may be set

ASSUME DelayAssumption == Delays \cup Intervals \cup Steps \subseteq Nat

VARIABLES
    timers_,       \* the timers in the set timers_
    left,          \* the time left to the expiration_ of each timer
    interval,      \* the interval_ of each timer
    pending,       \* addTimerInLoop functors queued in the loop
    timerfd,       \* ticks left to the timerfd's expiration, or Disarmed
    readable,      \* the timerfd has expired and was not read or set since
    pc,            \* where the loop is
    expired,       \* the local of handleRead, minus the timers already run
    ran,           \* the timers of expired that have run
    deleted,       \* the timers deleted after their only run
    clock          \* the wall clock: "steady", or it was set "ahead" or "back"

vars == <<timers_, left, interval, pending, timerfd, readable, pc, expired,
          ran, deleted, clock>>

Disarmed == 0

Init ==
    /\ timers_ = {}
    /\ left = [t \in Timers |-> 0]
    /\ interval = [t \in Timers |-> 0]
    /\ pending = <<>>
    /\ timerfd = Disarmed
    /\ readable = FALSE
    /\ pc = "poll"
    /\ expired = {}
    /\ ran = {}
    /\ deleted = {}
    /\ clock = "steady"

-----------------------------------------------------------------------------
(* resetTimerfd(): timerfd_settime also forgets an expiration not read.    *)

(* At least 100 us: a value of 0 would disarm the timerfd. *)
Delay(d) == IF d < 1 THEN 1 ELSE d

resetTimerfd(d) ==
    /\ timerfd' = Delay(d)
    /\ readable' = FALSE

Earliest(S) == Min({left[t] : t \in S})

MutEarliestChanged(d) == IF timers_ = {} THEN {TRUE} ELSE {FALSE}

(* The result of insert(): a timer ahead of all others.  Which of two      *)
(* expirations in the past comes first is not recorded.                    *)
EarliestChanged(d) ==
    IF timers_ = {} THEN {TRUE}
    ELSE IF d = 0 /\ Earliest(timers_) = 0 THEN BOOLEAN
    ELSE {d < Earliest(timers_)}

(* addTimerInLoop() *)
addTimerInLoop(t, d) ==
    /\ timers_' = timers_ \cup {t}
    /\ \E changed \in EarliestChanged(d) :
         IF changed THEN resetTimerfd(d) ELSE UNCHANGED <<timerfd, readable>>

-----------------------------------------------------------------------------
(* addTimer() *)

Fresh(t) == /\ t \notin timers_ \cup expired \cup ran \cup deleted
            /\ \A i \in DOMAIN pending : pending[i] # t

(* By another thread: runInLoop queues the rest. *)
AddTimer(t, d, i) ==
    /\ Fresh(t)
    /\ left' = [left EXCEPT ![t] = d]
    /\ interval' = [interval EXCEPT ![t] = i]
    /\ pending' = Append(pending, t)
    /\ UNCHANGED <<timers_, timerfd, readable, pc, expired, ran, deleted,
                   clock>>

RunPending ==
    /\ pc = "poll"
    /\ pending # <<>>
    /\ pending' = Tail(pending)
    /\ addTimerInLoop(Head(pending), left[Head(pending)])
    /\ UNCHANGED <<left, interval, pc, expired, ran, deleted, clock>>

(* By the loop itself, in a timer's callback or in that of a channel that  *)
(* the same poll reported ahead of the timerfd.                            *)
AddTimerInCallback(t, d, i) ==
    /\ pc \in {"dispatch", "callback"}
    /\ Fresh(t)
    /\ left' = [left EXCEPT ![t] = d]
    /\ interval' = [interval EXCEPT ![t] = i]
    /\ addTimerInLoop(t, d)
    /\ UNCHANGED <<pending, pc, expired, ran, deleted, clock>>

-----------------------------------------------------------------------------
(* Time. *)

Due(S) == {t \in S : left[t] = 0}

Sooner(d) == IF d = 0 THEN 0 ELSE d - 1

Tick ==
    /\ left' = [t \in Timers |-> Sooner(left[t])]
    /\ timerfd' = Sooner(timerfd)
    /\ readable' = (readable \/ timerfd = 1)
    /\ UNCHANGED <<timers_, interval, pending, pc, expired, ran, deleted,
                   clock>>

Waiting == timers_ \cup {pending[i] : i \in DOMAIN pending}

(* The wall clock jumps and the timerfd does not notice.  An expiration in *)
(* the past may have passed long ago.                                      *)
SetAhead(s) ==
    /\ clock = "steady"
    /\ clock' = "ahead"
    /\ left' = [t \in Timers |-> IF left[t] > s THEN left[t] - s ELSE 0]
    /\ UNCHANGED <<timers_, interval, pending, timerfd, readable, pc, expired,
                   ran, deleted>>

SetBack(s) ==
    /\ clock = "steady"
    /\ clock' = "back"
    /\ \E late \in [Due(Waiting) -> 0..s] :
         left' = [t \in Timers |->
                    IF t \in Due(Waiting) THEN late[t]
                    ELSE IF t \in Waiting THEN left[t] + s ELSE left[t]]
    /\ UNCHANGED <<timers_, interval, pending, timerfd, readable, pc, expired,
                   ran, deleted>>

-----------------------------------------------------------------------------
(* The loop. *)

Poll ==
    /\ pc = "poll"
    /\ readable
    /\ pc' = "dispatch"
    /\ UNCHANGED <<timers_, left, interval, pending, timerfd, readable,
                   expired, ran, deleted, clock>>

(* handleRead(): the read, which may find nothing any more, and            *)
(* getExpired() ...                                                        *)
handleRead ==
    /\ pc = "dispatch"
    /\ readable' = FALSE
    /\ expired' = Due(timers_)
    /\ timers_' = timers_ \ Due(timers_)
    /\ pc' = "run"
    /\ UNCHANGED <<left, interval, pending, timerfd, ran, deleted, clock>>

(* ... the callbacks ... *)
Run(t) ==
    /\ pc = "run"
    /\ t \in expired
    /\ expired' = expired \ {t}
    /\ ran' = ran \cup {t}
    /\ pc' = "callback"
    /\ UNCHANGED <<timers_, left, interval, pending, timerfd, readable, deleted,
                   clock>>

CallbackReturn ==
    /\ pc = "callback"
    /\ pc' = "run"
    /\ UNCHANGED <<timers_, left, interval, pending, timerfd, readable,
                   expired, ran, deleted, clock>>

repeat(t) == interval[t] > 0

Restarted(t) == IF t \in ran /\ repeat(t) THEN interval[t] ELSE left[t]

MutRearmForRepeating(S) == \E t \in ran : repeat(t)

(* The timerfd is set again after each of the expired timers, if there are *)
(* timers then; the last time counts.                                      *)
Rearms(S) == ran # {} /\ S # {}

(* ... and reset(): repeating timers start over, others are deleted.       *)
reset ==
    /\ pc = "run"
    /\ expired = {}
    /\ timers_' = timers_ \cup {t \in ran : repeat(t)}
    /\ deleted' = deleted \cup {t \in ran : ~repeat(t)}
    /\ left' = [t \in Timers |-> Restarted(t)]
    /\ IF Rearms(timers_')
       THEN resetTimerfd(Min({left'[t] : t \in timers_'}))
       ELSE UNCHANGED <<timerfd, readable>>
    /\ ran' = {}
    /\ pc' = "poll"
    /\ UNCHANGED <<interval, pending, expired, clock>>

-----------------------------------------------------------------------------
Loop ==
    \/ RunPending \/ Poll \/ handleRead \/ CallbackReturn \/ reset
    \/ \E t \in Timers : Run(t)

User ==
    \E t \in Timers, d \in Delays, i \in Intervals :
        AddTimer(t, d, i) \/ AddTimerInCallback(t, d, i)

Next == Loop \/ User \/ Tick \/ \E s \in Steps : SetAhead(s) \/ SetBack(s)

Safety == Init /\ [][Next]_vars

(* The loop runs, callbacks return, time passes; every round of the loop   *)
(* runs the pending functors.                                              *)
Spec == Safety /\ WF_vars(Loop) /\ SF_vars(RunPending) /\ WF_vars(Tick)

-----------------------------------------------------------------------------
(* Whenever the loop goes back to epoll_wait with timers in timers_, the   *)
(* timerfd has expired or is set, and to no later than the earliest of     *)
(* them (or the 100 us of resetTimerfd), whatever was added from callbacks *)
(* and other threads meanwhile.  If the wall clock was set ahead the alarm *)
(* may come late; if it was set back, there may be none (TimerQueue.cc:79).*)
TimersArmed ==
    pc = "poll" /\ timers_ # {} /\ clock # "back" =>
        \/ readable
        \/ /\ timerfd # Disarmed
           /\ clock = "steady" => timerfd <= Delay(Earliest(timers_))

(* A timer that was added runs, unless the wall clock is set back: then    *)
(* the alarm finds nothing due, and nobody sets the timerfd again.         *)
EveryTimerRuns ==
    \A t \in Timers : (t \in Waiting) ~> (t \in ran \/ clock = "back")
=============================================================================
