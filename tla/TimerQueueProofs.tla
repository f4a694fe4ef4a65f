-------------------------- MODULE TimerQueueProofs --------------------------
(***************************************************************************)
(* Proofs about TimerQueue, for any timers, delays, intervals and steps of *)
(* the wall clock.                                                         *)
(***************************************************************************)
EXTENDS TimerQueue, SeqFacts, TLAPS

TypeOK ==
    /\ timers_ \subseteq Timers
    /\ left \in [Timers -> Nat]
    /\ interval \in [Timers -> Nat]
    /\ pending \in Seq(Timers)
    /\ timerfd \in Nat
    /\ readable \in BOOLEAN
    /\ expired \subseteq Timers /\ ran \subseteq Timers

(* Expired timers are taken and given back by one dispatch of the timerfd. *)
BetweenPolls == pc \in {"poll", "dispatch"} => expired = {} /\ ran = {}

(* The alarm of timers S with times l: it has gone off, because of one of  *)
(* them, or it will, not before the first of them, and not after it        *)
(* while the wall clock is steady.                                         *)
AlarmFor(S, l, fd, fired, steady) ==
    /\ fired \/ fd # 0
    /\ fired => \E t \in S : l[t] = 0
    /\ fd # 0 => \E t \in S : l[t] <= fd
    /\ steady /\ ~fired => \A t \in S : fd <= Delay(l[t])

(* Without expired timers in hand, there is an alarm for those that wait.  *)
(* That it does not go off early matters too: handleRead() would find      *)
(* nothing expired, and reset() would not set the timerfd again.           *)
Alarm ==
    clock # "back" /\ expired = {} /\ ran = {} /\ timers_ # {} =>
        AlarmFor(timers_, left, timerfd, readable, clock = "steady")

IInv == TypeOK /\ BetweenPolls /\ Alarm

-----------------------------------------------------------------------------
(* The earliest of some timers is one of them, and none is earlier.        *)
LEMMA EarliestOf ==
  ASSUME NEW l \in [Timers -> Nat], NEW S \in SUBSET Timers, S # {}
  PROVE  LET m == Min({l[t] : t \in S})
         IN  m \in Nat /\ (\E t \in S : l[t] = m) /\ \A t \in S : m <= l[t]
  <1> DEFINE T == {l[t] : t \in S}
  <1>1. T \in SUBSET Nat /\ T # {}
    OBVIOUS
  <1>2. Min(T) \in T /\ \A y \in T : Min(T) <= y
    BY <1>1, LeastNatural
  <1> QED
    BY <1>2

(* insert() says that a timer comes first only if no other is ahead of it, *)
(* and that it does not only if another is.                                *)
LEMMA InsertResult ==
  ASSUME TypeOK, NEW d \in Nat, NEW changed \in EarliestChanged(d)
  PROVE  /\ changed \in BOOLEAN
         /\ changed => \A u \in timers_ : d <= left[u]
         /\ ~changed => \E u \in timers_ : left[u] <= d
  <1>1. CASE timers_ = {}
    BY <1>1 DEF EarliestChanged
  <1>2. CASE timers_ # {}
    <2> DEFINE m == Earliest(timers_)
    <2>1. m \in Nat /\ (\E t \in timers_ : left[t] = m)
          /\ \A t \in timers_ : left[t] \in Nat /\ m <= left[t]
      BY <1>2, EarliestOf DEF TypeOK, Earliest
    <2> HIDE DEF m
    <2>2. changed \in IF d = 0 /\ m = 0 THEN BOOLEAN ELSE {d < m}
      BY <1>2 DEF EarliestChanged, m
    <2>3. CASE d = 0 /\ m = 0
      BY <2>1, <2>2, <2>3
    <2>4. CASE ~(d = 0 /\ m = 0)
      <3>1. changed = (d < m)
        BY <2>2, <2>4
      <3>2. CASE d < m
        <4>1. changed = TRUE
          BY <3>1, <3>2, Zenon
        <4> QED
          BY <2>1, <3>2, <4>1
      <3>3. CASE ~(d < m)
        <4>1. (d < m) = FALSE
          BY <3>3
        <4>2. changed = FALSE
          BY <3>1, <4>1
        <4>3. \E u \in timers_ : left[u] <= d
          BY <2>1, <3>3
        <4> QED
          BY <4>2, <4>3
      <3> QED
        BY <3>2, <3>3
    <2> QED
      BY <2>3, <2>4
  <1> QED
    BY <1>1, <1>2

(* addTimerInLoop() keeps the alarm, whether it sets the timerfd or not.   *)
LEMMA AddKeepsAlarm ==
  ASSUME IInv, NEW t \in Timers, NEW d \in Nat, addTimerInLoop(t, d),
         left' \in [Timers -> Nat], left'[t] = d,
         \A u \in timers_ : left'[u] = left[u],
         UNCHANGED <<expired, ran, clock, pc>>,
         interval' \in [Timers -> Nat], pending' \in Seq(Timers)
  PROVE  IInv'
  <1>1. PICK changed \in EarliestChanged(d) :
           IF changed THEN resetTimerfd(d) ELSE UNCHANGED <<timerfd, readable>>
    BY DEF addTimerInLoop
  <1>2. /\ changed \in BOOLEAN
        /\ changed => \A u \in timers_ : d <= left[u]
        /\ ~changed => \E u \in timers_ : left[u] <= d
    BY InsertResult DEF IInv
  <1>3. timers_' = timers_ \cup {t}
    BY DEF addTimerInLoop
  <1>4. Delay(d) \in Nat \ {0} /\ d <= Delay(d)
    BY DEF Delay
  <1>5. TypeOK' /\ BetweenPolls'
    BY <1>1, <1>2, <1>3, <1>4 DEF IInv, TypeOK, BetweenPolls, resetTimerfd
  <1>6. Alarm'
    <2> SUFFICES ASSUME clock # "back", expired = {}, ran = {}
                 PROVE  AlarmFor(timers_', left', timerfd', readable', clock = "steady")
      BY DEF Alarm
    <2>1. CASE changed
      <3>1. timerfd' = Delay(d) /\ readable' = FALSE
        BY <1>1, <2>1 DEF resetTimerfd
      <3>2. \A u \in timers_' : left'[u] \in Nat /\ d <= left'[u]
        BY <1>2, <1>3, <2>1 DEF IInv, TypeOK
      <3>3. \A u \in timers_' : Delay(d) <= Delay(left'[u])
        BY <3>2 DEF Delay
      <3> QED
        BY <1>3, <1>4, <3>1, <3>3 DEF AlarmFor
    <2>2. CASE ~changed
      <3>1. timerfd' = timerfd /\ readable' = readable
        BY <1>1, <2>2
      <3>2. PICK u \in timers_ : left[u] <= d
        BY <1>2, <2>2
      <3>3. AlarmFor(timers_, left, timerfd, readable, clock = "steady")
        BY <3>2 DEF IInv, Alarm
      <3>4. u \in Timers /\ left[u] \in Nat /\ timerfd \in Nat
        BY DEF IInv, TypeOK
      <3>5. timerfd <= Delay(left[u]) => timerfd <= Delay(d)
        BY <3>2, <3>4 DEF Delay
      <3> QED
        BY <1>3, <3>1, <3>3, <3>5 DEF AlarmFor
    <2> QED
      BY <1>2, <2>1, <2>2
  <1> QED
    BY <1>5, <1>6 DEF IInv

(* The timerfd and the timers count down together.                         *)
LEMMA TickKeepsAlarm == ASSUME IInv, Tick PROVE IInv'
  <1>1. /\ \A t \in Timers : left'[t] = Sooner(left[t]) /\ left[t] \in Nat
        /\ timerfd' = Sooner(timerfd) /\ timerfd \in Nat
        /\ timers_ \subseteq Timers
        /\ UNCHANGED <<timers_, interval, pending, pc, expired, ran, clock>>
    BY DEF Tick, IInv, TypeOK
  <1>2. readable' \in BOOLEAN /\ (readable' <=> readable \/ timerfd = 1)
    BY Zenon DEF Tick
  <1>3. TypeOK' /\ BetweenPolls'
    BY <1>1, <1>2 DEF IInv, TypeOK, BetweenPolls, Sooner, Tick
  <1>4. Alarm'
    <2> SUFFICES ASSUME clock # "back", expired = {}, ran = {}, timers_ # {}
                 PROVE  AlarmFor(timers_, left', timerfd', readable', clock = "steady")
      BY <1>1 DEF Alarm
    <2>1. AlarmFor(timers_, left, timerfd, readable, clock = "steady")
      BY DEF IInv, Alarm
    <2>2. readable' \/ timerfd' # 0
      BY <1>1, <1>2, <2>1 DEF AlarmFor, Sooner
    <2>3. readable' => \E t \in timers_ : left'[t] = 0
      BY <1>1, <1>2, <2>1 DEF AlarmFor, Sooner
    <2>4. timerfd' # 0 => \E t \in timers_ : left'[t] <= timerfd'
      BY <1>1, <1>2, <2>1 DEF AlarmFor, Sooner
    <2>5. clock = "steady" /\ ~readable' => \A t \in timers_ : timerfd' <= Delay(left'[t])
      BY <1>1, <1>2, <2>1 DEF AlarmFor, Sooner, Delay
    <2> QED
      BY <2>2, <2>3, <2>4, <2>5 DEF AlarmFor
  <1> QED
    BY <1>3, <1>4 DEF IInv

(* handleRead() consumes an alarm only together with what it was for.      *)
LEMMA ReadKeepsAlarm == ASSUME IInv, handleRead PROVE IInv'
  <1>1. /\ timers_' = timers_ \ Due(timers_) /\ expired' = Due(timers_) /\ pc' = "run"
        /\ readable' = FALSE
        /\ UNCHANGED <<left, interval, pending, timerfd, ran, clock>>
        /\ timers_ \subseteq Timers /\ ran = {} /\ expired = {}
    BY DEF handleRead, IInv, TypeOK, BetweenPolls
  <1>2. TypeOK' /\ BetweenPolls'
    BY <1>1 DEF IInv, TypeOK, BetweenPolls, Due
  <1>3. Alarm'
    <2> SUFFICES ASSUME clock # "back", Due(timers_) = {}, timers_' # {}
                 PROVE  AlarmFor(timers_', left, timerfd, FALSE, clock = "steady")
      BY <1>1 DEF Alarm
    <2>1. timers_' = timers_ /\ \A t \in timers_ : left[t] # 0
      BY <1>1 DEF Due
    <2>2. AlarmFor(timers_, left, timerfd, readable, clock = "steady")
      BY <1>1, <2>1 DEF IInv, Alarm
    <2> QED
      BY <2>1, <2>2 DEF AlarmFor
  <1> QED
    BY <1>2, <1>3 DEF IInv

(* reset() sets the alarm for the timers there are after it.               *)
LEMMA ResetKeepsAlarm == ASSUME IInv, reset PROVE IInv'
  <1>1. /\ timers_' = timers_ \cup {t \in ran : repeat(t)} /\ pc' = "poll"
        /\ expired' = {} /\ ran' = {} /\ expired = {}
        /\ UNCHANGED <<interval, pending, clock>>
        /\ left' = [t \in Timers |-> Restarted(t)]
    BY DEF reset
  <1>2. left' \in [Timers -> Nat] /\ timers_' \in SUBSET Timers
    BY <1>1 DEF IInv, TypeOK, Restarted
  <1>3. CASE ran # {} /\ timers_' # {}
    <2>1. PICK m \in Nat : /\ m = Min({left'[t] : t \in timers_'})
                           /\ \E t \in timers_' : left'[t] = m
                           /\ \A t \in timers_' : m <= left'[t]
      BY <1>2, <1>3, EarliestOf
    <2>2. timerfd' = Delay(m) /\ readable' = FALSE
      BY <1>3, <2>1 DEF reset, Rearms, resetTimerfd
    <2>3. Delay(m) \in Nat \ {0} /\ m <= Delay(m)
      BY DEF Delay
    <2>4. \A t \in timers_' : Delay(m) <= Delay(left'[t])
      BY <1>2, <2>1 DEF Delay
    <2>5. TypeOK' /\ BetweenPolls'
      BY <1>1, <1>2, <2>2, <2>3 DEF IInv, TypeOK, BetweenPolls
    <2>6. AlarmFor(timers_', left', timerfd', readable', (clock = "steady")')
      BY <2>1, <2>2, <2>3, <2>4 DEF AlarmFor
    <2> QED
      BY <2>5, <2>6 DEF IInv, Alarm
  <1>4. CASE ~(ran # {} /\ timers_' # {})
    <2>1. UNCHANGED <<timerfd, readable>>
      BY <1>4 DEF reset, Rearms
    <2>2. TypeOK' /\ BetweenPolls'
      BY <1>1, <1>2, <2>1 DEF IInv, TypeOK, BetweenPolls
    <2>3. Alarm'
      <3>1. CASE timers_' = {}
        BY <3>1 DEF Alarm
      <3>2. CASE ran = {}
        <4>1. timers_' = timers_
          BY <1>1, <3>2
        <4>2. left' = left
          BY <1>1, <3>2 DEF IInv, TypeOK, Restarted
        <4> QED
          BY <1>1, <2>1, <3>2, <4>1, <4>2 DEF IInv, Alarm
      <3> QED
        BY <1>4, <3>1, <3>2
    <2> QED
      BY <2>2, <2>3 DEF IInv
  <1> QED
    BY <1>3, <1>4

-----------------------------------------------------------------------------
(* Whatever is added from callbacks and other threads, there is an alarm   *)
(* that is not early for all that wait, and while the wall clock is steady *)
(* not late for the first.  Once the clock was set ahead it may be late,   *)
(* and once it was set back Alarm says nothing.                            *)
THEOREM Invariant == Safety => []IInv
  <1>0. Delays \subseteq Nat /\ Intervals \subseteq Nat /\ Steps \subseteq Nat
    BY DelayAssumption
  <1>1. Init => IInv
    <2>1. <<>> \in Seq(Timers)
      OBVIOUS
    <2>2. Init => readable \in BOOLEAN
      BY Zenon DEF Init
    <2> QED
      BY <2>1, <2>2 DEF Init, IInv, TypeOK, BetweenPolls, Alarm, Disarmed
  <1>2. IInv /\ [Next]_vars => IInv'
    <2> SUFFICES ASSUME IInv, [Next]_vars
                 PROVE  IInv'
      OBVIOUS
    <2> USE <1>0
    <2>1. CASE RunPending
      <3>1. pending # <<>> /\ pending \in Seq(Timers) /\ pending' = Tail(pending)
        BY <2>1 DEF RunPending, IInv, TypeOK
      <3>2. PICK t \in Timers : t = Head(pending)
        BY <3>1, TailAt
      <3>3. pending' \in Seq(Timers)
        BY <3>1, TailAt
      <3>4. PICK d \in Nat : d = left[t]
        BY DEF IInv, TypeOK
      <3>5. left' = left /\ addTimerInLoop(t, d)
        BY <2>1, <3>2, <3>4 DEF RunPending
      <3>6. left' \in [Timers -> Nat] /\ left'[t] = d /\ \A u \in timers_ : left'[u] = left[u]
        BY <3>4, <3>5 DEF IInv, TypeOK
      <3>7. interval' \in [Timers -> Nat]
        BY <2>1 DEF RunPending, IInv, TypeOK
      <3> QED
        BY <2>1, <3>3, <3>5, <3>6, <3>7, AddKeepsAlarm DEF RunPending
    <2>2. CASE Poll
      BY <2>2 DEF Poll, IInv, TypeOK, BetweenPolls, Alarm
    <2>3. CASE handleRead
      BY <2>3, ReadKeepsAlarm
    <2>4. CASE CallbackReturn
      BY <2>4 DEF CallbackReturn, IInv, TypeOK, BetweenPolls, Alarm
    <2>5. CASE reset
      BY <2>5, ResetKeepsAlarm
    <2>6. ASSUME NEW t \in Timers, Run(t)
          PROVE  IInv'
      BY <2>6 DEF Run, IInv, TypeOK, BetweenPolls, Alarm
    <2>7. ASSUME NEW t \in Timers, NEW d \in Delays, NEW i \in Intervals, AddTimer(t, d, i)
          PROVE  IInv'
      <3>1. /\ t \notin timers_ /\ left' = [left EXCEPT ![t] = d]
            /\ UNCHANGED <<timers_, timerfd, readable, pc, expired, ran, clock>>
        BY <2>7 DEF AddTimer, Fresh
      <3>2. pending' \in Seq(Timers)
        BY <2>7, AppendAt DEF AddTimer, IInv, TypeOK
      <3>3. TypeOK' /\ BetweenPolls'
        BY <2>7, <3>1, <3>2 DEF AddTimer, IInv, TypeOK, BetweenPolls
      <3>4. \A u \in timers_ : left'[u] = left[u]
        BY <3>1 DEF IInv, TypeOK
      <3>5. Alarm'
        BY <3>1, <3>4 DEF IInv, Alarm, AlarmFor
      <3> QED
        BY <3>3, <3>5 DEF IInv
    <2>8. ASSUME NEW t \in Timers, NEW d \in Delays, NEW i \in Intervals,
                 AddTimerInCallback(t, d, i)
          PROVE  IInv'
      <3>1. /\ t \notin timers_ /\ left' = [left EXCEPT ![t] = d]
            /\ interval' = [interval EXCEPT ![t] = i] /\ addTimerInLoop(t, d)
            /\ UNCHANGED <<pending, pc, expired, ran, clock>>
        BY <2>8 DEF AddTimerInCallback, Fresh
      <3>2. left' \in [Timers -> Nat] /\ left'[t] = d /\ \A u \in timers_ : left'[u] = left[u]
        BY <3>1 DEF IInv, TypeOK
      <3>3. interval' \in [Timers -> Nat] /\ pending' \in Seq(Timers) /\ d \in Nat
        BY <3>1 DEF IInv, TypeOK
      <3> QED
        BY <3>1, <3>2, <3>3, AddKeepsAlarm
    <2>9. CASE Tick
      BY <2>9, TickKeepsAlarm
    <2>10. ASSUME NEW s \in Steps, SetAhead(s)
           PROVE  IInv'
      <3>1. /\ left' = [t \in Timers |-> IF left[t] > s THEN left[t] - s ELSE 0]
            /\ clock' = "ahead" /\ clock = "steady"
            /\ UNCHANGED <<timers_, interval, pending, timerfd, readable, pc, expired, ran>>
        BY <2>10 DEF SetAhead
      <3>2. TypeOK' /\ BetweenPolls'
        BY <3>1 DEF IInv, TypeOK, BetweenPolls
      <3>3. \A t \in timers_ : /\ left[t] \in Nat /\ left'[t] \in Nat /\ left'[t] <= left[t]
        BY <3>1 DEF IInv, TypeOK
      <3>4. Alarm'
        BY <3>1, <3>3 DEF IInv, TypeOK, Alarm, AlarmFor
      <3> QED
        BY <3>2, <3>4 DEF IInv
    <2>11. ASSUME NEW s \in Steps, SetBack(s)
           PROVE  IInv'
      <3>1. PICK late \in [Due(Waiting) -> 0..s] :
              left' = [t \in Timers |-> IF t \in Due(Waiting) THEN late[t]
                                        ELSE IF t \in Waiting THEN left[t] + s ELSE left[t]]
        BY <2>11 DEF SetBack
      <3>2. left' \in [Timers -> Nat]
        BY <3>1 DEF IInv, TypeOK
      <3> QED
        BY <2>11, <3>2 DEF SetBack, IInv, TypeOK, BetweenPolls, Alarm
    <2>12. CASE UNCHANGED vars
      BY <2>12 DEF vars, IInv, TypeOK, BetweenPolls, Alarm
    <2> QED
      BY <2>1, <2>2, <2>3, <2>4, <2>5, <2>6, <2>7, <2>8, <2>9, <2>10, <2>11, <2>12
         DEF Next, Loop, User
  <1> QED
    BY <1>1, <1>2, PTL DEF Safety

(* Whenever the loop goes back to epoll_wait with timers, the timerfd will *)
(* wake it, unless the wall clock was set back; and in time for the first  *)
(* of them as long as the clock is steady, which it is not once it was set *)
(* ahead.                                                                  *)
THEOREM AlwaysArmed == Safety => []TimersArmed
  <1>1. IInv => TimersArmed
    <2> SUFFICES ASSUME IInv, pc = "poll", timers_ # {}, clock # "back", ~readable
                 PROVE  /\ timerfd # Disarmed
                        /\ clock = "steady" => timerfd <= Delay(Earliest(timers_))
      BY DEF TimersArmed
    <2>1. AlarmFor(timers_, left, timerfd, readable, clock = "steady")
      BY DEF IInv, BetweenPolls, Alarm
    <2>2. \E t \in timers_ : left[t] = Earliest(timers_)
      BY EarliestOf DEF IInv, TypeOK, Earliest
    <2> QED
      BY <2>1, <2>2 DEF AlarmFor, Disarmed
  <1> QED
    BY <1>1, Invariant, PTL
=============================================================================
