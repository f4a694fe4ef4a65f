-------------------------- MODULE EventLoopProofs ---------------------------
(***************************************************************************)
(* Proofs about EventLoop and EventLoopThread, for any number of threads,  *)
(* functors and channels, any capacity of the eventfd counter and any      *)
(* first size of events_.                                                  *)
(***************************************************************************)
EXTENDS EventLoopThread, SeqFacts, TLAPS

(* callingPendingFunctors_ is true exactly inside doPendingFunctors, and   *)
(* its batch of functors exists only there.                                *)
CallingMatches ==
    /\ callingPendingFunctors_ <=> pc \in {"swap", "run", "functor"}
    /\ pc \notin {"run", "functor"} => functors = <<>>

(* Where the loop thread will reach epoll_wait without a swap on the way,  *)
(* a pending functor has its wakeup, unless the loop's own thread may have *)
(* queued it ahead of loop().                                              *)
PendingCovered ==
    /\ ~EarlyUse
    /\ pc \in {"created", "check", "poll", "run", "functor"}
    /\ pendingFunctors_ # <<>>
    => WakeupUnderWay

QuitCovered == pc = "poll" /\ quit_ => WakeupUnderWay

IInv == TypeOK /\ CallingMatches /\ PendingCovered /\ QuitCovered

-----------------------------------------------------------------------------
(* The initial state has its types: nothing queued, nobody calling. *)
LEMMA InitType == Init => TypeOK
  <1> SUFFICES ASSUME Init PROVE TypeOK
    OBVIOUS
  <1>1. wakeups \in 0..MaxWakeups
    BY CounterAssumption DEF Init
  <1>2. tpc \in [Threads -> {"idle", "wakeup"}]
    BY DEF Init
  <1>3. /\ pendingFunctors_ \in Seq(Functors) /\ functors \in Seq(Functors)
        /\ queued \in Seq(Functors) /\ executed \in Seq(Functors)
    BY DEF Init
  <1> QED
    BY <1>1, <1>2, <1>3, SizeAssumption DEF Init, TypeOK, LoopPoints

(* A bumped eventfd counter is in range and not zero: wakeup() at the      *)
(* limit fails with EAGAIN, on a descriptor that is readable anyway.       *)
LEMMA BumpedPositive ==
  ASSUME NEW n \in 0..MaxWakeups
  PROVE  Bumped(n) \in 0..MaxWakeups /\ Bumped(n) > 0
  BY CounterAssumption DEF Bumped

(* No step of the loop thread, of user code or of another thread breaks    *)
(* the types.                                                              *)
LEMMA NextType == TypeOK /\ [Next]_vars => TypeOK'
  <1> SUFFICES ASSUME TypeOK, [Next]_vars PROVE TypeOK'
    OBVIOUS
  <1> USE DEF TypeOK, LoopPoints
  <1>1. CASE EnterLoop
    BY <1>1 DEF EnterLoop
  <1>2. CASE BeginRound
    BY <1>2 DEF BeginRound
  <1>3. CASE LeaveLoop
    BY <1>3 DEF LeaveLoop
  <1>4. CASE PollReturn
    <2>1. PICK io \in SUBSET Channels : \E batch \in SUBSET Ready(io) :
             /\ batch # {}
             /\ activeChannels_' = batch
             /\ eventsSize' = GrownEvents(eventsSize, Cardinality(batch))
      BY <1>4 DEF PollReturn
    <2>2. activeChannels_' \in SUBSET (Channels \cup {WakeupChannel})
      BY <2>1 DEF Ready
    <2>3. eventsSize' \in Nat \ {0}
      BY <2>1 DEF GrownEvents
    <2> QED
      BY <1>4, <2>2, <2>3 DEF PollReturn
  <1>5. CASE PollEmpty
    BY <1>5 DEF PollEmpty
  <1>6. CASE handleRead
    BY <1>6, CounterAssumption DEF handleRead
  <1>7. CASE \E c \in Channels : HandleEvent(c)
    BY <1>7 DEF HandleEvent
  <1>8. CASE CallbackReturn
    BY <1>8 DEF CallbackReturn
  <1>9. CASE BeginPending
    BY <1>9 DEF BeginPending
  <1>10. CASE SwapFunctors
    BY <1>10 DEF SwapFunctors
  <1>11. CASE RunFunctor
    BY <1>11 DEF RunFunctor
  <1>12. CASE FunctorReturn
    BY <1>12 DEF FunctorReturn
  <1>13. CASE EndPending
    BY <1>13 DEF EndPending
  <1>14. CASE \E f \in Functors : SelfQueueInLoop(f)
    <2>1. PICK f \in Functors : SelfQueueInLoop(f)
      BY <1>14
    <2>2. wakeups' \in 0..MaxWakeups
      BY <2>1, BumpedPositive DEF SelfQueueInLoop, wakeup
    <2> QED
      BY <2>1, <2>2 DEF SelfQueueInLoop
  <1>15. CASE SelfQuit
    BY <1>15 DEF SelfQuit
  <1>16. CASE \E t \in Threads, f \in Functors : QueueInLoop(t, f)
    BY <1>16 DEF QueueInLoop
  <1>17. CASE \E t \in Threads : Quit(t)
    BY <1>17 DEF Quit
  <1>18. CASE \E t \in Threads : Wakeup(t)
    BY <1>18, BumpedPositive DEF Wakeup, wakeup
  <1>19. CASE UNCHANGED vars
    BY <1>19 DEF vars
  <1> QED
    BY <1>1, <1>2, <1>3, <1>4, <1>5, <1>6, <1>7, <1>8, <1>9, <1>10, <1>11,
       <1>12, <1>13, <1>14, <1>15, <1>16, <1>17, <1>18, <1>19
    DEF Next, LoopThread, Poll, UserCode, Foreign

(* Every variable of the loop keeps its type in every behaviour.           *)
THEOREM TypeCorrect == Safety => []TypeOK
  BY InitType, NextType, PTL DEF Safety

-----------------------------------------------------------------------------
(* The initial state satisfies the inductive invariant: nothing is pending *)
(* and quit_ is false.                                                     *)
LEMMA InitInv == Init => IInv
  BY InitType DEF Init, IInv, CallingMatches, PendingCovered, QuitCovered

(* doPendingFunctors sets and clears its flag, and fills and empties its   *)
(* batch, only at its own ends.                                            *)
LEMMA CallingStep == IInv /\ [Next]_vars => CallingMatches'
  <1> SUFFICES ASSUME IInv, [Next]_vars PROVE CallingMatches'
    OBVIOUS
  <1> USE DEF IInv, TypeOK, CallingMatches
  <1>1. CASE EnterLoop \/ BeginRound \/ LeaveLoop
    BY <1>1 DEF EnterLoop, BeginRound, LeaveLoop
  <1>2. CASE Poll
    BY <1>2 DEF Poll, PollReturn, PollEmpty
  <1>3. CASE handleRead \/ CallbackReturn \/ \E c \in Channels : HandleEvent(c)
    BY <1>3 DEF handleRead, CallbackReturn, HandleEvent
  <1>4. CASE BeginPending \/ SwapFunctors \/ EndPending
    BY <1>4 DEF BeginPending, SwapFunctors, EndPending
  <1>5. CASE RunFunctor \/ FunctorReturn
    BY <1>5 DEF RunFunctor, FunctorReturn
  <1>6. CASE UserCode
    BY <1>6 DEF UserCode, SelfQuit, SelfQueueInLoop
  <1>7. CASE \E t \in Threads : Foreign(t)
    BY <1>7 DEF Foreign, QueueInLoop, Quit, Wakeup
  <1>8. CASE UNCHANGED vars
    BY <1>8 DEF vars
  <1> QED
    BY <1>1, <1>2, <1>3, <1>4, <1>5, <1>6, <1>7, <1>8 DEF Next, LoopThread

(* No step leaves a pending functor or a quit request uncovered at a point *)
(* from which the loop thread reaches epoll_wait: the eventfd is drained   *)
(* only ahead of a swap, and every push and every quit() that could come   *)
(* after the swap is followed by a write to the eventfd.                   *)
LEMMA CoveredStep ==
  ASSUME IInv, [Next]_vars
  PROVE  PendingCovered' /\ QuitCovered'
  <1> USE DEF IInv, TypeOK, PendingCovered, QuitCovered, WakeupUnderWay
  <1>1. CASE EnterLoop \/ BeginRound \/ LeaveLoop
    BY <1>1 DEF EnterLoop, BeginRound, LeaveLoop
  <1>2. CASE Poll
    BY <1>2 DEF Poll, PollReturn, PollEmpty
  <1>3. CASE handleRead \/ CallbackReturn \/ \E c \in Channels : HandleEvent(c)
    BY <1>3 DEF handleRead, CallbackReturn, HandleEvent
  <1>4. CASE BeginPending \/ SwapFunctors \/ EndPending
    BY <1>4 DEF BeginPending, SwapFunctors, EndPending
  <1>5. CASE RunFunctor \/ FunctorReturn
    BY <1>5 DEF RunFunctor, FunctorReturn
  <1>6. CASE SelfQuit
    BY <1>6 DEF SelfQuit, InUserCode
  <1>7. CASE \E f \in Functors : SelfQueueInLoop(f)
    <2>1. PICK f \in Functors : SelfQueueInLoop(f)
      BY <1>7
    <2>2. CASE pc = "callback"
      BY <2>1, <2>2 DEF SelfQueueInLoop
    <2>3. CASE pc = "functor"
      <3>1. callingPendingFunctors_
        BY <2>3 DEF CallingMatches
      <3>2. wakeups' > 0
        BY <2>1, <3>1, BumpedPositive DEF SelfQueueInLoop, wakeup, SelfNeedsWakeup
      <3> QED
        BY <3>2
    <2> QED
      BY <2>1, <2>2, <2>3 DEF SelfQueueInLoop, InUserCode
  <1>8. CASE \E t \in Threads, f \in Functors : QueueInLoop(t, f)
    <2>1. PICK t \in Threads : tpc' = [tpc EXCEPT ![t] = "wakeup"]
      BY <1>8 DEF QueueInLoop
    <2>2. tpc'[t] = "wakeup"
      BY <2>1
    <2> QED
      BY <2>2
  <1>9. CASE \E t \in Threads : Quit(t)
    <2>1. PICK t \in Threads : tpc' = [tpc EXCEPT ![t] = "wakeup"]
      BY <1>9 DEF Quit
    <2>2. tpc'[t] = "wakeup"
      BY <2>1
    <2> QED
      BY <2>2
  <1>10. CASE \E t \in Threads : Wakeup(t)
    <2>1. wakeups' > 0
      BY <1>10, BumpedPositive DEF Wakeup, wakeup
    <2> QED
      BY <2>1
  <1>11. CASE UNCHANGED vars
    BY <1>11 DEF vars
  <1> QED
    BY <1>1, <1>2, <1>3, <1>4, <1>5, <1>6, <1>7, <1>8, <1>9, <1>10, <1>11
    DEF Next, LoopThread, UserCode, Foreign

(* The inductive invariant holds throughout.                               *)
THEOREM InvHolds == Safety => []IInv
  <1>1. Init => IInv
    BY InitInv
  <1>2. IInv /\ [Next]_vars => IInv'
    BY NextType, CallingStep, CoveredStep DEF IInv
  <1> QED
    BY <1>1, <1>2, PTL DEF Safety

(* queueInLoop and quit are never slept through, whatever the number of    *)
(* threads, functors and channels: the loop is not left in epoll_wait with *)
(* work and no wakeup (EventLoop.cc:145-148), provided that its own thread *)
(* queues nothing ahead of loop().                                         *)
THEOREM WakeupNeverLost ==
  ASSUME ~EarlyUse
  PROVE  Safety => []NoLostWakeup
  <1>1. IInv => NoLostWakeup
    BY DEF IInv, PendingCovered, QuitCovered, NoLostWakeup
  <1> QED
    BY <1>1, InvHolds, PTL

-----------------------------------------------------------------------------
(* A functor queued goes to the end of the history and of the queue at     *)
(* once; one that is started moves from the batch to the executed ones.    *)
LEMMA OrderStep == IInv /\ QueueOrder /\ [Next]_vars => QueueOrder'
  <1> SUFFICES ASSUME IInv, QueueOrder, [Next]_vars PROVE QueueOrder'
    OBVIOUS
  <1> USE DEF IInv, TypeOK, QueueOrder
  <1>1. executed \o functors \in Seq(Functors)
    BY ConcatProperties
  <1>2. CASE UNCHANGED <<queued, executed, functors, pendingFunctors_>>
    BY <1>2
  <1>3. CASE SwapFunctors
    <2>1. functors = <<>>
      BY <1>3 DEF CallingMatches, SwapFunctors
    <2>2. executed \o functors \o pendingFunctors_ = executed \o pendingFunctors_
      BY <2>1
    <2>3. executed \o pendingFunctors_ \o <<>> = executed \o pendingFunctors_
      BY ConcatProperties, ConcatEmptySeq
    <2> QED
      BY <1>3, <2>2, <2>3 DEF SwapFunctors
  <1>4. CASE RunFunctor
    BY <1>4, ShiftHead DEF RunFunctor
  <1>5. ASSUME NEW f \in Functors,
               pendingFunctors_' = Append(pendingFunctors_, f),
               queued' = Append(queued, f),
               UNCHANGED <<executed, functors>>
        PROVE  QueueOrder'
    <2>1. (executed \o functors) \o Append(pendingFunctors_, f)
            = Append(queued, f)
      BY <1>1, ConcatAppend
    <2> QED
      BY <2>1, <1>5
  <1>6. CASE \E f \in Functors : SelfQueueInLoop(f)
    BY <1>5, <1>6 DEF SelfQueueInLoop
  <1>7. CASE \E t \in Threads, f \in Functors : QueueInLoop(t, f)
    BY <1>5, <1>7 DEF QueueInLoop
  <1> QED
    BY <1>2, <1>3, <1>4, <1>6, <1>7
    DEF Next, LoopThread, Poll, UserCode, Foreign, EnterLoop, BeginRound,
        LeaveLoop, PollReturn, PollEmpty, handleRead, HandleEvent,
        CallbackReturn, BeginPending, FunctorReturn, EndPending, SelfQuit,
        Quit, Wakeup, vars

(* queueInLoop loses, repeats and reorders nothing: at any moment the      *)
(* functors queued so far are those executed, then the rest of the batch,  *)
(* then those pending.                                                     *)
THEOREM FunctorsInOrder == Safety => []QueueOrder
  <1>1. Init => QueueOrder
    BY DEF Init, QueueOrder
  <1> QED
    BY <1>1, OrderStep, InvHolds, PTL DEF Safety

-----------------------------------------------------------------------------
(* Every step of the loop is a step of a SerialExecutor or changes nothing *)
(* it shows.                                                               *)
LEMMA ExecutorStep ==
  IInv /\ [Next]_vars => [Executor!Next]_(Executor!vars)
  <1> SUFFICES ASSUME IInv, [Next]_vars
               PROVE  [Executor!Next]_(Executor!vars)
    OBVIOUS
  <1> USE DEF IInv, TypeOK
  <1>1. CASE UNCHANGED <<functors, pendingFunctors_, executed>>
             /\ (pc' = "left" <=> pc = "left")
    BY <1>1 DEF Executor!vars
  <1>2. CASE LeaveLoop
    BY <1>2 DEF LeaveLoop, Executor!Next, Executor!Stop
  <1>3. CASE SwapFunctors
    <2>1. functors = <<>>
      BY <1>3 DEF CallingMatches, SwapFunctors
    <2>2. functors' \o pendingFunctors_' = functors \o pendingFunctors_
      BY <1>3, <2>1, ConcatEmptySeq DEF SwapFunctors
    <2> QED
      BY <1>3, <2>2 DEF SwapFunctors, Executor!vars
  <1>4. CASE RunFunctor
    BY <1>4, ConcatHeadTail
    DEF RunFunctor, Executor!Next, Executor!Execute
  <1>5. CASE \E f \in Functors : SelfQueueInLoop(f)
    BY <1>5, ConcatAppend DEF SelfQueueInLoop, Executor!Next, Executor!Submit
  <1>6. CASE \E t \in Threads, f \in Functors : QueueInLoop(t, f)
    BY <1>6, ConcatAppend DEF QueueInLoop, Executor!Next, Executor!Submit
  <1> QED
    BY <1>1, <1>2, <1>3, <1>4, <1>5, <1>6
    DEF Next, LoopThread, Poll, UserCode, Foreign, EnterLoop, BeginRound,
        PollReturn, PollEmpty, handleRead, HandleEvent, CallbackReturn,
        BeginPending, FunctorReturn, EndPending, SelfQuit, Quit, Wakeup, vars

(* The loop implements the safety part of SerialExecutor: functors run one *)
(* at a time, in the order of queueInLoop, none twice, none after loop()   *)
(* has returned.                                                           *)
THEOREM LoopIsExecutor == Safety => ExecutorSafety
  <1>1. Init => Executor!Init
    BY DEF Init, Executor!Init
  <1> QED
    BY <1>1, ExecutorStep, InvHolds, PTL DEF Safety, ExecutorSafety, Executor!Safety

-----------------------------------------------------------------------------
(* Every step of the owner, of the child and of the user's threads is a    *)
(* step of the loop or leaves the loop alone.                              *)
LEMMA ThreadStepIsLoopStep == [TNext]_allVars => [Next]_vars
  <1> SUFFICES ASSUME [TNext]_allVars
               PROVE  [Next]_vars
    OBVIOUS
  <1>1. CASE UNCHANGED vars
    BY <1>1
  <1>2. CASE DestructorQuit \/ DestructorWakeup
    BY <1>2, OwnerAssumption DEF DestructorQuit, DestructorWakeup, Next, Foreign
  <1>3. CASE InitCallbackStep \/ LoopStep
    BY <1>3 DEF InitCallbackStep, LoopStep, LoopUser, Next, UserCode
  <1>4. ASSUME NEW t \in Threads \ {Owner}, UserThread(t)
        PROVE  Next
    BY <1>4 DEF UserThread, Next, Foreign
  <1> QED
    BY <1>1, <1>2, <1>3, <1>4
    DEF TNext, OwnerStep, ChildStep, Finished, allVars, Spawn, SemWait, StartLoopReturns,
        DestructorTest, DestructorRead, Join, SemPost, Construct, Publish,
        ClearLoop, Unwind

(* The loop of an EventLoopThread is an EventLoop: what is shown of its    *)
(* functors and wakeups holds in the thread, too, whenever the destructor  *)
(* comes.                                                                  *)
THEOREM ThreadRunsLoop == TSafety => Safety
  <1>1. TInit => Init
    BY DEF TInit
  <1> QED
    BY <1>1, ThreadStepIsLoopStep, PTL DEF TSafety, Safety

(* Before startLoop() there is no child; loop_ is set exactly while the    *)
(* child is in loop(); who has come out of startLoop() came after it was   *)
(* set; the loop is left only with quit_, and nobody takes quit_ back      *)
(* after that.                                                             *)
ThreadInv ==
    /\ owner = "idle" => child = "none"
    /\ loop_ <=> child = "looping"
    /\ owner \in {"running", "quitting", "holding", "waking", "joining"} =>
         child \in {"looping", "unwinding", "exited"}
    /\ child \in {"unwinding", "exited"} => pc = "left"
    /\ pc = "left" => quit_

(* No step of the loop takes back quit_ once the loop is left, or leaves   *)
(* it without quit_.                                                       *)
LEMMA LeftForGood ==
  ASSUME [Next]_vars, pc = "left" => quit_
  PROVE  (pc = "left" => pc' = "left") /\ (pc' = "left" => quit_')
  BY DEF Next, LoopThread, Poll, UserCode, Foreign, EnterLoop, BeginRound, LeaveLoop,
         PollReturn, PollEmpty, handleRead, HandleEvent, CallbackReturn, BeginPending,
         SwapFunctors, RunFunctor, FunctorReturn, EndPending, SelfQuit,
         SelfQueueInLoop, QueueInLoop, Quit, Wakeup, vars

(* While the owner holds the pointer startLoop() returned, and nobody has  *)
(* told the loop to quit, the loop is there, whatever its callbacks, the   *)
(* other threads and the scheduling of startLoop() do.                     *)
THEOREM StartedLoopStaysLive == TSafety => []StartedLoopIsLive
  <1>1. TInit => ThreadInv
    BY DEF TInit, Init, ThreadInv
  <1>2. ThreadInv /\ [TNext]_allVars => ThreadInv'
    <2> SUFFICES ASSUME ThreadInv, [TNext]_allVars
                 PROVE  ThreadInv'
      OBVIOUS
    <2>1. (pc = "left" => pc' = "left") /\ (pc' = "left" => quit_')
      BY ThreadStepIsLoopStep, LeftForGood DEF ThreadInv
    <2>2. CASE UNCHANGED threadVars
      BY <2>1, <2>2 DEF threadVars, ThreadInv
    <2>3. CASE OwnerStep
      BY <2>1, <2>3
      DEF ThreadInv, OwnerStep, Spawn, SemWait, StartLoopReturns, DestructorTest,
          DestructorRead, DestructorQuit, DestructorWakeup, Join
    <2>4. CASE SemPost \/ Construct \/ Publish \/ ClearLoop \/ Unwind
      BY <2>1, <2>4 DEF ThreadInv, SemPost, Construct, Publish, ClearLoop, Unwind
    <2> QED
      BY <2>2, <2>3, <2>4
      DEF TNext, ChildStep, InitCallbackStep, LoopStep, UserThread, Finished, allVars
  <1>3. ThreadInv => StartedLoopIsLive
    BY DEF ThreadInv, StartedLoopIsLive
  <1> QED
    BY <1>1, <1>2, <1>3, PTL DEF TSafety
=============================================================================
