----------------------------- MODULE EventLoop ------------------------------
(***************************************************************************)
(* One EventLoop (src/EventLoop.cc, include/EventLoop.h) with the blocking *)
(* half of its EPollPoller (src/EPollPoller.cc: poll, fillActiveChannels): *)
(* the loop thread, the threads that hand it functors or tell it to quit,  *)
(* and the eventfd that wakes it.                                          *)
(*                                                                         *)
(* A step is the code between two points where another thread can act: one *)
(* atomic store, one critical section of mutex_, one system call, or one   *)
(* call of user code, which is a state of its own ("callback", "functor")  *)
(* because user code calls back into the loop.                             *)
(***************************************************************************)
EXTENDS Naturals, Sequences, FiniteSets

CONSTANTS
    Threads,             \* threads other than the loop's own
    Functors,            \* what is handed to queueInLoop, each at most once
    Channels,            \* the I/O channels registered with the poller
    WakeupChannel,       \* wakeupChannel_
    InitEventListSize,   \* kInitEventListSize, the first size of events_
    MaxWakeups,          \* the largest value an eventfd counter holds
    EarlyUse             \* the loop's thread runs user code ahead of loop()

ASSUME WakeupAssumption == WakeupChannel \notin Channels
ASSUME SizeAssumption == InitEventListSize \in Nat \ {0}
ASSUME CounterAssumption == MaxWakeups \in Nat \ {0}
ASSUME EarlyUseAssumption == EarlyUse \in BOOLEAN

VARIABLES
    pc,                       \* where the loop thread is
    tpc,                      \* where every other thread is
    looping_,
    quit_,
    callingPendingFunctors_,
    pendingFunctors_,
    functors,                 \* the local of doPendingFunctors, minus what ran
    activeChannels_,          \* channels of this round not yet handled
    eventsSize,               \* events_.size()
    wakeups,                  \* the counter behind wakeupFd_
    queued,                   \* history: every functor queued, in order
    executed                  \* history: every functor started, in order

vars == <<pc, tpc, looping_, quit_, callingPendingFunctors_, pendingFunctors_,
          functors, activeChannels_, eventsSize, wakeups, queued, executed>>

LoopPoints == {"created", "check", "poll", "dispatch", "callback",
               "swap", "run", "functor", "left"}

SeqRange(s) == {s[i] : i \in 1..Len(s)}

Init ==
    /\ pc = "created"
    /\ tpc = [t \in Threads |-> "idle"]
    /\ looping_ = FALSE
    /\ quit_ = FALSE
    /\ callingPendingFunctors_ = FALSE
    /\ pendingFunctors_ = <<>>
    /\ functors = <<>>
    /\ activeChannels_ = {}
    /\ eventsSize = InitEventListSize
    /\ wakeups = 0
    /\ queued = <<>>
    /\ executed = <<>>

-----------------------------------------------------------------------------
(* The eventfd.  A write adds one, and fails with EAGAIN at the limit,     *)
(* which wakeup() only logs; a read takes the whole count.                 *)

Bumped(n) == IF n < MaxWakeups THEN n + 1 ELSE n

wakeup == wakeups' = Bumped(wakeups)

-----------------------------------------------------------------------------
(* loop() *)

EnterLoop ==
    /\ pc = "created"
    /\ looping_' = TRUE
    /\ quit_' = FALSE
    /\ pc' = "check"
    /\ UNCHANGED <<tpc, callingPendingFunctors_, pendingFunctors_, functors,
                   activeChannels_, eventsSize, wakeups, queued, executed>>

BeginRound ==
    /\ pc = "check"
    /\ ~quit_
    /\ activeChannels_' = {}
    /\ pc' = "poll"
    /\ UNCHANGED <<tpc, looping_, quit_, callingPendingFunctors_,
                   pendingFunctors_, functors, eventsSize, wakeups, queued,
                   executed>>

LeaveLoop ==
    /\ pc = "check"
    /\ quit_
    /\ looping_' = FALSE
    /\ pc' = "left"
    /\ UNCHANGED <<tpc, quit_, callingPendingFunctors_, pendingFunctors_,
                   functors, activeChannels_, eventsSize, wakeups, queued,
                   executed>>

(* epoll_wait reports at most events_.size() of the ready channels; which  *)
(* I/O channels are ready is up to the peers, the wakeup channel is ready  *)
(* while its counter is not zero.  A full list makes events_ twice as big. *)
Ready(io) == io \cup (IF wakeups > 0 THEN {WakeupChannel} ELSE {})

MutNeverGrows(size, numEvents) == size

GrownEvents(size, numEvents) == IF numEvents = size THEN 2 * size ELSE size

PollReturn ==
    /\ pc = "poll"
    /\ \E io \in SUBSET Channels :
         \E batch \in SUBSET Ready(io) :
           /\ batch # {}
           /\ \/ batch = Ready(io) /\ Cardinality(batch) <= eventsSize
              \/ Cardinality(batch) = eventsSize
           /\ activeChannels_' = batch
           /\ eventsSize' = GrownEvents(eventsSize, Cardinality(batch))
    /\ pc' = "dispatch"
    /\ UNCHANGED <<tpc, looping_, quit_, callingPendingFunctors_,
                   pendingFunctors_, functors, wakeups, queued, executed>>

(* The timeout of kPollTimeMs, or an error such as EINTR: epoll_wait gives *)
(* neither while something is ready.                                       *)
PollEmpty ==
    /\ pc = "poll"
    /\ wakeups = 0
    /\ pc' = "dispatch"
    /\ UNCHANGED <<tpc, looping_, quit_, callingPendingFunctors_,
                   pendingFunctors_, functors, activeChannels_, eventsSize,
                   wakeups, queued, executed>>

(* handleEvent of the wakeup channel: handleRead drains the counter. *)
handleRead ==
    /\ pc = "dispatch"
    /\ WakeupChannel \in activeChannels_
    /\ activeChannels_' = activeChannels_ \ {WakeupChannel}
    /\ wakeups' = 0
    /\ UNCHANGED <<pc, tpc, looping_, quit_, callingPendingFunctors_,
                   pendingFunctors_, functors, eventsSize, queued, executed>>

(* handleEvent of an I/O channel enters user code... *)
HandleEvent(c) ==
    /\ pc = "dispatch"
    /\ c \in activeChannels_
    /\ activeChannels_' = activeChannels_ \ {c}
    /\ pc' = "callback"
    /\ UNCHANGED <<tpc, looping_, quit_, callingPendingFunctors_,
                   pendingFunctors_, functors, eventsSize, wakeups, queued,
                   executed>>

(* ... and comes back from it. *)
CallbackReturn ==
    /\ pc = "callback"
    /\ pc' = "dispatch"
    /\ UNCHANGED <<tpc, looping_, quit_, callingPendingFunctors_,
                   pendingFunctors_, functors, activeChannels_, eventsSize,
                   wakeups, queued, executed>>

-----------------------------------------------------------------------------
(* doPendingFunctors() *)

BeginPending ==
    /\ pc = "dispatch"
    /\ activeChannels_ = {}
    /\ callingPendingFunctors_' = TRUE
    /\ pc' = "swap"
    /\ UNCHANGED <<tpc, looping_, quit_, pendingFunctors_, functors,
                   activeChannels_, eventsSize, wakeups, queued, executed>>

MutSwapCopies ==
    /\ pc = "swap"
    /\ functors' = pendingFunctors_
    /\ pc' = "run"
    /\ UNCHANGED <<tpc, looping_, quit_, callingPendingFunctors_,
                   pendingFunctors_, activeChannels_, eventsSize, wakeups,
                   queued, executed>>

SwapFunctors ==
    /\ pc = "swap"
    /\ functors' = pendingFunctors_
    /\ pendingFunctors_' = <<>>
    /\ pc' = "run"
    /\ UNCHANGED <<tpc, looping_, quit_, callingPendingFunctors_,
                   activeChannels_, eventsSize, wakeups, queued, executed>>

RunFunctor ==
    /\ pc = "run"
    /\ functors # <<>>
    /\ executed' = Append(executed, Head(functors))
    /\ functors' = Tail(functors)
    /\ pc' = "functor"
    /\ UNCHANGED <<tpc, looping_, quit_, callingPendingFunctors_,
                   pendingFunctors_, activeChannels_, eventsSize, wakeups,
                   queued>>

FunctorReturn ==
    /\ pc = "functor"
    /\ pc' = "run"
    /\ UNCHANGED <<tpc, looping_, quit_, callingPendingFunctors_,
                   pendingFunctors_, functors, activeChannels_, eventsSize,
                   wakeups, queued, executed>>

EndPending ==
    /\ pc = "run"
    /\ functors = <<>>
    /\ callingPendingFunctors_' = FALSE
    /\ pc' = "check"
    /\ UNCHANGED <<tpc, looping_, quit_, pendingFunctors_, functors,
                   activeChannels_, eventsSize, wakeups, queued, executed>>

-----------------------------------------------------------------------------
(* queueInLoop() and quit() called by the loop's own thread, which is then *)
(* inside user code: a channel's callback, a functor, or what the thread   *)
(* does between the constructor and loop(), such as the ThreadInitCallback *)
(* of an EventLoopThread.  runInLoop() there is a plain call of its        *)
(* argument.                                                               *)

InUserCode ==
    \/ pc \in {"callback", "functor"}
    \/ EarlyUse /\ pc = "created"

Fresh(f) == f \notin SeqRange(queued)

MutNoSelfWakeup == FALSE

(* isInLoopThread() holds: only a functor being run by doPendingFunctors   *)
(* asks for a wakeup.                                                      *)
SelfNeedsWakeup == callingPendingFunctors_

SelfQueueInLoop(f) ==
    /\ InUserCode
    /\ Fresh(f)
    /\ pendingFunctors_' = Append(pendingFunctors_, f)
    /\ queued' = Append(queued, f)
    /\ IF SelfNeedsWakeup THEN wakeup ELSE UNCHANGED wakeups
    /\ UNCHANGED <<pc, tpc, looping_, quit_, callingPendingFunctors_, functors,
                   activeChannels_, eventsSize, executed>>

SelfQuit ==
    /\ InUserCode
    /\ quit_' = TRUE
    /\ UNCHANGED <<pc, tpc, looping_, callingPendingFunctors_,
                   pendingFunctors_, functors, activeChannels_, eventsSize,
                   wakeups, queued, executed>>

-----------------------------------------------------------------------------
(* queueInLoop(), runInLoop() and quit() called by another thread: the     *)
(* push under mutex_ (or the store to quit_) first, the wakeup() later.    *)

QueueInLoop(t, f) ==
    /\ tpc[t] = "idle"
    /\ Fresh(f)
    /\ pendingFunctors_' = Append(pendingFunctors_, f)
    /\ queued' = Append(queued, f)
    /\ tpc' = [tpc EXCEPT ![t] = "wakeup"]
    /\ UNCHANGED <<pc, looping_, quit_, callingPendingFunctors_, functors,
                   activeChannels_, eventsSize, wakeups, executed>>

MutQuitWithoutWakeup(t) ==
    /\ tpc[t] = "idle"
    /\ quit_' = TRUE
    /\ UNCHANGED <<pc, tpc, looping_, callingPendingFunctors_,
                   pendingFunctors_, functors, activeChannels_, eventsSize,
                   wakeups, queued, executed>>

Quit(t) ==
    /\ tpc[t] = "idle"
    /\ quit_' = TRUE
    /\ tpc' = [tpc EXCEPT ![t] = "wakeup"]
    /\ UNCHANGED <<pc, looping_, callingPendingFunctors_, pendingFunctors_,
                   functors, activeChannels_, eventsSize, wakeups, queued,
                   executed>>

Wakeup(t) ==
    /\ tpc[t] = "wakeup"
    /\ wakeup
    /\ tpc' = [tpc EXCEPT ![t] = "idle"]
    /\ UNCHANGED <<pc, looping_, quit_, callingPendingFunctors_,
                   pendingFunctors_, functors, activeChannels_, eventsSize,
                   queued, executed>>

-----------------------------------------------------------------------------
(* What the loop thread does by itself, apart from blocking in epoll_wait. *)
LoopThread ==
    \/ BeginRound \/ LeaveLoop
    \/ handleRead \/ CallbackReturn
    \/ \E c \in Channels : HandleEvent(c)
    \/ BeginPending \/ SwapFunctors \/ RunFunctor \/ FunctorReturn
    \/ EndPending

Poll == PollReturn \/ PollEmpty

UserCode == SelfQuit \/ \E f \in Functors : SelfQueueInLoop(f)

Foreign(t) ==
    \/ \E f \in Functors : QueueInLoop(t, f)
    \/ Quit(t)
    \/ Wakeup(t)

Next ==
    \/ EnterLoop
    \/ LoopThread
    \/ Poll
    \/ UserCode
    \/ \E t \in Threads : Foreign(t)

(* The scheduler runs every thread that can run, user code returns, and    *)
(* epoll_wait returns when the eventfd is readable.  Neither I/O events    *)
(* nor the poll timeout are assumed to come, so what is shown live does    *)
(* not wait for them.                                                      *)
Fairness ==
    /\ WF_vars(EnterLoop)
    /\ WF_vars(LoopThread)
    /\ WF_vars(wakeups > 0 /\ PollReturn)
    /\ \A t \in Threads : WF_vars(Wakeup(t))

Safety == Init /\ [][Next]_vars

Spec == Safety /\ Fairness

-----------------------------------------------------------------------------
(* Every variable keeps its type: in particular the eventfd counter stays  *)
(* within its range and events_ never becomes empty.                       *)
TypeOK ==
    /\ pc \in LoopPoints
    /\ tpc \in [Threads -> {"idle", "wakeup"}]
    /\ looping_ \in BOOLEAN
    /\ quit_ \in BOOLEAN
    /\ callingPendingFunctors_ \in BOOLEAN
    /\ pendingFunctors_ \in Seq(Functors)
    /\ functors \in Seq(Functors)
    /\ activeChannels_ \in SUBSET (Channels \cup {WakeupChannel})
    /\ eventsSize \in Nat \ {0}
    /\ wakeups \in 0..MaxWakeups
    /\ queued \in Seq(Functors)
    /\ executed \in Seq(Functors)

WakeupUnderWay == wakeups > 0 \/ \E t \in Threads : tpc[t] = "wakeup"

(* queueInLoop and quit are never slept through: while the loop thread is  *)
(* blocked in epoll_wait with a functor pending or quit_ set, the eventfd  *)
(* is readable or a thread is about to write to it (the claim of the       *)
(* comment in queueInLoop, EventLoop.cc:145-148).  It needs ~EarlyUse.     *)
NoLostWakeup ==
    pc = "poll" /\ (pendingFunctors_ # <<>> \/ quit_) => WakeupUnderWay

(* No functor is lost, duplicated or overtaken between queueInLoop and     *)
(* doPendingFunctors, whichever thread queued it and whatever batch the    *)
(* swap put it in.                                                         *)
QueueOrder == queued = executed \o functors \o pendingFunctors_

(* A functor that was queued is run, unless the loop is told to quit       *)
(* first: without any help of I/O or the poll timeout if ~EarlyUse.        *)
EveryFunctorRuns ==
    \A f \in Functors :
        f \in SeqRange(queued) ~> (f \in SeqRange(executed) \/ pc = "left")

(* quit() called once loop() is running makes loop() return.               *)
QuitHonoured == (quit_ /\ pc # "created") ~> (pc = "left")

(* A readable wakeupFd_ is drained even when epoll_wait can report fewer   *)
(* channels than are ready: events_ grows until everything fits.           *)
WakeupHandled ==
    (pc = "poll" /\ wakeups > 0) ~> (wakeups = 0 \/ pc = "left")

-----------------------------------------------------------------------------
(* The loop is a SerialExecutor for the functors handed to it. *)
Executor == INSTANCE SerialExecutor WITH
    todo <- functors \o pendingFunctors_,
    done <- executed,
    stopped <- (pc = "left")

ExecutorSpec == Executor!Spec
ExecutorSafety == Executor!Safety
=============================================================================
