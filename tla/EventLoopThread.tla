-------------------------- MODULE EventLoopThread ---------------------------
(***************************************************************************)
(* EventLoopThread (src/EventLoopThread.cc) and the Thread it starts       *)
(* (src/Thread.cc): the owner, which calls startLoop() and later the       *)
(* destructor, and the child thread, whose stack holds the EventLoop.  The *)
(* loop itself is the module EventLoop; the owner is one of its foreign    *)
(* threads.                                                                *)
(*                                                                         *)
(* The destructor reads loop_ twice without mutex_; the two reads are two  *)
(* steps here.                                                             *)
(***************************************************************************)
EXTENDS EventLoop

CONSTANTS
    Owner,            \* the thread that owns the EventLoopThread
    CallbacksQuit     \* callbacks and functors of the loop call quit() too

ASSUME OwnerAssumption == Owner \in Threads
ASSUME CallbacksQuitAssumption == CallbacksQuit \in BOOLEAN

VARIABLES
    owner,     \* where the owner is in startLoop() and ~EventLoopThread()
    child,     \* where the child is in the lambda of start() and threadFunc()
    sem,       \* the semaphore of Thread::start()
    loop_      \* loop_ # nullptr

threadVars == <<owner, child, sem, loop_>>
allVars == <<vars, threadVars>>

TInit ==
    /\ Init
    /\ owner = "idle"
    /\ child = "none"
    /\ sem = 0
    /\ loop_ = FALSE

-----------------------------------------------------------------------------
(* The owner: startLoop(), with Thread::start() inlined. *)

Spawn ==
    /\ owner = "idle"
    /\ owner' = "semWait"
    /\ child' = "spawned"
    /\ UNCHANGED <<vars, sem, loop_>>

SemWait ==
    /\ owner = "semWait"
    /\ sem = 1
    /\ sem' = 0
    /\ owner' = "condWait"
    /\ UNCHANGED <<vars, child, loop_>>

MutStartLoopReturns ==
    /\ owner = "condWait"
    /\ owner' = "running"
    /\ UNCHANGED <<vars, child, sem, loop_>>

(* cond_.wait with its predicate, then the return of loop_, in mutex_. *)
StartLoopReturns ==
    /\ owner = "condWait"
    /\ loop_
    /\ owner' = "running"
    /\ UNCHANGED <<vars, child, sem, loop_>>

(* ~EventLoopThread(): the test of loop_, without mutex_ ... *)
DestructorTest ==
    /\ owner = "running"
    /\ owner' = IF loop_ THEN "quitting" ELSE "destroyed"
    /\ UNCHANGED <<vars, child, sem, loop_>>

(* ... loop_->quit() through a second read, which may be of a loop_ that   *)
(* the child has cleared; then its store, even if the loop has ended by    *)
(* now, and its wakeup() ...                                               *)
DestructorRead ==
    /\ owner = "quitting"
    /\ owner' = IF loop_ THEN "holding" ELSE "crashed"
    /\ UNCHANGED <<vars, child, sem, loop_>>

DestructorQuit ==
    /\ owner = "holding"
    /\ Quit(Owner)
    /\ owner' = "waking"
    /\ UNCHANGED <<child, sem, loop_>>

MutDestructorNoWakeup ==
    /\ owner = "waking"
    /\ tpc' = [tpc EXCEPT ![Owner] = "idle"]
    /\ owner' = "joining"
    /\ UNCHANGED <<pc, looping_, quit_, callingPendingFunctors_,
                   pendingFunctors_, functors, activeChannels_, eventsSize,
                   wakeups, queued, executed, child, sem, loop_>>

DestructorWakeup ==
    /\ owner = "waking"
    /\ Wakeup(Owner)
    /\ owner' = "joining"
    /\ UNCHANGED <<child, sem, loop_>>

(* ... and thread_.join(). *)
Join ==
    /\ owner = "joining"
    /\ child = "exited"
    /\ owner' = "destroyed"
    /\ UNCHANGED <<vars, child, sem, loop_>>

-----------------------------------------------------------------------------
(* The child. *)

SemPost ==
    /\ child = "spawned"
    /\ sem' = 1
    /\ child' = "constructing"
    /\ UNCHANGED <<vars, owner, loop_>>

(* EventLoop loop; then callback_ may use it. *)
Construct ==
    /\ child = "constructing"
    /\ child' = "initCallback"
    /\ UNCHANGED <<vars, owner, sem, loop_>>

LoopUser ==
    \/ CallbacksQuit /\ SelfQuit
    \/ \E f \in Functors : SelfQueueInLoop(f)

InitCallbackStep ==
    /\ child = "initCallback"
    /\ LoopUser
    /\ UNCHANGED threadVars

Publish ==
    /\ child = "initCallback"
    /\ loop_' = TRUE
    /\ child' = "looping"
    /\ UNCHANGED <<vars, owner, sem>>

LoopStep ==
    /\ child = "looping"
    /\ \/ EnterLoop \/ LoopThread \/ Poll
       \/ pc # "created" /\ LoopUser
    /\ UNCHANGED threadVars

(* After loop(): loop_ = nullptr in mutex_ ... *)
ClearLoop ==
    /\ child = "looping"
    /\ pc = "left"
    /\ loop_' = FALSE
    /\ child' = "unwinding"
    /\ UNCHANGED <<vars, owner, sem>>

(* ... and the end of threadFunc, which destroys the loop.                 *)
Unwind ==
    /\ child = "unwinding"
    /\ child' = "exited"
    /\ UNCHANGED <<vars, owner, sem, loop_>>

-----------------------------------------------------------------------------
(* Threads that were given the pointer startLoop() returned. *)
UserThread(t) ==
    /\ \/ owner = "running" /\ \E f \in Functors : QueueInLoop(t, f)
       \/ Wakeup(t)
    /\ UNCHANGED threadVars

OwnerStep ==
    \/ Spawn \/ SemWait \/ StartLoopReturns
    \/ DestructorTest \/ DestructorRead \/ DestructorQuit
    \/ DestructorWakeup \/ Join

ChildStep ==
    \/ SemPost \/ Construct \/ InitCallbackStep \/ Publish
    \/ LoopStep \/ ClearLoop \/ Unwind

(* Everything is torn down; the user's threads no longer hold the loop. *)
Finished == owner \in {"destroyed", "crashed"} /\ UNCHANGED allVars

TNext ==
    \/ OwnerStep
    \/ ChildStep
    \/ \E t \in Threads \ {Owner} : UserThread(t)
    \/ Finished

(* As in EventLoop; the owner is scheduled too but need not call the       *)
(* destructor, and the init callback returns.                              *)
TFairness ==
    /\ WF_allVars(Spawn \/ SemWait \/ StartLoopReturns)
    /\ WF_allVars(DestructorRead \/ DestructorQuit \/ DestructorWakeup \/ Join)
    /\ WF_allVars(SemPost \/ Construct \/ Publish \/ ClearLoop \/ Unwind)
    /\ WF_allVars(child = "looping" /\ (EnterLoop \/ LoopThread) /\ UNCHANGED threadVars)
    /\ WF_allVars(child = "looping" /\ wakeups > 0 /\ PollReturn /\ UNCHANGED threadVars)
    /\ \A t \in Threads \ {Owner} : WF_allVars(Wakeup(t) /\ UNCHANGED threadVars)

TSafety == TInit /\ [][TNext]_allVars

TSpec == TSafety /\ TFairness

-----------------------------------------------------------------------------
(* Until somebody quits, the loop that the pointer of startLoop() and both *)
(* reads of the destructor name is constructed, published and not          *)
(* destroyed.                                                              *)
StartedLoopIsLive ==
    owner \in {"running", "quitting", "holding"} /\ ~quit_ => child = "looping" /\ loop_

(* A destructor whose quit() comes once loop() is running joins its thread *)
(* without waiting for I/O or for the poll timeout.                        *)
JoinsRunningLoop ==
    (owner = "waking" /\ quit_ /\ pc # "created") ~> (owner = "destroyed")

(* ~EventLoopThread() returns: quit() exits the event loop                 *)
(* (include/EventLoop.h:27), so join() ends.                               *)
DestructorReturns == (owner = "waking") ~> (owner = "destroyed")
=============================================================================
