--------------------------- MODULE SerialExecutor ---------------------------
(***************************************************************************)
(* What an EventLoop promises to the threads that hand it functors: a      *)
(* single worker that runs the submitted functors one at a time, in the    *)
(* order of submission, each exactly once, until it is stopped.            *)
(***************************************************************************)
EXTENDS Sequences

CONSTANT Functors

VARIABLES todo,      \* submitted and not yet started, oldest first
          done,      \* started, in the order of starting
          stopped    \* the worker has left its loop

vars == <<todo, done, stopped>>

Init ==
    /\ todo = <<>>
    /\ done = <<>>
    /\ stopped = FALSE

(* A stopped worker still accepts submissions; it never runs them. *)
Submit(f) ==
    /\ todo' = Append(todo, f)
    /\ UNCHANGED <<done, stopped>>

Execute ==
    /\ ~stopped
    /\ todo # <<>>
    /\ done' = Append(done, Head(todo))
    /\ todo' = Tail(todo)
    /\ UNCHANGED stopped

Stop ==
    /\ ~stopped
    /\ stopped' = TRUE
    /\ UNCHANGED <<todo, done>>

Next ==
    \/ \E f \in Functors : Submit(f)
    \/ Execute
    \/ Stop

Safety == Init /\ [][Next]_vars

(* A worker that has something to do and is not stopped does it. *)
Spec == Safety /\ WF_vars(Execute)
=============================================================================
