------------------------------ MODULE ConnLife ------------------------------
(***************************************************************************)
(* What the user of a TcpConnection may rely on: connectionCallback_ is    *)
(* called for the connection coming up and at most once for its going      *)
(* down, in this order, whatever the loops, the server, the peer and the   *)
(* threads that call shutdown() do.  The connection may also go without a  *)
(* DOWN: connectDestroyed() says nothing when shutdown() came first.       *)
(***************************************************************************)
EXTENDS Naturals

VARIABLES
    state_,
    ups, downs      \* calls of connectionCallback_, by direction

vars == <<state_, ups, downs>>

Init ==
    /\ state_ = "kConnecting"
    /\ ups = 0
    /\ downs = 0

Up ==
    /\ state_ = "kConnecting"
    /\ state_' = "kConnected"
    /\ ups' = 1
    /\ UNCHANGED downs

(* shutdown() tests state_ and sets it later, so it may overwrite a close. *)
Disconnecting ==
    /\ ups = 1
    /\ state_' = "kDisconnecting"
    /\ UNCHANGED <<ups, downs>>

Down ==
    /\ state_ \in {"kConnected", "kDisconnecting"}
    /\ downs = 0
    /\ state_' = "kDisconnected"
    /\ downs' = 1
    /\ UNCHANGED ups

Next == Up \/ Disconnecting \/ Down

Spec == Init /\ [][Next]_vars
=============================================================================
