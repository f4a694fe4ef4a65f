-------------------------- MODULE MCTcpConnection ---------------------------
(* Instances of TcpConnection for TLC. *)
EXTENDS TcpConnection

CONSTANTS m1, m2

(* One message of two bytes, which a write can split, and one of one byte. *)
MCMsgLen == [m \in Msgs |-> IF m = m1 THEN 2 ELSE 1]
=============================================================================
