---------------------------- MODULE MCSequential ----------------------------
(***************************************************************************)
(* Instances for TLC of the components that only one thread at a time      *)
(* works on: the Buffer of a connection in its loop, the LogFile in the    *)
(* backend, a shard of the LfuCache under its mutex_.  They do not touch   *)
(* one another, so each behaviour is one of a single component and the     *)
(* others stand still.                                                     *)
(***************************************************************************)
EXTENDS Buffer, LogFile, LfuCache

VARIABLE component          \* the one that this behaviour is of

MCHash == [k \in Keys |-> 0]

MCInit ==
    /\ Init /\ FileInit /\ LfuInit
    /\ component \in {"Buffer", "LogFile", "LfuCache"}
    /\ component # "LogFile" => count_ = 0

MCNext ==
    /\ \/ component = "Buffer" /\ Next /\ UNCHANGED <<fileVars, lfuVars>>
       \/ component = "LogFile" /\ FileNext /\ UNCHANGED <<vars, lfuVars>>
       \/ component = "LfuCache" /\ LfuNext /\ UNCHANGED <<vars, fileVars>>
    /\ UNCHANGED component

MCSpec == MCInit /\ [][MCNext]_<<vars, fileVars, lfuVars, component>>
=============================================================================
