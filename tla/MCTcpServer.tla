---------------------------- MODULE MCTcpServer -----------------------------
(* Instances of TcpServer for TLC. *)
EXTENDS TcpServer, TLC

(* Every order on the ring of the names that can be there or be looked up. *)
(* The names that removeNode hashes are never added, so their place does   *)
(* not matter.  Keys are numbered.                                         *)
Points == numThreads_ * numReplicas_
AllPoints == Points + Cardinality(Keys)

Number(x) ==
    IF x[1] = "key" THEN Points + x[2] ELSE (x[2] - 1) * numReplicas_ + x[3] + 1

MCHashFunctions ==
    {[x \in Names |-> IF x[1] = "remove" THEN AllPoints + Number(x) ELSE p[Number(x)] - 1]
     : p \in Permutations(1..AllPoints)}
=============================================================================
