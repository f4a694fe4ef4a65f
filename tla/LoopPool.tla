------------------------------ MODULE LoopPool ------------------------------
(***************************************************************************)
(* The EventLoopThreadPool (src/EventLoopThreadPool.cc) and the            *)
(* ConsistentHash ring (include/ConsistenHash.h) by which it picks the     *)
(* loop of a new connection; TcpServer uses them.                          *)
(*                                                                         *)
(* A name that is hashed is a tuple: <<"add", n, i>> is node + "_0" + i,   *)
(* <<"remove", n, i>> is node + i, <<"key", k>> is the address of a peer.  *)
(* A sorted vector of different values is the set of its values.           *)
(***************************************************************************)
EXTENDS Naturals, Sequences, SequencesExt, FiniteSets

CONSTANTS
    numThreads_,
    numReplicas_,
    Keys,             \* the addresses of the peers
    RingSize,         \* how many values a size_t has
    HashFunctions     \* the hash functions tried

Nodes == 1..numThreads_
Replicas == 0..(numReplicas_ - 1)

(* main sets three threads; the ring of a pool without threads is empty,   *)
(* and getNode() throws at the first connection.                           *)
ASSUME SizeAssumption == {numThreads_, numReplicas_} \subseteq Nat \ {0}

Names ==
    ({"add", "remove"} \X Nodes \X Replicas) \cup ({"key"} \X Keys)

(* Injective, as one may take a hash of 64 bits for a few names to be. *)
ASSUME HashAssumption ==
    /\ RingSize \in Nat \ {0}
    /\ \A f \in HashFunctions :
         /\ f \in [Names -> 0..(RingSize - 1)]
         /\ \A x, y \in Names : f[x] = f[y] => x = y

VARIABLES
    hashFunction_,
    circle_,          \* hash value to node
    sortedHashes_,    \* the hash values in the sorted vector
    loops_            \* the loops started so far; loop n belongs to node n

poolVars == <<hashFunction_, circle_, sortedHashes_, loops_>>

baseLoop_ == 0

PoolInit ==
    /\ hashFunction_ \in HashFunctions
    /\ circle_ = [h \in {} |-> 0]
    /\ sortedHashes_ = {}
    /\ loops_ = <<>>

-----------------------------------------------------------------------------
(* ConsistentHash *)

Virtual(how, node) == {hashFunction_[<<how, node, i>>] : i \in Replicas}

addNode(node) ==
    LET new == Virtual("add", node)
    IN  /\ circle_' = [h \in DOMAIN circle_ \cup new |->
                         IF h \in new THEN node ELSE circle_[h]]
        /\ sortedHashes_' = sortedHashes_ \cup new

(* removeNode() of a node of the ring; it hashes other names than          *)
(* addNode() and so leaves the node's virtual nodes on it.                 *)
removeNode(node) ==
    LET gone == Virtual("remove", node)
    IN  /\ circle_' = Restrict(circle_, DOMAIN circle_ \ gone)
        /\ sortedHashes_' = sortedHashes_ \ gone

(* std::upper_bound, which wants a greater value although the comment has  *)
(* "greater than or equal to" (ConsistenHash.h:71), and back to the        *)
(* beginning of the ring behind its end.                                   *)
UpperBound(h) ==
    LET above == {x \in sortedHashes_ : x > h}
    IN  IF above = {} THEN Min(sortedHashes_) ELSE Min(above)

(* getNode() returns the hash value of a virtual node, not its node. *)
getNode(k) == UpperBound(hashFunction_[<<"key", k>>])

-----------------------------------------------------------------------------
(* EventLoopThreadPool *)

Ready == Len(loops_) = numThreads_

(* One round of the loop in start(): a thread with its loop, and its node. *)
StartThread ==
    /\ ~Ready
    /\ loops_' = Append(loops_, Len(loops_) + 1)
    /\ addNode(Len(loops_) + 1)
    /\ UNCHANGED hashFunction_

(* The hash value is the index, if the vector is that long. *)
getNextLoop(k) ==
    LET index == getNode(k)
    IN  IF index >= Len(loops_) THEN baseLoop_ ELSE loops_[index + 1]

=============================================================================
