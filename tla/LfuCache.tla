------------------------------ MODULE LfuCache ------------------------------
(***************************************************************************)
(* The LFU cache (include/LFU.h): RHashLfuCache, its RLfuCache shards and  *)
(* their FreqLists.  A plain RLfuCache is the instance with one shard.     *)
(* put() and get() hold the shard's mutex_ from beginning to end, so each  *)
(* is one step whatever thread calls it.                                   *)
(*                                                                         *)
(* A shard is a record:                                                    *)
(*   freq      the freq of each node of nodeMap_, 0 for a key without one  *)
(*   lists     freqToFreqList_: the lists made so far, oldest node first;  *)
(*             k is the node of k in nodeMap_, <<k>> one that nodeMap_ lost  *)
(*   minFreq   minFreq_                                                    *)
(*   total     curTotalNum_                                                *)
(* curAverageNum_ is read only where it has just been computed.  Values    *)
(* are left out: nothing the cache decides depends on them.                *)
(***************************************************************************)
EXTENDS Naturals, Sequences, SequencesExt, FiniteSets

CONSTANTS
    Keys,
    DummyKeys,        \* what the key of a list's dummy nodes may hold: Key(),
                      \* or anything, for a Key that Node() leaves uninitialised
    Hash,             \* std::hash<Key>
    capacity_,        \* of the RHashLfuCache
    sliceNum_,
    maxAverageNum_,
    INT8_MAX,         \* 127, smaller in the run, which goes past it
    MaxTotal          \* bound: put() and get() stop at this curTotalNum_

ASSUME HashAssumption == Hash \in [Keys -> Nat]
ASSUME SliceAssumption == sliceNum_ \in Nat \ {0}
ASSUME CapacityAssumption ==
    /\ {capacity_, maxAverageNum_, MaxTotal} \subseteq Nat
    /\ INT8_MAX \in Nat \ {0, 1}

VARIABLES
    slices,           \* lfuSliceCaches_
    uses,             \* history: accesses of a key since it was inserted
    lost,             \* history: minFreq_ was once a frequency without nodes
    orphaned          \* history: a dummy's eviction took a cached key

lfuVars == <<slices, uses, lost, orphaned>>

Slices == 0..(sliceNum_ - 1)

(* ceil(capacity_ / sliceNum_), the capacity of a shard. *)
sliceSize == (capacity_ + sliceNum_ - 1) \div sliceNum_

SliceOf(k) == Hash[k] % sliceNum_

NoNodes == [k \in Keys |-> 0]
NoLists == [f \in {} |-> <<>>]

NewShard ==
    [freq |-> NoNodes, lists |-> NoLists,
     minFreq |-> INT8_MAX, total |-> 0]

LfuInit ==
    /\ slices = [s \in Slices |-> NewShard]
    /\ uses = NoNodes
    /\ lost = FALSE
    /\ orphaned = FALSE

-----------------------------------------------------------------------------
(* FreqList and its map. *)

Cached(c) == {k \in Keys : c.freq[k] # 0}

isEmpty(c, f) == c.lists[f] = <<>>
addNode(list, k) == Append(list, k)
removeNode(list, k) == RemoveAt(list, CHOOSE i \in DOMAIN list : list[i] = k)
getFirstNode(list) == Head(list)

removeFromFreqList(c, k) == [c EXCEPT !.lists[c.freq[k]] = removeNode(@, k)]

(* Append k to the list of its frequency, making the list if need be. *)
addToFreqList(c, k) ==
    LET f == c.freq[k]
        list == IF f \in DOMAIN c.lists THEN c.lists[f] ELSE <<>>
    IN  [c EXCEPT !.lists = [g \in DOMAIN c.lists \cup {f} |->
                                IF g = f THEN addNode(list, k) ELSE c.lists[g]]]

-----------------------------------------------------------------------------
(* The age of the cache. *)

(* The least frequency that has a node; one of INT8_MAX or more is not     *)
(* seen, and then the result is 1.                                         *)
updateMinFreq(c) ==
    LET used == {f \in DOMAIN c.lists : ~isEmpty(c, f) /\ f < INT8_MAX}
    IN  [c EXCEPT !.minFreq = IF used = {} THEN 1 ELSE Min(used)]

(* The nodes of a list that nodeMap_ does not have. *)
Orphans(list) ==
    IF list \in Seq(Keys) THEN <<>>
    ELSE LET orphan(n) == n \notin Keys IN SelectSeq(list, orphan)

(* Every node of nodeMap_ moves down by half of maxAverageNum_, to 1 at    *)
(* the least.  They leave their lists and join the new ones in the order   *)
(* of nodeMap_, which is unspecified, so each list ends up in any order.   *)
Lowered(f) == LET low == maxAverageNum_ \div 2
              IN  IF f <= low THEN 1 ELSE f - low

WithFreq(freq, f) == {k \in Keys : freq[k] = f}

Orders(freq, used) ==
    {lists \in [used -> UNION {SetToSeqs(WithFreq(freq, f)) : f \in used}] :
        \A f \in used : lists[f] \in SetToSeqs(WithFreq(freq, f))}

handleOverMaxAverageNum(c) ==
    LET freq == [k \in Keys |-> IF c.freq[k] = 0 THEN 0 ELSE Lowered(c.freq[k])]
        used == {freq[k] : k \in Cached(c)}
    IN  {updateMinFreq([c EXCEPT
             !.freq = freq,
             !.lists = [f \in DOMAIN c.lists \cup used |->
                           (IF f \in DOMAIN c.lists THEN Orphans(c.lists[f]) ELSE <<>>)
                           \o (IF f \in used THEN lists[f] ELSE <<>>)]])
         : lists \in Orders(freq, used)}

(* All the shards an access may leave: more than one if the nodes age. *)
addFreqNum(c) ==
    LET counted == [c EXCEPT !.total = @ + 1]
    IN  IF counted.total \div Cardinality(Cached(c)) > maxAverageNum_
        THEN handleOverMaxAverageNum(counted)
        ELSE {counted}

MutDecreaseFreqNum(c, num) == [c EXCEPT !.total = @ - (num + 1)]

decreaseFreqNum(c, num) == [c EXCEPT !.total = @ - num]

-----------------------------------------------------------------------------
(* An access to a cached key: it moves to the next list. *)

MutAlwaysRaises(c, k) ==
    LET out == removeFromFreqList(c, k)
        in == addToFreqList([out EXCEPT !.freq[k] = @ + 1], k)
        low == c.freq[k] = c.minFreq
    IN  addFreqNum([in EXCEPT !.minFreq = IF low THEN @ + 1 ELSE @])

getInternal(c, k) ==
    LET out == removeFromFreqList(c, k)
        in == addToFreqList([out EXCEPT !.freq[k] = @ + 1], k)
        low == c.freq[k] = c.minFreq /\ isEmpty(in, c.minFreq)
    IN  addFreqNum([in EXCEPT !.minFreq = IF low THEN @ + 1 ELSE @])

(* nodeMap_ forgets k; a node of k that is in a list stays there. *)
erase(c, k) ==
    [c EXCEPT !.freq = [j \in Keys |-> IF j = k THEN 0 ELSE c.freq[j]],
              !.lists = [f \in DOMAIN c.lists |->
                            [i \in DOMAIN c.lists[f] |->
                                IF c.lists[f][i] = k THEN <<k>> ELSE c.lists[f][i]]]]

KeyOf(node) == IF node \in Keys THEN node ELSE node[1]

(* The first node of the list of minFreq_ goes.  If that list is empty,    *)
(* the first node is the dummy tail: it is in no list to be taken out of,  *)
(* its frequency is 1, and its key is whatever it is.                      *)
kickOut(c, dummy) ==
    IF isEmpty(c, c.minFreq)
    THEN decreaseFreqNum(erase(c, dummy), 1)
    ELSE LET victim == getFirstNode(c.lists[c.minFreq])
             out == [c EXCEPT !.lists[c.minFreq] = removeNode(@, victim)]
         IN  decreaseFreqNum(erase(out, KeyOf(victim)), c.minFreq)

MutFull(c) == Cardinality(Cached(c)) > sliceSize

(* nodeMap_.size() == capacity_ *)
Full(c) == Cardinality(Cached(c)) = sliceSize

putInternal(c, k, dummy) ==
    LET room == IF Full(c) THEN kickOut(c, dummy) ELSE c
        in == addToFreqList([room EXCEPT !.freq[k] = 1], k)
    IN  {[d EXCEPT !.minFreq = Min({@, 1})] : d \in addFreqNum(in)}

-----------------------------------------------------------------------------
(* Ageing that leaves every frequency at INT8_MAX or above. *)
MinFreqLost(c) ==
    /\ Cached(c) # {}
    /\ c.minFreq = 1
    /\ \A k \in Cached(c) : c.freq[k] >= INT8_MAX

(* Making room, kickOut() takes a dummy, and a cached key with it. *)
Orphaning(c, dummy) == Full(c) /\ isEmpty(c, c.minFreq) /\ dummy \in Cached(c)

(* The call leaves one of the shards given in place of shard s. *)
ShardBecomes(s, shards) ==
    \E d \in shards :
        /\ slices' = [slices EXCEPT ![s] = d]
        /\ lost' = (lost \/ MinFreqLost(d))

Access(k) ==
    /\ k \in Cached(slices[SliceOf(k)])
    /\ ShardBecomes(SliceOf(k), getInternal(slices[SliceOf(k)], k))
    /\ uses' = [uses EXCEPT ![k] = @ + 1]
    /\ UNCHANGED orphaned

Bounded(k) == slices[SliceOf(k)].total < MaxTotal

Put(k) ==
    /\ Bounded(k)
    /\ sliceSize # 0
    /\ \/ Access(k)
       \/ LET c == slices[SliceOf(k)]
          IN  \E dummy \in DummyKeys :
                /\ k \notin Cached(c)
                /\ ShardBecomes(SliceOf(k), putInternal(c, k, dummy))
                /\ orphaned' = (orphaned \/ Orphaning(c, dummy))
                /\ uses' = [uses EXCEPT ![k] = 1]

(* A get() of a key that is not cached changes nothing. *)
Get(k) == Bounded(k) /\ Access(k)

(* purge() leaves minFreq_ and curTotalNum_ as they are. *)
Purge ==
    /\ slices' = [s \in Slices |-> [slices[s] EXCEPT !.freq = NoNodes,
                                                     !.lists = NoLists]]
    /\ UNCHANGED <<uses, lost, orphaned>>

LfuNext ==
    \/ \E k \in Keys : Put(k) \/ Get(k)
    \/ Purge

LfuSpec == LfuInit /\ [][LfuNext]_lfuVars

-----------------------------------------------------------------------------
(* A shard never holds more than its capacity, as long as no ageing left   *)
(* all its frequencies at INT8_MAX or above; then kickOut() takes a dummy  *)
(* and the shard, past its capacity, never evicts again (LFU.h:307).       *)
WithinCapacity ==
    ~lost => \A s \in Slices : Cardinality(Cached(slices[s])) <= sliceSize

(* minFreq_ is what kickOut() takes it for: the least frequency of a       *)
(* cached key, whatever accesses, evictions, agings and purges came before *)
(* (LFU.h:164).  Two exceptions: between an ageing that left every         *)
(* frequency at INT8_MAX or above and the next new key it is 1; and once a *)
(* dummy evicted then had the key of a cached node, lists hold nodes that  *)
(* nodeMap_ does not, and nothing is claimed any more.                     *)
MinFreqExact ==
    ~orphaned =>
        \A s \in Slices :
            LET c == slices[s]
            IN  Cached(c) # {} =>
                    \/ c.minFreq = Min({c.freq[k] : k \in Cached(c)})
                    \/ MinFreqLost(c)

(* As many elements as the frequencies add up to. *)
Units(freq) == UNION {{k} \X (1..freq[k]) : k \in Keys}

(* curTotalNum_ is never less than the frequencies it stands for, so that  *)
(* an eviction cannot make it negative, which the division by the unsigned *)
(* size() would turn into a huge average (LFU.h:267).  This needs a        *)
(* maxAverageNum_ above 1: with less, ageing lowers no frequency, and an   *)
(* evicted dummy takes 1 off a total that has nothing to spare.            *)
TotalCoversFreqs ==
    \A s \in Slices : slices[s].total >= Cardinality(Units(slices[s].freq))

(* A put() to a full cache evicts the key that was used least since it was *)
(* inserted ("prioritize removing the least frequently used cache items",  *)
(* README.md:170), as long as ageing has changed no frequency and no dummy *)
(* took a cached key, now or before.                                       *)
LeastUsedEvicted ==
    [][~orphaned' =>
         \A s \in Slices :
             LET c == slices[s]
                 kept == Cached(slices'[s])
             IN  kept # {} /\ (\A k \in Cached(c) : c.freq[k] = uses[k]) =>
                   \A k \in Cached(c) \ kept : \A j \in Cached(c) : uses[k] <= uses[j]]_lfuVars
=============================================================================
