----------------------------- MODULE MemoryPool -----------------------------
(***************************************************************************)
(* One MemoryPool of the HashBucket (memory/memoryPool.cc,                 *)
(* include/memoryPool.h) and the threads that allocate() and deallocate()  *)
(* slots of it, by way of useMemory() and freeMemory(), for the objects    *)
(* whose size leads to this pool.                                          *)
(*                                                                         *)
(* A slot is its address.  The chain behind freeList_ is the sequence of   *)
(* its slots: nobody writes to the next field of a free slot.              *)
(*                                                                         *)
(* freeList_ is guarded by mutexForFreeList_, except that allocate() looks *)
(* at it without a lock and allocateNewBlock() clears it under             *)
(* mutexForBlock_ only; a critical section of mutexForFreeList_ is         *)
(* therefore two steps, one that reads freeList_ and one that writes it.   *)
(***************************************************************************)
EXTENDS Naturals, Sequences, FiniteSets, SequencesExt

CONSTANTS
    Threads,
    BlockSize_,
    SLOT_BASE_SIZE,
    MAX_SLOT_SIZE,
    Index,          \* of the pool in the HashBucket
    PtrSize,        \* sizeof(Slot) = sizeof(Slot*)
    AddrSpace,      \* 2 to the width of size_t
    Bases           \* the addresses operator new has for blocks; a bound

(* initMemoryPool() *)
SlotSize_ == (Index + 1) * SLOT_BASE_SIZE

(* useMemory() and freeMemory(): the pool for an object of size bytes, if  *)
(* it has any and has not more than MAX_SLOT_SIZE.                         *)
PoolOf(size) == ((size + 7) \div SLOT_BASE_SIZE) - 1

(* The largest object in this pool. *)
ObjectSize == Max({size \in 1..MAX_SLOT_SIZE : PoolOf(size) = Index})

(* The 7 of PoolOf goes with a SLOT_BASE_SIZE of 8. *)
ASSUME SlotAssumption ==
    /\ PtrSize \in Nat \ {0} /\ AddrSpace \in Nat \ {0} /\ SLOT_BASE_SIZE = 8
    /\ Index \in Nat /\ MAX_SLOT_SIZE \in Nat /\ SlotSize_ <= MAX_SLOT_SIZE
    /\ SlotSize_ % PtrSize = 0
    /\ BlockSize_ \in Nat /\ BlockSize_ >= PtrSize + 2 * SlotSize_
ASSUME BasesAssumption ==
    \A b \in Bases :
        /\ b \in Nat /\ b % PtrSize = 0 /\ b + BlockSize_ < AddrSpace
        /\ \A c \in Bases : b < c => b + BlockSize_ <= c

VARIABLES
    blocks,         \* the blocks on the chain of firstBlock_
    curSlot_,
    lastSlot_,
    freeList_,
    tpc,            \* where every thread is in allocate() or deallocate()
    seen,           \* freeList_ as the critical section has read it
    freeing,        \* the slot given to deallocate()
    owned,          \* the slots a thread has got and not given back
    crashed         \* a null pointer was dereferenced

vars == <<blocks, curSlot_, lastSlot_, freeList_, tpc, seen, freeing, owned,
          crashed>>
blockVars == <<blocks, curSlot_, lastSlot_>>

nullptr == 0

Init ==
    /\ blocks = {}
    /\ curSlot_ = nullptr /\ lastSlot_ = nullptr
    /\ freeList_ = <<>>
    /\ tpc = [t \in Threads |-> "idle"]
    /\ seen = [t \in Threads |-> <<>>]
    /\ freeing = [t \in Threads |-> nullptr]
    /\ owned = [t \in Threads |-> {}]
    /\ crashed = FALSE

Goto(t, where) == tpc' = [tpc EXCEPT ![t] = where]
Gets(t, slot) == owned' = [owned EXCEPT ![t] = @ \cup {slot}]

(* The end of a critical section; its locals go. *)
Done(t) == /\ Goto(t, "idle")
           /\ seen' = [seen EXCEPT ![t] = <<>>]
           /\ freeing' = [freeing EXCEPT ![t] = nullptr]

(* mutexForFreeList_ is free. *)
Unlocked == \A t \in Threads : tpc[t] \notin {"take", "push"}

-----------------------------------------------------------------------------
(* allocate(): a look at freeList_ without the lock ... *)
LookAtFreeList(t) ==
    /\ ~crashed
    /\ tpc[t] = "idle"
    /\ Goto(t, IF freeList_ # <<>> THEN "pop" ELSE "block")
    /\ UNCHANGED <<blockVars, freeList_, seen, freeing, owned, crashed>>

(* ... a second one with it ... *)
PopRead(t) ==
    /\ ~crashed
    /\ tpc[t] = "pop"
    /\ Unlocked
    /\ IF freeList_ # <<>>
       THEN /\ seen' = [seen EXCEPT ![t] = freeList_]
            /\ Goto(t, "take")
       ELSE /\ Goto(t, "block")
            /\ UNCHANGED seen
    /\ UNCHANGED <<blockVars, freeList_, freeing, owned, crashed>>

MutPopped(chain) == chain

Popped(chain) == Tail(chain)

(* ... and the first slot is taken off. *)
PopTake(t) ==
    /\ ~crashed
    /\ tpc[t] = "take"
    /\ Gets(t, Head(seen[t]))
    /\ freeList_' = Popped(seen[t])
    /\ Done(t)
    /\ UNCHANGED <<blockVars, crashed>>

(* A build that loads freeList_ again for freeList_->next finds what       *)
(* allocateNewBlock() has stored there meanwhile.                          *)
PopNull(t) ==
    /\ ~crashed
    /\ tpc[t] = "take"
    /\ freeList_ = <<>>
    /\ crashed' = TRUE
    /\ UNCHANGED <<blockVars, freeList_, tpc, seen, freeing, owned>>

-----------------------------------------------------------------------------
(* What size_t arithmetic makes of (align - p) % align. *)
padPointer(p, align) == ((AddrSpace + align - p) % AddrSpace) % align

(* The next slot: curSlot_ counts in units of sizeof(Slot). *)
Step == (SlotSize_ \div PtrSize) * PtrSize

FirstSlot(base) == LET body == base + PtrSize
                   IN  body + padPointer(body, SlotSize_)

MutLastSlot(base) == base + BlockSize_

LastSlot(base) == base + BlockSize_ - SlotSize_ + 1

TakeSlot(t, slot) ==
    /\ Gets(t, slot)
    /\ curSlot_' = slot + Step
    /\ Goto(t, "idle")
    /\ UNCHANGED <<seen, freeing, crashed>>

(* allocate() from the current block, under mutexForBlock_ ... *)
BlockHasRoom == curSlot_ < lastSlot_

FromBlock(t) ==
    /\ ~crashed
    /\ tpc[t] = "block"
    /\ BlockHasRoom
    /\ TakeSlot(t, curSlot_)
    /\ UNCHANGED <<blocks, lastSlot_, freeList_>>

(* ... or from a new one: allocateNewBlock() clears freeList_. *)
allocateNewBlock(t) ==
    /\ ~crashed
    /\ tpc[t] = "block"
    /\ ~BlockHasRoom
    /\ \E base \in Bases \ blocks :
         /\ blocks' = blocks \cup {base}
         /\ lastSlot_' = LastSlot(base)
         /\ TakeSlot(t, FirstSlot(base))
    /\ freeList_' = <<>>

-----------------------------------------------------------------------------
(* deallocate(): the slot joins the head of freeList_. *)

PushRead(t, slot) ==
    /\ ~crashed
    /\ tpc[t] = "idle"
    /\ slot \in owned[t]
    /\ Unlocked
    /\ owned' = [owned EXCEPT ![t] = @ \ {slot}]
    /\ freeing' = [freeing EXCEPT ![t] = slot]
    /\ seen' = [seen EXCEPT ![t] = freeList_]
    /\ Goto(t, "push")
    /\ UNCHANGED <<blockVars, freeList_, crashed>>

PushWrite(t) ==
    /\ ~crashed
    /\ tpc[t] = "push"
    /\ freeList_' = <<freeing[t]>> \o seen[t]
    /\ Done(t)
    /\ UNCHANGED <<blockVars, owned, crashed>>

-----------------------------------------------------------------------------
Allocate(t) ==
    \/ LookAtFreeList(t) \/ PopRead(t) \/ PopTake(t) \/ PopNull(t)
    \/ FromBlock(t) \/ allocateNewBlock(t)

Deallocate(t) ==
    \/ \E slot \in owned[t] : PushRead(t, slot)
    \/ PushWrite(t)

(* No memory for another block, or dead. *)
OutOfMemory ==
    /\ crashed \/ (blocks = Bases /\ ~BlockHasRoom)
    /\ UNCHANGED vars

Next ==
    \/ \E t \in Threads : Allocate(t) \/ Deallocate(t)
    \/ OutOfMemory

Spec == Init /\ [][Next]_vars

-----------------------------------------------------------------------------
(* The slots somebody uses, and those a thread is about to get or to free. *)
InUse == (UNION {owned[t] : t \in Threads})
               \cup {freeing[t] : t \in {u \in Threads : tpc[u] = "push"}}

Apart(a, b) == a + ObjectSize <= b \/ b + ObjectSize <= a

(* No memory is handed out twice: objects never overlap each other, a slot *)
(* on freeList_, or the rest of the current block, and freeList_ has no    *)
(* slot twice; although freeList_ is cleared under the wrong lock.         *)
Exclusive ==
    /\ \A t, u \in Threads : t # u => owned[t] \cap owned[u] = {}
    /\ \A a, b \in InUse \cup ToSet(freeList_) : a # b => Apart(a, b)
    /\ InUse \cap ToSet(freeList_) = {}
    /\ Len(freeList_) = Cardinality(ToSet(freeList_))
    /\ BlockHasRoom => \A a \in InUse \cup ToSet(freeList_) : Apart(a, curSlot_)

(* An object lies inside a block, behind the link to the next block.       *)
InsideBlock ==
    \A a \in InUse :
        \E base \in blocks :
            base + PtrSize <= a /\ a + ObjectSize <= base + BlockSize_
=============================================================================
