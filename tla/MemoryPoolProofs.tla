-------------------------- MODULE MemoryPoolProofs --------------------------
(***************************************************************************)
(* Proofs about MemoryPool, for any threads, any pool of the HashBucket,   *)
(* any blocks that operator new may return and any sequence of calls.      *)
(***************************************************************************)
EXTENDS MemoryPool, SeqFacts, FunctionTheorems, FiniteSetTheorems, TLAPS

(* The address a is on a chain; it is known to freeList_ or to a critical  *)
(* section; somebody has it; either.                                       *)
OnChain(s, a) == \E i \in 1..Len(s) : s[i] = a

Listed(a) == OnChain(freeList_, a) \/ \E t \in Threads : OnChain(seen[t], a)

Held(a) == \E t \in Threads : a \in owned[t] \/ (tpc[t] = "push" /\ a = freeing[t])

Used(a) == Held(a) \/ Listed(a)

Locked(t) == tpc[t] \in {"take", "push"}

TypeOK ==
    /\ blocks \subseteq Bases
    /\ curSlot_ \in Nat /\ lastSlot_ \in Nat
    /\ freeList_ \in Seq(Nat)
    /\ tpc \in [Threads -> {"idle", "pop", "take", "push", "block"}]
    /\ seen \in [Threads -> Seq(Nat)]
    /\ freeing \in [Threads -> Nat]
    /\ owned \in [Threads -> SUBSET Nat]

(* One thread at a time is between the read and the write of freeList_,    *)
(* and what it has read is what freeList_ holds, unless allocateNewBlock() *)
(* has cleared it meanwhile.                                               *)
LockInv ==
    /\ \A t, u \in Threads : Locked(t) /\ Locked(u) => t = u
    /\ \A t \in Threads : ~Locked(t) => seen[t] = <<>>
    /\ \A t \in Threads : tpc[t] = "take" => seen[t] # <<>>
    /\ \A t \in Threads : Locked(t) => freeList_ = seen[t] \/ freeList_ = <<>>

Distinct(s) == \A i, j \in 1..Len(s) : s[i] = s[j] => i = j

(* Nobody has what is on a chain or what somebody else has. *)
OwnersInv ==
    /\ Distinct(freeList_) /\ \A t \in Threads : Distinct(seen[t])
    /\ \A t, u \in Threads : t # u => owned[t] \cap owned[u] = {}
    /\ \A t \in Threads : \A a \in owned[t] : ~Listed(a)
    /\ \A t \in Threads :
         tpc[t] = "push" => ~Listed(freeing[t]) /\ \A u \in Threads : freeing[t] \notin owned[u]

InBlock(base, a) == base + PtrSize <= a /\ a + SlotSize_ <= base + BlockSize_

SlotsApart(a, b) == a + SlotSize_ <= b \/ b + SlotSize_ <= a

(* The slots lie side by side in the blocks, and the rest of the current   *)
(* block, from curSlot_ to its end, has none of them.                      *)
PlaceInv ==
    /\ \A a \in Nat : Used(a) => \E base \in blocks : InBlock(base, a)
    /\ \A a, b \in Nat : Used(a) /\ Used(b) /\ a # b => SlotsApart(a, b)
    /\ BlockHasRoom =>
         /\ \E base \in blocks : base + PtrSize <= curSlot_ /\ lastSlot_ = LastSlot(base)
         /\ \A a \in Nat : Used(a) => a + SlotSize_ <= curSlot_ \/ lastSlot_ + SlotSize_ - 1 <= a

IInv == TypeOK /\ LockInv /\ OwnersInv /\ PlaceInv

-----------------------------------------------------------------------------
(* Sizes. *)

(* A slot has room for the largest object of its pool.                     *)
LEMMA Sizes ==
  /\ SlotSize_ \in Nat \ {0} /\ PtrSize \in Nat \ {0} /\ BlockSize_ \in Nat
  /\ BlockSize_ >= PtrSize + 2 * SlotSize_
  /\ ObjectSize = SlotSize_
  <1>1. SlotSize_ = (Index + 1) * 8 /\ Index \in Nat
    BY SlotAssumption DEF SlotSize_
  <1>2. SlotSize_ \in Nat \ {0}
    BY <1>1
  <1> DEFINE S == {size \in 1..MAX_SLOT_SIZE : PoolOf(size) = Index}
  <1>3. \A size \in Nat : PoolOf(size) = ((size + 7) \div 8) - 1
    BY SlotAssumption DEF PoolOf
  <1>4. PoolOf(SlotSize_) = Index
    BY <1>1, <1>2, <1>3
  <1>5. SlotSize_ \in S
    BY <1>2, <1>4, SlotAssumption
  <1>6. \A size \in S : size \in Nat /\ size <= SlotSize_
    BY <1>1, <1>2, <1>3, SlotAssumption
  <1>7. ObjectSize = Max(S)
    BY DEF ObjectSize
  <1> HIDE DEF S
  <1>8. \A x \in S : (\A y \in S : x >= y) => x = SlotSize_
    BY <1>2, <1>5, <1>6
  <1>9. \E x \in S : \A y \in S : x >= y
    BY <1>2, <1>5, <1>6
  <1>10. Max(S) = SlotSize_
    BY <1>8, <1>9 DEF Max
  <1> QED
    BY <1>2, <1>7, <1>10, SlotAssumption

(* The next slot begins where one ends.                                    *)
LEMMA StepIsSlot == Step = SlotSize_
  <1>1. SlotSize_ % PtrSize = 0 /\ SlotSize_ \in Nat /\ PtrSize \in Nat \ {0}
    BY SlotAssumption, Sizes
  <1>2. \A n \in Nat, p \in Nat \ {0} : n = (n \div p) * p + (n % p)
    OBVIOUS
  <1>3. SlotSize_ = (SlotSize_ \div PtrSize) * PtrSize + (SlotSize_ % PtrSize)
    BY <1>1, <1>2
  <1>4. (SlotSize_ \div PtrSize) * PtrSize \in Nat
    BY <1>1
  <1> QED
    BY <1>1, <1>3, <1>4 DEF Step

(* The first slot of a block is behind the link to the next block, and it  *)
(* ends before the block does, whatever the padding is.                    *)
LEMMA FirstSlotFits ==
  ASSUME NEW base \in Bases
  PROVE  /\ base \in Nat /\ FirstSlot(base) \in Nat
         /\ InBlock(base, FirstSlot(base))
         /\ LastSlot(base) \in Nat /\ LastSlot(base) = base + BlockSize_ - SlotSize_ + 1
  <1>1. base \in Nat /\ base + BlockSize_ < AddrSpace /\ AddrSpace \in Nat \ {0}
    BY BasesAssumption, SlotAssumption
  <1> DEFINE body == base + PtrSize
             pad == padPointer(body, SlotSize_)
             n == (AddrSpace + SlotSize_ - body) % AddrSpace
  <1>2. body \in Nat /\ AddrSpace + SlotSize_ - body \in Nat
    BY <1>1, Sizes
  <1>3. \A x \in Nat, y \in Nat \ {0} : x % y \in 0..(y - 1)
    OBVIOUS
  <1>4. n \in Nat
    BY <1>1, <1>2, <1>3
  <1>5. pad = n % SlotSize_
    BY DEF padPointer
  <1> HIDE DEF n, pad
  <1>6. pad \in 0..(SlotSize_ - 1)
    BY <1>3, <1>4, <1>5, Sizes
  <1>7. FirstSlot(base) = base + PtrSize + pad
    BY DEF FirstSlot, pad
  <1> QED
    BY <1>1, <1>6, <1>7, Sizes DEF InBlock, LastSlot

(* A chain without repetition has as many slots as it is long.             *)
LEMMA DistinctCount ==
  ASSUME NEW s \in Seq(Nat), Distinct(s)
  PROVE  Len(s) = Cardinality(ToSet(s))
  <1>1. Len(s) \in Nat /\ DOMAIN s = 1..Len(s) /\ s \in [1..Len(s) -> Nat]
    OBVIOUS
  <1>2. ToSet(s) = {s[i] : i \in 1..Len(s)}
    BY <1>1 DEF ToSet
  <1>3. s \in [1..Len(s) -> ToSet(s)]
    BY <1>1, <1>2
  <1>4. s \in Injection(1..Len(s), ToSet(s))
    BY <1>3, Fun_IsInj DEF Distinct
  <1>5. s \in Surjection(1..Len(s), ToSet(s))
    BY <1>2, <1>3, Fun_IsSurj
  <1>6. IsFiniteSet(1..Len(s)) /\ Cardinality(1..Len(s)) = Len(s)
    <2>1. \A n \in Nat : IsFiniteSet(1..n) /\ Cardinality(1..n) = IF 1 > n THEN 0 ELSE n - 1 + 1
      BY FS_Interval
    <2> QED
      BY <1>1, <2>1
  <1> QED
    BY <1>4, <1>5, <1>6, FS_Surjection

-----------------------------------------------------------------------------
(* Steps. *)

(* A pool that was just made has no slot in use.                           *)
LEMMA InitInv == Init => IInv
  <1> SUFFICES ASSUME Init
               PROVE  IInv
    OBVIOUS
  <1>1. TypeOK
    <2>1. <<>> \in Seq(Nat) /\ 0 \in Nat
      OBVIOUS
    <2> QED
      BY <2>1 DEF Init, TypeOK, nullptr
  <1>2. freeList_ = <<>> /\ Len(freeList_) = 0
        /\ \A t \in Threads : tpc[t] = "idle" /\ seen[t] = <<>> /\ Len(seen[t]) = 0 /\ owned[t] = {}
    BY DEF Init
  <1>3. \A a : ~Used(a)
    BY <1>2 DEF Used, Held, Listed, OnChain
  <1>4. LockInv /\ OwnersInv
    BY <1>2 DEF LockInv, OwnersInv, Locked, Distinct
  <1>5. ~BlockHasRoom
    BY DEF Init, BlockHasRoom, nullptr
  <1> QED
    BY <1>1, <1>3, <1>4, <1>5 DEF IInv, PlaceInv

(* A step that uses no slot that was not used before.                      *)
LEMMA NoNewSlot ==
  ASSUME PlaceInv, UNCHANGED blockVars, \A a \in Nat : Used(a)' => Used(a)
  PROVE  PlaceInv'
  <1>1. UNCHANGED <<blocks, curSlot_, lastSlot_>>
    BY DEF blockVars
  <1> QED
    BY <1>1 DEF PlaceInv, BlockHasRoom, SlotsApart

(* A step that takes the slot where the rest of the current block begins.  *)
LEMMA SlotFromBlock ==
  ASSUME TypeOK, PlaceInv, BlockHasRoom, UNCHANGED <<blocks, lastSlot_>>,
         curSlot_' = curSlot_ + SlotSize_,
         \A a \in Nat : Used(a)' => Used(a) \/ a = curSlot_
  PROVE  PlaceInv' /\ ~Used(curSlot_)
  <1>1. /\ curSlot_ \in Nat /\ lastSlot_ \in Nat /\ SlotSize_ \in Nat \ {0} /\ PtrSize \in Nat
        /\ BlockSize_ \in Nat /\ curSlot_ < lastSlot_
    BY Sizes DEF TypeOK, BlockHasRoom
  <1>2. PICK base \in blocks : base + PtrSize <= curSlot_ /\ lastSlot_ = LastSlot(base)
    BY DEF PlaceInv
  <1>3. base \in Nat /\ lastSlot_ = base + BlockSize_ - SlotSize_ + 1
    BY <1>2, FirstSlotFits DEF TypeOK
  <1>4. InBlock(base, curSlot_)
    BY <1>1, <1>2, <1>3 DEF InBlock
  <1>5. \A a \in Nat : Used(a) => a + SlotSize_ <= curSlot_ \/ curSlot_ + SlotSize_ <= a
    BY <1>1 DEF PlaceInv
  <1>6. ~Used(curSlot_)
    BY <1>1, <1>5
  <1>7. \A a \in Nat : Used(a)' => \E b \in blocks : InBlock(b, a)
    BY <1>2, <1>4 DEF PlaceInv
  <1>8. \A a, b \in Nat : Used(a)' /\ Used(b)' /\ a # b => SlotsApart(a, b)
    BY <1>1, <1>5 DEF PlaceInv, SlotsApart
  <1>9. \A a \in Nat : Used(a)' => a + SlotSize_ <= curSlot_' \/ lastSlot_ + SlotSize_ - 1 <= a
    BY <1>1 DEF PlaceInv
  <1>10. base + PtrSize <= curSlot_'
    BY <1>1, <1>2, <1>3
  <1> QED
    BY <1>2, <1>6, <1>7, <1>8, <1>9, <1>10 DEF PlaceInv

(* A step that takes the first slot of a new block: blocks do not overlap. *)
LEMMA SlotFromNewBlock ==
  ASSUME TypeOK, PlaceInv, NEW base \in Bases \ blocks,
         blocks' = blocks \cup {base}, lastSlot_' = LastSlot(base),
         curSlot_' = FirstSlot(base) + SlotSize_,
         \A a \in Nat : Used(a)' => Used(a) \/ a = FirstSlot(base)
  PROVE  PlaceInv' /\ ~Used(FirstSlot(base))
  <1> DEFINE f == FirstSlot(base)
  <1>1. /\ base \in Nat /\ f \in Nat /\ base + PtrSize <= f /\ f + SlotSize_ <= base + BlockSize_
        /\ InBlock(base, f) /\ lastSlot_' = base + BlockSize_ - SlotSize_ + 1
        /\ SlotSize_ \in Nat \ {0} /\ PtrSize \in Nat /\ BlockSize_ \in Nat
    BY FirstSlotFits, Sizes DEF InBlock
  <1> HIDE DEF f
  <1>2. \A b \in blocks : b \in Nat /\ (b + BlockSize_ <= base \/ base + BlockSize_ <= b)
    BY <1>1, BasesAssumption DEF TypeOK
  <1>3. \A a \in Nat : Used(a) => a + SlotSize_ <= base \/ base + BlockSize_ <= a
    <2> SUFFICES ASSUME NEW a \in Nat, Used(a)
                 PROVE  a + SlotSize_ <= base \/ base + BlockSize_ <= a
      OBVIOUS
    <2>1. PICK b \in blocks : InBlock(b, a)
      BY DEF PlaceInv
    <2> QED
      BY <1>1, <1>2, <2>1 DEF InBlock
  <1>4. \A a \in Nat : Used(a) => SlotsApart(a, f) /\ a # f
    BY <1>1, <1>3 DEF SlotsApart
  <1>5. \A a \in Nat : Used(a)' => \E b \in blocks' : InBlock(b, a)
    BY <1>1 DEF PlaceInv, f
  <1>6. \A a, b \in Nat : Used(a)' /\ Used(b)' /\ a # b => SlotsApart(a, b)
    BY <1>4 DEF PlaceInv, SlotsApart, f
  <1>7. curSlot_' = f + SlotSize_ /\ base \in blocks' /\ base + PtrSize <= curSlot_'
    BY <1>1 DEF f
  <1>8. \A a \in Nat : Used(a)' => a + SlotSize_ <= curSlot_' \/ lastSlot_' + SlotSize_ - 1 <= a
    <2> SUFFICES ASSUME NEW a \in Nat, Used(a)'
                 PROVE  a + SlotSize_ <= curSlot_' \/ lastSlot_' + SlotSize_ - 1 <= a
      OBVIOUS
    <2>1. CASE Used(a)
      BY <1>1, <1>3, <1>7, <2>1
    <2>2. CASE a = f
      BY <1>1, <1>7, <2>2
    <2> QED
      BY <2>1, <2>2 DEF f
  <1> QED
    BY <1>1, <1>4, <1>5, <1>6, <1>7, <1>8 DEF PlaceInv, f

(* Taking the first slot off a chain.                                      *)
LEMMA ChainTail ==
  ASSUME NEW s \in Seq(Nat), s # <<>>, Distinct(s)
  PROVE  /\ Head(s) \in Nat /\ OnChain(s, Head(s))
         /\ Tail(s) \in Seq(Nat) /\ Distinct(Tail(s))
         /\ \A a : OnChain(Tail(s), a) => OnChain(s, a) /\ a # Head(s)
  <1>1. /\ Len(s) \in Nat \ {0} /\ Tail(s) \in Seq(Nat) /\ Len(Tail(s)) = Len(s) - 1
        /\ \A i \in 1..Len(s) - 1 : Tail(s)[i] = s[i + 1]
        /\ Head(s) = s[1] /\ s[1] \in Nat
    OBVIOUS
  <1>2. OnChain(s, Head(s))
    BY <1>1 DEF OnChain
  <1>3. Distinct(Tail(s))
    <2> SUFFICES ASSUME NEW i \in 1..Len(Tail(s)), NEW j \in 1..Len(Tail(s)), Tail(s)[i] = Tail(s)[j]
                 PROVE  i = j
      BY DEF Distinct
    <2>1. i + 1 \in 1..Len(s) /\ j + 1 \in 1..Len(s) /\ s[i + 1] = s[j + 1]
      BY <1>1
    <2>2. i + 1 = j + 1
      BY <2>1 DEF Distinct
    <2> QED
      BY <1>1, <2>2
  <1>4. \A a : OnChain(Tail(s), a) => OnChain(s, a) /\ a # Head(s)
    <2> SUFFICES ASSUME NEW i \in 1..Len(Tail(s))
                 PROVE  OnChain(s, Tail(s)[i]) /\ Tail(s)[i] # s[1]
      BY <1>1 DEF OnChain
    <2>1. i + 1 \in 1..Len(s) /\ 1 \in 1..Len(s) /\ Tail(s)[i] = s[i + 1] /\ i + 1 # 1
      BY <1>1
    <2> QED
      BY <2>1 DEF OnChain, Distinct
  <1> QED
    BY <1>1, <1>2, <1>3, <1>4

(* Putting a slot in front of a chain that does not have it.               *)
LEMMA ChainPush ==
  ASSUME NEW s \in Seq(Nat), NEW x \in Nat, Distinct(s), ~OnChain(s, x)
  PROVE  /\ <<x>> \o s \in Seq(Nat) /\ Distinct(<<x>> \o s)
         /\ \A a : OnChain(<<x>> \o s, a) => OnChain(s, a) \/ a = x
  <1> DEFINE c == <<x>> \o s
  <1>1. /\ Len(s) \in Nat /\ c \in Seq(Nat) /\ Len(c) = Len(s) + 1 /\ c[1] = x
        /\ \A i \in 1..Len(c) : i # 1 => c[i] = s[i - 1] /\ i - 1 \in 1..Len(s)
    OBVIOUS
  <1> HIDE DEF c
  <1>2. \A i \in 1..Len(c) : c[i] = x => i = 1
    BY <1>1 DEF OnChain
  <1>3. Distinct(c)
    <2> SUFFICES ASSUME NEW i \in 1..Len(c), NEW j \in 1..Len(c), c[i] = c[j]
                 PROVE  i = j
      BY DEF Distinct
    <2>1. CASE i = 1 \/ j = 1
      BY <1>1, <1>2, <2>1
    <2>2. CASE i # 1 /\ j # 1
      <3>1. i - 1 = j - 1
        BY <1>1, <2>2 DEF Distinct
      <3> QED
        BY <3>1
    <2> QED
      BY <2>1, <2>2
  <1>4. \A a : OnChain(c, a) => OnChain(s, a) \/ a = x
    BY <1>1 DEF OnChain
  <1> QED
    BY <1>1, <1>3, <1>4 DEF c

(* A thread that only moves on, outside the critical sections.             *)
LEMMA MoveInv ==
  ASSUME IInv, NEW t \in Threads, NEW where \in {"idle", "pop", "block"},
         ~Locked(t), tpc' = [tpc EXCEPT ![t] = where],
         UNCHANGED <<blockVars, freeList_, seen, freeing, owned>>
  PROVE  IInv'
  <1>1. TypeOK'
    BY DEF IInv, TypeOK, blockVars
  <1>2. /\ \A u \in Threads : Locked(u)' <=> Locked(u)
        /\ \A u \in Threads : (tpc[u] = "take")' <=> tpc[u] = "take"
        /\ \A u \in Threads : (tpc[u] = "push")' <=> tpc[u] = "push"
    <2> SUFFICES ASSUME NEW u \in Threads
                 PROVE  (Locked(u)' <=> Locked(u)) /\ ((tpc[u] = "take")' <=> tpc[u] = "take")
                        /\ ((tpc[u] = "push")' <=> tpc[u] = "push")
      OBVIOUS
    <2>1. CASE u = t
      BY <2>1 DEF IInv, TypeOK, Locked
    <2>2. CASE u # t
      BY <2>2 DEF IInv, TypeOK, Locked
    <2> QED
      BY <2>1, <2>2
  <1>3. LockInv'
    BY <1>2 DEF IInv, LockInv
  <1>4. \A a : (Listed(a)' <=> Listed(a)) /\ (Held(a)' <=> Held(a))
    BY <1>2 DEF Listed, Held
  <1>5. OwnersInv'
    BY <1>2, <1>4 DEF IInv, OwnersInv
  <1>6. PlaceInv'
    BY <1>4, NoNewSlot DEF IInv, Used
  <1> QED
    BY <1>1, <1>3, <1>5, <1>6 DEF IInv

(* allocate() reads freeList_ under the lock.                              *)
LEMMA PopReadInv == ASSUME IInv, NEW t \in Threads, PopRead(t) PROVE IInv'
  <1>1. CASE freeList_ = <<>>
    BY <1>1, MoveInv DEF PopRead, Goto, Locked
  <1>2. CASE freeList_ # <<>>
    <2>0. UNCHANGED <<blockVars, blocks, curSlot_, lastSlot_, freeList_, freeing, owned>>
      BY DEF PopRead, blockVars
    <2>1. /\ tpc[t] = "pop" /\ tpc'[t] = "take" /\ seen'[t] = freeList_
          /\ \A u \in Threads : ~Locked(u)
          /\ \A u \in Threads : u # t => tpc'[u] = tpc[u] /\ seen'[u] = seen[u]
      BY <1>2 DEF PopRead, Goto, IInv, TypeOK, Unlocked, Locked
    <2>2. TypeOK'
      BY <1>2, <2>0 DEF PopRead, Goto, IInv, TypeOK
    <2>3. \A u \in Threads : Locked(u)' <=> u = t
      BY <2>1 DEF Locked
    <2>4. LockInv'
      BY <1>2, <2>0, <2>1, <2>3 DEF IInv, LockInv
    <2>5. \A a : Listed(a)' => Listed(a)
      BY <2>0, <2>1 DEF Listed
    <2>6. \A u \in Threads : tpc'[u] = "push" <=> tpc[u] = "push"
      BY <2>1
    <2>7. \A a : Held(a)' => Held(a)
      BY <2>0, <2>6 DEF Held
    <2>8. \A u \in Threads : Distinct(seen[u])'
      <3> SUFFICES ASSUME NEW u \in Threads PROVE Distinct(seen'[u])
        BY DEF Distinct
      <3> QED
        BY <2>1 DEF IInv, OwnersInv
    <2>9. OwnersInv'
      BY <2>0, <2>5, <2>6, <2>8 DEF IInv, OwnersInv
    <2>10. PlaceInv'
      BY <2>0, <2>5, <2>7, NoNewSlot DEF IInv, Used
    <2> QED
      BY <2>2, <2>4, <2>9, <2>10 DEF IInv
  <1> QED
    BY <1>1, <1>2

(* allocate() takes the first slot off what it has read.                   *)
LEMMA PopTakeInv == ASSUME IInv, NEW t \in Threads, PopTake(t) PROVE IInv'
  <1>0. UNCHANGED <<blockVars, blocks, curSlot_, lastSlot_>>
    BY DEF PopTake, blockVars
  <1> DEFINE x == Head(seen[t])
  <1>1. seen[t] \in Seq(Nat) /\ seen[t] # <<>> /\ Distinct(seen[t]) /\ tpc[t] = "take"
    BY DEF IInv, TypeOK, LockInv, OwnersInv, PopTake
  <1>2. /\ x \in Nat /\ OnChain(seen[t], x) /\ Tail(seen[t]) \in Seq(Nat) /\ Distinct(Tail(seen[t]))
        /\ \A a : OnChain(Tail(seen[t]), a) => OnChain(seen[t], a) /\ a # x
    BY <1>1, ChainTail
  <1>3. /\ tpc'[t] = "idle" /\ seen'[t] = <<>> /\ owned'[t] = owned[t] \cup {x}
        /\ freeList_' = Tail(seen[t])
        /\ \A u \in Threads : u # t => /\ tpc'[u] = tpc[u] /\ seen'[u] = seen[u]
                                       /\ owned'[u] = owned[u] /\ freeing'[u] = freeing[u]
    BY DEF PopTake, Popped, Done, Goto, Gets, IInv, TypeOK
  <1>4. TypeOK'
    <2>1. owned' \in [Threads -> SUBSET Nat]
      BY <1>2 DEF PopTake, Gets, IInv, TypeOK
    <2>2. <<>> \in Seq(Nat) /\ nullptr \in Nat
      BY DEF nullptr
    <2> QED
      BY <1>0, <1>2, <1>3, <2>1, <2>2 DEF PopTake, Done, Goto, IInv, TypeOK
  <1>5. \A u \in Threads : u # t => ~Locked(u) /\ seen[u] = <<>>
    BY <1>1 DEF Locked, IInv, LockInv
  <1>6. \A u \in Threads : ~Locked(u)' /\ tpc'[u] # "push" /\ tpc'[u] # "take" /\ seen'[u] = <<>>
    <2> SUFFICES ASSUME NEW u \in Threads
                 PROVE  tpc'[u] # "push" /\ tpc'[u] # "take" /\ seen'[u] = <<>>
      BY DEF Locked
    <2>1. CASE u = t
      BY <2>1, <1>3
    <2>2. CASE u # t
      BY <2>2, <1>3, <1>5 DEF Locked
    <2> QED
      BY <2>1, <2>2
  <1>7. LockInv'
    BY <1>6 DEF LockInv
  <1>8. \A a : ~OnChain(<<>>, a)
    BY DEF OnChain
  <1>9. \A a : Listed(a)' => Listed(a) /\ a # x
    BY <1>2, <1>3, <1>6, <1>8 DEF Listed
  <1>10. Listed(x)
    BY <1>2 DEF Listed
  <1>11. \A a : Held(a)' => Held(a) \/ a = x
    BY <1>3, <1>6 DEF Held
  <1>12. \A u \in Threads : x \notin owned[u]
    BY <1>10 DEF IInv, OwnersInv
  <1>13. OwnersInv'
    <2>1. Distinct(freeList_)' /\ \A u \in Threads : Distinct(seen[u])'
      BY <1>2, <1>3, <1>6 DEF Distinct
    <2>2. \A u, v \in Threads : u # v => owned'[u] \cap owned'[v] = {}
      BY <1>3, <1>12 DEF IInv, OwnersInv
    <2>3. \A u \in Threads : \A a \in owned'[u] : ~Listed(a)'
      BY <1>3, <1>9 DEF IInv, OwnersInv
    <2> QED
      BY <1>6, <2>1, <2>2, <2>3 DEF OwnersInv
  <1>14. PlaceInv'
    BY <1>0, <1>9, <1>10, <1>11, NoNewSlot DEF IInv, Used
  <1> QED
    BY <1>4, <1>7, <1>13, <1>14 DEF IInv

(* allocate() takes a slot that was nobody's from a block; freeList_ stays *)
(* or is cleared.                                                          *)
LEMMA TakeSlotInv ==
  ASSUME IInv, NEW t \in Threads, NEW slot \in Nat, ~Locked(t), TakeSlot(t, slot),
         blocks' \subseteq Bases, lastSlot_' \in Nat, ~Used(slot),
         freeList_' = freeList_ \/ freeList_' = <<>>
  PROVE  TypeOK' /\ LockInv' /\ OwnersInv'
  <1>1. /\ tpc'[t] = "idle" /\ owned'[t] = owned[t] \cup {slot}
        /\ \A u \in Threads : u # t => tpc'[u] = tpc[u] /\ owned'[u] = owned[u]
        /\ UNCHANGED <<seen, freeing>>
    BY DEF TakeSlot, Goto, Gets, IInv, TypeOK
  <1>2. TypeOK'
    <2>1. owned' \in [Threads -> SUBSET Nat]
      BY DEF TakeSlot, Gets, IInv, TypeOK
    <2>2. tpc' \in [Threads -> {"idle", "pop", "take", "push", "block"}]
      BY DEF TakeSlot, Goto, IInv, TypeOK
    <2>3. curSlot_' \in Nat
      BY StepIsSlot, Sizes DEF TakeSlot
    <2>4. freeList_' \in Seq(Nat)
      <3>1. <<>> \in Seq(Nat)
        OBVIOUS
      <3> QED
        BY <3>1 DEF IInv, TypeOK
    <2> QED
      BY <1>1, <2>1, <2>2, <2>3, <2>4 DEF IInv, TypeOK
  <1>3. \A u \in Threads : /\ Locked(u)' <=> Locked(u)
                           /\ tpc'[u] = "take" <=> tpc[u] = "take"
                           /\ tpc'[u] = "push" <=> tpc[u] = "push"
    <2> SUFFICES ASSUME NEW u \in Threads
                 PROVE  /\ tpc'[u] = "take" <=> tpc[u] = "take"
                        /\ tpc'[u] = "push" <=> tpc[u] = "push"
      BY DEF Locked
    <2>1. CASE u = t
      BY <1>1, <2>1 DEF Locked
    <2>2. CASE u # t
      BY <1>1, <2>2
    <2> QED
      BY <2>1, <2>2
  <1>4. LockInv'
    BY <1>1, <1>3 DEF IInv, LockInv
  <1>5. \A a : ~OnChain(<<>>, a)
    BY DEF OnChain
  <1>6. \A a : Listed(a)' => Listed(a)
    BY <1>1, <1>5 DEF Listed
  <1>8. ~Listed(slot) /\ ~Held(slot)
    BY DEF Used
  <1>9. \A u \in Threads : slot \notin owned[u] /\ (tpc[u] = "push" => freeing[u] # slot)
    BY <1>8 DEF Held
  <1>10. OwnersInv'
    <2>1. Distinct(freeList_)' /\ \A u \in Threads : Distinct(seen[u])'
      <3>1. Distinct(<<>>)
        BY DEF Distinct
      <3>2. Distinct(freeList_')
        BY <3>1 DEF IInv, OwnersInv
      <3> QED
        BY <1>1, <3>2 DEF IInv, OwnersInv, Distinct
    <2>2. \A u, v \in Threads : u # v => owned'[u] \cap owned'[v] = {}
      BY <1>1, <1>9 DEF IInv, OwnersInv
    <2>3. \A u \in Threads : \A a \in owned'[u] : a \in owned[u] \/ a = slot
      BY <1>1
    <2>4. \A u \in Threads : \A a \in owned'[u] : ~Listed(a)'
      BY <1>6, <1>8, <2>3 DEF IInv, OwnersInv
    <2>5. \A u \in Threads : tpc'[u] = "push" =>
             ~Listed(freeing[u]) /\ \A v \in Threads : freeing[u] \notin owned'[v]
      BY <1>3, <1>9, <2>3 DEF IInv, OwnersInv
    <2> QED
      BY <1>1, <1>6, <2>1, <2>2, <2>4, <2>5 DEF OwnersInv
  <1> QED
    BY <1>2, <1>4, <1>10

(* Such a step uses one more slot at the most.                             *)
LEMMA TakeSlotUses ==
  ASSUME TypeOK, NEW t \in Threads, NEW slot \in Nat, ~Locked(t), TakeSlot(t, slot),
         freeList_' = freeList_ \/ freeList_' = <<>>
  PROVE  \A a \in Nat : Used(a)' => Used(a) \/ a = slot
  <1>1. /\ tpc'[t] = "idle" /\ owned'[t] = owned[t] \cup {slot}
        /\ \A u \in Threads : u # t => tpc'[u] = tpc[u] /\ owned'[u] = owned[u]
        /\ UNCHANGED <<seen, freeing>>
    BY DEF TakeSlot, Goto, Gets, TypeOK
  <1>2. \A a : ~OnChain(<<>>, a)
    BY DEF OnChain
  <1>3. \A a : Listed(a)' => Listed(a)
    BY <1>1, <1>2 DEF Listed
  <1>4. \A a : Held(a)' => Held(a) \/ a = slot
    BY <1>1 DEF Held
  <1> QED
    BY <1>3, <1>4 DEF Used

(* allocate() from the current block.                                      *)
LEMMA FromBlockInv == ASSUME IInv, NEW t \in Threads, FromBlock(t) PROVE IInv'
  <1>1. /\ BlockHasRoom /\ UNCHANGED <<blocks, lastSlot_, freeList_>> /\ TakeSlot(t, curSlot_)
        /\ curSlot_ \in Nat /\ ~Locked(t) /\ TypeOK /\ PlaceInv
        /\ blocks' \subseteq Bases /\ lastSlot_' \in Nat
    BY DEF FromBlock, Locked, IInv, TypeOK
  <1>2. curSlot_' = curSlot_ + SlotSize_
    BY <1>1, StepIsSlot DEF TakeSlot
  <1>3. \A a \in Nat : Used(a)' => Used(a) \/ a = curSlot_
    BY <1>1, TakeSlotUses
  <1>4. PlaceInv' /\ ~Used(curSlot_)
    BY <1>1, <1>2, <1>3, SlotFromBlock
  <1>5. PICK slot \in Nat : slot = curSlot_
    BY <1>1
  <1>6. TypeOK' /\ LockInv' /\ OwnersInv'
    BY <1>1, <1>4, <1>5, TakeSlotInv
  <1> QED
    BY <1>4, <1>6 DEF IInv

(* allocate() from a new block.                                            *)
LEMMA NewBlockInv == ASSUME IInv, NEW t \in Threads, allocateNewBlock(t) PROVE IInv'
  <1>1. PICK base \in Bases \ blocks : /\ blocks' = blocks \cup {base}
                                       /\ lastSlot_' = LastSlot(base)
                                       /\ TakeSlot(t, FirstSlot(base))
    BY DEF allocateNewBlock
  <1>2. PICK slot \in Nat : slot = FirstSlot(base)
    BY FirstSlotFits
  <1>3. /\ ~Locked(t) /\ TypeOK /\ PlaceInv /\ freeList_' = <<>>
        /\ blocks' \subseteq Bases /\ lastSlot_' \in Nat /\ TakeSlot(t, slot)
    BY <1>1, <1>2, FirstSlotFits DEF allocateNewBlock, Locked, IInv, TypeOK
  <1>4. curSlot_' = FirstSlot(base) + SlotSize_
    BY <1>1, StepIsSlot DEF TakeSlot
  <1>5. \A a \in Nat : Used(a)' => Used(a) \/ a = slot
    BY <1>3, TakeSlotUses
  <1>6. PlaceInv' /\ ~Used(slot)
    BY <1>1, <1>2, <1>3, <1>4, <1>5, SlotFromNewBlock
  <1>7. TypeOK' /\ LockInv' /\ OwnersInv'
    BY <1>3, <1>6, TakeSlotInv
  <1> QED
    BY <1>6, <1>7 DEF IInv

(* deallocate() reads freeList_ under the lock.                            *)
LEMMA PushReadInv ==
  ASSUME IInv, NEW t \in Threads, NEW slot \in owned[t], PushRead(t, slot)
  PROVE  IInv'
  <1>0. UNCHANGED <<blockVars, blocks, curSlot_, lastSlot_, freeList_>>
    BY DEF PushRead, blockVars
  <1>1. slot \in Nat /\ ~Listed(slot) /\ \A u \in Threads : slot \in owned[u] => u = t
    BY DEF IInv, TypeOK, OwnersInv
  <1>2. /\ tpc'[t] = "push" /\ seen'[t] = freeList_ /\ freeing'[t] = slot
        /\ owned'[t] = owned[t] \ {slot}
        /\ \A u \in Threads : ~Locked(u)
        /\ \A u \in Threads : u # t => /\ tpc'[u] = tpc[u] /\ seen'[u] = seen[u]
                                       /\ owned'[u] = owned[u] /\ freeing'[u] = freeing[u]
    BY DEF PushRead, Goto, IInv, TypeOK, Unlocked, Locked
  <1>3. TypeOK'
    <2>1. owned' \in [Threads -> SUBSET Nat]
      BY DEF PushRead, IInv, TypeOK
    <2> QED
      BY <1>0, <1>1, <2>1 DEF PushRead, Goto, IInv, TypeOK
  <1>4. \A u \in Threads : (Locked(u)' <=> u = t) /\ (tpc'[u] = "push" <=> u = t)
                           /\ tpc'[u] # "take"
    BY <1>2 DEF Locked
  <1>5. LockInv'
    BY <1>0, <1>2, <1>4 DEF IInv, LockInv
  <1>6. \A a : Listed(a)' => Listed(a)
    BY <1>0, <1>2 DEF Listed
  <1>7. \A a : Held(a)' => Held(a)
    BY <1>2, <1>4 DEF Held
  <1>8. OwnersInv'
    <2>1. \A u \in Threads : Distinct(seen[u])'
      <3> SUFFICES ASSUME NEW u \in Threads PROVE Distinct(seen'[u])
        BY DEF Distinct
      <3> QED
        BY <1>2 DEF IInv, OwnersInv
    <2>2. \A u \in Threads : owned'[u] \subseteq owned[u] /\ slot \notin owned'[u]
      BY <1>1, <1>2
    <2>3. \A u, v \in Threads : u # v => owned'[u] \cap owned'[v] = {}
      BY <2>2 DEF IInv, OwnersInv
    <2>4. \A u \in Threads : \A a \in owned'[u] : ~Listed(a)'
      BY <1>6, <2>2 DEF IInv, OwnersInv
    <2>5. \A u \in Threads : tpc'[u] = "push" => freeing'[u] = slot
      BY <1>2, <1>4
    <2>6. ~Listed(slot)'
      BY <1>1, <1>6
    <2>7. \A u \in Threads : tpc'[u] = "push" =>
             ~Listed(freeing[u])' /\ \A v \in Threads : freeing'[u] \notin owned'[v]
      BY <2>2, <2>5, <2>6 DEF Listed
    <2> QED
      BY <1>0, <2>1, <2>3, <2>4, <2>7 DEF IInv, OwnersInv
  <1>9. PlaceInv'
    BY <1>0, <1>6, <1>7, NoNewSlot DEF IInv, Used
  <1> QED
    BY <1>3, <1>5, <1>8, <1>9 DEF IInv

(* deallocate() puts the slot in front of what it has read.                *)
LEMMA PushWriteInv == ASSUME IInv, NEW t \in Threads, PushWrite(t) PROVE IInv'
  <1>0. UNCHANGED <<blockVars, blocks, curSlot_, lastSlot_, owned>>
    BY DEF PushWrite, blockVars
  <1> DEFINE x == freeing[t]
             c == <<x>> \o seen[t]
  <1>1. /\ seen[t] \in Seq(Nat) /\ x \in Nat /\ tpc[t] = "push" /\ Distinct(seen[t])
        /\ ~Listed(x) /\ \A u \in Threads : x \notin owned[u]
    BY DEF PushWrite, IInv, TypeOK, OwnersInv
  <1>2. ~OnChain(seen[t], x)
    BY <1>1 DEF Listed
  <1>3. c \in Seq(Nat) /\ Distinct(c) /\ \A a : OnChain(c, a) => OnChain(seen[t], a) \/ a = x
    BY <1>1, <1>2, ChainPush
  <1>4. /\ tpc'[t] = "idle" /\ seen'[t] = <<>> /\ freeList_' = c
        /\ \A u \in Threads : u # t => tpc'[u] = tpc[u] /\ seen'[u] = seen[u]
    BY DEF PushWrite, Done, Goto, IInv, TypeOK
  <1> HIDE DEF c
  <1>5. TypeOK'
    <2>1. <<>> \in Seq(Nat) /\ nullptr \in Nat
      BY DEF nullptr
    <2> QED
      BY <1>0, <1>3, <1>4, <2>1 DEF PushWrite, Done, Goto, IInv, TypeOK
  <1>6. \A u \in Threads : u # t => ~Locked(u) /\ seen[u] = <<>>
    BY <1>1 DEF Locked, IInv, LockInv
  <1>7. \A u \in Threads : ~Locked(u)' /\ tpc'[u] # "push" /\ tpc'[u] # "take" /\ seen'[u] = <<>>
    <2> SUFFICES ASSUME NEW u \in Threads
                 PROVE  tpc'[u] # "push" /\ tpc'[u] # "take" /\ seen'[u] = <<>>
      BY DEF Locked
    <2>1. CASE u = t
      BY <2>1, <1>4
    <2>2. CASE u # t
      BY <2>2, <1>4, <1>6 DEF Locked
    <2> QED
      BY <2>1, <2>2
  <1>8. LockInv'
    BY <1>7 DEF LockInv
  <1>9. \A a : ~OnChain(<<>>, a)
    BY DEF OnChain
  <1>10. \A a : Listed(a)' => Listed(a) \/ a = x
    BY <1>3, <1>4, <1>7, <1>9 DEF Listed
  <1>11. \A a : Held(a)' => Held(a)
    BY <1>0, <1>7 DEF Held
  <1>12. Held(x)
    BY <1>1 DEF Held
  <1>13. OwnersInv'
    <2>1. Distinct(freeList_)' /\ \A u \in Threads : Distinct(seen[u])'
      BY <1>3, <1>4, <1>7 DEF Distinct
    <2>2. \A u \in Threads : \A a \in owned[u] : ~Listed(a)'
      BY <1>1, <1>10 DEF IInv, OwnersInv
    <2> QED
      BY <1>0, <1>7, <2>1, <2>2 DEF IInv, OwnersInv
  <1>14. PlaceInv'
    BY <1>0, <1>10, <1>11, <1>12, NoNewSlot DEF IInv, Used
  <1> QED
    BY <1>5, <1>8, <1>13, <1>14 DEF IInv

(* A step that leaves everything but crashed alone.                        *)
LEMMA IdleInv ==
  ASSUME IInv, UNCHANGED <<blockVars, freeList_, tpc, seen, freeing, owned>>
  PROVE  IInv'
  <1>1. UNCHANGED <<blocks, curSlot_, lastSlot_>>
    BY DEF blockVars
  <1>2. TypeOK'
    BY <1>1 DEF IInv, TypeOK
  <1>3. LockInv'
    BY DEF IInv, LockInv, Locked
  <1>4. \A a : (Listed(a)' <=> Listed(a)) /\ (Used(a)' <=> Used(a))
    BY DEF Used, Listed, Held
  <1>5. OwnersInv'
    BY <1>4 DEF IInv, OwnersInv
  <1>6. PlaceInv'
    BY <1>4, NoNewSlot DEF IInv
  <1> QED
    BY <1>2, <1>3, <1>5, <1>6 DEF IInv

-----------------------------------------------------------------------------
(* The theorems. *)

(* Every step of allocate() and deallocate() keeps the invariant.          *)
THEOREM Invariant == Spec => []IInv
  <1>1. IInv /\ [Next]_vars => IInv'
    <2> SUFFICES ASSUME IInv, [Next]_vars
                 PROVE  IInv'
      OBVIOUS
    <2>1. ASSUME NEW t \in Threads, LookAtFreeList(t)
          PROVE  IInv'
      BY <2>1, MoveInv DEF LookAtFreeList, Goto, Locked
    <2>2. ASSUME NEW t \in Threads, PopRead(t)
          PROVE  IInv'
      BY <2>2, PopReadInv
    <2>3. ASSUME NEW t \in Threads, PopTake(t)
          PROVE  IInv'
      BY <2>3, PopTakeInv
    <2>4. ASSUME NEW t \in Threads, PopNull(t)
          PROVE  IInv'
      BY <2>4, IdleInv DEF PopNull
    <2>5. ASSUME NEW t \in Threads, FromBlock(t)
          PROVE  IInv'
      BY <2>5, FromBlockInv
    <2>6. ASSUME NEW t \in Threads, allocateNewBlock(t)
          PROVE  IInv'
      BY <2>6, NewBlockInv
    <2>7. ASSUME NEW t \in Threads, NEW slot \in owned[t], PushRead(t, slot)
          PROVE  IInv'
      BY <2>7, PushReadInv
    <2>8. ASSUME NEW t \in Threads, PushWrite(t)
          PROVE  IInv'
      BY <2>8, PushWriteInv
    <2>9. CASE UNCHANGED vars
      BY <2>9, IdleInv DEF vars, blockVars
    <2> QED
      BY <2>1, <2>2, <2>3, <2>4, <2>5, <2>6, <2>7, <2>8, <2>9
         DEF Next, Allocate, Deallocate, OutOfMemory
  <1> QED
    BY <1>1, InitInv, PTL DEF Spec

(* What is in use has a thread that has it.                                *)
LEMMA InUseHeld == ASSUME TypeOK, NEW a \in InUse PROVE a \in Nat /\ Held(a)
  <1>1. CASE a \in UNION {owned[t] : t \in Threads}
    <2>1. PICK t \in Threads : a \in owned[t]
      BY <1>1
    <2> QED
      BY <2>1 DEF Held, TypeOK
  <1>2. CASE a \in {freeing[t] : t \in {u \in Threads : tpc[u] = "push"}}
    <2>1. PICK t \in Threads : tpc[t] = "push" /\ a = freeing[t]
      BY <1>2
    <2> QED
      BY <2>1 DEF Held, TypeOK
  <1> QED
    BY <1>1, <1>2, Zenon DEF InUse

(* No memory is handed out twice, although freeList_ is cleared under the  *)
(* wrong lock: what a thread has popped, or is about to put back, is       *)
(* nobody else's, and a chain that was cleared is lost, not shared.        *)
THEOREM NoSlotTwice == Spec => []Exclusive
  <1>1. IInv => Exclusive
    <2> SUFFICES ASSUME IInv
                 PROVE  Exclusive
      OBVIOUS
    <2>1. \A a \in InUse : a \in Nat /\ Held(a)
      BY InUseHeld DEF IInv
    <2>2. \A a \in ToSet(freeList_) : a \in Nat /\ OnChain(freeList_, a)
      <3>1. DOMAIN freeList_ = 1..Len(freeList_) /\ freeList_ \in [1..Len(freeList_) -> Nat]
        BY DEF IInv, TypeOK
      <3> QED
        BY <3>1 DEF ToSet, OnChain
    <2>3. \A a \in InUse \cup ToSet(freeList_) : a \in Nat /\ Used(a)
      BY <2>1, <2>2 DEF Used, Listed
    <2>4. \A t, u \in Threads : t # u => owned[t] \cap owned[u] = {}
      BY DEF IInv, OwnersInv
    <2>5. \A a, b \in InUse \cup ToSet(freeList_) : a # b => Apart(a, b)
      BY <2>3, Sizes DEF IInv, PlaceInv, SlotsApart, Apart
    <2>6. InUse \cap ToSet(freeList_) = {}
      BY <2>1, <2>2 DEF Held, Listed, IInv, OwnersInv
    <2>7. Len(freeList_) = Cardinality(ToSet(freeList_))
      BY DistinctCount DEF IInv, TypeOK, OwnersInv
    <2>8. BlockHasRoom => \A a \in InUse \cup ToSet(freeList_) : Apart(a, curSlot_)
      <3> SUFFICES ASSUME BlockHasRoom, NEW a \in InUse \cup ToSet(freeList_)
                   PROVE  Apart(a, curSlot_)
        OBVIOUS
      <3>1. a \in Nat /\ (a + SlotSize_ <= curSlot_ \/ lastSlot_ + SlotSize_ - 1 <= a)
        BY <2>3 DEF IInv, PlaceInv
      <3>2. curSlot_ \in Nat /\ lastSlot_ \in Nat /\ curSlot_ < lastSlot_
        BY DEF BlockHasRoom, IInv, TypeOK
      <3> QED
        BY <3>1, <3>2, Sizes DEF Apart
    <2> QED
      BY <2>4, <2>5, <2>6, <2>7, <2>8 DEF Exclusive
  <1> QED
    BY <1>1, Invariant, PTL

(* An object lies inside a block, behind the link to the next block: what  *)
(* allocateNewBlock() makes of padding and lastSlot_ is in bounds.         *)
THEOREM ObjectsInBlocks == Spec => []InsideBlock
  <1>1. IInv => InsideBlock
    <2> SUFFICES ASSUME IInv, NEW a \in InUse
                 PROVE  \E base \in blocks : base + PtrSize <= a /\ a + ObjectSize <= base + BlockSize_
      BY DEF InsideBlock
    <2>1. a \in Nat /\ Used(a)
      BY InUseHeld DEF Used, IInv
    <2> QED
      BY <2>1, Sizes DEF IInv, PlaceInv, InBlock
  <1> QED
    BY <1>1, Invariant, PTL
=============================================================================
