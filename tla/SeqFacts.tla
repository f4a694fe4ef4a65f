------------------------------ MODULE SeqFacts ------------------------------
(* Facts about queues kept as sequences and about the least of a set of    *)
(* numbers, cited by the proof modules.                                    *)
EXTENDS Naturals, Sequences, FiniteSetsExt, SequenceTheorems,
        WellFoundedInduction, NaturalsInduction, TLAPS

(* A set of natural numbers that is not empty has a least member.          *)
LEMMA LeastNatural ==
  ASSUME NEW S \in SUBSET Nat, S # {}
  PROVE  Min(S) \in S /\ \A y \in S : Min(S) <= y
  <1> DEFINE R == {ss \in Nat \X Nat : ss[1] < ss[2]}
  <1>1. R = OpToRel(<, Nat)
    BY Zenon DEF OpToRel
  <1>2. IsWellFoundedOn(R, Nat)
    BY <1>1, NatLessThanWellFounded
  <1>3. \A a, b \in Nat : a < b => <<a, b>> \in R
    OBVIOUS
  <1> HIDE DEF R
  <1>4. PICK x \in S : \A y \in S : <<y, x>> \notin R
    BY <1>2, WFMin, Zenon
  <1>5. \A y \in S : x \in Nat /\ y \in Nat /\ ~(y < x)
    BY <1>3, <1>4, Zenon
  <1>6. \E z \in S : \A y \in S : z <= y
    BY <1>5
  <1> QED
    BY <1>6 DEF Min

(* What is in a queue after Append.                                        *)
LEMMA AppendAt ==
  ASSUME NEW S, NEW q \in Seq(S), NEW x \in S
  PROVE  /\ Append(q, x) \in Seq(S)
         /\ Len(q) \in Nat
         /\ Len(Append(q, x)) = Len(q) + 1
         /\ Append(q, x)[Len(q) + 1] = x
         /\ \A i \in 1..Len(q) : Append(q, x)[i] = q[i] /\ q[i] \in S
  OBVIOUS

(* What is in a queue after Tail.                                          *)
LEMMA TailAt ==
  ASSUME NEW S, NEW q \in Seq(S), q # <<>>
  PROVE  /\ Tail(q) \in Seq(S)
         /\ Len(q) \in Nat \ {0}
         /\ Len(Tail(q)) = Len(q) - 1
         /\ Head(q) = q[1] /\ Head(q) \in S
         /\ \A i \in 1..Len(Tail(q)) : Tail(q)[i] = q[i + 1] /\ i + 1 \in 1..Len(q)
  OBVIOUS

(* Appending to the second part of a queue appends to the whole queue.     *)
LEMMA ConcatAppend ==
  ASSUME NEW S, NEW a \in Seq(S), NEW b \in Seq(S), NEW x \in S
  PROVE  a \o Append(b, x) = Append(a \o b, x)
  OBVIOUS

(* Taking the head off the first part takes it off the whole queue.        *)
LEMMA ConcatHeadTail ==
  ASSUME NEW S, NEW a \in Seq(S), NEW b \in Seq(S), a # <<>>
  PROVE  /\ a \o b # <<>>
         /\ Head(a \o b) = Head(a)
         /\ Tail(a \o b) = Tail(a) \o b
  <1>1. Len(a) > 0
    OBVIOUS
  <1>2. Len(a \o b) = Len(a) + Len(b)
    OBVIOUS
  <1>3. a \o b # <<>>
    BY <1>1, <1>2
  <1>4. Head(a \o b) = Head(a)
    BY <1>1, <1>2
  <1>5. Tail(a \o b) = Tail(a) \o b
    <2> DEFINE l == Tail(a \o b)
               r == Tail(a) \o b
    <2>1. a \o b \in Seq(S) /\ Tail(a) \in Seq(S)
      BY <1>1
    <2>2. l \in Seq(S) /\ r \in Seq(S) /\ Len(l) = Len(r)
      BY <2>1, <1>1, <1>2, <1>3, HeadTailProperties, ConcatProperties
    <2>3. \A i \in 1..Len(l) : l[i] = r[i]
      BY <2>1, <1>1, <1>2, <1>3, HeadTailProperties, ConcatProperties
    <2> HIDE DEF l, r
    <2> QED
      BY <2>2, <2>3, SeqEqual DEF l, r
  <1> QED
    BY <1>3, <1>4, <1>5

(* Moving the head of one part to the end of the part before it leaves the *)
(* whole queue as it was.                                                  *)
LEMMA ShiftHead ==
  ASSUME NEW S, NEW a \in Seq(S), NEW b \in Seq(S), b # <<>>
  PROVE  Append(a, Head(b)) \o Tail(b) = a \o b
  <1> DEFINE l == Append(a, Head(b)) \o Tail(b)
             r == a \o b
  <1>1. Head(b) \in S /\ Tail(b) \in Seq(S) /\ Len(Tail(b)) = Len(b) - 1
        /\ Len(b) \in Nat \ {0} /\ Head(b) = b[1]
    BY HeadTailProperties, EmptySeq
  <1>2. Append(a, Head(b)) \in Seq(S) /\ Len(Append(a, Head(b))) = Len(a) + 1
    BY <1>1
  <1>3. l \in Seq(S) /\ r \in Seq(S) /\ Len(l) = Len(r)
    BY <1>1, <1>2, ConcatProperties
  <1>4. ASSUME NEW i \in 1..Len(l) PROVE l[i] = r[i]
    <2>1. l[i] = IF i <= Len(a) + 1 THEN Append(a, Head(b))[i]
                                    ELSE Tail(b)[i - (Len(a) + 1)]
      BY <1>1, <1>2, ConcatProperties
    <2>2. r[i] = IF i <= Len(a) THEN a[i] ELSE b[i - Len(a)]
      BY <1>1, <1>3, ConcatProperties
    <2>3. CASE i <= Len(a)
      BY <2>1, <2>2, <2>3, <1>1, <1>3
    <2>4. CASE i = Len(a) + 1
      BY <2>1, <2>2, <2>4, <1>1, <1>2
    <2>5. CASE i > Len(a) + 1
      BY <2>1, <2>2, <2>5, <1>1, <1>2, <1>3, HeadTailProperties
    <2> QED
      BY <2>3, <2>4, <2>5, <1>3
  <1> HIDE DEF l, r
  <1> QED
    BY <1>3, <1>4, SeqEqual DEF l, r
=============================================================================
