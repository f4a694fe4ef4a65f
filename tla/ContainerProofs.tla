-------------------------- MODULE ContainerProofs --------------------------
(***************************************************************************)
(* Proofs about the two containers of the repository.                      *)
(* Buffer: for every size of the vector, of its prefix and of extrabuf,    *)
(* and every sequence of calls.                                            *)
(* LfuCache: for every set of keys, hash, capacity, number of slices,      *)
(* maxAverageNum_ and INT8_MAX.                                            *)
(***************************************************************************)
EXTENDS Buffer, LfuCache, SeqFacts, FunctionTheorems, FiniteSetTheorems, TLAPS

-----------------------------------------------------------------------------
(* Buffer.                                                                 *)

(* A buffer whose indices are in order and inside its vector.              *)
Shaped(b) ==
    /\ b \in [cells : Seq(Nat), reader : Nat, writer : Nat]
    /\ kCheapPrepend <= b.reader /\ b.reader <= b.writer /\ b.writer <= Len(b.cells)

(* Its readable bytes are those numbered from first + 1 to last.           *)
Holds(b, first, last) ==
    /\ b.writer - b.reader = last - first
    /\ \A i \in (b.reader + 1)..b.writer : b.cells[i] = first + (i - b.reader)

IInv ==
    /\ Shaped(This)
    /\ put \in Nat /\ taken \in Nat /\ taken <= put
    /\ Holds(This, taken, put)

(* The same of a buffer with vector C of length L, reader R and writer W.  *)
Laid(b, C, R, W, L, first, last) ==
    /\ b = [cells |-> C, reader |-> R, writer |-> W]
    /\ b.cells = C /\ b.reader = R /\ b.writer = W
    /\ Len(C) = L /\ DOMAIN C = 1..L /\ \A i \in 1..L : C[i] \in Nat
    /\ kCheapPrepend \in Nat /\ kCheapPrepend <= R /\ R <= W /\ W <= L
    /\ W - R = last - first
    /\ \A i \in (R + 1)..W : C[i] = first + (i - R)

-----------------------------------------------------------------------------
(* The sizes are numbers.                                                  *)
LEMMA Sizes ==
  kCheapPrepend \in Nat /\ kInitialSize \in Nat /\ ExtraSize \in Nat /\ MaxBytes \in Nat
  BY SizeAssumption, Zenon

(* The parts of a buffer with the bytes from first + 1 to last.            *)
LEMMA Parts ==
  ASSUME NEW b, NEW first \in Nat, NEW last \in Nat, Shaped(b), Holds(b, first, last)
  PROVE  \E C \in Seq(Nat), R \in Nat, W \in Nat, L \in Nat : Laid(b, C, R, W, L, first, last)
  <1>1. PICK C \in Seq(Nat), R \in Nat, W \in Nat : b = [cells |-> C, reader |-> R, writer |-> W]
    BY DEF Shaped
  <1>2. b.cells = C /\ b.reader = R /\ b.writer = W
    BY <1>1
  <1>3. PICK L \in Nat : Len(C) = L /\ DOMAIN C = 1..L /\ \A i \in 1..L : C[i] \in Nat
    OBVIOUS
  <1>4. kCheapPrepend \in Nat /\ kCheapPrepend <= R /\ R <= W /\ W <= L
    BY <1>2, <1>3, Sizes DEF Shaped
  <1>5. W - R = last - first /\ \A i \in (R + 1)..W : C[i] = first + (i - R)
    BY <1>2 DEF Holds
  <1>6. Laid(b, C, R, W, L, first, last)
    BY <1>1, <1>2, <1>3, <1>4, <1>5 DEF Laid
  <1> QED
    BY <1>6

(* Bytes written behind the readable ones into the writable part join them *)
(* in order, and the indices stay inside the vector.                       *)
LEMMA WrittenOK ==
  ASSUME NEW b, NEW first \in Nat, NEW last \in Nat, NEW len \in Nat, first <= last,
         Shaped(b), Holds(b, first, last), len <= writableBytes(b)
  PROVE  Shaped(Written(b, last, len)) /\ Holds(Written(b, last, len), first, last + len)
  <1>0. PICK C \in Seq(Nat), R \in Nat, W \in Nat, L \in Nat : Laid(b, C, R, W, L, first, last)
    BY Parts
  <1>1. /\ b = [cells |-> C, reader |-> R, writer |-> W]
        /\ b.cells = C /\ b.reader = R /\ b.writer = W
        /\ Len(C) = L /\ DOMAIN C = 1..L /\ \A i \in 1..L : C[i] \in Nat
        /\ kCheapPrepend \in Nat /\ kCheapPrepend <= R /\ R <= W /\ W <= L
        /\ W - R = last - first
        /\ \A i \in (R + 1)..W : C[i] = first + (i - R)
    BY <1>0, Zenon DEF Laid
  <1>2. W + len <= L
    BY <1>1 DEF writableBytes
  <1> DEFINE c == [i \in 1..L |-> IF i > W /\ i <= W + len THEN last + (i - W) ELSE C[i]]
  <1>3. c \in [1..L -> Nat]
    BY <1>1
  <1>4. c \in Seq(Nat) /\ Len(c) = L
    BY <1>1, <1>3
  <1>5. Written(b, last, len) = [cells |-> c, reader |-> R, writer |-> W + len]
    <2>1. Written(b, last, len) = [b EXCEPT !.cells = c, !.writer = W + len]
      <3>1. b.cells = C /\ b.writer = W /\ DOMAIN C = 1..L
        BY <1>1
      <3> QED
        BY <3>1 DEF Written, Copy
    <2>2. b = [cells |-> C, reader |-> R, writer |-> W]
      BY <1>1
    <2> HIDE DEF c
    <2> QED
      BY <2>1, <2>2
  <1>6. \A i \in 1..L : c[i] = IF i > W /\ i <= W + len THEN last + (i - W) ELSE C[i]
    OBVIOUS
  <1> HIDE DEF c
  <1>7. \A i \in (R + 1)..(W + len) : c[i] = first + (i - R)
    <2> SUFFICES ASSUME NEW i \in (R + 1)..(W + len)
                 PROVE  c[i] = first + (i - R)
      OBVIOUS
    <2>1. i \in 1..L
      BY <1>1, <1>2
    <2>2. CASE i <= W
      BY <1>1, <1>6, <2>1, <2>2
    <2>3. CASE i > W
      <3>1. c[i] = last + (i - W)
        BY <1>6, <2>1, <2>3
      <3>2. W - R = last - first
        BY <1>1
      <3> QED
        BY <3>1, <3>2
    <2> QED
      BY <2>2, <2>3
  <1>8. Holds(Written(b, last, len), first, last + len)
    <2>1. (W + len) - R = (last + len) - first
      BY <1>1
    <2> QED
      BY <1>5, <1>7, <2>1 DEF Holds
  <1>9. Shaped(Written(b, last, len))
    BY <1>1, <1>2, <1>4, <1>5 DEF Shaped
  <1> QED
    BY <1>8, <1>9

(* ensureWritableBytes() makes room for len bytes and keeps the readable   *)
(* ones, whether it lets the vector grow or moves them to the front.       *)
LEMMA EnsureOK ==
  ASSUME NEW b, NEW first \in Nat, NEW last \in Nat, NEW len \in Nat, first <= last,
         Shaped(b), Holds(b, first, last)
  PROVE  LET e == ensureWritableBytes(b, len)
         IN  Shaped(e) /\ Holds(e, first, last) /\ len <= writableBytes(e)
  <1>0. PICK C \in Seq(Nat), R \in Nat, W \in Nat, L \in Nat : Laid(b, C, R, W, L, first, last)
    BY Parts
  <1>1. /\ b = [cells |-> C, reader |-> R, writer |-> W]
        /\ b.cells = C /\ b.reader = R /\ b.writer = W
        /\ Len(C) = L /\ DOMAIN C = 1..L /\ \A i \in 1..L : C[i] \in Nat
        /\ kCheapPrepend \in Nat /\ kCheapPrepend <= R /\ R <= W /\ W <= L
        /\ W - R = last - first
        /\ \A i \in (R + 1)..W : C[i] = first + (i - R)
    BY <1>0, Zenon DEF Laid
  <1> DEFINE e == ensureWritableBytes(b, len)
  <1>2. CASE ~(writableBytes(b) < len)
    <2>1. e = b /\ len <= writableBytes(b)
      BY <1>1, <1>2 DEF ensureWritableBytes, writableBytes
    <2> QED
      BY <2>1
  <1>3. CASE writableBytes(b) < len /\ TooTight(b, len)
    <2> DEFINE n == W + len
               c == [i \in 1..n |-> IF i <= L THEN C[i] ELSE 0]
    <2>1. n \in Nat /\ L < n
      BY <1>1, <1>3 DEF writableBytes
    <2>2. c \in [1..n -> Nat]
      BY <1>1, <2>1
    <2>3. c \in Seq(Nat) /\ Len(c) = n
      BY <2>1, <2>2
    <2>4. e = [cells |-> c, reader |-> R, writer |-> W]
      BY <1>1, <1>3 DEF ensureWritableBytes, makeSpace
    <2>5. \A i \in 1..L : c[i] = C[i]
      BY <1>1, <2>1
    <2> HIDE DEF c, e
    <2>6. Shaped(e)
      BY <1>1, <2>1, <2>3, <2>4 DEF Shaped
    <2>7. \A i \in (R + 1)..W : i \in 1..L
      BY <1>1
    <2>8. Holds(e, first, last)
      BY <1>1, <2>4, <2>5, <2>7 DEF Holds
    <2>9. len <= writableBytes(e)
      BY <1>1, <2>3, <2>4 DEF writableBytes
    <2> QED
      BY <2>6, <2>8, <2>9 DEF e
  <1>4. CASE writableBytes(b) < len /\ ~TooTight(b, len)
    <2> DEFINE k == kCheapPrepend
               r == W - R
               c == [i \in 1..L |-> IF i > k /\ i <= k + r THEN C[R + (i - k)] ELSE C[i]]
    <2>1. k \in Nat /\ r \in Nat /\ k + r <= W /\ k + r + len <= L
      BY <1>1, <1>4 DEF TooTight, writableBytes, prependableBytes
    <2>2. \A i \in (k + 1)..(k + r) : R + (i - k) \in (R + 1)..W /\ R + (i - k) \in 1..L
      BY <1>1, <2>1
    <2>3. c \in [1..L -> Nat]
      BY <1>1, <2>1, <2>2
    <2>4. c \in Seq(Nat) /\ Len(c) = L
      BY <1>1, <2>3
    <2>5. e = [cells |-> c, reader |-> k, writer |-> k + r]
      BY <1>1, <1>4 DEF ensureWritableBytes, makeSpace, Moved, readableBytes, Copy
    <2>6. \A i \in (k + 1)..(k + r) : c[i] = first + (i - k)
      <3> SUFFICES ASSUME NEW i \in (k + 1)..(k + r)
                   PROVE  c[i] = first + (i - k)
        OBVIOUS
      <3>1. i \in 1..L /\ c[i] = C[R + (i - k)]
        BY <1>1, <2>1
      <3>2. PICK j \in (R + 1)..W : j = R + (i - k)
        BY <2>2
      <3>3. C[j] = first + (j - R) /\ j - R = i - k
        BY <1>1, <2>1, <3>2
      <3> QED
        BY <3>1, <3>2, <3>3
    <2> HIDE DEF c, e, k
    <2>7. Shaped(e)
      <3>1. kCheapPrepend \in Nat /\ k = kCheapPrepend /\ k + r \in Nat /\ k + r <= L /\ k <= k + r
        BY <1>1, <2>1 DEF k
      <3> QED
        BY <2>4, <2>5, <3>1 DEF Shaped
    <2>8. Holds(e, first, last)
      BY <1>1, <2>1, <2>5, <2>6 DEF Holds
    <2>9. len <= writableBytes(e)
      BY <1>1, <2>1, <2>4, <2>5 DEF writableBytes
    <2> QED
      BY <2>7, <2>8, <2>9 DEF e
  <1> QED
    BY <1>2, <1>3, <1>4

(* append() puts its bytes behind the readable ones.                       *)
LEMMA AppendOK ==
  ASSUME NEW b, NEW first \in Nat, NEW last \in Nat, NEW len \in Nat, first <= last,
         Shaped(b), Holds(b, first, last)
  PROVE  Shaped(append(b, last, len)) /\ Holds(append(b, last, len), first, last + len)
  <1> DEFINE e == ensureWritableBytes(b, len)
  <1>1. Shaped(e) /\ Holds(e, first, last) /\ len <= writableBytes(e)
    BY EnsureOK
  <1> HIDE DEF e
  <1>2. Shaped(Written(e, last, len)) /\ Holds(Written(e, last, len), first, last + len)
    BY <1>1, WrittenOK
  <1> QED
    BY <1>2 DEF append, e

(* readFd() fills the writable part and appends the rest.                  *)
LEMMA SpilledOK ==
  ASSUME NEW b, NEW first \in Nat, NEW last \in Nat, NEW len \in Nat, first <= last,
         Shaped(b), Holds(b, first, last), writableBytes(b) <= len
  PROVE  Shaped(Spilled(b, last, len)) /\ Holds(Spilled(b, last, len), first, last + len)
  <1> DEFINE w == writableBytes(b)
             f == Written(b, last, w)
  <1>1. w \in Nat /\ len - w \in Nat /\ w <= w
    BY DEF Shaped, writableBytes
  <1> HIDE DEF w
  <1>2. Shaped(f) /\ Holds(f, first, last + w)
    BY <1>1, WrittenOK DEF w
  <1> HIDE DEF f
  <1>3. last + w \in Nat /\ first <= last + w /\ (last + w) + (len - w) = last + len
    BY <1>1
  <1>4. /\ Shaped(append(f, last + w, len - w))
        /\ Holds(append(f, last + w, len - w), first, (last + w) + (len - w))
    BY <1>1, <1>2, <1>3, AppendOK
  <1> QED
    BY <1>3, <1>4 DEF Spilled, w, f

(* retrieve() takes bytes from the front.                                  *)
LEMMA RetrievedOK ==
  ASSUME NEW b, NEW first \in Nat, NEW last \in Nat, NEW len \in Nat, first <= last,
         Shaped(b), Holds(b, first, last), len <= readableBytes(b)
  PROVE  /\ Shaped(Retrieved(b, len)) /\ Holds(Retrieved(b, len), first + len, last)
         /\ first + len <= last
  <1>0. PICK C \in Seq(Nat), R \in Nat, W \in Nat, L \in Nat : Laid(b, C, R, W, L, first, last)
    BY Parts
  <1>1. /\ b = [cells |-> C, reader |-> R, writer |-> W]
        /\ b.cells = C /\ b.reader = R /\ b.writer = W
        /\ Len(C) = L /\ DOMAIN C = 1..L /\ \A i \in 1..L : C[i] \in Nat
        /\ kCheapPrepend \in Nat /\ kCheapPrepend <= R /\ R <= W /\ W <= L
        /\ W - R = last - first
        /\ \A i \in (R + 1)..W : C[i] = first + (i - R)
    BY <1>0, Zenon DEF Laid
  <1>2. CASE len < readableBytes(b)
    <2>1. Retrieved(b, len) = [cells |-> C, reader |-> R + len, writer |-> W]
      BY <1>1, <1>2 DEF Retrieved
    <2>2. \A i \in (R + len + 1)..W : C[i] = (first + len) + (i - (R + len))
      BY <1>1
    <2>3. /\ R + len \in Nat /\ kCheapPrepend <= R + len /\ R + len <= W
          /\ W - (R + len) = last - (first + len) /\ first + len <= last
      BY <1>1, <1>2 DEF readableBytes
    <2>4. Shaped(Retrieved(b, len))
      BY <1>1, <2>1, <2>3 DEF Shaped
    <2>5. Holds(Retrieved(b, len), first + len, last)
      <3>1. PICK x : x = Retrieved(b, len)
        OBVIOUS
      <3>2. x.cells = C /\ x.reader = R + len /\ x.writer = W
        BY <2>1, <3>1
      <3>3. Holds(x, first + len, last)
        BY <2>2, <2>3, <3>2, Zenon DEF Holds
      <3> QED
        BY <3>1, <3>3
    <2> QED
      BY <2>3, <2>4, <2>5
  <1>3. CASE ~(len < readableBytes(b))
    <2>1. len = last - first
      BY <1>1, <1>3 DEF readableBytes
    <2>2. Retrieved(b, len) = [cells |-> C, reader |-> kCheapPrepend, writer |-> kCheapPrepend]
      BY <1>1, <1>3 DEF Retrieved
    <2> QED
      BY <1>1, <2>1, <2>2 DEF Shaped, Holds
  <1> QED
    BY <1>2, <1>3

-----------------------------------------------------------------------------
(* The buffer of the next state is the value an operation gives.           *)
LEMMA BecomesThis ==
  ASSUME NEW b, Shaped(b), Becomes(b) PROVE This' = b
  BY DEF Shaped, Becomes, This

(* Every operation keeps the indices in order and the bytes in theirs.     *)
THEOREM Invariant == Spec => []IInv
  <1>1. Init => IInv
    <2> SUFFICES ASSUME Init PROVE IInv
      OBVIOUS
    <2>1. PICK n \in Nat : n = kCheapPrepend + kInitialSize
      BY Sizes
    <2>2. Zeros(n) \in [1..n -> Nat]
      BY DEF Zeros
    <2>3. Zeros(n) \in Seq(Nat) /\ Len(Zeros(n)) = n
      BY <2>2
    <2>4. This = [cells |-> Zeros(n), reader |-> kCheapPrepend, writer |-> kCheapPrepend]
      BY <2>1 DEF Init, This
    <2>5. Shaped(This)
      BY <2>1, <2>3, <2>4, Sizes DEF Shaped
    <2> QED
      BY <2>4, <2>5, Sizes DEF Init, IInv, Holds
  <1>2. IInv /\ [Next]_vars => IInv'
    <2> SUFFICES ASSUME IInv, [Next]_vars
                 PROVE  IInv'
      OBVIOUS
    <2>1. PICK b : b = This
      OBVIOUS
    <2>2. PICK p \in Nat, q \in Nat : p = put /\ q = taken /\ q <= p
      BY DEF IInv
    <2>3. Shaped(b) /\ Holds(b, q, p)
      BY <2>1, <2>2 DEF IInv
    <2>4. \A c : \A m, n \in Nat :
             Shaped(c) /\ Becomes(c) /\ Holds(c, n, m) /\ n <= m /\ put' = m /\ taken' = n => IInv'
      <3> SUFFICES ASSUME NEW c, NEW m \in Nat, NEW n \in Nat, Shaped(c), Becomes(c),
                          Holds(c, n, m), n <= m, put' = m, taken' = n
                   PROVE  IInv'
        OBVIOUS
      <3>1. This' = c
        BY BecomesThis
      <3> QED
        BY <3>1 DEF IInv, Shaped, Holds
    <2>5. ASSUME NEW len \in 1..MaxBytes, AppendBytes(len)
          PROVE  IInv'
      <3>1. PICK c : c = append(b, p, len)
        OBVIOUS
      <3>2. Shaped(c) /\ Holds(c, q, p + len)
        BY <2>2, <2>3, <3>1, AppendOK, Sizes
      <3>3. Becomes(c) /\ put' = p + len /\ taken' = q /\ p + len \in Nat /\ q <= p + len
        BY <2>1, <2>2, <2>5, <3>1, Sizes DEF AppendBytes
      <3> QED
        BY <2>4, <3>2, <3>3
    <2>6. ASSUME NEW len \in 0..MaxBytes, Retrieve(len)
          PROVE  IInv'
      <3>1. PICK c : c = Retrieved(b, len)
        OBVIOUS
      <3>2. /\ Becomes(c) /\ put' = p /\ taken' = q + len /\ len <= readableBytes(b)
            /\ len \in Nat /\ q + len \in Nat
        BY <2>1, <2>2, <2>6, <3>1, Sizes DEF Retrieve
      <3>3. Shaped(c) /\ Holds(c, q + len, p) /\ q + len <= p
        BY <2>2, <2>3, <3>1, <3>2, RetrievedOK
      <3> QED
        BY <2>4, <3>2, <3>3
    <2>7. ASSUME NEW len \in 1..MaxBytes, ReadFd(len)
          PROVE  IInv'
      <3>1. PICK c : c = IF len <= writableBytes(b) THEN Written(b, p, len)
                                                    ELSE Spilled(b, p, len)
        OBVIOUS
      <3>2. /\ Becomes(c) /\ put' = p + len /\ taken' = q
            /\ len \in Nat /\ p + len \in Nat /\ q <= p + len
        BY <2>1, <2>2, <2>7, <3>1, Sizes DEF ReadFd
      <3>3. CASE len <= writableBytes(b)
        <4>1. Shaped(c) /\ Holds(c, q, p + len)
          BY <2>2, <2>3, <3>1, <3>2, <3>3, WrittenOK
        <4> QED
          BY <2>4, <3>2, <4>1
      <3>4. CASE ~(len <= writableBytes(b))
        <4>1. writableBytes(b) <= len
          BY <2>3, <3>4 DEF Shaped, writableBytes
        <4>2. Shaped(c) /\ Holds(c, q, p + len)
          BY <2>2, <2>3, <3>1, <3>4, <4>1, SpilledOK
        <4> QED
          BY <2>4, <3>2, <4>2
      <3> QED
        BY <3>3, <3>4
    <2>8. CASE UNCHANGED vars
      BY <2>8 DEF vars, IInv, This, Shaped, Holds
    <2> QED
      BY <2>5, <2>6, <2>7, <2>8 DEF Next
  <1> QED
    BY <1>1, <1>2, PTL DEF Spec

(* The indices stay in order and inside the vector: no operation writes    *)
(* past the end of buffer_ or into the reserved prefix.                    *)
THEOREM IndicesStayOK == Spec => []IndicesOK
  <1>1. IInv => IndicesOK
    BY DEF IInv, Shaped, This, IndicesOK
  <1> QED
    BY <1>1, Invariant, PTL

(* What is readable is what was put in and not yet retrieved, in order.    *)
THEOREM ReadableStaysFifo == Spec => []ReadableIsFifo
  <1>1. IInv => ReadableIsFifo
    <2> SUFFICES ASSUME IInv PROVE ReadableIsFifo
      OBVIOUS
    <2> DEFINE s == SubSeq(buffer_, readerIndex_ + 1, writerIndex_)
               n == put - taken
    <2>1. /\ buffer_ \in Seq(Nat) /\ readerIndex_ \in Nat /\ writerIndex_ \in Nat
          /\ readerIndex_ <= writerIndex_ /\ writerIndex_ <= Len(buffer_)
          /\ n \in Nat /\ writerIndex_ - readerIndex_ = n
          /\ \A i \in (readerIndex_ + 1)..writerIndex_ : buffer_[i] = taken + (i - readerIndex_)
      BY DEF IInv, Shaped, Holds, This
    <2> HIDE DEF n
    <2>2. s = [i \in 1..n |-> buffer_[i + (readerIndex_ + 1) - 1]]
      BY <2>1
    <2>3. \A i \in 1..n : buffer_[i + (readerIndex_ + 1) - 1] = taken + i
      <3> SUFFICES ASSUME NEW i \in 1..n
                   PROVE  buffer_[i + (readerIndex_ + 1) - 1] = taken + i
        OBVIOUS
      <3>1. PICK j \in (readerIndex_ + 1)..writerIndex_ :
               j = i + (readerIndex_ + 1) - 1 /\ j - readerIndex_ = i
        BY <2>1
      <3> QED
        BY <2>1, <3>1
    <2> QED
      BY <2>2, <2>3 DEF ReadableIsFifo, n
  <1> QED
    BY <1>1, Invariant, PTL

-----------------------------------------------------------------------------
(* LfuCache.                                                               *)

(* A list that holds each of the keys S once.                              *)
Enumerates(s, S) ==
    /\ s \in Seq(Keys)
    /\ \A i \in 1..Len(s) : s[i] \in S
    /\ \A k \in S : \E i \in 1..Len(s) : s[i] = k
    /\ \A i, j \in 1..Len(s) : s[i] = s[j] => i = j

ListMaps == UNION {[D -> Seq(Keys)] : D \in SUBSET Nat}

Shards == [freq : [Keys -> Nat], lists : ListMaps, minFreq : Nat, total : Int]

(* Every node but that of k is in the list of its frequency and in no      *)
(* other.                                                                  *)
ListedBut(c, k) ==
    /\ \A f \in DOMAIN c.lists : f # 0 /\ Enumerates(c.lists[f], WithFreq(c.freq, f) \ {k})
    /\ \A j \in Cached(c) \ {k} : c.freq[j] \in DOMAIN c.lists

(* Every node is, and the list of new nodes is there.                      *)
Listed(c) ==
    /\ \A f \in DOMAIN c.lists : f # 0 /\ Enumerates(c.lists[f], WithFreq(c.freq, f))
    /\ \A j \in Cached(c) : c.freq[j] \in DOMAIN c.lists
    /\ Cached(c) # {} => 1 \in DOMAIN c.lists

(* minFreq_ is the least frequency of a node.                              *)
LeastKnown(c) ==
    /\ \E k \in Cached(c) : c.freq[k] = c.minFreq
    /\ \A k \in Cached(c) : c.minFreq <= c.freq[k]

ShardInv(c) ==
    /\ c \in Shards
    /\ Listed(c)
    /\ IsFiniteSet(Cached(c))
    /\ c.minFreq # 0
    /\ Cached(c) # {} => LeastKnown(c) \/ MinFreqLost(c)

InOrder ==
    /\ slices \in [Slices -> Shards]
    /\ \A s \in Slices : ShardInv(slices[s])
    /\ \A s \in Slices : MinFreqLost(slices[s]) => lost
    /\ ~lost => \A s \in Slices : Cardinality(Cached(slices[s])) <= sliceSize

(* A dummy takes a cached key only after minFreq_ was lost, and before it  *)
(* does the cache is in order.                                             *)
LfuInv == (~orphaned => InOrder) /\ (orphaned => lost)

-----------------------------------------------------------------------------
(* What the constants of the cache are.                                    *)
LEMMA LfuConstants ==
  /\ capacity_ \in Nat /\ maxAverageNum_ \in Nat /\ MaxTotal \in Nat
  /\ INT8_MAX \in Nat /\ INT8_MAX > 1
  /\ sliceNum_ \in Nat /\ sliceNum_ > 0 /\ sliceSize \in Nat
  <1>1. /\ capacity_ \in Nat /\ maxAverageNum_ \in Nat /\ MaxTotal \in Nat
        /\ INT8_MAX \in Nat /\ INT8_MAX > 1
        /\ sliceNum_ \in Nat /\ sliceNum_ > 0
    BY CapacityAssumption, SliceAssumption
  <1>2. capacity_ + sliceNum_ - 1 \in Nat
    BY <1>1
  <1>3. \A n \in Nat : n \div sliceNum_ \in Nat
    BY <1>1
  <1> QED
    BY <1>1, <1>2, <1>3 DEF sliceSize

(* Unlinking a node closes the gap.                                        *)
LEMMA RemoveAtFacts ==
  ASSUME NEW S, NEW s \in Seq(S), NEW i \in 1..Len(s)
  PROVE  /\ RemoveAt(s, i) \in Seq(S)
         /\ Len(RemoveAt(s, i)) = Len(s) - 1
         /\ \A j \in 1..(Len(s) - 1) :
              RemoveAt(s, i)[j] = IF j < i THEN s[j] ELSE s[j + 1]
  <1> DEFINE a == SubSeq(s, 1, i - 1)
             b == SubSeq(s, i + 1, Len(s))
  <1>1. PICK n \in Nat : n = Len(s)
    OBVIOUS
  <1>2. i \in Nat /\ 1 <= i /\ i <= n
    BY <1>1
  <1>3. \A j \in 1..n : s[j] \in S
    BY <1>1
  <1>4. a \in Seq(S) /\ Len(a) = i - 1 /\ \A j \in 1..(i - 1) : a[j] = s[j]
    <2>1. \A j \in 1..(i - 1) : s[j] \in S
      BY <1>2, <1>3
    <2>2. /\ a \in Seq(S)
          /\ Len(a) = IF 1 <= i - 1 THEN (i - 1) - 1 + 1 ELSE 0
          /\ \A j \in 1..((i - 1) - 1 + 1) : a[j] = s[1 + j - 1]
      BY <1>2, <2>1, SubSeqProperties
    <2> HIDE DEF a
    <2>3. \A j \in 1..(i - 1) : 1 + j - 1 = j
      BY <1>2
    <2> QED
      BY <1>2, <2>2, <2>3
  <1>5. b \in Seq(S) /\ Len(b) = n - i /\ \A j \in 1..(n - i) : b[j] = s[i + j]
    <2>1. \A j \in (i + 1)..n : s[j] \in S
      BY <1>2, <1>3
    <2>2. /\ b \in Seq(S)
          /\ Len(b) = IF i + 1 <= n THEN n - (i + 1) + 1 ELSE 0
          /\ \A j \in 1..(n - (i + 1) + 1) : b[j] = s[(i + 1) + j - 1]
      BY <1>1, <1>2, <2>1, SubSeqProperties
    <2> HIDE DEF b
    <2>3. \A j \in 1..(n - i) : (i + 1) + j - 1 = i + j
      BY <1>2
    <2> QED
      BY <1>2, <2>2, <2>3
  <1> HIDE DEF a, b
  <1>6. /\ a \o b \in Seq(S) /\ Len(a \o b) = Len(a) + Len(b)
        /\ \A j \in 1..(Len(a) + Len(b)) :
             (a \o b)[j] = IF j <= Len(a) THEN a[j] ELSE b[j - Len(a)]
    BY <1>4, <1>5, ConcatProperties
  <1>7. RemoveAt(s, i) = a \o b
    BY DEF RemoveAt, a, b
  <1>8. ASSUME NEW j \in 1..(n - 1)
        PROVE  (a \o b)[j] = IF j < i THEN s[j] ELSE s[j + 1]
    <2>1. CASE j < i
      BY <1>2, <1>4, <1>5, <1>6, <2>1
    <2>2. CASE ~(j < i)
      <3>1. j - (i - 1) \in 1..(n - i) /\ i + (j - (i - 1)) = j + 1
        BY <1>2, <2>2
      <3> QED
        BY <1>2, <1>4, <1>5, <1>6, <2>2, <3>1
    <2> QED
      BY <2>1, <2>2
  <1>9. Len(a) + Len(b) = n - 1
    BY <1>1, <1>2, <1>4, <1>5
  <1>10. /\ RemoveAt(s, i) \in Seq(S) /\ Len(RemoveAt(s, i)) = n - 1
         /\ \A j \in 1..(n - 1) :
              RemoveAt(s, i)[j] = IF j < i THEN s[j] ELSE s[j + 1]
    BY <1>6, <1>7, <1>8, <1>9
  <1> QED
    BY <1>1, <1>10

(* removeNode() takes the one node of k out of its list.                   *)
LEMMA RemoveNodeFacts ==
  ASSUME NEW S \in SUBSET Keys, NEW s, Enumerates(s, S), NEW k \in S
  PROVE  Enumerates(removeNode(s, k), S \ {k})
  <1>1. s \in Seq(Keys)
    BY DEF Enumerates
  <1>2. PICK n \in Nat : n = Len(s) /\ DOMAIN s = 1..n
    BY <1>1
  <1> DEFINE i == CHOOSE x \in DOMAIN s : s[x] = k
             r == RemoveAt(s, i)
  <1>3. i \in 1..n /\ s[i] = k
    BY <1>1, <1>2 DEF Enumerates
  <1> HIDE DEF i
  <1>4. r \in Seq(Keys) /\ Len(r) = n - 1
        /\ \A j \in 1..(n - 1) : r[j] = IF j < i THEN s[j] ELSE s[j + 1]
    BY <1>1, <1>2, <1>3, RemoveAtFacts
  <1> HIDE DEF r
  <1>5. \A j \in 1..n : s[j] \in S
    BY <1>2 DEF Enumerates
  <1>6. \A x, y \in 1..n : s[x] = s[y] => x = y
    BY <1>2 DEF Enumerates
  <1>7. \A j \in 1..(n - 1) : j \in 1..n /\ j + 1 \in 1..n
    OBVIOUS
  <1>8. ASSUME NEW j \in 1..(n - 1) PROVE r[j] \in S \ {k}
    <2>1. CASE j < i
      BY <1>3, <1>4, <1>5, <1>6, <1>7, <2>1
    <2>2. CASE ~(j < i)
      BY <1>3, <1>4, <1>5, <1>6, <1>7, <2>2
    <2> QED
      BY <2>1, <2>2
  <1>9. ASSUME NEW x \in S \ {k} PROVE \E j \in 1..(n - 1) : r[j] = x
    <2>1. PICK y \in 1..n : s[y] = x
      BY <1>2 DEF Enumerates
    <2>2. CASE y < i
      <3>1. y \in 1..(n - 1)
        BY <1>3, <2>2
      <3> QED
        BY <1>4, <2>1, <2>2, <3>1
    <2>3. CASE y > i
      <3>1. y - 1 \in 1..(n - 1) /\ (y - 1) + 1 = y /\ ~(y - 1 < i)
        BY <1>3, <2>3
      <3> QED
        BY <1>4, <2>1, <3>1
    <2>4. y # i
      BY <1>3, <2>1
    <2> QED
      BY <1>3, <2>2, <2>3, <2>4
  <1>10. ASSUME NEW x \in 1..(n - 1), NEW y \in 1..(n - 1), r[x] = r[y] PROVE x = y
    <2> DEFINE p == IF x < i THEN x ELSE x + 1
               q == IF y < i THEN y ELSE y + 1
    <2>1. p \in 1..n /\ q \in 1..n /\ r[x] = s[p] /\ r[y] = s[q]
      BY <1>4, <1>7
    <2>2. p = q
      BY <1>6, <1>10, <2>1
    <2> QED
      BY <1>3, <2>2
  <1>11. Enumerates(r, S \ {k})
    BY <1>4, <1>8, <1>9, <1>10 DEF Enumerates
  <1> QED
    BY <1>11 DEF removeNode, r, i

(* addNode() puts a node at the end of a list that does not have it.       *)
LEMMA AddNodeFacts ==
  ASSUME NEW S \in SUBSET Keys, NEW s, Enumerates(s, S), NEW k \in Keys, k \notin S
  PROVE  Enumerates(addNode(s, k), S \cup {k})
  <1>1. s \in Seq(Keys)
    BY DEF Enumerates
  <1>2. PICK n \in Nat : n = Len(s)
    BY <1>1
  <1> DEFINE r == Append(s, k)
  <1>3. r \in Seq(Keys) /\ Len(r) = n + 1 /\ r[n + 1] = k /\ \A j \in 1..n : r[j] = s[j]
    BY <1>1, <1>2, AppendAt
  <1> HIDE DEF r
  <1>4. \A j \in 1..n : s[j] \in S
    BY <1>2 DEF Enumerates
  <1>5. \A x, y \in 1..n : s[x] = s[y] => x = y
    BY <1>2 DEF Enumerates
  <1>6. \A x \in S : \E j \in 1..n : s[j] = x
    BY <1>2 DEF Enumerates
  <1>7. \A j \in 1..(n + 1) : j \in 1..n \/ j = n + 1
    OBVIOUS
  <1>8. n + 1 \in 1..(n + 1) /\ \A j \in 1..n : j \in 1..(n + 1)
    OBVIOUS
  <1>9. \A j \in 1..(n + 1) : r[j] \in S \cup {k}
    BY <1>3, <1>4, <1>7
  <1>10. \A x \in S \cup {k} : \E j \in 1..(n + 1) : r[j] = x
    BY <1>3, <1>6, <1>8
  <1>11. ASSUME NEW x \in 1..(n + 1), NEW y \in 1..(n + 1), r[x] = r[y] PROVE x = y
    BY <1>3, <1>4, <1>5, <1>7, <1>11
  <1>12. Enumerates(r, S \cup {k})
    BY <1>3, <1>9, <1>10, <1>11 DEF Enumerates
  <1> QED
    BY <1>12 DEF addNode, r

(* A sequence made of a finite set of keys has each of them once.          *)
LEMMA SetToSeqsFacts ==
  ASSUME NEW S \in SUBSET Keys, IsFiniteSet(S), NEW s \in SetToSeqs(S)
  PROVE  Enumerates(s, S)
  <1>1. PICK n \in Nat : n = Cardinality(S)
    BY FS_CardinalityType
  <1>2. s \in [1..n -> S] /\ \A i, j \in 1..n : i # j => s[i] # s[j]
    BY <1>1, Zenon DEF SetToSeqs
  <1>3. s \in Seq(Keys) /\ Len(s) = n
    BY <1>1, <1>2
  <1>4. IsFiniteSet(1..n) /\ Cardinality(1..n) = n
    BY <1>1, FS_Interval
  <1>5. s \in Injection(1..n, S)
    BY <1>2, Fun_IsInj, Zenon
  <1>6. s \in Surjection(1..n, S)
    BY <1>1, <1>4, <1>5, FS_Injection
  <1>7. \A k \in S : \E i \in 1..n : s[i] = k
    BY <1>6 DEF Surjection
  <1> QED
    BY <1>2, <1>3, <1>7 DEF Enumerates

(* The parts of a shard.                                                   *)
LEMMA ShardFields ==
  ASSUME NEW c \in Shards
  PROVE  /\ c.freq \in [Keys -> Nat] /\ c.minFreq \in Nat /\ c.total \in Int
         /\ c.lists \in ListMaps
         /\ DOMAIN c.lists \subseteq Nat
         /\ \A f \in DOMAIN c.lists : c.lists[f] \in Seq(Keys)
  <1>1. c.freq \in [Keys -> Nat] /\ c.minFreq \in Nat /\ c.total \in Int /\ c.lists \in ListMaps
    BY DEF Shards
  <1>2. PICK D \in SUBSET Nat : c.lists \in [D -> Seq(Keys)]
    BY <1>1 DEF ListMaps
  <1> QED
    BY <1>1, <1>2

(* Nodes are of keys with a frequency that is not 0.                       *)
LEMMA CachedKeys ==
  ASSUME NEW c
  PROVE  \A k : k \in Cached(c) <=> k \in Keys /\ c.freq[k] # 0
  BY DEF Cached

(* removeFromFreqList() takes a node out of its list, and only there.      *)
LEMMA RemoveFields ==
  ASSUME NEW c \in Shards, Listed(c), NEW k \in Cached(c)
  PROVE  LET o == removeFromFreqList(c, k)
         IN  /\ o \in Shards
             /\ o.freq = c.freq /\ o.minFreq = c.minFreq /\ o.total = c.total
             /\ DOMAIN o.lists = DOMAIN c.lists
             /\ \A f \in DOMAIN c.lists :
                  Enumerates(o.lists[f], WithFreq(c.freq, f) \ {k})
  <1>1. PICK D \in SUBSET Nat : c.lists \in [D -> Seq(Keys)]
    BY ShardFields DEF ListMaps
  <1>2. k \in Keys /\ c.freq[k] # 0 /\ c.freq[k] \in D
    BY <1>1, CachedKeys DEF Listed
  <1>3. PICK x \in D : x = c.freq[k]
    BY <1>2
  <1>4. \A f \in D : Enumerates(c.lists[f], WithFreq(c.freq, f))
    BY <1>1 DEF Listed
  <1> DEFINE l == removeNode(c.lists[x], k)
             M == [c.lists EXCEPT ![x] = l]
             o == removeFromFreqList(c, k)
  <1>5. k \in WithFreq(c.freq, x) /\ WithFreq(c.freq, x) \in SUBSET Keys
    BY <1>2, <1>3 DEF WithFreq
  <1>6. Enumerates(l, WithFreq(c.freq, x) \ {k})
    BY <1>3, <1>4, <1>5, RemoveNodeFacts
  <1>7. l \in Seq(Keys)
    BY <1>6 DEF Enumerates
  <1> HIDE DEF l
  <1>8. /\ M \in [D -> Seq(Keys)] /\ M[x] = l
        /\ \A f \in D : f # x => M[f] = c.lists[f]
    BY <1>1, <1>3, <1>7
  <1>9. M \in ListMaps
    BY <1>8 DEF ListMaps
  <1>10. o = [c EXCEPT !.lists = M]
    BY <1>3 DEF removeFromFreqList, l
  <1> HIDE DEF M, o
  <1>11. o \in Shards /\ o.lists = M
         /\ o.freq = c.freq /\ o.minFreq = c.minFreq /\ o.total = c.total
    BY <1>9, <1>10 DEF Shards
  <1>12. ASSUME NEW f \in D PROVE Enumerates(o.lists[f], WithFreq(c.freq, f) \ {k})
    <2>1. CASE f = x
      BY <1>6, <1>8, <1>11, <2>1
    <2>2. CASE f # x
      <3>1. WithFreq(c.freq, f) \ {k} = WithFreq(c.freq, f)
        BY <1>3, <2>2 DEF WithFreq
      <3> QED
        BY <1>4, <1>8, <1>11, <2>2, <3>1
    <2> QED
      BY <2>1, <2>2
  <1>13. DOMAIN o.lists = D /\ DOMAIN c.lists = D
    BY <1>1, <1>8, <1>11
  <1> QED
    BY <1>11, <1>12, <1>13 DEF o

(* With the node of k out of its list, whatever becomes of its frequency,  *)
(* the others are where they belong.                                       *)
LEMMA OthersListed ==
  ASSUME NEW c \in Shards, Listed(c), NEW k \in Cached(c),
         NEW d \in Shards, d.lists = removeFromFreqList(c, k).lists,
         \A j \in Keys : j # k => d.freq[j] = c.freq[j]
  PROVE  ListedBut(d, k) /\ DOMAIN d.lists = DOMAIN c.lists
  <1>1. DOMAIN d.lists = DOMAIN c.lists
    BY RemoveFields
  <1>2. ASSUME NEW f \in DOMAIN d.lists
        PROVE  f # 0 /\ Enumerates(d.lists[f], WithFreq(d.freq, f) \ {k})
    <2>1. WithFreq(d.freq, f) \ {k} = WithFreq(c.freq, f) \ {k}
      BY DEF WithFreq
    <2> QED
      BY <1>1, <1>2, <2>1, RemoveFields DEF Listed
  <1>3. ASSUME NEW j \in Cached(d) \ {k} PROVE d.freq[j] \in DOMAIN d.lists
    <2>1. j \in Cached(c) /\ d.freq[j] = c.freq[j]
      BY CachedKeys
    <2> QED
      BY <1>1, <2>1 DEF Listed
  <1> QED
    BY <1>1, <1>2, <1>3 DEF ListedBut

(* addToFreqList() puts the node of k into the list of its frequency.      *)
LEMMA AddFields ==
  ASSUME NEW d \in Shards, NEW k \in Cached(d), ListedBut(d, k),
         d.freq[k] = 1 \/ 1 \in DOMAIN d.lists
  PROVE  LET a == addToFreqList(d, k)
         IN  /\ a \in Shards
             /\ a.freq = d.freq /\ a.minFreq = d.minFreq /\ a.total = d.total
             /\ DOMAIN d.lists \subseteq DOMAIN a.lists
             /\ Listed(a)
  <1>1. PICK D \in SUBSET Nat : d.lists \in [D -> Seq(Keys)]
    BY ShardFields DEF ListMaps
  <1>2. k \in Keys /\ d.freq[k] # 0 /\ d.freq[k] \in Nat
    BY CachedKeys, ShardFields
  <1>3. PICK x \in Nat : x = d.freq[k]
    BY <1>2
  <1> DEFINE old == IF x \in D THEN d.lists[x] ELSE <<>>
             l == addNode(old, k)
             M == [g \in D \cup {x} |-> IF g = x THEN l ELSE d.lists[g]]
             a == addToFreqList(d, k)
  <1>4. Enumerates(old, WithFreq(d.freq, x) \ {k})
    <2>1. CASE x \in D
      BY <1>1, <2>1 DEF ListedBut
    <2>2. CASE x \notin D
      <3>1. WithFreq(d.freq, x) \ {k} = {}
        BY <1>1, <1>2, <1>3, <2>2, CachedKeys DEF WithFreq, ListedBut
      <3> QED
        BY <2>2, <3>1 DEF Enumerates
    <2> QED
      BY <2>1, <2>2
  <1>5. (WithFreq(d.freq, x) \ {k}) \cup {k} = WithFreq(d.freq, x)
    BY <1>2, <1>3 DEF WithFreq
  <1>6. Enumerates(l, WithFreq(d.freq, x))
    <2>1. WithFreq(d.freq, x) \ {k} \in SUBSET Keys /\ k \notin WithFreq(d.freq, x) \ {k}
      BY DEF WithFreq
    <2> HIDE DEF old
    <2> QED
      BY <1>2, <1>4, <1>5, <2>1, AddNodeFacts
  <1>7. l \in Seq(Keys)
    BY <1>6 DEF Enumerates
  <1> HIDE DEF l
  <1>8. /\ M \in [D \cup {x} -> Seq(Keys)] /\ M[x] = l
        /\ \A f \in D : f # x => M[f] = d.lists[f]
    BY <1>1, <1>7
  <1>9. M \in ListMaps
    <2>1. D \cup {x} \in SUBSET Nat
      OBVIOUS
    <2> HIDE DEF M
    <2> QED
      BY <1>8, <2>1 DEF ListMaps
  <1>10. DOMAIN d.lists = D
    BY <1>1
  <1>11. a = [d EXCEPT !.lists = M]
    BY <1>3, <1>10 DEF addToFreqList, l, old
  <1> HIDE DEF M, a
  <1>12. a \in Shards /\ a.lists = M
         /\ a.freq = d.freq /\ a.minFreq = d.minFreq /\ a.total = d.total
    BY <1>9, <1>11 DEF Shards
  <1>13. DOMAIN a.lists = D \cup {x}
    BY <1>8, <1>12
  <1>14. ASSUME NEW f \in D \cup {x}
         PROVE  f # 0 /\ Enumerates(a.lists[f], WithFreq(a.freq, f))
    <2>1. CASE f = x
      BY <1>2, <1>3, <1>6, <1>8, <1>12, <2>1
    <2>2. CASE f # x
      <3>1. WithFreq(d.freq, f) \ {k} = WithFreq(d.freq, f)
        BY <1>3, <2>2 DEF WithFreq
      <3>2. f \in D /\ a.lists[f] = d.lists[f]
        BY <1>8, <1>12, <2>2
      <3> QED
        BY <1>10, <1>12, <3>1, <3>2 DEF ListedBut
    <2> QED
      BY <2>1, <2>2
  <1>15. \A j \in Cached(a) : a.freq[j] \in D \cup {x}
    BY <1>3, <1>10, <1>12, CachedKeys DEF ListedBut
  <1>16. 1 \in D \cup {x}
    BY <1>3, <1>10
  <1>17. Listed(a)
    BY <1>13, <1>14, <1>15, <1>16 DEF Listed
  <1> QED
    BY <1>10, <1>12, <1>13, <1>17 DEF a

(* A list is empty when no node has its frequency.                         *)
LEMMA EmptyLists ==
  ASSUME NEW c \in Shards, Listed(c), NEW f \in DOMAIN c.lists
  PROVE  ~isEmpty(c, f) <=> \E k \in Cached(c) : c.freq[k] = f
  <1>1. Enumerates(c.lists[f], WithFreq(c.freq, f)) /\ f # 0
    BY DEF Listed
  <1>2. PICK s \in Seq(Keys) : s = c.lists[f]
    BY <1>1 DEF Enumerates
  <1>3. PICK n \in Nat : n = Len(s)
    BY <1>2
  <1>4. s = <<>> <=> n = 0
    BY <1>2, <1>3, EmptySeq
  <1>5. /\ \A i \in 1..n : s[i] \in WithFreq(c.freq, f)
        /\ \A k \in WithFreq(c.freq, f) : \E i \in 1..n : s[i] = k
    BY <1>1, <1>2, <1>3 DEF Enumerates
  <1>6. n # 0 => 1 \in 1..n
    OBVIOUS
  <1>7. n # 0 => \E k \in WithFreq(c.freq, f) : TRUE
    BY <1>5, <1>6
  <1>8. (\E k \in WithFreq(c.freq, f) : TRUE) => n # 0
    BY <1>5
  <1>9. (\E k \in WithFreq(c.freq, f) : TRUE) <=> \E k \in Cached(c) : c.freq[k] = f
    BY <1>1, CachedKeys DEF WithFreq
  <1> QED
    BY <1>2, <1>4, <1>7, <1>8, <1>9 DEF isEmpty

(* updateMinFreq() finds the least frequency, or none below INT8_MAX.      *)
LEMMA MinFreqUpdated ==
  ASSUME NEW c \in Shards, Listed(c), Cached(c) # {}
  PROVE  LET u == updateMinFreq(c)
         IN  /\ u \in Shards
             /\ u.freq = c.freq /\ u.lists = c.lists /\ u.total = c.total
             /\ u.minFreq # 0
             /\ LeastKnown(u) \/ MinFreqLost(u)
  <1> DEFINE used == {f \in DOMAIN c.lists : ~isEmpty(c, f) /\ f < INT8_MAX}
             m == IF used = {} THEN 1 ELSE Min(used)
             u == updateMinFreq(c)
  <1>1. DOMAIN c.lists \subseteq Nat /\ c.freq \in [Keys -> Nat]
    BY ShardFields
  <1>2. \A k \in Cached(c) : c.freq[k] < INT8_MAX => c.freq[k] \in used
    BY EmptyLists DEF Listed
  <1>3. \A f \in used : f # 0 /\ f \in Nat /\ f < INT8_MAX /\ \E k \in Cached(c) : c.freq[k] = f
    BY <1>1, EmptyLists DEF Listed
  <1>4. u = [c EXCEPT !.minFreq = m]
    BY DEF updateMinFreq
  <1>5. \A k \in Cached(c) : k \in Keys /\ c.freq[k] \in Nat
    BY <1>1, CachedKeys
  <1>6. used \in SUBSET Nat
    BY <1>1
  <1> HIDE DEF used, u
  <1>7. CASE used = {}
    <2>1. u = [c EXCEPT !.minFreq = 1]
      BY <1>4, <1>7
    <2>2. u \in Shards /\ u.freq = c.freq /\ u.lists = c.lists /\ u.total = c.total /\ u.minFreq = 1
      BY <2>1 DEF Shards
    <2>3. \A k \in Cached(c) : c.freq[k] >= INT8_MAX
      BY <1>2, <1>5, <1>7, LfuConstants
    <2>4. Cached(u) = Cached(c)
      BY <2>2 DEF Cached
    <2>5. MinFreqLost(u)
      BY <2>2, <2>3, <2>4 DEF MinFreqLost
    <2> QED
      BY <2>2, <2>5 DEF u
  <1>8. CASE used # {}
    <2>1. PICK x \in used : x = Min(used) /\ \A y \in used : x <= y
      BY <1>6, <1>8, LeastNatural
    <2>2. x \in Nat /\ x # 0 /\ x < INT8_MAX /\ \E k \in Cached(c) : c.freq[k] = x
      BY <1>3
    <2>3. u = [c EXCEPT !.minFreq = x]
      BY <1>4, <1>8, <2>1
    <2>4. u \in Shards /\ u.freq = c.freq /\ u.lists = c.lists /\ u.total = c.total /\ u.minFreq = x
      BY <2>2, <2>3 DEF Shards
    <2>5. \A k \in Cached(c) : x <= c.freq[k]
      BY <1>2, <1>5, <2>1, <2>2, LfuConstants
    <2>6. Cached(u) = Cached(c)
      BY <2>4 DEF Cached
    <2>7. LeastKnown(u)
      BY <2>2, <2>4, <2>5, <2>6 DEF LeastKnown
    <2> QED
      BY <2>2, <2>4, <2>7 DEF u
  <1> QED
    BY <1>7, <1>8

(* What ageing makes of a frequency.                                       *)
LEMMA LoweredFacts ==
  ASSUME NEW f \in Nat, f # 0
  PROVE  /\ Lowered(f) \in Nat /\ Lowered(f) # 0 /\ Lowered(f) <= f
         /\ f = 1 => Lowered(f) = 1
         /\ maxAverageNum_ > 1 /\ Lowered(f) > 1 => Lowered(f) < f
  <1>1. PICK low \in Nat : low = maxAverageNum_ \div 2
    BY LfuConstants
  <1>2. maxAverageNum_ > 1 => low > 0
    BY <1>1, LfuConstants
  <1>3. Lowered(f) = IF f <= low THEN 1 ELSE f - low
    BY <1>1 DEF Lowered
  <1> QED
    BY <1>2, <1>3

(* Ageing lowers every frequency, leaves every node in the list of its new *)
(* one, and minFreq_ at the least of them if that is below INT8_MAX.       *)
LEMMA AgedFacts ==
  ASSUME NEW c \in Shards, Listed(c), Cached(c) # {}, IsFiniteSet(Cached(c)),
         NEW d \in handleOverMaxAverageNum(c)
  PROVE  /\ d \in Shards /\ Listed(d) /\ d.minFreq # 0
         /\ LeastKnown(d) \/ MinFreqLost(d)
         /\ d.total = c.total
         /\ \A k \in Keys : d.freq[k] = IF c.freq[k] = 0 THEN 0 ELSE Lowered(c.freq[k])
  <1> DEFINE F == [k \in Keys |-> IF c.freq[k] = 0 THEN 0 ELSE Lowered(c.freq[k])]
             used == {F[k] : k \in Cached(c)}
             M(L) == [f \in DOMAIN c.lists \cup used |->
                         (IF f \in DOMAIN c.lists THEN Orphans(c.lists[f]) ELSE <<>>)
                         \o (IF f \in used THEN L[f] ELSE <<>>)]
             a(L) == [c EXCEPT !.freq = F, !.lists = M(L)]
  <1>1. PICK L \in Orders(F, used) : d = updateMinFreq(a(L))
    BY Zenon DEF handleOverMaxAverageNum
  <1>2. PICK D \in SUBSET Nat : DOMAIN c.lists = D /\ 0 \notin D /\ 1 \in D
    BY ShardFields DEF Listed
  <1>3. c.freq \in [Keys -> Nat]
    BY ShardFields
  <1>4. F \in [Keys -> Nat]
        /\ \A k \in Keys : F[k] = IF c.freq[k] = 0 THEN 0 ELSE Lowered(c.freq[k])
    BY <1>3, LoweredFacts
  <1>5. \A k \in Keys : F[k] # 0 <=> c.freq[k] # 0
    BY <1>3, <1>4, LoweredFacts
  <1> HIDE DEF F
  <1>6. used \in SUBSET (Nat \ {0})
    BY <1>4, <1>5, CachedKeys
  <1>7. \A k \in Keys : F[k] # 0 => F[k] \in used
    BY <1>5, CachedKeys
  <1> HIDE DEF used
  <1>8. \A f \in used : L[f] \in SetToSeqs(WithFreq(F, f))
    BY Zenon DEF Orders
  <1>9. ASSUME NEW f \in used PROVE Enumerates(L[f], WithFreq(F, f))
    <2>1. WithFreq(F, f) \in SUBSET Cached(c) /\ WithFreq(F, f) \in SUBSET Keys
      BY <1>5, <1>6, CachedKeys DEF WithFreq
    <2>2. IsFiniteSet(WithFreq(F, f))
      BY <2>1, FS_Subset
    <2> QED
      BY <1>8, <2>1, <2>2, SetToSeqsFacts
  <1>10. \A f \in used : L[f] \in Seq(Keys)
    BY <1>9 DEF Enumerates
  <1>11. /\ M(L) \in [D \cup used -> Seq(Keys)]
         /\ \A f \in D \cup used : M(L)[f] = IF f \in used THEN L[f] ELSE <<>>
    <2> DEFINE a1(f) == IF f \in DOMAIN c.lists THEN Orphans(c.lists[f]) ELSE <<>>
               b1(f) == IF f \in used THEN L[f] ELSE <<>>
    <2>1. \A f : a1(f) = <<>>
      BY ShardFields DEF Orphans
    <2>2. \A f : b1(f) \in Seq(Keys)
      BY <1>10
    <2>3. M(L) = [f \in D \cup used |-> a1(f) \o b1(f)]
      BY <1>2
    <2> HIDE DEF a1, b1, M
    <2>4. \A f : <<>> \o b1(f) = b1(f)
      BY <2>2
    <2>5. M(L) = [f \in D \cup used |-> b1(f)]
      BY <2>1, <2>3, <2>4
    <2> QED
      BY <2>2, <2>5 DEF b1
  <1>12. M(L) \in ListMaps
    <2>1. D \cup used \in SUBSET Nat
      BY <1>6
    <2> QED
      BY <1>11, <2>1 DEF ListMaps
  <1>13. PICK N \in ListMaps :
           /\ N = M(L)
           /\ N \in [D \cup used -> Seq(Keys)]
           /\ \A f \in D \cup used : N[f] = IF f \in used THEN L[f] ELSE <<>>
    BY <1>11, <1>12
  <1> DEFINE b == [c EXCEPT !.freq = F, !.lists = N]
  <1>14. d = updateMinFreq(b)
    BY <1>1, <1>13
  <1> HIDE DEF M
  <1>15. b \in Shards /\ b.freq = F /\ b.lists = N /\ b.total = c.total
    BY <1>4 DEF Shards
  <1> HIDE DEF b
  <1>16. ASSUME NEW f \in D \cup used PROVE f # 0 /\ Enumerates(N[f], WithFreq(F, f))
    <2>1. CASE f \in used
      BY <1>6, <1>9, <1>13, <2>1
    <2>2. CASE f \notin used
      <3>1. f \in D /\ f # 0 /\ N[f] = <<>>
        BY <1>2, <1>13, <2>2
      <3>2. WithFreq(F, f) = {}
        BY <1>7, <2>2, <3>1 DEF WithFreq
      <3> QED
        BY <3>1, <3>2 DEF Enumerates
    <2> QED
      BY <2>1, <2>2
  <1>17. \A k \in Cached(b) : k \in Keys /\ F[k] \in used
    BY <1>7, <1>15, CachedKeys
  <1>18. DOMAIN b.lists = D \cup used
    BY <1>13, <1>15
  <1>19. Listed(b)
    BY <1>2, <1>15, <1>16, <1>17, <1>18 DEF Listed
  <1>20. Cached(b) = Cached(c)
    BY <1>5, <1>15 DEF Cached
  <1>21. /\ d \in Shards /\ d.freq = F /\ d.lists = N /\ d.total = c.total
         /\ d.minFreq # 0 /\ (LeastKnown(d) \/ MinFreqLost(d))
    BY <1>14, <1>15, <1>19, <1>20, MinFreqUpdated
  <1>22. Listed(d)
    <2>1. Cached(d) = Cached(b)
      BY <1>15, <1>21 DEF Cached
    <2> QED
      BY <1>15, <1>19, <1>21, <2>1 DEF Listed
  <1> QED
    BY <1>4, <1>21, <1>22

(* addFreqNum() counts an access, and the nodes age or not.                *)
LEMMA CountedFacts ==
  ASSUME NEW c \in Shards, Listed(c), Cached(c) # {}, IsFiniteSet(Cached(c)),
         c.minFreq # 0, NEW d \in addFreqNum(c)
  PROVE  /\ d \in Shards /\ Listed(d) /\ d.minFreq # 0
         /\ d.total = c.total + 1
         /\ \/ d.freq = c.freq /\ d.minFreq = c.minFreq
            \/ /\ LeastKnown(d) \/ MinFreqLost(d)
               /\ \A k \in Keys : d.freq[k] = IF c.freq[k] = 0 THEN 0 ELSE Lowered(c.freq[k])
  <1>1. PICK n \in Int : n = c.total + 1
    BY ShardFields
  <1> DEFINE e == [c EXCEPT !.total = @ + 1]
  <1>2. e \in Shards /\ e.freq = c.freq /\ e.lists = c.lists /\ e.minFreq = c.minFreq /\ e.total = n
    BY <1>1 DEF Shards
  <1>3. d = e \/ d \in handleOverMaxAverageNum(e)
    BY Zenon DEF addFreqNum
  <1> HIDE DEF e
  <1>4. Cached(e) = Cached(c)
    BY <1>2 DEF Cached
  <1>5. Listed(e)
    BY <1>2, <1>4 DEF Listed
  <1>6. CASE d = e
    BY <1>1, <1>2, <1>5, <1>6
  <1>7. CASE d \in handleOverMaxAverageNum(e)
    BY <1>1, <1>2, <1>4, <1>5, <1>7, AgedFacts
  <1> QED
    BY <1>3, <1>6, <1>7

(* Neither way does a node appear or disappear.                            *)
LEMMA CountedKeeps ==
  ASSUME NEW c \in Shards, Listed(c), Cached(c) # {}, IsFiniteSet(Cached(c)),
         c.minFreq # 0, NEW d \in addFreqNum(c)
  PROVE  /\ Cached(d) = Cached(c)
         /\ \A k \in Keys : d.freq[k] <= c.freq[k] /\ (c.freq[k] = 1 => d.freq[k] = 1)
  <1>1. c.freq \in [Keys -> Nat]
    BY ShardFields
  <1>2. CASE d.freq = c.freq
    BY <1>1, <1>2 DEF Cached
  <1>3. CASE \A k \in Keys : d.freq[k] = IF c.freq[k] = 0 THEN 0 ELSE Lowered(c.freq[k])
    <2>1. \A k \in Keys : d.freq[k] <= c.freq[k] /\ (c.freq[k] = 1 => d.freq[k] = 1)
                          /\ (d.freq[k] # 0 <=> c.freq[k] # 0)
      BY <1>1, <1>3, LoweredFacts
    <2> QED
      BY <2>1 DEF Cached
  <1> QED
    BY <1>2, <1>3, CountedFacts

-----------------------------------------------------------------------------
(* getInternal() before it counts the access.                              *)
Raised(c, k) ==
    LET out == removeFromFreqList(c, k)
        in == addToFreqList([out EXCEPT !.freq[k] = @ + 1], k)
        low == c.freq[k] = c.minFreq /\ isEmpty(in, c.minFreq)
    IN  [in EXCEPT !.minFreq = IF low THEN @ + 1 ELSE @]

(* putInternal() before it counts the access.                              *)
Inserted(room, k) == addToFreqList([room EXCEPT !.freq[k] = 1], k)

(* An access moves the node of k to the next list, and minFreq_ follows    *)
(* the last node of its list.                                              *)
LEMMA RaisedFacts ==
  ASSUME NEW c, ShardInv(c), NEW k \in Cached(c)
  PROVE  LET g == Raised(c, k)
         IN  /\ g \in Shards /\ Listed(g) /\ Cached(g) = Cached(c) /\ g.minFreq # 0
             /\ LeastKnown(g) \/ (MinFreqLost(c) /\ MinFreqLost(g))
             /\ g.freq = [c.freq EXCEPT ![k] = @ + 1]
             /\ g.total = c.total
  <1>1. c \in Shards /\ Listed(c) /\ c.freq \in [Keys -> Nat] /\ c.minFreq \in Nat /\ c.minFreq # 0
    BY ShardFields DEF ShardInv
  <1>2. k \in Keys /\ c.freq[k] # 0
    BY CachedKeys
  <1> DEFINE out == removeFromFreqList(c, k)
             F == [c.freq EXCEPT ![k] = @ + 1]
             e == [out EXCEPT !.freq[k] = @ + 1]
             in == addToFreqList(e, k)
             low == c.freq[k] = c.minFreq /\ isEmpty(in, c.minFreq)
             g == Raised(c, k)
  <1>3. /\ out \in Shards /\ out.freq = c.freq /\ out.minFreq = c.minFreq /\ out.total = c.total
    BY <1>1, RemoveFields
  <1>4. /\ F \in [Keys -> Nat] /\ F[k] = c.freq[k] + 1
        /\ \A j \in Keys : j # k => F[j] = c.freq[j]
    BY <1>1, <1>2
  <1>5. e = [out EXCEPT !.freq = F]
    BY <1>3
  <1> HIDE DEF F, e, out
  <1>6. /\ e \in Shards /\ e.freq = F /\ e.lists = out.lists
        /\ e.minFreq = c.minFreq /\ e.total = c.total
    BY <1>3, <1>4, <1>5 DEF Shards
  <1>7. ListedBut(e, k) /\ DOMAIN e.lists = DOMAIN c.lists
    BY <1>1, <1>4, <1>6, OthersListed DEF out
  <1>8. k \in Cached(e) /\ Cached(e) = Cached(c)
    BY <1>1, <1>2, <1>4, <1>6 DEF Cached
  <1>9. 1 \in DOMAIN e.lists
    BY <1>1, <1>7 DEF Listed
  <1>10. /\ in \in Shards /\ in.freq = F /\ in.minFreq = c.minFreq /\ in.total = c.total
         /\ DOMAIN c.lists \subseteq DOMAIN in.lists /\ Listed(in)
    BY <1>6, <1>7, <1>8, <1>9, AddFields
  <1>11. g = [in EXCEPT !.minFreq = IF low THEN @ + 1 ELSE @]
    BY DEF Raised, e, out
  <1> HIDE DEF in, g
  <1>12. Cached(in) = Cached(c)
    BY <1>6, <1>8, <1>10 DEF Cached
  <1>13. PICK m \in Nat : m = IF low THEN c.minFreq + 1 ELSE c.minFreq
    BY <1>1
  <1>14. g = [in EXCEPT !.minFreq = m]
    BY <1>10, <1>11, <1>13
  <1>15. g \in Shards /\ g.freq = F /\ g.lists = in.lists /\ g.total = c.total /\ g.minFreq = m
    BY <1>10, <1>14 DEF Shards
  <1>16. Cached(g) = Cached(c)
    BY <1>10, <1>12, <1>15 DEF Cached
  <1>17. Listed(g)
    BY <1>10, <1>12, <1>15, <1>16 DEF Listed
  <1>18. m # 0
    BY <1>1, <1>13
  <1>19. LeastKnown(g) \/ (MinFreqLost(c) /\ MinFreqLost(g))
    <2>0. \A j \in Cached(c) : j \in Keys /\ c.freq[j] \in Nat
      BY <1>1, CachedKeys
    <2>1. CASE LeastKnown(c)
      <3>1. \A j \in Cached(c) : c.minFreq <= c.freq[j]
        BY <2>1 DEF LeastKnown
      <3>2. \A j \in Cached(c) : c.minFreq <= F[j]
        BY <1>1, <1>2, <1>4, <2>0, <3>1
      <3>3. CASE low
        <4>1. c.minFreq \in DOMAIN in.lists
          BY <1>1, <1>10, <3>3 DEF Listed
        <4>2. \A j \in Cached(c) : F[j] # c.minFreq
          BY <1>10, <1>12, <3>3, <4>1, EmptyLists
        <4>3. m = c.minFreq + 1 /\ F[k] = m
          BY <1>4, <1>13, <3>3
        <4>4. \A j \in Cached(c) : m <= F[j]
          BY <1>1, <1>4, <2>0, <3>2, <4>2, <4>3
        <4> QED
          BY <1>15, <1>16, <4>3, <4>4 DEF LeastKnown
      <3>4. CASE ~low
        <4>1. m = c.minFreq
          BY <1>13, <3>4
        <4>2. \E j \in Cached(c) : F[j] = m
          <5>1. CASE c.freq[k] = c.minFreq
            <6>1. c.minFreq \in DOMAIN in.lists
              BY <1>1, <1>10, <5>1 DEF Listed
            <6> QED
              BY <1>10, <1>12, <3>4, <4>1, <5>1, <6>1, EmptyLists
          <5>2. CASE c.freq[k] # c.minFreq
            <6>1. PICK j \in Cached(c) : c.freq[j] = c.minFreq
              BY <2>1 DEF LeastKnown
            <6> QED
              BY <1>4, <2>0, <4>1, <5>2, <6>1
          <5> QED
            BY <5>1, <5>2
        <4> QED
          BY <1>15, <1>16, <3>2, <4>1, <4>2 DEF LeastKnown
      <3> QED
        BY <3>3, <3>4
    <2>2. CASE MinFreqLost(c)
      <3>1. c.minFreq = 1 /\ \A j \in Cached(c) : c.freq[j] >= INT8_MAX
        BY <2>2 DEF MinFreqLost
      <3>2. m = 1
        BY <1>13, <2>0, <3>1, LfuConstants
      <3>3. \A j \in Cached(c) : F[j] >= INT8_MAX
        BY <1>4, <2>0, <3>1, LfuConstants
      <3> QED
        BY <1>15, <1>16, <2>2, <3>2, <3>3 DEF MinFreqLost
    <2> QED
      BY <2>1, <2>2 DEF ShardInv
  <1> QED
    BY <1>15, <1>16, <1>17, <1>18, <1>19 DEF F, g

(* Erasing a key whose node is in no list leaves the lists alone.          *)
LEMMA EraseFields ==
  ASSUME NEW c \in Shards, NEW v,
         \A f \in DOMAIN c.lists : \A i \in 1..Len(c.lists[f]) : c.lists[f][i] # v
  PROVE  erase(c, v) = [c EXCEPT !.freq = [j \in Keys |-> IF j = v THEN 0 ELSE c.freq[j]]]
  <1> DEFINE M == [f \in DOMAIN c.lists |->
                     [i \in DOMAIN c.lists[f] |->
                        IF c.lists[f][i] = v THEN <<v>> ELSE c.lists[f][i]]]
             F == [j \in Keys |-> IF j = v THEN 0 ELSE c.freq[j]]
  <1>1. PICK D \in SUBSET Nat : c.lists \in [D -> Seq(Keys)]
    BY ShardFields DEF ListMaps
  <1>2. ASSUME NEW f \in D
        PROVE  [i \in DOMAIN c.lists[f] |->
                  IF c.lists[f][i] = v THEN <<v>> ELSE c.lists[f][i]] = c.lists[f]
    <2>1. PICK s \in Seq(Keys) : s = c.lists[f]
      BY <1>1
    <2>2. DOMAIN s = 1..Len(s) /\ s = [i \in 1..Len(s) |-> s[i]]
      BY <2>1
    <2>3. \A i \in 1..Len(s) : s[i] # v
      BY <1>1, <2>1
    <2> QED
      BY <2>1, <2>2, <2>3
  <1>3. M = [f \in D |-> c.lists[f]]
    BY <1>1, <1>2
  <1>4. M = c.lists
    BY <1>1, <1>3
  <1>5. erase(c, v) = [c EXCEPT !.freq = F, !.lists = M]
    BY DEF erase
  <1> HIDE DEF M, F
  <1>6. [c EXCEPT !.freq = F, !.lists = c.lists] = [c EXCEPT !.freq = F]
    BY DEF Shards
  <1> QED
    BY <1>4, <1>5, <1>6 DEF F

(* kickOut() takes out a node of the least frequency, unless minFreq_ was  *)
(* lost, and then none, but for what the dummy's key may be.               *)
LEMMA KickOutFacts ==
  ASSUME NEW c, ShardInv(c), Cached(c) # {}, NEW dummy,
         isEmpty(c, c.minFreq) => dummy \notin Cached(c)
  PROVE  LET r == kickOut(c, dummy)
         IN  /\ r \in Shards /\ Listed(r) /\ r.minFreq = c.minFreq
             /\ \/ /\ ~MinFreqLost(c)
                   /\ \E v \in Cached(c) :
                        /\ \A j \in Cached(c) : c.freq[v] <= c.freq[j]
                        /\ r.freq = [c.freq EXCEPT ![v] = 0]
                        /\ r.total = c.total - c.freq[v]
                \/ /\ MinFreqLost(c)
                   /\ r.freq = c.freq
                   /\ r.total = c.total - 1
  <1>1. /\ c \in Shards /\ Listed(c) /\ c.freq \in [Keys -> Nat] /\ c.minFreq \in Nat
        /\ c.total \in Int
    BY ShardFields DEF ShardInv
  <1>2. \A j \in Cached(c) : j \in Keys /\ c.freq[j] \in Nat /\ c.freq[j] # 0
    BY <1>1, CachedKeys
  <1>3. c.minFreq \in DOMAIN c.lists
    BY <1>1 DEF ShardInv, LeastKnown, MinFreqLost, Listed
  <1>4. isEmpty(c, c.minFreq) <=> ~\E j \in Cached(c) : c.freq[j] = c.minFreq
    BY <1>1, <1>3, EmptyLists
  <1>5. MinFreqLost(c) => ~\E j \in Cached(c) : c.freq[j] = c.minFreq
    BY <1>2, LfuConstants DEF MinFreqLost
  <1>6. LeastKnown(c) => \E j \in Cached(c) : c.freq[j] = c.minFreq
    BY DEF LeastKnown
  <1>7. CASE isEmpty(c, c.minFreq)
    <2>1. MinFreqLost(c)
      BY <1>4, <1>6, <1>7 DEF ShardInv
    <2> DEFINE r == kickOut(c, dummy)
               G == [j \in Keys |-> IF j = dummy THEN 0 ELSE c.freq[j]]
    <2>0. dummy \notin Cached(c)
      BY <1>7
    <2>2. G = c.freq
      BY <1>1, <2>0, CachedKeys
    <2>8. ASSUME NEW f \in DOMAIN c.lists, NEW i \in 1..Len(c.lists[f])
          PROVE  c.lists[f][i] # dummy
      <3>1. c.lists[f][i] \in WithFreq(c.freq, f) /\ f # 0
        BY <1>1 DEF Listed, Enumerates
      <3> QED
        BY <2>0, <3>1, CachedKeys DEF WithFreq
    <2>9. erase(c, dummy) = [c EXCEPT !.freq = G]
      BY <1>1, <2>8, EraseFields
    <2>3. r = [[c EXCEPT !.freq = G] EXCEPT !.total = @ - 1]
      BY <1>7, <2>9 DEF kickOut, decreaseFreqNum
    <2> HIDE DEF G, r
    <2>4. PICK n \in Int : n = c.total - 1
      BY <1>1
    <2>5. /\ r \in Shards /\ r.freq = c.freq /\ r.lists = c.lists /\ r.minFreq = c.minFreq
          /\ r.total = n
      BY <1>1, <2>2, <2>3, <2>4 DEF Shards
    <2>6. Cached(r) = Cached(c)
      BY <2>5 DEF Cached
    <2>7. Listed(r)
      BY <1>1, <2>5, <2>6 DEF Listed
    <2> QED
      BY <2>1, <2>4, <2>5, <2>7 DEF r
  <1>8. CASE ~isEmpty(c, c.minFreq)
    <2>1. LeastKnown(c) /\ ~MinFreqLost(c)
      BY <1>4, <1>5, <1>8 DEF ShardInv
    <2>0. /\ Enumerates(c.lists[c.minFreq], WithFreq(c.freq, c.minFreq))
          /\ c.lists[c.minFreq] \in Seq(Keys)
      BY <1>1, <1>3, ShardFields DEF Listed
    <2>2. PICK s \in Seq(Keys) :
            s = c.lists[c.minFreq] /\ Enumerates(s, WithFreq(c.freq, c.minFreq))
      BY <2>0
    <2>3. s # <<>>
      BY <1>8, <2>2 DEF isEmpty
    <2>4. PICK v \in Keys : v = Head(s) /\ v = s[1] /\ 1 \in 1..Len(s)
      BY <2>2, <2>3, TailAt
    <2>5. v \in WithFreq(c.freq, c.minFreq)
      BY <2>2, <2>4 DEF Enumerates
    <2>6. v \in Cached(c) /\ c.freq[v] = c.minFreq
      BY <1>1, <2>5, CachedKeys DEF WithFreq, ShardInv
    <2>7. \A j \in Cached(c) : c.freq[v] <= c.freq[j]
      BY <2>1, <2>6 DEF LeastKnown
    <2> DEFINE r == kickOut(c, dummy)
               out == removeFromFreqList(c, v)
               G == [j \in Keys |-> IF j = v THEN 0 ELSE out.freq[j]]
    <2>8. /\ out \in Shards /\ out.freq = c.freq /\ out.minFreq = c.minFreq
          /\ out.total = c.total /\ DOMAIN out.lists = DOMAIN c.lists
          /\ \A f \in DOMAIN c.lists : Enumerates(out.lists[f], WithFreq(c.freq, f) \ {v})
      BY <1>1, <2>6, RemoveFields
    <2>20. \A f \in DOMAIN out.lists : \A i \in 1..Len(out.lists[f]) : out.lists[f][i] # v
      BY <2>8 DEF Enumerates
    <2>21. KeyOf(v) = v /\ out = [c EXCEPT !.lists[c.minFreq] = removeNode(@, v)]
      BY <2>4, <2>6 DEF KeyOf, removeFromFreqList
    <2> HIDE DEF out
    <2>22. erase(out, v) = [out EXCEPT !.freq = G]
      BY <2>8, <2>20, EraseFields
    <2>9. r = [[out EXCEPT !.freq = G] EXCEPT !.total = @ - c.freq[v]]
      BY <1>8, <2>2, <2>4, <2>6, <2>21, <2>22 DEF kickOut, decreaseFreqNum, getFirstNode
    <2> HIDE DEF r
    <2>10. G \in [Keys -> Nat] /\ G = [c.freq EXCEPT ![v] = 0]
      BY <1>1, <2>8
    <2> HIDE DEF G
    <2>11. PICK n \in Int : n = c.total - c.freq[v]
      BY <1>1, <1>2, <2>6
    <2>12. /\ r \in Shards /\ r.freq = G /\ r.lists = out.lists /\ r.minFreq = c.minFreq
           /\ r.total = n
      BY <2>8, <2>9, <2>10, <2>11 DEF Shards
    <2>13. \A j \in Keys : j # v => r.freq[j] = c.freq[j]
      BY <1>1, <2>10, <2>12
    <2>14. ListedBut(r, v) /\ DOMAIN r.lists = DOMAIN c.lists
      BY <1>1, <2>6, <2>12, <2>13, OthersListed DEF out
    <2>15. v \in Keys /\ r.freq[v] = 0
      BY <1>1, <2>10, <2>12
    <2>16. \A f : f # 0 => WithFreq(r.freq, f) \ {v} = WithFreq(r.freq, f)
      BY <2>15 DEF WithFreq
    <2>17. Cached(r) \ {v} = Cached(r)
      BY <2>15, CachedKeys
    <2>18. 1 \in DOMAIN r.lists
      BY <1>1, <2>6, <2>14 DEF Listed
    <2>19. Listed(r)
      BY <2>14, <2>16, <2>17, <2>18 DEF Listed, ListedBut
    <2> QED
      BY <2>1, <2>6, <2>7, <2>10, <2>11, <2>12, <2>19 DEF r
  <1> QED
    BY <1>7, <1>8

(* A new node goes into the list of frequency 1.                           *)
LEMMA InsertedFacts ==
  ASSUME NEW r \in Shards, Listed(r), NEW k \in Keys, k \notin Cached(r)
  PROVE  LET i == Inserted(r, k)
         IN  /\ i \in Shards /\ Listed(i) /\ i.minFreq = r.minFreq /\ i.total = r.total
             /\ i.freq = [r.freq EXCEPT ![k] = 1]
             /\ Cached(i) = Cached(r) \cup {k}
  <1>1. r.freq \in [Keys -> Nat] /\ r.freq[k] = 0
    BY ShardFields, CachedKeys
  <1> DEFINE F == [r.freq EXCEPT ![k] = 1]
             e == [r EXCEPT !.freq[k] = 1]
             i == Inserted(r, k)
  <1>2. F \in [Keys -> Nat] /\ F[k] = 1 /\ \A j \in Keys : j # k => F[j] = r.freq[j]
    BY <1>1
  <1>3. e = [r EXCEPT !.freq = F]
    OBVIOUS
  <1> HIDE DEF F, e
  <1>4. /\ e \in Shards /\ e.freq = F /\ e.lists = r.lists
        /\ e.minFreq = r.minFreq /\ e.total = r.total
    BY <1>2, <1>3 DEF Shards
  <1>5. \A j : j \in Cached(e) <=> j \in Cached(r) \/ j = k
    BY <1>1, <1>2, <1>4, CachedKeys
  <1>6. \A f : f # 0 => WithFreq(F, f) \ {k} = WithFreq(r.freq, f)
    BY <1>1, <1>2 DEF WithFreq
  <1>7. ASSUME NEW j \in Cached(e) \ {k} PROVE e.freq[j] \in DOMAIN e.lists
    <2>1. j \in Cached(r) /\ j \in Keys /\ e.freq[j] = r.freq[j]
      BY <1>2, <1>4, <1>5, CachedKeys
    <2> QED
      BY <1>4, <2>1 DEF Listed
  <1>8. ListedBut(e, k)
    BY <1>4, <1>6, <1>7 DEF Listed, ListedBut
  <1>9. /\ i \in Shards /\ i.freq = F /\ i.minFreq = r.minFreq /\ i.total = r.total
        /\ Listed(i)
    BY <1>2, <1>4, <1>5, <1>8, AddFields DEF Inserted, e
  <1>10. Cached(i) = Cached(r) \cup {k}
    BY <1>4, <1>5, <1>9 DEF Cached
  <1> QED
    BY <1>9, <1>10 DEF F

-----------------------------------------------------------------------------
(* get(), or a put() of a key that is there, keeps the shard in order.     *)
LEMMA AccessFacts ==
  ASSUME NEW c, ShardInv(c), NEW k \in Cached(c), NEW d \in getInternal(c, k)
  PROVE  ShardInv(d) /\ Cached(d) = Cached(c)
  <1> DEFINE g == Raised(c, k)
  <1>1. d \in addFreqNum(g)
    BY DEF getInternal, Raised
  <1>2. /\ g \in Shards /\ Listed(g) /\ Cached(g) = Cached(c) /\ g.minFreq # 0
        /\ LeastKnown(g) \/ MinFreqLost(g)
    BY RaisedFacts
  <1> HIDE DEF g
  <1>3. Cached(g) # {} /\ IsFiniteSet(Cached(g))
    BY <1>2 DEF ShardInv
  <1>4. Cached(d) = Cached(c)
    BY <1>1, <1>2, <1>3, CountedKeeps
  <1>5. /\ d \in Shards /\ Listed(d) /\ d.minFreq # 0
        /\ \/ d.freq = g.freq /\ d.minFreq = g.minFreq
           \/ LeastKnown(d) \/ MinFreqLost(d)
    BY <1>1, <1>2, <1>3, CountedFacts
  <1>6. LeastKnown(d) \/ MinFreqLost(d)
    BY <1>2, <1>4, <1>5 DEF LeastKnown, MinFreqLost
  <1> QED
    BY <1>3, <1>2, <1>4, <1>5, <1>6 DEF ShardInv

(* The shard that putInternal() inserts into.                              *)
Room(c, dummy) == IF Full(c) THEN kickOut(c, dummy) ELSE c

(* There is room for a node, or minFreq_ was lost; a node that goes is of  *)
(* the least frequency.                                                    *)
LEMMA RoomFacts ==
  ASSUME NEW c, ShardInv(c), sliceSize # 0, NEW dummy, ~Orphaning(c, dummy)
  PROVE  LET r == Room(c, dummy)
         IN  /\ r \in Shards /\ Listed(r) /\ r.minFreq # 0
             /\ IsFiniteSet(Cached(r)) /\ Cached(r) \subseteq Cached(c)
             /\ ~MinFreqLost(c) /\ Cardinality(Cached(c)) <= sliceSize
                  => Cardinality(Cached(r)) < sliceSize
             /\ \A v \in Cached(c) \ Cached(r) : \A j \in Cached(c) : c.freq[v] <= c.freq[j]
  <1>1. /\ c \in Shards /\ Listed(c) /\ c.freq \in [Keys -> Nat] /\ c.minFreq # 0
        /\ IsFiniteSet(Cached(c)) /\ sliceSize \in Nat
    BY ShardFields, LfuConstants DEF ShardInv
  <1>2. PICK n \in Nat : n = Cardinality(Cached(c))
    BY <1>1, FS_CardinalityType
  <1>3. CASE ~Full(c)
    <2>1. Room(c, dummy) = c
      BY <1>3 DEF Room
    <2>2. n # sliceSize
      BY <1>2, <1>3 DEF Full
    <2> QED
      BY <1>1, <1>2, <2>1, <2>2
  <1>4. CASE Full(c)
    <2>1. n = sliceSize /\ Cached(c) # {}
      BY <1>2, <1>4, FS_EmptySet DEF Full
    <2> DEFINE r == kickOut(c, dummy)
    <2>2. Room(c, dummy) = r
      BY <1>4 DEF Room
    <2>3. /\ r \in Shards /\ Listed(r) /\ r.minFreq = c.minFreq
          /\ \/ /\ ~MinFreqLost(c)
                /\ \E v \in Cached(c) :
                     /\ \A j \in Cached(c) : c.freq[v] <= c.freq[j]
                     /\ r.freq = [c.freq EXCEPT ![v] = 0]
             \/ MinFreqLost(c) /\ r.freq = c.freq
      BY <1>4, <2>1, KickOutFacts DEF Orphaning
    <2> HIDE DEF r
    <2>4. CASE ~MinFreqLost(c)
      <3>1. PICK v \in Cached(c) :
              /\ \A j \in Cached(c) : c.freq[v] <= c.freq[j]
              /\ r.freq = [c.freq EXCEPT ![v] = 0]
        BY <2>3, <2>4
      <3>2. Cached(r) = Cached(c) \ {v}
        BY <1>1, <3>1 DEF Cached
      <3>3. IsFiniteSet(Cached(r)) /\ Cardinality(Cached(r)) = n - 1
        BY <1>1, <1>2, <3>2, FS_RemoveElement
      <3>4. n - 1 < sliceSize
        BY <1>1, <2>1
      <3> QED
        BY <1>1, <2>2, <2>3, <3>1, <3>2, <3>3, <3>4
    <2>5. CASE MinFreqLost(c)
      <3>1. Cached(r) = Cached(c)
        BY <2>3, <2>5 DEF Cached
      <3> QED
        BY <1>1, <2>2, <2>3, <2>5, <3>1
    <2> QED
      BY <2>4, <2>5
  <1> QED
    BY <1>3, <1>4

(* A put() of a new key keeps the shard in order, finds minFreq_ again if  *)
(* it was lost, and stays within the capacity unless it was.               *)
LEMMA PutFacts ==
  ASSUME NEW c, ShardInv(c), sliceSize # 0, NEW k \in Keys, k \notin Cached(c),
         NEW dummy, ~Orphaning(c, dummy), NEW e \in putInternal(c, k, dummy)
  PROVE  /\ ShardInv(e) /\ ~MinFreqLost(e)
         /\ ~MinFreqLost(c) /\ Cardinality(Cached(c)) <= sliceSize
              => Cardinality(Cached(e)) <= sliceSize
         /\ \A v \in Cached(c) \ Cached(e) : \A j \in Cached(c) : c.freq[v] <= c.freq[j]
  <1> DEFINE r == Room(c, dummy)
             i == Inserted(r, k)
  <1>1. PICK d \in addFreqNum(i) : e = [d EXCEPT !.minFreq = Min({@, 1})]
    BY Zenon DEF putInternal, Room, Inserted
  <1>2. /\ r \in Shards /\ Listed(r) /\ r.minFreq # 0
        /\ IsFiniteSet(Cached(r)) /\ Cached(r) \subseteq Cached(c)
        /\ ~MinFreqLost(c) /\ Cardinality(Cached(c)) <= sliceSize
             => Cardinality(Cached(r)) < sliceSize
        /\ \A v \in Cached(c) \ Cached(r) : \A j \in Cached(c) : c.freq[v] <= c.freq[j]
    BY RoomFacts
  <1> HIDE DEF r
  <1>3. /\ i \in Shards /\ Listed(i) /\ i.minFreq = r.minFreq
        /\ i.freq = [r.freq EXCEPT ![k] = 1]
        /\ Cached(i) = Cached(r) \cup {k}
    BY <1>2, InsertedFacts
  <1> HIDE DEF i
  <1>4. i.freq[k] = 1
    BY <1>2, <1>3, ShardFields
  <1>5. /\ IsFiniteSet(Cached(i))
        /\ Cardinality(Cached(i)) = Cardinality(Cached(r)) + 1
        /\ Cardinality(Cached(r)) \in Nat
    BY <1>2, <1>3, FS_AddElement, FS_CardinalityType
  <1>6. Cached(d) = Cached(i) /\ d.freq[k] = 1
    BY <1>2, <1>3, <1>4, <1>5, CountedKeeps
  <1>7. d \in Shards /\ Listed(d) /\ d.minFreq # 0
    BY <1>2, <1>3, <1>5, CountedFacts
  <1>8. d.freq \in [Keys -> Nat] /\ d.minFreq \in Nat
    BY <1>7, ShardFields
  <1>9. Min({d.minFreq, 1}) = 1
    <2>1. {d.minFreq, 1} \in SUBSET Nat /\ {d.minFreq, 1} # {}
      BY <1>8
    <2>2. PICK x \in {d.minFreq, 1} : x = Min({d.minFreq, 1}) /\ \A y \in {d.minFreq, 1} : x <= y
      BY <2>1, LeastNatural
    <2> QED
      BY <1>7, <1>8, <2>2
  <1>10. e = [d EXCEPT !.minFreq = 1]
    BY <1>1, <1>9
  <1>11. e \in Shards /\ e.freq = d.freq /\ e.lists = d.lists /\ e.minFreq = 1
    BY <1>7, <1>10 DEF Shards
  <1>12. Cached(e) = Cached(i)
    BY <1>6, <1>11 DEF Cached
  <1>13. k \in Cached(e) /\ e.freq[k] = 1
    BY <1>3, <1>6, <1>11, <1>12
  <1>14. \A j \in Cached(e) : 1 <= e.freq[j]
    BY <1>8, <1>11, CachedKeys
  <1>15. LeastKnown(e)
    BY <1>11, <1>13, <1>14 DEF LeastKnown
  <1>16. Listed(e)
    BY <1>6, <1>7, <1>11, <1>12 DEF Listed
  <1>17. ShardInv(e)
    BY <1>5, <1>11, <1>12, <1>15, <1>16 DEF ShardInv
  <1>18. ~MinFreqLost(e)
    BY <1>13, LfuConstants DEF MinFreqLost
  <1>19. ~MinFreqLost(c) /\ Cardinality(Cached(c)) <= sliceSize
              => Cardinality(Cached(e)) <= sliceSize
    BY <1>2, <1>5, <1>12, LfuConstants
  <1>20. Cached(c) \ Cached(e) \subseteq Cached(c) \ Cached(r)
    BY <1>3, <1>12
  <1> QED
    BY <1>2, <1>17, <1>18, <1>19, <1>20

(* Every key has a shard.                                                  *)
LEMMA SliceOfKey ==
  ASSUME NEW k \in Keys
  PROVE  SliceOf(k) \in Slices
  <1>1. PICK h \in Nat : h = Hash[k]
    BY HashAssumption
  <1>2. h % sliceNum_ \in 0..(sliceNum_ - 1)
    BY LfuConstants
  <1> QED
    BY <1>1, <1>2 DEF SliceOf, Slices

(* What a call on a key may do to the shards: one of them changes, by an   *)
(* access or by an insertion.                                              *)
LEMMA CallCases ==
  ASSUME NEW k \in Keys, Put(k) \/ Get(k)
  PROVE  \E d :
           /\ slices' = [slices EXCEPT ![SliceOf(k)] = d]
           /\ lost' = (lost \/ MinFreqLost(d))
           /\ \/ /\ k \in Cached(slices[SliceOf(k)])
                 /\ d \in getInternal(slices[SliceOf(k)], k)
                 /\ orphaned' = orphaned
              \/ /\ sliceSize # 0
                 /\ k \notin Cached(slices[SliceOf(k)])
                 /\ \E dummy : /\ d \in putInternal(slices[SliceOf(k)], k, dummy)
                               /\ orphaned' = (orphaned
                                     \/ Orphaning(slices[SliceOf(k)], dummy))
  BY Zenon DEF Put, Get, Access, ShardBecomes

(* Unless a dummy took a cached key, a call keeps its shard in order and   *)
(* evicts the least used.                                                  *)
LEMMA CallFacts ==
  ASSUME InOrder, ~orphaned', NEW k \in Keys, Put(k) \/ Get(k)
  PROVE  \E d :
           /\ slices' = [slices EXCEPT ![SliceOf(k)] = d]
           /\ lost' = (lost \/ MinFreqLost(d))
           /\ ShardInv(d)
           /\ LET c == slices[SliceOf(k)]
              IN  /\ ~MinFreqLost(c) /\ Cardinality(Cached(c)) <= sliceSize
                       => Cardinality(Cached(d)) <= sliceSize
                  /\ \A v \in Cached(c) \ Cached(d) : \A j \in Cached(c) : c.freq[v] <= c.freq[j]
  <1> DEFINE c == slices[SliceOf(k)]
  <1>1. ShardInv(c)
    BY SliceOfKey DEF InOrder
  <1>2. PICK d :
           /\ slices' = [slices EXCEPT ![SliceOf(k)] = d]
           /\ lost' = (lost \/ MinFreqLost(d))
           /\ \/ k \in Cached(c) /\ d \in getInternal(c, k)
              \/ /\ sliceSize # 0 /\ k \notin Cached(c)
                 /\ \E dummy : ~Orphaning(c, dummy) /\ d \in putInternal(c, k, dummy)
    BY CallCases, Zenon
  <1> HIDE DEF c
  <1>3. /\ ShardInv(d)
        /\ ~MinFreqLost(c) /\ Cardinality(Cached(c)) <= sliceSize
             => Cardinality(Cached(d)) <= sliceSize
        /\ \A v \in Cached(c) \ Cached(d) : \A j \in Cached(c) : c.freq[v] <= c.freq[j]
    <2>1. CASE k \in Cached(c) /\ d \in getInternal(c, k)
      BY <1>1, <2>1, AccessFacts
    <2>2. ASSUME sliceSize # 0, k \notin Cached(c),
                 NEW dummy, ~Orphaning(c, dummy), d \in putInternal(c, k, dummy)
          PROVE  /\ ShardInv(d)
                 /\ ~MinFreqLost(c) /\ Cardinality(Cached(c)) <= sliceSize
                      => Cardinality(Cached(d)) <= sliceSize
                 /\ \A v \in Cached(c) \ Cached(d) :
                       \A j \in Cached(c) : c.freq[v] <= c.freq[j]
      BY <1>1, <2>2, PutFacts, Zenon
    <2> QED
      BY <1>2, <2>1, <2>2
  <1> QED
    BY <1>2, <1>3, Zenon DEF c

(* A dummy takes a cached key only when minFreq_ was lost.                 *)
LEMMA OrphaningLost ==
  ASSUME InOrder, NEW s \in Slices, NEW dummy, Orphaning(slices[s], dummy)
  PROVE  lost
  <1>1. PICK c : c = slices[s] /\ ShardInv(c) /\ (MinFreqLost(c) => lost)
    BY DEF InOrder
  <1>2. Cached(c) # {} /\ isEmpty(c, c.minFreq) /\ c \in Shards /\ Listed(c)
    BY <1>1 DEF Orphaning, ShardInv
  <1>3. ~LeastKnown(c)
    <2>1. LeastKnown(c) => c.minFreq \in DOMAIN c.lists
      BY <1>2 DEF LeastKnown, Listed
    <2> QED
      BY <1>2, <2>1, EmptyLists DEF LeastKnown
  <1> QED
    BY <1>1, <1>2, <1>3 DEF ShardInv

(* A shard without nodes is in order whatever its numbers are.             *)
LEMMA EmptyShard ==
  ASSUME NEW c \in Shards, c.freq = NoNodes, c.lists = NoLists, c.minFreq # 0
  PROVE  ShardInv(c) /\ ~MinFreqLost(c) /\ Cached(c) = {} /\ Cardinality(Cached(c)) = 0
  <1>1. Cached(c) = {}
    BY DEF Cached, NoNodes
  <1>2. DOMAIN c.lists = {}
    BY DEF NoLists
  <1>3. Listed(c)
    BY <1>1, <1>2 DEF Listed
  <1> QED
    BY <1>1, <1>3, FS_EmptySet DEF ShardInv, MinFreqLost

(* No maps at all are maps to lists.                                       *)
LEMMA NoListsTyped == NoLists \in ListMaps /\ NoNodes \in [Keys -> Nat]
  <1>1. {} \in SUBSET Nat /\ NoLists \in [{} -> Seq(Keys)]
    BY DEF NoLists
  <1> QED
    BY <1>1 DEF ListMaps, NoNodes

(* A new cache is in order.                                                *)
LEMMA LfuInitInv == LfuInit => LfuInv
  <1> SUFFICES ASSUME LfuInit PROVE LfuInv
    OBVIOUS
  <1>1. /\ NewShard \in Shards /\ NewShard.freq = NoNodes /\ NewShard.lists = NoLists
        /\ NewShard.minFreq # 0
    BY NoListsTyped, LfuConstants DEF NewShard, Shards
  <1>2. /\ ShardInv(NewShard) /\ ~MinFreqLost(NewShard)
        /\ Cardinality(Cached(NewShard)) <= sliceSize
    BY <1>1, EmptyShard, LfuConstants
  <1>3. slices \in [Slices -> Shards] /\ \A s \in Slices : slices[s] = NewShard
    BY <1>1 DEF LfuInit
  <1> QED
    BY <1>2, <1>3 DEF LfuInv, InOrder, LfuInit

(* purge() leaves shards without nodes.                                    *)
LEMMA PurgeFacts ==
  ASSUME InOrder, Purge
  PROVE  /\ slices' \in [Slices -> Shards]
         /\ \A s \in Slices :
              /\ ShardInv(slices'[s]) /\ ~MinFreqLost(slices'[s])
              /\ Cached(slices'[s]) = {} /\ Cardinality(Cached(slices'[s])) = 0
  <1> DEFINE e(s) == [slices[s] EXCEPT !.freq = NoNodes, !.lists = NoLists]
  <1>1. ASSUME NEW s \in Slices
        PROVE  /\ e(s) \in Shards /\ e(s).freq = NoNodes /\ e(s).lists = NoLists
               /\ e(s).minFreq # 0
    <2>1. slices[s] \in Shards /\ slices[s].minFreq # 0
      BY DEF InOrder, ShardInv
    <2> QED
      BY <2>1, NoListsTyped DEF Shards
  <1>2. slices' = [s \in Slices |-> e(s)]
    BY DEF Purge
  <1> HIDE DEF e
  <1>3. slices' \in [Slices -> Shards] /\ \A s \in Slices : slices'[s] = e(s)
    BY <1>1, <1>2
  <1> QED
    BY <1>1, <1>3, EmptyShard

(* put(), get() and purge() keep the cache in order, unless a dummy takes  *)
(* a cached key.                                                           *)
LEMMA OrderStep ==
  ASSUME InOrder, ~orphaned', [LfuNext]_lfuVars
  PROVE  InOrder'
  <1>1. ASSUME NEW k \in Keys, Put(k) \/ Get(k) PROVE InOrder'
    <2>1. PICK d :
             /\ slices' = [slices EXCEPT ![SliceOf(k)] = d]
             /\ lost' = (lost \/ MinFreqLost(d))
             /\ ShardInv(d)
             /\ ~MinFreqLost(slices[SliceOf(k)])
                /\ Cardinality(Cached(slices[SliceOf(k)])) <= sliceSize
                  => Cardinality(Cached(d)) <= sliceSize
      BY <1>1, CallFacts, Zenon
    <2>2. PICK x \in Slices : x = SliceOf(k)
      BY SliceOfKey
    <2>3. d \in Shards /\ slices \in [Slices -> Shards]
      BY <2>1 DEF ShardInv, InOrder
    <2>4. /\ slices' \in [Slices -> Shards] /\ slices'[x] = d
          /\ \A s \in Slices : s # x => slices'[s] = slices[s]
      BY <2>1, <2>2, <2>3
    <2>5. \A s \in Slices : ShardInv(slices'[s])
      BY <2>1, <2>4 DEF InOrder
    <2>6. \A s \in Slices : MinFreqLost(slices'[s]) => lost'
      BY <2>1, <2>4 DEF InOrder
    <2>7. ASSUME ~lost', NEW s \in Slices PROVE Cardinality(Cached(slices'[s])) <= sliceSize
      <3>1. ~lost /\ ~MinFreqLost(slices[x])
        BY <2>1, <2>7 DEF InOrder
      <3>2. \A y \in Slices : Cardinality(Cached(slices[y])) <= sliceSize
        BY <3>1 DEF InOrder
      <3>3. CASE s = x
        BY <2>1, <2>2, <2>4, <3>1, <3>2, <3>3
      <3>4. CASE s # x
        BY <2>4, <3>2, <3>4
      <3> QED
        BY <3>3, <3>4
    <2> QED
      BY <2>4, <2>5, <2>6, <2>7 DEF InOrder
  <1>2. CASE Purge
    <2>1. sliceSize \in Nat
      BY LfuConstants
    <2>2. /\ slices' \in [Slices -> Shards]
          /\ \A s \in Slices :
               /\ ShardInv(slices'[s]) /\ ~MinFreqLost(slices'[s])
               /\ Cardinality(Cached(slices'[s])) <= sliceSize
      BY <1>2, <2>1, PurgeFacts
    <2> QED
      BY <2>2 DEF InOrder
  <1>3. CASE UNCHANGED lfuVars
    BY <1>3 DEF lfuVars, InOrder
  <1> QED
    BY <1>1, <1>2, <1>3 DEF LfuNext

(* Neither mishap is ever undone.                                          *)
LEMMA Mishaps ==
  ASSUME LfuInv, [LfuNext]_lfuVars
  PROVE  (~orphaned' => ~orphaned) /\ (orphaned' => lost')
  <1>1. ASSUME NEW k \in Keys, Put(k) \/ Get(k)
        PROVE  (~orphaned' => ~orphaned) /\ (orphaned' => lost')
    <2>1. PICK d :
             /\ lost' = (lost \/ MinFreqLost(d))
             /\ \/ orphaned' = orphaned
                \/ \E dummy : orphaned' = (orphaned \/ Orphaning(slices[SliceOf(k)], dummy))
      BY <1>1, CallCases, Zenon
    <2>2. lost => lost'
      BY <2>1
    <2>3. CASE orphaned' = orphaned
      BY <2>2, <2>3 DEF LfuInv
    <2>4. ASSUME NEW dummy, orphaned' = (orphaned \/ Orphaning(slices[SliceOf(k)], dummy))
          PROVE  (~orphaned' => ~orphaned) /\ (orphaned' => lost')
      <3>1. ~orphaned /\ Orphaning(slices[SliceOf(k)], dummy) => lost
        BY SliceOfKey, OrphaningLost DEF LfuInv
      <3> QED
        BY <2>2, <2>4, <3>1 DEF LfuInv
    <2> QED
      BY <2>1, <2>3, <2>4
  <1>2. ASSUME Purge \/ UNCHANGED lfuVars
        PROVE  (~orphaned' => ~orphaned) /\ (orphaned' => lost')
    <2>1. lost' = lost /\ orphaned' = orphaned
      BY <1>2 DEF Purge, lfuVars
    <2>2. orphaned => lost
      BY DEF LfuInv
    <2> QED
      BY <2>1, <2>2, Zenon
  <1> QED
    BY <1>1, <1>2 DEF LfuNext

(* Every step keeps the invariant.                                         *)
LEMMA LfuStepInv == LfuInv /\ [LfuNext]_lfuVars => LfuInv'
  BY OrderStep, Mishaps DEF LfuInv

(* Until a dummy takes a cached key, which it may when minFreq_ was lost,  *)
(* every node is in the list of its frequency and in no other, and         *)
(* minFreq_ is the least frequency or lost.                                *)
THEOREM LfuInvariance == LfuSpec => []LfuInv
  BY LfuInitInv, LfuStepInv, PTL DEF LfuSpec

(* As long as minFreq_ was never lost, no shard outgrows its capacity.     *)
THEOREM CapacityKept == LfuSpec => []WithinCapacity
  <1>1. LfuInv => WithinCapacity
    BY DEF LfuInv, InOrder, WithinCapacity
  <1> QED
    BY <1>1, LfuInvariance, PTL

(* minFreq_ is the least frequency of a node, or lost (MinFreqLost), until *)
(* a dummy takes a cached key.                                             *)
THEOREM MinFreqIsLeast == LfuSpec => []MinFreqExact
  <1>1. LfuInv => MinFreqExact
    <2> SUFFICES ASSUME InOrder, NEW s \in Slices, Cached(slices[s]) # {}
                 PROVE  \/ slices[s].minFreq = Min({slices[s].freq[k] : k \in Cached(slices[s])})
                        \/ MinFreqLost(slices[s])
      BY DEF LfuInv, MinFreqExact
    <2>1. PICK c : c = slices[s] /\ ShardInv(c)
      BY DEF InOrder
    <2>2. c.freq \in [Keys -> Nat] /\ c.minFreq \in Nat
      BY <2>1, ShardFields DEF ShardInv
    <2>3. CASE LeastKnown(c)
      <3> DEFINE S == {c.freq[k] : k \in Cached(c)}
      <3>1. S \in SUBSET Nat /\ S # {}
        BY <2>1, <2>2, CachedKeys
      <3>2. c.minFreq \in S /\ \A y \in S : c.minFreq <= y
        BY <2>3 DEF LeastKnown
      <3> HIDE DEF S
      <3>3. PICK m \in S : m = Min(S) /\ \A y \in S : m <= y
        BY <3>1, LeastNatural
      <3>4. m \in Nat /\ m <= c.minFreq /\ c.minFreq <= m
        BY <3>1, <3>2, <3>3
      <3>5. m = c.minFreq
        BY <2>2, <3>4
      <3> QED
        BY <2>1, <3>3, <3>5 DEF S
    <2> QED
      BY <2>1, <2>3 DEF ShardInv
  <1> QED
    BY <1>1, LfuInvariance, PTL

(* What a put() evicts was used least since it was inserted, as long as    *)
(* the frequencies are the uses and no dummy took a cached key.            *)
THEOREM EvictsLeastUsed == LfuSpec => LeastUsedEvicted
  <1> DEFINE P == ~orphaned' =>
                    \A s \in Slices :
                      LET c == slices[s]
                          kept == Cached(slices'[s])
                      IN  kept # {} /\ (\A k \in Cached(c) : c.freq[k] = uses[k]) =>
                            \A k \in Cached(c) \ kept : \A j \in Cached(c) : uses[k] <= uses[j]
  <1>1. ASSUME LfuInv, [LfuNext]_lfuVars PROVE [P]_lfuVars
    <2> SUFFICES ASSUME LfuNext, ~orphaned', NEW s \in Slices,
                        Cached(slices'[s]) # {},
                        \A k \in Cached(slices[s]) : slices[s].freq[k] = uses[k],
                        NEW v \in Cached(slices[s]) \ Cached(slices'[s]),
                        NEW j \in Cached(slices[s])
                 PROVE  uses[v] <= uses[j]
      BY <1>1
    <2>0. InOrder
      BY <1>1, Mishaps DEF LfuInv
    <2>1. ~Purge
      BY <2>0, PurgeFacts
    <2>2. PICK k \in Keys : Put(k) \/ Get(k)
      BY <2>1 DEF LfuNext
    <2>3. PICK d :
             /\ slices' = [slices EXCEPT ![SliceOf(k)] = d]
             /\ \A x \in Cached(slices[SliceOf(k)]) \ Cached(d) :
                  \A y \in Cached(slices[SliceOf(k)]) :
                    slices[SliceOf(k)].freq[x] <= slices[SliceOf(k)].freq[y]
      BY <2>0, <2>2, CallFacts, Zenon
    <2>4. slices \in [Slices -> Shards]
      BY <2>0 DEF InOrder
    <2>5. s = SliceOf(k) /\ slices'[s] = d
      BY <2>3, <2>4
    <2>6. slices[s].freq[v] <= slices[s].freq[j]
      BY <2>3, <2>5
    <2> QED
      BY <2>6
  <1> HIDE DEF P
  <1>2. LfuInv /\ [LfuNext]_lfuVars => [P]_lfuVars
    BY <1>1
  <1>3. LfuSpec => [][P]_lfuVars
    BY <1>2, LfuInvariance, PTL DEF LfuSpec
  <1> QED
    BY <1>3 DEF P, LeastUsedEvicted

-----------------------------------------------------------------------------
(* curTotalNum_ and the frequencies.  A maxAverageNum_ of 0 or 1 is left   *)
(* out: ageing then lowers nothing, and the 1 that the eviction of a dummy *)
(* takes off curTotalNum_ is missing from it.                              *)

Covered(c) ==
    /\ IsFiniteSet(Units(c.freq))
    /\ Cardinality(Units(c.freq)) <= c.total
    /\ MinFreqLost(c) => Cardinality(Units(c.freq)) < c.total

AllCovered == \A s \in Slices : Covered(slices[s])

(* What the elements that are counted look like.                           *)
LEMMA UnitElements ==
  ASSUME NEW F \in [Keys -> Nat]
  PROVE  /\ \A u \in Units(F) : \E k \in Keys : \E i \in 1..F[k] : u = <<k, i>>
         /\ \A k \in Keys : \A i \in 1..F[k] : <<k, i>> \in Units(F)
         /\ \A k, i : <<k, i>> \in Units(F) => k \in Keys /\ i \in 1..F[k]
  <1>1. \A u \in Units(F) : \E k \in Keys : \E i \in 1..F[k] : u = <<k, i>>
    BY DEF Units
  <1>2. \A k \in Keys : \A i \in 1..F[k] : <<k, i>> \in Units(F)
    BY DEF Units
  <1>3. \A k, i : <<k, i>> \in Units(F) => k \in Keys /\ i \in 1..F[k]
    BY <1>1
  <1> QED
    BY <1>1, <1>2, <1>3

(* One more use is one more element.                                       *)
LEMMA UnitAdded ==
  ASSUME NEW F \in [Keys -> Nat], NEW k \in Keys, IsFiniteSet(Units(F)),
         NEW G \in [Keys -> Nat], G[k] = F[k] + 1, \A j \in Keys : j # k => G[j] = F[j]
  PROVE  /\ IsFiniteSet(Units(G))
         /\ Cardinality(Units(G)) = Cardinality(Units(F)) + 1
  <1>1. PICK n \in Nat : n = F[k]
    OBVIOUS
  <1> DEFINE x == <<k, n + 1>>
  <1>2. x \notin Units(F)
    <2>1. n + 1 \notin 1..n
      OBVIOUS
    <2> QED
      BY <1>1, <2>1, UnitElements
  <1>3. x \in Units(G)
    <2>1. n + 1 \in 1..G[k]
      BY <1>1
    <2> QED
      BY <2>1, UnitElements
  <1>4. ASSUME NEW u \in Units(F) PROVE u \in Units(G)
    <2>1. PICK j \in Keys, i \in Nat : i \in 1..F[j] /\ u = <<j, i>>
      BY UnitElements
    <2>2. i \in 1..G[j]
      BY <2>1, <1>1
    <2> QED
      BY <2>1, <2>2, UnitElements
  <1>5. ASSUME NEW u \in Units(G), u # x PROVE u \in Units(F)
    <2>1. PICK j \in Keys, i \in Nat : i \in 1..G[j] /\ u = <<j, i>>
      BY UnitElements
    <2>2. i \in 1..F[j]
      BY <1>1, <1>5, <2>1
    <2> QED
      BY <2>1, <2>2, UnitElements
  <1> HIDE DEF x
  <1>6. Units(G) = Units(F) \cup {x}
    BY <1>3, <1>4, <1>5
  <1> QED
    BY <1>2, <1>6, FS_AddElement

(* A node of frequency n stands for n elements.                            *)
LEMMA UnitsOfKey ==
  ASSUME NEW v, NEW n \in Nat
  PROVE  IsFiniteSet({v} \X (1..n)) /\ Cardinality({v} \X (1..n)) = n
  <1> DEFINE b == [i \in 1..n |-> <<v, i>>]
             T == {v} \X (1..n)
  <1>1. b \in [1..n -> T]
    OBVIOUS
  <1>2. \A i, j \in 1..n : b[i] = b[j] => i = j
    OBVIOUS
  <1>3. \A t \in T : \E i \in 1..n : b[i] = t
    OBVIOUS
  <1> HIDE DEF b, T
  <1>4. b \in Bijection(1..n, T)
    BY <1>1, <1>2, <1>3, Fun_IsBij
  <1>5. ExistsBijection(1..n, T)
    BY <1>4, Zenon DEF ExistsBijection
  <1>6. IsFiniteSet(1..n) /\ Cardinality(1..n) = n
    BY FS_Interval
  <1> QED
    BY <1>5, <1>6, FS_Bijection DEF T

(* Without the node of v, those elements are gone.                         *)
LEMMA UnitsRemoved ==
  ASSUME NEW F \in [Keys -> Nat], NEW v \in Keys, IsFiniteSet(Units(F)),
         NEW G \in [Keys -> Nat], G[v] = 0, \A j \in Keys : j # v => G[j] = F[j]
  PROVE  /\ IsFiniteSet(Units(G))
         /\ Cardinality(Units(G)) = Cardinality(Units(F)) - F[v]
  <1>1. PICK n \in Nat : n = F[v]
    OBVIOUS
  <1> DEFINE T == {v} \X (1..n)
  <1>2. IsFiniteSet(T) /\ Cardinality(T) = n
    BY UnitsOfKey
  <1>3. \A u \in T : \E i \in 1..n : u = <<v, i>>
    OBVIOUS
  <1>4. \A i \in 1..n : <<v, i>> \in T
    OBVIOUS
  <1>5. ASSUME NEW u \in Units(F) PROVE u \in Units(G) \/ u \in T
    <2>1. PICK j \in Keys, i \in Nat : i \in 1..F[j] /\ u = <<j, i>>
      BY UnitElements
    <2>2. CASE j = v
      BY <1>1, <1>4, <2>1, <2>2
    <2>3. CASE j # v
      BY <2>1, <2>3, UnitElements
    <2> QED
      BY <2>2, <2>3
  <1>6. ASSUME NEW u \in Units(G) PROVE u \in Units(F) /\ u \notin T
    <2>1. PICK j \in Keys, i \in Nat : i \in 1..G[j] /\ u = <<j, i>>
      BY UnitElements
    <2>2. j # v
      BY <2>1
    <2> QED
      BY <1>3, <2>1, <2>2, UnitElements
  <1>7. ASSUME NEW u \in T PROVE u \in Units(F)
    BY <1>1, <1>3, <1>7, UnitElements
  <1> HIDE DEF T
  <1>8. Units(G) = Units(F) \ T /\ Units(F) \cap T = T
    BY <1>5, <1>6, <1>7
  <1> DEFINE S == Units(F)
  <1>9. PICK m \in Nat : m = Cardinality(S)
    BY FS_CardinalityType
  <1> HIDE DEF S
  <1>10. IsFiniteSet(S \ T) /\ Cardinality(S \ T) = Cardinality(S) - Cardinality(S \cap T)
    BY FS_Difference DEF S
  <1>11. S \cap T = T /\ Units(G) = S \ T
    BY <1>8 DEF S
  <1>12. Cardinality(S \ T) = m - n
    BY <1>2, <1>9, <1>10, <1>11
  <1>13. Cardinality(Units(F)) = m
    BY <1>9 DEF S
  <1> QED
    BY <1>1, <1>10, <1>11, <1>12, <1>13

(* Lower frequencies are fewer elements.                                   *)
LEMMA UnitsLowered ==
  ASSUME NEW F \in [Keys -> Nat], IsFiniteSet(Units(F)),
         NEW G \in [Keys -> Nat], \A k \in Keys : G[k] <= F[k]
  PROVE  /\ IsFiniteSet(Units(G))
         /\ Cardinality(Units(G)) <= Cardinality(Units(F))
         /\ (\E k \in Keys : G[k] < F[k]) => Cardinality(Units(G)) < Cardinality(Units(F))
  <1>1. ASSUME NEW u \in Units(G) PROVE u \in Units(F)
    <2>1. PICK j \in Keys, i \in Nat : i \in 1..G[j] /\ u = <<j, i>>
      BY UnitElements
    <2>2. i \in 1..F[j]
      BY <2>1
    <2> QED
      BY <2>1, <2>2, UnitElements
  <1>2. Units(G) \in SUBSET Units(F)
    BY <1>1
  <1>3. /\ IsFiniteSet(Units(G))
        /\ Cardinality(Units(G)) <= Cardinality(Units(F))
        /\ Cardinality(Units(F)) = Cardinality(Units(G)) => Units(F) = Units(G)
    BY <1>2, FS_Subset
  <1>4. ASSUME NEW k \in Keys, G[k] < F[k] PROVE Units(F) # Units(G)
    <2>1. F[k] \in 1..F[k] /\ F[k] \notin 1..G[k]
      BY <1>4
    <2> QED
      BY <2>1, UnitElements
  <1>5. Cardinality(Units(G)) \in Nat /\ Cardinality(Units(F)) \in Nat
    BY <1>3, FS_CardinalityType
  <1> QED
    BY <1>3, <1>4, <1>5

(* addFreqNum() on a shard whose total lacks at most the access it counts. *)
LEMMA CountedCovers ==
  ASSUME maxAverageNum_ > 1,
         NEW c \in Shards, Listed(c), Cached(c) # {}, IsFiniteSet(Cached(c)), c.minFreq # 0,
         IsFiniteSet(Units(c.freq)), Cardinality(Units(c.freq)) <= c.total + 1,
         MinFreqLost(c) => Cardinality(Units(c.freq)) < c.total + 1,
         NEW d \in addFreqNum(c)
  PROVE  Covered(d)
  <1>1. /\ d \in Shards /\ d.total = c.total + 1
        /\ \/ d.freq = c.freq /\ d.minFreq = c.minFreq
           \/ \A k \in Keys : d.freq[k] = IF c.freq[k] = 0 THEN 0 ELSE Lowered(c.freq[k])
    BY CountedFacts
  <1>2. c.freq \in [Keys -> Nat] /\ d.freq \in [Keys -> Nat] /\ c.total \in Int
    BY <1>1, ShardFields
  <1>3. PICK n \in Nat : n = Cardinality(Units(c.freq))
    BY FS_CardinalityType
  <1>4. CASE d.freq = c.freq /\ d.minFreq = c.minFreq
    <2>1. MinFreqLost(d) <=> MinFreqLost(c)
      BY <1>4 DEF MinFreqLost, Cached
    <2> QED
      BY <1>1, <1>4, <2>1 DEF Covered
  <1>5. CASE \A k \in Keys : d.freq[k] = IF c.freq[k] = 0 THEN 0 ELSE Lowered(c.freq[k])
    <2>1. \A k \in Keys : d.freq[k] <= c.freq[k] /\ (d.freq[k] > 1 => d.freq[k] < c.freq[k])
      BY <1>2, <1>5, LoweredFacts
    <2>2. MinFreqLost(d) => \E k \in Keys : d.freq[k] < c.freq[k]
      <3> SUFFICES ASSUME MinFreqLost(d) PROVE \E k \in Keys : d.freq[k] < c.freq[k]
        OBVIOUS
      <3>1. PICK k \in Cached(d) : d.freq[k] >= INT8_MAX
        BY DEF MinFreqLost
      <3>2. k \in Keys /\ d.freq[k] > 1
        BY <1>2, <3>1, CachedKeys, LfuConstants
      <3> QED
        BY <2>1, <3>2
    <2>3. /\ IsFiniteSet(Units(d.freq))
          /\ Cardinality(Units(d.freq)) <= n
          /\ (\E k \in Keys : d.freq[k] < c.freq[k]) => Cardinality(Units(d.freq)) < n
      BY <1>2, <1>3, <2>1, UnitsLowered
    <2>4. PICK m \in Nat : m = Cardinality(Units(d.freq))
      BY <2>3, FS_CardinalityType
    <2> QED
      BY <1>1, <1>2, <1>3, <2>2, <2>3, <2>4 DEF Covered
  <1> QED
    BY <1>1, <1>4, <1>5

(* An access adds one to both.                                             *)
LEMMA AccessCovers ==
  ASSUME maxAverageNum_ > 1, NEW c, ShardInv(c), Covered(c), NEW k \in Cached(c),
         NEW d \in getInternal(c, k)
  PROVE  Covered(d)
  <1> DEFINE g == Raised(c, k)
  <1>1. d \in addFreqNum(g)
    BY DEF getInternal, Raised
  <1>2. /\ g \in Shards /\ Listed(g) /\ Cached(g) = Cached(c) /\ g.minFreq # 0
        /\ LeastKnown(g) \/ (MinFreqLost(c) /\ MinFreqLost(g))
        /\ g.freq = [c.freq EXCEPT ![k] = @ + 1]
        /\ g.total = c.total
    BY RaisedFacts
  <1> HIDE DEF g
  <1>3. c.freq \in [Keys -> Nat] /\ g.freq \in [Keys -> Nat] /\ c.total \in Int /\ k \in Keys
    BY <1>2, ShardFields, CachedKeys DEF ShardInv
  <1>4. g.freq[k] = c.freq[k] + 1 /\ \A j \in Keys : j # k => g.freq[j] = c.freq[j]
    BY <1>2, <1>3
  <1>5. PICK n \in Nat : n = Cardinality(Units(c.freq))
    BY FS_CardinalityType DEF Covered
  <1>6. IsFiniteSet(Units(g.freq)) /\ Cardinality(Units(g.freq)) = n + 1
    BY <1>3, <1>4, <1>5, UnitAdded DEF Covered
  <1>7. n <= c.total /\ (MinFreqLost(c) => n < c.total)
    BY <1>5 DEF Covered
  <1>8. MinFreqLost(g) => MinFreqLost(c)
    <2>1. LeastKnown(g) => ~MinFreqLost(g)
      BY <1>3, CachedKeys, LfuConstants DEF LeastKnown, MinFreqLost
    <2> QED
      BY <1>2, <2>1
  <1>9. Cached(g) # {} /\ IsFiniteSet(Cached(g))
    BY <1>2 DEF ShardInv
  <1>10. n + 1 <= g.total + 1 /\ (MinFreqLost(g) => n + 1 < g.total + 1)
    BY <1>2, <1>3, <1>7, <1>8
  <1> QED
    BY <1>1, <1>2, <1>6, <1>9, <1>10, CountedCovers

(* An eviction takes the same from both, or 1 from a total that had it to  *)
(* spare.                                                                  *)
LEMMA RoomCovers ==
  ASSUME NEW c, ShardInv(c), Covered(c), sliceSize # 0, NEW dummy, ~Orphaning(c, dummy)
  PROVE  /\ IsFiniteSet(Units(Room(c, dummy).freq))
         /\ Cardinality(Units(Room(c, dummy).freq)) <= Room(c, dummy).total
  <1>1. PICK n \in Nat : n = Cardinality(Units(c.freq))
    BY FS_CardinalityType DEF Covered
  <1>2. n <= c.total /\ (MinFreqLost(c) => n < c.total) /\ IsFiniteSet(Units(c.freq))
    BY <1>1 DEF Covered
  <1>3. c.freq \in [Keys -> Nat] /\ c.total \in Int
    BY ShardFields DEF ShardInv
  <1>4. CASE ~Full(c)
    BY <1>1, <1>2, <1>4 DEF Room
  <1>5. CASE Full(c)
    <2>1. Cached(c) # {}
      BY <1>5, FS_EmptySet DEF Full
    <2> DEFINE r == kickOut(c, dummy)
    <2>2. Room(c, dummy) = r
      BY <1>5 DEF Room
    <2>3. \/ \E v \in Cached(c) :
               r.freq = [c.freq EXCEPT ![v] = 0] /\ r.total = c.total - c.freq[v]
          \/ MinFreqLost(c) /\ r.freq = c.freq /\ r.total = c.total - 1
      BY <1>5, <2>1, KickOutFacts DEF Orphaning
    <2> HIDE DEF r
    <2>4. ASSUME NEW v \in Cached(c),
                 r.freq = [c.freq EXCEPT ![v] = 0], r.total = c.total - c.freq[v]
          PROVE  IsFiniteSet(Units(r.freq)) /\ Cardinality(Units(r.freq)) <= r.total
      <3>1. v \in Keys /\ c.freq[v] \in Nat
        BY <1>3, CachedKeys
      <3>2. /\ r.freq \in [Keys -> Nat] /\ r.freq[v] = 0
            /\ \A j \in Keys : j # v => r.freq[j] = c.freq[j]
        BY <1>3, <2>4, <3>1
      <3>3. /\ IsFiniteSet(Units(r.freq))
            /\ Cardinality(Units(r.freq)) = n - c.freq[v]
        BY <1>1, <1>2, <1>3, <3>1, <3>2, UnitsRemoved
      <3> QED
        BY <1>2, <1>3, <2>4, <3>1, <3>3
    <2>5. CASE MinFreqLost(c) /\ r.freq = c.freq /\ r.total = c.total - 1
      <3>1. n <= c.total - 1
        BY <1>2, <1>3, <2>5
      <3>2. Units(r.freq) = Units(c.freq)
        BY <2>5
      <3>3. r.total = c.total - 1
        BY <2>5
      <3> QED
        BY <1>1, <1>2, <2>2, <3>1, <3>2, <3>3
    <2> QED
      BY <2>2, <2>3, <2>4, <2>5
  <1> QED
    BY <1>4, <1>5

(* An insertion adds one to both.                                          *)
LEMMA PutCovers ==
  ASSUME maxAverageNum_ > 1, NEW c, ShardInv(c), Covered(c), sliceSize # 0,
         NEW k \in Keys, k \notin Cached(c),
         NEW dummy, ~Orphaning(c, dummy), NEW e \in putInternal(c, k, dummy)
  PROVE  Covered(e)
  <1> DEFINE r == Room(c, dummy)
             i == Inserted(r, k)
  <1>1. PICK d \in addFreqNum(i) : e = [d EXCEPT !.minFreq = Min({@, 1})]
    BY Zenon DEF putInternal, Room, Inserted
  <1>2. /\ r \in Shards /\ Listed(r) /\ r.minFreq # 0
        /\ IsFiniteSet(Cached(r)) /\ Cached(r) \subseteq Cached(c)
    BY RoomFacts
  <1>3. PICK n \in Nat : IsFiniteSet(Units(r.freq)) /\ n = Cardinality(Units(r.freq)) /\ n <= r.total
    BY RoomCovers, FS_CardinalityType
  <1> HIDE DEF r
  <1>4. /\ i \in Shards /\ Listed(i) /\ i.minFreq = r.minFreq /\ i.total = r.total
        /\ i.freq = [r.freq EXCEPT ![k] = 1]
        /\ Cached(i) = Cached(r) \cup {k}
    BY <1>2, InsertedFacts
  <1> HIDE DEF i
  <1>5. /\ r.freq \in [Keys -> Nat] /\ i.freq \in [Keys -> Nat] /\ r.total \in Int
        /\ r.freq[k] = 0 /\ i.freq[k] = 1 /\ \A j \in Keys : j # k => i.freq[j] = r.freq[j]
    BY <1>2, <1>4, ShardFields, CachedKeys
  <1>6. IsFiniteSet(Units(i.freq)) /\ Cardinality(Units(i.freq)) = n + 1
    BY <1>3, <1>5, UnitAdded
  <1>7. Cached(i) # {} /\ IsFiniteSet(Cached(i))
    BY <1>2, <1>4, FS_AddElement
  <1>8. ~MinFreqLost(i)
    BY <1>4, <1>5, LfuConstants DEF MinFreqLost
  <1>9. n + 1 <= i.total + 1
    BY <1>3, <1>4, <1>5
  <1>10. Covered(d)
    BY <1>2, <1>4, <1>6, <1>7, <1>8, <1>9, CountedCovers
  <1>11. d \in Shards
    BY <1>2, <1>4, <1>7, CountedFacts
  <1>12. e.freq = d.freq /\ e.total = d.total
    BY <1>1, <1>11 DEF Shards
  <1>13. ~MinFreqLost(e)
    BY PutFacts
  <1> QED
    BY <1>10, <1>12, <1>13 DEF Covered

(* Without nodes there are no elements.                                    *)
LEMMA NoUnits == IsFiniteSet(Units(NoNodes)) /\ Cardinality(Units(NoNodes)) = 0
  <1>1. Units(NoNodes) = {}
    BY DEF Units, NoNodes
  <1> QED
    BY <1>1, FS_EmptySet

(* No step leaves a total below the frequencies.                           *)
LEMMA CoverStep ==
  ASSUME maxAverageNum_ > 1
  PROVE  InOrder /\ AllCovered /\ ~orphaned' /\ [LfuNext]_lfuVars => AllCovered'
  <1> SUFFICES ASSUME InOrder, AllCovered, ~orphaned', [LfuNext]_lfuVars PROVE AllCovered'
    OBVIOUS
  <1>0. slices \in [Slices -> Shards]
    BY DEF InOrder
  <1>1. ASSUME NEW k \in Keys, Put(k) \/ Get(k) PROVE AllCovered'
    <2>1. PICK x \in Slices : x = SliceOf(k)
      BY SliceOfKey
    <2>2. ShardInv(slices[x]) /\ Covered(slices[x])
      BY DEF InOrder, AllCovered
    <2>3. PICK d :
             /\ slices' = [slices EXCEPT ![x] = d]
             /\ \/ k \in Cached(slices[x]) /\ d \in getInternal(slices[x], k)
                \/ /\ sliceSize # 0 /\ k \notin Cached(slices[x])
                   /\ \E dummy : /\ ~Orphaning(slices[x], dummy)
                                 /\ d \in putInternal(slices[x], k, dummy)
      BY <1>1, <2>1, CallCases, Zenon
    <2>4. Covered(d)
      BY <2>2, <2>3, AccessCovers, PutCovers, Zenon
    <2>5. slices'[x] = d /\ \A s \in Slices : s # x => slices'[s] = slices[s]
      BY <1>0, <2>3
    <2> QED
      BY <2>4, <2>5 DEF AllCovered
  <1>2. CASE Purge
    <2>1. ASSUME NEW s \in Slices PROVE Covered(slices'[s])
      <3>1. slices[s] \in Shards /\ slices[s].total \in Int /\ Covered(slices[s])
        BY <1>0, ShardFields DEF AllCovered
      <3>2. slices[s].total >= 0
        BY <3>1, FS_CardinalityType DEF Covered
      <3>3. slices'[s] = [slices[s] EXCEPT !.freq = NoNodes, !.lists = NoLists]
        BY <1>2 DEF Purge
      <3>4. slices'[s].freq = NoNodes /\ slices'[s].total = slices[s].total
        BY <3>1, <3>3 DEF Shards
      <3>5. ~MinFreqLost(slices'[s])
        BY <1>2, PurgeFacts
      <3> QED
        BY <3>2, <3>4, <3>5, NoUnits DEF Covered
    <2> QED
      BY <2>1 DEF AllCovered
  <1>3. CASE UNCHANGED lfuVars
    BY <1>3 DEF lfuVars, AllCovered
  <1> QED
    BY <1>1, <1>2, <1>3 DEF LfuNext

(* If ageing lowers frequencies at all, curTotalNum_ never falls below     *)
(* their sum, and no eviction makes it negative, until a dummy takes a     *)
(* cached key.                                                             *)
THEOREM TotalStaysCovering ==
  ASSUME maxAverageNum_ > 1
  PROVE  LfuSpec => [](~orphaned => TotalCoversFreqs)
  <1>1. LfuInit => AllCovered
    <2> SUFFICES ASSUME LfuInit, NEW s \in Slices PROVE Covered(slices[s])
      BY DEF AllCovered
    <2>1. slices[s].freq = NoNodes /\ slices[s].total = 0
      BY DEF LfuInit, NewShard
    <2>2. ~MinFreqLost(slices[s])
      BY <2>1 DEF MinFreqLost, Cached, NoNodes
    <2> QED
      BY <2>1, <2>2, NoUnits DEF Covered
  <1>2. LfuInv /\ (~orphaned => AllCovered) /\ [LfuNext]_lfuVars
          => (~orphaned => AllCovered)'
    BY CoverStep, Mishaps DEF LfuInv
  <1>3. LfuInv /\ (~orphaned => AllCovered) => (~orphaned => TotalCoversFreqs)
    <2> SUFFICES ASSUME InOrder, AllCovered, NEW s \in Slices
                 PROVE  slices[s].total >= Cardinality(Units(slices[s].freq))
      BY DEF TotalCoversFreqs, LfuInv
    <2>1. slices[s].total \in Int
      BY ShardFields DEF InOrder
    <2>2. Covered(slices[s])
      BY DEF AllCovered
    <2> QED
      BY <2>1, <2>2, FS_CardinalityType DEF Covered
  <1> QED
    BY <1>1, <1>2, <1>3, LfuInvariance, PTL DEF LfuSpec
=============================================================================
