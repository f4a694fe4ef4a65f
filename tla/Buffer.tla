------------------------------- MODULE Buffer -------------------------------
(***************************************************************************)
(* The Buffer of a connection (include/Buffer.h, src/Buffer.cc): append(), *)
(* retrieve(), readFd() and what makes room for them.                      *)
(*                                                                         *)
(* The n-th byte ever put into the buffer is the number n; a cell that was *)
(* never written holds 0.  Indices are those of the code, so the byte at   *)
(* index i is cells[i + 1].                                                *)
(***************************************************************************)
EXTENDS Naturals, Sequences

CONSTANTS
    kCheapPrepend,
    kInitialSize,
    ExtraSize,      \* sizeof extrabuf in readFd
    MaxBytes        \* bound: how many bytes are put in altogether

ASSUME SizeAssumption ==
    {kCheapPrepend, kInitialSize, ExtraSize, MaxBytes} \subseteq Nat

VARIABLES
    buffer_,        \* the cells of the vector
    readerIndex_,
    writerIndex_,
    put,            \* history: how many bytes were put in
    taken           \* history: how many were retrieved

vars == <<buffer_, readerIndex_, writerIndex_, put, taken>>

Zeros(n) == [i \in 1..n |-> 0]

Init ==
    /\ buffer_ = Zeros(kCheapPrepend + kInitialSize)
    /\ readerIndex_ = kCheapPrepend
    /\ writerIndex_ = kCheapPrepend
    /\ put = 0
    /\ taken = 0

(* A buffer as a value, for the operations that call one another. *)
This == [cells |-> buffer_, reader |-> readerIndex_, writer |-> writerIndex_]

Becomes(b) ==
    /\ buffer_' = b.cells
    /\ readerIndex_' = b.reader
    /\ writerIndex_' = b.writer

readableBytes(b) == b.writer - b.reader
writableBytes(b) == Len(b.cells) - b.writer
prependableBytes(b) == b.reader

-----------------------------------------------------------------------------
(* std::copy of len bytes; cells outside the vector are nobody's. *)
Copy(cells, to, len, byte(_)) ==
    [i \in DOMAIN cells |-> IF i > to /\ i <= to + len THEN byte(i - to)
                                                       ELSE cells[i]]

MutTooTight(b, len) == writableBytes(b) + prependableBytes(b) < len

(* Even with the read part reclaimed there is no room for len bytes. *)
TooTight(b, len) ==
    writableBytes(b) + prependableBytes(b) < len + kCheapPrepend

MutMoved(b) ==
    LET readable == readableBytes(b)
    IN  [b EXCEPT !.reader = kCheapPrepend, !.writer = kCheapPrepend + readable]

(* The readable bytes moved to the front. *)
Moved(b) ==
    LET readable == readableBytes(b)
    IN  [cells |-> Copy(b.cells, kCheapPrepend, readable,
                        LAMBDA i : b.cells[b.reader + i]),
         reader |-> kCheapPrepend,
         writer |-> kCheapPrepend + readable]

makeSpace(b, len) ==
    IF TooTight(b, len)
    THEN [b EXCEPT !.cells = [i \in 1..(b.writer + len) |->
                                IF i <= Len(b.cells) THEN b.cells[i] ELSE 0]]
    ELSE Moved(b)

ensureWritableBytes(b, len) ==
    IF writableBytes(b) < len THEN makeSpace(b, len) ELSE b

(* The bytes first + 1 .. first + len, written at writerIndex_. *)
Written(b, first, len) ==
    [b EXCEPT !.cells = Copy(b.cells, b.writer, len, LAMBDA i : first + i),
              !.writer = b.writer + len]

append(b, first, len) == Written(ensureWritableBytes(b, len), first, len)

-----------------------------------------------------------------------------
AppendBytes(len) ==
    /\ put + len <= MaxBytes
    /\ Becomes(append(This, put, len))
    /\ put' = put + len
    /\ UNCHANGED taken

Retrieved(b, len) ==
    IF len < readableBytes(b) THEN [b EXCEPT !.reader = @ + len]
    ELSE [b EXCEPT !.reader = kCheapPrepend, !.writer = kCheapPrepend]

(* retrieve() and retrieveAsString() of at most what is readable. *)
Retrieve(len) ==
    /\ len <= readableBytes(This)
    /\ Becomes(Retrieved(This, len))
    /\ taken' = taken + len
    /\ UNCHANGED put

(* What did not fit into the writable part is appended from extrabuf. *)
Spilled(b, first, len) ==
    LET writable == writableBytes(b)
    IN  append(Written(b, first, writable), first + writable, len - writable)

(* readFd(): readv gets len bytes, into the writable part first; extrabuf  *)
(* is there only if it is the larger one.                                  *)
ReadFd(len) ==
    LET writable == writableBytes(This)
        room == IF writable < ExtraSize THEN writable + ExtraSize ELSE writable
    IN  /\ put + len <= MaxBytes
        /\ len <= room
        /\ Becomes(IF len <= writable THEN Written(This, put, len)
                                      ELSE Spilled(This, put, len))
        /\ put' = put + len
        /\ UNCHANGED taken

Next ==
    \/ \E len \in 1..MaxBytes : AppendBytes(len)
    \/ \E len \in 0..MaxBytes : Retrieve(len)
    \/ \E len \in 1..MaxBytes : ReadFd(len)

Spec == Init /\ [][Next]_vars

-----------------------------------------------------------------------------
(* The indices stay in order and inside the vector, behind the reserved    *)
(* prefix: no operation writes past the end of buffer_.                    *)
IndicesOK ==
    /\ kCheapPrepend <= readerIndex_
    /\ readerIndex_ <= writerIndex_
    /\ writerIndex_ <= Len(buffer_)

(* What is readable is what was put in and not yet retrieved, in order,    *)
(* through every growth, move and spill ("auto-expanding buffer to ensure  *)
(* ordered data arrival", README.md:158).                                  *)
ReadableIsFifo ==
    SubSeq(buffer_, readerIndex_ + 1, writerIndex_)
        = [i \in 1..(put - taken) |-> taken + i]
=============================================================================
