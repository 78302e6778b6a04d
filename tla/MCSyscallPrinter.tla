-------------------------- MODULE MCSyscallPrinter --------------------------
(***************************************************************************)
(* A memory that holds strings of every interesting length one after the   *)
(* other, with nothing between them, and the calls that point into it; the *)
(* last bytes of the memory are too few for a word.                        *)
(***************************************************************************)
EXTENDS SyscallPrinter

Base == 100

String(n, letter) == [k \in 1..n |-> letter] \o <<0>>

Lengths == <<0, 1, 2, 3, 4, 36, 37, 38, 39, 40, 45>>
Strings == [k \in DOMAIN Lengths |-> String(Lengths[k], 64 + k)]

\* A buffer in which some words are negative, and a string at the very end.
Binary == [k \in 1..48 |-> IF k = 20 THEN 200 ELSE k]
Bytes0 == FoldLeft(LAMBDA acc, str : acc \o str, <<>>, Strings) \o Binary
              \o String(4, 90)

MCMemory == [a \in Base..(Base + Len(Bytes0) - 1) |-> Bytes0[a - Base + 1]]

Start(k) == Base + FoldLeft(LAMBDA acc, n : acc + n + 1, 0, SubSeq(Lengths, 1, k - 1))
BinaryAt == Start(Len(Lengths) + 1)

C(num, rdi, rsi, rdx, rcx) ==
    [num |-> num, rdi |-> rdi, rsi |-> rsi, rdx |-> rdx, r10 |-> 34, r8 |-> 5,
     r9 |-> 4096, rcx |-> rcx, result |-> 3]

\* The flags of a table, one at a time; O_SYNC has two bits.
Each(table) == {FoldSet(LAMBDA w, sum : w + sum, 0, table[f]) : f \in DOMAIN table}

\* Words that are no ints, among them the -1 of a register, in the places of
\* ints and flags; and the results of calls that fail.
Words == {IntSize, IntSize + 1, IntSize \div 2, IntSize + IntSize \div 2, WordSize - 1}

Wide ==
    {C(20, word, 4096, word, 0) : word \in Words}
    \union {C(10, word, word, word, 0) : word \in Words}
    \union {C(21, 0, word, 0, 0) : word \in Words}
    \union {C(2, 0, word, 0, 0) : word \in Words}
    \union {[C(9, word, word, word, word) EXCEPT !.r8 = word] : word \in Words}
    \union {[C(n, 0, 0, 0, 0) EXCEPT !.result = WordSize - 2] : n \in {0, 2, 4, 9, 10, 21}}

MCCalls ==
    {C(n, Start(k), 2, 1, 0) : n \in {2, 4, 21}, k \in DOMAIN Lengths}
    \union {C(2, 0, 577, 420, 0), C(4, BinaryAt + 48, 1, 1, 0), C(4, 7, 1, 1, 0)}
    \union {C(2, 0, flags, 0, 0) : flags \in Each(OpenFlags)}
    \union {C(0, 3, at, len, 0) : at \in {Start(11), BinaryAt, BinaryAt + 24, 7},
                                  len \in {0, 1, 5, 15, 16, 40}}
    \union {C(10, 4096, 8192, prot, 0) : prot \in 0..7}
    \union {C(21, 0, mode, 0, 0) : mode \in 0..7}
    \union {C(9, 0, 4096, 3, flags) : flags \in {0, 1, 34} \union Each(MapFlags)}
    \union {[C(9, 0, 1, 1, flags) EXCEPT !.r10 = flags] : flags \in Each(MapFlags)}
    \union {C(n, 1, 2, 3, 4) : n \in 1..22 \ {2, 4, 6, 21}}
    \union Wide
=============================================================================
