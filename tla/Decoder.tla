------------------------------ MODULE Decoder -------------------------------
(***************************************************************************)
(* How ftrace recognises an instruction in the eight bytes it reads at rip *)
(* and works out where a call goes: getinstruction (exec.c),               *)
(* type_instruction.c, print_calls.c, resolve_sib.c, getter_sib.c,         *)
(* get_sib.c and utils_sib.c, against the encoding of x86-64.              *)
(*                                                                         *)
(* A word is a sequence of eight bytes, lowest first.  Registers keep no   *)
(* values: an address is a linear form over them, so that two equal forms  *)
(* are equal whatever the registers hold.                                  *)
(***************************************************************************)
EXTENDS Integers, Sequences

CONSTANTS
    Words           \* what PTRACE_PEEKTEXT may read

ASSUME DecoderAssumption == Words \subseteq [1..8 -> 0..255]

Registers == 0..16      \* rax, rcx, rdx, rbx, rsp, rbp, rsi, rdi, r8..r15
rip == 16
NoReg == 17             \* a row of a table with no register

VARIABLES
    word,           \* the word read, <<>> between instructions
    shown,          \* what getinstruction made of it
    g_prefix        \* the global of that name

vars == <<word, shown, g_prefix>>

-----------------------------------------------------------------------------
(* Linear forms, and the conversions of bytes.                             *)

Form == [regs : [Registers -> 0..9], disp : Int]

Times(r, k) == [regs |-> [x \in Registers |-> IF x = r THEN k ELSE 0], disp |-> 0]
Reg(r) == Times(r, 1)
Plus(a, b) == [regs |-> [x \in Registers |-> a.regs[x] + b.regs[x]],
               disp |-> a.disp + b.disp]
Shifted(a, d) == [a EXCEPT !.disp = a.disp + d]

\* Casts to char and to int of the bytes from position i.
Char(w, i) == IF w[i] < 128 THEN w[i] ELSE w[i] - 256
Int32(w, i) ==
    w[i] + 256 * w[i + 1] + 65536 * w[i + 2] + 16777216 * Char(w, i + 3)

\* w >> 8 * n
Shr(w, n) == [i \in 1..8 |-> IF i + n <= 8 THEN w[i + n] ELSE 0]

\* 1 << ss, for the two bits of a scale.
Scale(ss) == CASE ss = 0 -> 1 [] ss = 1 -> 2 [] ss = 2 -> 4 [] ss = 3 -> 8

Pending == [kind |-> "pending"]
Nothing == [kind |-> "nothing"]
Syscall == [kind |-> "syscall"]
Return  == [kind |-> "return"]

\* A call to the address `at`, or to the address stored there; `name` is the
\* operand as the line spells it.
CallTo(deref, at, name) ==
    [kind |-> "call", deref |-> deref, at |-> at, name |-> name]

-----------------------------------------------------------------------------
(* type_instruction.c                                                      *)

instruction_is_syscall(w) == w[1] = 15 /\ w[2] = 5

instruction_is_ret(w) ==
    \/ w[1] \in {194, 195, 202, 203, 207}
    \/ w[1] = 243 /\ w[2] = 195

\* Mutant: the 41 prefix is forgotten.
instruction_is_callNoRex(w) == w[1] \in {154, 232, 255}

instruction_is_call(w) == w[1] \in {65, 154, 232, 255}

-----------------------------------------------------------------------------
(* The tables of print_calls.c and resolve_sib.c.                          *)

\* is_a_call: 10..17, 50..57, 90..97 and D0..D7 are calls, other values of
\* the ModRM byte are not.
\* Mutant: any ModRM byte is taken for a call's.
is_a_callAlways(rm) == rm \in 0..255

is_a_call(rm) == rm \div 8 \in {2, 10, 18, 26}

\* The register a row's text spells, and the one its function reads.
regs_call_name(rex, rm) ==
    CASE rm = 21                      -> rip
      [] rm % 8 = 4 /\ rm \div 8 # 26 -> NoReg
      [] OTHER                        -> (8 * rex) + (rm % 8)

regs_call_reg(rex, rm) ==
    IF rex = 1 /\ rm = 23 THEN 14 ELSE regs_call_name(rex, rm)

\* The rows of g_sib_base, by the low bits of the SIB byte.
sib_base_name(rex, base) == IF base = 5 THEN NoReg ELSE 8 * rex + base

sib_base_reg(rex, base) ==
    IF rex = 0 /\ base = 3 THEN 1 ELSE sib_base_name(rex, base)

\* The rows of g_sib: r12, the extended index of row 4, is never used.
\* Mutant: the index is not cut off the scale.
sib_indexScaled(sib) ==
    LET n == (sib \div 8) % 8
    IN Times(IF n = 4 THEN NoReg ELSE n, sib \div 8)

sib_index(sib) ==
    LET n == (sib \div 8) % 8
    IN Times(IF n = 4 THEN NoReg ELSE n, Scale(sib \div 64))

-----------------------------------------------------------------------------
(* get_sib.c and the displacement of get_addr_func.                        *)

get_size_sib(rm) ==
    IF rm \div 8 = 10 THEN 1 ELSE IF rm \div 8 = 18 \/ rm = 21 THEN 4 ELSE 0

\* Mutant: the byte is not sign-extended.
DisplacementUnsigned(w, size, i) ==
    IF size = 1 THEN w[i] ELSE IF size = 4 THEN Int32(w, i) ELSE 0

Displacement(w, size, i) ==
    IF size = 1 THEN Char(w, i) ELSE IF size = 4 THEN Int32(w, i) ELSE 0

\* resolve_sib, with manage_byte and manage_dword: the word begins with the
\* ModRM byte, the SIB byte is next.
resolve_sib(w, rex) ==
    LET sib  == w[2]
        disp == CASE w[1] = 84  -> Displacement(w, 1, 3)
                  [] w[1] = 148 -> Displacement(w, 4, 3)
                  [] OTHER      -> 0
        Operand(base) == Shifted(Plus(sib_index(sib), Reg(base)), disp)
    IN CallTo(TRUE, Operand(sib_base_reg(rex, sib % 8)),
                    Operand(sib_base_name(rex, sib % 8)))

\* print_rm_byte_call and get_addr_func.
print_rm_byte_call(w, rex) ==
    LET rm  == w[1]
        end == IF rm = 21 THEN 6 + rex ELSE 0
        Operand(r) ==
            Shifted(Reg(r), Displacement(w, get_size_sib(rm), 2) + end)
    IN IF regs_call_reg(rex, rm) = NoReg THEN resolve_sib(w, rex)
       ELSE CallTo(rm \div 8 # 26, Operand(regs_call_reg(rex, rm)),
                                   Operand(regs_call_name(rex, rm)))

print_call(w) ==
    LET rex == IF w[1] = 65 THEN 1 ELSE 0
        rest == Shr(w, 1 + rex)
        relative == Shifted(Reg(rip), 5 + Int32(w, 2))
    IN IF w[1] = 232 THEN CallTo(FALSE, relative, relative)
       ELSE IF (w[1] = 255 \/ (w[1] = 65 /\ w[2] = 255)) /\ is_a_call(rest[1])
       THEN print_rm_byte_call(rest, rex)
       ELSE Nothing

getinstruction(w) ==
    IF instruction_is_syscall(w) THEN Syscall
    ELSE IF instruction_is_ret(w) THEN Return
    ELSE IF instruction_is_call(w) THEN print_call(w)
    ELSE Nothing

-----------------------------------------------------------------------------
Init ==
    /\ word = <<>>
    /\ shown = Pending
    /\ g_prefix = 0

Read(w) ==
    /\ word = <<>>
    /\ word' = w
    /\ UNCHANGED <<shown, g_prefix>>

\* print_call keeps the prefix of an indirect call in the global.
Decode ==
    /\ word # <<>> /\ shown = Pending
    /\ shown' = getinstruction(word)
    /\ g_prefix' = IF ~instruction_is_call(word) THEN g_prefix
                   ELSE IF word[1] = 65 /\ word[2] = 255 THEN 65 ELSE 0
    /\ UNCHANGED word

Flush ==
    /\ word # <<>> /\ shown # Pending
    /\ word' = <<>>
    /\ shown' = Pending
    /\ UNCHANGED g_prefix

Next == (\E w \in Words : Read(w)) \/ Decode \/ Flush

Spec == Init /\ [][Next]_vars

-----------------------------------------------------------------------------
(* The encoding of x86-64, from the manuals: an optional bnd or notrack    *)
(* prefix, an optional REX prefix, then E8 with a displacement, or FF with *)
(* a ModRM byte whose middle field is 2.                                   *)

Legacy(w) == w[1] \in {62, 242}
Rex(w) == w[1] \in 64..79
AfterPrefixes(w) ==
    LET v == IF Legacy(w) THEN Shr(w, 1) ELSE w
    IN IF Rex(v) THEN Shr(v, 1) ELSE v

IsNearCall(w) ==
    LET v == AfterPrefixes(w)
    IN v[1] = 232 \/ (v[1] = 255 /\ (v[2] \div 8) % 8 = 2)

\* The operand of FF /2, for b = REX.B: v begins with the ModRM byte, and the
\* instruction has `before` bytes before it.
Operand64(v, b, before) ==
    LET mod == v[1] \div 64
        rm  == v[1] % 8
        sib == v[2]
        at  == IF rm = 4 THEN 3 ELSE 2
        disp == IF mod = 1 THEN Char(v, at) ELSE Int32(v, at)
        index == Times(IF (sib \div 8) % 8 = 4 THEN NoReg ELSE (sib \div 8) % 8,
                       Scale(sib \div 64))
        baseless == mod = 0 /\ sib % 8 = 5
    IN CASE mod = 3            -> Reg((8 * b) + rm)
         [] mod = 0 /\ rm = 5  -> Shifted(Reg(rip), disp + before + 5)
         [] mod < 3 /\ rm = 4  ->
              Shifted(Plus(index,
                           Reg(IF baseless THEN NoReg ELSE (8 * b) + (sib % 8))),
                      IF mod = 0 /\ ~baseless THEN 0 ELSE disp)
         [] OTHER -> Shifted(Reg((8 * b) + rm), IF mod = 0 THEN 0 ELSE disp)

\* Where a call goes that has no prefix but 41.
Target64(w) ==
    LET b == IF w[1] = 65 THEN 1 ELSE 0
        v == Shr(w, 1 + b)
    IN IF w[1] = 232
       THEN [deref |-> FALSE, at |-> Shifted(Reg(rip), Int32(w, 2) + 5)]
       ELSE [deref |-> v[1] \div 64 # 3, at |-> Operand64(v, b, 1 + b)]

\* The operands print_call gets wrong: call [r15], which reads r14, and the
\* SIB bases rbx (which reads rcx), rbp and r13 (which read nothing).
Misread(w) ==
    LET rex == IF w[1] = 65 THEN 1 ELSE 0
        rm  == w[2 + rex]
        base == w[3 + rex] % 8
    IN /\ w[1] # 232
       /\ \/ rex = 1 /\ rm = 23
          \/ rm % 8 = 4 /\ rm \div 64 < 3 /\ (base = 5 \/ (base = 3 /\ rex = 0))

-----------------------------------------------------------------------------
(* Properties.                                                             *)

Decoded == word # <<>> /\ shown # Pending

TypeOK ==
    /\ word = <<>> \/ word \in [1..8 -> 0..255]
    /\ shown \in {Pending, Nothing, Syscall, Return}
                   \union [kind : {"call"}, deref : BOOLEAN, at : Form, name : Form]
    /\ g_prefix \in {0, 65}

\* What is displayed as a call is a near call of x86-64: a push, a jump or an
\* increment that shares its first byte with a call never is, and no prefix
\* leads the decoder astray.
CallsAreCalls == Decoded /\ shown.kind = "call" => IsNearCall(word)

\* Every near call without a prefix, and every indirect one after 41, is
\* displayed.  The forms with bnd, notrack or another REX prefix are the ones
\* CallGraph calls unseen.
PlainCallsAreSeen ==
    [][Decode /\ IsNearCall(word) /\ ~Legacy(word)
         /\ (Rex(word) => word[1] = 65 /\ word[2] = 255)
       => shown'.kind = "call"]_vars

\* The address displayed is the one the processor calls, but for the operands
\* of Misread: sign extension, the length rip is relative to, the absent index
\* and the absent displacement included.
TargetIsRight ==
    Decoded /\ shown.kind = "call" /\ ~Misread(word) =>
        [deref |-> shown.deref, at |-> shown.at] = Target64(word)

\* The operand a line spells is the one its address was computed from.
NamesWhatItReads ==
    Decoded /\ shown.kind = "call" => shown.name = shown.at
=============================================================================
