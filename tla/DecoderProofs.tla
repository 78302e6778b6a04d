--------------------------- MODULE DecoderProofs ----------------------------
(***************************************************************************)
(* What Decoder promises, for every word of eight bytes: its displayed     *)
(* calls are the near calls of x86-64, and go where the processor goes.    *)
(***************************************************************************)
EXTENDS Decoder, TLAPS

Word == [1..8 -> 0..255]

\* What is displayed is always what getinstruction makes of the word read.
DecodedInv ==
    /\ word = <<>> \/ word \in Word
    /\ word = <<>> => shown = Pending
    /\ shown # Pending => shown = getinstruction(word)
    /\ g_prefix \in {0, 65}

-----------------------------------------------------------------------------
(* Bytes and forms.                                                        *)

\* A word has eight bytes, so it is not the absence of one.
LEMMA WordIsRead == ASSUME NEW w \in Word PROVE w # <<>>
BY DEF Word

\* A shifted word is one.
LEMMA ShrIsWord ==
    ASSUME NEW w \in Word, NEW n \in {0, 1, 2}
    PROVE  /\ Shr(w, n) \in Word
           /\ \A i \in 1..6 : Shr(w, n)[i] = w[i + n]
<1>1. \A i \in 1..8 : i + n <= 8 => w[i + n] \in 0..255
  BY DEF Word
<1>2. Shr(w, n) \in Word
  BY <1>1 DEF Shr, Word
<1>3. \A i \in 1..6 : Shr(w, n)[i] = w[i + n]
  BY DEF Shr
<1>. QED BY <1>2, <1>3

\* What the casts of a word's bytes return.
LEMMA CastsAreIntegers ==
    ASSUME NEW w \in Word
    PROVE  /\ \A i \in 1..8 : Char(w, i) \in Int
           /\ \A i \in 1..5 : Int32(w, i) \in Int
<1>1. \A i \in 1..8 : w[i] \in 0..255
  BY DEF Word
<1>2. ASSUME NEW i \in 1..8 PROVE Char(w, i) \in Int
  <2>1. w[i] \in 0..255
    BY <1>1
  <2>2. w[i] - 256 \in Int
    BY <2>1
  <2>. QED BY <2>1, <2>2 DEF Char
<1>3. ASSUME NEW i \in 1..5 PROVE Int32(w, i) \in Int
  <2>1. /\ w[i] \in Int /\ w[i + 1] \in Int /\ w[i + 2] \in Int
        /\ Char(w, i + 3) \in Int
    BY <1>1, <1>2
  <2>. QED BY <2>1 DEF Int32
<1>. QED BY <1>2, <1>3

\* A displacement is an integer, wherever it is read.
LEMMA DisplacementIsInteger ==
    ASSUME NEW w \in Word, NEW size, NEW i \in 1..5
    PROVE  Displacement(w, size, i) \in Int
BY CastsAreIntegers DEF Displacement

\* The forms operands are made of, and how large their factors are.
LEMMA TimesIsForm ==
    ASSUME NEW r, NEW k \in 0..8
    PROVE  /\ Times(r, k) \in Form
           /\ \A x \in Registers : Times(r, k).regs[x] \in 0..8
BY DEF Times, Form, Registers

LEMMA RegIsForm ==
    ASSUME NEW r
    PROVE  /\ Reg(r) \in Form
           /\ \A x \in Registers : Reg(r).regs[x] \in 0..1
BY DEF Reg, Times, Form, Registers

\* Adding a displacement to a form makes one.
LEMMA ShiftedIsForm ==
    ASSUME NEW a \in Form, NEW d \in Int
    PROVE  Shifted(a, d) \in Form
BY DEF Shifted, Form

\* An index and a base make a form.
LEMMA IndexedIsForm ==
    ASSUME NEW sib \in 0..255, NEW base
    PROVE  Plus(sib_index(sib), Reg(base)) \in Form
<1>. DEFINE n == (sib \div 8) % 8
            r == IF n = 4 THEN NoReg ELSE n
<1>1. sib \div 64 \in {0, 1, 2, 3}
  OBVIOUS
<1>2. Scale(sib \div 64) \in 0..8
  BY <1>1 DEF Scale
<1>3. sib_index(sib) = Times(r, Scale(sib \div 64))
  BY DEF sib_index
<1>4. /\ sib_index(sib) \in Form
      /\ \A x \in Registers : sib_index(sib).regs[x] \in 0..8
  BY <1>2, <1>3, TimesIsForm
<1>5. /\ Reg(base) \in Form
      /\ \A x \in Registers : Reg(base).regs[x] \in 0..1
  BY RegIsForm
<1>6. \A x \in Registers : sib_index(sib).regs[x] + Reg(base).regs[x] \in 0..9
  BY <1>4, <1>5
<1>7. sib_index(sib).disp + Reg(base).disp \in Int
  BY <1>4, <1>5 DEF Form
<1>. QED BY <1>6, <1>7 DEF Plus, Form

-----------------------------------------------------------------------------
(* What getinstruction returns.                                            *)

Calls == [kind : {"call"}, deref : BOOLEAN, at : Form, name : Form]

\* An operand with a SIB byte is a call's.
LEMMA SibIsCall ==
    ASSUME NEW w \in Word, NEW rex
    PROVE  resolve_sib(w, rex) \in Calls
<1>. DEFINE disp == CASE w[1] = 84  -> Displacement(w, 1, 3)
                      [] w[1] = 148 -> Displacement(w, 4, 3)
                      [] OTHER      -> 0
            Operand(base) == Shifted(Plus(sib_index(w[2]), Reg(base)), disp)
<1>1. disp \in Int
  BY DisplacementIsInteger
<1>2. w[2] \in 0..255
  BY DEF Word
<1>3. ASSUME NEW base PROVE Operand(base) \in Form
  BY <1>1, <1>2, IndexedIsForm, ShiftedIsForm
<1>4. resolve_sib(w, rex) = CallTo(TRUE, Operand(sib_base_reg(rex, w[2] % 8)),
                                         Operand(sib_base_name(rex, w[2] % 8)))
  BY DEF resolve_sib
<1>. HIDE DEF Operand
<1>. QED BY <1>3, <1>4 DEF CallTo, Calls

\* So is any operand of FF.
LEMMA OperandIsCall ==
    ASSUME NEW w \in Word, NEW rex \in {0, 1}
    PROVE  print_rm_byte_call(w, rex) \in Calls
<1>. DEFINE rm == w[1]
            end == IF rm = 21 THEN 6 + rex ELSE 0
            disp == Displacement(w, get_size_sib(rm), 2)
            Operand(r) == Shifted(Reg(r), disp + end)
<1>1. disp + end \in Int
  BY DisplacementIsInteger
<1>2. ASSUME NEW r PROVE Operand(r) \in Form
  BY <1>1, RegIsForm, ShiftedIsForm
<1>3. print_rm_byte_call(w, rex) =
        IF regs_call_reg(rex, rm) = NoReg THEN resolve_sib(w, rex)
        ELSE CallTo(rm \div 8 # 26, Operand(regs_call_reg(rex, rm)),
                                    Operand(regs_call_name(rex, rm)))
  BY DEF print_rm_byte_call
<1>. HIDE DEF Operand
<1>. QED BY <1>2, <1>3, SibIsCall DEF CallTo, Calls

\* What is displayed for a word is one of the kinds, and the calls are forms.
LEMMA InstructionIsTyped ==
    ASSUME NEW w \in Word
    PROVE  getinstruction(w) \in {Nothing, Syscall, Return} \union Calls
<1>. DEFINE rex == IF w[1] = 65 THEN 1 ELSE 0
            relative == Shifted(Reg(rip), 5 + Int32(w, 2))
<1>1. Shr(w, 1 + rex) \in Word
  <2>1. 1 + rex \in {0, 1, 2}
    OBVIOUS
  <2>. QED BY ONLY <2>1, w \in Word, ShrIsWord
<1>2. relative \in Form
  <2>1. 5 + Int32(w, 2) \in Int
    BY CastsAreIntegers
  <2>. QED BY <2>1, RegIsForm, ShiftedIsForm
<1>3. CallTo(FALSE, relative, relative) \in Calls
  BY <1>2 DEF CallTo, Calls
<1>4. print_rm_byte_call(Shr(w, 1 + rex), rex) \in Calls
  BY <1>1, OperandIsCall
<1>5. print_call(w) \in {Nothing} \union Calls
  BY <1>3, <1>4 DEF print_call
<1>. QED BY <1>5 DEF getinstruction

-----------------------------------------------------------------------------
(* The invariant.                                                          *)

LEMMA DecodedInit == Init => DecodedInv
BY DEF Init, DecodedInv

LEMMA DecodedNext == DecodedInv /\ [Next]_vars => DecodedInv'
<1>. SUFFICES ASSUME DecodedInv, [Next]_vars PROVE DecodedInv'
  OBVIOUS
<1>. USE DEF DecodedInv
<1>1. CASE \E w \in Words : Read(w)
  BY <1>1, DecoderAssumption, WordIsRead DEF Read, Word
<1>2. CASE Decode
  BY <1>2 DEF Decode
<1>3. CASE Flush
  BY <1>3 DEF Flush
<1>4. CASE UNCHANGED vars
  BY <1>4 DEF vars
<1>. QED BY <1>1, <1>2, <1>3, <1>4 DEF Next

\* Every register is added at most eight times as an index and once as a base,
\* whatever the bytes are.
THEOREM TypeCorrect == Spec => []TypeOK
<1>1. DecodedInv => TypeOK
  BY InstructionIsTyped DEF DecodedInv, TypeOK, Calls, Word
<1>. QED BY <1>1, DecodedInit, DecodedNext, PTL DEF Spec

-----------------------------------------------------------------------------
(* Which words are calls.                                                  *)

\* The ModRM bytes is_a_call takes are those whose middle field is 2.
LEMMA MiddleFieldIsTwo ==
    ASSUME NEW rm \in 0..255
    PROVE  is_a_call(rm) <=> (rm \div 8) % 8 = 2
BY DEF is_a_call

\* What print_call takes for a call.
LEMMA CallIsSeen ==
    ASSUME NEW w \in Word, instruction_is_call(w)
    PROVE  print_call(w).kind = "call" <=>
             \/ w[1] = 232
             \/ w[1] = 255 /\ is_a_call(w[2])
             \/ w[1] = 65 /\ w[2] = 255 /\ is_a_call(w[3])
<1>. DEFINE rex == IF w[1] = 65 THEN 1 ELSE 0
<1>1. Shr(w, 1 + rex) \in Word /\ Shr(w, 1 + rex)[1] = w[2 + rex]
  <2>1. 1 + rex \in {0, 1, 2} /\ 1 + (1 + rex) = 2 + rex
    OBVIOUS
  <2>2. /\ Shr(w, 1 + rex) \in Word
        /\ \A i \in 1..6 : Shr(w, 1 + rex)[i] = w[i + (1 + rex)]
    BY ONLY <2>1, w \in Word, ShrIsWord
  <2>. QED BY <2>1, <2>2
<1>2. print_rm_byte_call(Shr(w, 1 + rex), rex).kind = "call"
  BY <1>1, OperandIsCall DEF Calls
<1>. QED BY <1>1, <1>2 DEF print_call, CallTo, Nothing

\* A call that is displayed is a near call of x86-64, for every word.
THEOREM CallsCorrect == Spec => []CallsAreCalls
<1>1. ASSUME NEW w \in Word, getinstruction(w).kind = "call"
      PROVE  IsNearCall(w)
  <2>1. \A i \in 1..8 : w[i] \in 0..255
    BY DEF Word
  <2>2. instruction_is_call(w) /\ print_call(w).kind = "call"
    BY <1>1 DEF getinstruction, Syscall, Return, Nothing
  <2>3. CASE w[1] = 232
    BY <2>3 DEF IsNearCall, AfterPrefixes, Legacy, Rex
  <2>4. CASE w[1] = 255 /\ is_a_call(w[2])
    BY <2>1, <2>4, MiddleFieldIsTwo DEF IsNearCall, AfterPrefixes, Legacy, Rex
  <2>5. CASE w[1] = 65 /\ w[2] = 255 /\ is_a_call(w[3])
    <3>1. AfterPrefixes(w) = Shr(w, 1)
      BY <2>5 DEF AfterPrefixes, Legacy, Rex
    <3>2. Shr(w, 1)[1] = w[2] /\ Shr(w, 1)[2] = w[3]
      BY ShrIsWord
    <3>3. Shr(w, 1)[1] = 255 /\ (Shr(w, 1)[2] \div 8) % 8 = 2
      BY <2>1, <2>5, <3>2, MiddleFieldIsTwo
    <3>. QED BY <3>1, <3>3 DEF IsNearCall
  <2>. QED BY <2>2, <2>3, <2>4, <2>5, CallIsSeen
<1>2. DecodedInv => CallsAreCalls
  BY <1>1 DEF DecodedInv, CallsAreCalls, Decoded
<1>. QED BY <1>2, DecodedInit, DecodedNext, PTL DEF Spec

\* A near call without a prefix, and an indirect one after 41, is displayed,
\* for every word.
THEOREM SeenCorrect == Spec => PlainCallsAreSeen
<1>1. ASSUME NEW w \in Word, IsNearCall(w), ~Legacy(w),
             Rex(w) => w[1] = 65 /\ w[2] = 255
      PROVE  getinstruction(w).kind = "call"
  <2>1. \A i \in 1..8 : w[i] \in 0..255
    BY DEF Word
  <2>2. \/ w[1] = 232
        \/ w[1] = 255 /\ is_a_call(w[2])
        \/ w[1] = 65 /\ w[2] = 255 /\ is_a_call(w[3])
    <3>1. CASE ~Rex(w)
      <4>1. AfterPrefixes(w) = w
        BY <1>1, <3>1 DEF AfterPrefixes
      <4>. QED BY <1>1, <2>1, <4>1, MiddleFieldIsTwo DEF IsNearCall
    <3>2. CASE Rex(w)
      <4>1. AfterPrefixes(w) = Shr(w, 1)
        BY <1>1, <3>2 DEF AfterPrefixes
      <4>2. Shr(w, 1)[1] = w[2] /\ Shr(w, 1)[2] = w[3]
        BY ShrIsWord
      <4>. QED BY <1>1, <2>1, <3>2, <4>1, <4>2, MiddleFieldIsTwo DEF IsNearCall
    <3>. QED BY <3>1, <3>2
  <2>3. /\ instruction_is_call(w)
        /\ ~instruction_is_ret(w) /\ ~instruction_is_syscall(w)
    BY <2>2 DEF instruction_is_call, instruction_is_ret, instruction_is_syscall
  <2>4. print_call(w).kind = "call"
    BY <2>2, <2>3, CallIsSeen
  <2>. QED BY <2>3, <2>4 DEF getinstruction
<1>2. DecodedInv /\ [Next]_vars =>
        [Decode /\ IsNearCall(word) /\ ~Legacy(word)
           /\ (Rex(word) => word[1] = 65 /\ word[2] = 255)
         => shown'.kind = "call"]_vars
  BY <1>1 DEF DecodedInv, Decode
<1>. QED BY <1>2, DecodedInit, DecodedNext, PTL DEF Spec, PlainCallsAreSeen

-----------------------------------------------------------------------------
(* Where calls go.                                                         *)

\* The ModRM bytes of FF /2, by mod and rm.
LEMMA CallModRM ==
    ASSUME NEW rm \in 0..255, is_a_call(rm)
    PROVE  /\ rm \div 64 \in 0..3 /\ rm % 8 \in 0..7
           /\ rm \div 8 = 2 + 8 * (rm \div 64)
           /\ rm = 16 + 64 * (rm \div 64) + (rm % 8)
BY DEF is_a_call

\* Form of an operand with a SIB byte, for the bases resolve_sib gets right.
LEMMA SibTarget ==
    ASSUME NEW v \in Word, NEW b \in {0, 1}, is_a_call(v[1]),
           v[1] % 8 = 4, v[1] \div 64 < 3,
           v[2] % 8 # 5, ~(v[2] % 8 = 3 /\ b = 0)
    PROVE  /\ resolve_sib(v, b).deref = TRUE
           /\ resolve_sib(v, b).at = Operand64(v, b, 1 + b)
<1>. DEFINE sib == v[2]
            disp == CASE v[1] = 84  -> Displacement(v, 1, 3)
                      [] v[1] = 148 -> Displacement(v, 4, 3)
                      [] OTHER      -> 0
            index == Times(IF (sib \div 8) % 8 = 4 THEN NoReg ELSE (sib \div 8) % 8,
                           Scale(sib \div 64))
            mod == v[1] \div 64
            disp64 == IF mod = 0 THEN 0 ELSE IF mod = 1 THEN Char(v, 3) ELSE Int32(v, 3)
<1>1. v[1] \in 0..255 /\ v[2] \in 0..255
  BY DEF Word
<1>2. mod \in {0, 1, 2} /\ v[1] = 20 + 64 * mod
  BY <1>1, CallModRM
<1>3. disp = disp64
  BY <1>2 DEF Displacement
<1>4. sib_base_reg(b, sib % 8) = (8 * b) + (sib % 8)
  BY DEF sib_base_reg, sib_base_name
<1>5. resolve_sib(v, b) =
        CallTo(TRUE, Shifted(Plus(sib_index(sib), Reg(sib_base_reg(b, sib % 8))), disp),
               Shifted(Plus(sib_index(sib), Reg(sib_base_name(b, sib % 8))), disp))
  BY DEF resolve_sib
<1>6. sib_index(sib) = index
  BY DEF sib_index
<1>7. Operand64(v, b, 1 + b) = Shifted(Plus(index, Reg((8 * b) + (sib % 8))), disp64)
  BY <1>2 DEF Operand64
<1>. HIDE DEF disp, disp64, index, sib
<1>. QED BY <1>3, <1>4, <1>5, <1>6, <1>7 DEF CallTo

\* A form is not changed by no displacement.
LEMMA ShiftedByNothing ==
    ASSUME NEW a \in Form
    PROVE  Shifted(a, 0) = a
BY DEF Shifted, Form

\* Form of any other operand, but that of call [r15].
LEMMA RegisterTarget ==
    ASSUME NEW v \in Word, NEW b \in {0, 1}, is_a_call(v[1]),
           v[1] % 8 # 4 \/ v[1] \div 64 = 3,
           ~(b = 1 /\ v[1] = 23)
    PROVE  /\ print_rm_byte_call(v, b).deref = (v[1] \div 64 # 3)
           /\ print_rm_byte_call(v, b).at = Operand64(v, b, 1 + b)
<1>. DEFINE rm == v[1]
            mod == rm \div 64
            r == IF rm = 21 THEN rip ELSE (8 * b) + (rm % 8)
            d == Displacement(v, get_size_sib(rm), 2)
                 + (IF rm = 21 THEN 6 + b ELSE 0)
            at == Shifted(Reg(r), d)
<1>1. rm \in 0..255
  BY DEF Word
<1>2. /\ mod \in 0..3 /\ rm % 8 \in 0..7
      /\ rm \div 8 = 2 + 8 * mod
      /\ rm = 16 + 64 * mod + (rm % 8)
  BY <1>1, CallModRM
<1>3. regs_call_reg(b, rm) = r /\ r # NoReg
  BY <1>2 DEF regs_call_reg, regs_call_name, NoReg, rip
<1>4. /\ print_rm_byte_call(v, b).deref = (rm \div 8 # 26)
      /\ print_rm_byte_call(v, b).at = at
  BY <1>3 DEF print_rm_byte_call, CallTo
<1>5. (rm \div 8 # 26) = (mod # 3)
  BY <1>2
<1>6. Char(v, 2) \in Int /\ Int32(v, 2) \in Int
  BY CastsAreIntegers
<1>7. CASE mod = 3
  <2>1. d = 0 /\ r = (8 * b) + (rm % 8)
    BY <1>2, <1>7 DEF Displacement, get_size_sib
  <2>2. at = Reg(r)
    BY <2>1, RegIsForm, ShiftedByNothing
  <2>3. Operand64(v, b, 1 + b) = Reg((8 * b) + (rm % 8))
    BY <1>7 DEF Operand64
  <2>. QED BY <1>4, <1>5, <2>1, <2>2, <2>3
<1>8. CASE mod = 0 /\ rm % 8 = 5
  <2>1. rm = 21
    BY <1>2, <1>8
  <2>2. d = Int32(v, 2) + (1 + b) + 5
    BY <1>6, <2>1 DEF Displacement, get_size_sib
  <2>3. Operand64(v, b, 1 + b) = Shifted(Reg(rip), Int32(v, 2) + (1 + b) + 5)
    BY <1>8 DEF Operand64
  <2>4. r = rip
    BY <2>1
  <2>. HIDE DEF d, r
  <2>. QED BY <1>4, <1>5, <2>2, <2>3, <2>4
<1>9. CASE mod \in 0..2 /\ ~(mod = 0 /\ rm % 8 = 5)
  <2>1. rm # 21 /\ rm % 8 # 4
    BY <1>2, <1>9
  <2>2. d = IF mod = 0 THEN 0 ELSE IF mod = 1 THEN Char(v, 2) ELSE Int32(v, 2)
    BY <1>2, <1>6, <1>9, <2>1 DEF Displacement, get_size_sib
  <2>3. Operand64(v, b, 1 + b) =
          Shifted(Reg((8 * b) + (rm % 8)),
                  IF mod = 0 THEN 0 ELSE IF mod = 1 THEN Char(v, 2) ELSE Int32(v, 2))
    BY <1>9, <2>1 DEF Operand64
  <2>4. r = (8 * b) + (rm % 8)
    BY <2>1
  <2>. HIDE DEF d, r
  <2>. QED BY <1>4, <1>5, <2>2, <2>3, <2>4
<1>. QED BY <1>2, <1>7, <1>8, <1>9

\* The address displayed is the one the processor calls, for every word but
\* those of Misread.
THEOREM TargetCorrect == Spec => []TargetIsRight
<1>1. ASSUME NEW w \in Word, getinstruction(w).kind = "call", ~Misread(w)
      PROVE  LET c == getinstruction(w)
             IN [deref |-> c.deref, at |-> c.at] = Target64(w)
  <2>. DEFINE c == getinstruction(w)
              b == IF w[1] = 65 THEN 1 ELSE 0
              v == Shr(w, 1 + b)
  <2>1. instruction_is_call(w) /\ c = print_call(w)
    BY <1>1 DEF getinstruction, Syscall, Return, Nothing
  <2>2. CASE w[1] = 232
    <3>1. c.deref = FALSE /\ c.at = Shifted(Reg(rip), 5 + Int32(w, 2))
      BY <2>1, <2>2 DEF print_call, CallTo
    <3>2. 5 + Int32(w, 2) = Int32(w, 2) + 5
      BY CastsAreIntegers
    <3>3. Target64(w) =
            [deref |-> FALSE, at |-> Shifted(Reg(rip), Int32(w, 2) + 5)]
      BY <2>2 DEF Target64
    <3>. QED BY <3>1, <3>2, <3>3
  <2>3. CASE w[1] # 232
    <3>1. b \in {0, 1} /\ 1 + b \in {0, 1, 2}
      OBVIOUS
    <3>2. v \in Word /\ \A i \in 1..6 : v[i] = w[i + (1 + b)]
      BY ONLY <3>1, w \in Word, ShrIsWord
    <3>3. v[1] = w[2 + b] /\ v[2] = w[3 + b]
      BY <3>1, <3>2
    <3>4. (w[1] = 255 \/ (w[1] = 65 /\ w[2] = 255)) /\ is_a_call(v[1])
      BY <1>1, <2>1, <2>3, CallIsSeen, <3>3
    <3>5. c = print_rm_byte_call(v, b)
      BY <2>1, <2>3, <3>4 DEF print_call
    <3>6. Target64(w) = [deref |-> v[1] \div 64 # 3, at |-> Operand64(v, b, 1 + b)]
      BY <2>3 DEF Target64
    <3>7. /\ ~(b = 1 /\ v[1] = 23)
          /\ ~(v[1] % 8 = 4 /\ v[1] \div 64 < 3
               /\ (v[2] % 8 = 5 \/ (v[2] % 8 = 3 /\ b = 0)))
      BY <1>1, <2>3, <3>3 DEF Misread
    <3>8. v[1] \in 0..255
      BY <3>2 DEF Word
    <3>. HIDE DEF b, v, c
    <3>9. CASE v[1] % 8 = 4 /\ v[1] \div 64 < 3
      <4>1. resolve_sib(v, b).deref = TRUE
            /\ resolve_sib(v, b).at = Operand64(v, b, 1 + b)
        BY <3>1, <3>2, <3>4, <3>7, <3>9, SibTarget
      <4>2. regs_call_reg(b, v[1]) = NoReg
        BY <3>4, <3>8, <3>9, CallModRM DEF regs_call_reg, regs_call_name
      <4>3. c = resolve_sib(v, b)
        BY <3>5, <4>2 DEF print_rm_byte_call
      <4>4. (v[1] \div 64 # 3) = TRUE
        BY <3>8, <3>9
      <4>. QED BY <3>6, <4>1, <4>3, <4>4 DEF c
    <3>10. CASE v[1] % 8 # 4 \/ v[1] \div 64 = 3
      BY <3>1, <3>2, <3>4, <3>5, <3>6, <3>7, <3>10, RegisterTarget DEF c
    <3>11. v[1] \div 64 \in 0..3
      BY <3>8
    <3>. QED BY <3>9, <3>10, <3>11 DEF c
  <2>. QED BY <2>2, <2>3
<1>2. DecodedInv => TargetIsRight
  BY <1>1 DEF DecodedInv, TargetIsRight, Decoded
<1>. QED BY <1>2, DecodedInit, DecodedNext, PTL DEF Spec
=============================================================================
