------------------------ MODULE SyscallPrinterProofs ------------------------
(***************************************************************************)
(* Theorems about SyscallPrinter, for every call and every memory.         *)
(***************************************************************************)
EXTENDS SyscallPrinter, SequenceTheorems, TLAPS

-----------------------------------------------------------------------------
(* Parameters and the printers that show them.                             *)

\* But for the fourth, a parameter is the register the kernel takes it from.
LEMMA ParamIs ==
    ASSUME NEW c \in Calls, NEW n \in 0..5
    PROVE  /\ get_param(c, n) \in Nat
           /\ n # 3 => get_param(c, n) = c[Kernel[n + 1]]
           /\ n = 3 => get_param(c, n) = c.rcx
           /\ Kernel[n + 1] \in DOMAIN c
<1>1. IsCall(c) BY PrinterAssumption
<1>2. n \in {0, 1, 2, 3, 4, 5} OBVIOUS
<1>. QED BY <1>1, <1>2 DEF IsCall, get_param, Kernel

\* The types of a described call: six at most, and a string only first.
StringTypes == {"PCHAR", "CHAR_P", "CONST_CHAR_P", "CHAR_P_CONST", "UNSIGNED_CHAR_P"}
OtherTypes == {"0", "INT", "VOID_P", "CONST_VOID_P", "SIZE_T", "OFF_T", "STRUCT_P",
    "STRUCT_STAT_P", "STRUCT_FD_P", "NFDS_T", "VARGS", "CONST_STRUCT_IOVEC_P"}
RowType == StringTypes \union OtherTypes

LEMMA Printers ==
    ASSUME NEW t \in RowType
    PROVE  /\ g_functions_print(t) \in {"int", "size_t", "off_t", "void_ptr", "string", "hex"}
           /\ g_functions_print(t) = "string" <=> t \in StringTypes
  BY DEF g_functions_print, RowType, StringTypes, OtherTypes

Types(t) ==
    /\ t \in Seq(RowType) /\ Len(t) \in 1..6
    /\ \A k \in 2..Len(t) : t[k] \notin StringTypes

LEMMA RowTypes ==
    ASSUME NEW n \in 0..21
    PROVE  Types(g_syscalls[n])
<1>1. \/ n = 0 \/ n = 1 \/ n = 2 \/ n = 3 \/ n = 4 \/ n = 5 \/ n = 6 \/ n = 7
      \/ n = 8 \/ n = 9 \/ n = 10 \/ n = 11 \/ n = 12 \/ n = 16 \/ n \in {19, 20} \/ n = 21
      \/ n \in {13, 14, 15, 17, 18}
  OBVIOUS
<1>. USE DEF RowType, StringTypes, OtherTypes
<1>2. CASE n = 0
  <2>1. g_syscalls[n] = <<"INT", "VOID_P", "SIZE_T">>
    BY <1>2 DEF g_syscalls
  <2>. QED BY <2>1 DEF Types
<1>3. CASE n = 1
  <2>1. g_syscalls[n] = <<"INT", "CONST_VOID_P", "SIZE_T">>
    BY <1>3 DEF g_syscalls
  <2>. QED BY <2>1 DEF Types
<1>4. CASE n = 2
  <2>1. g_syscalls[n] = <<"CONST_CHAR_P", "INT">>
    BY <1>4 DEF g_syscalls
  <2>. QED BY <2>1 DEF Types
<1>5. CASE n = 3
  <2>1. g_syscalls[n] = <<"INT">>
    BY <1>5 DEF g_syscalls
  <2>. QED BY <2>1 DEF Types
<1>6. CASE n = 4
  <2>1. g_syscalls[n] = <<"CONST_CHAR_P", "STRUCT_P">>
    BY <1>6 DEF g_syscalls
  <2>. QED BY <2>1 DEF Types
<1>7. CASE n = 5
  <2>1. g_syscalls[n] = <<"INT", "STRUCT_STAT_P">>
    BY <1>7 DEF g_syscalls
  <2>. QED BY <2>1 DEF Types
<1>8. CASE n = 6
  <2>1. g_syscalls[n] = <<"CONST_CHAR_P", "STRUCT_STAT_P">>
    BY <1>8 DEF g_syscalls
  <2>. QED BY <2>1 DEF Types
<1>9. CASE n = 7
  <2>1. g_syscalls[n] = <<"STRUCT_FD_P", "NFDS_T", "INT">>
    BY <1>9 DEF g_syscalls
  <2>. QED BY <2>1 DEF Types
<1>10. CASE n = 8
  <2>1. g_syscalls[n] = <<"INT", "OFF_T", "INT">>
    BY <1>10 DEF g_syscalls
  <2>. QED BY <2>1 DEF Types
<1>11. CASE n = 9
  <2>1. g_syscalls[n] = <<"VOID_P", "SIZE_T", "INT", "INT", "INT", "OFF_T">>
    BY <1>11 DEF g_syscalls
  <2>. QED BY <2>1 DEF Types
<1>12. CASE n = 10
  <2>1. g_syscalls[n] = <<"VOID_P", "SIZE_T", "INT">>
    BY <1>12 DEF g_syscalls
  <2>. QED BY <2>1 DEF Types
<1>13. CASE n = 11
  <2>1. g_syscalls[n] = <<"VOID_P", "SIZE_T">>
    BY <1>13 DEF g_syscalls
  <2>. QED BY <2>1 DEF Types
<1>14. CASE n = 12
  <2>1. g_syscalls[n] = <<"VOID_P">>
    BY <1>14 DEF g_syscalls
  <2>. QED BY <2>1 DEF Types
<1>15. CASE n = 16
  <2>1. g_syscalls[n] = <<"INT", "INT", "VARGS">>
    BY <1>15 DEF g_syscalls
  <2>. QED BY <2>1 DEF Types
<1>16. CASE n \in {19, 20}
  <2>1. g_syscalls[n] = <<"INT", "CONST_STRUCT_IOVEC_P", "INT">>
    BY <1>16 DEF g_syscalls
  <2>. QED BY <2>1 DEF Types
<1>17. CASE n = 21
  <2>1. g_syscalls[n] = <<"CONST_CHAR_P", "INT">>
    BY <1>17 DEF g_syscalls
  <2>. QED BY <2>1 DEF Types
<1>18. CASE n \in {13, 14, 15, 17, 18}
  <2>1. g_syscalls[n] = Six0
    BY <1>18 DEF g_syscalls
  <2>. QED BY <2>1 DEF Types, Six0
<1>. QED BY <1>1, <1>2, <1>3, <1>4, <1>5, <1>6, <1>7, <1>8, <1>9, <1>10, <1>11, <1>12, <1>13, <1>14, <1>15, <1>16, <1>17, <1>18

PrinterName == {"int", "size_t", "off_t", "void_ptr", "string", "hex", "buffer",
    "prot", "access_mode", "map_flags", "open_flags", "open_mode"}

\* What a call is displayed by: its parameters in order, but for open's mode; a
\* string is the first of them, and a buffer the second.
Planned(plan) ==
    /\ plan \in Seq(PrinterName \X (0..5)) /\ Len(plan) \in 0..6
    /\ \A k \in 1..Len(plan) :
         /\ plan[k][2] = k - 1 \/ plan[k] = <<"open_mode", 3>>
         /\ plan[k][1] = "string" => k = 1
         /\ plan[k][1] = "buffer" => k = 2

LEMMA ShowsPlanned ==
    ASSUME NEW names, names \in Seq(PrinterName), Len(names) \in 0..6,
           \A k \in 1..Len(names) : /\ names[k] = "string" => k = 1
                                    /\ names[k] = "buffer" => k = 2
    PROVE  /\ Planned(Shows(names)) /\ Len(Shows(names)) = Len(names)
           /\ \A k \in 1..Len(names) : Shows(names)[k] = <<names[k], k - 1>>
<1>. DEFINE n == Len(names)
            item == [k \in 1..n |-> <<names[k], k - 1>>]
<1>1. Shows(names) = item
  BY DEF Shows
<1>2. item \in [1..n -> PrinterName \X (0..5)]
  <2>1. ASSUME NEW k \in 1..n PROVE <<names[k], k - 1>> \in PrinterName \X (0..5)
    <3>1. names[k] \in PrinterName /\ k - 1 \in 0..5
      OBVIOUS
    <3>. QED BY <3>1
  <2>. QED BY <2>1
<1>3. item \in Seq(PrinterName \X (0..5)) /\ Len(item) = n
  <2>. HIDE DEF item
  <2>. QED BY <1>2
<1>4. ASSUME NEW k \in 1..n
      PROVE  item[k] = <<names[k], k - 1>> /\ item[k][1] = names[k] /\ item[k][2] = k - 1
  OBVIOUS
<1>5. Planned(item)
  <2>1. item \in Seq(PrinterName \X (0..5)) /\ Len(item) \in 0..6
    BY <1>3
  <2>2. ASSUME NEW k \in 1..Len(item)
        PROVE  /\ item[k][2] = k - 1 \/ item[k] = <<"open_mode", 3>>
               /\ item[k][1] = "string" => k = 1
               /\ item[k][1] = "buffer" => k = 2
    <3>1. k \in 1..n
      BY <1>3
    <3>2. item[k][1] = names[k] /\ item[k][2] = k - 1
      BY <3>1, <1>4
    <3>. HIDE DEF item
    <3>. QED BY <3>1, <3>2
  <2>. HIDE DEF item
  <2>. QED BY <2>1, <2>2 DEF Planned
<1>. HIDE DEF item
<1>. QED BY <1>1, <1>3, <1>4, <1>5

LEMMA PlanIs ==
    ASSUME NEW c \in Calls
    PROVE  Planned(disp_syscall(c))
<1>0. c.num \in Nat
  BY PrinterAssumption DEF IsCall
<1>1. CASE c.num \notin DOMAIN g_syscalls
  <2>1. disp_syscall(c) = <<>>
    <3>1. DOMAIN g_syscalls = 0..21
      BY DEF g_syscalls
    <3>2. c.num \notin {0, 2, 9, 10, 21}
      BY <1>1, <3>1
    <3>. QED BY <1>1, <3>2 DEF disp_syscall
  <2>2. <<>> \in Seq(PrinterName \X (0..5)) /\ Len(<<>>) = 0
    OBVIOUS
  <2>. QED BY <2>1, <2>2 DEF Planned
<1>2. ASSUME c.num \in DOMAIN g_syscalls, c.num \notin {0, 2, 9, 10, 21}
      PROVE  Planned(disp_syscall(c))
  <2>. DEFINE types == g_syscalls[c.num]
              names == [k \in DOMAIN types |-> g_functions_print(types[k])]
  <2>1. c.num \in 0..21
    BY <1>2 DEF g_syscalls
  <2>2. disp_syscall(c) = Shows(names)
    BY <1>2 DEF disp_syscall, print_generic
  <2>3. Types(types)
    BY <2>1, RowTypes
  <2>4. Len(types) \in 1..6 /\ DOMAIN types = 1..Len(types)
    BY <2>3 DEF Types
  <2>5. ASSUME NEW k \in 1..Len(types)
        PROVE  /\ names[k] \in PrinterName
               /\ names[k] = "string" => k = 1
               /\ names[k] # "buffer"
    <3>1. types[k] \in RowType /\ (k # 1 => types[k] \notin StringTypes)
      BY <2>3, <2>4 DEF Types
    <3>2. names[k] = g_functions_print(types[k])
      BY <2>4
    <3>. HIDE DEF types, names
    <3>. QED BY <3>1, <3>2, Printers DEF PrinterName
  <2>6. names \in Seq(PrinterName) /\ Len(names) = Len(types)
    <3>1. names \in [1..Len(types) -> PrinterName]
      BY <2>4, <2>5
    <3>. HIDE DEF names, types
    <3>. QED BY <2>4, <3>1
  <2>. HIDE DEF names, types
  <2>7. /\ Len(names) \in 0..6
        /\ \A k \in 1..Len(names) : /\ names[k] = "string" => k = 1
                                    /\ names[k] = "buffer" => k = 2
    BY <2>4, <2>5, <2>6
  <2>. QED BY <2>2, <2>6, <2>7, ShowsPlanned
<1>3. CASE c.num = 0
  <2>. DEFINE names == <<"int", "buffer", "size_t">>
  <2>1. disp_syscall(c) = Shows(names)
    BY <1>3 DEF disp_syscall, print_read, g_syscalls
  <2>2. names \in Seq(PrinterName) /\ Len(names) = 3
    BY DEF PrinterName
  <2>3. \A k \in 1..3 : names[k] # "string" /\ (names[k] = "buffer" => k = 2)
    OBVIOUS
  <2>. HIDE DEF names
  <2>. QED BY <2>1, <2>2, <2>3, ShowsPlanned
<1>4. CASE c.num = 9
  <2>. DEFINE names == <<"void_ptr", "size_t", "prot", "map_flags", "int", "off_t">>
  <2>1. disp_syscall(c) = Shows(names)
    BY <1>4 DEF disp_syscall, print_mmap, g_syscalls
  <2>2. names \in Seq(PrinterName) /\ Len(names) = 6
    BY DEF PrinterName
  <2>3. \A k \in 1..6 : names[k] # "string" /\ names[k] # "buffer"
    OBVIOUS
  <2>. HIDE DEF names
  <2>. QED BY <2>1, <2>2, <2>3, ShowsPlanned
<1>5. CASE c.num = 10
  <2>. DEFINE names == <<"void_ptr", "size_t", "prot">>
  <2>1. disp_syscall(c) = Shows(names)
    BY <1>5 DEF disp_syscall, print_mprotect, g_syscalls
  <2>2. names \in Seq(PrinterName) /\ Len(names) = 3
    BY DEF PrinterName
  <2>3. \A k \in 1..3 : names[k] # "string" /\ names[k] # "buffer"
    OBVIOUS
  <2>. HIDE DEF names
  <2>. QED BY <2>1, <2>2, <2>3, ShowsPlanned
<1>6. CASE c.num = 21
  <2>. DEFINE names == <<"string", "access_mode">>
  <2>1. disp_syscall(c) = Shows(names)
    BY <1>6 DEF disp_syscall, print_access, g_syscalls
  <2>2. names \in Seq(PrinterName) /\ Len(names) = 2
    BY DEF PrinterName
  <2>3. \A k \in 1..2 : (names[k] = "string" => k = 1) /\ names[k] # "buffer"
    OBVIOUS
  <2>. HIDE DEF names
  <2>. QED BY <2>1, <2>2, <2>3, ShowsPlanned
<1>7. CASE c.num = 2
  <2>. DEFINE names == <<"string", "open_flags">>
              plan == disp_syscall(c)
              mode == <<"open_mode", 3>>
  <2>1. names \in Seq(PrinterName) /\ Len(names) = 2
    BY DEF PrinterName
  <2>2. \A k \in 1..2 : (names[k] = "string" => k = 1) /\ names[k] # "buffer"
    OBVIOUS
  <2>3. /\ Planned(Shows(names)) /\ Len(Shows(names)) = 2
    <3>. HIDE DEF names
    <3>. QED BY <2>1, <2>2, ShowsPlanned
  <2>4. plan = print_open(c)
    BY <1>7 DEF disp_syscall, g_syscalls
  <2>. HIDE DEF plan
  <2>5. plan = Shows(names) \/ plan = Shows(names) \o <<mode>>
    <3>1. Shows(names) \o <<>> = Shows(names)
      BY <2>3 DEF Planned
    <3>. QED BY <2>4, <3>1 DEF print_open
  <2>6. CASE plan = Shows(names) \o <<mode>>
    <3>. DEFINE two == Shows(names)
    <3>. HIDE DEF names, two
    <3>1. /\ two \in Seq(PrinterName \X (0..5)) /\ mode \in PrinterName \X (0..5)
          /\ Len(two) = 2 /\ plan = two \o <<mode>> /\ Planned(two)
      BY <2>3, <2>6 DEF Planned, PrinterName, two
    <3>2. /\ plan \in Seq(PrinterName \X (0..5)) /\ Len(plan) = 3
          /\ plan[3] = mode /\ \A k \in 1..2 : plan[k] = two[k]
      <4>. DEFINE X == PrinterName \X (0..5)
                  one == <<mode>>
      <4>1. one \in Seq(X) /\ Len(one) = 1 /\ one[1] = mode /\ plan = two \o one
        BY <3>1
      <4>. HIDE DEF one, mode, X
      <4>2. two \in Seq(X) /\ Len(two) = 2
        BY <3>1 DEF X
      <4>3. /\ two \o one \in Seq(X) /\ Len(two \o one) = 3
            /\ \A k \in 1..3 : (two \o one)[k] = IF k <= 2 THEN two[k] ELSE one[k - 2]
        <5>1. /\ two \o one \in Seq(X)
              /\ Len(two \o one) = Len(two) + Len(one)
              /\ \A j \in 1 .. Len(two) + Len(one) :
                     (two \o one)[j] = IF j <= Len(two) THEN two[j] ELSE one[j - Len(two)]
          BY ONLY <4>1, <4>2, ConcatProperties
        <5>. QED BY ONLY <4>1, <4>2, <5>1
      <4>. QED BY <4>1, <4>3 DEF X
    <3>3. ASSUME NEW k \in 1..3
          PROVE  /\ plan[k][2] = k - 1 \/ plan[k] = <<"open_mode", 3>>
                 /\ plan[k][1] = "string" => k = 1
                 /\ plan[k][1] = "buffer" => k = 2
      <4>1. CASE k = 3
        BY <3>2, <4>1
      <4>2. CASE k \in 1..2
        BY <3>1, <3>2, <4>2 DEF Planned
      <4>. QED BY <4>1, <4>2
    <3>4. Planned(plan)
      BY <3>2, <3>3 DEF Planned
    <3>. QED BY <3>4 DEF plan
  <2>. QED BY <2>3, <2>5, <2>6 DEF plan
<1>. QED BY <1>1, <1>2, <1>3, <1>4, <1>5, <1>6, <1>7

-----------------------------------------------------------------------------
(* What is displayed is what was planned.                                  *)

LEMMA Appended ==
    ASSUME NEW t, t \in Seq(ToSet(t)), NEW e
    PROVE  /\ Len(t) \in Nat /\ DOMAIN t = 1..Len(t)
           /\ Append(t, e) \in Seq(ToSet(Append(t, e)))
           /\ Len(Append(t, e)) = Len(t) + 1
           /\ DOMAIN Append(t, e) = 1..(Len(t) + 1)
           /\ \A k \in 1..Len(t) : Append(t, e)[k] = t[k]
           /\ Append(t, e)[Len(t) + 1] = e
<1>. DEFINE S == ToSet(t) \union {e}
            u == Append(t, e)
<1>1. t \in Seq(S) /\ e \in S
  BY SeqMonotonic
<1>. HIDE DEF S
<1>2. /\ Len(t) \in Nat /\ DOMAIN t = 1..Len(t)
      /\ u \in Seq(S) /\ Len(u) = Len(t) + 1
      /\ \A k \in 1..Len(t) : u[k] = t[k]
      /\ u[Len(t) + 1] = e
  BY <1>1, LenProperties, AppendProperties
<1>. HIDE DEF u
<1>3. DOMAIN u = 1..Len(u) /\ u \in [1..Len(u) -> ToSet(u)]
  <2>1. DOMAIN u = 1..Len(u) /\ u \in [1..Len(u) -> S]
    BY <1>2, LenProperties
  <2>. QED BY <2>1 DEF ToSet
<1>4. u \in Seq(ToSet(u))
  BY <1>2, <1>3
<1>. QED BY <1>2, <1>3, <1>4 DEF u

\* The item that is due is the next one of the plan.
LEMMA NextDue ==
    ASSUME PlanInv, pc \in {"arg"} \union Looping
    PROVE  LET plan == disp_syscall(call)
               n == Len(line) + 1
           IN /\ Planned(plan) /\ n \in 1..(Len(plan) + 1)
              /\ todo = <<>> => n = Len(plan) + 1
              /\ todo # <<>> => /\ n \in 1..Len(plan) /\ n <= 6
                               /\ Head(todo) = plan[n]
                               /\ plan[n] = <<plan[n][1], plan[n][2]>>
                               /\ plan[n][1] \in PrinterName /\ plan[n][2] \in 0..5
                               /\ Tail(todo) = SubSeq(plan, n + 1, Len(plan))
<1>. DEFINE plan == disp_syscall(call)
            n == Len(line) + 1
            X == PrinterName \X (0..5)
<1>1. Planned(plan) /\ plan \in Seq(X) /\ Len(plan) \in 0..6
  BY PlanIs DEF PlanInv, Planned
<1>2. Len(line) \in Nat
  BY Appended DEF PlanInv
<1>3. Len(line) <= Len(plan) /\ todo = SubSeq(plan, n, Len(plan))
  BY DEF PlanInv
<1>. HIDE DEF plan, X
<1>4. n \in 1..(Len(plan) + 1)
  BY <1>1, <1>2, <1>3
<1>5. CASE n = Len(plan) + 1
  <2>1. todo = <<>>
    BY <1>1, <1>3, <1>5, SubSeqEmpty
  <2>. QED BY <1>1, <1>4, <1>5, <2>1 DEF plan
<1>6. CASE n # Len(plan) + 1
  <2>1. n \in 1..Len(plan) /\ Len(plan) \in n..Len(plan) /\ n <= 6
    <3>1. Len(plan) \in Int /\ Len(plan) <= 6 /\ n \in Int
      <4>1. Len(plan) \in 0..6
        BY <1>1
      <4>2. n \in Int
        BY <1>2
      <4>3. \A m \in 0..6 : m \in Int /\ m <= 6
        OBVIOUS
      <4>. QED BY <4>1, <4>2, <4>3, Zenon
    <3>2. n >= 1 /\ n <= Len(plan) + 1
      BY <1>4, <3>1
    <3>. HIDE DEF n
    <3>. QED BY ONLY <1>6, <3>1, <3>2
  <2>2. Head(todo) = plan[n] /\ Tail(todo) = SubSeq(plan, n + 1, Len(plan))
    BY ONLY <1>1, <1>3, <2>1, HeadTailOfSubSeq
  <2>3. plan[n] \in X
    BY <1>1, <2>1, ElementOfSeq
  <2>4. /\ plan[n] = <<plan[n][1], plan[n][2]>>
        /\ plan[n][1] \in PrinterName /\ plan[n][2] \in 0..5
    BY <2>3 DEF X
  <2>5. todo # <<>>
    <3>1. Len(todo) = Len(plan) - n + 1
      <4>1. \A k \in n..Len(plan) : plan[k] \in X
        BY <1>1, <2>1, ElementOfSeq
      <4>. QED BY <1>1, <1>3, <2>1, <4>1, SubSeqProperties
    <3>. QED BY <1>1, <2>1, <3>1
  <2>. QED BY <1>1, <1>4, <2>1, <2>2, <2>4, <2>5 DEF plan
<1>. QED BY <1>5, <1>6

\* An item displayed: the line goes on as planned.
LEMMA DisplayPlanned ==
    ASSUME PlanInv, pc \in {"arg"} \union Looping, todo # <<>>, NEW v, NEW d,
           Display(v, d), call' = call, alive' \in BOOLEAN,
           Head(todo)[1] \notin Looping =>
               v = Value(Head(todo)[1], get_param(call, Head(todo)[2]))
    PROVE  PlanInv'
<1>. DEFINE plan == disp_syscall(call)
            n == Len(line) + 1
            e == Item(v, d)
<1>1. /\ Len(line) \in Nat /\ DOMAIN line = 1..Len(line)
      /\ line' = Append(line, e) /\ line' \in Seq(ToSet(line')) /\ Len(line') = n
      /\ DOMAIN line' = 1..n
      /\ \A k \in 1..Len(line) : line'[k] = line[k]
      /\ line'[n] = e
  BY Appended DEF PlanInv, Display
<1>2. /\ Len(plan) \in Nat
      /\ n \in 1..Len(plan) /\ Head(todo) = plan[n]
      /\ plan[n] = <<plan[n][1], plan[n][2]>>
      /\ Tail(todo) = SubSeq(plan, n + 1, Len(plan))
  BY NextDue DEF Planned
<1>3. disp_syscall(call)' = plan /\ call' = call
  OBVIOUS
<1>4. e.print = plan[n][1] /\ e.param = plan[n][2] /\ e.value = v
  BY <1>2 DEF Item
<1>. HIDE DEF plan, e
<1>5. pc' = "arg" /\ todo' = SubSeq(plan, Len(line') + 1, Len(plan)) /\ Len(line') <= Len(plan)
  BY <1>1, <1>2 DEF Display
<1>6. ASSUME NEW k \in DOMAIN line'
      PROVE  IF k <= Len(plan)
             THEN /\ <<line'[k].print, line'[k].param>> = plan[k]
                  /\ line'[k].print \notin Looping =>
                       line'[k].value = Value(line'[k].print, get_param(call, line'[k].param))
             ELSE /\ line'[k].param = 6
                  /\ line'[k].print = ResultPrinter(call.num)
                  /\ line'[k].value = Value(line'[k].print, call.result)
  <2>1. CASE k = n
    BY <1>1, <1>2, <1>4, <2>1
  <2>2. CASE k # n
    <3>1. k \in DOMAIN line /\ line'[k] = line[k]
      BY <1>1, <2>2
    <3>. QED BY <3>1 DEF PlanInv, plan
  <2>. QED BY <2>1, <2>2
<1>7. call' \in Calls
  BY DEF PlanInv
<1>. QED BY <1>1, <1>3, <1>5, <1>6, <1>7 DEF PlanInv, plan, Looping

LEMMA ResultPlanned ==
    ASSUME PlanInv, PrintResult
    PROVE  PlanInv'
<1>. DEFINE plan == disp_syscall(call)
            n == Len(line) + 1
<1>1. n = Len(plan) + 1 /\ Len(plan) \in Nat
  BY NextDue DEF PrintResult, Planned
<1>2. CASE line' = line
  <2>1. /\ pc' = "done" /\ call' = call /\ alive' = alive
        /\ disp_syscall(call)' = plan
    BY DEF PrintResult
  <2>. QED BY <1>2, <2>1 DEF PlanInv, plan, Looping
<1>3. CASE line' # line
  <2>. DEFINE e == [print |-> ResultPrinter(call.num), param |-> 6,
                    value |-> Value(ResultPrinter(call.num), call.result),
                    dots |-> FALSE]
  <2>1. /\ Len(line) \in Nat /\ DOMAIN line = 1..Len(line)
        /\ line' = Append(line, e) /\ line' \in Seq(ToSet(line')) /\ Len(line') = n
        /\ DOMAIN line' = 1..n
        /\ \A k \in 1..Len(line) : line'[k] = line[k]
        /\ line'[n] = e
    <3>1. line' = Append(line, e) /\ line \in Seq(ToSet(line))
      BY <1>3 DEF PlanInv, PrintResult
    <3>. HIDE DEF e
    <3>. QED BY <3>1, Appended
  <2>2. /\ e.param = 6 /\ e.print = ResultPrinter(call.num)
        /\ e.value = Value(e.print, call.result)
    OBVIOUS
  <2>. HIDE DEF e, plan
  <2>3. ASSUME NEW k \in DOMAIN line'
        PROVE  IF k <= Len(plan)
               THEN /\ <<line'[k].print, line'[k].param>> = plan[k]
                    /\ line'[k].print \notin Looping =>
                         line'[k].value = Value(line'[k].print, get_param(call, line'[k].param))
               ELSE /\ line'[k].param = 6
                    /\ line'[k].print = ResultPrinter(call.num)
                    /\ line'[k].value = Value(line'[k].print, call.result)
    <3>1. CASE k = n
      BY <1>1, <2>1, <2>2, <3>1
    <3>2. CASE k # n
      <4>1. k \in DOMAIN line /\ line'[k] = line[k]
        BY <2>1, <3>2
      <4>. QED BY <4>1 DEF PlanInv, plan
    <3>. QED BY <3>1, <3>2
  <2>4. pc' = "done" /\ call' = call /\ alive' = alive /\ call' \in Calls /\ alive' \in BOOLEAN
    BY DEF PlanInv, PrintResult
  <2>5. disp_syscall(call)' = plan
    BY <2>4 DEF plan
  <2>. QED BY <2>1, <2>3, <2>4, <2>5 DEF PlanInv, plan, Looping
<1>. QED BY <1>2, <1>3

LEMMA PlanInit == Init => PlanInv
<1>1. Init => line \in Seq(ToSet(line)) /\ DOMAIN line = {}
  BY DEF Init, ToSet
<1>. QED BY <1>1 DEF Init, PlanInv, Looping

LEMMA PlanNext == PlanInv /\ [Next]_vars => PlanInv'
<1>. SUFFICES ASSUME PlanInv, [Next]_vars PROVE PlanInv'
  OBVIOUS
<1>1. CASE Begin
  <2>1. Planned(disp_syscall(call))
    BY PlanIs DEF PlanInv
  <2>2. /\ line' = <<>> /\ Len(line') = 0 /\ call' = call /\ pc' = "arg"
        /\ todo' = disp_syscall(call) /\ alive' = alive
    BY <1>1 DEF Begin, PlanInv
  <2>3. SubSeq(disp_syscall(call), 1, Len(disp_syscall(call))) = disp_syscall(call)
    BY <2>1, SubSeqFull DEF Planned
  <2>4. line' \in Seq(ToSet(line')) /\ DOMAIN line' = {}
    BY <2>2 DEF ToSet
  <2>5. 0 <= Len(disp_syscall(call))
    BY <2>1 DEF Planned
  <2>. QED BY <2>2, <2>3, <2>4, <2>5 DEF PlanInv, Looping
<1>2. CASE PrintValue
  BY <1>2, DisplayPlanned DEF PrintValue, PlanInv, Argument
<1>3. CASE PrintNull
  BY <1>3, DisplayPlanned DEF PrintNull, PlanInv, Due, Looping
<1>4. CASE StartReading
  BY <1>4 DEF StartReading, PlanInv, Due, Looping
<1>5. CASE PeekString
  BY <1>5 DEF PeekString, PlanInv, Looping
<1>6. CASE EndString
  BY <1>6, DisplayPlanned DEF EndString, PlanInv, Looping
<1>7. CASE PeekBuffer
  BY <1>7 DEF PeekBuffer, PlanInv, Looping
<1>8. CASE EndBuffer
  BY <1>8, DisplayPlanned DEF EndBuffer, PlanInv, Looping
<1>9. CASE PrintResult
  BY <1>9, ResultPlanned
<1>10. CASE Killed
  BY <1>10 DEF Killed, PlanInv, Looping
<1>11. CASE UNCHANGED vars
  BY <1>11 DEF vars, loop, PlanInv, Looping
<1>. QED BY <1>1, <1>2, <1>3, <1>4, <1>5, <1>6, <1>7, <1>8, <1>9, <1>10, <1>11
     DEF Next, Ftrace

-----------------------------------------------------------------------------
(* Flags.                                                                  *)

\* A flag of one bit is set when some bit of it is.
LEMMA OneBit ==
    ASSUME NEW v, NEW table, NEW f \in DOMAIN table, NEW w, table[f] = {w}
    PROVE  f \in Names(v, table) <=> f \in Set(v, table)
  BY DEF Names, Set

LEMMA OpenNames ==
    ASSUME NEW v
    PROVE  print_open_flags(v) \ {"O_RDONLY", "O_SYNC"} = Set(v, OpenFlags) \ {"O_SYNC"}
<1>1. ASSUME NEW f \in DOMAIN OpenFlags, f # "O_SYNC"
      PROVE  f \in Names(v, OpenFlags) <=> f \in Set(v, OpenFlags)
  <2>. DEFINE table == OpenFlags
  <2>0. /\ table["O_APPEND"] = {1024} /\ table["O_ASYNC"] = {8192}
        /\ table["O_CLOEXEC"] = {524288} /\ table["O_CREAT"] = {64}
        /\ table["O_DIRECTORY"] = {65536} /\ table["O_DSYNC"] = {4096}
        /\ table["O_EXCL"] = {128} /\ table["O_NOCTTY"] = {256}
        /\ table["O_NOFOLLOW"] = {131072} /\ table["O_NONBLOCK"] = {2048}
        /\ table["O_TRUNC"] = {512}
        /\ DOMAIN table = {"O_APPEND", "O_ASYNC", "O_CLOEXEC", "O_CREAT", "O_DIRECTORY",
             "O_DSYNC", "O_EXCL", "O_NOCTTY", "O_NOFOLLOW", "O_NONBLOCK", "O_SYNC", "O_TRUNC"}
    BY DEF OpenFlags
  <2>1. f \in DOMAIN table
    OBVIOUS
  <2>. HIDE DEF table
  <2>2. \E w : table[f] = {w}
    BY <1>1, <2>0, <2>1
  <2>. QED BY <2>2, OneBit DEF table
<1>2. "O_RDONLY" \notin DOMAIN OpenFlags
  BY DEF OpenFlags
<1>. QED BY <1>1, <1>2 DEF print_open_flags, Names, Set

LEMMA MapNames ==
    ASSUME NEW v
    PROVE  /\ print_map_flags(v) \ {"MAP_PRIVATE", "MAP_SHARED"} = Set(v, MapFlags)
           /\ "MAP_PRIVATE" \in print_map_flags(v) <=> "MAP_SHARED" \notin print_map_flags(v)
<1>1. ASSUME NEW f \in DOMAIN MapFlags
      PROVE  f \in Names(v, MapFlags) <=> f \in Set(v, MapFlags)
  <2>1. \E w : MapFlags[f] = {w}
    BY DEF MapFlags
  <2>. QED BY <2>1, OneBit
<1>2. "MAP_PRIVATE" \notin DOMAIN MapFlags /\ "MAP_SHARED" \notin DOMAIN MapFlags
  BY DEF MapFlags
<1>. QED BY <1>1, <1>2 DEF print_map_flags, Names, Set

LEMMA ProtNames ==
    ASSUME NEW v
    PROVE  /\ print_prot(v) \ {"PROT_NONE"} = Set(v, Prots)
           /\ "PROT_NONE" \in print_prot(v) <=> v = 0
<1>1. ASSUME NEW f \in DOMAIN Prots
      PROVE  /\ f \in Names(v, Prots) <=> f \in Set(v, Prots)
             /\ f \notin Set(0, Prots)
  <2>1. PICK w \in {1, 2, 4} : Prots[f] = {w}
    BY DEF Prots
  <2>2. ~Bit(0, w)
    BY DEF Bit
  <2>. QED BY <2>1, <2>2, OneBit DEF Set
<1>2. "PROT_NONE" \notin DOMAIN Prots
  BY DEF Prots
<1>. QED BY <1>1, <1>2 DEF print_prot, Names, Set

LEMMA ModeNames ==
    ASSUME NEW v
    PROVE  /\ print_access_mode(v) \ {"F_OK"} = Set(v, AccessModes)
           /\ "F_OK" \in print_access_mode(v) <=> v = 0
<1>1. ASSUME NEW f \in DOMAIN AccessModes
      PROVE  /\ f \in Names(v, AccessModes) <=> f \in Set(v, AccessModes)
             /\ f \notin Set(0, AccessModes)
  <2>1. PICK w \in {1, 2, 4} : AccessModes[f] = {w}
    BY DEF AccessModes
  <2>2. ~Bit(0, w)
    BY DEF Bit
  <2>. QED BY <2>1, <2>2, OneBit DEF Set
<1>2. "F_OK" \notin DOMAIN AccessModes
  BY DEF AccessModes
<1>. QED BY <1>1, <1>2 DEF print_access_mode, Names, Set

\* The weights of all flags.
Weights == {1, 2, 4, 16, 32, 64, 128, 256, 512, 1024, 2048, 4096, 8192, 16384, 32768,
    65536, 131072, 262144, 524288, 1048576}

\* An int has the bits that flags look at.
LEMMA CutBit ==
    ASSUME NEW v \in Nat, NEW w \in Weights
    PROVE  Bit(Int32(v), w) <=> Bit(v, w)
<1>. DEFINE r == Int32(v)
<1>1. /\ IntSize \in Nat \ {0} /\ IntSize % 4194304 = 0
  BY PrinterAssumption
<1>2. PICK m \in Nat : IntSize = 4194304 * m
  BY <1>1
<1>3. /\ v \div IntSize \in Nat /\ r \in Nat
      /\ v = IntSize * (v \div IntSize) + r
  BY <1>1 DEF Int32
<1>4. PICK j \in Nat : v = 4194304 * j + r
  <2>. DEFINE q == v \div IntSize
  <2>1. IntSize * q = 4194304 * (m * q) /\ m * q \in Nat
    <3>1. q \in Nat BY <1>3
    <3>. HIDE DEF q
    <3>. QED BY <1>2, <3>1
  <2>. HIDE DEF q, r
  <2>. QED BY <1>3, <2>1 DEF q
<1>. HIDE DEF r
<1>5. (r \div w) % 2 = (v \div w) % 2
  BY <1>3, <1>4 DEF Weights
<1>. QED BY <1>5 DEF Bit, r

LEMMA CutSet ==
    ASSUME NEW v \in Nat, NEW table \in {OpenFlags, MapFlags, Prots, AccessModes}
    PROVE  Set(Int32(v), table) = Set(v, table)
<1>1. \A f \in DOMAIN table : table[f] \subseteq Weights
  <2>1. CASE table = OpenFlags BY <2>1 DEF OpenFlags, Weights
  <2>2. CASE table = MapFlags BY <2>2 DEF MapFlags, Weights
  <2>3. CASE table = Prots BY <2>3 DEF Prots, Weights
  <2>4. CASE table = AccessModes BY <2>4 DEF AccessModes, Weights
  <2>. QED BY <2>1, <2>2, <2>3, <2>4
<1>2. \A f \in DOMAIN table : \A w \in table[f] : Bit(Int32(v), w) <=> Bit(v, w)
  BY <1>1, CutBit
<1>. QED BY <1>2 DEF Set

\* A number with a sign stands for what it was made of.
LEMMA SignedStands ==
    ASSUME NEW size \in Nat \ {0}, size % 2 = 0, NEW v \in Nat
    PROVE  StandsFor(Signed(v % size, size), v, size)
<1>. DEFINE r == v % size
            q == v \div size
            d == Signed(r, size)
<1>1. q \in Nat /\ r \in 0..(size - 1) /\ v = size * q + r
  OBVIOUS
<1>. HIDE DEF r, q
<1>2. PICK h \in Nat : size = 2 * h
  OBVIOUS
<1>3. /\ size \div 2 = h /\ d \in -h..(h - 1)
      /\ d = r \/ d = r - size
  BY <1>1, <1>2 DEF Signed
<1>4. (v - d) % size = 0
  <2>1. v - d = size * q \/ v - d = size * (q + 1)
    BY <1>1, <1>3
  <2>. QED BY <1>1, <2>1
<1>. QED BY <1>3, <1>4 DEF StandsFor, r

LEMMA ValueSays ==
    ASSUME NEW v \in 0..(WordSize - 1), NEW print \in PrinterName \union {"ssize_t"}
    PROVE  Says(print, Value(print, v), v)
<1>0. /\ IntSize \in Nat \ {0} /\ WordSize \in Nat \ {0} /\ v \in Nat
      /\ IntSize % 2 = 0 /\ WordSize % 2 = 0
  BY PrinterAssumption
<1>1. CASE print = "open_flags"
  BY <1>0, <1>1, OpenNames, CutSet DEF Says, Value
<1>2. CASE print = "map_flags"
  BY <1>0, <1>2, MapNames, CutSet DEF Says, Value
<1>3. CASE print = "prot"
  BY <1>0, <1>3, ProtNames, CutSet DEF Says, Value
<1>4. CASE print = "access_mode"
  BY <1>0, <1>4, ModeNames, CutSet DEF Says, Value
<1>5. CASE print = "int"
  BY <1>0, <1>5, SignedStands DEF Says, Value, print_int, Int32
<1>6. CASE print = "ssize_t"
  <2>1. v % WordSize = v
    BY <1>0
  <2>. QED BY <1>0, <1>6, <2>1, SignedStands DEF Says, Value, print_ssize_t
<1>7. CASE print \notin {"open_flags", "map_flags", "prot", "access_mode", "int",
                         "ssize_t"}
  BY <1>7 DEF Says, Value
<1>. QED BY <1>1, <1>2, <1>3, <1>4, <1>5, <1>6, <1>7

LEMMA PlanKernel == PlanInv => ArgumentsAreTheKernels
<1>. SUFFICES ASSUME PlanInv, NEW k \in DOMAIN line
              PROVE  Says(line[k].print, line[k].value,
                          IF line[k].param = 6 THEN call.result
                          ELSE IF k = 4 THEN call.rcx ELSE call[Kernel[k]])
  BY DEF ArgumentsAreTheKernels
<1>. DEFINE plan == disp_syscall(call)
            print == line[k].print
            value == line[k].value
            taken == IF k = 4 THEN call.rcx ELSE call[Kernel[k]]
<1>1. Planned(plan) /\ call \in Calls /\ IsCall(call)
  BY PlanIs, PrinterAssumption DEF PlanInv
<1>2. k \in 1..Len(line) /\ Len(plan) \in 0..6
  BY <1>1, Appended DEF PlanInv, Planned
<1>3. CASE k <= Len(plan)
  <2>1. <<print, line[k].param>> = plan[k] /\ k \in 1..6 /\ k \in 1..Len(plan)
    BY <1>2, <1>3 DEF PlanInv
  <2>2. print \in PrinterName /\ line[k].param \in 0..5
    BY <1>1, <2>1, ElementOfSeq DEF Planned
  <2>3. CASE print \in Looping \union {"open_mode"}
    BY <2>3 DEF Looping, Says
  <2>4. CASE print \notin Looping \union {"open_mode"}
    <3>1. line[k].param = k - 1 /\ value = Value(print, get_param(call, line[k].param))
      BY <1>1, <1>3, <2>1, <2>4 DEF PlanInv, Planned
    <3>2. get_param(call, k - 1) = taken /\ taken \in 0..(WordSize - 1)
      <4>1. k - 1 \in 0..5 /\ k = (k - 1) + 1
        BY <2>1
      <4>2. Kernel[k] \in DOMAIN call
        BY <1>1, <4>1, ParamIs
      <4>3. CASE k = 4
        BY <1>1, <4>1, <4>3, ParamIs DEF IsCall
      <4>4. CASE k # 4
        BY <1>1, <4>1, <4>2, <4>4, ParamIs DEF IsCall
      <4>. QED BY <4>3, <4>4
    <3>3. value = Value(print, taken) /\ line[k].param # 6
      BY <2>2, <3>1, <3>2
    <3>. HIDE DEF plan, print, value, taken
    <3>4. Says(print, value, taken)
      BY <2>2, <3>2, <3>3, ValueSays
    <3>. QED BY <3>3, <3>4 DEF print, value, taken
  <2>. QED BY <2>3, <2>4
<1>4. CASE ~(k <= Len(plan))
  <2>1. line[k].param = 6 /\ value = Value(print, call.result)
        /\ print = ResultPrinter(call.num)
    BY <1>4 DEF PlanInv
  <2>2. call.result \in 0..(WordSize - 1) /\ print \in PrinterName \union {"ssize_t"}
    BY <1>1, <2>1 DEF IsCall, ResultPrinter, PrinterName
  <2>. HIDE DEF plan, print, value, taken
  <2>3. Says(print, value, call.result)
    BY <2>1, <2>2, ValueSays
  <2>. QED BY <2>1, <2>3 DEF print, value
<1>. QED BY <1>3, <1>4

\* What is displayed in the place of an argument, and for the result, is what
\* its register held, cut to an int where the code has one, for any words in the
\* registers and whenever the tracee is killed (get_param and the printers).
THEOREM ArgumentsCorrect == Spec => []ArgumentsAreTheKernels
<1>. QED BY PlanInit, PlanNext, PlanKernel, PTL DEF Spec

-----------------------------------------------------------------------------
(* Bytes.                                                                  *)

Values == 0..255 \union {Memory[a] : a \in Int}

LEMMA BytesAre ==
    ASSUME NEW p \in Nat, NEW m \in Nat
    PROVE  /\ Bytes(p, m) \in Seq(Values) /\ Len(Bytes(p, m)) = m
           /\ \A k \in 1..m : Bytes(p, m)[k] = Memory[(p + k) - 1]
<1>1. ASSUME NEW k \in 1..m PROVE Memory[p + k - 1] \in Values
  <2>1. p + k - 1 \in Int
    OBVIOUS
  <2>. QED BY <2>1 DEF Values
<1>2. Bytes(p, m) \in [1..m -> Values]
  BY <1>1 DEF Bytes
<1>3. \A k \in 1..m : Bytes(p, m)[k] = Memory[(p + k) - 1]
  BY DEF Bytes
<1>. QED BY <1>2, <1>3

LEMMA NoBytes ==
    ASSUME NEW p \in Nat
    PROVE  Bytes(p, 0) = <<>>
  BY BytesAre, EmptySeq

LEMMA OneByte ==
    ASSUME NEW p \in Nat, NEW m \in Nat
    PROVE  Bytes(p, m + 1) = Bytes(p, m) \o <<Memory[p + m]>>
<1>. DEFINE u == Bytes(p, m)
            w == <<Memory[p + m]>>
            v == Bytes(p, m + 1)
<1>1. /\ u \in Seq(Values) /\ Len(u) = m /\ v \in Seq(Values) /\ Len(v) = m + 1
      /\ \A k \in 1..m : u[k] = Memory[(p + k) - 1]
      /\ \A k \in 1..(m + 1) : v[k] = Memory[(p + k) - 1]
  BY BytesAre
<1>2. w \in Seq(Values) /\ Len(w) = 1 /\ w[1] = Memory[p + m]
  <2>1. Memory[p + m] \in Values
    BY DEF Values
  <2>. QED BY <2>1
<1>. HIDE DEF u, v, w
<1>3. /\ u \o w \in Seq(Values) /\ Len(u \o w) = Len(u) + Len(w)
      /\ \A k \in 1 .. Len(u) + Len(w) :
           (u \o w)[k] = IF k <= Len(u) THEN u[k] ELSE w[k - Len(u)]
  <2>1. u \in Seq(Values) /\ w \in Seq(Values)
    BY <1>1, <1>2
  <2>. QED BY ONLY <2>1, ConcatProperties
<1>4. ASSUME NEW k \in 1..(m + 1) PROVE v[k] = (u \o w)[k]
  <2>1. CASE k <= m
    <3>1. k \in 1..m
      BY <2>1
    <3>. QED BY <1>1, <1>2, <1>3, <2>1, <3>1
  <2>2. CASE k = m + 1
    <3>1. (p + (m + 1)) - 1 = p + m /\ (m + 1) - m = 1
      OBVIOUS
    <3>. QED BY <1>1, <1>2, <1>3, <2>2, <3>1
  <2>3. k <= m \/ k = m + 1
    OBVIOUS
  <2>. QED BY <2>1, <2>2, <2>3, Zenon
<1>5. v = u \o w
  BY <1>1, <1>2, <1>3, <1>4, SeqEqual
<1>. QED BY <1>5 DEF u, v, w

LEMMA PairOf ==
    ASSUME NEW a \in Values, NEW b \in Values
    PROVE  <<a>> \o <<b>> = <<a, b>>
<1>. DEFINE u == <<a>>
            w == <<b>>
            v == <<a, b>>
<1>1. u \in Seq(Values) /\ Len(u) = 1 /\ u[1] = a
  OBVIOUS
<1>2. w \in Seq(Values) /\ Len(w) = 1 /\ w[1] = b
  OBVIOUS
<1>3. v \in Seq(Values) /\ Len(v) = 2 /\ v[1] = a /\ v[2] = b
  OBVIOUS
<1>. HIDE DEF u, v, w
<1>4. /\ u \o w \in Seq(Values) /\ Len(u \o w) = Len(u) + Len(w)
      /\ \A k \in 1 .. Len(u) + Len(w) :
           (u \o w)[k] = IF k <= Len(u) THEN u[k] ELSE w[k - Len(u)]
  <2>1. u \in Seq(Values) /\ w \in Seq(Values)
    BY <1>1, <1>2
  <2>. QED BY ONLY <2>1, ConcatProperties
<1>5. Len(u \o w) = 2 /\ (u \o w)[1] = a /\ (u \o w)[2] = b
  BY <1>1, <1>2, <1>4
<1>6. \A k \in 1..Len(u \o w) : (u \o w)[k] = v[k]
  <2>1. \A k \in 1..2 : k = 1 \/ k = 2
    OBVIOUS
  <2>. QED BY <1>3, <1>5, <2>1
<1>7. u \o w = v
  BY <1>3, <1>4, <1>5, <1>6, SeqEqual
<1>. QED BY <1>7 DEF u, v, w

LEMMA TwoBytes ==
    ASSUME NEW p \in Nat, NEW m \in Nat
    PROVE  Bytes(p, m + 2) = Bytes(p, m) \o <<Memory[p + m], Memory[(p + m) + 1]>>
<1>. DEFINE a == Memory[p + m]
            b == Memory[(p + m) + 1]
<1>1. /\ Bytes(p, m + 1) = Bytes(p, m) \o <<a>>
      /\ Bytes(p, (m + 1) + 1) = Bytes(p, m + 1) \o <<Memory[p + (m + 1)]>>
  BY OneByte
<1>2. (m + 1) + 1 = m + 2 /\ p + (m + 1) = (p + m) + 1
  OBVIOUS
<1>3. Bytes(p, m + 2) = (Bytes(p, m) \o <<a>>) \o <<b>>
  BY <1>1, <1>2
<1>4. /\ Bytes(p, m) \in Seq(Values)
      /\ a \in Values /\ b \in Values
  <2>1. Bytes(p, m) \in Seq(Values)
    BY BytesAre
  <2>2. p + m \in Int /\ (p + m) + 1 \in Int
    OBVIOUS
  <2>. QED BY <2>1, <2>2 DEF Values
<1>. HIDE DEF a, b
<1>5. <<a>> \in Seq(Values) /\ <<b>> \in Seq(Values) /\ <<a>> \o <<b>> = <<a, b>>
  <2>1. <<a>> \in Seq(Values)
    BY ONLY <1>4
  <2>2. <<b>> \in Seq(Values)
    BY ONLY <1>4
  <2>3. <<a>> \o <<b>> = <<a, b>>
    BY <1>4, PairOf
  <2>. QED BY <2>1, <2>2, <2>3
<1>6. (Bytes(p, m) \o <<a>>) \o <<b>> = Bytes(p, m) \o (<<a>> \o <<b>>)
  BY ONLY <1>4, <1>5, ConcatAssociative
<1>. QED BY <1>3, <1>5, <1>6 DEF a, b

\* What was in front of a text stays there.
LEMMA StaysInFront ==
    ASSUME NEW t \in Seq(Values), NEW u \in Seq(Values), NEW w \in Seq(Values),
           IsPrefix(t, u)
    PROVE  IsPrefix(t, u \o w)
<1>1. /\ Len(t) \in Nat /\ Len(u) \in Nat /\ Len(w) \in Nat
      /\ Len(u \o w) = Len(u) + Len(w)
  BY LenProperties, ConcatProperties
<1>2. Len(t) <= Len(u) /\ SubSeq(t, 1, Len(t)) = SubSeq(u, 1, Len(t))
  BY DEF IsPrefix
<1>3. SubSeq(u \o w, 1, Len(t)) = SubSeq(u, 1, Len(t))
  <2>1. CASE Len(t) = 0
    BY <1>1, <2>1, SubSeqEmpty
  <2>2. CASE Len(t) # 0
    <3>1. 1 \in 1..Len(u) /\ Len(t) \in 1..Len(u)
      BY <1>1, <1>2, <2>2
    <3>. QED BY <3>1, SubSeqOfConcat1
  <2>. QED BY <2>1, <2>2
<1>. QED BY <1>1, <1>2, <1>3 DEF IsPrefix

LEMMA Itself ==
    ASSUME NEW t \in Seq(Values)
    PROVE  IsPrefix(t, t)
<1>1. Len(t) \in Nat
  BY LenProperties
<1>. QED BY <1>1 DEF IsPrefix

-----------------------------------------------------------------------------
(* The loops of reads.                                                     *)

LEMMA PeekIs ==
    ASSUME NEW a \in Nat
    PROVE  LET w == Peek(a)
           IN /\ w[1] \in 0..255 /\ w[2] \in 0..255
              /\ alive /\ Word(a) \subseteq DOMAIN Memory =>
                   w[1] = Memory[a] /\ w[2] = Memory[a + 1] /\ w[3] = Memory[a + 7]
<1>1. CASE alive /\ Word(a) \subseteq DOMAIN Memory
  <2>1. a \in Word(a) /\ a + 1 \in Word(a)
    BY DEF Word
  <2>2. Memory[a] \in 0..255 /\ Memory[a + 1] \in 0..255
    BY <1>1, <2>1, PrinterAssumption
  <2>. QED BY <1>1, <2>2 DEF Peek
<1>2. CASE ~(alive /\ Word(a) \subseteq DOMAIN Memory)
  BY <1>2 DEF Peek
<1>. QED BY <1>1, <1>2

\* What print_word shows of a word.
LEMMA WordShown ==
    ASSUME NEW w, w[1] \in 0..255, w[2] \in 0..255
    PROVE  /\ print_word(w) \in Seq(0..255) /\ Len(print_word(w)) \in 0..2
           /\ w[1] = 0 => print_word(w) = <<>>
           /\ w[1] # 0 /\ w[2] = 0 => print_word(w) = <<w[1]>>
           /\ w[1] # 0 /\ w[2] # 0 => print_word(w) = <<w[1], w[2]>>
<1>. DEFINE a == w[1]
            b == w[2]
<1>0. a \in 0..255 /\ b \in 0..255
  OBVIOUS
<1>. HIDE DEF a, b
<1>1. <<>> \in Seq(0..255) /\ Len(<<>>) = 0
  OBVIOUS
<1>2. <<a>> \in Seq(0..255) /\ Len(<<a>>) = 1
  BY <1>0
<1>3. <<a, b>> \in Seq(0..255) /\ Len(<<a, b>>) = 2
  BY <1>0
<1>4. CASE a = 0
  BY <1>1, <1>4 DEF print_word, a, b
<1>5. CASE a # 0 /\ b = 0
  BY <1>2, <1>5 DEF print_word, a, b
<1>6. CASE a # 0 /\ b # 0
  BY <1>3, <1>6 DEF print_word, a, b
<1>. QED BY <1>4, <1>5, <1>6

LEMMA Numbers == \A t \in Seq(0..255) : t \in Seq(Values) /\ Len(t) \in Nat
  BY SeqMonotonic DEF Values

\* One turn of the loop of print_char_ptr.
LEMMA Turn ==
    ASSUME NEW p \in Nat, NEW z \in Zeros, StringAt(p, z), NEW k \in 0..19,
           NEW shown \in Seq(0..255), NEW on \in BOOLEAN, on,
           ReadSoFar(p, z, k, shown, on),
           NEW w, w[1] \in 0..255, w[2] \in 0..255,
           Word(p + 2 * k) \subseteq DOMAIN Memory =>
               w[1] = Memory[p + 2 * k] /\ w[2] = Memory[(p + 2 * k) + 1],
           NEW shown1, shown1 = shown \o print_word(w),
           NEW on1 \in BOOLEAN, on1 <=> w[1] # 0
    PROVE  ReadSoFar(p, z, k + 1, shown1, on1)
<1>. DEFINE n == z - p
<1>1. n \in Nat /\ 2 * k \in Nat /\ 2 * (k + 1) = 2 * k + 2 /\ z = p + n
  <2>1. z \in Nat /\ p <= z
    BY PrinterAssumption DEF StringAt, Zeros
  <2>. QED BY <2>1
<1>2. /\ print_word(w) \in Seq(Values) /\ shown \in Seq(Values)
      /\ Bytes(p, n) \in Seq(Values) /\ shown \o <<>> = shown
  BY <1>1, WordShown, Numbers, BytesAre, ConcatEmptySeq
<1>3. CASE 2 * k > n
  <2>1. IsPrefix(Bytes(p, n), shown) /\ n % 2 # 0
    BY <1>1, <1>3 DEF ReadSoFar
  <2>2. IsPrefix(Bytes(p, n), shown1)
    BY <1>2, <2>1, StaysInFront
  <2>3. ~(2 * (k + 1) <= n)
    BY <1>1, <1>3
  <2>. QED BY <2>1, <2>2, <2>3 DEF ReadSoFar
<1>4. CASE 2 * k <= n
  <2>1. shown = Bytes(p, 2 * k)
    BY <1>4 DEF ReadSoFar
  <2>2. w[1] = Memory[p + 2 * k] /\ w[2] = Memory[(p + 2 * k) + 1]
    <3>1. Word(p + 2 * k) \subseteq p..(p + (Least(n, 38) + 8) - 1)
      BY <1>1, <1>4 DEF Word, Least
    <3>2. p..(p + (Least(n, 38) + 8) - 1) \subseteq DOMAIN Memory
      BY DEF StringAt, Mapped
    <3>. QED BY <3>1, <3>2
  <2>3. CASE 2 * k = n
    <3>1. w[1] = 0
      BY <1>1, <2>2, <2>3 DEF Zeros
    <3>2. shown1 = Bytes(p, n)
      BY <1>2, <2>1, <2>3, <3>1, WordShown
    <3>3. IsPrefix(Bytes(p, n), shown1)
      BY <1>2, <3>2, Itself
    <3>4. ~(2 * (k + 1) <= n) /\ 2 * (k + 1) = n + 2 /\ ~on1
      BY <1>1, <2>3, <3>1
    <3>. QED BY <3>2, <3>3, <3>4 DEF ReadSoFar
  <2>4. CASE 2 * k < n
    <3>1. ASSUME NEW y \in DOMAIN Memory, p <= y, y < z PROVE Memory[y] # 0
      <4>1. y \in Nat /\ z \in Nat
        BY PrinterAssumption DEF Zeros
      <4>2. y \in Zeros => y < p \/ y >= z
        BY DEF StringAt
      <4>. QED BY <3>1, <4>1, <4>2 DEF Zeros
    <3>2. p + 2 * k \in DOMAIN Memory /\ (p + 2 * k) + 1 \in DOMAIN Memory
      <4>1. {p + 2 * k, (p + 2 * k) + 1} \subseteq p..(p + (Least(n, 38) + 8) - 1)
        BY <1>1, <2>4 DEF Least
      <4>. QED BY <4>1 DEF StringAt, Mapped
    <3>3. w[1] # 0
      BY <1>1, <2>2, <2>4, <3>1, <3>2
    <3>4. CASE 2 * k + 1 = n
      <4>1. w[2] = 0
        BY <1>1, <2>2, <3>4 DEF Zeros
      <4>2. shown1 = Bytes(p, n)
        BY <1>1, <2>1, <2>2, <3>3, <3>4, <4>1, OneByte, WordShown
      <4>3. IsPrefix(Bytes(p, n), shown1)
        BY <1>2, <4>2, Itself
      <4>4. n % 2 # 0 /\ ~(2 * (k + 1) <= n)
        BY <1>1, <3>4
      <4>. QED BY <4>3, <4>4 DEF ReadSoFar
    <3>5. CASE 2 * k + 1 # n
      <4>0. 2 * k + 2 <= n
        BY <1>1, <2>4, <3>5
      <4>1. 2 * k + 2 <= n /\ w[2] # 0
        <5>1. p <= (p + 2 * k) + 1 /\ (p + 2 * k) + 1 < z
          BY <1>1, <4>0
        <5>. QED BY <2>2, <3>1, <3>2, <4>0, <5>1
      <4>2. shown1 = Bytes(p, 2 * k + 2)
        BY <1>1, <2>1, <2>2, <3>3, <4>1, TwoBytes, WordShown
      <4>. QED BY <1>1, <3>3, <4>1, <4>2 DEF ReadSoFar
    <3>. QED BY <3>4, <3>5
  <2>5. 2 * k = n \/ 2 * k < n
    BY <1>1, <1>4
  <2>. QED BY <2>3, <2>4, <2>5, Zenon
<1>. QED BY <1>1, <1>3, <1>4

\* A text that was read whole is the string, cut after 20 turns.
LEMMA TextIsRight ==
    ASSUME NEW p \in Nat, NEW z \in Zeros, StringAt(p, z), NEW k \in 0..20,
           NEW shown \in Seq(0..255), Len(shown) <= 2 * k, NEW on \in BOOLEAN,
           ReadSoFar(p, z, k, shown, on), ~on \/ k = 20,
           NEW item, item.value = shown, item.dots <=> k = 20
    PROVE  StringIsRight(p, z, item)
<1>. DEFINE n == z - p
<1>1. n \in Nat /\ 2 * k \in Nat
  <2>1. z \in Nat /\ p <= z
    BY PrinterAssumption DEF StringAt, Zeros
  <2>. QED BY <2>1
<1>2. /\ Bytes(p, n) \in Seq(Values) /\ Bytes(p, 40) \in Seq(Values)
      /\ shown \in Seq(Values) /\ Len(shown) \in Nat
  BY <1>1, BytesAre, Numbers
<1>3. Len(shown) <= 40
  BY <1>2
<1>4. CASE 2 * k <= n
  <2>1. k = 20 /\ n >= 40 /\ shown = Bytes(p, 40)
    BY <1>1, <1>4 DEF ReadSoFar
  <2>2. Least(n, 40) = 40
    BY <1>1, <2>1 DEF Least
  <2>3. IsPrefix(Bytes(p, Least(n, 40)), item.value)
    BY <1>2, <2>1, <2>2, Itself
  <2>. QED BY <1>1, <1>3, <2>1, <2>3 DEF StringIsRight
<1>5. CASE 2 * k > n
  <2>1. /\ IsPrefix(Bytes(p, n), shown)
        /\ n % 2 = 0 => ~on /\ 2 * k = n + 2 /\ shown = Bytes(p, n)
    BY <1>1, <1>5 DEF ReadSoFar
  <2>2. Least(n, 40) = n /\ n < 40
    BY <1>1, <1>5 DEF Least
  <2>3. n >= 38 => k = 20
    BY <1>1, <1>5, <2>1
  <2>4. n % 2 = 0 /\ n < 38 => k # 20
    BY <1>1, <2>1
  <2>. QED BY <1>3, <2>1, <2>2, <2>3, <2>4 DEF StringIsRight
<1>. QED BY <1>1, <1>4, <1>5

\* What the loops go by.
LEMMA LoopsRead ==
    ASSUME PlanInv, pc \in {"arg"} \union Looping, todo # <<>>
    PROVE  /\ Argument \in Nat
           /\ Head(todo)[1] = "string" => Argument = call.rdi
           /\ Head(todo)[1] = "buffer" => Argument = call.rsi
           /\ get_param(call, 2) = call.rdx /\ call.rdx \in Nat
<1>. DEFINE plan == disp_syscall(call)
            n == Len(line) + 1
<1>1. /\ Planned(plan) /\ n \in 1..Len(plan)
      /\ Head(todo) = plan[n] /\ plan[n][2] \in 0..5 /\ call \in Calls
  BY NextDue DEF PlanInv
<1>2. /\ plan[n][1] = "string" => n = 1 /\ plan[n][2] = 0
      /\ plan[n][1] = "buffer" => n = 2 /\ plan[n][2] = 1
  <2>1. /\ plan[n][2] = n - 1 \/ plan[n] = <<"open_mode", 3>>
        /\ plan[n][1] = "string" => n = 1
        /\ plan[n][1] = "buffer" => n = 2
    BY <1>1 DEF Planned
  <2>. HIDE DEF plan, n
  <2>. QED BY <2>1
<1>3. Argument = get_param(call, plan[n][2])
  BY <1>1 DEF Argument
<1>. HIDE DEF plan, n
<1>4. /\ get_param(call, 0) = call.rdi /\ get_param(call, 1) = call.rsi
      /\ get_param(call, 2) = call.rdx /\ get_param(call, 2) \in Nat
  BY <1>1, ParamIs DEF get_param
<1>. QED BY <1>1, <1>2, <1>3, <1>4, ParamIs

LEMMA LoopStarts ==
    ASSUME PlanInv, StartReading
    PROVE  LoopInv'
<1>. DEFINE p == Argument
<1>1. /\ s' = p /\ i' = 0 /\ text' = <<>> /\ more' = TRUE /\ Argument' = p
      /\ Reads' = Reads /\ (BufferAt(p))' = BufferAt(p)
      /\ p \in Nat /\ call.rdx \in Nat
  BY LoopsRead DEF StartReading, Due, loop, Argument, Reads, BufferAt, Mapped
<1>. HIDE DEF p
<1>2. Bytes(p, 0) = <<>> /\ Bytes(p, 2 * 0) = <<>>
  BY <1>1, NoBytes
<1>3. s' = p + 2 * i' /\ i' \in 0..20 /\ text' \in Seq(0..255) /\ more' \in BOOLEAN
      /\ Len(text') <= 2 * i'
  BY <1>1
<1>4. ASSUME NEW z \in Zeros, StringAt(p, z)
      PROVE  ReadSoFar(p, z, 0, <<>>, TRUE)
  <2>1. z \in Nat /\ p <= z
    BY <1>4, PrinterAssumption DEF StringAt, Zeros
  <2>2. 2 * 0 <= z - p
    BY <1>1, <2>1
  <2>. QED BY <1>2, <2>2 DEF ReadSoFar
<1>5. i' <= Reads' /\ text' = Bytes(p, 2 * i')
  BY <1>1, <1>2 DEF Reads, Least
<1>. QED BY <1>1, <1>3, <1>4, <1>5 DEF LoopInv

LEMMA StringTurns ==
    ASSUME PlanInv, LoopInv, PeekString
    PROVE  LoopInv'
<1>. DEFINE p == Argument
            w == Peek(s)
<1>. SUFFICES ASSUME alive PROVE LoopInv'
  BY DEF LoopInv, PeekString
<1>1. /\ p \in Nat /\ Argument' = p /\ pc' = "string"
  BY LoopsRead DEF PeekString, PlanInv, Looping, Argument
<1>2. /\ s = p + 2 * i /\ i \in 0..19 /\ text \in Seq(0..255) /\ Len(text) <= 2 * i
      /\ more = TRUE
  BY DEF LoopInv, PeekString, StringGoesOn, Looping
<1>3. /\ s' = s + 2 /\ i' = i + 1 /\ text' = text \o print_word(w)
      /\ more' = (w[1] # 0)
  BY DEF PeekString
<1>4. /\ w[1] \in 0..255 /\ w[2] \in 0..255
      /\ Word(s) \subseteq DOMAIN Memory => w[1] = Memory[s] /\ w[2] = Memory[s + 1]
  BY <1>1, <1>2, PeekIs
<1>. HIDE DEF p, w
<1>5. s' = p + 2 * i' /\ i' \in 0..20
  BY <1>1, <1>2, <1>3
<1>6. text' \in Seq(0..255) /\ Len(text') <= 2 * i' /\ more' \in BOOLEAN
  <2>1. print_word(w) \in Seq(0..255) /\ Len(print_word(w)) \in 0..2
    BY <1>4, WordShown
  <2>2. text' \in Seq(0..255) /\ Len(text') = Len(text) + Len(print_word(w)) /\ Len(text) \in Nat
    BY <1>2, <1>3, <2>1, ConcatProperties, LenProperties
  <2>3. more' \in BOOLEAN
    BY <1>3
  <2>4. Len(text') <= 2 * i'
    <3>1. Len(text) + Len(print_word(w)) <= 2 * i + 2
      <4>. DEFINE m == Len(print_word(w))
                  l == Len(text)
      <4>1. m \in 0..2 /\ l \in Nat /\ l <= 2 * i /\ i \in 0..19
        BY <1>2, <2>1, <2>2
      <4>. HIDE DEF m, l
      <4>2. l + m <= 2 * i + 2
        BY ONLY <4>1
      <4>. QED BY <4>2 DEF l, m
    <3>2. 2 * i' = 2 * i + 2
      BY <1>2, <1>3
    <3>. QED BY <2>2, <3>1, <3>2
  <2>. QED BY <2>2, <2>3, <2>4
<1>7. ASSUME NEW z \in Zeros, StringAt(p, z)
      PROVE  ReadSoFar(p, z, i', text', more')
  <2>1. ReadSoFar(p, z, i, text, TRUE)
    BY <1>2, <1>7 DEF LoopInv, PeekString, p
  <2>2. /\ Word(p + 2 * i) \subseteq DOMAIN Memory =>
              w[1] = Memory[p + 2 * i] /\ w[2] = Memory[(p + 2 * i) + 1]
        /\ more' <=> w[1] # 0
    BY <1>2, <1>3, <1>4
  <2>3. ReadSoFar(p, z, i + 1, text', more')
    BY <1>1, <1>2, <1>3, <1>4, <1>6, <1>7, <2>1, <2>2, Turn
  <2>. QED BY <1>3, <2>3
<1>. QED BY <1>1, <1>5, <1>6, <1>7 DEF LoopInv, p

LEMMA BufferTurns ==
    ASSUME PlanInv, LoopInv, PeekBuffer
    PROVE  LoopInv'
<1>. DEFINE p == Argument
            w == Peek(s)
<1>. SUFFICES ASSUME alive PROVE LoopInv'
  BY DEF LoopInv, PeekBuffer
<1>1. /\ p \in Nat /\ Argument' = p /\ pc' = "buffer" /\ more' = more
      /\ call.rdx \in Nat /\ get_param(call, 2) = call.rdx
      /\ Reads' = Reads /\ (BufferAt(p))' = BufferAt(p)
  BY LoopsRead DEF PeekBuffer, PlanInv, Looping, Argument, Reads, BufferAt, Mapped
<1>2. /\ s = p + 2 * i /\ i \in 0..15 /\ text \in Seq(0..255) /\ more \in BOOLEAN
      /\ i + 1 <= Reads /\ Reads \in 0..16
  <2>1. s = p + 2 * i /\ i \in 0..20 /\ text \in Seq(0..255) /\ more \in BOOLEAN
    BY DEF LoopInv, PeekBuffer, Looping
  <2>2. i < 16 /\ i < call.rdx
    BY <1>1 DEF PeekBuffer, BufferGoesOn
  <2>3. i \in 0..15 /\ i + 1 <= Reads /\ Reads \in 0..16
    <3>1. Reads = IF call.rdx < 16 THEN call.rdx ELSE 16
      BY DEF Reads, Least
    <3>2. call.rdx \in Nat
      BY <1>1
    <3>. DEFINE rdx == call.rdx
    <3>3. rdx \in Nat /\ i \in 0..20 /\ i < 16 /\ i < rdx
      BY <2>1, <2>2, <3>2
    <3>4. Reads = IF rdx < 16 THEN rdx ELSE 16
      BY <3>1
    <3>. HIDE DEF rdx
    <3>5. i \in 0..15 /\ i + 1 <= Reads
      BY <3>3, <3>4
    <3>6. Reads \in 0..16
      BY <3>3, <3>4
    <3>. QED BY <3>5, <3>6
  <2>. QED BY <2>1, <2>3
<1>3. /\ s' = s + 2 /\ i' = i + 1
      /\ text' = IF Negative(w) THEN text ELSE text \o <<w[1], w[2]>>
  BY DEF PeekBuffer
<1>4. /\ w[1] \in 0..255 /\ w[2] \in 0..255
      /\ Word(s) \subseteq DOMAIN Memory =>
           w[1] = Memory[s] /\ w[2] = Memory[s + 1] /\ w[3] = Memory[s + 7]
  BY <1>1, <1>2, PeekIs
<1>. HIDE DEF p, w
<1>5. s' = p + 2 * i' /\ i' \in 0..20 /\ i' <= Reads'
  BY <1>1, <1>2, <1>3
<1>6. text' \in Seq(0..255)
  <2>1. <<w[1], w[2]>> \in Seq(0..255)
    BY <1>4
  <2>. QED BY <1>2, <1>3, <2>1, ConcatProperties
<1>7. ASSUME BufferAt(p)
      PROVE  text' = Bytes(p, 2 * i')
  <2>1. text = Bytes(p, 2 * i)
    BY <1>7 DEF LoopInv, PeekBuffer, p
  <2>2. s..(s + 7) \subseteq p..((p + (2 * Reads + 7)) - 1)
    BY <1>1, <1>2
  <2>3. Word(s) \subseteq DOMAIN Memory
    <3>1. p..((p + (2 * Reads + 7)) - 1) \subseteq DOMAIN Memory
      BY <1>1, <1>2, <1>7 DEF BufferAt, Mapped
    <3>. QED BY <2>2, <3>1 DEF Word
  <2>4. Memory[(p + 2 * i) + 7] <= 127
    <3>1. i \in 0..(Reads - 1)
      BY <1>2
    <3>. QED BY <1>7, <3>1 DEF BufferAt
  <2>5. s + 7 \in DOMAIN Memory
    <3>1. s + 7 \in Word(s)
      BY <1>1, <1>2 DEF Word
    <3>. QED BY <2>3, <3>1
  <2>6. ~Negative(w)
    <3>1. Memory[s + 7] \in 0..255 /\ Memory[s + 7] <= 127 /\ w[3] = Memory[s + 7]
      BY <1>2, <1>4, <2>3, <2>4, <2>5, PrinterAssumption
    <3>. QED BY <3>1 DEF Negative
  <2>7. text' = Bytes(p, 2 * i) \o <<Memory[p + 2 * i], Memory[(p + 2 * i) + 1]>>
    BY <1>2, <1>3, <1>4, <2>1, <2>3, <2>6
  <2>8. 2 * i \in Nat /\ 2 * i' = 2 * i + 2
    BY <1>2, <1>3
  <2>. QED BY <1>1, <2>7, <2>8, TwoBytes
<1>. QED BY <1>1, <1>2, <1>5, <1>6, <1>7 DEF LoopInv, p

LEMMA LoopNext ==
    ASSUME PlanInv, LoopInv, [Next]_vars
    PROVE  LoopInv'
<1>1. CASE pc' \notin Looping \/ ~alive'
  BY <1>1 DEF LoopInv, Looping
<1>2. CASE StartReading
  BY <1>2, LoopStarts
<1>3. CASE PeekString
  BY <1>3, StringTurns
<1>4. CASE PeekBuffer
  BY <1>4, BufferTurns
<1>5. CASE UNCHANGED vars
  BY <1>5 DEF vars, loop, LoopInv, Argument, Reads, BufferAt, Mapped
<1>6. CASE Begin \/ PrintValue \/ PrintNull \/ EndString \/ EndBuffer \/ PrintResult
  <2>1. pc' \in {"arg", "done"}
    BY <1>6 DEF Begin, PrintValue, PrintNull, EndString, EndBuffer, PrintResult, Display
  <2>. QED BY <1>1, <2>1 DEF Looping
<1>7. CASE Killed
  BY <1>1, <1>7 DEF Killed
<1>. QED BY <1>2, <1>3, <1>4, <1>5, <1>6, <1>7 DEF Next, Ftrace

-----------------------------------------------------------------------------
(* What was displayed stays as it was.                                     *)

\* An item displayed leaves the others alone.
LEMMA DisplayShown ==
    ASSUME PlanInv, ShownInv, pc \in {"arg"} \union Looping, todo # <<>>,
           NEW v, NEW d, Display(v, d), call' = call, alive' = alive, alive,
           ASSUME Head(todo)[1] = "string", NEW z \in Zeros, StringAt(Argument, z)
           PROVE  StringIsRight(Argument, z, Item(v, d)),
           ASSUME Head(todo)[1] = "buffer", BufferAt(Argument)
           PROVE  v = Bytes(Argument, 2 * Reads) /\ (d <=> call.rdx >= 16)
    PROVE  ShownInv'
<1>. DEFINE n == Len(line) + 1
            e == Item(v, d)
<1>1. /\ Len(line) \in Nat /\ DOMAIN line = 1..Len(line)
      /\ line' = Append(line, e) /\ DOMAIN line' = 1..n
      /\ \A k \in 1..Len(line) : line'[k] = line[k]
      /\ line'[n] = e
  BY Appended DEF PlanInv, Display
<1>2. e.print = Head(todo)[1] /\ e.value = v /\ e.dots = d
  BY DEF Item
<1>3. /\ Head(todo)[1] = "string" => Argument = call.rdi
      /\ Head(todo)[1] = "buffer" => Argument = call.rsi
  BY LoopsRead
<1>. HIDE DEF e
<1>4. ASSUME NEW k \in DOMAIN line'
      PROVE  k = n \/ (k \in DOMAIN line /\ line'[k] = line[k])
  BY <1>1
<1>5. ASSUME NEW k \in Shown("string")', NEW z \in Zeros, StringAt(call.rdi, z)
      PROVE  StringIsRight(call.rdi, z, line'[k])
  <2>1. CASE k = n
    <3>1. Head(todo)[1] = "string"
      BY <1>1, <1>2, <1>5, <2>1 DEF Shown
    <3>. QED BY <1>1, <1>3, <1>5, <2>1, <3>1 DEF e
  <2>2. CASE k # n
    BY <1>4, <1>5, <2>2 DEF Shown, ShownInv
  <2>. QED BY <2>1, <2>2
<1>6. ASSUME BufferAt(call.rsi), NEW k \in Shown("buffer")'
      PROVE  /\ line'[k].value = Bytes(call.rsi, 2 * Reads)
             /\ line'[k].dots <=> call.rdx >= 16
  <2>1. CASE k = n
    <3>1. Head(todo)[1] = "buffer"
      BY <1>1, <1>2, <1>6, <2>1 DEF Shown
    <3>. QED BY <1>1, <1>2, <1>3, <1>6, <2>1, <3>1
  <2>2. CASE k # n
    BY <1>4, <1>6, <2>2 DEF Shown, ShownInv
  <2>. QED BY <2>1, <2>2
<1>7. Reads' = Reads /\ (BufferAt(call.rsi))' = BufferAt(call.rsi)
  BY DEF Reads, BufferAt, Mapped
<1>. QED BY <1>5, <1>6, <1>7 DEF ShownInv
LEMMA StringEnds ==
    ASSUME PlanInv, LoopInv, ShownInv, EndString, alive
    PROVE  ShownInv'
<1>1. /\ pc = "string" /\ todo # <<>> /\ Head(todo)[1] = "string"
      /\ Display(text, i = 20) /\ call' = call /\ alive' = alive
      /\ i \in 0..20 /\ text \in Seq(0..255) /\ Len(text) <= 2 * i /\ more \in BOOLEAN
      /\ ~more \/ i = 20
  <2>1. /\ pc = "string" /\ Display(text, i = 20) /\ call' = call /\ alive' = alive
        /\ ~(i < 20 /\ more)
    BY DEF EndString, StringGoesOn
  <2>2. /\ i \in 0..20 /\ text \in Seq(0..255) /\ Len(text) <= 2 * i /\ more \in BOOLEAN
    BY <2>1 DEF LoopInv, Looping
  <2>3. todo # <<>> /\ Head(todo)[1] = "string"
    BY <2>1 DEF PlanInv, Looping
  <2>4. ~more \/ i = 20
    BY <2>1, <2>2
  <2>. QED BY <2>1, <2>2, <2>3, <2>4
<1>2. Argument \in Nat
  BY <1>1, LoopsRead DEF Looping
<1>3. ASSUME NEW z \in Zeros, StringAt(Argument, z)
      PROVE  StringIsRight(Argument, z, Item(text, i = 20))
  <2>. DEFINE item == Item(text, i = 20)
  <2>1. item.value = text /\ (item.dots <=> i = 20)
    BY DEF Item
  <2>2. ReadSoFar(Argument, z, i, text, more)
    BY <1>1, <1>3 DEF LoopInv
  <2>. HIDE DEF item
  <2>3. StringIsRight(Argument, z, item)
    BY <1>1, <1>2, <1>3, <2>1, <2>2, TextIsRight
  <2>. QED BY <2>3 DEF item
<1>. QED BY <1>1, <1>3, DisplayShown DEF Looping

LEMMA BufferEnds ==
    ASSUME PlanInv, LoopInv, ShownInv, EndBuffer, alive
    PROVE  ShownInv'
<1>1. /\ pc = "buffer" /\ todo # <<>> /\ Head(todo)[1] = "buffer"
      /\ Display(text, i = 16) /\ call' = call /\ alive' = alive
      /\ i \in 0..20 /\ i <= Reads /\ ~BufferGoesOn
      /\ BufferAt(Argument) => text = Bytes(Argument, 2 * i)
  BY DEF EndBuffer, PlanInv, LoopInv, Looping
<1>2. get_param(call, 2) = call.rdx /\ call.rdx \in Nat
  BY <1>1, LoopsRead DEF Looping, PlanInv
<1>3. i = Reads /\ (i = 16 <=> call.rdx >= 16)
  <2>. DEFINE rdx == call.rdx
  <2>1. Reads = IF rdx < 16 THEN rdx ELSE 16
    BY DEF Reads, Least
  <2>2. rdx \in Nat /\ ~(i < 16 /\ i < rdx)
    BY <1>1, <1>2 DEF BufferGoesOn
  <2>. HIDE DEF rdx
  <2>3. i = Reads /\ (i = 16 <=> rdx >= 16)
    BY <1>1, <2>1, <2>2
  <2>. QED BY <2>3 DEF rdx
<1>4. ASSUME BufferAt(Argument)
      PROVE  text = Bytes(Argument, 2 * Reads) /\ (i = 16 <=> call.rdx >= 16)
  BY <1>1, <1>3, <1>4
<1>. QED BY <1>1, <1>4, DisplayShown DEF Looping

LEMMA ShownNext ==
    ASSUME PlanInv, LoopInv, ShownInv, [Next]_vars
    PROVE  ShownInv'
<1>. SUFFICES ASSUME alive' PROVE ShownInv'
  BY DEF ShownInv
<1>1. alive /\ call' = call
  BY DEF Next, Ftrace, vars, loop, Begin, PrintValue, PrintNull, StartReading,
         PeekString, EndString, PeekBuffer, EndBuffer, PrintResult, Killed, PlanInv
<1>2. Reads' = Reads /\ (BufferAt(call.rsi))' = BufferAt(call.rsi)
  BY <1>1 DEF Reads, BufferAt, Mapped
<1>3. CASE line' = line
  BY <1>1, <1>2, <1>3 DEF ShownInv, Shown
<1>4. CASE PrintValue
  <2>1. /\ pc = "arg" /\ todo # <<>> /\ Head(todo)[1] \notin Looping
        /\ Display(Value(Head(todo)[1], Argument), FALSE)
    BY <1>4 DEF PrintValue, Due, Looping
  <2>. QED BY <1>1, <2>1, DisplayShown DEF Looping
<1>5. CASE PrintNull
  <2>1. /\ pc = "arg" /\ todo # <<>> /\ Head(todo)[1] = "string" /\ Argument = 0
        /\ Display(<<>>, FALSE)
    BY <1>5 DEF PrintNull, Due
  <2>2. ASSUME NEW z \in Zeros
        PROVE  ~StringAt(Argument, z)
    BY <2>1, PrinterAssumption DEF StringAt
  <2>. QED BY <1>1, <2>1, <2>2, DisplayShown
<1>6. CASE EndString
  BY <1>1, <1>6, StringEnds
<1>7. CASE EndBuffer
  BY <1>1, <1>7, BufferEnds
<1>8. CASE PrintResult /\ line' # line
  <2>. DEFINE n == Len(line) + 1
              e == [print |-> ResultPrinter(call.num), param |-> 6,
                    value |-> Value(ResultPrinter(call.num), call.result),
                    dots |-> FALSE]
  <2>1. line' = Append(line, e)
    BY <1>8 DEF PrintResult
  <2>2. e.print \notin Looping
    BY DEF ResultPrinter, Looping
  <2>. HIDE DEF e
  <2>3. /\ DOMAIN line = 1..Len(line) /\ DOMAIN line' = 1..n /\ Len(line) \in Nat
        /\ \A k \in 1..Len(line) : line'[k] = line[k]
        /\ line'[n] = e
    BY <2>1, Appended DEF PlanInv
  <2>4. \A k \in DOMAIN line' : k = n \/ (k \in DOMAIN line /\ line'[k] = line[k])
    BY <2>3
  <2>5. ASSUME NEW print \in Looping, NEW k \in Shown(print)'
        PROVE  k \in Shown(print) /\ line'[k] = line[k]
    BY <2>2, <2>3, <2>4, <2>5 DEF Shown
  <2>. QED BY <1>1, <1>2, <2>5 DEF ShownInv, Looping
<1>9. CASE Begin \/ StartReading \/ PeekString \/ PeekBuffer \/ Killed \/ UNCHANGED vars
  <2>1. line' = line
    BY <1>9 DEF Begin, StartReading, PeekString, PeekBuffer, Killed, vars
  <2>. QED BY <1>3, <2>1
<1>. QED BY <1>3, <1>4, <1>5, <1>6, <1>7, <1>8, <1>9 DEF Next, Ftrace

LEMMA ShownInit == Init => LoopInv /\ ShownInv
  BY DEF Init, LoopInv, Looping, ShownInv, Shown

-----------------------------------------------------------------------------
(* The inductive invariant, and what it says of a finished line.           *)

LEMMA LineInv == Spec => [](PlanInv /\ LoopInv /\ ShownInv)
<1>1. Init => PlanInv /\ LoopInv /\ ShownInv
  BY PlanInit, ShownInit
<1>2. PlanInv /\ LoopInv /\ ShownInv /\ [Next]_vars
        => PlanInv' /\ LoopInv' /\ ShownInv'
  BY PlanNext, LoopNext, ShownNext
<1>. QED BY <1>1, <1>2, PTL DEF Spec

\* The address of a string is the one the kernel took.
LEMMA WhereShown ==
    ASSUME PlanInv
    PROVE  \A k \in Shown("string") : call[Kernel[k]] = call.rdi
<1>. DEFINE plan == disp_syscall(call)
<1>1. Planned(plan)
  BY PlanIs DEF PlanInv
<1>2. ASSUME NEW k \in Shown("string")
      PROVE  call[Kernel[k]] = call.rdi
  <2>1. k \in DOMAIN line /\ line[k].print = "string"
    BY <1>2 DEF Shown
  <2>2. k <= Len(plan) /\ <<line[k].print, line[k].param>> = plan[k]
    BY <2>1 DEF PlanInv, Looping, ResultPrinter
  <2>3. DOMAIN line = 1..Len(line) /\ Len(line) \in Nat
    BY Appended DEF PlanInv
  <2>4. k \in 1..Len(plan) /\ plan[k][1] = "string"
    BY <1>1, <2>1, <2>2, <2>3 DEF Planned
  <2>5. k = 1
    BY <1>1, <2>4 DEF Planned
  <2>. QED BY <2>5 DEF Kernel
<1>. QED BY <1>2

\* A string of the tracee is displayed as it stands there, cut after 40 bytes,
\* with dots from 38 bytes on (print_char_ptr.c).
THEOREM StringsCorrect == Spec => []StringsAreRight
<1>1. PlanInv /\ LoopInv /\ ShownInv => StringsAreRight
  BY WhereShown DEF ShownInv, StringsAreRight, Finished
<1>. QED BY <1>1, LineInv, PTL

\* The buffer of a read is displayed byte for byte, as far as the call asked
\* and 32 bytes at most, then with dots (functions/read.c).
THEOREM BufferCorrect == Spec => []BufferIsShown
<1>1. PlanInv /\ LoopInv /\ ShownInv => BufferIsShown
  BY DEF ShownInv, BufferIsShown, Finished
<1>. QED BY <1>1, LineInv, PTL
====
