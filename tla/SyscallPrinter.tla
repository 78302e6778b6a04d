--------------------------- MODULE SyscallPrinter ---------------------------
(***************************************************************************)
(* How one system call is displayed: disp_syscall, the printers of         *)
(* functions/ and print/, get_param, and the table of nums_syscalls.c.     *)
(*                                                                         *)
(* The registers were read before the call and the result after it; the    *)
(* memory is read while the line is written, two bytes per PTRACE_PEEKTEXT,*)
(* from a tracee that is stopped after the call and may be killed between  *)
(* any two of these reads.  Spaces, separators and the notation of numbers *)
(* are left out: line is the sequence of the things displayed.             *)
(***************************************************************************)
EXTENDS Integers, Sequences, FiniteSets, SequencesExt

CONSTANTS
    Calls,          \* the calls that may be made
    Memory,         \* the bytes of the tracee, by address
    IntSize,        \* how many values an int has, 2^32
    WordSize        \* how many a register has, 2^64

\* A call: its number, the registers that carry arguments, and its result.
IsCall(c) ==
    /\ DOMAIN c = {"num", "rdi", "rsi", "rdx", "r10", "r8", "r9", "rcx", "result"}
    /\ \A r \in DOMAIN c : c[r] \in 0..(WordSize - 1)

\* An int holds the bits of all flags and its sign.
ASSUME PrinterAssumption ==
    /\ IntSize \in Nat \ {0} /\ IntSize % (2 * 2097152) = 0
    /\ WordSize \in Nat \ {0} /\ WordSize % 2 = 0
    /\ \A c \in Calls : IsCall(c)
    /\ \A a \in DOMAIN Memory : a \in Nat \ {0} /\ Memory[a] \in 0..255

VARIABLES
    call,           \* the call displayed
    alive,          \* the tracee was not killed
    todo,           \* what remains to be displayed: a printer, and which parameter
    line,           \* what was displayed
    pc,             \* "begin", "arg", "string", "buffer" or "done"
    s, i,           \* the pointer and the counter of a loop of reads
    text,           \* the bytes the loop displayed
    more            \* the last word did not begin with a zero

vars == <<call, alive, todo, line, pc, s, i, text, more>>
loop == <<s, i, text, more>>

-----------------------------------------------------------------------------
(* get_params.c: regs->rcx, where the kernel takes r10.                    *)

Kernel == <<"rdi", "rsi", "rdx", "r10", "r8", "r9">>

\* Mutant: the order of a function call on another system.
get_paramSwapped(c, n) == c[<<"rsi", "rdi", "rdx", "rcx", "r8", "r9">>[n + 1]]

get_param(c, n) == c[<<"rdi", "rsi", "rdx", "rcx", "r8", "r9">>[n + 1]]

-----------------------------------------------------------------------------
(* The first 22 rows of g_syscalls: the types of the parameters.  A system *)
(* call that is not described has six of type 0.                           *)

Six0 == <<"0", "0", "0", "0", "0", "0">>

g_syscalls == [n \in 0..21 |->
    CASE n = 0 -> <<"INT", "VOID_P", "SIZE_T">>                 \* read
      [] n = 1 -> <<"INT", "CONST_VOID_P", "SIZE_T">>           \* write
      [] n = 2 -> <<"CONST_CHAR_P", "INT">>                     \* open
      [] n = 3 -> <<"INT">>                                     \* close
      [] n = 4 -> <<"CONST_CHAR_P", "STRUCT_P">>                \* stat
      [] n = 5 -> <<"INT", "STRUCT_STAT_P">>                    \* fstat
      [] n = 6 -> <<"CONST_CHAR_P", "STRUCT_STAT_P">>           \* lstat
      [] n = 7 -> <<"STRUCT_FD_P", "NFDS_T", "INT">>            \* poll
      [] n = 8 -> <<"INT", "OFF_T", "INT">>                     \* lseek
      [] n = 9 -> <<"VOID_P", "SIZE_T", "INT", "INT", "INT", "OFF_T">> \* mmap
      [] n = 10 -> <<"VOID_P", "SIZE_T", "INT">>                \* mprotect
      [] n = 11 -> <<"VOID_P", "SIZE_T">>                       \* munmap
      [] n = 12 -> <<"VOID_P">>                                 \* brk
      [] n = 16 -> <<"INT", "INT", "VARGS">>                    \* ioctl
      [] n \in {19, 20} -> <<"INT", "CONST_STRUCT_IOVEC_P", "INT">> \* readv, writev
      [] n = 21 -> <<"CONST_CHAR_P", "INT">>                    \* access
      [] OTHER -> Six0]                         \* rt_sig..., pread64, pwrite64

-----------------------------------------------------------------------------
(* Which printer shows which parameter.                                    *)

\* g_functions_print of print_generic.c.
g_functions_print(type) ==
    CASE type = "INT" -> "int"
      [] type = "SIZE_T" -> "size_t"
      [] type = "OFF_T" -> "off_t"
      [] type \in {"VOID_P", "CONST_VOID_P", "PVOID"} -> "void_ptr"
      [] type \in {"PCHAR", "CHAR_P", "CONST_CHAR_P", "CHAR_P_CONST",
                   "UNSIGNED_CHAR_P"} -> "string"
      [] OTHER -> "hex"

Shows(printers) == [k \in DOMAIN printers |-> <<printers[k], k - 1>>]

print_generic(c) ==
    LET types == g_syscalls[c.num]
    IN Shows([k \in DOMAIN types |-> g_functions_print(types[k])])

\* The bit of weight w of a number.
Bit(n, w) == (n \div w) % 2 = 1

O_CREAT == 64

print_access(c) == Shows(<<"string", "access_mode">>)
print_read(c) == Shows(<<"int", "buffer", "size_t">>)
print_mprotect(c) == Shows(<<"void_ptr", "size_t", "prot">>)
print_mmap(c) == Shows(<<"void_ptr", "size_t", "prot", "map_flags", "int", "off_t">>)

\* The mode is looked for in the fourth parameter; open has it in the third.
print_open(c) ==
    Shows(<<"string", "open_flags">>)
        \o (IF Bit(get_param(c, 1), O_CREAT) THEN <<<<"open_mode", 3>>>> ELSE <<>>)

disp_syscall(c) ==
    CASE c.num \notin DOMAIN g_syscalls -> <<>>
      [] c.num = 0 -> print_read(c)
      [] c.num = 2 -> print_open(c)
      [] c.num = 9 -> print_mmap(c)
      [] c.num = 10 -> print_mprotect(c)
      [] c.num = 21 -> print_access(c)
      [] OTHER -> print_generic(c)

-----------------------------------------------------------------------------
(* Flags, with the weights of their bits, and modes.                       *)

OpenFlags == [O_APPEND |-> {1024}, O_ASYNC |-> {8192}, O_CLOEXEC |-> {524288},
    O_CREAT |-> {64}, O_DIRECTORY |-> {65536}, O_DSYNC |-> {4096}, O_EXCL |-> {128},
    O_NOCTTY |-> {256}, O_NOFOLLOW |-> {131072}, O_NONBLOCK |-> {2048},
    O_SYNC |-> {4096, 1048576}, O_TRUNC |-> {512}]

MapFlags == [MAP_FIXED |-> {16}, MAP_32BIT |-> {64}, MAP_ANONYMOUS |-> {32},
    MAP_DENYWRITE |-> {2048}, MAP_GROWSDOWN |-> {256}, MAP_HUGETLB |-> {262144},
    MAP_LOCKED |-> {8192}, MAP_NONBLOCK |-> {65536}, MAP_NORESERVE |-> {16384},
    MAP_POPULATE |-> {32768}, MAP_STACK |-> {131072}]

Prots == [PROT_READ |-> {1}, PROT_WRITE |-> {2}, PROT_EXEC |-> {4}]
AccessModes == [R_OK |-> {4}, W_OK |-> {2}, X_OK |-> {1}]

\* The names displayed: those of which some bit is set.
Names(flags, table) == {f \in DOMAIN table : \E w \in table[f] : Bit(flags, w)}

\* "(flags & O_RDONLY) == 0" is true of all flags.
print_open_flags(flags) == {"O_RDONLY"} \union Names(flags, OpenFlags)

print_prot(prot) == IF prot = 0 THEN {"PROT_NONE"} ELSE Names(prot, Prots)
print_access_mode(mode) == IF mode = 0 THEN {"F_OK"} ELSE Names(mode, AccessModes)
print_map_flags(flags) ==
    {IF Bit(flags, 2) THEN "MAP_PRIVATE" ELSE "MAP_SHARED"}
        \union Names(flags, MapFlags)

\* The number displayed in decimal: each group that has a bit set replaces the
\* ones before, beginning with all its bits.
print_open_mode(mode) ==
    LET user == (mode \div 64) % 8
        group == (mode \div 8) % 8
        others == mode % 8
    IN IF others # 0 THEN 7 + others
       ELSE IF group # 0 THEN 10 * (7 + group)
       ELSE IF user # 0 THEN 100 * (7 + user) ELSE 0

\* A register passed for an int: its lower half.  Printed, it has a sign.
Int32(value) == value % IntSize
Signed(value, size) == IF value < size \div 2 THEN value ELSE value - size

print_int(value) == Signed(Int32(value), IntSize)
print_ssize_t(value) == Signed(value, WordSize)

Value(print, value) ==
    CASE print = "int" -> print_int(value)
      [] print = "ssize_t" -> print_ssize_t(value)
      [] print = "prot" -> print_prot(Int32(value))
      [] print = "access_mode" -> print_access_mode(Int32(value))
      [] print = "map_flags" -> print_map_flags(Int32(value))
      [] print = "open_flags" -> print_open_flags(Int32(value))
      [] print = "open_mode" -> print_open_mode(Int32(value))
      [] OTHER -> value

-----------------------------------------------------------------------------
(* PTRACE_PEEKTEXT: the eight bytes from an address on, or -1 when one of  *)
(* them is not mapped or the tracee is gone.  The first two are used, and  *)
(* by read.c the last, which holds the sign.                               *)

Word(a) == a..(a + 7)
Peek(a) ==
    IF alive /\ Word(a) \subseteq DOMAIN Memory
    THEN <<Memory[a], Memory[a + 1], Memory[a + 7]>>
    ELSE <<255, 255, 255>>
Negative(w) == w[3] > 127

-----------------------------------------------------------------------------
Init ==
    /\ call \in Calls
    /\ alive = TRUE
    /\ todo = <<>> /\ line = <<>> /\ pc = "begin"
    /\ s = 0 /\ i = 0 /\ text = <<>> /\ more = TRUE

Begin ==
    /\ pc = "begin"
    /\ todo' = disp_syscall(call)
    /\ pc' = "arg"
    /\ UNCHANGED <<call, alive, line, loop>>

Item(value, dots) ==
    [print |-> Head(todo)[1], param |-> Head(todo)[2], value |-> value, dots |-> dots]

\* The item is displayed and the next one is due.
Display(value, dots) ==
    /\ line' = Append(line, Item(value, dots))
    /\ todo' = Tail(todo)
    /\ pc' = "arg"

Argument == get_param(call, Head(todo)[2])
Due(printers) == pc = "arg" /\ todo # <<>> /\ Head(todo)[1] \in printers

PrintValue ==
    /\ pc = "arg" /\ todo # <<>> /\ ~Due({"string", "buffer"})
    /\ Display(Value(Head(todo)[1], Argument), FALSE)
    /\ UNCHANGED <<call, alive, loop>>

\* print_char_ptr shows nothing for a null pointer.
PrintNull ==
    /\ Due({"string"}) /\ Argument = 0
    /\ Display(<<>>, FALSE)
    /\ UNCHANGED <<call, alive, loop>>

StartReading ==
    /\ Due({"string", "buffer"})
    /\ Due({"string"}) => Argument # 0
    /\ pc' = Head(todo)[1]
    /\ s' = Argument /\ i' = 0 /\ text' = <<>> /\ more' = TRUE
    /\ UNCHANGED <<call, alive, todo, line>>

\* print_char_ptr: the second byte is left out when it is zero, but does not
\* end the loop.
StringGoesOn == i < 20 /\ more

print_word(w) ==
    IF w[1] = 0 THEN <<>> ELSE IF w[2] = 0 THEN <<w[1]>> ELSE <<w[1], w[2]>>

\* Mutant: the pointer moves on by a whole word.
PeekStringWord ==
    /\ pc = "string" /\ StringGoesOn
    /\ LET w == Peek(s)
       IN /\ text' = text \o print_word(w)
          /\ more' = (w[1] # 0)
    /\ s' = s + 8 /\ i' = i + 1
    /\ UNCHANGED <<call, alive, todo, line, pc>>

PeekString ==
    /\ pc = "string" /\ StringGoesOn
    /\ LET w == Peek(s)
       IN /\ text' = text \o print_word(w)
          /\ more' = (w[1] # 0)
    /\ s' = s + 2 /\ i' = i + 1
    /\ UNCHANGED <<call, alive, todo, line, pc>>

EndString ==
    /\ pc = "string" /\ ~StringGoesOn
    /\ Display(text, i = 20)
    /\ UNCHANGED <<call, alive, loop>>

\* Mutant: the count is not looked at.
BufferGoesOnAlways == i < 16

\* print_buf: as many reads as the call asked for bytes, two bytes at a time.
BufferGoesOn == i < 16 /\ i < get_param(call, 2)

\* Mutant: a word that is skipped is read again.
PeekBufferAgain ==
    /\ pc = "buffer" /\ BufferGoesOn
    /\ LET w == Peek(s)
       IN IF Negative(w) THEN UNCHANGED loop
          ELSE /\ text' = text \o <<w[1], w[2]>>
               /\ s' = s + 2 /\ i' = i + 1 /\ UNCHANGED more
    /\ UNCHANGED <<call, alive, todo, line, pc>>

PeekBuffer ==
    /\ pc = "buffer" /\ BufferGoesOn
    /\ LET w == Peek(s)
       IN text' = IF Negative(w) THEN text ELSE text \o <<w[1], w[2]>>
    /\ s' = s + 2 /\ i' = i + 1
    /\ UNCHANGED <<call, alive, todo, line, pc, more>>

EndBuffer ==
    /\ pc = "buffer" /\ ~BufferGoesOn
    /\ Display(text, i = 16)
    /\ UNCHANGED <<call, alive, loop>>

\* The result ends the line; a call out of the table has none.
ResultPrinter(num) ==
    CASE num \in {2, 10, 21} -> "int" [] num = 0 -> "ssize_t"
      [] num = 9 -> "void_ptr" [] OTHER -> "hex"

PrintResult ==
    /\ pc = "arg" /\ todo = <<>>
    /\ line' = IF call.num \notin DOMAIN g_syscalls THEN line
               ELSE Append(line, [print |-> ResultPrinter(call.num), param |-> 6,
                                  value |-> Value(ResultPrinter(call.num), call.result),
                                  dots |-> FALSE])
    /\ pc' = "done"
    /\ UNCHANGED <<call, alive, todo, loop>>

Killed ==
    /\ alive /\ pc # "done"
    /\ alive' = FALSE
    /\ UNCHANGED <<call, todo, line, pc, loop>>

Ftrace ==
    \/ Begin \/ PrintValue \/ PrintNull \/ StartReading
    \/ PeekString \/ EndString \/ PeekBuffer \/ EndBuffer \/ PrintResult

Next == Ftrace \/ Killed

Spec == Init /\ [][Next]_vars /\ WF_vars(Ftrace)

-----------------------------------------------------------------------------
(* Properties.                                                             *)

Least(a, b) == IF a < b THEN a ELSE b
Bytes(p, n) == [k \in 1..n |-> Memory[p + k - 1]]
Mapped(p, n) == p..(p + n - 1) \subseteq DOMAIN Memory
Zeros == {a \in DOMAIN Memory : Memory[a] = 0}

\* A finished line whose tracee lived as long as it was written.
Finished == pc = "done" /\ alive
Shown(print) == {k \in DOMAIN line : line[k].print = print}

\* A string of the tracee at p, whose zero is at z, of which every word that is
\* read is mapped: there are 20 of them, or as many as it takes to the zero.
StringAt(p, z) ==
    /\ p \in DOMAIN Memory /\ p <= z
    /\ \A y \in Zeros : y < p \/ y >= z
    /\ Mapped(p, Least(z - p, 38) + 8)

StringIsRight(p, z, item) ==
    LET n == z - p
    IN /\ IsPrefix(Bytes(p, Least(n, 40)), item.value)
       /\ n >= 38 => item.dots /\ Len(item.value) <= 40
       /\ n % 2 = 0 /\ n < 38 => item.value = Bytes(p, n) /\ ~item.dots

\* The text displayed for a string of the tracee begins with that string, cut
\* after 40 bytes, and is followed by dots if the string has 38 bytes or more:
\* the loop ends by its count though those of 38 to 40 bytes are complete.  One
\* of even length that is shorter is displayed to the byte and without.  One of
\* odd length may be followed by what lies behind it: its zero is the second byte
\* of a word, which ends nothing.  It takes eight mapped bytes at each address
\* read.
StringsAreRight ==
    Finished => \A k \in Shown("string"), z \in Zeros :
        StringAt(call[Kernel[k]], z) => StringIsRight(call[Kernel[k]], z, line[k])

Reads == Least(call.rdx, 16)

BufferAt(p) ==
    /\ Mapped(p, 2 * Reads + 7)
    /\ \A j \in 0..(Reads - 1) : Memory[p + 2 * j + 7] <= 127

\* The bytes a read asked for are displayed, up to 32 and then with dots, and
\* no more than as many after them, if they are mapped and no word of them is
\* negative: no byte is lost between two words or taken from elsewhere.
BufferIsShown ==
    Finished /\ BufferAt(call.rsi) => \A k \in Shown("buffer") :
        /\ line[k].value = Bytes(call.rsi, 2 * Reads)
        /\ line[k].dots <=> call.rdx >= 16

\* The flags whose bits are all set.
Set(flags, table) == {f \in DOMAIN table : \A w \in table[f] : Bit(flags, w)}

\* The number with a sign that stands for n.
StandsFor(value, n, size) ==
    /\ value \in -(size \div 2)..(size \div 2 - 1)
    /\ (n - value) % size = 0

\* The value taken is what the value displayed says.
Says(print, value, taken) ==
    /\ print = "open_flags" =>
         value \ {"O_RDONLY", "O_SYNC"} = Set(taken, OpenFlags) \ {"O_SYNC"}
    /\ print = "map_flags" =>
         /\ value \ {"MAP_PRIVATE", "MAP_SHARED"} = Set(taken, MapFlags)
         /\ "MAP_PRIVATE" \in value <=> "MAP_SHARED" \notin value
    /\ print = "prot" =>
         /\ value \ {"PROT_NONE"} = Set(taken, Prots)
         /\ "PROT_NONE" \in value <=> Int32(taken) = 0
    /\ print = "access_mode" =>
         /\ value \ {"F_OK"} = Set(taken, AccessModes)
         /\ "F_OK" \in value <=> Int32(taken) = 0
    /\ print = "int" => StandsFor(value, taken, IntSize)
    /\ print = "ssize_t" => StandsFor(value, taken, WordSize)
    /\ print \in {"size_t", "off_t", "void_ptr", "hex"} => value = taken

\* What is displayed in the place of the kernel's n-th argument is what its
\* register held, and the result is what rax held: pointers and sizes in full,
\* what the code takes for an int by its lower 32 bits alone and with its sign
\* (readv's count, which the kernel takes in full, among them), flags by the
\* names of the bits that are set, no protection and no mode if the lower bits
\* are 0.  The fourth place shows rcx, which is the kernel's argument only if
\* r10 is the same; nothing is claimed of open's mode, which is looked for in
\* that fourth register too, of O_RDONLY, and of O_SYNC, which contains O_DSYNC.
ArgumentsAreTheKernels ==
    pc = "done" => \A k \in DOMAIN line :
        Says(line[k].print, line[k].value,
             IF line[k].param = 6 THEN call.result
             ELSE IF k = 4 THEN call.rcx ELSE call[Kernel[k]])

\* Every line ends, whatever the tracee's memory holds and whenever it dies:
\* the loops of reads do not depend on a read that succeeds.
LineEnds == <>(pc = "done")

-----------------------------------------------------------------------------
(* Why they hold.                                                          *)

Looping == {"string", "buffer"}

\* What is displayed and what is due are together the items of disp_syscall, in
\* its order, and behind them the result.
PlanInv ==
    LET plan == disp_syscall(call)
    IN /\ call \in Calls /\ line \in Seq(ToSet(line)) /\ alive \in BOOLEAN
       /\ pc \in {"begin", "arg", "done"} \union Looping
       /\ pc = "begin" => line = <<>>
       /\ pc \in {"arg"} \union Looping =>
            /\ Len(line) <= Len(plan)
            /\ todo = SubSeq(plan, Len(line) + 1, Len(plan))
       /\ pc \in Looping => todo # <<>> /\ Head(todo)[1] = pc
       /\ \A k \in DOMAIN line :
            IF k <= Len(plan)
            THEN /\ <<line[k].print, line[k].param>> = plan[k]
                 /\ line[k].print \notin Looping =>
                      line[k].value = Value(line[k].print, get_param(call, line[k].param))
            ELSE /\ line[k].param = 6 /\ line[k].print = ResultPrinter(call.num)
                 /\ line[k].value = Value(line[k].print, call.result)

\* After k turns of the loop for the string at p: up to its zero, at z, all that
\* was read is in the text; past it the loop ended, or the zero was second in
\* its word.
ReadSoFar(p, z, k, shown, on) ==
    LET n == z - p
    IN IF 2 * k <= n THEN on /\ shown = Bytes(p, 2 * k)
       ELSE /\ IsPrefix(Bytes(p, n), shown)
            /\ n % 2 = 0 => ~on /\ 2 * k = n + 2 /\ shown = Bytes(p, n)

LoopInv ==
    /\ alive /\ pc \in Looping =>
         s = Argument + 2 * i /\ i \in 0..20 /\ text \in Seq(0..255) /\ more \in BOOLEAN
    /\ alive /\ pc = "string" =>
         /\ Len(text) <= 2 * i
         /\ \A z \in Zeros :
              StringAt(Argument, z) => ReadSoFar(Argument, z, i, text, more)
    /\ alive /\ pc = "buffer" =>
         i <= Reads /\ (BufferAt(Argument) => text = Bytes(Argument, 2 * i))

ShownInv ==
    alive =>
        /\ \A k \in Shown("string"), z \in Zeros :
             StringAt(call.rdi, z) => StringIsRight(call.rdi, z, line[k])
        /\ BufferAt(call.rsi) => \A k \in Shown("buffer") :
             /\ line[k].value = Bytes(call.rsi, 2 * Reads)
             /\ line[k].dots <=> call.rdx >= 16
=============================================================================
