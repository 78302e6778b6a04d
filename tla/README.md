# Verification of ftrace

`ftrace` runs a command (`ftrace CMD ARGS`) or attaches to a process
(`ftrace -p PID`), single-steps it with ptrace, prints the calls, returns and
system calls it executes, and writes the graph of its calls to `graph.dot`.
This directory holds TLA+ models of that program, TLC configurations that check
them on small instances, and proofs checked by TLAPS.

Line numbers are those of `srcs/` in the repository.

## 1. Inventory

| Component | Source | State | Operations |
|---|---|---|---|
| Launcher | `main.c` | `PATH`, which `strtok` cuts; the arguments | `main`, `trace_exec`, `current`, `path` |
| Tracing session | `exec.c` (`exec`, `trace_pid`, `trace_son`, `open_dotfile`, `stock_fd`), `catch_signal.c`, `stop_trace.c` | `g_pid`, the status of `waitpid`, two register sets, the static descriptors of `stock_fd`, `print_instruction` and `trace_son` | fork or attach; the step loop; signal handlers; the end |
| Executable check | `load_infos.c`, `parse_elf.c` | the mapped file | `load_infos`, `load_file`, `parse_file`, `check_header` |
| Call graph writer | `exec.c` (`print_instruction`, `format_dotfile`), `list_functions.c` | `first`, `ret`, `list_func`, the text of `graph.dot` | one call per displayed instruction; `push`, `pop`, `get_function` |
| Instruction decoder | `type_instruction.c`, `print_calls.c`, `resolve_sib.c`, `getter_sib.c`, `get_sib.c`, `utils_sib.c`, `get_regs*.c`, `bswap.c` | `g_prefix`; tables | recognise an instruction, compute the target of a call |
| Symbol table | `get_symbols.c` | the list of the program, one per library | `get_symbols`, `get_symbols_lib`, filter, sort |
| Symbol resolver | `resolve_symbols.c`, `list_lib_symbols.c` | the cache of libraries | `resolve_symbol`, `find_header`, `get_lib` |
| Line reader | `get_next_line.c` | what was read beyond the last line, for each descriptor | `get_next_line` |
| Syscall printer | `disp_syscalls.c`, `functions/`, `print/`, `get_params.c` | none | print a system call and its result |
| Syscall table | `nums_syscalls.c` | generated data: names, numbers and types of parameters | none |
| Helpers | `print_spaces.c`, `my_strlen.c`, `wait.c` | none | columns; two functions nothing calls |

How they interact. `main` chooses the mode and hands over to `exec` or
`trace_pid`, which install the handlers and call `trace_son`. That loads the
executable, reads its symbols, then loops: registers, word at `rip`, single
step, wait, registers again, `print_instruction`. `print_instruction` points
stdout at a buffer, lets `getinstruction` print one line into it (decoder, then
symbol resolver or syscall printer), and gives the line to `format_dotfile`.
The resolver reads `/proc/PID/maps` with the line reader and loads libraries
with the symbol table. The handlers share with the rest only `g_pid` and
`stock_fd`'s descriptor.

What is hard. There is one thread, but three sources of events: ftrace itself,
the tracee with the kernel, and signals to either, which may come between any
two system calls. The kernel reports a signal *before* the instruction that was
to be stepped. ptrace requests fail while the tracee runs, or after it died,
and their results are not tested. Much of the state is in statics that outlive
the operation that set them (`first`, `ret`, `list_func`, `save`, `list_lib`,
the leftovers of `get_next_line`). The call graph is inferred from
instructions that are not all recognised.

What makes each part correct:

- session: no executed call is missed, nothing preempted is taken for executed,
  the result shown for a system call is its own unless a signal came before the
  call or the tracee died in it, a begun graph is closed, the command does not
  outlive ftrace and an attached process survives it, and ftrace ends;
- call graph writer: the edges are those of the program's call graph, and the
  text can be read back;
- decoder: what is shown as a call is one, and its address is the processor's;
- line reader: no text is lost or reordered, later lines are whole;
- resolver: a known function is named, from the right file; a file is loaded once;
- symbol table: the list has a terminator and holds the file's functions;
- syscall printer: a string or a buffer is shown from its first byte to its end
  or to the limit, an argument is the one the kernel took, and every line ends;
- launcher: the first executable file of `PATH` is run, a launch that does not
  come to `trace_son` is not reported as a success (one that does is, though the
  file is refused by `load_infos` or the execve fails), and what the command
  inherits is known;
- all of it: `graph.dot` is the call graph of what the program executed.

## 2. Modules

| Module | Models | Kind |
|---|---|---|
| `CallTree` | the dynamic call graph of a program | abstract specification |
| `CallGraph` | `print_instruction`, `format_dotfile`, `list_functions.c` | component, refines `CallTree` |
| `CallGraphProofs` | | theorems about `CallGraph` |
| `Ptrace` | the traced process and the kernel's side of ptrace | environment (external) |
| `TraceSession` | one whole run of ftrace over `Ptrace` | component and composition |
| `TraceSessionProofs` | | theorems about `TraceSession`: how it ends, and what it displays |
| `Launcher` | `main`, `trace_exec`, `current`, `path` | component |
| `Main` | `Launcher`, then `TraceSession` feeding `CallGraph` | composition |
| `MainProofs` | | theorems about `Main` and, in it, `Launcher` |
| `Decoder` | `getinstruction`, `print_call`, `resolve_sib` and their tables, and the x86-64 rules to compare with | algorithm |
| `DecoderProofs` | | theorems about `Decoder` |
| `SyscallPrinter` | `disp_syscall`, `functions/`, `print/`, `get_param`, rows of the table | component |
| `SyscallPrinterProofs` | | theorems about `SyscallPrinter` |
| `LineReader` | `get_next_line` over repeated openings of a file | component |
| `LineReaderProofs` | | theorems about `LineReader` |
| `SymbolTable` | from the sections of an ELF file to the sorted list of symbols | algorithm |
| `SymbolResolver` | `resolve_symbol`, `find_header`, `get_lib`, the cache, over `SymbolTable` | component and composition |
| `SymbolResolverProofs` | | theorems about `SymbolTable` and `SymbolResolver` |
| `Loops` | | induction, for the proofs about loops over lists |
| `MC*` | instances for TLC | |

### CallGraph

One step is one instruction of the traced program and the whole of
`print_instruction` for it. `list_func`, `ret` and `first` are the statics of
the code; `dot` is the text after the header as a sequence of tokens (node, grey
node, arrow, line feed), so that the edges are *read back* from it (`Edges`),
as Graphviz does, and not recorded beside it. `frames` is the program's real
call stack, which ftrace cannot see.

What the program may do that the code does not follow is the constant
`Hazards`: an unrecognised call or return, a return used as a jump, a
recognised instruction that prints nothing before any other, a system call out
of the table (its line becomes the empty string and is pushed as a function), an
execve, a failed `push_function`. Each run and each theorem says which hazards
it allows. `Stem` gives what is left of a line when its last digit is cut,
which happens when the program has no symbol table: `resolve_symbol` returns
before it prints the line feed that `format_dotfile` will remove.

### Ptrace and TraceSession

`pc` names the system call ftrace makes next. Every `ptrace`, `waitpid`,
`open`, `write` and `close` is an action, so signals to ftrace (`Interrupt`),
signals to the tracee (`Send`, `SendKill`) and the tracee's own steps
interleave with them. Handlers run to `exit` from wherever they interrupted and
may be interrupted in turn by another of the three signals. `Die` is the death
of ftrace by a signal it does not catch, or before `catch_signal`.

`Ptrace` holds the kernel's rules that matter: requests fail unless the tracee
is in a stop; a pending signal is reported before the step it preempts; the
signal of a stop is discarded when the tracee is resumed without it; the exit
of the tracer lets the tracee go, with its single-step flag, and with the signal
of a stop nobody waited for. The tracee is a straight line of instructions
`First..Final`, each plain, displayed ("call") or recognised but silent. A
forked child first has to ask to be traced, then to execute the program. A
system call is one instruction too: one that a signal interrupts, and that the
kernel restarts, is not modelled.

`regs` is the place of the instruction read before the step, and `regs_return`
the place at which the registers were read after it: a result that is taken
right behind the instruction is its own, one taken at it is the register before.
`shown` lists what was displayed, each item with both.

`exe` is what `load_infos` will find: a good file, one `check_header` refuses,
one whose tables are out of bounds, or one `mmap` refuses; `LoadFails` adds that
any file may fail to open or to be measured, and asprintf to allocate. Until the
child's execve the file found is ftrace's own (`Examined`). The error codes are
computed as in the code (`Complaint`), which is why a refused file is traced.
What a refusal calls is `stop_son` for a command, and for a process
`detach_process`, which detaches nothing.

### Launcher and Main

A launch is the kind of argument, `PATH` as a sequence of elements, the
variables that are not set and the places where a file of that name may be
executed. `Search` is one turn of the loop of `path`: `strtok` passes over empty
elements and writes a zero behind the one it returns, in the string of the
environment that the command will inherit, so that `inherited` ends with the
first directory. Each way out computes its exit status from lengths, as `main`
returns it (`Returns`).

`Main` composes. When the launcher reaches "session", `TraceSession`'s next-state
relation runs as it is, and the step that ends `print_instruction` also takes
`CallGraph`'s `print_instruction` with the line of the instruction read
(`FormatDotfile`). Instructions have a meaning there (`op`): a call of a
function, a return, a system call. The history variable `tree` is the call tree,
as `CallTree` has it, of what the tracee really executed since ftrace read its
first instruction: each of the tracee's own steps moves it on (`Executed`).
`GraphIsTheProgram` compares the edges read back from `dot` with it, whatever
signals came in between. Instructions that are taken for a call and print nothing
(`push r12`, a `jmp` through the table of symbols) may stand anywhere: they are
"silent" to the session and plain to the tree. What `MainAssumption` leaves
out are the other hazards of `CallGraph`: calls and returns that are not seen, a
ret that is a jump, system calls out of the table, an execve of the tracee, and a
`push_function` that fails. Labels are those graph.dot has, whatever the
resolver made them of, so that a program without symbols is covered if its
labels are as they are displayed there.

### Decoder

A word is eight bytes. Registers have no values: an address is a linear form
(coefficients of registers, and a displacement), so that two equal forms are
equal for any contents of the registers. The tables of the code are functions
of the row's key, with the two rows that read another register than the one
they name. `Target64` and `IsNearCall` are written from the processor's
encoding rules, by the fields mod, rm, scale, index and base. The trick with
`my_bswap` for E8 is its effect: the four bytes after the first, signed.

### SyscallPrinter

`todo` holds the printers that are still to show something, with the number of
their parameter, as the functions of `functions/` list them; `line` is what has
been displayed. Strings and buffers are read word by word from the memory of a
tracee that may be killed between two reads: `PeekString` and `PeekBuffer` are one
`PTRACE_PEEKTEXT` each, of which two bytes are used. Flags are sets of names,
computed from the bits as in the code (`flags & W`, where W is a single bit, is
`Bit`: the flags divided by W are odd). A register that is passed for an int (a
descriptor, a count of `readv`, flags, a protection, a mode) loses its upper half
(`Int32`), and `print_int` and `print_ssize_t` show it with its sign. The widths
are `IntSize` and `WordSize`, 2^32 and 2^64 in the code. The spaces and the
notation of numbers are left out. The table is modelled for the numbers 0 to 21,
which include every call with a printer of its own.

### LineReader, SymbolTable and SymbolResolver

`LineReader` has the buffer and the leftover string, byte by byte, with a small
`BufSize`; `short` says whether `read` may return less than asked for. Only one
descriptor is modelled, because `/proc/PID/maps` gets the same number at each
opening, and the entries of the list are independent. `given` records what was
returned since the opening, with the line feed that ended each line, so that it
can be compared with the file. `NoBuffer`, `NoString` and
`NoLine` are the allocations that may fail, by what is lost: nothing, what was
just read, or the whole leftover.
`SymbolTable` is operators only: one call builds one list from a file nobody
changes. A list is its symbols and the number of cells allocated; the walks stop
at a cell nobody filled (`Terminated`), which exists because the null symbol that
ELF has begin each table (`HasNull`) is not kept. `After` is a loop over a list;
`sort_sym` is the code's two loops with their swaps, the outer one over `Row`.
`SymbolResolver` first loads the program's list, 200 ms after the fork, from
the program or from ftrace's own file if the child has not executed it yet. It
then takes one lookup as a step (the process is stopped). What the
reader left before is summed up in `left`: when a lookup stops at the line it
wanted, or because a read or an allocation failed (`last.read` counts the lines
it had), the beginning of a line will stick to the first line of the next
lookup. Its bounds are then any numbers, or its path is no file's. A line feed
that is left does no harm to the bounds and counts as nothing.
`find_header` reads `Peek` bytes at each address, eight in the code, so that it
fails in the last ones before a gap, and it stops at any bytes that equal the ELF
magic number, those of a mapping's header or others (`Lookalikes`).

## 3. Runs

| Run | Question | Result |
|---|---|---|
| `callgraph_faithful` | Is `graph.dot` the call graph, where every call is seen? | refines `CallTree` |
| `callgraph_lossy` | Do lost calls, false returns and failed pushes make up callers? Does a silent start spoil more than its own arrow? | no |
| `callgraph_hostile` | Can anything break the syntax of edges? | not after a first line was printed |
| `session` | The ten safety properties of a run | hold |
| `session_live` | Does ftrace end with its tracee, and on a caught signal? | yes |
| `session_unsupported` | Is a refused executable left alone? | no: code bug |
| `decoder` | Calls and targets against x86-64 | right, outside `Misread` |
| `decoder_names` | Does a row read the register it names? | no: `[r15]` reads r14, a SIB base `rbx` reads rcx |
| `lines` | What comes out of repeated openings? | nothing lost; only the first line is spoiled; short reads only add line feeds; a failed allocation loses what it was for |
| `resolver` | Are the program's functions and those of libraries named, a file loaded once, every list terminated? | yes, but for a spoiled first line |
| `printer` | Are strings, buffers and arguments shown as they are, and does every line end? | yes, with the exceptions below |
| `main` | From command line to exit status: is the graph the program's, the right file run, failure reported? | yes |

The exceptions are part of what the runs show. `Misread` lists the operands the
decoder gets wrong: `call [r15]`, a SIB base of `rbx`, and a SIB base 101, which
the table takes for "no base" although it is `rbp` or `r13` with a displacement,
or a 32-bit displacement alone, which is not added. `KnownIsNamed` excludes a
lookup for which the spoiled first line took the address, or missed its own, and,
as `MainIsNamed` does, the names of symbols whose value is beyond 32 bits. Values
are cut there (`get_symbols.c:92`) and addresses are not
(`resolve_symbols.c:45,105`): a function at 2^32 or beyond, in the program or
behind the beginning of a library, is not named. `KnownIsNamed` further needs a
header that the search reaches, with no lookalike on the way, and a line of the
map that was read before `get_next_line` failed. `WalksEnd` is about files whose
symbol tables have the null symbol. `StringsAreRight` says nothing of what follows
a string of odd length, whose zero is the second byte of a word and ends nothing;
a string of 38 to 40 bytes is complete and has dots all the same.
`ArgumentsAreTheKernels` says of the fourth place that it shows rcx (the kernel
takes r10), of what is passed for an int that its lower half is shown (the kernel
takes the whole count of `readv`), and nothing of the mode of `open` (taken from
the fourth parameter, and composed so that each group of bits replaces the ones
before), `O_RDONLY` (always displayed, as the test is true of any flags) and
`O_SYNC`, one of whose bits is `O_DSYNC`. `ResultIsFresh` has two exceptions. When
a signal is reported before the instruction that was to be stepped, it is
displayed although it was not executed: for a system call the result is then its
own number, and the call is displayed again at the next turn. When the tracee died
in it, the registers are those of an earlier instruction, and nothing is displayed
after it. `CommandDoesNotOutlive` excepts a SIGTERM that the command gets before
its execve, for which `trace_son` leaves without a step, and allows a command one
instruction after `trace_son` left it. `BegunGraphIsClosed` is for runs that began
with stdin open, `InterruptSparesStopped` for a process that the first signal to
ftrace found stopped (PTRACE_DETACH fails on a running one, whose step then kills
it). `GraphIsTheProgram` is for runs in which no SIGSTOP sent by others makes the
loop display an instruction twice. None of these contradicts a text of the
repository.

Bounds. `callgraph_*`: two or three functions of which two fall together when
their last digit is cut, up to three frames, and texts of 13 to 18 tokens.
`format_dotfile` looks at two flags and the top of the stack, so every
transition occurs within a few tokens; depth three lets a return bring back a
caller that is not the outermost. `session`: four instructions (three for the
liveness runs), with two displayed ones in a row, a silent start and a program
that displays nothing; two signals from others, of each kind, and up to three
handlers nested. One signal reaches every stop of the loop, but it takes a second
one to find the tracee in the stop the first one made: a SIGSTOP, then a SIGKILL
before the step. The loop has no memory beyond one turn except `first` and the
descriptors. `decoder`: all
values of each byte that selects a row, six displacements around the sign
changes. `lines`: a buffer of three, lines shorter, equal and longer, three
openings. `resolver`: addresses up to 12 and values cut at 4, so that addresses,
offsets and values lie beyond that width and below it, with functions in each
file that the cut loses or moves onto others; words of two bytes, one of them all
ones, one lookalike; two files and ftrace's own, sound and damaged (no magic
number, a section out of the file, no symbol table), with local, weak and
untyped entries and aliases out of order; three layouts, loads and reads that
fail at any lookup. `printer`: an int of 2^22 values and a register of 2^25, the
least that hold the flags, and words at their edges, in every place that is an int
or flags; strings of every length around 0, 2
and the limit of 40 bytes, one behind the other without a gap; a buffer with a
negative word; a string in the last bytes of a mapping; lengths around the limit
of 16 words; each flag alone and every value of the three-bit ones. The loops
depend on a string only through the parity of its length and the limit.
`main`: two programs of six instructions (a silent first instruction, then nested
calls with a system call; a start inside a function, and recursion through a
silent jump), which make every shape of edge, with two signals from others, and
launches for each way out. The theorems have none
of these bounds.

The session's runs turn deadlock checking off: a finished session stops, and a
tracee whose tracer is gone may stay stopped. So does `lines`, which ends after
its last opening, `printer`, whose line is finished, and `main`, whose ftrace has
exited. The other runs check it.

Fairness. `FairSpec` of `TraceSession` says that ftrace is scheduled, which the
kernel does for any runnable process, and nothing more: a tracee may be blocked
in a system call for ever. Under it `InterruptEnds` holds. `Terminates` takes
the other half as its premise, `TraceeRuns`: a tracee that can run does; the
program is finite, so this says that the loop adds no waiting of its own.
Neither assumes that a signal is sent, or that waitpid has something to report.
`CallsReturn` and `LineEnds` assume that ftrace, which is running, is scheduled
(`FairSpec` of `LineReader`, `Spec` of `SyscallPrinter`): neither that a read
succeeds, nor that the tracee lives, nor, for `LineEnds`, that the memory ends
anything.

Mutants. Each property has a mutant of the code, defined beside the definition
it replaces, which violates it: a flag not reset, a step not waited for, a
handler that detaches the command instead of killing it, a scale read one bit
too wide, a mapping released under the names that lie in it.

## 4. Proofs

`CallGraphProofs` proves, for any sets of labels, any depth and any length:

- `TypeCorrect`: the type invariant;
- `DotWellFormed`: without a silent start, every arrow of `graph.dot` has a node
  on both sides. `WellFormedDot` is not inductive: an arrow may be added only
  because the text ends in a node or in a fresh source. `ChainInv` adds that the
  chain being whole (`first /\ ~ret`) means the text ends in a node, that it
  never ends in an arrow, and that nothing is written before `first`;
- `OneArrowDangles`: with any hazards, the silent start included, only the arrow
  that begins the text may lack a node in front. It is `WellFormedDot` of the
  text with a node put before it; `DanglingInv` is `ChainInv` for that text, which
  needs no exception for the start, as the added node is what the first arrow
  leaves from;
- `GraphIsCallTree`: with no hazards, `CallGraph` implements `CallTree` under
  the mapping stack = labels of `frames`, calls = edges of the text, leaves =
  grey nodes. It needs `TreeInv`: the code's stack is the program's, and an
  unbroken text ends in the function that executes. The lemmas say which edges
  and grey nodes appending a few tokens adds;
- `StackRemembersActive` and `EdgesLeaveActive`: under the lossy hazards, the
  stack of labels is a subsequence of the program's, and new edges leave
  active functions. `LossyInv` is the invariant.

The assumption is `CallGraphAssumption`, which TLC evaluates in every run of
`MCCallGraph`; labels need not be distinct.

`TraceSessionProofs` proves, for every program of any length, every set of files
`load_infos` may find, and any number of signals to either process:

- `TypeCorrect`: the type invariant. `TypeInv` adds what the control knows: no
  process before the fork, an open graph between `open` and the header, an
  address of the program behind a displayed word, nothing ended before the end;
- `StrayCorrect`: `StrayMeansNoGraph`, from `GraphInv`: `print_instruction` asks
  for `graph.dot` once, and has its descriptor, or the failure, before it writes
  the header or displays anything;
- `ClosedCorrect`: `BegunGraphIsClosed`, from `ClosedInv`: on each way to the end
  (the end of `trace_son`, each place where a handler starts) a brace comes before
  the close, and `stock_fd` has the descriptor before the header is written. It
  needs `GraphInv`, for `trace_son`'s copy is the graph's whenever there is a
  header;
- `GivenUpCorrect`: `GivenUpProcessLives`, from `ArmedInv` (only a step sets the
  flag; what is armed is traced as long as ftrace lives; a SIGTRAP that kills
  comes after ftrace's end) and `GivenUpInv` (without a status nothing was
  stepped);
- `CalmCorrect`: `InterruptSparesStopped`, from `ArmedInv` and `CalmInv`: the
  process stays in the stop it was found in until a handler detaches it, even
  when further signals start the handlers again;
- `OutliveCorrect`: `CommandDoesNotOutlive`, from `ArmedInv` and `OutliveInv`: a
  command that was read is armed, dead, or stopped and about to be stepped; an
  untraced process that is armed dies of its next instruction. One that was never
  read was killed by `stop_son` or a handler, or had the SIGTERM that is excepted.

It goes on with what the session displays:

- `StopInv`, which the others need, is not about the display: when ftrace is about
  to make a request of the loop, the tracee is in the stop that `waitpid` reported
  last, or dead;
- `FreshCorrect`: `ResultIsFresh`, from `FreshInv`. After a step the tracee is right
  behind the instruction read, at it still, or gone. If it is still at it, that is
  the instruction read next; and no call is read from a tracee that is gone, so
  what is displayed with older registers is the last;
- `ExecutedCorrect`: `ShownWasExecuted`, from `PlaceInv`: the word read is where
  the tracee stands until it is stepped, and a stop for a step is past everything
  displayed;
- `SkippedCorrect`: `NothingSkipped`, from `CoverInv`: all before the tracee is
  displayed, but for the instruction that was read, which will be;
- `OrderCorrect`: `ShownInOrder`, from `OrderInv`, which counts: before an
  instruction is displayed again, a stop was stepped over that no other repetition
  has been charged to. The one case without such a stop is a tracee killed in it
  between PTRACE_PEEKTEXT and PTRACE_SINGLESTEP; nothing is displayed after that.

`MainProofs` is about the whole program, for every program, launch, `PATH` and any
number of signals:

- `SessionOfMain`: each step of `Main` is a step of `TraceSession` or leaves it
  alone, so that the theorems above hold of it;
- `SearchCorrect` and `PathIsCut`: `RunsTheFirst` and `Inherits`. `LauncherInv` says
  that the elements taken off `PATH` were tried in vain, and that it was cut the
  first time;
- `StatusCorrect`: `FailureIsReported`, from `LeftInv`: before the session, and
  after a fork or an attachment that failed, no process was touched;
- `GraphCorrect`: `GraphIsTheProgram`. The tracee and the display run one behind
  the other, and `SyncInv` says at each point by how much: what is drawn is
  `tree`, or `tree` with the instruction the tracee stands at, if a signal
  preempted it after it was read, or `tree` without the instruction it is past,
  between the step and `format_dotfile`, unless that instruction is silent.
  `ReadInv` ties the instruction read to the place of the tracee, `LastInv` says
  that nothing is executed unseen when `trace_son` leaves, and `DotInv` is
  `DrawInv` of `CallGraph`. `DrawInv` holds however the program begins: a silent
  first instruction sets `first`, so that the first line displayed gets an arrow
  in front of it, which is no edge, as nothing stands before it. What one
  `print_instruction` does to the edges is not proved again: `MainProofs`
  instantiates `CallGraphProofs` (`P`) and uses its lemmas `NodeDraws` and
  `ReturnDraws`. `StepKinds` sorts the steps by what they mean to the display, so
  that the three invariants have five cases, not twenty-three. The hypothesis
  `NoneAgain` is needed: an instruction displayed twice is drawn twice.

The strengthenings stand at the end of `TraceSession` and of `Main`, under "Why
they hold"; each is an invariant of the instances above as well. The lemmas go
step by step through `Next`: `Moves` reduces it to what can happen to the tracee,
so that its types are shown once. The assumptions are `PtraceAssumption`,
`SessionAssumption`, `LauncherAssumption` and `MainAssumption`, which TLC evaluates
in the runs of `MCTraceSession` and `MCMain`.

`DecoderProofs` proves, for any eight bytes, and so for the encodings no bound of
`decoder` reaches:

- `TypeCorrect`: what is displayed is of one of the kinds, with a form for an
  address. Its invariant, `DecodedInv`, says that the display is what
  `getinstruction` makes of the last word read (`print_call` sets `g_prefix`
  before anything reads it, so that no word depends on those before);
- `CallsCorrect`: `CallsAreCalls`, because the ModRM bytes of the tables are those
  whose middle field is 2;
- `SeenCorrect`: `PlainCallsAreSeen`, the converse, as an action property;
- `TargetCorrect`: `TargetIsRight`, by the fields of the ModRM and SIB bytes
  (`SibTarget`, `RegisterTarget`): outside `Misread`, the sum of registers the code
  computes is the processor's.

`LineReaderProofs` proves, for any alphabet, buffer size and files:

- `TypeCorrect`: the type invariant; no line returned has a line feed in it;
- `NothingLostCorrect`: `NothingLost`, from `LossInv`: a line feed is added only
  behind the end of the file, when nothing else waits in the entry's string, and
  then reading is over; but an empty file may have one more, for the leftover in
  front of it. That nothing waits follows from the file's last character being a
  line feed (`NothingLeft`);
- `OthersCorrect`: `OthersAreWhole`, from the same invariant;
- `LettersCorrect`: `LettersKept`, which is inductive with the types. `Letters` of two
  texts behind one another are the letters of each (`LettersJoin`), so that a line
  feed put anywhere between two reads leaves them alone.

The assumption is `LineReaderAssumption`, evaluated in the run `lines`.

`SyscallPrinterProofs` proves, for any memory of the tracee, any words in its
registers and a death at any point:

- `ArgumentsCorrect`: `ArgumentsAreTheKernels`, from `PlanInv`: what is displayed and
  what is due are together the items of `disp_syscall`, in its order, each with the
  value its printer makes of the register (`ValueSays`). A number with a sign
  stands for the register's lower half (`SignedStands`), which has all the bits of
  flags (`CutBit`, `CutSet`), as an int holds them all (`PrinterAssumption`). The
  rest is one lemma for each table of flags;
- `StringsCorrect` and `BufferCorrect`: `StringsAreRight` and `BufferIsShown`, from
  `LoopInv`, which says what the text is after k reads, and `ShownInv`, which says
  it of the items displayed. For a string `LoopInv` has two cases (`ReadSoFar`): up
  to the zero all that was read is displayed; past it the loop has ended, or the
  zero was the second byte of its word.

The assumption is `PrinterAssumption`, evaluated in the run `printer`.

`SymbolResolverProofs` proves, for any ELF files, memory maps and lookups:

- `SortCorrect`: the two loops of `sort_sym` order any list and keep its symbols,
  from what one exchange (`ExchangeIs`) and one turn of the outer loop (`RowIs`) do.
  With it, `LibIs` says what the list of a file is: the symbols kept of its last
  table, cut to 32 bits, in order, and shorter than its cells if the file has the
  null symbol;
- `TypeCorrect` and `CachedOnceCorrect`: `TypeOK` and `CachedOnce`, from `CacheInv`
  and `ProgramInv`: an entry of the cache is the list of its file, and the names
  displayed are the file's. The invariant holds inside a lookup as well, after each
  line `get_lib` reads (`Gatherable`, `ExamineIs`);
- `WalksEndCorrect` and `MainCorrect`: `WalksEnd` and `MainIsNamed`, from the same
  invariants and `LibIs`. No bound is put on addresses: the width 2^32 stands in the
  property, where the cut loses a function;
- `KnownCorrect`: `KnownIsNamed`, wherever the files are mapped. `HeaderIs` says
  that `find_header` ends at the header of the address's own file, `EarlierMisses`
  that no mapping below it matches, `FirstNamed` what the file's list answers, and
  `KnownByLib` that the lines behind change nothing. The proof showed that
  `KnownIsNamed` must except symbols beyond 32 bits: one of them, lower in the
  order of names, may land on the address of a function. The run's library has one
  now.

The assumptions are `SymbolTableAssumption` and `ResolverAssumption`, evaluated in
the run `resolver`.

`Loops` is for definitions that go through a list (`Letters`, `Only`, `sort_sym`,
`get_lib`), which are recursive functions on 0..n. The library's induction theorems
take an operator as a parameter, which the provers cannot instantiate; here
induction is about a set (`SetInduction`, `TurnInduction`), from the well-foundedness
of the natural numbers. `LoopHistory` gives the states a loop goes through, and
`SameHistory` that there is one such sequence, so that the recursive function is it.

Only model-checked: liveness (`Terminates`, `InterruptEnds`, `CallsReturn`,
`LineEnds`), as the prover handles neither fairness with ENABLED nor well-founded
arguments about it. Every other property of a passing run is a theorem. No module
has a RECURSIVE operator.

## 5. Findings

1. `check_header` prints that a file is not supported, and the file is traced:
   `dprintf(2, "%s", MSG) - sizeof(MSG) + FAILURE` is -2 and the caller tests
   for -1 (`parse_elf.c:13-18`, also `load_infos.c:47`).
2. `call [r15]` is displayed with the word r14 points to (`print_calls.c:56`).
3. A SIB base `rbx` is read from rcx (`resolve_sib.c:56`).

Behaviour met while modelling, which contradicts no text of the repository, is
in the hazards of `PROJECT.json` and in the exceptions of section 3: an
instruction displayed twice around a SIGSTOP, or because the tracee was killed
in a SIGSTOP's stop after its instruction was read, a system call that ends the
process displayed with an old result, one that a signal preempted displayed with
its own number as the result, words cut to an int, functions beyond 2^32 that
lose their names, two closing braces, a step flag left set when
PTRACE_DETACH fails, a stripped program for which nothing is resolved, not even
a library's function, libraries that are loaded again at each lookup as long as
they have no symbols, a command that was searched along `PATH` and inherits
only its first directory.

## 6. Not modelled

- The rows of the system call table after number 21: they are data for the same
  `print_generic`. `print_mmap2` is never reached, as no row has that name.
  Columns, spacing and the notation of numbers are layout.
- `get_symbols_mem`, `free_infos`, `my_wait` and `my_strlen`, which have no
  caller.
- Failed allocations in the symbol lists and their cache: the first leaves no
  list, as a file that cannot be opened does; the second only makes the next
  lookup load the file again.
- A first `waitpid` that fails (`SIGCHLD` ignored, and the child dead before it
  was traced), job control of an attached process that is already stopped,
  threads and children of the tracee (ftrace does not follow them), and the C
  library's state inside handlers.

## 7. Plan

Done, in this order: `CallTree`, `CallGraph`, `CallGraphProofs`, `Ptrace`,
`TraceSession`, `Decoder`, `LineReader`, `SymbolResolver`, `SymbolTable`,
`SyscallPrinter`, `Launcher`, `Main`, `TraceSessionProofs`, `DecoderProofs`,
`MainProofs`, `LineReaderProofs`, `SyscallPrinterProofs`, `Loops`,
`SymbolResolverProofs`. What would be worth doing next:

1. `SymbolResolver` over `LineReader` in the place of `left`, if the state space
   of the two together can be kept small;
2. a tracee with threads, which ftrace does not follow.
