-------------------------------- MODULE Main --------------------------------
(***************************************************************************)
(* The whole of ftrace: Launcher decides what is traced, TraceSession      *)
(* traces it, and CallGraph writes graph.dot, one instruction at a time,   *)
(* as trace_son displays them.                                             *)
(*                                                                         *)
(* Here the program's instructions have their meaning: op says which       *)
(* function an instruction calls, or that it returns or makes a system     *)
(* call.  They are executed by the tracee and displayed by ftrace at       *)
(* different times, with the signals of TraceSession in between.           *)
(***************************************************************************)
EXTENDS TraceSession, Launcher

CONSTANTS
    Funcs,          \* the labels of functions, as graph.dot has them
    Syscalls, Unk, Blank,   \* as in CallGraph
    op              \* op[program][p]: the instruction at p of a program

Ops == [do : {"call"}, label : Funcs] \union [do : {"syscall"}, label : Syscalls]
    \union [do : {"return", "plain"}, label : {Blank}]

\* Every instruction is recognised for what it is.  Many a one is taken for a
\* call and prints nothing (push r12, jmp through the table of symbols): it is
\* "silent" to TraceSession, and plain here.  What this leaves out is what
\* CallGraph has as its other hazards: calls and returns that are not seen, a
\* ret that is a jump, system calls that are not in the table, an execve, and
\* functions that are not pushed for want of memory.
ASSUME MainAssumption ==
    \A prog \in Programs : \A p \in First..Final :
        op[prog][p] \in Ops /\ (op[prog][p].do = "plain" <=> prog[p] # "call")

VARIABLES
    list_func, ret, \* as in CallGraph
    dot,            \* what was written to the descriptor of graph.dot
    tree            \* the call tree of what the tracee executed since the
                    \* first instruction ftrace read: no variable of ftrace's

format_dotfile == <<list_func, ret, dot>>
session == <<tracee, file, read, fixed, ends, pc>>
all == <<session, launcher, format_dotfile, tree>>

G == INSTANCE CallGraph WITH
    Stems <- Funcs, HasSymbols <- TRUE, Stem <- [f \in Funcs |-> f], Hazards <- {},
    MaxDepth <- 0, MaxTokens <- 0, frames <- <<>>

-----------------------------------------------------------------------------
(* The call tree of a program, as CallTree has it: the labels of the       *)
(* active functions and the edges.                                         *)

NoTree == [stack |-> <<>>, edges |-> {}, begun |-> FALSE]

Event(t, instr) ==
    LET caller == IF t.stack = <<>> THEN Unk ELSE Head(t.stack)
        linked == IF t.begun THEN t.edges \union {<<caller, instr.label>>}
                  ELSE t.edges
    IN CASE instr.do = "call" ->
              [stack |-> Cons(instr.label, t.stack), edges |-> linked,
               begun |-> TRUE]
         [] instr.do = "syscall" ->
              [stack |-> t.stack, edges |-> linked, begun |-> TRUE]
         [] instr.do = "return" ->
              [stack |-> IF t.stack = <<>> THEN t.stack ELSE Tail(t.stack),
               edges |-> t.edges, begun |-> TRUE]
         [] instr.do = "plain" -> t

\* What executing the instruction the tracee stands at makes of a tree.
After(t) == Event(t, op[program][at])

Executed == start # 0 /\ at' # at

-----------------------------------------------------------------------------
MainInit ==
    /\ Init /\ LaunchInit
    /\ mode = IF launch.arg = "-p pid" THEN "pid" ELSE "exec"
    /\ list_func = <<>> /\ ret = FALSE /\ dot = <<>>
    /\ tree = NoTree

Line(instr) ==
    CASE instr.do = "call" -> G!CallLine(instr.label)
      [] instr.do = "syscall" -> G!SyscallLine(instr.label)
      [] instr.do = "return" -> G!ReturnLine

\* The end of print_instruction is the one moment format_dotfile may run.
Displays == pc = "format" /\ pc' = "test"

FormatDotfile ==
    IF Displays
    THEN IF word = "call" THEN G!print_instruction(Line(op[program][regs]), TRUE)
         ELSE G!print_nothing
    ELSE UNCHANGED format_dotfile

Session ==
    /\ step = "session"
    /\ Next
    /\ FormatDotfile
    /\ tree' = IF Executed THEN After(tree) ELSE tree
    /\ UNCHANGED launcher

\* What main returns after exec or trace_pid: the result of trace_son is not
\* looked at, but a fork or an attachment that failed is reported.
Leave ==
    /\ step = "session" /\ Over /\ ended # "uncaught"
    /\ Exit(CASE ended = "return" -> 0
              [] ended = "failed" -> Returns(0)
              [] ended = "handler" -> FAILURE)
    /\ UNCHANGED <<session, format_dotfile, tree>>

MainNext ==
    \/ Launch /\ UNCHANGED <<session, format_dotfile, tree>>
    \/ Session \/ Leave

MainSpec == MainInit /\ [][MainNext]_all

-----------------------------------------------------------------------------
(* Properties.                                                             *)

\* No instruction was displayed twice.
NoneAgain == \A i \in 1..(Len(shown) - 1) : shown[i].at # shown[i + 1].at

\* graph.dot is the call graph of what the program executed, from the first
\* instruction ftrace saw to where it stands whenever the loop comes round and
\* when it ends; the instruction of a tracee that died, or was about to take a
\* signal, may be drawn without having been executed.  It holds whatever
\* signals come, as long as no SIGSTOP to the tracee makes trace_son display
\* an instruction twice.
GraphIsTheProgram ==
    graph # "none" /\ start # 0 /\ NoneAgain
        /\ (pc \in {"test", "return"} \/ ended = "return")
    => G!Edges(dot) \in {tree.edges, After(tree).edges}

\* What main returns tells whether something was traced: not 0 if no command
\* was executed for want of an argument, a file, memory, a fork or a process,
\* and 0 if trace_son returned, whatever became of the tracee.
FailureIsReported ==
    step = "exit" =>
        /\ code = 0 <=> ended = "return"
        /\ code # 0 /\ ended # "handler" =>
             start = 0 /\ (mode = "exec" => proc = "none")

\* The file that is executed is the first one PATH has that may be, whatever
\* was tried before, and no other directory than those of PATH is looked in.
RunsTheFirst ==
    launch.arg = "file" /\ run # Nowhere =>
        /\ run \in ToSet(launch.path) \ {Empty}
        /\ run \in launch.executable
        /\ \E n \in DOMAIN launch.path :
             launch.path[n] = run
             /\ \A m \in 1..(n - 1) : launch.path[m] \notin launch.executable \ {Empty}

\* A command that was looked for finds no more of the user's PATH than what
\* ends in its first directory, wherever it was found itself; any other finds
\* all of it.
CutOnce ==
    \E n \in DOMAIN launch.path :
        /\ launch.path[n] # Empty /\ \A m \in 1..(n - 1) : launch.path[m] = Empty
        /\ inherited = SubSeq(launch.path, 1, n)

Inherits ==
    step = "session" =>
        IF launch.arg = "file" THEN CutOnce ELSE inherited = launch.path

-----------------------------------------------------------------------------
(* Why they hold.                                                          *)

\* path() has looked in vain in all it has taken off PATH, and PATH was cut
\* the first time.
Tried == Len(launch.path) - Len(rest)

InVain(n) == \A m \in 1..n : launch.path[m] \notin launch.executable \ {Empty}

LauncherInv ==
    /\ launch \in Launches /\ step \in {"main", "current", "search", "session", "exit"}
    /\ rest \in Seq(ToSet(launch.path)) /\ Len(rest) <= Len(launch.path)
    /\ \A i \in 1..Len(rest) : rest[i] = launch.path[Tried + i]
    /\ step = "main" => rest = launch.path
    /\ step \in {"main", "current", "search"} => run = Nowhere
    /\ step \in {"main", "current"} => inherited = launch.path
    /\ step = "current" => launch.arg # "file"
    /\ step = "search" =>
         /\ launch.arg = "file" /\ InVain(Tried)
         /\ IF Tried = 0 THEN inherited = launch.path ELSE CutOnce
    /\ RunsTheFirst /\ Inherits

\* Nothing happens to any process before the session, and a fork or attachment
\* that fails leaves nothing behind.
Untouched == start = 0 /\ (mode = "exec" => proc = "none")

LeftInv ==
    /\ Over => ended # None
    /\ pc \in {"fork", "failed"} \/ ended = "failed" => Untouched
    /\ step \in {"main", "current", "search"} =>
         Untouched /\ ended = None /\ pc \in {"fork", "attach"}
    /\ FailureIsReported

\* What ftrace knows of the program, as a tree.
Drawn == [stack |-> list_func, edges |-> G!Edges(dot), begun |-> dot # <<>> \/ ret]

DotInv ==
    /\ list_func \in Seq(G!Nodes) /\ dot \in Seq(G!Token)
    /\ ret \in BOOLEAN /\ first \in BOOLEAN
    /\ G!DrawInv

\* What is displayed is of the program and not after the instruction read; an
\* instruction a signal preempted is displayed before the next test.
Seen == program[at] = "call" => at \in ShownAt

Signalled == stop \in {"STOP", "TERM"}

ReadInv ==
    /\ \A p \in ShownAt : program[p] = "call" /\ p <= shown[Len(shown)].at
    /\ pc \in {"open", "stock", "header", "format"} => word # "plain"
    /\ IF start # 0 THEN at >= First
       ELSE /\ shown = <<>> /\ dot = <<>> /\ tree = NoTree
            /\ first \/ pc = "peek" \/ pc \in Stepping => Gone
            /\ pc \in Stepping => word = "silent"
    /\ pc \in Stepping =>
         \/ word = "silent" /\ Gone
         \/ /\ regs \in First..Final /\ word = program[regs]
            /\ at \in {regs, regs + 1}
            /\ \A p \in ShownAt : p <= regs
    /\ pc \in Stepped /\ Signalled => at = regs
    /\ pc = "test" /\ start # 0 /\ Signalled => Seen

\* A tracee that trace_son left is dead or stopped, and executes no more than
\* what was displayed.
LastInv ==
    start # 0 =>
        /\ pc \in Asking => armed \/ Gone \/ pc \in {"peek", "step"}
        /\ pc \in {"footer", "close", "return"} =>
             Gone \/ (proc = "stopped" /\ armed /\ Seen)
        /\ ended = "return" =>
             IF freed = 0 THEN Gone \/ (armed /\ Seen)
             ELSE freed = 1 /\ (Gone \/ "TRAP" \in pending)

\* What is drawn is what was executed, with the instruction the tracee stands
\* at if that was displayed; the instruction read is drawn when its turn comes.
Ahead == at \in ShownAt

InStep == IF Ahead THEN Drawn = After(tree) ELSE Drawn = tree

SyncInv ==
    start # 0 /\ NoneAgain =>
        /\ pc \in {"test", "getregs", "peek", "footer", "close", "return"} => InStep
        /\ pc \in Stepping =>
             IF at = regs \/ word # "call" THEN InStep
             ELSE IF regs \in ShownAt THEN Drawn = tree
             ELSE tree = Event(Drawn, op[program][regs])
        /\ ended = "return" /\ freed = 0 => InStep
        /\ ended = "return" => G!Edges(dot) \in {tree.edges, After(tree).edges}
=============================================================================
