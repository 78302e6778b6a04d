---------------------------- MODULE TraceSession ----------------------------
(***************************************************************************)
(* One run of ftrace: how it gets hold of a process, loads what it knows   *)
(* of it, steps it to its end and lets go, with the signals that may reach *)
(* ftrace at any point (exec.c, catch_signal.c, stop_trace.c, load_infos.c,*)
(* parse_elf.c).  The tracee is Ptrace's; what a displayed instruction     *)
(* becomes in graph.dot is CallGraph's.                                    *)
(*                                                                         *)
(* ftrace is one thread: pc names the system call it makes next, so that a *)
(* step of the tracee, a signal to ftrace or a signal to the tracee may    *)
(* come between any two of them.  A signal handler never returns: it runs  *)
(* to exit from wherever it interrupted, and another signal may interrupt  *)
(* it in turn.                                                             *)
(***************************************************************************)
EXTENDS Ptrace, Sequences, FiniteSets

CONSTANTS
    Programs,       \* functions from First..Final to the kinds of instruction:
                    \* "plain", "call" (displayed) or "silent" (recognised,
                    \* but nothing is displayed)
    Executables     \* what load_infos may find in the file of the process

Kinds == {"plain", "call", "silent"}

ExeStates == {"good", "unmappable", "unsupported", "corrupt"}

ASSUME SessionAssumption ==
    /\ Programs \subseteq [First..Final -> Kinds]
    /\ Executables \subseteq ExeStates

FAILURE == -1
Graph == 3          \* the descriptor of graph.dot, when stdin is open
Catchable == {"INT", "TERM", "QUIT"}

VARIABLES
    mode,           \* "exec" (ftrace command) or "pid" (ftrace -p PID)
    stdin,          \* descriptor 0 was open when ftrace started
    program,
    exe,            \* what load_infos finds in the program's file
    pc,
    status,         \* of the last waitpid
    regs, word,     \* the instruction read before the step, and its kind
    regs_return,    \* where the tracee stood when the registers after a step
                    \* were last read, 0 before
    first,          \* print_instruction's static flag
    fd,             \* its static descriptor, which trace_son keeps a copy of
    save,           \* stock_fd's static descriptor
    graph,          \* graph.dot: "none", "open" or "closed"
    header,         \* "digraph ftrace {" was written
    footers,        \* closing braces written to graph.dot
    stray,          \* a closing brace was written to descriptor 0
    caught,         \* signals whose handler has started
    calm,           \* the first of them found the tracee stopped
    ended,          \* how ftrace ended
    shown,          \* the instructions displayed, in order
    start,          \* the first instruction read, 0 before
    discarded       \* stops for a signal that ftrace stepped over

file == <<first, fd, save, graph, header, footers, stray>>
read == <<status, regs, word, regs_return, shown, start, discarded>>
fixed == <<mode, stdin, program, exe>>
ends == <<caught, calm, ended>>
vars == <<tracee, file, read, fixed, ends, pc>>

GraphFd == IF stdin THEN Graph ELSE 0

-----------------------------------------------------------------------------
Init ==
    /\ mode \in {"exec", "pid"}
    /\ stdin \in BOOLEAN
    /\ program \in Programs
    /\ exe \in Executables
    /\ PtraceInit(mode = "pid")
    /\ pc = IF mode = "pid" THEN "attach" ELSE "fork"
    /\ status = <<None, None>>
    /\ regs = 0 /\ word = "plain" /\ regs_return = 0
    /\ shown = <<>> /\ start = 0 /\ discarded = 0
    /\ first = FALSE /\ fd = 0 /\ save = 0
    /\ graph = "none" /\ header = FALSE /\ footers = 0 /\ stray = FALSE
    /\ caught = {} /\ calm = FALSE /\ ended = None

Goto(l) == pc' = l

\* A step that does nothing but move on, and one that only acts on the tracee.
Only(l) == Goto(l) /\ UNCHANGED <<tracee, file, read, fixed, ends>>
Request(r, l) == r /\ Goto(l) /\ UNCHANGED <<file, read, fixed, ends>>

-----------------------------------------------------------------------------
(* exec, trace_pid and catch_signal.                                       *)

Fork ==
    /\ pc = "fork"
    /\ Request(ForkChild, "catch") \/ Only("failed")

\* The process may be gone, or not be ftrace's to trace.
Attach ==
    /\ pc = "attach"
    /\ (Alive /\ Request(AttachTo, "catch")) \/ Only("failed")

CatchSignal == pc = "catch" /\ Only("load")

-----------------------------------------------------------------------------
(* load_infos, load_file and parse_file.                                   *)

\* Mutant of Complaint: an error does return FAILURE.
ComplaintFails(n) == FAILURE

\* The result of "return (dprintf(2, ...) - sizeof(MSG) + FAILURE)" for a
\* message of n characters: dprintf does not count the final zero, sizeof does.
Complaint(n) == n - (n + 1) + FAILURE

\* Until its execve /proc/PID/exe of the child is ftrace's own file.
Examined == IF mode = "exec" /\ at < First THEN "good" ELSE exe

check_header == IF Examined = "unsupported" THEN Complaint(46) ELSE 0

\* parse_file; undo is what it calls when it refuses the file.
Accepted == IF Examined = "unmappable" THEN Complaint(21) # FAILURE
            ELSE check_header # FAILURE

\* The process may be gone by now, and its executable with it; otherwise the
\* outcome depends on the file.  A file refused by parse_file is given up
\* there, then once more by load_infos; a file that cannot be opened, once.
LoadInfos ==
    /\ pc = "load"
    /\ Only(IF Gone THEN "giveup"
            ELSE IF ~Accepted \/ Examined = "corrupt" THEN "giveup_file"
            ELSE "wait_first")

\* asprintf, open or lseek may fail for any file, which is given up once.
LoadFails == pc = "load" /\ Only("giveup")

\* Mutants of GiveUp: stop_son is passed for a process too; stop_son leaves the
\* command alone.
GiveUpKills(l) == Request(Kill, l)
GiveUpSpares(l) == Only(l)

\* fct is stop_son for a command; for a process it is detach_process, which
\* has nothing but a return statement.
GiveUp(l) ==
    IF mode = "exec" THEN Request(Kill, l) ELSE Only(l)

GiveUpFile == pc = "giveup_file" /\ GiveUp("giveup")
GiveUpLoad == pc = "giveup" /\ GiveUp("return")

-----------------------------------------------------------------------------
(* trace_son.                                                              *)

WaitPid(from, to) ==
    /\ pc = from
    /\ Wait
    /\ status' = Waited
    /\ Goto(to)
    /\ UNCHANGED <<regs, word, regs_return, shown, start, discarded, file, fixed, ends>>

WaitFirst == WaitPid("wait_first", "test")

\* Mutants of StillTraced: any stop of the tracee, and no test at all.
StillTracedByStop(st) == st[1] = "stopped"
StillTracedAlways(st) == TRUE

StillTraced(st) == st[1] = "stopped" /\ st[2] \in {"TRAP", "STOP"}

Test == pc = "test" /\ Only(IF StillTraced(status) THEN "getregs" ELSE "footer")

GetRegs ==
    /\ pc = "getregs"
    /\ IF Obeys
       THEN /\ regs' = at
            /\ start' = IF start = 0 THEN at ELSE start
       ELSE UNCHANGED <<regs, start>>
    /\ Goto("peek")
    /\ UNCHANGED <<status, word, regs_return, shown, discarded, tracee, file, fixed, ends>>

\* A failed PTRACE_PEEKTEXT returns -1, whose low byte passes for a call; before
\* its execve the child is still a copy of ftrace.
PeekText ==
    /\ pc = "peek"
    /\ word' = IF ~Obeys THEN "silent"
               ELSE IF regs < First THEN "plain" ELSE program[regs]
    /\ Goto("step")
    /\ UNCHANGED <<status, regs, regs_return, shown, start, discarded, tracee, file,
                   fixed, ends>>

Step ==
    /\ pc = "step"
    /\ SingleStep
    /\ discarded' = IF Obeys /\ stop = "STOP" THEN discarded + 1 ELSE discarded
    /\ Goto("wait")
    /\ UNCHANGED <<status, regs, word, regs_return, shown, start, file, fixed, ends>>

\* Mutant of WaitStep: the step is not waited for.
WaitStepSkipped == pc = "wait" /\ Only("getregs_return")

WaitStep == WaitPid("wait", "getregs_return")

\* regs_return keeps its old contents when the request fails.
GetRegsReturn ==
    /\ pc = "getregs_return"
    /\ regs_return' = IF Obeys THEN at ELSE regs_return
    /\ Goto("print")
    /\ UNCHANGED <<status, regs, word, shown, start, discarded, tracee, file,
                   fixed, ends>>

-----------------------------------------------------------------------------
(* print_instruction, open_dotfile and stock_fd.                           *)

PrintInstruction ==
    /\ pc = "print"
    /\ Only(IF word = "plain" THEN "test" ELSE IF first THEN "format" ELSE "open")

\* Mutant of OpenDotfile: a failure of open goes on to stock_fd.
OpenDotfileGoesOn ==
    /\ pc = "open"
    /\ \/ fd' = GraphFd /\ graph' = "open"
       \/ fd' = -1 /\ UNCHANGED graph
    /\ Goto("stock")
    /\ UNCHANGED <<first, save, header, footers, stray, tracee, read, fixed, ends>>

\* Mutant of OpenDotfile: trace_son does not keep the result.
OpenDotfileUnreturned ==
    /\ pc = "open"
    /\ graph' = "open"
    /\ Goto("stock")
    /\ UNCHANGED <<first, fd, save, header, footers, stray, tracee, read, fixed, ends>>

OpenDotfile ==
    /\ pc = "open"
    /\ \/ /\ fd' = GraphFd /\ graph' = "open"
          /\ Goto("stock")
       \/ /\ fd' = -1 /\ UNCHANGED graph
          /\ Goto("format")
    /\ UNCHANGED <<first, save, header, footers, stray, tracee, read, fixed, ends>>

\* Mutant of StockFd: the descriptor is not stored.
StockFdForgets == pc = "stock" /\ Only("header")

\* 0 stands for "no descriptor yet".
StockFd ==
    /\ pc = "stock"
    /\ save' = IF save = 0 THEN fd ELSE save
    /\ Goto("header")
    /\ UNCHANGED <<first, fd, graph, header, footers, stray, tracee, read, fixed,
                   ends>>

Header ==
    /\ pc = "header"
    /\ header' = TRUE
    /\ Goto("format")
    /\ UNCHANGED <<first, fd, save, graph, footers, stray, tracee, read, fixed, ends>>

\* Mutant of Format: nothing is displayed without a graph.
FormatNeedsGraph ==
    /\ pc = "format"
    /\ shown' = IF word = "call" /\ fd # -1
                THEN Append(shown, [at |-> regs, after |-> regs_return])
                ELSE shown
    /\ first' = TRUE
    /\ Goto("test")
    /\ UNCHANGED <<status, regs, word, regs_return, start, discarded, fd, save, graph,
                   header, footers, stray, tracee, fixed, ends>>

\* getinstruction and format_dotfile, up to the end of print_instruction.
Format ==
    /\ pc = "format"
    /\ shown' = IF word = "call" THEN Append(shown, [at |-> regs, after |-> regs_return])
                ELSE shown
    /\ first' = TRUE
    /\ Goto("test")
    /\ UNCHANGED <<status, regs, word, regs_return, start, discarded, fd, save, graph,
                   header, footers, stray, tracee, fixed, ends>>

-----------------------------------------------------------------------------
(* The end of trace_son, and of ftrace.                                    *)

\* A closing brace goes where descriptor f leads.
Brace(f) ==
    /\ footers' = IF f = GraphFd /\ graph = "open" THEN footers + 1 ELSE footers
    /\ stray' = (stray \/ (f = 0 /\ stdin))
    /\ UNCHANGED <<first, fd, save, graph, header>>

Close(f) ==
    /\ graph' = IF f = GraphFd /\ graph = "open" THEN "closed" ELSE graph
    /\ UNCHANGED <<first, fd, save, header, footers, stray>>

Footer ==
    /\ pc = "footer"
    /\ Brace(fd)
    /\ Goto("close")
    /\ UNCHANGED <<tracee, read, fixed, ends>>

CloseFd ==
    /\ pc = "close"
    /\ Close(fd)
    /\ Goto("return")
    /\ UNCHANGED <<tracee, read, fixed, ends>>

Ends(how) ==
    /\ Release
    /\ ended' = how
    /\ Goto("over")
    /\ UNCHANGED <<caught, calm, file, read, fixed>>

Return == pc = "return" /\ Ends("return")

\* Nothing was forked or attached.
Failed == pc = "failed" /\ Ends("failed")

-----------------------------------------------------------------------------
(* signal_on_exec and signal_on_p.                                         *)

Handling == {"h_footer", "h_close", "h_let_go", "h_exit"}
Over == pc = "over"

Interrupt(s) ==
    /\ pc \notin {"fork", "attach", "failed", "catch", "over"}
    /\ s \notin caught
    /\ caught' = caught \union {s}
    /\ calm' = IF caught = {} THEN Obeys ELSE calm
    /\ Goto("h_footer")
    /\ UNCHANGED <<ended, tracee, file, read, fixed>>

HandlerFooter ==
    /\ pc = "h_footer"
    /\ IF save = 0 THEN Goto("h_let_go") /\ UNCHANGED file
       ELSE Goto("h_close") /\ Brace(save)
    /\ UNCHANGED <<tracee, read, fixed, ends>>

HandlerClose ==
    /\ pc = "h_close"
    /\ Close(save)
    /\ Goto("h_let_go")
    /\ UNCHANGED <<tracee, read, fixed, ends>>

\* Mutant of HandlerLetGo: the process is left.
HandlerLetGoKillOnly ==
    /\ pc = "h_let_go"
    /\ IF mode = "exec" THEN Request(Kill, "h_exit") ELSE Only("h_exit")

HandlerLetGo ==
    /\ pc = "h_let_go"
    /\ Request(IF mode = "exec" THEN Kill ELSE Detach, "h_exit")

\* Mutant of HandlerExit: the handler returns to trace_son.
HandlerExitReturns == pc = "h_exit" /\ Only("wait")

HandlerExit == pc = "h_exit" /\ Ends("handler")

\* Any other signal, or one that comes before catch_signal, ends ftrace at once.
Die ==
    /\ ~Over
    /\ Ends("uncaught")

-----------------------------------------------------------------------------
Ftrace ==
    \/ Fork \/ Attach \/ CatchSignal \/ LoadInfos \/ LoadFails
    \/ GiveUpFile \/ GiveUpLoad
    \/ WaitFirst \/ Test \/ GetRegs \/ PeekText \/ Step \/ WaitStep
    \/ GetRegsReturn \/ PrintInstruction \/ OpenDotfile \/ StockFd \/ Header
    \/ Format \/ Footer \/ CloseFd \/ Return \/ Failed
    \/ HandlerFooter \/ HandlerClose \/ HandlerLetGo \/ HandlerExit

Tracee ==
    /\ \/ Traceme(~Over) \/ ChildFails \/ Exec \/ RunStep(Over)
       \/ \E s \in pending : Deliver(s)
    /\ UNCHANGED <<file, read, fixed, ends, pc>>

Others ==
    /\ (\E s \in SentSignals : Send(s)) \/ SendKill
    /\ UNCHANGED <<file, read, fixed, ends, pc>>

Next == Ftrace \/ Tracee \/ Others \/ (\E s \in Catchable : Interrupt(s)) \/ Die

Spec == Init /\ [][Next]_vars

\* ftrace is scheduled, but the tracee may block for ever.
FairSpec == Spec /\ WF_vars(Ftrace)

\* A tracee that can run does.
TraceeRuns == WF_vars(Tracee)

-----------------------------------------------------------------------------
(* Properties.                                                             *)

ShownAt == {shown[i].at : i \in DOMAIN shown}
Lines == [at : First..Final, after : 0..Final]

\* The variables' values; stock_fd never keeps the descriptor of a failed open.
TypeOK ==
    /\ PtraceTypeOK
    /\ status \in {"none", "stopped", "exited"} \X {None, "TRAP", "STOP", "TERM"}
    /\ regs \in 0..Final /\ word \in Kinds
    /\ shown \in Seq(Lines)
    /\ start \in 0..Final /\ discarded \in Nat
    /\ fd \in {-1, 0, Graph} /\ save \in {0, Graph}
    /\ graph \in {"none", "open", "closed"} /\ footers \in Nat
    /\ ended \in {None, "return", "failed", "handler", "uncaught"}
    /\ header => graph # "none"

\* Whenever the loop comes round, every instruction the tracee executed since
\* the first one read, and that displays something, was displayed: no step
\* escapes trace_son, whatever signals reach either process.
NothingSkipped ==
    pc = "test" /\ start # 0 =>
        {p \in start..(at - 1) : program[p] = "call"} \subseteq ShownAt

\* Instructions are displayed in the order of the program, and one is
\* displayed again only if it was read once more: the kernel reports a SIGSTOP
\* before the instruction it was to execute, and trace_son steps over it, or
\* tries to and finds the tracee killed in that stop.
ShownInOrder ==
    \A i \in 1..(Len(shown) - 1) :
        /\ shown[i].at <= shown[i + 1].at
        /\ Cardinality({j \in 1..(Len(shown) - 1) : shown[j].at = shown[j + 1].at})
             <= discarded + (IF Gone THEN 1 ELSE 0)

\* When the loop goes on because a step was reported, everything displayed so
\* far was executed; what was read and displayed but preempted ends the loop
\* or comes again.
ShownWasExecuted ==
    pc = "test" /\ status = <<"stopped", "TRAP">> /\ ~Gone =>
        \A p \in ShownAt : p < at

\* The registers a result is taken from are those right behind the instruction
\* displayed, so that a system call is displayed with its own result, but for
\* two cases.  A signal came before the instruction: what is displayed is then
\* the register before it, that is the number of the call; and no other
\* instruction is read until this one is displayed again, executed or not.  Or
\* the tracee died in the instruction, which is the last one displayed.
Own(i) == shown[i].after = shown[i].at + 1
Preempted(i) ==
    /\ shown[i].after = shown[i].at
    /\ shown[i].at = IF i < Len(shown) THEN shown[i + 1].at ELSE regs

ResultIsFresh ==
    \A i \in DOMAIN shown : Own(i) \/ Preempted(i) \/ (i = Len(shown) /\ Gone)

\* Once ftrace has ended by itself or by a handler, the graph it began is
\* closed, provided stdin was open: an interrupt between open and stock_fd
\* comes before the header, one after it finds the descriptor.
BegunGraphIsClosed ==
    Over /\ ended \in {"return", "handler"} /\ header
         /\ (stdin \/ ended = "return") => footers > 0

\* The closing brace ftrace may write to its standard input means that no
\* graph was begun.
StrayMeansNoGraph == stray => ~header /\ shown = <<>>

\* A command does not outlive ftrace.  One that load_infos gives up, or that a
\* handler ends, is dead when ftrace has ended, whatever it was doing.  One that
\* trace_son leaves executes at most the one instruction it was about to be
\* stepped through; only a SIGTERM to the command that came before its execve,
\* so that the loop was never entered, leaves it free.
CommandDoesNotOutlive ==
    mode = "exec" =>
        /\ ended = "handler" \/ (ended = "return" /\ status[1] = "none") => Gone
        /\ ended = "return" => freed <= 1 \/ (start = 0 /\ status[2] = "TERM")

\* A process that the first caught signal found stopped survives ftrace: it is
\* detached, not killed, and not left with a single-step flag that kills it.
InterruptSparesStopped ==
    mode = "pid" /\ calm /\ ended = "handler" =>
        /\ fate \notin {"TRAP", "ftrace"}
        /\ Alive => ~armed /\ "TRAP" \notin pending

\* A process whose file was refused survives: nobody detaches it, and it goes
\* on, or takes the SIGSTOP of the attachment, once ftrace has exited.
GivenUpProcessLives ==
    mode = "pid" /\ ended = "return" /\ status[1] = "none" =>
        /\ fate \notin {"TRAP", "ftrace"}
        /\ Alive => ~armed /\ "TRAP" \notin pending

\* ftrace ends if the tracee runs, whatever signals either of them gets: no
\* stop leaves trace_son waiting for a tracee that waits for ftrace.
Terminates == TraceeRuns => <>Over

\* A caught signal ends ftrace, even if the tracee never moves again.
InterruptEnds == (caught # {}) ~> Over

\* What the messages of ftrace.h say of a file that is no 64-bit executable; a
\* process that ftrace attaches to has long been executing it.
UnsupportedIsNotTraced == exe = "unsupported" /\ mode = "pid" => start = 0

-----------------------------------------------------------------------------
(* Why they hold: what each of them needs to be inductive.                 *)

Early == {"fork", "attach", "failed", "catch", "load", "giveup_file", "giveup",
          "wait_first"}
Late == Handling \union {"over"}

\* From the word read to the line displayed, and from the step on.
Stepping == {"step", "wait", "getregs_return", "print", "open", "stock", "header",
             "format"}
Stepped == {"wait", "getregs_return", "print", "open", "stock", "header", "format"}

TypeInv ==
    /\ TypeOK
    /\ program \in Programs /\ regs_return \in 0..Final
    /\ pc = "fork" => proc = "none"
    /\ pc = "attach" => mode = "pid"
    /\ ~Over => ended = None
    /\ pc \in {"stock", "header"} => fd = GraphFd /\ graph = "open"
    /\ pc \in Stepping /\ word = "call" => regs >= First

\* print_instruction asks for graph.dot once, and has its descriptor, or the
\* failure, before it displays anything.
GraphInv ==
    /\ pc \in Early \union {"open"} => ~first
    /\ header => fd = GraphFd /\ (first \/ pc = "format" \/ pc \in Late)
    /\ first \/ shown # <<>> \/ pc = "format" => fd \in {-1, GraphFd}
    /\ stray => pc \in {"close", "return"} \union Late
    /\ StrayMeansNoGraph

\* Each way to the end writes a closing brace before it closes the graph.
ClosedInv ==
    /\ graph = "closed" => footers > 0
    /\ graph = "open" /\ pc = "close" /\ fd = GraphFd => footers > 0
    /\ graph = "open" /\ pc = "h_close" /\ save = GraphFd => footers > 0
    /\ header /\ pc \in {"close", "return"} => footers > 0
    /\ stdin /\ (header \/ pc = "header") => save = Graph
    /\ stdin /\ header /\ pc \in Handling \ {"h_footer"} => footers > 0
    /\ BegunGraphIsClosed

\* Only a step arms the tracee, which is traced as long as it is armed and
\* ftrace lives; an attached process is neither killed nor executed anew.
ArmedInv ==
    /\ ~Over => (armed => traced) /\ "TRAP" \notin pending /\ fate # "TRAP"
    /\ Over => ~traced
    /\ mode = "pid" => at >= First /\ fate # "ftrace"

\* Nothing is stepped before the first status.
GivenUpInv ==
    /\ status[1] = "none" => pc \in Early \union {"return"} \union Late
    /\ mode = "pid" /\ status[1] = "none" =>
         ~armed /\ "TRAP" \notin pending /\ stop # "TRAP" /\ fate # "TRAP"

\* The process stays in the stop the first signal found it in until it is let
\* go, and nothing of the tracing is left in it then.
CalmInv ==
    mode = "pid" /\ calm /\ ended # "uncaught" =>
        /\ pc \in Late
        /\ "TRAP" \notin pending /\ fate # "TRAP"
        /\ Gone \/ (~traced /\ ~armed)
             \/ (Obeys /\ pc \in {"h_footer", "h_close", "h_let_go"})

\* A command that was read is stepped or dead, and what is armed dies of its
\* next instruction; one that was not is given up, killed by a handler, or in
\* the stop that kept trace_son from its loop.
OutliveInv ==
    /\ ~Over => freed = 0
    /\ mode = "exec" =>
         /\ pc \notin {"fork", "attach", "failed", "over"} => proc # "none"
         /\ pc = "h_exit" => Gone
         /\ start # 0 /\ pc \notin Late =>
              armed \/ Gone \/ (Obeys /\ pc \in {"peek", "step"})
         /\ start # 0 /\ ended = "return" =>
              /\ Over /\ (armed \/ Gone)
              /\ freed <= 1 /\ (freed = 1 => Gone \/ "TRAP" \in pending)
         /\ ended = "handler" => Gone
         /\ status[1] = "none" =>
              /\ pc \in Early \union {"return"} \union Late
              /\ pc = "return" \/ ended = "return" => Gone
         /\ start = 0 =>
              /\ pc = "peek" \/ pc \in Stepping => Gone
              /\ pc \in {"footer", "close", "return"} \/ ended = "return" =>
                   (Gone /\ freed = 0) \/ status[2] = "TERM"

Asking == {"test", "getregs", "peek", "step", "getregs_return", "print", "open",
           "stock", "header", "format"}

\* Whenever trace_son makes a request but to wait, the tracee is in the stop
\* that was reported last, or dead; a signal that may stop the loop's going on
\* comes after the execve.
StopInv ==
    /\ proc = "stopped" => traced
    /\ report => proc \in {"stopped", "dead"}
    /\ stop \in {"TRAP", "STOP"} \/ pending \intersect {"TRAP", "STOP"} # {} =>
         at >= First
    /\ pc \in Asking => Gone \/ (proc = "stopped" /\ status = <<"stopped", stop>>)
    /\ pc \in {"getregs", "peek", "step"} => StillTraced(status)
    /\ pc = "wait" => Gone \/ (armed /\ at >= First)

\* What was displayed last has its own result, or nothing is displayed any more.
Settled == shown = <<>> \/ Own(Len(shown)) \/ Gone

\* The registers after a step are those of the stop the tracee is in, right
\* behind the instruction read or at it; what is displayed with any others is
\* the last thing displayed.
FreshInv ==
    /\ pc \in Early => shown = <<>>
    /\ \A p \in ShownAt : program[p] = "call"
    /\ pc \in Stepping /\ word = "call" => program[regs] = "call"
    /\ pc \in Stepped /\ word = "call" => Gone \/ at \in {regs, regs + 1}
    /\ pc \in {"print", "open", "stock", "header", "format"} => Gone \/ regs_return = at
    /\ pc \in {"test", "getregs", "peek"} => Settled \/ at = shown[Len(shown)].at
    /\ pc \in Stepping /\ word # "call" => Settled
    /\ (\E i \in DOMAIN shown : ~Own(i) /\ ~Preempted(i)) =>
         Gone /\ (pc \in Stepping => word # "call")
    /\ ResultIsFresh

\* The instruction read is the one the tracee stands at, until it is stepped
\* through it; a stop for a step is behind everything displayed.
PlaceInv ==
    /\ regs <= at
    /\ pc = "peek" => regs = at \/ Gone
    /\ pc = "step" => (regs = at /\ word = program[at]) \/ Gone
    /\ pc = "wait" /\ proc = "running" => regs = at /\ word = program[at]
    /\ pc \in Stepped /\ stop = "TRAP" => regs < at
    /\ \A p \in ShownAt : p <= at /\ (stop = "TRAP" => p < at)

\* Every displayable instruction from the first one read to before n is shown.
Covered(n) == {p \in start..(n - 1) : program[p] = "call"} \subseteq ShownAt

\* What the tracee is past is displayed, or will be before the loop comes round.
CoverInv ==
    /\ pc \in Early => start = 0
    /\ start # 0 /\ pc \in Asking \union {"wait"} =>
         \/ Covered(at)
         \/ /\ pc \in Stepped
            /\ at = regs + 1 /\ word = program[regs]
            /\ Covered(regs)

Again == {j \in 1..(Len(shown) - 1) : shown[j].at = shown[j + 1].at}

\* Each instruction that is read again was paid for by a stop stepped over, but
\* for one whose tracee died in that stop, after which nothing is displayed.
OrderInv ==
    /\ \A i \in 1..(Len(shown) - 1) : shown[i].at <= shown[i + 1].at
    /\ pc \in Stepping /\ word = "call" => \A p \in ShownAt : p <= regs
    /\ pc \in Stepped /\ word = "call" /\ regs \in ShownAt /\ ~Gone =>
         Cardinality(Again) + 1 <= discarded
    /\ \/ Cardinality(Again) <= discarded
       \/ /\ Gone /\ Cardinality(Again) <= discarded + 1
          /\ pc \in Stepping => word # "call"
=============================================================================
