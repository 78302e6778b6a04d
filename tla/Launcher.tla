------------------------------ MODULE Launcher ------------------------------
(***************************************************************************)
(* From the command line to exec or trace_pid: main, trace_exec, current   *)
(* and path (main.c), and the argument checks of trace_pid (exec.c).       *)
(*                                                                         *)
(* A launch is what ftrace is started with: the kind of its argument, the  *)
(* PATH as a sequence of elements, some of which may be empty, which       *)
(* variables are not set at all, and the places where a file of the        *)
(* command's name may be executed.  Every failure is a return of dprintf's *)
(* count less a length, which is what the exit status comes from.          *)
(***************************************************************************)
EXTENDS Integers, Sequences, SequencesExt

CONSTANTS
    Launches,       \* ways to start ftrace
    Empty           \* an empty element of PATH

Arguments == {"none", "-p", "-p word", "-p pid", "./file", "/file", "file"}
Nowhere == "nowhere"
Pwd == "pwd"        \* the place "./file" is looked for in
Root == "/"         \* the place of "/file"

IsLaunch(l) ==
    /\ DOMAIN l = {"arg", "path", "unset", "executable"}
    /\ l.arg \in Arguments
    /\ l.unset \subseteq {"PATH", "PWD"}
    /\ l.path \in Seq(ToSet(l.path))

ASSUME LauncherAssumption == \A l \in Launches : IsLaunch(l)

VARIABLES
    launch,
    step,           \* "main", "current", "search", "session" or "exit"
    rest,           \* the elements strtok has not returned yet
    inherited,      \* PATH as the command will find it
    run,            \* the place of the file that is executed
    code            \* what main returns

launcher == <<launch, step, rest, inherited, run, code>>

LaunchInit ==
    /\ launch \in Launches
    /\ step = "main"
    /\ rest = launch.path /\ inherited = launch.path
    /\ run = Nowhere /\ code = 0

-----------------------------------------------------------------------------
\* "return (dprintf(2, ...) - sizeof(MSG) - strlen(arg) + FAILURE)": dprintf
\* counts all it wrote, newlines of them not counted elsewhere, and sizeof one
\* character more than the message.
\* Mutant: FAILURE is not added.
ReturnsNothing(newlines) == newlines - 1

Returns(newlines) == newlines - 1 - 1

Exit(c) ==
    /\ code' = c /\ step' = "exit"
    /\ UNCHANGED <<launch, rest, inherited, run>>

Goes(to) ==
    /\ step' = to
    /\ UNCHANGED <<launch, rest, inherited, run, code>>

\* exec, or the attachment, is TraceSession's.
Runs(place) ==
    /\ run' = place /\ step' = "session"
    /\ UNCHANGED <<launch, rest, inherited, code>>

Usage ==
    /\ step = "main" /\ launch.arg \in {"none", "-p", "-p word"}
    /\ Exit(Returns(0))

TracePid ==
    /\ step = "main" /\ launch.arg = "-p pid"
    /\ Goes("session")

TraceExec ==
    /\ step = "main" /\ launch.arg \in {"./file", "file"}
    /\ Goes(IF launch.arg = "./file" THEN "current" ELSE "search")

TraceExecFile ==
    /\ step = "main" /\ launch.arg = "/file"
    /\ IF Root \in launch.executable THEN Runs(Root) ELSE Exit(Returns(1))

\* The message about the file has its newline subtracted, here only.
Current ==
    /\ step = "current"
    /\ IF "PWD" \notin launch.unset /\ Pwd \in launch.executable
       THEN Runs(Pwd) ELSE Exit(Returns(0))

-----------------------------------------------------------------------------
(* path: strtok passes over empty elements, and cuts PATH behind each      *)
(* element it returns.  PATH is the process's own, which the command gets. *)

\* An element is left for strtok to return, and it is the one at n.
More == "PATH" \notin launch.unset /\ \E n \in DOMAIN rest : rest[n] # Empty
Returned(n) == rest[n] # Empty /\ \A m \in 1..(n - 1) : rest[m] = Empty

\* Mutant: the first cut is not the last.
CutAgain(n) == SubSeq(launch.path, 1, Len(launch.path) - Len(rest) + n)

\* A second cut is behind the first one, where nobody reads any more.
Cut(n) == IF rest = launch.path THEN SubSeq(rest, 1, n) ELSE inherited

\* Mutant: whether the file may be executed is not looked at.
FindsAny(place) == TRUE

Finds(place) == place \in launch.executable

Search ==
    /\ step = "search" /\ More
    /\ \E n \in DOMAIN rest :
         /\ Returned(n)
         /\ inherited' = Cut(n)
         /\ rest' = SubSeq(rest, n + 1, Len(rest))
         /\ IF Finds(rest[n])
            THEN run' = rest[n] /\ step' = "session"
            ELSE UNCHANGED <<run, step>>
    /\ UNCHANGED <<launch, code>>

NotFound ==
    /\ step = "search" /\ ~More
    /\ Exit(Returns(IF "PATH" \in launch.unset THEN 0 ELSE 1))

\* asprintf failed for the name of the file.
NoMemory ==
    /\ \/ step = "current" /\ "PWD" \notin launch.unset
       \/ step = "search" /\ More
    /\ Exit(Returns(0))

Launch ==
    \/ Usage \/ TracePid \/ TraceExec \/ TraceExecFile \/ Current \/ NoMemory
    \/ Search \/ NotFound
=============================================================================
