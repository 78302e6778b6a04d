------------------------------- MODULE Ptrace -------------------------------
(***************************************************************************)
(* The traced process and the kernel's side of ptrace, as the ftrace       *)
(* program uses them: fork and PTRACE_TRACEME, or PTRACE_ATTACH, then      *)
(* PTRACE_GETREGS, PTRACE_PEEKTEXT, PTRACE_SINGLESTEP, waitpid,            *)
(* PTRACE_DETACH, SIGKILL, and what becomes of the tracee when its tracer  *)
(* exits.  None of it is code of the repository.                           *)
(*                                                                         *)
(* The program is a straight line of instructions, First..Final, the last   *)
(* of which exits.  A forked child starts before it, at ForkReturn: it     *)
(* still has to ask to be traced, then to execute the program.             *)
(***************************************************************************)
EXTENDS Integers

CONSTANTS
    Final,          \* the last instruction of the program
    MaxSent         \* bound: signals sent to the tracee by others

ForkReturn == 0
Execve == 1
First == 2

ASSUME PtraceAssumption == Final \in Nat /\ Final > First /\ MaxSent \in Nat

None == "none"

VARIABLES
    proc,           \* "none", "running", "stopped", "frozen" (job control),
                    \* "dead" (a zombie) or "reaped"
    traced,         \* ftrace is its tracer
    armed,          \* its single-step flag is set
    stop,           \* the signal of the stop it is in
    report,         \* a stop or death waitpid has not reported yet
    pending,        \* signals not delivered yet
    at,             \* the instruction it will execute next
    fate,           \* what ended it
    freed,          \* instructions executed outside of tracing since the end
                    \* of ftrace (0, 1 or more)
    sent            \* signals others have sent

tracee == <<proc, traced, armed, stop, report, pending, at, fate, freed, sent>>

SentSignals == {"STOP", "TERM"}

PtraceTypeOK ==
    /\ proc \in {"none", "running", "stopped", "frozen", "dead", "reaped"}
    /\ traced \in BOOLEAN /\ armed \in BOOLEAN /\ report \in BOOLEAN
    /\ stop \in {None, "TRAP", "STOP", "TERM"}
    /\ pending \subseteq {"TRAP", "STOP", "TERM"}
    /\ at \in ForkReturn..Final
    /\ fate \in {None, "exit", "TRAP", "TERM", "KILL", "ftrace"}
    /\ freed \in 0..2 /\ sent \in 0..MaxSent
    /\ stop # None <=> proc = "stopped"

\* A process that exists already, or none yet.
PtraceInit(attached) ==
    /\ proc = IF attached THEN "running" ELSE "none"
    /\ at = IF attached THEN First ELSE ForkReturn
    /\ traced = FALSE /\ armed = FALSE /\ report = FALSE
    /\ stop = None /\ pending = {} /\ fate = None
    /\ freed = 0 /\ sent = 0

Alive == proc \in {"running", "stopped", "frozen"}
Gone == proc \in {"dead", "reaped"}

\* A ptrace request succeeds on a stopped tracee only.
Obeys == traced /\ proc = "stopped"

-----------------------------------------------------------------------------
(* Requests of the tracer.                                                 *)

Stopped(s) == proc' = "stopped" /\ stop' = s /\ report' = TRUE

Dies(how) ==
    /\ proc' = "dead" /\ fate' = how /\ report' = TRUE /\ stop' = None

ForkChild ==
    /\ proc' = "running"
    /\ UNCHANGED <<traced, armed, stop, report, pending, at, fate, freed, sent>>

\* The tracee is sent SIGSTOP, and goes on until it takes it.
AttachTo ==
    /\ traced' = TRUE /\ pending' = pending \union {"STOP"}
    /\ UNCHANGED <<proc, armed, stop, report, at, fate, freed, sent>>

\* The signal the tracee stopped for is discarded: ftrace passes none.
SingleStep ==
    IF Obeys
    THEN /\ proc' = "running" /\ armed' = TRUE /\ stop' = None /\ report' = FALSE
         /\ UNCHANGED <<traced, pending, at, fate, freed, sent>>
    ELSE UNCHANGED tracee

\* So it is here; a detached process is no longer stepped.
Detach ==
    IF Obeys
    THEN /\ proc' = "running" /\ traced' = FALSE /\ armed' = FALSE
         /\ stop' = None /\ report' = FALSE
         /\ UNCHANGED <<pending, at, fate, freed, sent>>
    ELSE UNCHANGED tracee

Kill ==
    IF Alive
    THEN Dies("ftrace") /\ UNCHANGED <<traced, armed, pending, at, freed, sent>>
    ELSE UNCHANGED tracee

\* waitpid reports the stop or reaps the zombie.
Waited == IF proc = "dead" THEN <<"exited", None>> ELSE <<"stopped", stop>>

Wait ==
    /\ report
    /\ report' = FALSE
    /\ proc' = IF proc = "dead" THEN "reaped" ELSE proc
    /\ UNCHANGED <<traced, armed, stop, pending, at, fate, freed, sent>>

\* The exit of the tracer.  A tracee goes on with the signal of its stop if
\* nobody waited for it, without it otherwise, and with its single-step flag.
Release ==
    /\ traced' = FALSE
    /\ IF traced /\ proc = "stopped"
       THEN /\ proc' = "running" /\ stop' = None /\ report' = FALSE
            /\ pending' = IF report THEN pending \union {stop} ELSE pending
       ELSE UNCHANGED <<proc, stop, report, pending>>
    /\ UNCHANGED <<armed, at, fate, freed, sent>>

-----------------------------------------------------------------------------
(* Steps of the tracee, of the kernel on its behalf, and of other programs.*)

\* The child calls PTRACE_TRACEME.  If ftrace has exited by then the child's
\* tracer is its new parent, which leaves it in the stop of its execve.
Traceme(alive) ==
    /\ proc = "running" /\ at = ForkReturn /\ pending = {}
    /\ at' = Execve
    /\ traced' = alive
    /\ proc' = IF alive THEN proc ELSE "frozen"
    /\ UNCHANGED <<armed, stop, report, pending, fate, freed, sent>>

\* PTRACE_TRACEME or execve failed.
ChildFails ==
    /\ proc = "running" /\ at < First /\ pending = {}
    /\ Dies("exit")
    /\ UNCHANGED <<traced, armed, pending, at, freed, sent>>

\* A traced execve stops the child before its first instruction.
Exec ==
    /\ proc = "running" /\ at = Execve /\ pending = {}
    /\ at' = First
    /\ IF traced THEN Stopped("TRAP") ELSE UNCHANGED <<proc, stop, report>>
    /\ UNCHANGED <<traced, armed, pending, fate, freed, sent>>

\* over: ftrace has ended.
RunStep(over) ==
    /\ proc = "running" /\ at >= First /\ pending = {}
    /\ freed' = IF over /\ freed < 2 THEN freed + 1 ELSE freed
    /\ IF at = Final
       THEN Dies("exit") /\ UNCHANGED <<at, pending>>
       ELSE /\ at' = at + 1
            /\ fate' = fate
            /\ IF armed /\ traced
               THEN Stopped("TRAP") /\ UNCHANGED pending
               ELSE /\ pending' = IF armed THEN {"TRAP"} ELSE {}
                    /\ UNCHANGED <<proc, stop, report>>
    /\ UNCHANGED <<traced, armed, sent>>

\* A traced process stops before it takes a signal; an untraced one takes it.
Deliver(s) ==
    /\ proc = "running" /\ s \in pending
    /\ pending' = pending \ {s}
    /\ IF traced THEN Stopped(s) /\ UNCHANGED fate
       ELSE IF s = "STOP"
       THEN proc' = "frozen" /\ UNCHANGED <<stop, report, fate>>
       ELSE Dies(s)
    /\ UNCHANGED <<traced, armed, at, freed, sent>>

\* Others send signals: nothing but SIGTERM before the execve, SIGSTOP only to
\* a traced process, which an attach therefore never finds in job control.
Send(s) ==
    /\ proc \in {"running", "stopped"} /\ s \notin pending /\ sent < MaxSent
    /\ s = "TERM" \/ (traced /\ at >= First)
    /\ pending' = pending \union {s}
    /\ sent' = sent + 1
    /\ UNCHANGED <<proc, traced, armed, stop, report, at, fate, freed>>

SendKill ==
    /\ Alive /\ sent < MaxSent
    /\ Dies("KILL")
    /\ sent' = sent + 1
    /\ UNCHANGED <<traced, armed, pending, at, freed>>
=============================================================================
