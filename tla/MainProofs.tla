----------------------------- MODULE MainProofs -----------------------------
(***************************************************************************)
(* Theorems about Main: how ftrace is started and what its exit status     *)
(* says, that its tracing session is TraceSession's, and that graph.dot is *)
(* the call graph of what the program executed.                            *)
(***************************************************************************)
EXTENDS Main, TraceSessionProofs

-----------------------------------------------------------------------------
(* The session.                                                            *)

\* Whatever Main does, its session does a step of its own or nothing.
LEMMA SessionStep == [MainNext]_all => [Next]_vars
BY DEF MainNext, all, session, Session, Leave, vars

\* ftrace as a whole behaves as the session does that TraceSession describes:
\* every theorem about TraceSession is one about Main.
THEOREM SessionOfMain == MainSpec => Spec
<1>1. MainInit => Init
  BY DEF MainInit
<1>. QED BY <1>1, SessionStep, PTL DEF MainSpec, Spec

-----------------------------------------------------------------------------
(* The search along PATH.                                                  *)

\* What is left behind an element, and what PATH is cut to.
LEMMA RestIsTail ==
    ASSUME NEW S, NEW s \in Seq(S), NEW n \in 1..Len(s)
    PROVE  /\ SubSeq(s, n + 1, Len(s)) \in Seq(S)
           /\ Len(SubSeq(s, n + 1, Len(s))) = Len(s) - n
           /\ \A i \in 1..(Len(s) - n) : SubSeq(s, n + 1, Len(s))[i] = s[n + i]
<1>1. Len(s) \in Nat /\ \A i \in (n + 1)..Len(s) : s[i] \in S
  BY LenProperties, ElementOfSeq
<1>2. /\ SubSeq(s, n + 1, Len(s)) \in Seq(S)
      /\ Len(SubSeq(s, n + 1, Len(s))) = IF n + 1 <= Len(s) THEN Len(s) - (n + 1) + 1
                                         ELSE 0
      /\ \A i \in 1..(Len(s) - (n + 1) + 1) :
            SubSeq(s, n + 1, Len(s))[i] = s[(n + 1) + i - 1]
  BY <1>1, SubSeqProperties
<1>. QED BY <1>1, <1>2

\* The search takes the elements of PATH one after the other.
LEMMA LauncherInit == MainInit => LauncherInv
<1>. SUFFICES ASSUME MainInit PROVE LauncherInv
  OBVIOUS
<1>1. /\ launch \in Launches /\ step = "main" /\ run = Nowhere
      /\ rest = launch.path /\ inherited = launch.path
  BY DEF MainInit, LaunchInit
<1>2. launch.path \in Seq(ToSet(launch.path)) /\ Len(launch.path) \in Nat
  BY <1>1, LauncherAssumption, LenProperties DEF IsLaunch
<1>. QED BY <1>1, <1>2 DEF LauncherInv, Tried, RunsTheFirst, Inherits

LEMMA LauncherNext == LauncherInv /\ [MainNext]_all => LauncherInv'
<1>. SUFFICES ASSUME LauncherInv, [MainNext]_all PROVE LauncherInv'
  OBVIOUS
<1>. DEFINE path == launch.path
            S == ToSet(path)
<1>0. /\ path \in Seq(S) /\ Len(path) \in Nat
      /\ rest \in Seq(S) /\ Len(rest) \in Nat
  BY LauncherAssumption, LenProperties DEF LauncherInv, IsLaunch
<1>1. CASE UNCHANGED launcher
  BY <1>1 DEF launcher, LauncherInv, Tried, InVain, CutOnce, RunsTheFirst, Inherits
<1>2. CASE Usage \/ TracePid
  BY <1>2 DEF Usage, TracePid, Exit, Goes, LauncherInv, Tried, InVain, CutOnce,
    RunsTheFirst, Inherits
<1>7. CASE TraceExec
  <2>1. /\ step = "main" /\ launch.arg \in {"./file", "file"}
        /\ step' = IF launch.arg = "./file" THEN "current" ELSE "search"
        /\ UNCHANGED <<launch, rest, inherited, run, code>>
    BY <1>7 DEF TraceExec, Goes
  <2>2. Tried = 0 /\ Tried' = 0 /\ InVain(0)'
    BY <1>0, <2>1 DEF LauncherInv, Tried, InVain
  <2>3. CutOnce' <=> CutOnce
    BY <2>1 DEF CutOnce
  <2>4. RunsTheFirst' /\ Inherits'
    BY <2>1 DEF LauncherInv, RunsTheFirst, Inherits
  <2>. QED BY <2>1, <2>2, <2>4 DEF LauncherInv, Tried
<1>3. CASE TraceExecFile \/ Current
  BY <1>3 DEF TraceExecFile, Current, Runs, Exit, LauncherInv, Tried, InVain,
    CutOnce, RunsTheFirst, Inherits
<1>4. CASE NotFound \/ NoMemory
  BY <1>4 DEF NotFound, NoMemory, Exit, LauncherInv, Tried, InVain, CutOnce,
    RunsTheFirst, Inherits
<1>5. CASE Leave
  BY <1>5 DEF Leave, Exit, LauncherInv, Tried, InVain, CutOnce, RunsTheFirst, Inherits
<1>6. CASE Search
  <2>. DEFINE k == Tried
  <2>. PICK u \in DOMAIN rest :
          /\ Returned(u)
          /\ inherited' = Cut(u) /\ rest' = SubSeq(rest, u + 1, Len(rest))
          /\ IF Finds(rest[u]) THEN run' = rest[u] /\ step' = "session"
             ELSE UNCHANGED <<run, step>>
    BY <1>6 DEF Search
  <2>1. /\ step = "search" /\ UNCHANGED <<launch, code>>
        /\ rest' = SubSeq(rest, u + 1, Len(rest)) /\ inherited' = Cut(u)
    BY <1>6 DEF Search
  <2>2. /\ u \in 1..Len(rest)
        /\ rest[u] # Empty /\ \A m \in 1..(u - 1) : rest[m] = Empty
    BY <1>0, LenProperties DEF Returned
  <2>3. /\ rest' \in Seq(S) /\ Len(rest') = Len(rest) - u
        /\ \A i \in 1..(Len(rest) - u) : rest'[i] = rest[u + i]
    BY <1>0, <2>1, <2>2, RestIsTail
  <2>4. /\ k \in Nat /\ k = Len(path) - Len(rest) /\ k + u <= Len(path)
        /\ \A i \in 1..Len(rest) : rest[i] = path[k + i]
        /\ launch.arg = "file" /\ InVain(k) /\ launch \in Launches
    BY <1>0, <2>1, <2>2 DEF LauncherInv, Tried
  <2>5. Tried' = k + u /\ k + u \in 1..Len(path) /\ k + u # 0
    <3>1. Tried' = Len(path) - Len(rest')
      BY <2>1 DEF Tried
    <3>2. Len(rest') = Len(rest) - u /\ u \in Nat /\ u > 0 /\ k \in Nat
      BY <1>0, <2>2, <2>3, <2>4
    <3>3. Len(rest) \in Nat /\ Len(path) \in Nat
      BY <1>0
    <3>4. k = Len(path) - Len(rest) /\ k + u <= Len(path)
      BY <2>4
    <3>5. Tried' = k + u
      BY ONLY <3>1, <3>2, <3>3, <3>4
    <3>6. k + u \in 1..Len(path) /\ k + u # 0
      BY ONLY <3>2, <3>3, <3>4
    <3>. QED BY ONLY <3>5, <3>6
  <2>6. \A i \in 1..Len(rest') : rest'[i] = path[(k + u) + i]
    <3>1. ASSUME NEW i \in 1..Len(rest')
          PROVE  /\ i \in 1..(Len(rest) - u) /\ u + i \in 1..Len(rest)
                 /\ k + (u + i) = (k + u) + i
      <4>1. /\ Len(rest') = Len(rest) - u /\ Len(rest) \in Nat
            /\ u \in 1..Len(rest) /\ k \in Nat
        BY <1>0, <2>2, <2>3, <2>4
      <4>. HIDE DEF k
      <4>. QED BY ONLY <4>1, i \in 1..Len(rest')
    <3>2. \A i \in 1..Len(rest') : rest'[i] = path[k + (u + i)]
      BY <2>3, <2>4, <3>1
    <3>. QED BY <3>1, <3>2
  <2>7. /\ path[k + u] = rest[u]
        /\ \A m \in (k + 1)..((k + u) - 1) : path[m] = Empty
    <3>1. ASSUME NEW m \in (k + 1)..((k + u) - 1)
          PROVE  m - k \in 1..(u - 1) /\ path[m] = rest[m - k]
      <4>1. m - k \in 1..(u - 1) /\ m - k \in 1..Len(rest) /\ k + (m - k) = m
        <5>1. /\ Len(rest) \in Nat /\ u \in 1..Len(rest) /\ k \in Nat
          BY <1>0, <2>2, <2>4
        <5>. HIDE DEF k
        <5>. QED BY ONLY <5>1, m \in (k + 1)..((k + u) - 1)
      <4>. QED BY <2>4, <4>1
    <3>. QED BY <2>2, <2>4, <3>1
  <2>8. CutOnce'
    <3>1. CASE k = 0
      <4>1. rest = path
        <5>1. Len(rest) = Len(path) /\ \A i \in 1..Len(rest) : rest[i] = path[i]
          BY <1>0, <2>4, <3>1
        <5>. QED BY ONLY <1>0, <5>1, SeqEqual
      <4>2. inherited' = SubSeq(path, 1, u)
        BY <2>1, <4>1 DEF Cut
      <4>3. u \in DOMAIN path /\ path[u] # Empty
            /\ \A m \in 1..(u - 1) : path[m] = Empty
        BY <1>0, <2>2, <4>1, LenProperties
      <4>. QED BY <2>1, <4>2, <4>3 DEF CutOnce
    <3>2. CASE k # 0
      <4>1. rest # path /\ CutOnce
        BY <1>0, <2>1, <2>4, <3>2 DEF LauncherInv, Tried
      <4>2. inherited' = inherited
        BY <2>1, <4>1 DEF Cut
      <4>. QED BY <2>1, <4>1, <4>2 DEF CutOnce
    <3>. QED BY <3>1, <3>2
  <2>9. \A m \in 1..((k + u) - 1) : path[m] \notin launch.executable \ {Empty}
    BY <2>2, <2>4, <2>7 DEF InVain
  <2>10. launch' = launch
    BY <2>1
  <2>11. (rest \in Seq(ToSet(launch.path)) /\ Len(rest) <= Len(launch.path))'
    BY <1>0, <2>2, <2>3, <2>4, <2>10
  <2>12. (\A i \in 1..Len(rest) : rest[i] = launch.path[Tried + i])'
    BY <2>5, <2>6, <2>10
  <2>13. CASE Finds(rest[u])
    <3>1. run' = path[k + u] /\ step' = "session"
      BY <2>7, <2>13
    <3>2. path[k + u] \in launch.executable /\ path[k + u] # Empty
      BY <2>2, <2>7, <2>13 DEF Finds
    <3>3. k + u \in DOMAIN path /\ path[k + u] \in ToSet(path)
      BY <1>0, <2>5, LenProperties, ElementOfSeq
    <3>4. RunsTheFirst'
      <4>1. launch' = launch
        BY <2>1
      <4>2. \E n \in DOMAIN path :
               /\ path[n] = run'
               /\ \A m \in 1..(n - 1) : path[m] \notin launch.executable \ {Empty}
        <5>1. \A m \in 1..((k + u) - 1) :
                 path[m] \notin launch.executable \ {Empty}
          BY <2>9
        <5>. HIDE DEF k, path
        <5>. QED BY ONLY <5>1, <3>1, <3>3
      <4>3. run' \in ToSet(path) \ {Empty} /\ run' \in launch.executable
        BY ONLY <3>1, <3>2, <3>3
      <4>. QED BY <4>1, <4>2, <4>3 DEF RunsTheFirst
    <3>5. Inherits'
      BY <2>1, <2>4, <2>8 DEF Inherits
    <3>. QED BY <2>1, <2>4, <2>10, <2>11, <2>12, <3>1, <3>4, <3>5 DEF LauncherInv
  <2>14. CASE ~Finds(rest[u])
    <3>1. run' = Nowhere /\ step' = "search"
      BY <2>1, <2>14 DEF LauncherInv
    <3>2. InVain(k + u)
      <4>1. path[k + u] \notin launch.executable
        BY <2>7, <2>14 DEF Finds
      <4>2. \A m \in 1..(k + u) : m \in 1..((k + u) - 1) \/ m = k + u
        <5>1. u \in Nat /\ k \in Nat
          BY <1>0, <2>2, <2>4
        <5>. HIDE DEF k
        <5>. QED BY ONLY <5>1
      <4>. QED BY <2>9, <4>1, <4>2 DEF InVain
    <3>3. InVain(Tried)'
      BY <2>1, <2>5, <3>2 DEF InVain
    <3>4. RunsTheFirst' /\ Inherits'
      BY <3>1 DEF RunsTheFirst, Inherits
    <3>5. (IF Tried = 0 THEN inherited = launch.path ELSE CutOnce)'
      BY <2>5, <2>8
    <3>. QED BY <2>1, <2>4, <2>10, <2>11, <2>12, <3>1, <3>3, <3>4, <3>5
             DEF LauncherInv
  <2>. QED BY <2>13, <2>14
<1>. QED BY <1>1, <1>2, <1>3, <1>4, <1>5, <1>6, <1>7
            DEF MainNext, Launch, Session, all

\* The file that is executed is the first one along PATH that may be, for
\* every PATH and every set of files.
THEOREM SearchCorrect == MainSpec => []RunsTheFirst
<1>1. LauncherInv => RunsTheFirst
  BY DEF LauncherInv
<1>. QED BY <1>1, LauncherInit, LauncherNext, PTL DEF MainSpec

\* PATH reaches a command that was looked for cut behind its first directory,
\* and any other whole.
THEOREM PathIsCut == MainSpec => []Inherits
<1>1. LauncherInv => Inherits
  BY DEF LauncherInv
<1>. QED BY <1>1, LauncherInit, LauncherNext, PTL DEF MainSpec

-----------------------------------------------------------------------------
(* The exit status.                                                        *)

\* A session that ended says how, and one that traced nothing touched nothing.
FailedInv ==
    /\ Over => ended # None
    /\ pc \in {"fork", "failed"} \/ ended = "failed" => Untouched

LEMMA FailedInit == Init => FailedInv
  BY DEF Init, FailedInv, Untouched, PtraceInit, Over, None

LEMMA FailedNext ==
    ASSUME TypeInv, CoverInv, FailedInv, [Next]_vars
    PROVE  FailedInv'
<1>. USE DEF Late, Early, Handling, Over, Goto, Only, Request, file, read, fixed,
             ends, tracee, Obeys, Alive, Gone, Dies, Stopped, First, ForkReturn,
             Execve, None, Stepping, Stepped
<1>. USE DEF FailedInv, Untouched
<1>0. /\ at \in Nat /\ start \in Nat
      /\ proc \in {"none", "running", "stopped", "frozen", "dead", "reaped"}
      /\ (pc = "fork" => proc = "none") /\ (pc = "attach" => mode = "pid")
      /\ pc \in {"fork", "attach", "failed"} => start = 0
      /\ ~Over => ended = "none"
  BY DEF TypeInv, TypeOK, PtraceTypeOK, CoverInv
<1>. USE <1>0
<1>1. CASE Fork \/ Attach \/ CatchSignal
  BY <1>1 DEF Fork, Attach, CatchSignal, ForkChild, AttachTo
<1>2. CASE LoadInfos \/ LoadFails BY <1>2 DEF LoadInfos, LoadFails
<1>3. CASE GiveUpFile \/ GiveUpLoad
  BY <1>3 DEF GiveUpFile, GiveUpLoad, GiveUp, Kill
<1>4. CASE WaitFirst \/ WaitStep
  BY <1>4 DEF WaitFirst, WaitStep, WaitPid, Wait, Waited
<1>5. CASE Test BY <1>5 DEF Test
<1>6. CASE GetRegs BY <1>6 DEF GetRegs
<1>7. CASE PeekText BY <1>7 DEF PeekText
<1>8. CASE Step BY <1>8 DEF Step, SingleStep
<1>9. CASE GetRegsReturn BY <1>9 DEF GetRegsReturn
<1>10. CASE PrintInstruction BY <1>10 DEF PrintInstruction
<1>11. CASE OpenDotfile BY <1>11 DEF OpenDotfile
<1>12. CASE StockFd \/ Header BY <1>12 DEF StockFd, Header
<1>13. CASE Format BY <1>13 DEF Format
<1>14. CASE Footer \/ CloseFd BY <1>14 DEF Footer, Brace, CloseFd, Close
<1>15. CASE Return \/ Failed BY <1>15 DEF Return, Failed, Ends, Release
<1>16. CASE HandlerFooter \/ HandlerClose
  BY <1>16 DEF HandlerFooter, HandlerClose, Brace, Close
<1>17. CASE HandlerLetGo BY <1>17 DEF HandlerLetGo, Kill, Detach
<1>18. CASE HandlerExit BY <1>18 DEF HandlerExit, Ends, Release
<1>19. CASE Tracee
  <2>1. CASE Traceme(~Over) BY <1>19, <2>1 DEF Tracee, Traceme
  <2>2. CASE ChildFails BY <1>19, <2>2 DEF Tracee, ChildFails
  <2>3. CASE Exec BY <1>19, <2>3 DEF Tracee, Exec
  <2>4. CASE RunStep(Over) BY <1>19, <2>4 DEF Tracee, RunStep
  <2>5. CASE \E s \in pending : Deliver(s) BY <1>19, <2>5 DEF Tracee, Deliver
  <2>. QED BY <1>19, <2>1, <2>2, <2>3, <2>4, <2>5 DEF Tracee
<1>20. CASE Others BY <1>20 DEF Others, Send, SendKill, SentSignals
<1>21. CASE \E s \in Catchable : Interrupt(s) BY <1>21 DEF Interrupt
<1>22. CASE Die BY <1>22 DEF Die, Ends, Release
<1>23. CASE UNCHANGED vars BY <1>23 DEF vars
<1>. QED BY <1>1, <1>2, <1>3, <1>4, <1>5, <1>6, <1>7, <1>8, <1>9, <1>10, <1>11,
            <1>12, <1>13, <1>14, <1>15, <1>16, <1>17, <1>18, <1>19, <1>20, <1>21,
            <1>22, <1>23 DEF Next, Ftrace

\* What main returns for a failure is no success.
LEMMA ReturnsFailure == Returns(0) # 0 /\ Returns(1) # 0 /\ FAILURE # 0
  BY DEF Returns, FAILURE

LEMMA LeftInit == MainInit => FailedInv /\ LeftInv
<1>. SUFFICES ASSUME MainInit PROVE FailedInv /\ LeftInv
  OBVIOUS
<1>1. Init /\ step = "main"
  BY DEF MainInit, LaunchInit
<1>2. start = 0 /\ (mode = "exec" => proc = "none") /\ ended = None
      /\ pc \in {"fork", "attach"}
  BY <1>1 DEF Init, PtraceInit
<1>. QED BY <1>1, <1>2, FailedInit
            DEF LeftInv, FailedInv, Untouched, FailureIsReported

LEMMA LeftNext ==
    ASSUME TypeInv, CoverInv, FailedInv, LeftInv, [MainNext]_all
    PROVE  FailedInv' /\ LeftInv'
<1>. USE DEF LeftInv, Untouched, FailureIsReported
<1>1. FailedInv'
  BY SessionStep, FailedNext
<1>2. FailedInv' => /\ (Over => ended # None)'
                    /\ (pc \in {"fork", "failed"} \/ ended = "failed" => Untouched)'
  BY DEF FailedInv
<1>3. CASE UNCHANGED all
  BY <1>1, <1>2, <1>3 DEF all, session, launcher, tracee, file, read, fixed, ends
<1>4. CASE Launch /\ UNCHANGED session
  <2>1. UNCHANGED <<start, mode, proc, ended, pc>>
    BY <1>4 DEF session, tracee, file, read, fixed, ends
  <2>2. step \in {"main", "current", "search"}
    BY <1>4 DEF Launch, Usage, TracePid, TraceExec, TraceExecFile, Current, NoMemory,
      Search, NotFound
  <2>3. step' \in {"current", "search", "session"} \/ (step' = "exit" /\ code' # 0)
    BY <1>4, ReturnsFailure DEF Launch, Usage, TracePid, TraceExec, TraceExecFile,
      Current, NoMemory, Search, NotFound, Exit, Goes, Runs
  <2>. QED BY <1>1, <1>2, <2>1, <2>2, <2>3 DEF None
<1>5. CASE Session
  <2>1. step = "session" /\ step' = "session"
    BY <1>5 DEF Session, launcher
  <2>. QED BY <1>1, <1>2, <2>1
<1>6. CASE Leave
  <2>1. UNCHANGED <<start, mode, proc, ended, pc>>
    BY <1>6 DEF Leave, session, tracee, file, read, fixed, ends
  <2>2. step' = "exit" /\ ended \in {"return", "failed", "handler"}
    BY <1>6 DEF Leave, Exit, TypeInv, TypeOK, None
  <2>3. code' = CASE ended = "return" -> 0
                  [] ended = "failed" -> Returns(0)
                  [] ended = "handler" -> FAILURE
    BY <1>6 DEF Leave, Exit
  <2>4. CASE ended = "return"
    BY <1>1, <1>2, <2>1, <2>2, <2>3, <2>4
  <2>5. CASE ended = "failed"
    <3>1. code' # 0
      BY <2>3, <2>5, ReturnsFailure
    <3>. QED BY <1>1, <1>2, <2>1, <2>2, <2>5, <3>1
  <2>6. CASE ended = "handler"
    <3>1. code' # 0
      BY <2>3, <2>6, ReturnsFailure
    <3>. QED BY <1>1, <1>2, <2>1, <2>2, <2>6, <3>1
  <2>. QED BY <2>2, <2>4, <2>5, <2>6
<1>. QED BY <1>3, <1>4, <1>5, <1>6 DEF MainNext

\* ftrace returns 0 if and only if trace_son ran to its end, and fails without
\* having started or read anything, but for an interrupt.
THEOREM StatusCorrect == MainSpec => []FailureIsReported
<1>1. LeftInv => FailureIsReported
  BY DEF LeftInv
<1>2. MainInit => Init
  BY DEF MainInit
<1>. QED BY <1>1, <1>2, SessionStep, TypeInit, TypeNext, ArmedInit, ArmedNext, StopInit,
            StopNext, PlaceInit, PlaceNext, CoverInit, CoverNext, LeftInit, LeftNext,
            PTL DEF MainSpec

-----------------------------------------------------------------------------
(* One displayed instruction.                                              *)

\* CallGraph's theorems, for the graph that Main draws.
P == INSTANCE CallGraphProofs WITH
    Stems <- Funcs, HasSymbols <- TRUE, Stem <- [f \in Funcs |-> f], Hazards <- {},
    MaxDepth <- 0, MaxTokens <- 0, frames <- <<>>

\* The graph of Main is one of CallGraph's.
LEMMA GraphAssumed == P!CallGraphAssumption
  BY DEF P!CallGraphAssumption

\* The instance the proofs are of says the same as the instance Main is of.
LEMMA SameGraph ==
    /\ P!Nodes = G!Nodes
    /\ P!Token = G!Token
    /\ P!Edges(dot) = G!Edges(dot)
    /\ P!Edges(dot') = G!Edges(dot')
    /\ P!DrawInv <=> G!DrawInv
    /\ P!DrawInv' <=> G!DrawInv'
<1>1. P!Nodes = G!Nodes
  BY DEF P!Nodes, G!Nodes
<1>2. P!Token = G!Token
  BY <1>1 DEF P!Token, G!Token
<1>3. \A l : P!Node(l) = G!Node(l)
  BY DEF P!Node, G!Node
<1>4. ASSUME NEW d PROVE P!Edges(d) = G!Edges(d)
  <2>1. \A i : P!IsEdge(d, i) <=> G!IsEdge(d, i)
    BY DEF P!IsEdge, G!IsEdge
  <2>. QED BY <2>1 DEF P!Edges, G!Edges
<1>5. P!DrawInv <=> G!DrawInv
  BY <1>3 DEF P!DrawInv, G!DrawInv, P!Last, G!Last
<1>6. P!DrawInv' <=> G!DrawInv'
  BY <1>3 DEF P!DrawInv, G!DrawInv, P!Last, G!Last
<1>. QED BY <1>1, <1>2, <1>4, <1>5, <1>6

\* print_instruction is the same operation in both.
LEMMA SamePrint ==
    ASSUME NEW line, G!print_instruction(line, TRUE)
    PROVE  P!print_instruction(line, TRUE)
<1>1. P!pop_function(list_func) = G!pop_function(list_func)
  BY DEF P!pop_function, G!pop_function
<1>2. P!get_function(list_func) = G!get_function(list_func)
  BY DEF P!get_function, G!get_function
<1>3. P!push_function(list_func, line.label, TRUE)
        = G!push_function(list_func, line.label, TRUE)
  BY DEF P!push_function, G!push_function, P!Cons, G!Cons
<1>4. \A l : P!Node(l) = G!Node(l) /\ P!Grey(l) = G!Grey(l)
  BY DEF P!Node, G!Node, P!Grey, G!Grey
<1>5. P!Newline = G!Newline /\ P!Arrow = G!Arrow
  BY DEF P!Newline, G!Newline, P!Arrow, G!Arrow
<1>6. P!Source(ret) = G!Source(ret)
  BY <1>2, <1>4, <1>5 DEF P!Source, G!Source
<1>7. P!Link(first) = G!Link(first)
  BY <1>5 DEF P!Link, G!Link
<1>8. P!Leaf(line) = G!Leaf(line)
  BY <1>4 DEF P!Leaf, G!Leaf
<1>9. P!Breaks(line) <=> G!Breaks(line)
  BY DEF P!Breaks, G!Breaks
<1>10. CASE line.mark = ">"
  <2>1. G!format_return /\ first' = TRUE
    BY <1>10 DEF G!print_instruction
  <2>2. P!format_return
    BY <1>1, <2>1 DEF P!format_return, G!format_return
  <2>. QED BY <1>10, <2>1, <2>2 DEF P!print_instruction
<1>11. CASE line.mark # ">"
  <2>1. G!format_node(line, TRUE) /\ first' = TRUE
    BY <1>11 DEF G!print_instruction
  <2>2. dot' = dot \o P!Source(ret) \o P!Link(first) \o <<P!Node(line.label)>>
                   \o P!Leaf(line)
    BY <1>4, <1>6, <1>7, <1>8, <2>1 DEF G!format_node
  <2>3. list_func' = IF line.mark = "@" THEN list_func
                     ELSE P!push_function(list_func, line.label, TRUE)
    BY <1>3, <2>1 DEF G!format_node
  <2>4. ret' = P!Breaks(line)
    BY <2>1 DEF G!format_node, P!Breaks, G!Breaks
  <2>5. P!format_node(line, TRUE)
    BY <2>2, <2>3, <2>4 DEF P!format_node
  <2>. QED BY <1>11, <2>1, <2>5 DEF P!print_instruction
<1>. QED BY <1>10, <1>11

\* The line of an instruction that is displayed.
LEMMA LineOf ==
    ASSUME NEW instr \in Ops, instr.do # "plain"
    PROVE  /\ Line(instr) \in P!Line
           /\ Line(instr).mark = CASE instr.do = "call" -> "call"
                                   [] instr.do = "syscall" -> "@"
                                   [] instr.do = "return" -> ">"
           /\ instr.do # "return" => Line(instr).label = instr.label
<1>1. /\ instr.do \in {"call", "syscall", "return"}
      /\ instr.do = "call" => instr.label \in Funcs
      /\ instr.do = "syscall" => instr.label \in Syscalls
  BY DEF Ops
<1>2. /\ Blank \in P!Nodes /\ Syscalls \subseteq P!Nodes /\ Funcs \subseteq P!Nodes
  BY DEF P!Nodes
<1>3. instr.do = "call" => G!Label(instr.label) = instr.label
  BY <1>1 DEF G!Label
<1>. QED BY <1>1, <1>2, <1>3
            DEF Line, P!Line, G!CallLine, G!SyscallLine, G!ReturnLine

\* What it draws is what executing it adds to the call tree.
LEMMA Draws ==
    ASSUME DotInv, NEW instr \in Ops, instr.do # "plain",
           G!print_instruction(Line(instr), TRUE)
    PROVE  Drawn' = Event(Drawn, instr) /\ G!DrawInv' /\ first' = TRUE
<1>. DEFINE line == Line(instr)
<1>1. P!TypeOK /\ P!DrawInv
  <2>1. list_func \in Seq(P!Nodes) /\ dot \in Seq(P!Token)
    BY SameGraph DEF DotInv
  <2>2. <<>> \in Seq(Funcs)
    BY EmptySeq
  <2>. QED BY <2>1, <2>2, SameGraph DEF P!TypeOK, DotInv
<1>2. P!print_instruction(line, TRUE)
  BY SamePrint
<1>3. line \in P!Line
  BY LineOf
<1>4. CASE instr.do \in {"call", "syscall"}
  <2>1. line.mark # ">" /\ line.label = instr.label
        /\ line.mark = IF instr.do = "syscall" THEN "@" ELSE "call"
    BY <1>4, LineOf
  <2>. HIDE DEF line
  <2>2. /\ P!DrawInv' /\ first' = TRUE /\ dot' # <<>>
        /\ list_func' = IF line.mark = "@" THEN list_func
                        ELSE Cons(line.label, list_func)
        /\ P!Edges(dot') =
             IF dot # <<>> \/ ret
             THEN P!Edges(dot) \union {<<P!get_function(list_func), line.label>>}
             ELSE P!Edges(dot)
    <3>1. /\ P!DrawInv' /\ first' = TRUE /\ dot' # <<>>
          /\ list_func' = IF line.mark = "@" THEN list_func
                          ELSE P!Cons(line.label, list_func)
          /\ P!Edges(dot') =
               IF dot # <<>> \/ ret
               THEN P!Edges(dot) \union {<<P!get_function(list_func), line.label>>}
               ELSE P!Edges(dot)
      BY <1>1, <1>2, <1>3, <2>1, GraphAssumed, P!NodeDraws
    <3>. QED BY <3>1 DEF Cons, P!Cons
  <2>3. Drawn' = Event(Drawn, instr)
    BY <1>4, <2>1, <2>2, SameGraph DEF Drawn, Event, P!get_function
  <2>. QED BY <2>2, <2>3, SameGraph
<1>5. CASE instr.do = "return"
  <2>1. line.mark = ">"
    BY <1>5, LineOf
  <2>. HIDE DEF line
  <2>2. /\ P!DrawInv' /\ first' = TRUE /\ dot' = dot /\ ret' = TRUE
        /\ list_func' = P!pop_function(list_func)
    BY <1>1, <1>2, <1>3, <2>1, GraphAssumed, P!ReturnDraws
  <2>3. Drawn' = Event(Drawn, instr)
    BY <1>5, <2>2 DEF Drawn, Event, P!pop_function
  <2>. QED BY <2>2, <2>3, SameGraph
<1>. QED BY <1>4, <1>5 DEF Ops

\* It leaves the statics in their types.
LEMMA DrawsTyped ==
    ASSUME DotInv, NEW instr \in Ops, instr.do # "plain",
           G!print_instruction(Line(instr), TRUE)
    PROVE  /\ list_func' \in Seq(G!Nodes) /\ dot' \in Seq(G!Token)
           /\ ret' \in BOOLEAN /\ first' \in BOOLEAN
<1>1. P!TypeOK
  <2>1. list_func \in Seq(P!Nodes) /\ dot \in Seq(P!Token)
    BY SameGraph DEF DotInv
  <2>2. <<>> \in Seq(Funcs)
    BY EmptySeq
  <2>. QED BY <2>1, <2>2 DEF P!TypeOK, DotInv
<1>2. P!print_instruction(Line(instr), TRUE)
  BY SamePrint
<1>3. P!PrinterTypeOK'
  BY <1>1, <1>2, LineOf, GraphAssumed, P!PrintType
<1>. QED BY <1>3, SameGraph DEF P!PrinterTypeOK

-----------------------------------------------------------------------------
(* What is drawn.                                                          *)

\* A step of Main is one of its session, or leaves the session and the graph.
SessionSteps ==
    Next /\ FormatDotfile /\ tree' = IF Executed THEN After(tree) ELSE tree

LEMMA MainSteps ==
    ASSUME [MainNext]_all
    PROVE  SessionSteps \/ UNCHANGED <<session, format_dotfile, tree>>
BY DEF MainNext, Session, Leave, all, SessionSteps

\* Nothing but the end of print_instruction displays or draws.
LEMMA Outputs ==
    ASSUME Next, FormatDotfile
    PROVE  Format \/ UNCHANGED <<shown, first, list_func, ret, dot>>
<1>. USE DEF Goto, Only, Request, file, read, fixed, ends
<1>1. ASSUME Ftrace, ~Format PROVE UNCHANGED <<shown, first>> /\ ~Displays
  BY <1>1 DEF Displays, Ftrace, Fork, Attach, CatchSignal, LoadInfos, LoadFails,
     GiveUpFile, GiveUpLoad, GiveUp, WaitFirst, WaitPid, Test, GetRegs, PeekText, Step,
     WaitStep, GetRegsReturn, PrintInstruction, OpenDotfile, StockFd, Header, Footer,
     Brace, CloseFd, Close, Return, Failed, Ends, HandlerFooter, HandlerClose,
     HandlerLetGo, HandlerExit
<1>2. ASSUME ~Ftrace PROVE UNCHANGED <<shown, first>> /\ ~Displays
  BY <1>2 DEF Next, Displays, Tracee, Others, Interrupt, Die, Ends
<1>3. UNCHANGED <<shown, first>> /\ ~Displays => UNCHANGED <<list_func, ret, dot>>
  BY DEF FormatDotfile, format_dotfile
<1>. QED BY <1>1, <1>2, <1>3

\* Once an instruction was read, only execution moves the tracee.
LEMMA Executes ==
    ASSUME TypeInv, [Next]_vars, at >= First
    PROVE  \/ at' = at
           \/ /\ RunStep(Over) /\ proc = "running" /\ pending = {} /\ at' = at + 1
              /\ UNCHANGED <<file, read, fixed, ends, pc>>
<1>1. CASE UNCHANGED at
  BY <1>1
<1>2. CASE Tracee
  BY <1>2, Bounds
       DEF Tracee, Traceme, ChildFails, Exec, RunStep, Deliver, First,
           ForkReturn, Execve, Dies
<1>3. ASSUME ~Tracee PROVE UNCHANGED at
  BY <1>3 DEF Next, vars, Ftrace, Fork, Attach, CatchSignal, LoadInfos, LoadFails,
     GiveUpFile, GiveUpLoad, GiveUp, WaitFirst, WaitPid, Test, GetRegs, PeekText, Step,
     WaitStep, GetRegsReturn, PrintInstruction, OpenDotfile, StockFd, Header, Format,
     Footer, CloseFd, Return, Failed, Ends, HandlerFooter, HandlerClose,
     HandlerLetGo, HandlerExit, Others, Send, SendKill, Interrupt, Die, ForkChild,
     AttachTo, SingleStep, Detach, Kill, Wait, Release, tracee, Only, Request
<1>. QED BY <1>1, <1>2, <1>3

\* The other steps, by what they leave alone and how they get on.
Printing == {"open", "stock", "header", "format"}
Leaving == {"footer", "close", "return"}

\* The tracee executes an instruction.
Ran ==
    /\ RunStep(Over) /\ proc = "running" /\ pending = {}
    /\ UNCHANGED <<file, read, fixed, ends, pc>>

\* Nothing is executed, read or displayed.
Quiet ==
    /\ UNCHANGED <<program, regs, word, start, shown, first, freed>>
    /\ at' = at \/ at < First
    /\ pc' \in Stepping => pc \in Stepping
    /\ pc' \in Stepped /\ Signalled' => at = regs \/ (pc \in Stepped /\ Signalled)
    /\ pc' \in Stepped \ {"wait"} => pc \in Stepped
    /\ pc' \in Printing => pc \in Printing \/ (pc = "print" /\ word # "plain")
    /\ pc' = "test" =>
         \/ pc = "wait_first"
         \/ /\ pc = "test" \/ (pc = "print" /\ word = "plain")
            /\ Signalled' => Signalled
    /\ pc' = "getregs" => pc \in {"test", "getregs"}
    /\ pc' = "peek" => pc = "peek"
    /\ pc' \in Leaving =>
         /\ \/ pc \in Leaving \/ pc = "giveup"
            \/ pc = "test" /\ (Gone \/ (proc = "stopped" /\ stop = "TERM"))
         /\ proc = "stopped" => proc' = "stopped" \/ Gone'
    /\ ended' = "return" => ended = "return" \/ pc = "return"
    /\ armed => armed' \/ pc = "h_let_go"
    /\ "TRAP" \in pending => "TRAP" \in pending' \/ Gone'

\* Four kinds of steps matter to what is displayed and drawn; all others are quiet.
LEMMA StepKinds ==
    ASSUME TypeInv, ArmedInv, StopInv, PlaceInv, CoverInv, Next
    PROVE  Format \/ GetRegs \/ PeekText \/ Ran \/ Quiet
<1>. USE DEF Late, Early, Handling, Over, Goto, Only, Request, file, read, fixed,
             ends, tracee, Obeys, Alive, Gone, Dies, Stopped, First, ForkReturn,
             Execve, None, Stepping, Stepped
<1>. USE DEF Quiet, Signalled, Printing, Leaving
<1>0. /\ proc \in {"none", "running", "stopped", "frozen", "dead", "reaped"}
      /\ pending \subseteq {"TRAP", "STOP", "TERM"}
      /\ stop \in {"none", "TRAP", "STOP", "TERM"}
      /\ stop # "none" <=> proc = "stopped"
      /\ (pc = "fork" => proc = "none") /\ (pc = "attach" => mode = "pid")
  BY DEF TypeInv, TypeOK, PtraceTypeOK
<1>asks. /\ pc \in Asking =>
              Gone \/ (traced /\ proc = "stopped" /\ status = <<"stopped", stop>>)
         /\ pc = "wait" => Gone \/ (armed /\ traced /\ at >= First)
  BY DEF StopInv, ArmedInv, Asking
<1>runs. pc = "wait" /\ proc = "running" => regs = at
  BY DEF PlaceInv
<1>trap. "TRAP" \notin pending \/ ~traced
  BY DEF ArmedInv
<1>. USE <1>0, <1>asks, <1>runs, <1>trap DEF Asking
<1>1. CASE Fork \/ Attach \/ CatchSignal
  BY <1>1 DEF Fork, Attach, CatchSignal, ForkChild, AttachTo
<1>2. CASE LoadInfos \/ LoadFails BY <1>2 DEF LoadInfos, LoadFails
<1>3. CASE GiveUpFile \/ GiveUpLoad
  BY <1>3 DEF GiveUpFile, GiveUpLoad, GiveUp, Kill
<1>4. CASE WaitFirst \/ WaitStep
  BY <1>4 DEF WaitFirst, WaitStep, WaitPid, Wait, Waited
<1>5. CASE Test BY <1>5 DEF Test, StillTraced
<1>6. CASE GetRegs
  BY <1>6
<1>7. CASE PeekText
  BY <1>7
<1>8. CASE Step BY <1>8 DEF Step, SingleStep
<1>9. CASE GetRegsReturn BY <1>9 DEF GetRegsReturn
<1>10. CASE PrintInstruction BY <1>10 DEF PrintInstruction
<1>11. CASE OpenDotfile BY <1>11 DEF OpenDotfile
<1>12. CASE StockFd \/ Header BY <1>12 DEF StockFd, Header
<1>13. CASE Format
  BY <1>13
<1>14. CASE Footer \/ CloseFd BY <1>14 DEF Footer, Brace, CloseFd, Close
<1>15. CASE Return \/ Failed BY <1>15 DEF Return, Failed, Ends, Release
<1>16. CASE HandlerFooter \/ HandlerClose
  BY <1>16 DEF HandlerFooter, HandlerClose, Brace, Close
<1>17. CASE HandlerLetGo BY <1>17 DEF HandlerLetGo, Kill, Detach
<1>18. CASE HandlerExit BY <1>18 DEF HandlerExit, Ends, Release
<1>19. CASE Tracee
  <2>1. CASE Traceme(~Over) BY <1>19, <2>1, Bounds DEF Tracee, Traceme
  <2>2. CASE ChildFails BY <1>19, <2>2 DEF Tracee, ChildFails
  <2>3. CASE Exec BY <1>19, <2>3, Bounds DEF Tracee, Exec
  <2>4. CASE RunStep(Over)
    BY <1>19, <2>4 DEF Tracee, RunStep, Ran
  <2>5. CASE \E s \in pending : Deliver(s) BY <1>19, <2>5 DEF Tracee, Deliver
  <2>. QED BY <1>19, <2>1, <2>2, <2>3, <2>4, <2>5 DEF Tracee
<1>20. CASE Others BY <1>20 DEF Others, Send, SendKill, SentSignals
<1>21. CASE \E s \in Catchable : Interrupt(s) BY <1>21 DEF Interrupt
<1>22. CASE Die BY <1>22 DEF Die, Ends, Release
<1>. QED BY <1>1, <1>2, <1>3, <1>4, <1>5, <1>6, <1>7, <1>8, <1>9, <1>10, <1>11,
            <1>12, <1>13, <1>14, <1>15, <1>16, <1>17, <1>18, <1>19, <1>20, <1>21,
            <1>22 DEF Next, Ftrace

\* What the session's theorems say of every state.
SessionInv == TypeInv /\ ArmedInv /\ StopInv /\ PlaceInv /\ CoverInv /\ OutliveInv

\* A displayed instruction is one of the program; it is drawn last, and behind
\* no other.
LEMMA FormatDraws ==
    ASSUME SessionInv, ReadInv, Format
    PROVE  /\ pc = "format" /\ pc' = "test"
           /\ UNCHANGED <<tracee, program, regs, word, start, ended, at, stop, proc>>
           /\ ShownAt' = IF word = "call" THEN ShownAt \union {regs} ELSE ShownAt
           /\ word = "call" => shown'[Len(shown')].at = regs
           /\ word # "call" => shown' = shown /\ word = "silent"
           /\ start = 0 => word = "silent"
<1>1. /\ pc = "format" /\ pc' = "test"
      /\ UNCHANGED <<tracee, program, regs, word, start, ended>>
  BY DEF Format, Goto, fixed, ends
<1>2. UNCHANGED <<at, stop, proc>>
  BY <1>1 DEF tracee
<1>3. /\ word # "call" => shown' = shown
      /\ word = "call" =>
           /\ DOMAIN shown' = 1..(Len(shown) + 1) /\ Len(shown') = Len(shown) + 1
           /\ \A i \in 1..Len(shown) : shown'[i] = shown[i]
           /\ shown'[Len(shown) + 1] = [at |-> regs, after |-> regs_return]
  BY FormatShows DEF SessionInv
<1>4. DOMAIN shown = 1..Len(shown) /\ Len(shown) \in Nat
  BY ShownType DEF SessionInv
<1>5. ShownAt' = IF word = "call" THEN ShownAt \union {regs} ELSE ShownAt
  <2>1. CASE word = "call"
    <3>1. ShownAt' = {shown'[i].at : i \in 1..(Len(shown) + 1)}
      BY <1>3, <2>1 DEF ShownAt
    <3>2. ShownAt = {shown[i].at : i \in 1..Len(shown)}
      BY <1>4 DEF ShownAt
    <3>. QED BY <1>3, <1>4, <2>1, <3>1, <3>2
  <2>2. CASE word # "call" BY <1>3, <2>2 DEF ShownAt
  <2>. QED BY <2>1, <2>2
<1>6. word \in Kinds
  BY DEF SessionInv, TypeInv, TypeOK
<1>7. word # "plain" /\ (start = 0 => word = "silent")
  BY <1>1 DEF ReadInv, Stepping
<1>. QED BY <1>1, <1>2, <1>3, <1>5, <1>6, <1>7 DEF Kinds

LEMMA ReadInit == MainInit => ReadInv
<1>. SUFFICES ASSUME MainInit PROVE ReadInv
  OBVIOUS
<1>1. /\ shown = <<>> /\ start = 0 /\ first = FALSE /\ dot = <<>> /\ tree = NoTree
      /\ pc \in {"attach", "fork"}
  BY DEF MainInit, Init
<1>2. ShownAt = {}
  BY <1>1 DEF ShownAt
<1>. QED BY <1>1, <1>2 DEF ReadInv, Stepping, Stepped

\* What is read is where the tracee stands, and what is displayed behind it.
LEMMA ReadNext ==
    ASSUME SessionInv, ReadInv, SessionSteps
    PROVE  ReadInv'
<1>. DEFINE Shows == \A p \in ShownAt : program[p] = "call" /\ p <= shown[Len(shown)].at
            Behind == \A p \in ShownAt : p <= regs
<1>0. /\ at \in Nat /\ regs \in Nat /\ start \in Nat /\ word \in Kinds
      /\ stop \in {"none", "TRAP", "STOP", "TERM"}
      /\ stop # "none" <=> proc = "stopped"
      /\ Final \in Nat /\ at <= Final /\ First = 2
  BY Bounds DEF SessionInv, TypeInv, TypeOK, PtraceTypeOK, ForkReturn, None
<1>1. /\ Shows
      /\ pc \in Printing => word # "plain"
      /\ IF start # 0 THEN at >= First
         ELSE /\ shown = <<>> /\ dot = <<>> /\ tree = NoTree
              /\ first \/ pc = "peek" \/ pc \in Stepping => Gone
              /\ pc \in Stepping => word = "silent"
      /\ pc \in Stepping =>
           \/ word = "silent" /\ Gone
           \/ /\ regs \in First..Final /\ word = program[regs]
              /\ at \in {regs, regs + 1} /\ Behind
      /\ pc \in Stepped /\ Signalled => at = regs
      /\ pc = "test" /\ start # 0 /\ Signalled => Seen
  BY DEF ReadInv, Printing
<1>2. /\ Next
      /\ start = 0 => tree' = tree
      /\ Format \/ UNCHANGED <<shown, first, list_func, ret, dot>>
  BY Outputs DEF SessionSteps, Executed
<1>3. ReadInv' <=>
      /\ Shows'
      /\ pc' \in Printing => word' # "plain"
      /\ IF start' # 0 THEN at' >= First
         ELSE /\ shown' = <<>> /\ dot' = <<>> /\ tree' = NoTree
              /\ first' \/ pc' = "peek" \/ pc' \in Stepping => Gone'
              /\ pc' \in Stepping => word' = "silent"
      /\ pc' \in Stepping =>
           \/ word' = "silent" /\ Gone'
           \/ /\ regs' \in First..Final /\ word' = program'[regs']
              /\ at' \in {regs', regs' + 1} /\ Behind'
      /\ pc' \in Stepped /\ Signalled' => at' = regs'
      /\ pc' = "test" /\ start' # 0 /\ Signalled' => Seen'
  BY DEF ReadInv, Printing
<1>4. /\ UNCHANGED <<shown, program>> => (Shows => Shows')
      /\ UNCHANGED <<shown, regs>> => (Behind => Behind')
      /\ UNCHANGED <<shown, program, at>> => (Seen => Seen')
  BY DEF ShownAt, Seen
<1>5. Gone => Gone' /\ at' = at
  BY <1>2, StaysGone DEF SessionInv
<1>6. /\ pc \in Asking => Gone \/ proc = "stopped"
      /\ pc \in {"getregs", "peek", "step"} /\ ~Gone => Obeys /\ at >= First
      /\ pc \in Early => start = 0
  BY DEF SessionInv, StopInv, CoverInv, StillTraced, Asking, Obeys
<1>7. CASE Format
  <2>1. /\ pc = "format" /\ pc' = "test"
        /\ UNCHANGED <<program, regs, word, start, at>>
        /\ Signalled' = Signalled
    BY <1>7, FormatDraws DEF Signalled
  <2>2. CASE word = "call"
    <3>1. /\ ShownAt' = ShownAt \union {regs} /\ shown'[Len(shown')].at = regs
          /\ start # 0 /\ program[regs] = "call" /\ Behind
      BY <1>1, <1>7, <2>1, <2>2, FormatDraws DEF Stepping
    <3>2. Shows'
      BY <1>0, <1>1, <2>1, <3>1
    <3>3. Signalled => Seen'
      BY <1>1, <2>1, <3>1 DEF Seen, Stepped
    <3>. QED BY <1>1, <1>3, <2>1, <3>1, <3>2, <3>3 DEF Stepping, Stepped, Printing
  <2>3. CASE word # "call"
    <3>1. shown' = shown /\ word = "silent" /\ (start = 0 => Gone')
      BY <1>1, <1>5, <1>7, <2>1, <2>3, FormatDraws DEF Stepping
    <3>2. first' = TRUE /\ dot' = dot
      BY <1>7, <2>1, <2>3 DEF SessionSteps, FormatDotfile, Displays, G!print_nothing
    <3>3. Signalled => Seen'
      <4>1. SUFFICES ASSUME Signalled PROVE Seen
        BY <1>4, <2>1, <3>1
      <4>2. at = regs /\ ~Gone
        BY <1>0, <1>1, <2>1, <4>1 DEF Stepped, Signalled, Gone
      <4>. QED BY <1>1, <2>1, <3>1, <4>2 DEF Seen, Stepping
    <3>. QED BY <1>1, <1>2, <1>3, <1>4, <2>1, <3>1, <3>2, <3>3
                DEF Stepping, Stepped, Printing
  <2>. QED BY <2>2, <2>3
<1>8. CASE GetRegs
  <2>1. /\ pc = "getregs" /\ pc' = "peek"
        /\ UNCHANGED <<word, program, at, proc, shown, dot>>
    BY <1>2, <1>8 DEF GetRegs, Goto, tracee, fixed, Format
  <2>2. /\ IF Obeys THEN start' # 0 /\ at >= First ELSE start' = start /\ Gone
    BY <1>0, <1>6, <1>8, <2>1 DEF GetRegs, Asking, Gone, Obeys
  <2>. QED BY <1>1, <1>2, <1>3, <1>4, <1>5, <2>1, <2>2
              DEF Stepping, Stepped, Printing
<1>9. CASE PeekText
  <2>1. /\ pc = "peek" /\ pc' = "step"
        /\ UNCHANGED <<program, at, proc, shown, dot, regs, start, first>>
    BY <1>2, <1>9 DEF PeekText, Goto, tracee, fixed, Format, file
  <2>2. CASE Obeys
    <3>1. regs = at /\ at >= First
      BY <1>6, <2>1, <2>2 DEF SessionInv, PlaceInv, Obeys, Gone
    <3>2. word' = program[regs] /\ start # 0
      <4>1. ~Gone BY <2>2 DEF Obeys, Gone
      <4>. QED BY <1>0, <1>1, <1>9, <2>1, <2>2, <3>1, <4>1 DEF PeekText
    <3>3. Behind
      BY <3>1 DEF SessionInv, PlaceInv
    <3>. QED BY <1>0, <1>1, <1>2, <1>3, <1>4, <2>1, <3>1, <3>2, <3>3
                DEF Stepping, Stepped, Printing
  <2>3. CASE ~Obeys
    <3>1. Gone /\ word' = "silent"
      BY <1>6, <1>9, <2>1, <2>3 DEF PeekText, Asking
    <3>. QED BY <1>1, <1>2, <1>3, <1>4, <1>5, <2>1, <3>1
                DEF Stepping, Stepped, Printing
  <2>. QED BY <2>2, <2>3
<1>10. CASE Ran
  <2>1. /\ UNCHANGED <<pc, shown, first, regs, word, start, program, dot>> /\ ~Gone
        /\ pc \notin Asking
    BY <1>2, <1>6, <1>10 DEF Ran, file, read, fixed, Gone, Format, Goto
  <2>2. at >= First /\ at' \in {at, at + 1} /\ (at' = at + 1 => at < Final)
    BY <1>0, <1>10 DEF Ran, RunStep
  <2>3. pc = "wait" => armed /\ traced /\ regs = at
    BY <1>10, <2>1 DEF Ran, SessionInv, StopInv, ArmedInv, PlaceInv, Over
  <2>4. pc = "wait" => ~Signalled'
    BY <1>0, <1>10, <2>3 DEF Ran, RunStep, Signalled, Stopped, Dies, None
  <2>5. pc \in Stepping \/ pc \in Stepped => pc = "wait"
    BY <2>1 DEF Stepping, Stepped, Asking
  <2>6. pc # "test"
    BY <2>1 DEF Asking
  <2>. QED BY <1>0, <1>1, <1>2, <1>3, <1>4, <2>1, <2>2, <2>3, <2>4, <2>5, <2>6
              DEF Printing
<1>11. CASE Quiet
  <2>1. /\ UNCHANGED <<program, regs, word, start, shown, first>>
        /\ at' = at \/ at < First
    BY <1>11 DEF Quiet
  <2>2. /\ pc' \in Stepping => pc \in Stepping
        /\ pc' \in Stepped /\ Signalled'
             => at = regs \/ (pc \in Stepped /\ Signalled)
        /\ pc' \in Printing => pc \in Printing \/ (pc = "print" /\ word # "plain")
        /\ pc' = "test" => \/ pc = "wait_first"
                           \/ /\ pc = "test" \/ (pc = "print" /\ word = "plain")
                              /\ Signalled' => Signalled
        /\ pc' = "peek" => pc = "peek"
    BY <1>11 DEF Quiet
  <2>3. UNCHANGED <<list_func, ret, dot>>
    BY <1>2, <1>11 DEF Format, Quiet, Goto
  <2>4. CASE start = 0
    <3>1. start' = 0 /\ shown' = <<>> /\ dot' = <<>> /\ tree' = NoTree
      BY <1>1, <1>2, <2>1, <2>3, <2>4
    <3>. QED BY <1>1, <1>3, <1>4, <1>5, <2>1, <2>2, <2>4, <3>1 DEF Stepping, Stepped
  <2>5. CASE start # 0
    <3>1. at' = at
      BY <1>0, <1>1, <2>1, <2>5
    <3>2. pc # "wait_first"
      BY <1>6, <2>5 DEF Early
    <3>3. pc = "print" /\ word = "plain" => (Signalled => Seen)
      BY <1>1 DEF Seen, Stepping, Stepped
    <3>. QED BY <1>0, <1>1, <1>3, <1>4, <1>5, <2>1, <2>2, <2>5, <3>1, <3>2, <3>3
         DEF Stepping, Stepped
  <2>. QED BY <2>4, <2>5
<1>. QED BY <1>2, <1>7, <1>8, <1>9, <1>10, <1>11, StepKinds DEF SessionInv

\* What every session's start is.
LEMMA SessionInit == MainInit => SessionInv
BY TypeInit, ArmedInit, StopInit, PlaceInit, CoverInit, OutliveInit
   DEF MainInit, SessionInv

LEMMA SessionNext ==
    ASSUME SessionInv, [MainNext]_all
    PROVE  SessionInv'
BY SessionStep, TypeNext, ArmedNext, StopNext, PlaceNext, CoverNext, OutliveNext
   DEF SessionInv

\* At the end nothing is left running that was not displayed.
LEMMA LastInit == MainInit => LastInv
BY DEF MainInit, Init, LastInv

LEMMA LastNext ==
    ASSUME SessionInv, ReadInv, LastInv, SessionSteps
    PROVE  LastInv'
<1>0. /\ at \in Nat /\ start \in Nat /\ freed \in 0..2
      /\ stop \in {"none", "TRAP", "STOP", "TERM"}
      /\ stop # "none" <=> proc = "stopped"
      /\ (~Over => ended = "none") /\ (ended = "return" => Over)
      /\ (~Over => freed = 0)
      /\ (Over => ~traced)
      /\ First = 2
  <2>1. /\ at \in ForkReturn..Final /\ start \in 0..Final /\ freed \in 0..2
        /\ stop \in {"none", "TRAP", "STOP", "TERM"}
        /\ stop # "none" <=> proc = "stopped"
    BY DEF SessionInv, TypeInv, TypeOK, PtraceTypeOK, None
  <2>2. ~Over => ended = "none"
    BY DEF SessionInv, TypeInv, None
  <2>3. (~Over => freed = 0) /\ (Over => ~traced)
    BY DEF SessionInv, OutliveInv, ArmedInv
  <2>. QED BY <2>1, <2>2, <2>3, Bounds
<1>1. start # 0 =>
        /\ pc \in Asking => armed \/ Gone \/ pc \in {"peek", "step"}
        /\ pc \in Leaving => Gone \/ (proc = "stopped" /\ armed /\ Seen)
        /\ ended = "return" =>
             IF freed = 0 THEN Gone \/ (armed /\ Seen)
             ELSE freed = 1 /\ (Gone \/ "TRAP" \in pending)
  BY DEF LastInv, Leaving
<1>2. Next /\ (Format \/ UNCHANGED <<shown, first, list_func, ret, dot>>)
  BY Outputs DEF SessionSteps
<1>3. LastInv' <=> (start' # 0 =>
        /\ pc' \in Asking => armed' \/ Gone' \/ pc' \in {"peek", "step"}
        /\ pc' \in Leaving => Gone' \/ (proc' = "stopped" /\ armed' /\ Seen')
        /\ ended' = "return" =>
             IF freed' = 0 THEN Gone' \/ (armed' /\ Seen')
             ELSE freed' = 1 /\ (Gone' \/ "TRAP" \in pending'))
  BY DEF LastInv, Leaving
<1>4. UNCHANGED <<shown, program, at>> => (Seen => Seen')
  BY DEF ShownAt, Seen
<1>5. Gone => Gone' /\ at' = at
  BY <1>2, StaysGone DEF SessionInv
<1>6. /\ pc \in Asking => Gone \/ proc = "stopped"
      /\ pc \in Early => start = 0
      /\ start # 0 => at >= First
      /\ pc = "test" /\ start # 0 /\ Signalled => Seen
      /\ pc = "wait" => Gone \/ armed
  BY DEF SessionInv, StopInv, CoverInv, ReadInv, Asking
<1>7. CASE Format
  <2>1. /\ pc = "format" /\ pc' = "test" /\ start' = start /\ ended' = ended
        /\ UNCHANGED tracee
    BY <1>7, FormatDraws
  <2>2. armed' = armed /\ ended' # "return"
    BY <1>0, <2>1 DEF tracee, Over
  <2>3. Gone' <=> Gone
    BY <2>1 DEF tracee, Gone
  <2>. QED BY <1>1, <1>3, <2>1, <2>2, <2>3 DEF Asking, Leaving
<1>8. CASE GetRegs
  <2>1. pc = "getregs" /\ pc' = "peek" /\ ended' = ended
    BY <1>8 DEF GetRegs, Goto, ends
  <2>. QED BY <1>0, <1>3, <2>1 DEF Leaving, Over
<1>9. CASE PeekText
  <2>1. pc = "peek" /\ pc' = "step" /\ ended' = ended
    BY <1>9 DEF PeekText, Goto, ends
  <2>. QED BY <1>0, <1>3, <2>1 DEF Leaving, Over
<1>10. CASE Ran
  <2>1. /\ UNCHANGED <<pc, shown, start, program, ended>> /\ ~Gone
        /\ armed' = armed /\ proc # "stopped" /\ pending = {}
    BY <1>10 DEF Ran, file, read, fixed, ends, Gone, RunStep
  <2>2. CASE ended = "return" /\ start # 0
    <3>1. freed = 0 /\ armed /\ Seen
      BY <1>1, <2>1, <2>2
    <3>2. freed' = 1
      BY <1>0, <1>10, <2>2, <3>1 DEF Ran, RunStep
    <3>3. Gone' \/ "TRAP" \in pending'
      BY <1>0, <1>10, <2>2, <3>1 DEF Ran, RunStep, Dies, Gone
    <3>. QED BY <1>0, <1>3, <2>1, <2>2, <3>2, <3>3
                DEF Over, Asking, Leaving, Stepping
  <2>3. CASE ended # "return" /\ start # 0
    BY <1>1, <1>3, <1>6, <2>1, <2>3
  <2>. QED BY <1>3, <2>1, <2>2, <2>3
<1>11. CASE Quiet
  <2>1. /\ UNCHANGED <<program, start, shown, freed>>
        /\ at' = at \/ at < First
        /\ pc' \in Leaving =>
             /\ \/ pc \in Leaving \/ pc = "giveup"
                \/ pc = "test" /\ (Gone \/ (proc = "stopped" /\ stop = "TERM"))
             /\ proc = "stopped" => proc' = "stopped" \/ Gone'
        /\ ended' = "return" => ended = "return" \/ pc = "return"
        /\ armed => armed' \/ pc = "h_let_go"
        /\ "TRAP" \in pending => "TRAP" \in pending' \/ Gone'
    BY <1>11 DEF Quiet
  <2>2. CASE start = 0
    BY <1>3, <2>1, <2>2
  <2>3. CASE start # 0
    <3>1. at' = at /\ (Seen => Seen')
      BY <1>0, <1>4, <1>6, <2>1, <2>3
    <3>6. /\ pc' \in Stepped \ {"wait"} => pc \in Stepped
          /\ pc' = "test" => pc \in {"wait_first", "test", "print"}
          /\ pc' = "getregs" => pc \in {"test", "getregs"}
      BY <1>11 DEF Quiet
    <3>2. pc' \in Asking => armed' \/ Gone' \/ pc' \in {"peek", "step"}
      <4>1. SUFFICES ASSUME pc' \in Asking
                     PROVE  armed' \/ Gone' \/ pc' \in {"peek", "step"}
        OBVIOUS
      <4>2. pc' \in {"peek", "step"} \/ pc \in {"test", "getregs", "print"}
              \/ pc \in Stepped
        BY <1>6, <2>3, <3>6, <4>1 DEF Asking, Early, Stepped
      <4>3. pc \in {"test", "getregs"} \/ pc \in Stepped => armed \/ Gone
        BY <1>1, <1>6, <2>3 DEF Asking, Stepped
      <4>4. pc = "h_let_go" => pc \notin Stepped
        BY DEF Stepped
      <4>. QED BY <1>5, <2>1, <4>2, <4>3, <4>4 DEF Stepped
    <3>3. pc' \in Leaving => Gone' \/ (proc' = "stopped" /\ armed' /\ Seen')
      <4>1. pc \in Leaving \/ pc = "test" => pc # "h_let_go"
        BY DEF Leaving
      <4>2. pc # "giveup"
        BY <1>6, <2>3 DEF Early
      <4>3. pc = "test" => armed \/ Gone
        BY <1>1, <2>3 DEF Asking
      <4>4. pc = "test" /\ stop = "TERM" => Seen
        BY <1>6, <2>3 DEF Signalled
      <4>. QED BY <1>1, <1>5, <2>1, <2>3, <3>1, <4>1, <4>2, <4>3, <4>4
    <3>4. ASSUME ended' = "return"
          PROVE  IF freed' = 0 THEN Gone' \/ (armed' /\ Seen')
                 ELSE freed' = 1 /\ (Gone' \/ "TRAP" \in pending')
      <4>1. CASE ended = "return"
        BY <1>0, <1>1, <1>5, <2>1, <2>3, <3>1, <4>1 DEF Over
      <4>2. CASE pc = "return"
        BY <1>0, <1>1, <1>5, <2>1, <2>3, <3>1, <4>2 DEF Over, Leaving
      <4>. QED BY <2>1, <3>4, <4>1, <4>2
    <3>. QED BY <1>3, <3>2, <3>3, <3>4
  <2>. QED BY <2>2, <2>3
<1>. QED BY <1>2, <1>7, <1>8, <1>9, <1>10, <1>11, StepKinds DEF SessionInv

\* What the program has where something is read to be displayed.
LEMMA ReadOp ==
    ASSUME SessionInv, NEW p \in First..Final
    PROVE  /\ op[program][p] \in Ops
           /\ op[program][p].do = "plain" <=> program[p] # "call"
BY MainAssumption DEF SessionInv, TypeInv

\* The end of print_instruction draws what the tracee was read to execute.
LEMMA FormatSteps ==
    ASSUME SessionInv, ReadInv, DotInv, Format, FormatDotfile
    PROVE  /\ first' = TRUE
           /\ IF word = "call"
              THEN /\ Drawn' = Event(Drawn, op[program][regs]) /\ G!DrawInv'
                   /\ list_func' \in Seq(G!Nodes) /\ dot' \in Seq(G!Token)
                   /\ ret' \in BOOLEAN
              ELSE UNCHANGED <<list_func, ret, dot>>
<1>1. pc = "format" /\ Displays
  BY DEF Format, Displays, Goto
<1>2. CASE word = "call"
  <2>1. regs \in First..Final /\ program[regs] = "call"
    BY <1>1, <1>2 DEF ReadInv, Stepping
  <2>2. op[program][regs] \in Ops /\ op[program][regs].do # "plain"
    BY <2>1, ReadOp
  <2>3. G!print_instruction(Line(op[program][regs]), TRUE)
    BY <1>1, <1>2 DEF FormatDotfile
  <2>5. Drawn' = Event(Drawn, op[program][regs]) /\ G!DrawInv' /\ first' = TRUE
    BY <2>2, <2>3, Draws
  <2>6. list_func' \in Seq(G!Nodes) /\ dot' \in Seq(G!Token) /\ ret' \in BOOLEAN
    BY <2>2, <2>3, DrawsTyped
  <2>. QED BY <1>2, <2>5, <2>6
<1>3. CASE word # "call"
  BY <1>1, <1>3 DEF FormatDotfile, G!print_nothing
<1>. QED BY <1>2, <1>3

LEMMA DotInit == MainInit => DotInv
<1>. SUFFICES ASSUME MainInit PROVE DotInv
  OBVIOUS
<1>1. list_func = <<>> /\ dot = <<>> /\ ret = FALSE /\ first = FALSE
  BY DEF MainInit, Init
<1>2. <<>> \in Seq(G!Nodes) /\ <<>> \in Seq(G!Token)
  BY EmptySeq
<1>. QED BY <1>1, <1>2 DEF DotInv, G!DrawInv

\* Whatever displays nothing leaves the text as it is.
LEMMA DotNext ==
    ASSUME SessionInv, ReadInv, DotInv, SessionSteps
    PROVE  DotInv'
<1>1. Next /\ FormatDotfile
  BY DEF SessionSteps
<1>2. CASE Format /\ word = "call"
  BY <1>1, <1>2, FormatSteps DEF DotInv
<1>3. CASE Format /\ word # "call"
  <2>1. first' = TRUE /\ UNCHANGED <<list_func, ret, dot>>
    BY <1>1, <1>3, FormatSteps
  <2>. QED BY <2>1 DEF DotInv, G!DrawInv
<1>4. CASE UNCHANGED <<first, list_func, ret, dot>>
  BY <1>4 DEF DotInv, G!DrawInv
<1>. QED BY <1>1, <1>2, <1>3, <1>4, Outputs

-----------------------------------------------------------------------------
(* graph.dot is the call graph of the program.                             *)

\* What a plain instruction makes of a call tree: nothing.
LEMMA PlainEvent ==
    ASSUME NEW t, NEW instr, instr.do = "plain"
    PROVE  Event(t, instr) = t
BY DEF Event

LEMMA SyncInit == MainInit => SyncInv
<1>. SUFFICES ASSUME MainInit PROVE SyncInv
  OBVIOUS
<1>1. start = 0
  BY DEF MainInit, Init
<1>. QED BY <1>1 DEF SyncInv

\* Whatever is displayed twice is displayed twice in a row.
LEMMA AgainShows ==
    ASSUME SessionInv, ReadInv, Format, word = "call", regs \in ShownAt
    PROVE  ~NoneAgain'
<1>1. /\ Len(shown) \in Nat /\ DOMAIN shown = 1..Len(shown)
      /\ \A i \in 1..Len(shown) : shown[i].at \in Nat
  BY ShownType, Bounds DEF SessionInv
<1>2. /\ Len(shown') = Len(shown) + 1
      /\ \A i \in 1..Len(shown) : shown'[i] = shown[i]
      /\ shown'[Len(shown) + 1].at = regs
  BY FormatShows DEF SessionInv
<1>3. Len(shown) # 0
  BY <1>1 DEF ShownAt
<1>4. regs <= shown[Len(shown)].at
  BY DEF ReadInv
<1>5. shown[Len(shown)].at \in ShownAt
  BY <1>1, <1>3, ShownType DEF SessionInv
<1>6. shown[Len(shown)].at <= regs
  BY <1>5 DEF ReadInv, Format, Stepping
<1>7. shown[Len(shown)].at = regs /\ regs \in Nat
  BY <1>1, <1>3, <1>4, <1>6 DEF SessionInv, TypeInv, TypeOK
<1>. QED BY <1>1, <1>2, <1>3, <1>7 DEF NoneAgain

\* And what was is.
LEMMA AgainStays ==
    ASSUME SessionInv, Next, NoneAgain', UNCHANGED shown \/ Format
    PROVE  NoneAgain
<1>1. CASE UNCHANGED shown
  BY <1>1 DEF NoneAgain
<1>2. CASE Format /\ word = "call"
  <2>1. /\ Len(shown) \in Nat /\ Len(shown') = Len(shown) + 1
        /\ \A i \in 1..Len(shown) : shown'[i] = shown[i]
    BY <1>2, ShownType, FormatShows DEF SessionInv
  <2>. QED BY <2>1 DEF NoneAgain
<1>3. CASE Format /\ word # "call"
  BY <1>3 DEF NoneAgain, Format
<1>. QED BY <1>1, <1>2, <1>3

\* What is drawn keeps up with what is executed.
LEMMA SyncNext ==
    ASSUME SessionInv, ReadInv, LastInv, DotInv, SyncInv, SessionSteps
    PROVE  SyncInv'
<1>. DEFINE instr == op[program][regs]
            Loop == pc \in {"test", "getregs", "peek"} \union Leaving => InStep
            Read == pc \in Stepping =>
                      IF at = regs \/ word # "call" THEN InStep
                      ELSE IF regs \in ShownAt THEN Drawn = tree
                      ELSE tree = Event(Drawn, instr)
            Ended == /\ ended = "return" /\ freed = 0 => InStep
                     /\ ended = "return" =>
                          G!Edges(dot) \in {tree.edges, After(tree).edges}
<1>1. SyncInv <=> (start # 0 /\ NoneAgain => Loop /\ Read /\ Ended)
  BY DEF SyncInv, Leaving
<1>2. SyncInv' <=> (start' # 0 /\ NoneAgain' => Loop' /\ Read' /\ Ended')
  BY DEF SyncInv, Leaving
<1>. SUFFICES ASSUME start' # 0, NoneAgain' PROVE Loop' /\ Read' /\ Ended'
  BY <1>2
<1>3. Next /\ FormatDotfile /\ tree' = IF Executed THEN After(tree) ELSE tree
  BY DEF SessionSteps
<1>4. Format \/ UNCHANGED <<shown, first, list_func, ret, dot>>
  BY <1>3, Outputs
<1>5. NoneAgain
  BY <1>3, <1>4, AgainStays
<1>6. start # 0 => Loop /\ Read /\ Ended
  BY <1>1, <1>5
<1>7. /\ at \in Nat /\ regs \in Nat /\ First = 2
      /\ (~Over => ended = "none" /\ freed = 0) /\ freed \in 0..2
  BY Bounds DEF SessionInv, TypeInv, TypeOK, PtraceTypeOK, None, OutliveInv, ForkReturn
<1>8. /\ start # 0 => at >= First
      /\ pc \in Early => start = 0
      /\ Gone => Gone' /\ at' = at
  BY <1>3, StaysGone DEF SessionInv, CoverInv, ReadInv
<1>9. InStep => G!Edges(dot) \in {tree.edges, After(tree).edges}
  BY DEF InStep, Drawn
<1>10. ASSUME UNCHANGED <<shown, list_func, ret, dot, at, tree, program>>
       PROVE  /\ InStep <=> InStep'
              /\ Drawn' = Drawn /\ ShownAt' = ShownAt
              /\ After(tree)' = After(tree)
  BY <1>10 DEF InStep, Ahead, ShownAt, Drawn, After
<1>read. pc \in Stepping => \/ word = "silent" /\ Gone
                           \/ /\ regs \in First..Final /\ word = program[regs]
                              /\ at \in {regs, regs + 1}
                              /\ \A p \in ShownAt : p <= regs
  BY DEF ReadInv
<1>. HIDE DEF Loop, Read, Ended
<1>11. CASE Format
  <2>1. /\ pc = "format" /\ pc' = "test" /\ start # 0 /\ ended' # "return"
        /\ UNCHANGED <<program, regs, word, at, tracee>>
    BY <1>7, <1>11, FormatDraws DEF Over
  <2>2. Read' /\ Ended'
    BY <2>1 DEF Read, Ended, Stepping, Leaving
  <2>3. tree' = tree
    BY <1>3, <2>1 DEF Executed
  <2>4. Read
    BY <1>6, <2>1
  <2>5. Loop'
    <3>1. CASE word = "call"
      <4>1. regs \notin ShownAt /\ ShownAt' = ShownAt \union {regs}
        BY <1>11, <3>1, AgainShows, FormatDraws
      <4>2. Drawn' = Event(Drawn, instr)
        BY <1>3, <1>11, <3>1, FormatSteps
      <4>3. /\ at \in {regs, regs + 1}
            /\ \A p \in ShownAt : p <= regs
        BY <1>read, <2>1, <3>1 DEF Stepping
      <4>4. CASE at = regs
        <5>1. InStep
          BY <2>1, <2>4, <3>1, <4>4 DEF Read, Stepping
        <5>2. Drawn = tree
          BY <4>1, <4>4, <5>1 DEF InStep, Ahead
        <5>3. Drawn' = After(tree)'
          BY <2>1, <2>3, <4>2, <4>4, <5>2 DEF After
        <5>4. Ahead'
          BY <2>1, <4>1, <4>4 DEF Ahead
        <5>5. InStep'
          BY <5>3, <5>4 DEF InStep
        <5>. QED BY <5>5 DEF Loop
      <4>5. CASE at = regs + 1
        <5>1. tree = Event(Drawn, instr)
          BY <1>7, <2>1, <2>4, <3>1, <4>1, <4>5 DEF Read, Stepping
        <5>2. ~Ahead'
          BY <1>7, <2>1, <4>1, <4>3, <4>5 DEF Ahead
        <5>3. InStep'
          BY <2>3, <4>2, <5>1, <5>2 DEF InStep
        <5>. QED BY <5>3 DEF Loop
      <4>. QED BY <4>3, <4>4, <4>5
    <3>2. CASE word # "call"
      <4>1. shown' = shown
        BY <1>11, <3>2, FormatDraws
      <4>2. UNCHANGED <<list_func, ret, dot>>
        BY <1>3, <1>11, <3>2, FormatSteps
      <4>3. InStep
        BY <2>1, <2>4, <3>2 DEF Read, Stepping
      <4>. QED BY <1>10, <2>1, <2>3, <4>1, <4>2, <4>3 DEF Loop
    <3>. QED BY <3>1, <3>2
  <2>. QED BY <2>2, <2>5
<1>12. CASE GetRegs
  <2>1. /\ pc = "getregs" /\ pc' = "peek" /\ ended' # "return"
        /\ UNCHANGED <<shown, first, list_func, ret, dot, at, proc, program>>
    BY <1>4, <1>7, <1>12 DEF GetRegs, Goto, Format, tracee, fixed, ends, Over
  <2>2. tree' = tree
    BY <1>3, <2>1 DEF Executed
  <2>3. Read' /\ Ended'
    BY <2>1 DEF Read, Ended, Stepping, Leaving
  <2>4. CASE start # 0
    <3>1. InStep
      BY <1>6, <2>1, <2>4 DEF Loop
    <3>. QED BY <1>10, <2>1, <2>2, <2>3, <3>1 DEF Loop
  <2>5. CASE start = 0
    <3>1. Obeys
      BY <1>12, <2>5 DEF GetRegs
    <3>2. ~Gone
      BY <3>1 DEF Obeys, Gone
    <3>3. /\ shown = <<>> /\ dot = <<>> /\ tree = NoTree /\ ~first
      BY <2>5, <3>2 DEF ReadInv
    <3>4. list_func = <<>> /\ ret = FALSE
      BY <3>3 DEF DotInv, G!DrawInv
    <3>5. G!Edges(dot) = {}
      BY <3>3 DEF G!Edges
    <3>6. ~Ahead
      BY <3>3 DEF Ahead, ShownAt
    <3>7. InStep
      BY <3>3, <3>4, <3>5, <3>6 DEF InStep, Drawn, NoTree
    <3>. QED BY <1>10, <2>1, <2>2, <2>3, <3>7 DEF Loop
  <2>. QED BY <2>3, <2>4, <2>5
<1>13. CASE PeekText
  <2>1. /\ pc = "peek" /\ pc' = "step" /\ ended' # "return"
        /\ UNCHANGED <<shown, first, list_func, ret, dot, at, proc, program, regs,
                       start>>
    BY <1>4, <1>7, <1>13 DEF PeekText, Goto, Format, tracee, fixed, ends, file, Over
  <2>2. tree' = tree
    BY <1>3, <2>1 DEF Executed
  <2>3. Loop' /\ Ended'
    BY <2>1 DEF Loop, Ended, Stepping, Leaving
  <2>4. InStep'
    BY <1>6, <1>10, <2>1, <2>2 DEF Loop
  <2>5. CASE Obeys
    <3>1. regs = at
      BY <2>1, <2>5 DEF Obeys, Gone, SessionInv, PlaceInv
    <3>. QED BY <2>1, <2>3, <2>4, <3>1 DEF Read
  <2>6. CASE ~Obeys
    <3>1. word' = "silent"
      BY <1>13, <2>6 DEF PeekText
    <3>. QED BY <2>3, <2>4, <3>1 DEF Read
  <2>. QED BY <2>5, <2>6
<1>14. CASE Ran
  <2>1. /\ UNCHANGED <<pc, shown, first, list_func, ret, dot, word, regs, start,
                       program,
                       ended>>
        /\ ~Gone /\ proc = "running" /\ pending = {}
        /\ start # 0 /\ at >= First
    BY <1>4, <1>8, <1>14 DEF Ran, Format, Goto, file, read, fixed, ends, Gone
  <2>2. /\ at' = at \/ at' = at + 1
        /\ tree' = IF at' = at THEN tree ELSE After(tree)
    BY <1>3, <1>7, <1>14, <2>1 DEF Ran, RunStep, Executed
  <2>3. pc \notin Asking /\ pc \notin Leaving
    BY <2>1 DEF SessionInv, StopInv, LastInv, Gone, Leaving
  <2>4. Loop'
    BY <2>1, <2>3 DEF Loop, Asking
  <2>5. ShownAt' = ShownAt /\ Drawn' = Drawn
    BY <2>1 DEF ShownAt, Drawn
  <2>6. Read'
    <3>1. SUFFICES ASSUME pc = "wait" PROVE Read'
      BY <2>1, <2>3 DEF Read, Asking, Stepping
    <3>2. /\ regs = at /\ word = program[at] /\ at \in First..Final
          /\ \A p \in ShownAt : p <= at
      BY <1>7, <1>read, <2>1, <3>1 DEF SessionInv, PlaceInv, Stepping
    <3>3. InStep
      BY <1>6, <2>1, <3>1, <3>2 DEF Read, Stepping
    <3>4. CASE at' = at
      <4>1. InStep'
        BY <1>10, <2>1, <2>2, <3>3, <3>4
      <4>. QED BY <2>1, <3>2, <3>4, <4>1 DEF Read
    <3>5. CASE at' = at + 1
      <4>1. at' # at /\ at' # regs'
        BY <1>7, <2>1, <3>2, <3>5
      <4>2. tree' = After(tree) /\ After(tree) = Event(tree, instr)
        BY <2>2, <3>2, <4>1 DEF After
      <4>3. IF regs \in ShownAt THEN Drawn = tree' ELSE tree' = Event(Drawn, instr)
        BY <3>2, <3>3, <4>2 DEF InStep, Ahead
      <4>4. CASE word = "call"
        BY <2>1, <2>5, <3>2, <4>1, <4>3, <4>4 DEF Read
      <4>5. CASE word # "call"
        <5>1. regs \notin ShownAt /\ Event(Drawn, instr) = Drawn
          BY <3>2, <4>5, ReadOp, PlainEvent DEF ReadInv
        <5>2. ~Ahead'
          BY <1>7, <2>5, <3>2, <3>5 DEF Ahead
        <5>. QED BY <2>1, <2>5, <4>3, <4>5, <5>1, <5>2 DEF Read, InStep
      <4>. QED BY <4>4, <4>5
    <3>. QED BY <2>2, <3>4, <3>5
  <2>7. Ended'
    <3>1. SUFFICES ASSUME ended = "return" PROVE Ended'
      BY <2>1 DEF Ended
    <3>2. Over /\ freed = 0 /\ Seen
      BY <1>7, <2>1, <3>1 DEF LastInv
    <3>3. freed' = 1
      BY <1>14, <3>2 DEF Ran, RunStep
    <3>4. InStep
      BY <1>6, <2>1, <3>1, <3>2 DEF Ended
    <3>5. CASE at' = at
      BY <1>9, <1>10, <2>1, <2>2, <3>3, <3>4, <3>5 DEF Ended
    <3>6. CASE at' = at + 1
      <4>1. tree' = After(tree)
        BY <1>7, <2>2, <3>6
      <4>2. CASE Ahead
        BY <2>1, <3>3, <3>4, <4>1, <4>2 DEF InStep, Drawn, Ended
      <4>3. CASE ~Ahead
        <5>1. program[at] # "call" /\ at \in First..Final
          BY <1>7, <2>1, <3>2, <4>3, Bounds
               DEF Seen, Ahead, SessionInv, TypeInv, TypeOK,
             PtraceTypeOK
        <5>3. After(tree) = tree
          BY <5>1, ReadOp, PlainEvent DEF After
        <5>4. G!Edges(dot) = tree.edges
          BY <3>4, <4>3 DEF InStep, Drawn
        <5>. QED BY <2>1, <3>3, <4>1, <5>3, <5>4 DEF Ended
      <4>. QED BY <4>2, <4>3
    <3>. QED BY <2>2, <3>5, <3>6
  <2>. QED BY <2>4, <2>6, <2>7
<1>15. CASE Quiet /\ ~Format
  <2>1. /\ UNCHANGED <<shown, first, list_func, ret, dot, word, regs, start, program,
                       freed>>
        /\ start # 0 /\ at' = at
    BY <1>4, <1>7, <1>8, <1>15 DEF Quiet
  <2>2. tree' = tree
    BY <1>3, <2>1 DEF Executed
  <2>3. /\ InStep <=> InStep'
        /\ Drawn' = Drawn /\ ShownAt' = ShownAt
        /\ After(tree)' = After(tree)
    BY <1>10, <2>1, <2>2
  <2>4. /\ pc' \in Stepping => pc \in Stepping
        /\ pc' = "test"
             => pc \in {"wait_first", "test"} \/ (pc = "print" /\ word = "plain")
        /\ pc' = "getregs" => pc \in {"test", "getregs"}
        /\ pc' = "peek" => pc = "peek"
        /\ pc' \in Leaving => pc \in Leaving \union {"giveup", "test"}
        /\ ended' = "return" => ended = "return" \/ pc = "return"
    BY <1>15 DEF Quiet
  <2>5. pc \notin Early
    BY <1>8, <2>1
  <2>6. Loop /\ Read /\ Ended
    BY <1>6, <2>1
  <2>7. pc = "print" /\ word = "plain" => InStep
    BY <2>6 DEF Read, Stepping
  <2>8. Loop'
    BY <1>8, <2>3, <2>4, <2>5, <2>6, <2>7 DEF Loop, Early, Leaving
  <2>9. Read'
    BY <2>1, <2>2, <2>3, <2>4, <2>6 DEF Read
  <2>10. Ended'
    <3>1. CASE ended = "return"
      BY <2>1, <2>2, <2>3, <2>6, <3>1 DEF Ended
    <3>2. CASE pc = "return"
      <4>1. InStep
        BY <2>6, <3>2 DEF Loop, Leaving
      <4>. QED BY <1>9, <2>1, <2>2, <2>3, <4>1 DEF Ended
    <3>. QED BY <2>4, <3>1, <3>2 DEF Ended
  <2>. QED BY <2>8, <2>9, <2>10
<1>. QED BY <1>3, <1>11, <1>12, <1>13, <1>14, <1>15, StepKinds DEF SessionInv

\* A step that is not the session's changes none of this.
LEMMA GraphSame ==
    ASSUME UNCHANGED <<session, format_dotfile, tree>>
    PROVE  /\ ReadInv => ReadInv'
           /\ LastInv => LastInv'
           /\ DotInv => DotInv'
           /\ SyncInv => SyncInv'
<1>. USE DEF session, tracee, file, read, fixed, ends, format_dotfile
<1>1. ShownAt' = ShownAt /\ (Seen <=> Seen') /\ (Signalled <=> Signalled')
  BY DEF ShownAt, Seen, Signalled
<1>2. (Gone <=> Gone') /\ (NoneAgain <=> NoneAgain') /\ (G!DrawInv <=> G!DrawInv')
  BY DEF Gone, NoneAgain, G!DrawInv
<1>3. (InStep <=> InStep') /\ Drawn' = Drawn /\ After(tree)' = After(tree)
  BY <1>1 DEF InStep, Ahead, Drawn, After
<1>4. ReadInv => ReadInv'
  BY <1>1, <1>2 DEF ReadInv
<1>5. LastInv => LastInv'
  BY <1>1, <1>2 DEF LastInv
<1>6. DotInv => DotInv'
  BY <1>1, <1>2 DEF DotInv
<1>7. SyncInv => SyncInv'
  BY <1>1, <1>2, <1>3 DEF SyncInv
<1>. QED BY <1>4, <1>5, <1>6, <1>7

\* For every program whose calls, returns and system calls are recognised
\* (MainAssumption), whatever else passes for a call and prints nothing: as long
\* as no instruction is displayed twice, graph.dot is the call graph of what the
\* program executed since the first instruction ftrace read, whatever signals
\* either process gets and however ftrace gets to the end of trace_son; the
\* instruction it stands at may be drawn already.
THEOREM GraphCorrect == MainSpec => []GraphIsTheProgram
<1>. DEFINE WholeInv == SessionInv /\ ReadInv /\ LastInv /\ DotInv /\ SyncInv
<1>1. MainInit => WholeInv
  BY SessionInit, ReadInit, LastInit, DotInit, SyncInit
<1>2. WholeInv /\ [MainNext]_all => WholeInv'
  <2>1. SUFFICES ASSUME WholeInv, [MainNext]_all PROVE WholeInv'
    OBVIOUS
  <2>2. SessionInv'
    BY <2>1, SessionNext
  <2>3. CASE SessionSteps
    BY <2>1, <2>2, <2>3, ReadNext, LastNext, DotNext, SyncNext
  <2>4. CASE UNCHANGED <<session, format_dotfile, tree>>
    BY <2>1, <2>2, <2>4, GraphSame
  <2>. QED BY <2>1, <2>3, <2>4, MainSteps
<1>3. WholeInv => GraphIsTheProgram
  <2>1. SUFFICES ASSUME WholeInv, start # 0, NoneAgain,
                        pc \in {"test", "return"} \/ ended = "return"
                 PROVE  G!Edges(dot) \in {tree.edges, After(tree).edges}
    BY DEF GraphIsTheProgram
  <2>2. CASE pc \in {"test", "return"}
    BY <2>1, <2>2 DEF SyncInv, InStep, Drawn
  <2>3. CASE ended = "return"
    BY <2>1, <2>3 DEF SyncInv
  <2>. QED BY <2>1, <2>2, <2>3
<1>. QED BY <1>1, <1>2, <1>3, PTL DEF MainSpec
=============================================================================
