------------------------- MODULE TraceSessionProofs -------------------------
(***************************************************************************)
(* Theorems about TraceSession, for every program, every set of files      *)
(* load_infos may find and any number of signals.                          *)
(***************************************************************************)
EXTENDS TraceSession, SequenceTheorems, FiniteSetTheorems, TLAPS

\* The bounds are numbers, and a program has an instruction at each address.
LEMMA Bounds ==
    /\ Final \in Nat /\ Final > 2 /\ MaxSent \in Nat
    /\ ForkReturn = 0 /\ Execve = 1 /\ First = 2
    /\ \A p \in Programs : p \in [First..Final -> Kinds]
  BY PtraceAssumption, SessionAssumption
  DEF PtraceAssumption, SessionAssumption, ForkReturn, Execve, First

\* What can happen to the tracee in one step, whoever makes it.
TraceeMoves ==
    \/ proc = "none" /\ ForkChild
    \/ AttachTo \/ SingleStep \/ Detach \/ Kill \/ Wait \/ Release
    \/ Traceme(~Over) \/ ChildFails \/ Exec \/ RunStep(Over)
    \/ \E s \in pending : Deliver(s)
    \/ \E s \in SentSignals : Send(s)
    \/ SendKill \/ UNCHANGED tracee

\* Every step of a session is one of those moves of the tracee.
LEMMA Moves ==
    ASSUME [Next]_vars, pc = "fork" => proc = "none"
    PROVE  TraceeMoves
<1>. USE DEF Only, Request, TraceeMoves
<1>1. CASE Ftrace
  BY <1>1 DEF Ftrace, Fork, Attach, CatchSignal, LoadInfos, LoadFails, GiveUpFile,
     GiveUpLoad, GiveUp, WaitFirst, WaitPid, Test, GetRegs, PeekText, Step, WaitStep,
     GetRegsReturn, PrintInstruction, OpenDotfile, StockFd, Header, Format, Footer,
     CloseFd, Return, Failed, Ends, HandlerFooter, HandlerClose, HandlerLetGo,
     HandlerExit
<1>2. CASE Tracee
  BY <1>2 DEF Tracee
<1>3. CASE Others
  BY <1>3 DEF Others
<1>4. CASE \E s \in Catchable : Interrupt(s)
  BY <1>4 DEF Interrupt
<1>5. CASE Die
  BY <1>5 DEF Die, Ends
<1>6. CASE UNCHANGED vars
  BY <1>6 DEF vars
<1>. QED BY <1>1, <1>2, <1>3, <1>4, <1>5, <1>6 DEF Next

-----------------------------------------------------------------------------
(* Types.                                                                  *)

\* They keep the tracee's variables in their types.
LEMMA TraceeTyped ==
    ASSUME PtraceTypeOK, TraceeMoves
    PROVE  PtraceTypeOK'
<1>. USE Bounds DEF PtraceTypeOK, None
<1>1. CASE proc = "none" /\ ForkChild BY <1>1 DEF ForkChild
<1>2. CASE AttachTo BY <1>2 DEF AttachTo
<1>3. CASE SingleStep BY <1>3 DEF SingleStep, Obeys, tracee
<1>4. CASE Detach BY <1>4 DEF Detach, Obeys, tracee
<1>5. CASE Kill BY <1>5 DEF Kill, Alive, Dies, tracee
<1>6. CASE Wait BY <1>6 DEF Wait
<1>7. CASE Release BY <1>7 DEF Release
<1>8. CASE Traceme(~Over) BY <1>8 DEF Traceme
<1>9. CASE ChildFails BY <1>9 DEF ChildFails, Dies
<1>10. CASE Exec
  <2>1. CASE traced BY <1>10, <2>1 DEF Exec, Stopped
  <2>2. CASE ~traced BY <1>10, <2>2 DEF Exec
  <2>. QED BY <2>1, <2>2
<1>11. CASE RunStep(Over)
  <2>1. freed' \in 0..2 BY <1>11 DEF RunStep
  <2>2. at' \in 0..Final BY <1>11 DEF RunStep, Dies, Stopped
  <2>3. pending' \subseteq {"TRAP", "STOP", "TERM"}
    BY <1>11 DEF RunStep, Dies, Stopped
  <2>4. UNCHANGED <<traced, armed, sent>> BY <1>11 DEF RunStep
  <2>5. CASE at = Final BY <1>11, <2>1, <2>2, <2>3, <2>4, <2>5 DEF RunStep, Dies
  <2>6. CASE at # Final /\ armed /\ traced
    BY <1>11, <2>1, <2>2, <2>3, <2>4, <2>6 DEF RunStep, Stopped
  <2>7. CASE at # Final /\ ~(armed /\ traced)
    BY <1>11, <2>1, <2>2, <2>3, <2>4, <2>7 DEF RunStep
  <2>. QED BY <2>5, <2>6, <2>7
<1>12. CASE \E s \in pending : Deliver(s) BY <1>12 DEF Deliver, Dies, Stopped
<1>13. CASE \E s \in SentSignals : Send(s) BY <1>13 DEF SentSignals, Send
<1>14. CASE SendKill BY <1>14 DEF SendKill, Alive, Dies
<1>15. CASE UNCHANGED tracee BY <1>15 DEF tracee
<1>. QED BY <1>1, <1>2, <1>3, <1>4, <1>5, <1>6, <1>7, <1>8, <1>9, <1>10, <1>11,
            <1>12, <1>13, <1>14, <1>15 DEF TraceeMoves

\* One system call of ftrace keeps its own variables in their types.
LEMMA FtraceTyped ==
    ASSUME TypeInv, PtraceTypeOK', Ftrace
    PROVE  TypeInv'
<1>. USE Bounds DEF TypeInv, TypeOK, Goto, Only, Request, file, read, fixed, ends,
                    GraphFd, Graph, None, Kinds, Stepping, Over
<1>1. CASE Fork BY <1>1 DEF Fork, ForkChild
<1>2. CASE Attach BY <1>2 DEF Attach, AttachTo
<1>3. CASE CatchSignal BY <1>3 DEF CatchSignal
<1>4. CASE LoadInfos BY <1>4 DEF LoadInfos
<1>5. CASE LoadFails BY <1>5 DEF LoadFails
<1>6. CASE GiveUpFile \/ GiveUpLoad BY <1>6 DEF GiveUpFile, GiveUpLoad, GiveUp
<1>7. CASE WaitFirst \/ WaitStep
  <2>1. Wait => Waited \in {"none", "stopped", "exited"} \X {None, "TRAP", "STOP", "TERM"}
    BY DEF Waited, PtraceTypeOK
  <2>. QED BY <1>7, <2>1 DEF WaitFirst, WaitStep, WaitPid
<1>8. CASE Test BY <1>8 DEF Test
<1>9. CASE GetRegs BY <1>9 DEF GetRegs, PtraceTypeOK, tracee
<1>10. CASE PeekText BY <1>10 DEF PeekText
<1>11. CASE Step BY <1>11 DEF Step
<1>12. CASE GetRegsReturn
  BY <1>12 DEF GetRegsReturn, PtraceTypeOK, tracee
<1>13. CASE PrintInstruction BY <1>13 DEF PrintInstruction
<1>14. CASE OpenDotfile BY <1>14 DEF OpenDotfile
<1>15. CASE StockFd BY <1>15 DEF StockFd
<1>16. CASE Header BY <1>16 DEF Header
<1>17. CASE Format
  <2>1. shown' \in Seq(Lines)
    <3>1. CASE word = "call"
      <4>1. [at |-> regs, after |-> regs_return] \in Lines
        BY <1>17, <3>1 DEF Format, Lines
      <4>2. shown' = Append(shown, [at |-> regs, after |-> regs_return])
        BY <1>17, <3>1 DEF Format
      <4>3. shown \in Seq(Lines)
        OBVIOUS
      <4>. HIDE DEF TypeInv, TypeOK
      <4>. QED BY <4>1, <4>2, <4>3, AppendProperties
    <3>2. CASE word # "call" BY <1>17, <3>2 DEF Format
    <3>. QED BY <3>1, <3>2
  <2>. QED BY <1>17, <2>1 DEF Format
<1>18. CASE Footer BY <1>18 DEF Footer, Brace
<1>19. CASE CloseFd BY <1>19 DEF CloseFd, Close
<1>20. CASE Return \/ Failed BY <1>20 DEF Return, Failed, Ends
<1>21. CASE HandlerFooter BY <1>21 DEF HandlerFooter, Brace
<1>22. CASE HandlerClose BY <1>22 DEF HandlerClose, Close
<1>23. CASE HandlerLetGo BY <1>23 DEF HandlerLetGo
<1>24. CASE HandlerExit BY <1>24 DEF HandlerExit, Ends
<1>. QED BY <1>1, <1>2, <1>3, <1>4, <1>5, <1>6, <1>7, <1>8, <1>9, <1>10, <1>11,
            <1>12, <1>13, <1>14, <1>15, <1>16, <1>17, <1>18, <1>19, <1>20, <1>21,
            <1>22, <1>23, <1>24 DEF Ftrace

\* A session starts with all of them in their types.
LEMMA TypeInit == Init => TypeInv
  BY Bounds DEF Init, PtraceInit, TypeInv, TypeOK, PtraceTypeOK, None, Kinds,
     Stepping, Graph, Over

\* And so does every step, whoever makes it.
LEMMA TypeNext == TypeInv /\ [Next]_vars => TypeInv'
<1>. SUFFICES ASSUME TypeInv, [Next]_vars PROVE TypeInv'
  OBVIOUS
<1>1. PtraceTypeOK'
  BY Moves, TraceeTyped DEF TypeInv, TypeOK
<1>2. CASE Ftrace
  BY <1>1, <1>2, FtraceTyped
<1>. USE <1>1 DEF TypeInv, TypeOK, file, read, fixed, ends, GraphFd, Stepping, Over
<1>3. CASE Tracee
  <2>1. proc # "none"
    BY <1>3 DEF Tracee, Traceme, ChildFails, Exec, RunStep, Deliver
  <2>. QED BY <1>3, <2>1 DEF Tracee
<1>4. CASE Others
  <2>1. proc # "none"
    BY <1>4 DEF Others, Send, SendKill, Alive
  <2>. QED BY <1>4, <2>1 DEF Others
<1>5. CASE \E s \in Catchable : Interrupt(s)
  BY <1>5 DEF Interrupt, Goto
<1>6. CASE Die
  BY <1>6 DEF Die, Ends, Goto
<1>7. CASE UNCHANGED vars
  BY <1>7 DEF vars, tracee
<1>. QED BY <1>2, <1>3, <1>4, <1>5, <1>6, <1>7 DEF Next

\* The variables of a session keep to their values, whatever the program, the
\* file load_infos finds, and the signals that reach either process.
THEOREM TypeCorrect == Spec => []TypeOK
  <1>1. TypeInv => TypeOK BY DEF TypeInv
  <1>. QED BY <1>1, TypeInit, TypeNext, PTL DEF Spec

-----------------------------------------------------------------------------
(* graph.dot.                                                              *)

\* No graph is asked for at the start.
LEMMA GraphInit == Init => GraphInv
  BY DEF Init, GraphInv, StrayMeansNoGraph, Early, Late, Handling

\* Whatever opens, writes or closes graph.dot knows its descriptor.
LEMMA GraphNext ==
    ASSUME TypeInv, GraphInv, [Next]_vars
    PROVE  GraphInv'
<1>. USE DEF GraphInv, StrayMeansNoGraph, Early, Late, Handling, Goto, Only, Request,
             file, read, fixed, ends, GraphFd, Graph, Over
<1>0. /\ fd \in {-1, 0, Graph} /\ save \in {0, Graph}
      /\ pc \in {"stock", "header"} => fd = GraphFd
  BY DEF TypeInv, TypeOK
<1>. USE <1>0
<1>1. CASE Fork \/ Attach \/ CatchSignal BY <1>1 DEF Fork, Attach, CatchSignal
<1>2. CASE LoadInfos \/ LoadFails BY <1>2 DEF LoadInfos, LoadFails
<1>3. CASE GiveUpFile \/ GiveUpLoad BY <1>3 DEF GiveUpFile, GiveUpLoad, GiveUp
<1>4. CASE WaitFirst \/ WaitStep BY <1>4 DEF WaitFirst, WaitStep, WaitPid
<1>5. CASE Test BY <1>5 DEF Test
<1>6. CASE GetRegs \/ PeekText \/ Step BY <1>6 DEF GetRegs, PeekText, Step
<1>7. CASE GetRegsReturn BY <1>7 DEF GetRegsReturn
<1>8. CASE PrintInstruction BY <1>8 DEF PrintInstruction
<1>9. CASE OpenDotfile BY <1>9 DEF OpenDotfile
<1>10. CASE StockFd \/ Header BY <1>10 DEF StockFd, Header
<1>11. CASE Format BY <1>11 DEF Format
<1>12. CASE Footer
  <2>1. fd = 0 /\ stdin => ~header /\ shown = <<>>
    BY <1>12 DEF Footer
  <2>2. stray' => stray \/ (fd = 0 /\ stdin)
    BY <1>12 DEF Footer, Brace
  <2>3. pc = "footer" /\ pc' = "close" /\ UNCHANGED <<first, fd, header, shown, stdin>>
    BY <1>12 DEF Footer, Brace
  <2>. QED BY <2>1, <2>2, <2>3
<1>13. CASE CloseFd BY <1>13 DEF CloseFd, Close
<1>14. CASE Return \/ Failed BY <1>14 DEF Return, Failed, Ends
<1>15. CASE HandlerFooter BY <1>15 DEF HandlerFooter, Brace
<1>16. CASE HandlerClose BY <1>16 DEF HandlerClose, Close
<1>17. CASE HandlerLetGo BY <1>17 DEF HandlerLetGo
<1>18. CASE HandlerExit BY <1>18 DEF HandlerExit, Ends
<1>19. CASE Tracee \/ Others BY <1>19 DEF Tracee, Others
<1>20. CASE \E s \in Catchable : Interrupt(s) BY <1>20 DEF Interrupt
<1>21. CASE Die BY <1>21 DEF Die, Ends
<1>22. CASE UNCHANGED vars BY <1>22 DEF vars
<1>. QED BY <1>1, <1>2, <1>3, <1>4, <1>5, <1>6, <1>7, <1>8, <1>9, <1>10, <1>11,
            <1>12, <1>13, <1>14, <1>15, <1>16, <1>17, <1>18, <1>19, <1>20, <1>21,
            <1>22 DEF Next, Ftrace

\* A brace written to ftrace's own standard input means that no graph was
\* begun and nothing displayed: the descriptor, or the failure to have one, is
\* kept before the header is written and the first line displayed.
THEOREM StrayCorrect == Spec => []StrayMeansNoGraph
  <1>1. GraphInv => StrayMeansNoGraph BY DEF GraphInv
  <1>. QED BY <1>1, TypeInit, TypeNext, GraphInit, GraphNext, PTL DEF Spec

\* Nor begun.
LEMMA ClosedInit == Init => ClosedInv
  BY DEF Init, ClosedInv, BegunGraphIsClosed, Handling, Over, None

\* A brace is written on each way from an open graph to the end of ftrace.
LEMMA ClosedNext ==
    ASSUME TypeInv, GraphInv, ClosedInv, [Next]_vars
    PROVE  ClosedInv'
<1>. USE DEF ClosedInv, BegunGraphIsClosed, Late, Handling, Goto, Only, Request,
             file, read, fixed, ends, GraphFd, Graph, Over
<1>0. /\ fd \in {-1, 0, Graph} /\ save \in {0, Graph} /\ footers \in Nat
      /\ header => graph # "none"
      /\ graph \in {"none", "open", "closed"}
      /\ pc \in {"stock", "header"} => fd = GraphFd /\ graph = "open"
      /\ header => fd = GraphFd
      /\ header => first \/ pc = "format" \/ pc \in Late
      /\ pc \in Early \union {"open"} => ~first
      /\ ended \in {None, "return", "failed", "handler", "uncaught"}
  BY DEF TypeInv, TypeOK, GraphInv
<1>. USE <1>0 DEF Early, None
<1>1. CASE Fork \/ Attach \/ CatchSignal BY <1>1 DEF Fork, Attach, CatchSignal
<1>2. CASE LoadInfos \/ LoadFails BY <1>2 DEF LoadInfos, LoadFails
<1>3. CASE GiveUpFile \/ GiveUpLoad BY <1>3 DEF GiveUpFile, GiveUpLoad, GiveUp
<1>4. CASE WaitFirst \/ WaitStep BY <1>4 DEF WaitFirst, WaitStep, WaitPid
<1>5. CASE Test BY <1>5 DEF Test
<1>6. CASE GetRegs \/ PeekText \/ Step BY <1>6 DEF GetRegs, PeekText, Step
<1>7. CASE GetRegsReturn BY <1>7 DEF GetRegsReturn
<1>8. CASE PrintInstruction BY <1>8 DEF PrintInstruction
<1>9. CASE OpenDotfile BY <1>9 DEF OpenDotfile
<1>10. CASE StockFd \/ Header BY <1>10 DEF StockFd, Header
<1>11. CASE Format BY <1>11 DEF Format
<1>12. CASE Footer BY <1>12 DEF Footer, Brace
<1>13. CASE CloseFd BY <1>13 DEF CloseFd, Close
<1>14. CASE Return \/ Failed BY <1>14 DEF Return, Failed, Ends
<1>15. CASE HandlerFooter BY <1>15 DEF HandlerFooter, Brace
<1>16. CASE HandlerClose BY <1>16 DEF HandlerClose, Close
<1>17. CASE HandlerLetGo BY <1>17 DEF HandlerLetGo
<1>18. CASE HandlerExit BY <1>18 DEF HandlerExit, Ends
<1>19. CASE Tracee \/ Others BY <1>19 DEF Tracee, Others
<1>20. CASE \E s \in Catchable : Interrupt(s) BY <1>20 DEF Interrupt
<1>21. CASE Die BY <1>21 DEF Die, Ends
<1>22. CASE UNCHANGED vars BY <1>22 DEF vars
<1>. QED BY <1>1, <1>2, <1>3, <1>4, <1>5, <1>6, <1>7, <1>8, <1>9, <1>10, <1>11,
            <1>12, <1>13, <1>14, <1>15, <1>16, <1>17, <1>18, <1>19, <1>20, <1>21,
            <1>22 DEF Next, Ftrace

\* However a run of ftrace ends of which trace_son or a handler is the end, the
\* graph it began has its closing brace: the header is written by one function,
\* the brace by two others, each with a copy of the descriptor of its own.
THEOREM ClosedCorrect == Spec => []BegunGraphIsClosed
  <1>1. ClosedInv => BegunGraphIsClosed BY DEF ClosedInv
  <1>. QED BY <1>1, TypeInit, TypeNext, GraphInit, GraphNext, ClosedInit, ClosedNext,
              PTL DEF Spec

-----------------------------------------------------------------------------
(* What becomes of the tracee.                                             *)

\* The tracee starts without a single-step flag.
LEMMA ArmedInit == Init => ArmedInv
  BY DEF Init, PtraceInit, ArmedInv, Early, Late, Handling, Over, None, First,
     ForkReturn, Gone, Obeys

\* No step but SingleStep sets it, and ftrace loses no armed tracee alive.
LEMMA ArmedNext ==
    ASSUME TypeInv, ArmedInv, [Next]_vars
    PROVE  ArmedInv'
<1>. USE DEF Late, Early, Handling, Over, Goto, Only, Request, file, read, fixed,
             ends, tracee, Obeys, Alive, Gone, Dies, Stopped, First, ForkReturn, Execve,
             None
<1>. USE DEF ArmedInv
<1>0. /\ at \in Nat
      /\ proc \in {"none", "running", "stopped", "frozen", "dead", "reaped"}
      /\ freed \in 0..2 /\ pending \subseteq {"TRAP", "STOP", "TERM"}
      /\ (pc = "fork" => proc = "none") /\ (~Over => ended = None)
  BY DEF TypeInv, TypeOK, PtraceTypeOK
<1>. USE <1>0
<1>1. CASE Fork \/ Attach \/ CatchSignal
  BY <1>1 DEF Fork, Attach, CatchSignal, ForkChild, AttachTo
<1>2. CASE LoadInfos \/ LoadFails BY <1>2 DEF LoadInfos, LoadFails
<1>3. CASE GiveUpFile \/ GiveUpLoad BY <1>3 DEF GiveUpFile, GiveUpLoad, GiveUp, Kill
<1>4. CASE WaitFirst \/ WaitStep
  BY <1>4 DEF WaitFirst, WaitStep, WaitPid, Wait, Waited
<1>5. CASE Test BY <1>5 DEF Test
<1>6. CASE GetRegs \/ PeekText \/ Step
  BY <1>6 DEF GetRegs, PeekText, Step, SingleStep
<1>7. CASE GetRegsReturn BY <1>7 DEF GetRegsReturn
<1>8. CASE PrintInstruction BY <1>8 DEF PrintInstruction
<1>9. CASE OpenDotfile BY <1>9 DEF OpenDotfile
<1>10. CASE StockFd \/ Header BY <1>10 DEF StockFd, Header
<1>11. CASE Format BY <1>11 DEF Format
<1>12. CASE Footer BY <1>12 DEF Footer, Brace
<1>13. CASE CloseFd BY <1>13 DEF CloseFd, Close
<1>14. CASE Return \/ Failed BY <1>14 DEF Return, Failed, Ends, Release
<1>15. CASE HandlerFooter BY <1>15 DEF HandlerFooter, Brace
<1>16. CASE HandlerClose BY <1>16 DEF HandlerClose, Close
<1>17. CASE HandlerLetGo BY <1>17 DEF HandlerLetGo, Kill, Detach
<1>18. CASE HandlerExit BY <1>18 DEF HandlerExit, Ends, Release
<1>19. CASE Tracee
  <2>1. CASE Traceme(~Over)
    <3>1. traced' <=> ~Over BY <2>1 DEF Traceme
    <3>2. mode # "pid" BY <2>1 DEF Traceme
    <3>3. UNCHANGED <<armed, pending, fate, mode, pc>>
      BY <1>19, <2>1 DEF Tracee, Traceme
    <3>. QED BY <3>1, <3>2, <3>3
  <2>2. CASE ChildFails BY <1>19, <2>2 DEF Tracee, ChildFails
  <2>3. CASE Exec BY <1>19, <2>3 DEF Tracee, Exec
  <2>4. CASE RunStep(Over) BY <1>19, <2>4 DEF Tracee, RunStep
  <2>5. CASE \E s \in pending : Deliver(s) BY <1>19, <2>5 DEF Tracee, Deliver
  <2>. QED BY <1>19, <2>1, <2>2, <2>3, <2>4, <2>5 DEF Tracee
<1>20. CASE Others BY <1>20 DEF Others, Send, SendKill, SentSignals
<1>21. CASE \E s \in Catchable : Interrupt(s) BY <1>21 DEF Interrupt
<1>22. CASE Die BY <1>22 DEF Die, Ends, Release
<1>23. CASE UNCHANGED vars BY <1>23 DEF vars
<1>. QED BY <1>1, <1>2, <1>3, <1>4, <1>5, <1>6, <1>7, <1>8, <1>9, <1>10, <1>11,
            <1>12, <1>13, <1>14, <1>15, <1>16, <1>17, <1>18, <1>19, <1>20, <1>21,
            <1>22, <1>23 DEF Next, Ftrace



\* There is no status at the start.
LEMMA GivenUpInit == Init => GivenUpInv
  BY DEF Init, PtraceInit, GivenUpInv, Early, Late, Handling, Over, None, First,
     ForkReturn, Gone, Obeys

\* A session without one has stepped nothing.
LEMMA GivenUpNext ==
    ASSUME TypeInv, ArmedInv, GivenUpInv, [Next]_vars
    PROVE  GivenUpInv'
<1>. USE DEF Late, Early, Handling, Over, Goto, Only, Request, file, read, fixed,
             ends, tracee, Obeys, Alive, Gone, Dies, Stopped, First, ForkReturn, Execve,
             None
<1>. USE DEF ArmedInv, GivenUpInv
<1>0. /\ at \in Nat
      /\ proc \in {"none", "running", "stopped", "frozen", "dead", "reaped"}
      /\ freed \in 0..2 /\ pending \subseteq {"TRAP", "STOP", "TERM"}
      /\ (pc = "fork" => proc = "none") /\ (~Over => ended = None)
  BY DEF TypeInv, TypeOK, PtraceTypeOK
<1>. USE <1>0
<1>1. CASE Fork \/ Attach \/ CatchSignal
  BY <1>1 DEF Fork, Attach, CatchSignal, ForkChild, AttachTo
<1>2. CASE LoadInfos \/ LoadFails BY <1>2 DEF LoadInfos, LoadFails
<1>3. CASE GiveUpFile \/ GiveUpLoad BY <1>3 DEF GiveUpFile, GiveUpLoad, GiveUp, Kill
<1>4. CASE WaitFirst \/ WaitStep
  BY <1>4 DEF WaitFirst, WaitStep, WaitPid, Wait, Waited
<1>5. CASE Test BY <1>5 DEF Test
<1>6. CASE GetRegs \/ PeekText \/ Step
  BY <1>6 DEF GetRegs, PeekText, Step, SingleStep
<1>7. CASE GetRegsReturn BY <1>7 DEF GetRegsReturn
<1>8. CASE PrintInstruction BY <1>8 DEF PrintInstruction
<1>9. CASE OpenDotfile BY <1>9 DEF OpenDotfile
<1>10. CASE StockFd \/ Header BY <1>10 DEF StockFd, Header
<1>11. CASE Format BY <1>11 DEF Format
<1>12. CASE Footer BY <1>12 DEF Footer, Brace
<1>13. CASE CloseFd BY <1>13 DEF CloseFd, Close
<1>14. CASE Return \/ Failed BY <1>14 DEF Return, Failed, Ends, Release
<1>15. CASE HandlerFooter BY <1>15 DEF HandlerFooter, Brace
<1>16. CASE HandlerClose BY <1>16 DEF HandlerClose, Close
<1>17. CASE HandlerLetGo BY <1>17 DEF HandlerLetGo, Kill, Detach
<1>18. CASE HandlerExit BY <1>18 DEF HandlerExit, Ends, Release
<1>19. CASE Tracee
  <2>1. CASE Traceme(~Over) BY <1>19, <2>1 DEF Tracee, Traceme
  <2>2. CASE ChildFails BY <1>19, <2>2 DEF Tracee, ChildFails
  <2>3. CASE Exec BY <1>19, <2>3 DEF Tracee, Exec
  <2>4. CASE RunStep(Over) BY <1>19, <2>4 DEF Tracee, RunStep
  <2>5. CASE \E s \in pending : Deliver(s) BY <1>19, <2>5 DEF Tracee, Deliver
  <2>. QED BY <1>19, <2>1, <2>2, <2>3, <2>4, <2>5 DEF Tracee
<1>20. CASE Others BY <1>20 DEF Others, Send, SendKill, SentSignals
<1>21. CASE \E s \in Catchable : Interrupt(s) BY <1>21 DEF Interrupt
<1>22. CASE Die BY <1>22 DEF Die, Ends, Release
<1>23. CASE UNCHANGED vars BY <1>23 DEF vars
<1>. QED BY <1>1, <1>2, <1>3, <1>4, <1>5, <1>6, <1>7, <1>8, <1>9, <1>10, <1>11,
            <1>12, <1>13, <1>14, <1>15, <1>16, <1>17, <1>18, <1>19, <1>20, <1>21,
            <1>22, <1>23 DEF Next, Ftrace

\* A process whose file was refused goes on unharmed although nobody detaches it:
\* it was never stepped, so that the exit of ftrace leaves it nothing but the
\* SIGSTOP of the attachment.
THEOREM GivenUpCorrect == Spec => []GivenUpProcessLives
  <1>1. ArmedInv /\ GivenUpInv => GivenUpProcessLives
    BY DEF ArmedInv, GivenUpInv, GivenUpProcessLives
  <1>. QED BY <1>1, TypeInit, TypeNext, ArmedInit, ArmedNext, GivenUpInit,
              GivenUpNext, PTL DEF Spec


\* No signal is caught at the start.
LEMMA CalmInit == Init => CalmInv
  BY DEF Init, PtraceInit, CalmInv, Early, Late, Handling, Over, None, First,
     ForkReturn, Gone, Obeys

\* Signals that interrupt a handler leave the stopped process as it was.
LEMMA CalmNext ==
    ASSUME TypeInv, ArmedInv, CalmInv, [Next]_vars
    PROVE  CalmInv'
<1>. USE DEF Late, Early, Handling, Over, Goto, Only, Request, file, read, fixed,
             ends, tracee, Obeys, Alive, Gone, Dies, Stopped, First, ForkReturn, Execve,
             None
<1>. USE DEF ArmedInv, CalmInv
<1>0. /\ at \in Nat
      /\ proc \in {"none", "running", "stopped", "frozen", "dead", "reaped"}
      /\ freed \in 0..2 /\ pending \subseteq {"TRAP", "STOP", "TERM"}
      /\ (pc = "fork" => proc = "none") /\ (~Over => ended = None)
  BY DEF TypeInv, TypeOK, PtraceTypeOK
<1>. USE <1>0
<1>1. CASE Fork \/ Attach \/ CatchSignal
  BY <1>1 DEF Fork, Attach, CatchSignal, ForkChild, AttachTo
<1>2. CASE LoadInfos \/ LoadFails BY <1>2 DEF LoadInfos, LoadFails
<1>3. CASE GiveUpFile \/ GiveUpLoad BY <1>3 DEF GiveUpFile, GiveUpLoad, GiveUp, Kill
<1>4. CASE WaitFirst \/ WaitStep
  BY <1>4 DEF WaitFirst, WaitStep, WaitPid, Wait, Waited
<1>5. CASE Test BY <1>5 DEF Test
<1>6. CASE GetRegs \/ PeekText \/ Step
  BY <1>6 DEF GetRegs, PeekText, Step, SingleStep
<1>7. CASE GetRegsReturn BY <1>7 DEF GetRegsReturn
<1>8. CASE PrintInstruction BY <1>8 DEF PrintInstruction
<1>9. CASE OpenDotfile BY <1>9 DEF OpenDotfile
<1>10. CASE StockFd \/ Header BY <1>10 DEF StockFd, Header
<1>11. CASE Format BY <1>11 DEF Format
<1>12. CASE Footer BY <1>12 DEF Footer, Brace
<1>13. CASE CloseFd BY <1>13 DEF CloseFd, Close
<1>14. CASE Return \/ Failed BY <1>14 DEF Return, Failed, Ends, Release
<1>15. CASE HandlerFooter BY <1>15 DEF HandlerFooter, Brace
<1>16. CASE HandlerClose BY <1>16 DEF HandlerClose, Close
<1>17. CASE HandlerLetGo BY <1>17 DEF HandlerLetGo, Kill, Detach
<1>18. CASE HandlerExit BY <1>18 DEF HandlerExit, Ends, Release
<1>19. CASE Tracee
  <2>1. CASE Traceme(~Over) BY <1>19, <2>1 DEF Tracee, Traceme
  <2>2. CASE ChildFails BY <1>19, <2>2 DEF Tracee, ChildFails
  <2>3. CASE Exec BY <1>19, <2>3 DEF Tracee, Exec
  <2>4. CASE RunStep(Over) BY <1>19, <2>4 DEF Tracee, RunStep
  <2>5. CASE \E s \in pending : Deliver(s) BY <1>19, <2>5 DEF Tracee, Deliver
  <2>. QED BY <1>19, <2>1, <2>2, <2>3, <2>4, <2>5 DEF Tracee
<1>20. CASE Others BY <1>20 DEF Others, Send, SendKill, SentSignals
<1>21. CASE \E s \in Catchable : Interrupt(s)
  <2>1. calm' => calm \/ Obeys BY <1>21 DEF Interrupt
  <2>2. pc' = "h_footer" /\ pc # "over" /\ UNCHANGED <<tracee, mode, ended>>
    BY <1>21 DEF Interrupt
  <2>. QED BY <2>1, <2>2
<1>22. CASE Die BY <1>22 DEF Die, Ends, Release
<1>23. CASE UNCHANGED vars BY <1>23 DEF vars
<1>. QED BY <1>1, <1>2, <1>3, <1>4, <1>5, <1>6, <1>7, <1>8, <1>9, <1>10, <1>11,
            <1>12, <1>13, <1>14, <1>15, <1>16, <1>17, <1>18, <1>19, <1>20, <1>21,
            <1>22, <1>23 DEF Next, Ftrace

\* A process that the first caught signal finds stopped outlives ftrace, however
\* many signals reach either of them from then on: it stays in that stop until a
\* handler has detached it, and the detachment leaves it no single-step flag.
THEOREM CalmCorrect == Spec => []InterruptSparesStopped
  <1>1. TypeInv /\ ArmedInv /\ CalmInv => InterruptSparesStopped
    BY DEF TypeInv, ArmedInv, CalmInv, InterruptSparesStopped, Over, Alive, Gone,
       None
  <1>. QED BY <1>1, TypeInit, TypeNext, ArmedInit, ArmedNext, CalmInit,
              CalmNext, PTL DEF Spec


-----------------------------------------------------------------------------
(* What a session displays: in which order, whether it was executed,       *)
(* whether anything is missing, and whether its result is its own.         *)

-----------------------------------------------------------------------------
(* The stops ftrace finds the tracee in.                                   *)

\* A session starts without a tracee that is stopped.
LEMMA StopInit == Init => StopInv
  BY DEF Init, PtraceInit, StopInv, Asking, Stepping, None, First

\* The tracee leaves a stop only when it is told to, or dies.
LEMMA StopNext ==
    ASSUME TypeInv, ArmedInv, StopInv, [Next]_vars
    PROVE  StopInv'
<1>. USE DEF Late, Early, Handling, Over, Goto, Only, Request, file, read, fixed,
             ends, tracee, Obeys, Alive, Gone, Dies, Stopped, First, ForkReturn,
             Execve, None, Stepping, Stepped
<1>. USE DEF ArmedInv, StopInv, Asking, StillTraced
<1>0. /\ at \in Nat
      /\ proc \in {"none", "running", "stopped", "frozen", "dead", "reaped"}
      /\ pending \subseteq {"TRAP", "STOP", "TERM"}
      /\ stop # "none" <=> proc = "stopped"
      /\ (pc = "fork" => proc = "none") /\ (pc = "attach" => mode = "pid")
  BY DEF TypeInv, TypeOK, PtraceTypeOK
<1>. USE <1>0
<1>1. CASE Fork \/ Attach \/ CatchSignal
  BY <1>1 DEF Fork, Attach, CatchSignal, ForkChild, AttachTo
<1>2. CASE LoadInfos \/ LoadFails BY <1>2 DEF LoadInfos, LoadFails
<1>3. CASE GiveUpFile \/ GiveUpLoad
  BY <1>3 DEF GiveUpFile, GiveUpLoad, GiveUp, Kill
<1>4. CASE WaitFirst \/ WaitStep
  BY <1>4 DEF WaitFirst, WaitStep, WaitPid, Wait, Waited
<1>5. CASE Test BY <1>5 DEF Test
<1>6. CASE GetRegs BY <1>6 DEF GetRegs
<1>7. CASE PeekText BY <1>7 DEF PeekText
<1>8. CASE Step BY <1>8 DEF Step, SingleStep
<1>9. CASE GetRegsReturn BY <1>9 DEF GetRegsReturn
<1>10. CASE PrintInstruction BY <1>10 DEF PrintInstruction
<1>11. CASE OpenDotfile BY <1>11 DEF OpenDotfile
<1>12. CASE StockFd \/ Header BY <1>12 DEF StockFd, Header
<1>13. CASE Format BY <1>13 DEF Format
<1>14. CASE Footer \/ CloseFd BY <1>14 DEF Footer, Brace, CloseFd, Close
<1>15. CASE Return \/ Failed BY <1>15 DEF Return, Failed, Ends, Release
<1>16. CASE HandlerFooter \/ HandlerClose
  BY <1>16 DEF HandlerFooter, HandlerClose, Brace, Close
<1>17. CASE HandlerLetGo BY <1>17 DEF HandlerLetGo, Kill, Detach
<1>18. CASE HandlerExit BY <1>18 DEF HandlerExit, Ends, Release
<1>19. CASE Tracee
  <2>1. CASE Traceme(~Over) BY <1>19, <2>1 DEF Tracee, Traceme
  <2>2. CASE ChildFails BY <1>19, <2>2 DEF Tracee, ChildFails
  <2>3. CASE Exec BY <1>19, <2>3 DEF Tracee, Exec
  <2>4. CASE RunStep(Over) BY <1>19, <2>4 DEF Tracee, RunStep
  <2>5. CASE \E s \in pending : Deliver(s) BY <1>19, <2>5 DEF Tracee, Deliver
  <2>. QED BY <1>19, <2>1, <2>2, <2>3, <2>4, <2>5 DEF Tracee
<1>20. CASE Others BY <1>20 DEF Others, Send, SendKill, SentSignals
<1>21. CASE \E s \in Catchable : Interrupt(s) BY <1>21 DEF Interrupt
<1>22. CASE Die BY <1>22 DEF Die, Ends, Release
<1>23. CASE UNCHANGED vars BY <1>23 DEF vars
<1>. QED BY <1>1, <1>2, <1>3, <1>4, <1>5, <1>6, <1>7, <1>8, <1>9, <1>10, <1>11,
            <1>12, <1>13, <1>14, <1>15, <1>16, <1>17, <1>18, <1>19, <1>20, <1>21,
            <1>22, <1>23 DEF Next, Ftrace

-----------------------------------------------------------------------------
(* What becomes of a command.                                              *)

\* No instruction is read at the start.
LEMMA OutliveInit == Init => OutliveInv
  BY DEF Init, PtraceInit, OutliveInv, Early, Late, Handling, Over, None, First,
     ForkReturn, Gone, Obeys, Stepping, Stepped

\* A command that was read is armed, dead, or about to be stepped.
LEMMA OutliveNext ==
    ASSUME TypeInv, ArmedInv, StopInv, OutliveInv, [Next]_vars
    PROVE  OutliveInv'
<1>. USE DEF Late, Early, Handling, Over, Goto, Only, Request, file, read, fixed,
             ends, tracee, Obeys, Alive, Gone, Dies, Stopped, First, ForkReturn, Execve,
             None, Stepping, Stepped
<1>. USE DEF ArmedInv, OutliveInv
<1>0. /\ at \in Nat
      /\ proc \in {"none", "running", "stopped", "frozen", "dead", "reaped"}
      /\ freed \in 0..2 /\ pending \subseteq {"TRAP", "STOP", "TERM"}
      /\ (pc = "fork" => proc = "none") /\ (~Over => ended = None)
      /\ proc = "stopped" => stop \in {"TRAP", "STOP", "TERM"}
  BY DEF TypeInv, TypeOK, PtraceTypeOK
<1>asks. /\ pc \in Asking =>
              Gone \/ (traced /\ proc = "stopped" /\ status = <<"stopped", stop>>)
         /\ pc = "getregs" /\ ~Gone => at >= First
  BY DEF StopInv, ArmedInv, Asking, StillTraced
<1>. USE <1>0, <1>asks DEF Asking
<1>1. CASE Fork \/ Attach \/ CatchSignal
  BY <1>1 DEF Fork, Attach, CatchSignal, ForkChild, AttachTo
<1>2. CASE LoadInfos \/ LoadFails BY <1>2 DEF LoadInfos, LoadFails
<1>3. CASE GiveUpFile \/ GiveUpLoad BY <1>3 DEF GiveUpFile, GiveUpLoad, GiveUp, Kill
<1>4. CASE WaitFirst \/ WaitStep
  BY <1>4 DEF WaitFirst, WaitStep, WaitPid, Wait, Waited
<1>5. CASE Test BY <1>5 DEF Test, StillTraced
<1>6. CASE GetRegs \/ PeekText \/ Step
  <2>1. CASE GetRegs BY <2>1 DEF GetRegs
  <2>2. CASE PeekText BY <2>2 DEF PeekText
  <2>3. CASE Step BY <2>3 DEF Step, SingleStep
  <2>. QED BY <1>6, <2>1, <2>2, <2>3
<1>7. CASE GetRegsReturn BY <1>7 DEF GetRegsReturn
<1>8. CASE PrintInstruction BY <1>8 DEF PrintInstruction
<1>9. CASE OpenDotfile BY <1>9 DEF OpenDotfile
<1>10. CASE StockFd \/ Header BY <1>10 DEF StockFd, Header
<1>11. CASE Format BY <1>11 DEF Format
<1>12. CASE Footer BY <1>12 DEF Footer, Brace
<1>13. CASE CloseFd BY <1>13 DEF CloseFd, Close
<1>14. CASE Return \/ Failed BY <1>14 DEF Return, Failed, Ends, Release
<1>15. CASE HandlerFooter BY <1>15 DEF HandlerFooter, Brace
<1>16. CASE HandlerClose BY <1>16 DEF HandlerClose, Close
<1>17. CASE HandlerLetGo BY <1>17 DEF HandlerLetGo, Kill, Detach
<1>18. CASE HandlerExit BY <1>18 DEF HandlerExit, Ends, Release
<1>19. CASE Tracee
  <2>1. CASE Traceme(~Over) BY <1>19, <2>1 DEF Tracee, Traceme
  <2>2. CASE ChildFails BY <1>19, <2>2 DEF Tracee, ChildFails
  <2>3. CASE Exec BY <1>19, <2>3 DEF Tracee, Exec
  <2>4. CASE RunStep(Over) BY <1>19, <2>4 DEF Tracee, RunStep
  <2>5. CASE \E s \in pending : Deliver(s) BY <1>19, <2>5 DEF Tracee, Deliver
  <2>. QED BY <1>19, <2>1, <2>2, <2>3, <2>4, <2>5 DEF Tracee
<1>20. CASE Others BY <1>20 DEF Others, Send, SendKill, SentSignals
<1>21. CASE \E s \in Catchable : Interrupt(s) BY <1>21 DEF Interrupt
<1>22. CASE Die BY <1>22 DEF Die, Ends, Release
<1>23. CASE UNCHANGED vars BY <1>23 DEF vars
<1>. QED BY <1>1, <1>2, <1>3, <1>4, <1>5, <1>6, <1>7, <1>8, <1>9, <1>10, <1>11,
            <1>12, <1>13, <1>14, <1>15, <1>16, <1>17, <1>18, <1>19, <1>20, <1>21,
            <1>22, <1>23 DEF Next, Ftrace

\* A command does not outlive ftrace: stop_son and the handlers kill it wherever
\* they meet it, and one that trace_son leaves is armed or dead when ftrace
\* exits, so that its next instruction is its last, or was kept out of the loop
\* by a SIGTERM before its execve.
THEOREM OutliveCorrect == Spec => []CommandDoesNotOutlive
  <1>1. TypeInv /\ OutliveInv => CommandDoesNotOutlive
    BY DEF OutliveInv, CommandDoesNotOutlive, TypeInv, TypeOK, PtraceTypeOK
  <1>. QED BY <1>1, TypeInit, TypeNext, ArmedInit, ArmedNext, StopInit, StopNext,
              OutliveInit, OutliveNext, PTL DEF Spec

-----------------------------------------------------------------------------
(* What Format adds.                                                       *)

\* What is displayed is a sequence of instructions of the program.
LEMMA ShownType ==
    ASSUME TypeInv
    PROVE  /\ Len(shown) \in Nat /\ DOMAIN shown = 1..Len(shown)
           /\ \A i \in 1..Len(shown) : shown[i] \in Lines
           /\ ShownAt \subseteq First..Final
           /\ \A i \in 1..Len(shown) : shown[i].at \in ShownAt
<1>1. shown \in Seq(Lines)
  BY DEF TypeInv, TypeOK
<1>2. /\ Len(shown) \in Nat /\ DOMAIN shown = 1..Len(shown)
      /\ \A i \in 1..Len(shown) : shown[i] \in Lines
  BY <1>1, LenProperties, ElementOfSeq
<1>. QED BY <1>2 DEF ShownAt, Lines

\* A displayed instruction comes behind the others; nothing else happens to
\* what was displayed.
LEMMA FormatShows ==
    ASSUME TypeInv, Format
    PROVE  /\ word # "call" => shown' = shown
           /\ word = "call" =>
                /\ Len(shown') = Len(shown) + 1
                /\ DOMAIN shown' = 1..(Len(shown) + 1)
                /\ \A i \in 1..Len(shown) : shown'[i] = shown[i]
                /\ shown'[Len(shown) + 1] = [at |-> regs, after |-> regs_return]
                /\ ShownAt' = ShownAt \union {regs}
<1>1. CASE word # "call"
  BY <1>1 DEF Format
<1>2. CASE word = "call"
  <2> DEFINE T == Lines
             l == [at |-> regs, after |-> regs_return]
  <2>1. shown' = Append(shown, l)
    BY <1>2 DEF Format
  <2>2. shown \in Seq(T) /\ l \in T
    BY <1>2, Bounds DEF Format, TypeInv, TypeOK, Stepping, Lines
  <2>3. /\ Len(shown') = Len(shown) + 1
        /\ \A i \in 1..Len(shown) : shown'[i] = shown[i]
        /\ shown'[Len(shown) + 1] = l
    BY <2>1, <2>2, AppendProperties
  <2>4. Append(shown, l) \in Seq(T)
    BY <2>2, AppendProperties
  <2>5. DOMAIN shown' = 1..(Len(shown) + 1) /\ Len(shown) \in Nat
        /\ DOMAIN shown = 1..Len(shown)
    BY <2>1, <2>2, <2>3, <2>4, LenProperties
  <2>6. ShownAt' = ShownAt \union {regs}
    BY <2>3, <2>5 DEF ShownAt
  <2>. QED BY <1>2, <2>3, <2>5, <2>6
<1>. QED BY <1>1, <1>2

-----------------------------------------------------------------------------
(* Where the tracee stands.                                                *)

\* Nothing is read at the start.
LEMMA PlaceInit == Init => PlaceInv
  BY Bounds DEF Init, PtraceInit, PlaceInv, ShownAt, Stepping, None

\* The tracee executes what was read, or stops for a signal before it.
LEMMA PlaceNext ==
    ASSUME TypeInv, ArmedInv, StopInv, PlaceInv, [Next]_vars
    PROVE  PlaceInv'
<1>. USE DEF Late, Early, Handling, Over, Goto, Only, Request, file, read, fixed,
             ends, tracee, Obeys, Alive, Gone, Dies, Stopped, First, ForkReturn,
             Execve, None, Stepping, Stepped
<1>. USE DEF PlaceInv
<1>0. /\ at \in Nat /\ regs \in Nat /\ start \in Nat
      /\ proc \in {"none", "running", "stopped", "frozen", "dead", "reaped"}
      /\ pending \subseteq {"TRAP", "STOP", "TERM"}
      /\ stop # "none" <=> proc = "stopped"
      /\ (pc = "fork" => proc = "none") /\ (pc = "attach" => mode = "pid")
  BY DEF TypeInv, TypeOK, PtraceTypeOK
<1>. USE <1>0
<1>asks. /\ pc \in Asking => Gone \/ (traced /\ proc = "stopped")
         /\ pc \in {"getregs", "peek", "step"} /\ ~Gone
              => stop \in {"TRAP", "STOP"} /\ at >= First
         /\ pc = "wait" => Gone \/ (armed /\ traced /\ at >= First)
  BY DEF StopInv, ArmedInv, Asking, StillTraced
<1>. USE <1>asks DEF Asking
<1>types. ShownAt \subseteq First..Final /\ Final \in Nat
  BY ShownType, Bounds
<1>same. shown' = shown => ShownAt' = ShownAt
  BY DEF ShownAt
<1>trap. "TRAP" \notin pending \/ ~traced
  BY DEF ArmedInv
<1>. USE <1>types, <1>same, <1>trap
<1>1. CASE Fork \/ Attach \/ CatchSignal
  BY <1>1 DEF Fork, Attach, CatchSignal, ForkChild, AttachTo
<1>2. CASE LoadInfos \/ LoadFails BY <1>2 DEF LoadInfos, LoadFails
<1>3. CASE GiveUpFile \/ GiveUpLoad
  BY <1>3 DEF GiveUpFile, GiveUpLoad, GiveUp, Kill
<1>4. CASE WaitFirst \/ WaitStep
  BY <1>4 DEF WaitFirst, WaitStep, WaitPid, Wait, Waited
<1>5. CASE Test BY <1>5 DEF Test
<1>6. CASE GetRegs
  <2>1. CASE Obeys
    <3>1. (regs <= at)' BY <1>6, <2>1 DEF GetRegs
    <3>2. (pc = "peek" => regs = at \/ Gone)' BY <1>6, <2>1 DEF GetRegs
    <3>3. (pc = "step" => (regs = at /\ word = program[at]) \/ Gone)'
      BY <1>6, <2>1 DEF GetRegs
    <3>4. (pc = "wait" /\ proc = "running" => regs = at /\ word = program[at])'
      BY <1>6, <2>1 DEF GetRegs
    <3>5. (pc \in Stepped /\ stop = "TRAP" => regs < at)'
      BY <1>6, <2>1 DEF GetRegs
    <3>6. (\A p \in ShownAt : p <= at /\ (stop = "TRAP" => p < at))'
      BY <1>6, <2>1 DEF GetRegs
    <3>. QED BY <3>1, <3>2, <3>3, <3>4, <3>5, <3>6
  <2>2. CASE ~Obeys BY <1>6, <2>2 DEF GetRegs
  <2>. QED BY <2>1, <2>2
<1>7. CASE PeekText
  <2>1. CASE Obeys
    <3>1. (regs <= at)' BY <1>7, <2>1 DEF PeekText
    <3>2. (pc = "peek" => regs = at \/ Gone)' BY <1>7, <2>1 DEF PeekText
    <3>3. (pc = "step" => (regs = at /\ word = program[at]) \/ Gone)'
      BY <1>7, <2>1 DEF PeekText
    <3>4. (pc = "wait" /\ proc = "running" => regs = at /\ word = program[at])'
      BY <1>7, <2>1 DEF PeekText
    <3>5. (pc \in Stepped /\ stop = "TRAP" => regs < at)'
      BY <1>7, <2>1 DEF PeekText
    <3>6. (\A p \in ShownAt : p <= at /\ (stop = "TRAP" => p < at))'
      BY <1>7, <2>1 DEF PeekText
    <3>. QED BY <3>1, <3>2, <3>3, <3>4, <3>5, <3>6
  <2>2. CASE ~Obeys BY <1>7, <2>2 DEF PeekText
  <2>. QED BY <2>1, <2>2
<1>8. CASE Step BY <1>8 DEF Step, SingleStep
<1>9. CASE GetRegsReturn BY <1>9 DEF GetRegsReturn
<1>10. CASE PrintInstruction BY <1>10 DEF PrintInstruction
<1>11. CASE OpenDotfile BY <1>11 DEF OpenDotfile
<1>12. CASE StockFd \/ Header BY <1>12 DEF StockFd, Header
<1>13. CASE Format
  BY <1>13, FormatShows DEF Format
<1>14. CASE Footer \/ CloseFd BY <1>14 DEF Footer, Brace, CloseFd, Close
<1>15. CASE Return \/ Failed BY <1>15 DEF Return, Failed, Ends, Release
<1>16. CASE HandlerFooter \/ HandlerClose
  BY <1>16 DEF HandlerFooter, HandlerClose, Brace, Close
<1>17. CASE HandlerLetGo BY <1>17 DEF HandlerLetGo, Kill, Detach
<1>18. CASE HandlerExit BY <1>18 DEF HandlerExit, Ends, Release
<1>19. CASE Tracee
  <2>0. UNCHANGED <<regs, word, pc, program, shown>>
    BY <1>19 DEF Tracee
  <2>1. CASE Traceme(~Over)
    <3>1. at' = at + 1 /\ pc # "wait" /\ pc \notin Asking
      BY <2>1 DEF Traceme
    <3>2. stop' = stop /\ stop # "TRAP"
      BY <2>1 DEF Traceme
    <3>3. PlaceInv'
      <4>1. (regs <= at)' BY <2>0, <3>1, <3>2
      <4>2. (pc = "peek" => regs = at \/ Gone)' BY <2>0, <3>1, <3>2
      <4>3. (pc = "step" => (regs = at /\ word = program[at]) \/ Gone)'
        BY <2>0, <3>1, <3>2
      <4>4. (pc = "wait" /\ proc = "running" => regs = at /\ word = program[at])'
        BY <2>0, <3>1, <3>2
      <4>5. (pc \in Stepped /\ stop = "TRAP" => regs < at)' BY <2>0, <3>1, <3>2
      <4>6. (\A p \in ShownAt : p <= at /\ (stop = "TRAP" => p < at))'
        <5>1. shown' = shown /\ ShownAt' = ShownAt
          BY <2>0
        <5>2. \A p \in ShownAt : p \in Int /\ p <= at' /\ (stop' = "TRAP" => p < at')
          BY <2>0, <3>1, <3>2
        <5>. QED BY ONLY <5>1, <5>2
      <4>. QED BY <4>1, <4>2, <4>3, <4>4, <4>5, <4>6
    <3>. QED BY <3>3
  <2>2. CASE ChildFails BY <2>0, <2>2 DEF ChildFails
  <2>3. CASE Exec
    <3>1. at' = First /\ at < First /\ pc # "wait" /\ pc \notin Asking
      BY <2>3 DEF Exec
    <3>2. ShownAt = {}
      BY <3>1
    <3>3. PlaceInv'
      <4>1. (regs <= at)' BY <2>0, <3>1, <3>2
      <4>2. (pc = "peek" => regs = at \/ Gone)' BY <2>0, <3>1, <3>2
      <4>3. (pc = "step" => (regs = at /\ word = program[at]) \/ Gone)'
        BY <2>0, <3>1, <3>2
      <4>4. (pc = "wait" /\ proc = "running" => regs = at /\ word = program[at])'
        BY <2>0, <3>1, <3>2
      <4>5. (pc \in Stepped /\ stop = "TRAP" => regs < at)' BY <2>0, <3>1, <3>2
      <4>6. (\A p \in ShownAt : p <= at /\ (stop = "TRAP" => p < at))'
        <5>1. shown' = shown /\ ShownAt' = ShownAt
          BY <2>0
        <5>2. \A p \in ShownAt : p \in Int /\ p <= at' /\ (stop' = "TRAP" => p < at')
          BY <2>0, <3>1, <3>2
        <5>. QED BY ONLY <5>1, <5>2
      <4>. QED BY <4>1, <4>2, <4>3, <4>4, <4>5, <4>6
    <3>. QED BY <3>3
  <2>4. CASE RunStep(Over)
    <3>1. pc \notin Asking
      BY <2>4 DEF RunStep
    <3>2. CASE at = Final
      BY <2>0, <2>4, <3>1, <3>2 DEF RunStep
    <3>3. CASE at # Final
      <4>1. at' = at + 1 BY <2>4, <3>3 DEF RunStep
      <4>2. pc = "wait" => regs = at /\ proc' # "running"
        BY <2>4, <3>3 DEF RunStep
      <4>3. PlaceInv'
        <5>1. (regs <= at)' BY <2>0, <3>1, <4>1, <4>2
        <5>2. (pc = "peek" => regs = at \/ Gone)' BY <2>0, <3>1, <4>1, <4>2
        <5>3. (pc = "step" => (regs = at /\ word = program[at]) \/ Gone)'
          BY <2>0, <3>1, <4>1, <4>2
        <5>4. (pc = "wait" /\ proc = "running" => regs = at /\ word = program[at])'
          BY <2>0, <3>1, <4>1, <4>2
        <5>5. (pc \in Stepped /\ stop = "TRAP" => regs < at)'
          BY <2>0, <3>1, <4>1, <4>2
        <5>6. (\A p \in ShownAt : p <= at /\ (stop = "TRAP" => p < at))'
          <6>1. shown' = shown /\ ShownAt' = ShownAt
            BY <2>0
          <6>2. \A p \in ShownAt : p \in Int /\ p <= at' /\ (stop' = "TRAP" => p < at')
            BY <2>0, <3>1, <4>1, <4>2
          <6>. QED BY ONLY <6>1, <6>2
        <5>. QED BY <5>1, <5>2, <5>3, <5>4, <5>5, <5>6
      <4>. QED BY <4>3
    <3>. QED BY <3>2, <3>3
  <2>5. CASE \E s \in pending : Deliver(s) BY <2>0, <2>5 DEF Deliver
  <2>. QED BY <1>19, <2>1, <2>2, <2>3, <2>4, <2>5 DEF Tracee
<1>20. CASE Others BY <1>20 DEF Others, Send, SendKill, SentSignals
<1>21. CASE \E s \in Catchable : Interrupt(s) BY <1>21 DEF Interrupt
<1>22. CASE Die BY <1>22 DEF Die, Ends, Release
<1>23. CASE UNCHANGED vars BY <1>23 DEF vars
<1>. QED BY <1>1, <1>2, <1>3, <1>4, <1>5, <1>6, <1>7, <1>8, <1>9, <1>10, <1>11,
            <1>12, <1>13, <1>14, <1>15, <1>16, <1>17, <1>18, <1>19, <1>20, <1>21,
            <1>22, <1>23 DEF Next, Ftrace

\* Everything displayed before the loop goes round for a step was executed: a
\* stop for a step is past the instruction that was read before it.
THEOREM ExecutedCorrect == Spec => []ShownWasExecuted
  <1>1. StopInv /\ PlaceInv => ShownWasExecuted
    BY DEF StopInv, PlaceInv, ShownWasExecuted, Asking
  <1>. QED BY <1>1, TypeInit, TypeNext, ArmedInit, ArmedNext, StopInit, StopNext,
              PlaceInit, PlaceNext, PTL DEF Spec

-----------------------------------------------------------------------------
(* Results.                                                                *)

\* A tracee that is gone does not come back.
LEMMA StaysGone ==
    ASSUME TypeInv, [Next]_vars, Gone
    PROVE  Gone' /\ at' = at
BY Moves DEF TypeInv, TraceeMoves, ForkChild, AttachTo, SingleStep, Detach, Kill, Wait,
   Release, Traceme, ChildFails, Exec, RunStep, Deliver, Send, SendKill, Gone, Obeys,
   Alive, Dies, Stopped, tracee

\* Nothing is displayed at the start.
LEMMA FreshInit == Init => FreshInv
  BY DEF Init, PtraceInit, FreshInv, ResultIsFresh, Settled, ShownAt, Stepping,
     Stepped, None, First

\* What was displayed with other registers than its own.
Stale == \E i \in DOMAIN shown : ~Own(i) /\ ~Preempted(i)

\* As long as nothing is read or displayed, what was said of it goes on to hold.
LEMMA FreshSame ==
    ASSUME FreshInv, UNCHANGED <<shown, regs, program>>, Gone => Gone'
    PROVE  /\ Stale' <=> Stale
           /\ ResultIsFresh'
           /\ Settled => Settled'
           /\ ShownAt' = ShownAt
<1>1. \A i : (Own(i) <=> Own(i)') /\ (Preempted(i) <=> Preempted(i)')
  BY DEF Own, Preempted
<1>2. ResultIsFresh
  BY DEF FreshInv
<1>. QED BY <1>1, <1>2 DEF Stale, ResultIsFresh, Settled, ShownAt

\* A step that is not executed leaves the registers of the instruction, and no
\* step is made of a dead tracee.
LEMMA FreshNext ==
    ASSUME TypeInv, ArmedInv, StopInv, PlaceInv, FreshInv, [Next]_vars
    PROVE  FreshInv'
<1>. USE DEF Late, Early, Handling, Over, Goto, Only, Request, file, read, fixed,
             ends, tracee, Obeys, Alive, Gone, Dies, Stopped, First, ForkReturn,
             Execve, None, Stepping, Stepped
<1>0. /\ at \in Nat /\ regs \in Nat /\ start \in Nat
      /\ proc \in {"none", "running", "stopped", "frozen", "dead", "reaped"}
      /\ pending \subseteq {"TRAP", "STOP", "TERM"}
      /\ stop # "none" <=> proc = "stopped"
      /\ (pc = "fork" => proc = "none") /\ (pc = "attach" => mode = "pid")
  BY DEF TypeInv, TypeOK, PtraceTypeOK
<1>. USE <1>0
<1>asks. /\ pc \in Asking => Gone \/ (traced /\ proc = "stopped")
         /\ pc = "wait" => Gone \/ (armed /\ traced /\ at >= First)
         /\ pc = "peek" => regs = at \/ Gone
         /\ pc = "step" => regs = at \/ Gone
         /\ pc = "wait" /\ proc = "running" => regs = at
         /\ pc \in {"getregs", "peek", "step"} /\ ~Gone => at >= First
  BY DEF StopInv, ArmedInv, PlaceInv, Asking, StillTraced
<1>. USE <1>asks DEF Asking
<1>gone. Gone => Gone' /\ at' = at
  BY StaysGone
<1>. DEFINE Last == shown[Len(shown)].at
<1>inv. /\ pc \in Early => shown = <<>>
        /\ \A p \in ShownAt : program[p] = "call"
        /\ pc \in Stepping /\ word = "call" => program[regs] = "call"
        /\ pc \in Stepped /\ word = "call" => Gone \/ at \in {regs, regs + 1}
        /\ pc \in {"print", "open", "stock", "header", "format"}
             => Gone \/ regs_return = at
        /\ pc \in {"test", "getregs", "peek"} => Settled \/ at = Last
        /\ pc \in Stepping /\ word # "call" => Settled
        /\ Stale => Gone /\ (pc \in Stepping => word # "call")
  BY DEF FreshInv, Stale
<1>inv2. FreshInv' <=>
        /\ pc' \in Early => shown' = <<>>
        /\ \A p \in ShownAt' : program'[p] = "call"
        /\ pc' \in Stepping /\ word' = "call" => program'[regs'] = "call"
        /\ pc' \in Stepped /\ word' = "call" => Gone' \/ at' \in {regs', regs' + 1}
        /\ pc' \in {"print", "open", "stock", "header", "format"}
             => Gone' \/ regs_return' = at'
        /\ pc' \in {"test", "getregs", "peek"} => Settled' \/ at' = Last'
        /\ pc' \in Stepping /\ word' # "call" => Settled'
        /\ Stale' => Gone' /\ (pc' \in Stepping => word' # "call")
        /\ ResultIsFresh'
  BY DEF FreshInv, Stale
<1>same. UNCHANGED <<shown, regs, program>>
           => /\ Stale' <=> Stale
              /\ ResultIsFresh'
              /\ Settled => Settled'
              /\ ShownAt' = ShownAt
              /\ Last' = Last
  BY <1>gone, FreshSame
<1>. HIDE DEF Last
<1>. USE <1>gone, <1>inv, <1>inv2, <1>same
<1>1. CASE Fork \/ Attach \/ CatchSignal
  BY <1>1 DEF Fork, Attach, CatchSignal, ForkChild, AttachTo
<1>2. CASE LoadInfos \/ LoadFails BY <1>2 DEF LoadInfos, LoadFails
<1>3. CASE GiveUpFile \/ GiveUpLoad
  BY <1>3 DEF GiveUpFile, GiveUpLoad, GiveUp, Kill
<1>4. CASE WaitFirst \/ WaitStep
  BY <1>4 DEF WaitFirst, WaitStep, WaitPid, Wait, Waited, Settled
<1>5. CASE Test BY <1>5 DEF Test
<1>6. CASE GetRegs
  <2>1. /\ pc = "getregs" /\ pc' = "peek"
        /\ UNCHANGED <<shown, program, word, regs_return, proc, at>>
    BY <1>6 DEF GetRegs
  <2>2. CASE ~Obeys
    BY <1>6, <2>1, <2>2 DEF GetRegs
  <2>3. CASE Obeys
    <3>1. regs' = at /\ ~Gone /\ ~Stale
      BY <1>6, <2>1, <2>3 DEF GetRegs
    <3>2. \A i \in DOMAIN shown : Own(i) \/ Preempted(i)
      BY <3>1 DEF Stale
    <3>3. ShownAt' = ShownAt /\ Last' = Last /\ (Settled' <=> Settled)
      BY <2>1 DEF ShownAt, Last, Settled, Own
    <3>4. ASSUME NEW i \in DOMAIN shown PROVE Own(i)' \/ Preempted(i)'
      <4>1. CASE Own(i)
        BY <2>1, <4>1 DEF Own
      <4>2. CASE Preempted(i) /\ i < Len(shown)
        BY <2>1, <4>2 DEF Preempted
      <4>3. CASE Preempted(i) /\ ~(i < Len(shown)) /\ ~Own(i)
        <5>1. i = Len(shown) /\ shown # <<>>
          BY <4>3, ShownType
        <5>2. at = Last
          BY <2>1, <3>1, <4>3, <5>1 DEF Settled
        <5>. QED BY <2>1, <3>1, <4>3, <5>1, <5>2 DEF Preempted, Last
      <4>. QED BY <3>2, <4>1, <4>2, <4>3
    <3>5. ~Stale' /\ ResultIsFresh'
      BY <2>1, <3>4 DEF Stale, ResultIsFresh
    <3>. QED BY <2>1, <3>1, <3>3, <3>5
  <2>. QED BY <2>2, <2>3
<1>7. CASE PeekText
  <2>1. /\ pc = "peek" /\ pc' = "step"
        /\ UNCHANGED <<shown, program, regs, regs_return, proc, at>>
    BY <1>7 DEF PeekText
  <2>2. CASE ~Obeys
    BY <1>7, <2>1, <2>2 DEF PeekText, Settled
  <2>3. CASE Obeys
    <3>1. regs = at /\ ~Gone /\ ~Stale /\ at >= First /\ word' = program[regs]
      BY <1>7, <2>1, <2>3 DEF PeekText
    <3>2. CASE Settled
      BY <2>1, <3>1, <3>2
    <3>3. CASE ~Settled
      <4>1. at = Last /\ shown # <<>>
        BY <2>1, <3>3 DEF Settled
      <4>2. Last \in ShownAt
        BY <4>1, ShownType DEF Last
      <4>3. word' = "call"
        BY <3>1, <4>1, <4>2
      <4>. QED BY <2>1, <3>1, <4>3
    <3>. QED BY <3>2, <3>3
  <2>. QED BY <2>2, <2>3
<1>8. CASE Step BY <1>8 DEF Step, SingleStep
<1>9. CASE GetRegsReturn BY <1>9 DEF GetRegsReturn
<1>10. CASE PrintInstruction BY <1>10 DEF PrintInstruction
<1>11. CASE OpenDotfile BY <1>11 DEF OpenDotfile
<1>12. CASE StockFd \/ Header BY <1>12 DEF StockFd, Header
<1>13. CASE Format
  <2>1. /\ pc = "format" /\ pc' = "test"
        /\ UNCHANGED <<program, regs, word, regs_return, proc, at>>
    BY <1>13 DEF Format
  <2>2. CASE word # "call"
    BY <2>1, <2>2, <1>13, FormatShows
  <2>3. CASE word = "call"
    <3>. PICK n \in Nat : n = Len(shown)
      BY ShownType
    <3>1. /\ DOMAIN shown = 1..n /\ Len(shown) = n
          /\ Len(shown') = n + 1 /\ DOMAIN shown' = 1..(n + 1)
          /\ \A i \in 1..n : shown'[i] = shown[i]
          /\ shown'[n + 1] = [at |-> regs, after |-> regs_return]
          /\ ShownAt' = ShownAt \union {regs}
      BY <1>13, <2>3, ShownType, FormatShows
    <3>2. ~Stale
      BY <2>1, <2>3
    <3>3. ASSUME NEW i \in 1..n PROVE Own(i)' \/ Preempted(i)'
      <4>1. Own(i) \/ Preempted(i)
        BY <3>1, <3>2 DEF Stale
      <4>2. shown'[i] = shown[i] /\ i < n + 1
        BY <3>1
      <4>3. CASE Own(i)
        BY <4>2, <4>3 DEF Own
      <4>4. CASE Preempted(i) /\ i < n
        <5>1. shown'[i + 1] = shown[i + 1]
          BY <3>1, <4>4
        <5>. QED BY <3>1, <4>2, <4>4, <5>1 DEF Preempted
      <4>5. CASE Preempted(i) /\ i = n
        <5>1. shown[i].after = shown[i].at /\ shown[i].at = regs
          BY <4>5 DEF Preempted
        <5>2. shown'[i + 1].at = regs
          BY <3>1, <4>5
        <5>. QED BY <3>1, <4>2, <5>1, <5>2 DEF Preempted
      <4>. QED BY <3>1, <4>1, <4>3, <4>4, <4>5
    <3>4. Own(n + 1)' \/ Preempted(n + 1)' \/ Gone'
      <4>1. Gone \/ (regs_return = at /\ at \in {regs, regs + 1})
        BY <2>1, <2>3
      <4>2. CASE at = regs + 1 /\ regs_return = at
        BY <2>1, <3>1, <4>2 DEF Own
      <4>3. CASE at = regs /\ regs_return = at
        BY <2>1, <3>1, <4>3 DEF Preempted
      <4>. QED BY <4>1, <4>2, <4>3
    <3>5. ResultIsFresh' /\ (Stale' => Gone')
      BY <3>1, <3>3, <3>4 DEF ResultIsFresh, Stale
    <3>6. Settled' \/ at' = Last'
      <4>1. Gone \/ at = regs \/ (regs_return = at /\ at = regs + 1)
        BY <2>1, <2>3
      <4>2. CASE regs_return = at /\ at = regs + 1
        BY <2>1, <3>1, <4>2 DEF Settled, Own
      <4>3. CASE at = regs
        BY <2>1, <3>1, <4>3 DEF Last
      <4>. QED BY <4>1, <4>2, <4>3 DEF Settled
    <3>7. \A p \in ShownAt' : program'[p] = "call"
      BY <2>1, <2>3, <3>1
    <3>. QED BY <2>1, <3>5, <3>6, <3>7
  <2>. QED BY <2>2, <2>3
<1>14. CASE Footer \/ CloseFd BY <1>14 DEF Footer, Brace, CloseFd, Close
<1>15. CASE Return \/ Failed BY <1>15 DEF Return, Failed, Ends, Release
<1>16. CASE HandlerFooter \/ HandlerClose
  BY <1>16 DEF HandlerFooter, HandlerClose, Brace, Close
<1>17. CASE HandlerLetGo BY <1>17 DEF HandlerLetGo, Kill, Detach
<1>18. CASE HandlerExit BY <1>18 DEF HandlerExit, Ends, Release
<1>19. CASE Tracee
  <2>1. CASE Traceme(~Over) BY <1>19, <2>1 DEF Tracee, Traceme
  <2>2. CASE ChildFails BY <1>19, <2>2 DEF Tracee, ChildFails
  <2>3. CASE Exec BY <1>19, <2>3 DEF Tracee, Exec
  <2>4. CASE RunStep(Over) BY <1>19, <2>4 DEF Tracee, RunStep
  <2>5. CASE \E s \in pending : Deliver(s) BY <1>19, <2>5 DEF Tracee, Deliver
  <2>. QED BY <1>19, <2>1, <2>2, <2>3, <2>4, <2>5 DEF Tracee
<1>20. CASE Others BY <1>20 DEF Others, Send, SendKill, SentSignals
<1>21. CASE \E s \in Catchable : Interrupt(s) BY <1>21 DEF Interrupt
<1>22. CASE Die BY <1>22 DEF Die, Ends, Release
<1>23. CASE UNCHANGED vars BY <1>23 DEF vars
<1>. QED BY <1>1, <1>2, <1>3, <1>4, <1>5, <1>6, <1>7, <1>8, <1>9, <1>10, <1>11,
            <1>12, <1>13, <1>14, <1>15, <1>16, <1>17, <1>18, <1>19, <1>20, <1>21,
            <1>22, <1>23 DEF Next, Ftrace

\* A system call is displayed with its own result, whatever signals come between
\* the step and the registers: but for one that a signal preempted, which is
\* displayed with its number and read again before anything else, and the last
\* instruction of a tracee that died in it.
THEOREM FreshCorrect == Spec => []ResultIsFresh
  <1>1. FreshInv => ResultIsFresh BY DEF FreshInv
  <1>. QED BY <1>1, TypeInit, TypeNext, ArmedInit, ArmedNext, StopInit, StopNext,
              PlaceInit, PlaceNext, FreshInit, FreshNext, PTL DEF Spec

-----------------------------------------------------------------------------
(* Nothing is skipped.                                                     *)

\* There is no first instruction before ftrace starts.
LEMMA CoverInit == Init => CoverInv
  BY DEF Init, CoverInv, Asking, Stepping, Early

\* The tracee never gets more than one instruction ahead of what is displayed.
LEMMA CoverNext ==
    ASSUME TypeInv, ArmedInv, StopInv, PlaceInv, CoverInv, [Next]_vars
    PROVE  CoverInv'
<1>. USE DEF Late, Early, Handling, Over, Goto, Only, Request, file, read, fixed,
             ends, tracee, Obeys, Alive, Gone, Dies, Stopped, First, ForkReturn,
             Execve, None, Stepping, Stepped
<1>. USE DEF CoverInv, Covered
<1>0. /\ at \in Nat /\ regs \in Nat /\ start \in Nat
      /\ proc \in {"none", "running", "stopped", "frozen", "dead", "reaped"}
      /\ pending \subseteq {"TRAP", "STOP", "TERM"}
      /\ stop # "none" <=> proc = "stopped"
      /\ (pc = "fork" => proc = "none") /\ (pc = "attach" => mode = "pid")
  BY DEF TypeInv, TypeOK, PtraceTypeOK
<1>. USE <1>0
<1>asks. /\ pc \in Asking => Gone \/ (traced /\ proc = "stopped")
         /\ pc \in {"getregs", "peek", "step"} /\ ~Gone
              => stop \in {"TRAP", "STOP"} /\ at >= First
         /\ pc = "wait" => Gone \/ (armed /\ traced /\ at >= First)
  BY DEF StopInv, ArmedInv, Asking, StillTraced
<1>. USE <1>asks DEF Asking
<1>same. shown' = shown => ShownAt' = ShownAt
  BY DEF ShownAt
<1>. USE <1>same
<1>1. CASE Fork \/ Attach \/ CatchSignal
  BY <1>1 DEF Fork, Attach, CatchSignal, ForkChild, AttachTo
<1>2. CASE LoadInfos \/ LoadFails BY <1>2 DEF LoadInfos, LoadFails
<1>3. CASE GiveUpFile \/ GiveUpLoad
  BY <1>3 DEF GiveUpFile, GiveUpLoad, GiveUp, Kill
<1>4. CASE WaitFirst \/ WaitStep
  BY <1>4 DEF WaitFirst, WaitStep, WaitPid, Wait, Waited
<1>5. CASE Test BY <1>5 DEF Test
<1>6. CASE GetRegs BY <1>6 DEF GetRegs
<1>7. CASE PeekText BY <1>7 DEF PeekText
<1>8. CASE Step BY <1>8 DEF Step, SingleStep
<1>9. CASE GetRegsReturn BY <1>9 DEF GetRegsReturn
<1>10. CASE PrintInstruction BY <1>10 DEF PrintInstruction
<1>11. CASE OpenDotfile BY <1>11 DEF OpenDotfile
<1>12. CASE StockFd \/ Header BY <1>12 DEF StockFd, Header
<1>13. CASE Format
  BY <1>13, FormatShows DEF Format
<1>14. CASE Footer \/ CloseFd BY <1>14 DEF Footer, Brace, CloseFd, Close
<1>15. CASE Return \/ Failed BY <1>15 DEF Return, Failed, Ends, Release
<1>16. CASE HandlerFooter \/ HandlerClose
  BY <1>16 DEF HandlerFooter, HandlerClose, Brace, Close
<1>17. CASE HandlerLetGo BY <1>17 DEF HandlerLetGo, Kill, Detach
<1>18. CASE HandlerExit BY <1>18 DEF HandlerExit, Ends, Release
<1>19. CASE Tracee
  <2>1. CASE Traceme(~Over) BY <1>19, <2>1 DEF Tracee, Traceme
  <2>2. CASE ChildFails BY <1>19, <2>2 DEF Tracee, ChildFails
  <2>3. CASE Exec BY <1>19, <2>3 DEF Tracee, Exec
  <2>4. CASE RunStep(Over)
    <3>1. UNCHANGED <<regs, word, pc, program, shown, start>> /\ ShownAt' = ShownAt
      BY <1>19 DEF Tracee
    <3>2. proc = "running" /\ pc \notin Asking
      BY <2>4 DEF RunStep
    <3>3. CASE at = Final
      <4>1. at' = at BY <2>4, <3>3 DEF RunStep
      <4>. QED BY <3>1, <4>1
    <3>4. CASE at # Final
      <4>1. at' = at + 1 BY <2>4, <3>4 DEF RunStep
      <4>2. pc = "wait" => regs = at /\ word = program[regs]
        BY <3>2 DEF PlaceInv
      <4>3. pc = "wait" /\ start # 0 => Covered(regs)
        BY <4>2
      <4>. QED BY <3>1, <3>2, <4>1, <4>2, <4>3
    <3>. QED BY <3>3, <3>4
  <2>5. CASE \E s \in pending : Deliver(s) BY <1>19, <2>5 DEF Tracee, Deliver
  <2>. QED BY <1>19, <2>1, <2>2, <2>3, <2>4, <2>5 DEF Tracee
<1>20. CASE Others BY <1>20 DEF Others, Send, SendKill, SentSignals
<1>21. CASE \E s \in Catchable : Interrupt(s) BY <1>21 DEF Interrupt
<1>22. CASE Die BY <1>22 DEF Die, Ends, Release
<1>23. CASE UNCHANGED vars BY <1>23 DEF vars
<1>. QED BY <1>1, <1>2, <1>3, <1>4, <1>5, <1>6, <1>7, <1>8, <1>9, <1>10, <1>11,
            <1>12, <1>13, <1>14, <1>15, <1>16, <1>17, <1>18, <1>19, <1>20, <1>21,
            <1>22, <1>23 DEF Next, Ftrace

\* No step escapes trace_son, whatever signals reach either process: when the
\* loop comes round, every displayable instruction since the first one read and
\* before the one the tracee stands at is displayed.
THEOREM SkippedCorrect == Spec => []NothingSkipped
  <1>1. CoverInv => NothingSkipped
    BY DEF CoverInv, NothingSkipped, Covered, Asking, Stepped
  <1>. QED BY <1>1, TypeInit, TypeNext, ArmedInit, ArmedNext, StopInit, StopNext,
              PlaceInit, PlaceNext, CoverInit, CoverNext, PTL DEF Spec

-----------------------------------------------------------------------------
(* Order, and what is displayed again.                                     *)

\* The instructions displayed again are finitely many.
LEMMA AgainFinite ==
    ASSUME TypeInv
    PROVE  IsFiniteSet(Again) /\ Cardinality(Again) \in Nat
<1>1. Len(shown) - 1 \in Int
  BY ShownType
<1>2. IsFiniteSet(1..(Len(shown) - 1))
  BY <1>1, FS_Interval
<1>3. Again \subseteq 1..(Len(shown) - 1)
  BY DEF Again
<1>. QED BY <1>2, <1>3, FS_Subset, FS_CardinalityType

\* One more displayed adds at most itself to them, if it is no new one.
LEMMA AgainAppend ==
    ASSUME TypeInv, Format, word = "call"
    PROVE  /\ Cardinality(Again') \in Nat
           /\ Cardinality(Again') <= Cardinality(Again) + 1
           /\ regs \notin ShownAt => Again' = Again
<1>1. /\ Len(shown) \in Nat
      /\ Again' = {j \in 1..Len(shown) : shown'[j].at = shown'[j + 1].at}
      /\ \A j \in 1..Len(shown) : shown'[j] = shown[j] /\ shown[j].at \in ShownAt
      /\ shown'[Len(shown) + 1].at = regs
  BY FormatShows, ShownType DEF Again
<1>2. Again' \subseteq Again \union {Len(shown)}
  BY <1>1 DEF Again
<1>3. regs \notin ShownAt => Again' = Again
  <2>1. SUFFICES ASSUME regs \notin ShownAt PROVE Again' = Again
    OBVIOUS
  <2>2. Len(shown) \notin Again'
    BY <1>1, <2>1
  <2>3. Again \subseteq Again'
    BY <1>1 DEF Again
  <2>. QED BY <1>2, <2>2, <2>3
<1>4. /\ IsFiniteSet(Again \union {Len(shown)})
      /\ Cardinality(Again \union {Len(shown)}) <= Cardinality(Again) + 1
  <2>1. IsFiniteSet(Again) /\ Cardinality(Again) \in Nat
    BY AgainFinite
  <2>2. /\ IsFiniteSet(Again \union {Len(shown)})
        /\ \/ Cardinality(Again \union {Len(shown)}) = Cardinality(Again)
           \/ Cardinality(Again \union {Len(shown)}) = Cardinality(Again) + 1
    BY ONLY <2>1, FS_AddElement
  <2>. QED BY ONLY <2>1, <2>2
<1>5. Cardinality(Again') <= Cardinality(Again \union {Len(shown)})
  BY <1>2, <1>4, FS_Subset
<1>6. Cardinality(Again') \in Nat /\ Cardinality(Again \union {Len(shown)}) \in Nat
  BY <1>2, <1>4, FS_Subset, FS_CardinalityType
<1>. QED BY <1>3, <1>4, <1>5, <1>6, AgainFinite

\* Nothing was displayed at the start, nor stepped over.
LEMMA OrderInit == Init => OrderInv
<1>. SUFFICES ASSUME Init PROVE OrderInv
  OBVIOUS
<1>1. TypeInv /\ shown = <<>> /\ discarded = 0 /\ pc \in {"fork", "attach"}
  BY TypeInit DEF Init
<1>2. Again = {} /\ Cardinality(Again) = 0
  BY <1>1, FS_EmptySet DEF Again
<1>. QED BY <1>1, <1>2 DEF OrderInv, Stepping, Stepped

\* An instruction is read again only where the tracee stands, and it stands
\* before what is displayed only in a stop for a signal.
LEMMA OrderNext ==
    ASSUME TypeInv, ArmedInv, StopInv, PlaceInv, OrderInv, [Next]_vars
    PROVE  OrderInv'
<1>. USE DEF Late, Early, Handling, Over, Goto, Only, Request, file, read, fixed,
             ends, tracee, Obeys, Alive, Gone, Dies, Stopped, First, ForkReturn,
             Execve, None, Stepping, Stepped
<1>. USE DEF OrderInv
<1>0. /\ at \in Nat /\ regs \in Nat /\ start \in Nat
      /\ proc \in {"none", "running", "stopped", "frozen", "dead", "reaped"}
      /\ pending \subseteq {"TRAP", "STOP", "TERM"}
      /\ stop # "none" <=> proc = "stopped"
      /\ (pc = "fork" => proc = "none") /\ (pc = "attach" => mode = "pid")
  BY DEF TypeInv, TypeOK, PtraceTypeOK
<1>. USE <1>0
<1>asks. /\ pc \in Asking => Gone \/ (traced /\ proc = "stopped")
         /\ pc \in {"getregs", "peek", "step"} /\ ~Gone
              => stop \in {"TRAP", "STOP"} /\ at >= First
         /\ pc = "wait" => Gone \/ (armed /\ traced /\ at >= First)
  BY DEF StopInv, ArmedInv, Asking, StillTraced
<1>types. Cardinality(Again) \in Nat /\ discarded \in Nat
  BY AgainFinite DEF TypeInv, TypeOK
<1>same. shown' = shown => ShownAt' = ShownAt /\ Again' = Again
  BY DEF ShownAt, Again
<1>. USE <1>asks, <1>types, <1>same DEF Asking
<1>1. CASE Fork \/ Attach \/ CatchSignal
  BY <1>1 DEF Fork, Attach, CatchSignal, ForkChild, AttachTo
<1>2. CASE LoadInfos \/ LoadFails BY <1>2 DEF LoadInfos, LoadFails
<1>3. CASE GiveUpFile \/ GiveUpLoad
  BY <1>3 DEF GiveUpFile, GiveUpLoad, GiveUp, Kill
<1>4. CASE WaitFirst \/ WaitStep
  BY <1>4 DEF WaitFirst, WaitStep, WaitPid, Wait, Waited
<1>5. CASE Test BY <1>5 DEF Test
<1>6. CASE GetRegs BY <1>6 DEF GetRegs
<1>7. CASE PeekText
  <2>1. UNCHANGED <<shown, discarded>> BY <1>7 DEF PeekText
  <2>2. pc = "peek" /\ pc' = "step" /\ regs' = regs BY <1>7 DEF PeekText
  <2>3. word' = "call" => regs = at
    BY <1>7 DEF PeekText, PlaceInv
  <2>4. Gone => word' # "call"
    BY <1>7 DEF PeekText
  <2>5. /\ shown' = shown /\ ShownAt' = ShownAt /\ Again' = Again
        /\ tracee' = tracee
    BY <2>1, <1>7 DEF PeekText
  <2>6. word' = "call" => \A p \in ShownAt : p <= regs
    BY <2>2, <2>3, <2>4 DEF PlaceInv
  <2>7. (pc \in Stepping /\ word = "call" => \A p \in ShownAt : p <= regs)'
    BY ONLY <2>2, <2>5, <2>6
  <2>8. UNCHANGED <<stop, proc>> /\ UNCHANGED discarded
    BY <2>1, <2>5
  <2>9. (\A i \in 1..(Len(shown) - 1) : shown[i].at <= shown[i + 1].at)'
    <3>1. \A i \in 1..(Len(shown) - 1) : shown[i].at <= shown[i + 1].at
      OBVIOUS
    <3>. QED BY ONLY <2>5, <3>1
  <2>10. (Cardinality(Again) <= discarded
          \/ (Gone /\ Cardinality(Again) <= discarded + 1
              /\ (pc \in Stepping => word # "call")))'
    BY <2>1, <2>2, <2>4, <2>5, <2>8
  <2>11. (pc \in Stepped => FALSE)'
    BY <2>2
  <2>. QED BY ONLY <2>7, <2>9, <2>10, <2>11 DEF OrderInv, Stepped
<1>8. CASE Step
  <2>1. pc = "step" /\ pc' = "wait" /\ UNCHANGED <<shown, word, regs>>
    BY <1>8 DEF Step
  <2>2. CASE Obeys
    <3>1. word = "call" /\ regs \in ShownAt => stop = "STOP"
      BY <2>1, <2>2 DEF PlaceInv
    <3>2. discarded' = IF stop = "STOP" THEN discarded + 1 ELSE discarded
      BY <1>8, <2>2 DEF Step
    <3>3. ~Gone BY <2>2
    <3>. QED BY <2>1, <3>1, <3>2, <3>3
  <2>3. CASE ~Obeys
    <3>1. UNCHANGED <<tracee, discarded>> BY <1>8, <2>3 DEF Step, SingleStep
    <3>2. Gone BY <2>1, <2>3
    <3>. QED BY <2>1, <3>1, <3>2
  <2>. QED BY <2>2, <2>3
<1>9. CASE GetRegsReturn BY <1>9 DEF GetRegsReturn
<1>10. CASE PrintInstruction BY <1>10 DEF PrintInstruction
<1>11. CASE OpenDotfile BY <1>11 DEF OpenDotfile
<1>12. CASE StockFd \/ Header BY <1>12 DEF StockFd, Header
<1>13. CASE Format
  <2>1. pc = "format" /\ pc' = "test" /\ UNCHANGED <<tracee, discarded>>
    BY <1>13 DEF Format
  <2>2. CASE word # "call" BY <2>1, <2>2, <1>13, FormatShows
  <2>3. CASE word = "call"
    <3>1. \A i \in 1..(Len(shown') - 1) : shown'[i].at <= shown'[i + 1].at
      BY <2>1, <2>3, <1>13, FormatShows, ShownType
    <3>2. /\ Cardinality(Again') <= Cardinality(Again) + 1
          /\ regs \notin ShownAt => Again' = Again
      BY <2>3, <1>13, AgainAppend
    <3>3. Cardinality(Again') \in Nat
      BY <2>3, <1>13, AgainAppend
    <3>4. Cardinality(Again) <= discarded BY <2>1, <2>3
    <3>5. ~Gone /\ regs \in ShownAt => Cardinality(Again) + 1 <= discarded
      BY <2>1, <2>3
    <3>. QED BY <2>1, <3>1, <3>2, <3>3, <3>4, <3>5
  <2>. QED BY <2>2, <2>3
<1>14. CASE Footer \/ CloseFd BY <1>14 DEF Footer, Brace, CloseFd, Close
<1>15. CASE Return \/ Failed BY <1>15 DEF Return, Failed, Ends, Release
<1>16. CASE HandlerFooter \/ HandlerClose
  BY <1>16 DEF HandlerFooter, HandlerClose, Brace, Close
<1>17. CASE HandlerLetGo BY <1>17 DEF HandlerLetGo, Kill, Detach
<1>18. CASE HandlerExit BY <1>18 DEF HandlerExit, Ends, Release
<1>19. CASE Tracee
  <2>1. CASE Traceme(~Over) BY <1>19, <2>1 DEF Tracee, Traceme
  <2>2. CASE ChildFails BY <1>19, <2>2 DEF Tracee, ChildFails
  <2>3. CASE Exec BY <1>19, <2>3 DEF Tracee, Exec
  <2>4. CASE RunStep(Over) BY <1>19, <2>4 DEF Tracee, RunStep
  <2>5. CASE \E s \in pending : Deliver(s) BY <1>19, <2>5 DEF Tracee, Deliver
  <2>. QED BY <1>19, <2>1, <2>2, <2>3, <2>4, <2>5 DEF Tracee
<1>20. CASE Others BY <1>20 DEF Others, Send, SendKill, SentSignals
<1>21. CASE \E s \in Catchable : Interrupt(s) BY <1>21 DEF Interrupt
<1>22. CASE Die BY <1>22 DEF Die, Ends, Release
<1>23. CASE UNCHANGED vars BY <1>23 DEF vars
<1>. QED BY <1>1, <1>2, <1>3, <1>4, <1>5, <1>6, <1>7, <1>8, <1>9, <1>10, <1>11,
            <1>12, <1>13, <1>14, <1>15, <1>16, <1>17, <1>18, <1>19, <1>20, <1>21,
            <1>22, <1>23 DEF Next, Ftrace

\* Instructions are displayed in the order of the program, and each time one
\* is displayed again trace_son had stepped over a SIGSTOP, or the tracee was
\* killed in that stop.
THEOREM OrderCorrect == Spec => []ShownInOrder
  <1>1. TypeInv /\ OrderInv => ShownInOrder
    BY AgainFinite DEF OrderInv, ShownInOrder, Again, TypeInv, TypeOK
  <1>. QED BY <1>1, TypeInit, TypeNext, ArmedInit, ArmedNext, StopInit, StopNext,
              PlaceInit, PlaceNext, OrderInit, OrderNext, PTL DEF Spec
==============================================================================
