------------------------------- MODULE MCMain -------------------------------
(***************************************************************************)
(* Two programs: one that begins with an instruction taken for a call, and *)
(* whose main calls f, which makes a system call and returns, and exits;   *)
(* and one that begins with a return from a function, goes on by recursion *)
(* through a table of symbols and exits.                                   *)
(* Every way to launch one or to fail to.                                  *)
(***************************************************************************)
EXTENDS Main

Instr(do, label) == [do |-> do, label |-> label]

\* push r12 and jmp [rip + x] have the first byte of a call.
Push == Instr("silent", Blank)
Jump == Instr("silent", Blank)

Nested == <<Push, Instr("call", "main"), Instr("call", "f"), Instr("syscall", "write"),
            Instr("return", Blank), Instr("syscall", "exit")>>
Recursive == <<Instr("return", Blank), Instr("call", "f"), Jump, Instr("call", "f"),
               Instr("return", Blank), Instr("syscall", "exit")>>

Sources == {Nested, Recursive}

At(instrs, p) == instrs[p - First + 1]
ProgramOf(instrs) ==
    [p \in First..Final |-> IF At(instrs, p).do \in {"plain", "silent"}
                           THEN At(instrs, p).do ELSE "call"]
OpOf(instrs) ==
    [p \in First..Final |-> IF At(instrs, p).do = "silent" THEN Instr("plain", Blank)
                           ELSE At(instrs, p)]

MCPrograms == {ProgramOf(s) : s \in Sources}
MCOps == [prog \in MCPrograms |-> OpOf(CHOOSE s \in Sources : ProgramOf(s) = prog)]

L(arg, path, unset, executable) ==
    [arg |-> arg, path |-> path, unset |-> unset, executable |-> executable]

Path == <<"", "/a", "", "/b", "/c">>

MCLaunches ==
    {L(arg, Path, {}, {}) : arg \in Arguments}
    \union {L("./file", Path, {"PWD"}, {Pwd}), L("file", <<>>, {"PATH"}, {"/b"}),
            L("file", <<"", "">>, {}, {"/b"})}
    \union {L("file", Path, {}, {"/b", "/c"}), L("./file", <<"/a", "/b">>, {}, {Pwd}),
            L("/file", Path, {}, {Root})}
=============================================================================
