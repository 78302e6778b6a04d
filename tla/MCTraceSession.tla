-------------------------- MODULE MCTraceSession --------------------------
(***************************************************************************)
(* Instances of TraceSession for TLC.  Two programs of four instructions,  *)
(* the last of which exits: one whose first recognised instruction is      *)
(* displayed, with two displayed in a row, and one that starts with a      *)
(* silent one.                                                             *)
(***************************************************************************)
EXTENDS TraceSession

Program(kinds) == [p \in First..Final |-> kinds[p - First + 1]]

MCPrograms == {Program(<<"plain", "call", "call", "call">>),
               Program(<<"silent", "plain", "call", "call">>)}

\* Nothing is ever displayed.
MCPlain == {Program(<<"plain", "plain", "plain", "plain">>)}

\* One shorter program, for the liveness properties.
MCShort == {Program(<<"plain", "call", "call">>)}

MCAllPrograms == MCPrograms \union MCPlain
=============================================================================
