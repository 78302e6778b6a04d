---------------------------- MODULE MCCallGraph ----------------------------
(***************************************************************************)
(* Instances of CallGraph for TLC: two functions of the same page, whose   *)
(* lines differ in their last digit only, and a third elsewhere.           *)
(***************************************************************************)
EXTENDS CallGraph

CONSTANTS f1, f2, f3, page, other

\* f1 and f2 fall together once the last digit of their address is cut.
MCStem == [f \in Funcs |-> IF f \in {f1, f2} THEN page ELSE other]

NoHazards == {}
LossyHazards == {"silent_start", "unseen_call", "extra_return", "push_fails"}
HostileHazards == AllHazards \ {"silent_start"}
=============================================================================
