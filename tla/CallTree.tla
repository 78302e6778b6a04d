------------------------------ MODULE CallTree ------------------------------
(***************************************************************************)
(* What graph.dot promises, without a word about how it is written: the    *)
(* dynamic call graph of the traced program.  A call adds an edge from the *)
(* function that is executing to the function that is called, a system     *)
(* call adds a grey leaf under the function that makes it, and a return    *)
(* resumes the caller.                                                     *)
(*                                                                         *)
(* Tracing may begin anywhere (ftrace -p attaches to a running process),   *)
(* so a return may leave a function whose call was never seen; the caller  *)
(* is then Unk.  The first event only names a node: nothing is known yet   *)
(* of who made it.                                                         *)
(***************************************************************************)
EXTENDS Sequences

CONSTANTS
    Nodes,          \* the labels a node of the graph may carry
    Unk             \* the caller nobody saw

VARIABLES
    stack,          \* labels of the active functions, innermost first
    calls,          \* the edges <<caller, callee>> of the graph
    leaves,         \* the system calls
    begun           \* some instruction of interest was seen

vars == <<stack, calls, leaves, begun>>

Caller == IF stack = <<>> THEN Unk ELSE Head(stack)

\* The edge an event adds: none for the very first one.
Linked(l) == IF begun THEN calls \union {<<Caller, l>>} ELSE calls

-----------------------------------------------------------------------------
Init ==
    /\ stack = <<>>
    /\ calls = {}
    /\ leaves = {}
    /\ begun = FALSE

Enter(l) ==
    /\ calls' = Linked(l)
    /\ stack' = <<l>> \o stack
    /\ begun' = TRUE
    /\ UNCHANGED leaves

Leave ==
    /\ stack' = IF stack = <<>> THEN stack ELSE Tail(stack)
    /\ begun' = TRUE
    /\ UNCHANGED <<calls, leaves>>

SystemCall(s) ==
    /\ calls' = Linked(s)
    /\ leaves' = leaves \union {s}
    /\ begun' = TRUE
    /\ UNCHANGED stack

Next ==
    \/ Leave
    \/ \E l \in Nodes : Enter(l) \/ SystemCall(l)

Spec == Init /\ [][Next]_vars
=============================================================================
