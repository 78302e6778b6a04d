----------------------------- MODULE CallGraph ------------------------------
(***************************************************************************)
(* How ftrace turns the instructions it single-steps into graph.dot:       *)
(* print_instruction and format_dotfile (exec.c), and the stack of labels  *)
(* they keep (list_functions.c).                                           *)
(*                                                                         *)
(* A step of this module is one instruction of the traced program together *)
(* with the whole of print_instruction for it; TraceSession models how the *)
(* two are brought together.  The variable frames is the program's own     *)
(* call stack, which ftrace cannot see: it is there to compare with.       *)
(*                                                                         *)
(* What makes the graph hard to get right is in Hazards, the set of things *)
(* a program may do that ftrace does not follow:                           *)
(*                                                                         *)
(*   "silent_start"      the first recognised instruction prints nothing   *)
(*                       (a push r12, 41 54, passes instruction_is_call)   *)
(*   "unseen_call"       a call in no recognised form (bnd call, notrack)  *)
(*   "unseen_return"     frames left with no ret seen (longjmp, bnd ret)   *)
(*   "extra_return"      a ret used as a jump leaves no frame              *)
(*   "undefined_syscall" the number is not in the table of nums_syscalls.c *)
(*   "exec"              the program replaces itself                       *)
(*   "push_fails"        malloc or strdup fails in create_function         *)
(***************************************************************************)
EXTENDS Naturals, Sequences, SequencesExt

CONSTANTS
    Funcs,          \* call targets, as the full line ftrace prints for them
    Stems,          \* the lines of call targets less their last digit
    Syscalls,       \* lines printed for system calls of the table
    Unk,            \* "U n K"
    Blank,          \* the empty label
    HasSymbols,     \* get_symbols found a symbol table
    Stem,           \* Stem[f]: what is left of f when its last digit is cut
    Hazards,
    MaxDepth,       \* bound: frames of the program
    MaxTokens       \* bound: tokens of graph.dot

AllHazards ==
    {"silent_start", "unseen_call", "unseen_return", "extra_return",
     "undefined_syscall", "exec", "push_fails"}

ASSUME CallGraphAssumption ==
    /\ HasSymbols \in BOOLEAN
    /\ Stem \in [Funcs -> Stems]
    /\ Hazards \subseteq AllHazards
    /\ MaxDepth \in Nat
    /\ MaxTokens \in Nat

VARIABLES
    list_func,      \* format_dotfile's static stack of labels, innermost first
    ret,            \* format_dotfile's static flag: the chain was broken
    first,          \* print_instruction's static flag
    dot,            \* what was written to graph.dot after the header
    frames          \* the program's call stack, innermost first

vars == <<list_func, ret, first, dot, frames>>

-----------------------------------------------------------------------------
(* graph.dot as a sequence of tokens.                                      *)

Nodes == Funcs \union Stems \union Syscalls \union {Unk, Blank}

Token == [tok : {"node", "arrow", "newline", "grey"}, label : Nodes]

Node(l) == [tok |-> "node", label |-> l]
Grey(l) == [tok |-> "grey", label |-> l]
Arrow   == [tok |-> "arrow", label |-> Blank]
Newline == [tok |-> "newline", label |-> Blank]

IsEdge(d, i) == d[i].tok = "arrow" /\ d[i - 1].tok = "node"
                                   /\ d[i + 1].tok = "node"

\* The edges a reader of the file sees: an arrow links the nodes around it.
Edges(d) ==
    {<<d[i - 1].label, d[i + 1].label>> :
        i \in {j \in 2..(Len(d) - 1) : IsEdge(d, j)}}

\* The grey nodes of the file.
Greys(d) == {d[i].label : i \in {j \in 1..Len(d) : d[j].tok = "grey"}}

-----------------------------------------------------------------------------
(* list_functions.c                                                        *)

push_function(list, l, ok) == IF ok THEN Cons(l, list) ELSE list

\* Mutants: pop_function forgets to unlink; get_function reads the oldest
\* entry; the label of an empty list is not replaced.
pop_functionKeeps(list) == list
get_functionOldest(list) == IF list = <<>> THEN Unk ELSE Last(list)
get_functionNull(list) == IF list = <<>> THEN 0 ELSE Head(list)

pop_function(list) == IF list = <<>> THEN list ELSE Tail(list)

get_function(list) == IF list = <<>> THEN Unk ELSE Head(list)

-----------------------------------------------------------------------------
(* The line getinstruction leaves in the buffer, after format_dotfile cut  *)
(* its last character.  That character is the line feed, except when       *)
(* resolve_symbol returned at once for want of a symbol table: then it is  *)
(* the last digit of the address.  For a system call that is not in the    *)
(* table the line is a lone "@", and nothing is left of it.                *)

Line == [mark : {"call", "@", ">"}, label : Nodes]

Label(f) == IF HasSymbols THEN f ELSE Stem[f]

CallLine(f) == [mark |-> "call", label |-> Label(f)]
SyscallLine(s) == [mark |-> "@", label |-> s]
UndefinedSyscallLine == [mark |-> "call", label |-> Blank]
ReturnLine == [mark |-> ">", label |-> Blank]

\* Mutants: the source is written although the chain goes on, the arrow is
\* forgotten, and the flag is not set by a system call.
SourceAlways(broken) == <<Newline, Node(get_function(list_func))>>
LinkNever(linked) == <<>>
BreaksNever(line) == FALSE

Source(broken) ==
    IF broken THEN <<Newline, Node(get_function(list_func))>> ELSE <<>>
Link(linked) == IF linked THEN <<Arrow>> ELSE <<>>
Leaf(line) == IF line.mark = "@" THEN <<Grey(line.label)>> ELSE <<>>
Breaks(line) == line.mark = "@"

\* A line that is not a return: a new node, linked to the node before it or,
\* when the chain was broken, to the function on top of the stack.
format_node(line, pushed) ==
    /\ dot' = dot \o Source(ret) \o Link(first) \o <<Node(line.label)>>
                  \o Leaf(line)
    /\ list_func' = IF line.mark = "@" THEN list_func
                    ELSE push_function(list_func, line.label, pushed)
    /\ ret' = Breaks(line)

format_return ==
    /\ list_func' = pop_function(list_func)
    /\ ret' = TRUE
    /\ UNCHANGED dot

print_instruction(line, pushed) ==
    /\ IF line.mark = ">" THEN format_return ELSE format_node(line, pushed)
    /\ first' = TRUE

\* A recognised instruction for which nothing is printed.
print_nothing ==
    /\ first' = TRUE
    /\ UNCHANGED <<list_func, ret, dot>>

PushOutcomes == {TRUE} \union (IF "push_fails" \in Hazards THEN {FALSE} ELSE {})

-----------------------------------------------------------------------------
(* The instructions of the traced program.                                 *)

Room == Len(dot) + 4 <= MaxTokens
Shallow == Len(frames) < MaxDepth
Left == IF frames = <<>> THEN frames ELSE Tail(frames)

Init ==
    /\ list_func = <<>>
    /\ ret = FALSE
    /\ first = FALSE
    /\ dot = <<>>
    /\ frames = <<>>

Call(f) ==
    /\ Room /\ Shallow
    /\ frames' = Cons(f, frames)
    /\ \E pushed \in PushOutcomes : print_instruction(CallLine(f), pushed)

Return ==
    /\ frames' = Left
    /\ print_instruction(ReturnLine, TRUE)

Syscall(s) ==
    /\ Room
    /\ print_instruction(SyscallLine(s), TRUE)
    /\ UNCHANGED frames

Silent ==
    /\ first \/ "silent_start" \in Hazards
    /\ print_nothing
    /\ UNCHANGED frames

UndefinedSyscall ==
    /\ "undefined_syscall" \in Hazards /\ Room
    /\ \E pushed \in PushOutcomes :
          print_instruction(UndefinedSyscallLine, pushed)
    /\ UNCHANGED frames

UnseenCall(f) ==
    /\ "unseen_call" \in Hazards /\ Shallow
    /\ frames' = Cons(f, frames)
    /\ UNCHANGED <<list_func, ret, first, dot>>

UnseenReturn ==
    /\ "unseen_return" \in Hazards
    /\ frames' = Left
    /\ UNCHANGED <<list_func, ret, first, dot>>

ExtraReturn ==
    /\ "extra_return" \in Hazards
    /\ print_instruction(ReturnLine, TRUE)
    /\ UNCHANGED frames

Exec(s) ==
    /\ "exec" \in Hazards /\ Room
    /\ print_instruction(SyscallLine(s), TRUE)
    /\ frames' = <<>>

Next ==
    \/ \E f \in Funcs : Call(f) \/ UnseenCall(f)
    \/ \E s \in Syscalls : Syscall(s) \/ Exec(s)
    \/ Return \/ Silent \/ UndefinedSyscall \/ UnseenReturn \/ ExtraReturn

Spec == Init /\ [][Next]_vars

-----------------------------------------------------------------------------
(* Properties.                                                             *)

\* The values the statics of format_dotfile and print_instruction take.
TypeOK ==
    /\ list_func \in Seq(Nodes)
    /\ ret \in BOOLEAN
    /\ first \in BOOLEAN
    /\ dot \in Seq(Token)
    /\ frames \in Seq(Funcs)

Labelled(fs) == [i \in 1..Len(fs) |-> Label(fs[i])]

\* The labels of the functions that are active in the program.
Active == ToSet(Labelled(frames))

\* Where nothing goes unseen, the graph is the program's call graph: every
\* edge format_dotfile writes, whichever of its three shapes it has, goes
\* from the function that executes to the one it calls, and every return
\* brings the right caller back.
Tree == INSTANCE CallTree WITH
    stack  <- Labelled(frames),
    calls  <- Edges(dot),
    leaves <- Greys(dot),
    begun  <- first

RefinesCallTree == Tree!Spec

\* Why it does: the stack of labels is the program's, and while the chain is
\* not broken the text ends in the function that executes.
TreeInv ==
    /\ list_func = Labelled(frames)
    /\ first /\ ~ret => list_func # <<>> /\ Last(dot).label = Head(list_func)

\* graph.dot can be read back: each arrow stands between two nodes, and the
\* text never stops after an arrow.  It depends on ret, first and the last
\* thing written agreeing, whatever the program does.
WellFormed(d) ==
    \A i \in 1..Len(d) : d[i].tok = "arrow" =>
        i > 1 /\ i < Len(d) /\ IsEdge(d, i)

WellFormedDot == WellFormed(dot)

\* Every node of graph.dot that should be linked is, however the program
\* starts: where the first recognised instruction prints nothing, the only
\* arrow left with one side is the one that begins the text (a node put in
\* front of it makes the whole well formed), and no later one ever is.
OnlyFirstArrowDangles == WellFormed(<<Node(Unk)>> \o dot)

\* The strengthening that makes it inductive: as ChainInv, for the text with
\* that node in front of it.
DanglingInv ==
    /\ OnlyFirstArrowDangles
    /\ ret => first
    /\ ~first => dot = <<>>
    /\ first /\ ~ret => Last(<<Node(Unk)>> \o dot).tok = "node"

\* The strengthening that makes WellFormedDot inductive: the text never ends
\* in an arrow, and it ends in a node unless the chain was broken.
ChainInv ==
    /\ WellFormedDot
    /\ ret => first
    /\ ~first => dot = <<>> /\ list_func = <<>>
    /\ dot # <<>> => Last(dot).tok # "arrow"
    /\ first /\ ~ret => dot # <<>> /\ Last(dot).tok = "node"

\* What format_dotfile needs of its statics to draw the right edge, whatever
\* the program's own stack is and however it starts: while the chain is not
\* broken, the text ends in the function on top of the stack.
DrawInv ==
    /\ dot # <<>> => Last(dot).tok # "arrow"
    /\ dot # <<>> \/ ret => first
    /\ ~ret => IF dot = <<>> THEN list_func = <<>>
               ELSE list_func # <<>> /\ Last(dot) = Node(Head(list_func))

\* s is what is left of t when some of its elements are removed.
IsSubsequence(s, t) ==
    \E m \in [1..Len(s) -> 1..Len(t)] :
        /\ \A i, j \in 1..Len(s) : i < j => m[i] < m[j]
        /\ \A i \in 1..Len(s) : s[i] = t[m[i]]

\* Calls the decoder misses, failed allocations and returns used as jumps
\* lose entries of the stack, but never make format_dotfile remember a
\* function that is not active, or remember two in the wrong order.
RemembersActive == IsSubsequence(list_func, Labelled(frames))

\* With the same losses, an edge may skip a function nobody saw, but it
\* always leaves from a function that is active when the call is made, or
\* from the unknown caller.
NewEdgesFromActive ==
    [][\A e \in Edges(dot') \ Edges(dot) : e[1] \in Active \union {Unk}]_vars

\* Why: while the chain is not broken, the text ends in an active function.
LossyInv ==
    /\ RemembersActive
    /\ dot # <<>> => Last(dot).tok # "arrow"
    /\ ~ret /\ dot # <<>> => Last(dot).label \in Active
=============================================================================
