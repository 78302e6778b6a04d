---------------------------- MODULE SymbolTable ----------------------------
(***************************************************************************)
(* The symbols of an ELF file: from its section headers to the sorted list *)
(* that addresses are looked up in (get_symbols.c).  One call builds one   *)
(* list from a file nobody changes, so all of it is operators.             *)
(*                                                                         *)
(* Of a name, what the code tells apart is its rank when leading '_' and   *)
(* '@' and the case of letters do not count: key.  A name of nothing else  *)
(* has the rank of the string behind it, which yolo_cmp runs into.  The    *)
(* letter get_type computes is never displayed.                            *)
(***************************************************************************)
EXTENDS Integers, Sequences, SequencesExt

CONSTANTS
    Word32          \* 2^32: the width a symbol's value is cut to

\* What a walk displays behind the end of a list, which no file has for a name.
Overrun == "past the end of the list"

ASSUME SymbolTableAssumption == Word32 \in Nat \ {0}

\* An entry of a symbol table: st_info is a binding and a type; inside, that
\* its name lies within the file.
Binding == {"LOCAL", "GLOBAL", "WEAK"}
SymType == {"NOTYPE", "OBJECT", "FUNC", "SECTION", "FILE"}

IsSymbol(s) ==
    /\ DOMAIN s = {"bind", "type", "value", "name", "key", "inside"}
    /\ s.bind \in Binding /\ s.type \in SymType
    /\ s.value \in Nat /\ s.key \in Nat /\ s.inside \in BOOLEAN
    /\ s.name # Overrun

\* A section: whether it is a SHT_SYMTAB, whether its header is within the
\* file, and whether its contents and the strings they refer to are.
IsSection(s) ==
    /\ DOMAIN s = {"symtab", "header", "inside", "entries"}
    /\ {s.symtab, s.header, s.inside} \subseteq BOOLEAN
    /\ s.entries \in Seq(ToSet(s.entries))
    /\ \A i \in DOMAIN s.entries : IsSymbol(s.entries[i])

IsElf(e) ==
    /\ DOMAIN e = {"magic", "sections"}
    /\ e.magic \in BOOLEAN
    /\ e.sections \in Seq(ToSet(e.sections))
    /\ \A i \in DOMAIN e.sections : IsSection(e.sections[i])

\* ELF has a null symbol begin each table.
HasNull(e) ==
    \A i \in DOMAIN e.sections : e.sections[i].symtab =>
        LET entries == e.sections[i].entries
        IN entries # <<>> /\ entries[1].bind = "LOCAL" /\ entries[1].type = "NOTYPE"

\* No list; and a list: its symbols, and how many cells were allocated.
NoTable == [symbols |-> <<>>, cells |-> -1]
IsTable(t) ==
    t # NoTable =>
        /\ t.cells >= Len(t.symbols)
        /\ \A i \in DOMAIN t.symbols : t.symbols[i].value \in 0..(Word32 - 1)

\* The walks over a list stop at a cell nobody filled.
Terminated(t) == Len(t.symbols) < t.cells

-----------------------------------------------------------------------------
(* Loops.                                                                  *)

\* What a loop of n turns makes of a state.
After(n, start, Turn(_, _)) ==
    LET state[k \in 0..n] ==
            IF k = 0 THEN start ELSE LET before == state[k - 1] IN Turn(k, before)
    IN state[n]

\* The elements of a list that are in S, in their order.
Only(list, S) ==
    After(Len(list), <<>>,
          LAMBDA k, kept : IF list[k] \in S THEN Append(kept, list[k]) ELSE kept)

-----------------------------------------------------------------------------
(* sort_sym and yolo_cmp.                                                  *)

yolo_cmp(a, b) == a.key - b.key

swap(list, i, j) == [list EXCEPT ![i] = list[j], ![j] = list[i]]

Exchange(list, i, j) == IF yolo_cmp(list[i], list[j]) > 0 THEN swap(list, i, j) ELSE list

\* Mutant: each cell is compared with the next one only.
sort_symOnePass(list) ==
    After(Len(list) - 1, list, LAMBDA i, l : Exchange(l, i, i + 1))

\* Every i in turn, against every j from i on.
Row(list, i) == After(Len(list) + 1 - i, list, LAMBDA k, l : Exchange(l, i, i + k - 1))
sort_sym(list) == After(Len(list), list, LAMBDA i, l : Row(l, i))

-----------------------------------------------------------------------------
(* get_sym and fill_symbol.                                                *)

\* st_info is compared as a whole, so only local symbols are left out.
\* Mutant: symbols without a type are kept.
KeptUntyped(s) == ~(s.bind = "LOCAL" /\ s.type \in {"FILE", "SECTION"})

Kept(s) == ~(s.bind = "LOCAL" /\ s.type \in {"FILE", "SECTION", "NOTYPE"})

\* Mutant: the value is not cut.
fill_symbolWhole(s) == [value |-> s.value, name |-> s.name, key |-> s.key]

fill_symbol(s) == [value |-> s.value % Word32, name |-> s.name, key |-> s.key]

get_sym(entries) ==
    LET kept == Only(entries, {s \in ToSet(entries) : Kept(s)})
    IN IF \E i \in DOMAIN kept : ~kept[i].inside THEN NoTable
       ELSE [symbols |-> [i \in DOMAIN kept |-> fill_symbol(kept[i])],
             cells |-> Len(entries)]

-----------------------------------------------------------------------------
(* run_elf, parse_elf and get_symbols_lib.                                 *)

Sorted(t) == [t EXCEPT !.symbols = sort_sym(@)]

\* The last symbol table counts.
run_elf(elf) ==
    LET table == SelectLastInSeq(elf.sections, LAMBDA s : s.symtab)
    IN IF \/ \E i \in DOMAIN elf.sections :
               LET s == elf.sections[i] IN ~s.header \/ (s.symtab /\ ~s.inside)
          \/ table = 0
       THEN NoTable
       ELSE Sorted(get_sym(elf.sections[table].entries))

get_symbols_lib(elf) == IF elf.magic THEN run_elf(elf) ELSE NoTable
=============================================================================
