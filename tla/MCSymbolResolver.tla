-------------------------- MODULE MCSymbolResolver --------------------------
(***************************************************************************)
(* Two files and three layouts: the program first and the library after it,*)
(* in two mappings with its header in the first; the same with the gap     *)
(* between the two; and the library before the program.  Addresses go to   *)
(* 12 and a word has two bytes; symbols keep values below 4, so that       *)
(* addresses, offsets and values lie beyond that width as well as below.   *)
(***************************************************************************)
EXTENDS SymbolResolver

M(b, e, f, h) == [begin |-> b, end |-> e, file |-> f, header |-> h]

MCLayouts == {
    <<M(2, 5, "/prog", TRUE), M(6, 9, "/lib", TRUE), M(9, 12, "/lib", FALSE)>>,
    <<M(2, 5, "/prog", TRUE), M(5, 8, "/lib", TRUE), M(9, 12, "/lib", FALSE)>>,
    <<M(1, 3, None, FALSE), M(3, 6, "/lib", TRUE), M(6, 9, "/lib", FALSE),
      M(9, 12, "/prog", TRUE)>>}

\* Bounds around the library's code.
MCGarbled == {<<5, 12>>}

Sym(bind, type, value, name, key) ==
    [bind |-> bind, type |-> type, value |-> value, name |-> name, key |-> key,
     inside |-> TRUE]
Null == Sym("LOCAL", "NOTYPE", 0, "", 0)
Func(value, name, key) == Sym("GLOBAL", "FUNC", value, name, key)

Symtab(entries) ==
    [symtab |-> TRUE, header |-> TRUE, inside |-> TRUE, entries |-> entries]
Text == [symtab |-> FALSE, header |-> TRUE, inside |-> TRUE, entries |-> <<>>]
Elf(sections) == [magic |-> TRUE, sections |-> sections]

\* The program has two names at 2, an object and a function at 3 that a value
\* beyond 32 bits lands on, a function at 6 that is lost and lands on 2, and a
\* local label at 1.
ProgTable == Symtab(<<Null, Sym("LOCAL", "FILE", 0, "p.c", 9), Func(2, "_start", 5),
                      Sym("LOCAL", "NOTYPE", 1, "label", 8), Func(2, "Run", 3),
                      Func(3, "main", 4), Func(6, "lost", 2),
                      Sym("GLOBAL", "OBJECT", 7, "far", 1)>>)

\* The library has functions at 1 and 3 from its header, 3 with three names
\* that are not in order, an undefined one, and two functions beyond 32 bits,
\* one of which lands on 1.
LibTable == Symtab(<<Null, Func(3, "write", 7), Func(3, "_wr", 6),
                     Sym("WEAK", "FUNC", 3, "__open", 2), Func(1, "abort", 1),
                     Sym("GLOBAL", "NOTYPE", 0, "environ", 3),
                     Func(5, "edge", 0), Func(4, "rim", 8)>>)

OtherTable == Symtab(<<Null, Func(3, "debug", 1)>>)
Cut == [LibTable EXCEPT !.entries[3].inside = FALSE]

Disk(prog, lib) == "/prog" :> prog @@ "/lib" :> lib @@
                   "/ftrace" :> Elf(<<Symtab(<<Null, Func(2, "trace_son", 1)>>)>>)

GoodProg == Elf(<<Text, ProgTable>>)
GoodLib == Elf(<<OtherTable, Text, LibTable>>)

\* A table that cannot be loaded, of whichever file, is none.
MCDisks == {Disk(GoodProg, GoodLib), Disk(GoodProg, Elf(<<Cut>>)),
            Disk([magic |-> FALSE, sections |-> <<ProgTable>>], GoodLib)}
    \union {Disk(Elf(sections), GoodLib) : sections \in {
        <<Text>>, <<ProgTable, [Text EXCEPT !.header = FALSE]>>,
        <<[OtherTable EXCEPT !.inside = FALSE], ProgTable>>}}
=============================================================================
