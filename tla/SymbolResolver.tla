--------------------------- MODULE SymbolResolver ---------------------------
(***************************************************************************)
(* How ftrace names the function at an address: resolve_symbol, find_header*)
(* and get_lib (resolve_symbols.c), with the cache of library symbols      *)
(* (list_lib_symbols.c) and the lists of symbols SymbolTable builds.       *)
(*                                                                         *)
(* The program's list is built first, 200 ms after the fork, from whatever *)
(* file the child executes by then.  A step after that is one call of      *)
(* resolve_symbol for a stopped process, so nothing moves under it; between*)
(* two of them the process may map other files.                            *)
(* What get_next_line keeps of /proc/PID/maps from one lookup to the next  *)
(* is summed up in left: LineReader models where it comes from.            *)
(***************************************************************************)
EXTENDS SymbolTable

CONSTANTS
    MaxAddr,        \* the highest address
    Files,          \* paths of mapped files
    Program, Self,  \* the program's file, and ftrace's own
    Disks,          \* what the files may contain
    Layouts,        \* the memory maps the process may have
    Peek,           \* the bytes PTRACE_PEEKDATA reads
    Ones,           \* addresses whose word has all its bits set
    Lookalikes,     \* addresses of ELF's magic number within a mapping
    Garbled         \* bounds a spoiled line may show

None == "none"      \* no file
NoName == [file |-> None, name |-> None]
Addr == 1..MaxAddr

\* A line of /proc/PID/maps: header means the mapping begins with ELF's magic
\* number.
Mapping == [begin : Addr, end : Addr, file : Files \union {None}, header : BOOLEAN]

ASSUME ResolverAssumption ==
    /\ MaxAddr \in Nat /\ Peek \in Nat \ {0}
    /\ None \notin Files /\ Program \in Files
    /\ \A disk \in Disks : DOMAIN disk = Files \union {Self}
                           /\ \A f \in DOMAIN disk : IsElf(disk[f])
    /\ Ones \subseteq Addr /\ Lookalikes \subseteq Addr
    /\ Garbled \subseteq Nat \X Nat
    /\ \A maps \in Layouts :
         /\ maps \in Seq(Mapping) /\ maps # <<>>
         /\ \A i, j \in 1..Len(maps) : i < j => maps[i].end <= maps[j].begin
         /\ \A i \in 1..Len(maps) : maps[i].begin < maps[i].end

VARIABLES
    disk,           \* the contents of the files
    symbols,        \* the program's list
    loaded,         \* whose list it is, None before get_symbols
    maps,           \* the process's memory map
    list_lib,       \* get_lib's static cache, the latest entry first
    left,           \* what get_next_line kept: the beginning of a line ("part")
                    \* or "nothing", nothing but a line feed included
    last            \* the last lookup

static == <<disk, symbols, loaded>>
vars == <<static, maps, list_lib, left, last>>

-----------------------------------------------------------------------------
(* list_lib_symbols.c                                                      *)

\* Mutant: only the first entry is compared.
get_symbols_by_libFirst(list, f) ==
    IF list # <<>> /\ Head(list).file = f THEN Head(list).table ELSE NoTable

get_symbols_by_lib(list, f) ==
    LET k == SelectInSeq(list, LAMBDA e : e.file = f)
    IN IF k = 0 THEN NoTable ELSE list[k].table

push_lib(list, f, table) == Cons([file |-> f, table |-> table], list)

-----------------------------------------------------------------------------
(* find_header: down from the address, through whatever is mapped, a whole *)
(* word at a time, until a word begins with ELF's magic number.            *)

Mapped(x) == \E i \in 1..Len(maps) : maps[i].begin <= x /\ x < maps[i].end
Readable(x) == (\A y \in x..(x + Peek - 1) : Mapped(y)) /\ x \notin Ones
Magic(x) ==
    x \in Lookalikes \/ \E i \in 1..Len(maps) : maps[i].header /\ maps[i].begin = x

find_header(addr) ==
    LET Reached == {x \in 1..addr : Magic(x) /\ \A y \in x..addr : Readable(y)}
    IN IF Reached = {} THEN 0
       ELSE CHOOSE x \in Reached : \A y \in Reached : y <= x

-----------------------------------------------------------------------------
(* get_lib: acc gathers the cache and the name displayed.                  *)

Matches(line, addr, base) ==
    /\ (line.begin < addr /\ addr < line.end) \/ line.begin = base
    /\ line.file # None

\* resolve_symbol_lib takes the first symbol of the list, and none of value 0.
resolve_symbol_lib(line, addr, table) ==
    LET k == SelectInSeq(table.symbols, LAMBDA s : s.value = addr - line.begin)
    IN IF table = NoTable \/ addr = line.begin THEN NoName
       ELSE IF k # 0 THEN [file |-> line.file, name |-> table.symbols[k].name]
       ELSE IF Terminated(table) THEN NoName
       ELSE [file |-> line.file, name |-> Overrun]

\* One line; failing are the files that cannot be opened now.  After a name was
\* displayed no other line is read.
Examine(acc, line, addr, base, failing) ==
    IF acc.name # NoName \/ ~Matches(line, addr, base) THEN acc
    ELSE LET cached == get_symbols_by_lib(acc.list, line.file)
             sym == IF cached # NoTable THEN cached
                    ELSE IF line.file \in failing THEN NoTable
                    ELSE get_symbols_lib(disk[line.file])
         IN [list |-> IF cached = NoTable /\ sym # NoTable
                      THEN push_lib(acc.list, line.file, sym) ELSE acc.list,
             name |-> resolve_symbol_lib(line, addr, sym)]

\* get_next_line returns n lines before NULL.
get_lib(lines, n, addr, base, failing) ==
    After(n, [list |-> list_lib, name |-> NoName],
          LAMBDA k, acc : Examine(acc, lines[k], addr, base, failing))

\* The lines get_next_line may return.  A part of a line that was left over
\* sticks to the first one: its bounds are then any numbers.  Its file is the
\* same, or there is no such file, as the part may reach the path when a read or
\* an allocation that failed left it.
LinesRead ==
    IF left # "part" THEN {maps}
    ELSE {[maps EXCEPT ![1].begin = g[1], ![1].end = g[2]] : g \in Garbled}
             \union {[maps EXCEPT ![1].file = None]}

-----------------------------------------------------------------------------
(* get_symbols, and resolve_symbol: names are those of the program's list, *)
(* name the one of a library; get_next_line returned NULL after read lines *)
(* or was not called again; misled means that the first line was spoiled,  *)
(* and took an address it should not or missed its own.                    *)

NoLookup == [addr |-> 0, names |-> <<>>, name |-> NoName, failing |-> {},
             read |-> 0, misled |-> FALSE]

Init ==
    /\ disk \in Disks
    /\ symbols = NoTable /\ loaded = None
    /\ maps \in Layouts
    /\ list_lib = <<>>
    /\ left = "nothing"
    /\ last = NoLookup

\* Mutant: the names go with the mapping of the file.
get_symbolsUnmaps(elf) ==
    LET t == get_symbols_lib(elf)
    IN [t EXCEPT !.symbols =
            [i \in DOMAIN @ |-> [@[i] EXCEPT !.name = "unmapped"]]]

\* The munmap at the end is given the address of a local variable, and fails:
\* the names stay.
get_symbols(elf) == get_symbols_lib(elf)

\* After the sleep the child has executed the program, or has not yet; its
\* file may not be there to open any more.
Load ==
    /\ loaded = None
    /\ \E f \in {Program, Self} :
         /\ loaded' = f
         /\ symbols' \in {get_symbols(disk[f]), NoTable}
    /\ UNCHANGED <<disk, maps, list_lib, left, last>>

\* All the names the program's list has for an address.
Aliases(addr) ==
    LET matches == Only(symbols.symbols, {s \in ToSet(symbols.symbols) : s.value = addr})
        names == [i \in DOMAIN matches |-> matches[i].name]
    IN IF Terminated(symbols) THEN names ELSE Append(names, Overrun)

Ready == loaded # None /\ symbols # NoTable

\* resolve_symbol for an address of the program's own list: nothing is read.
LookupMain(addr) ==
    /\ Ready /\ Aliases(addr) # <<>>
    /\ last' = [NoLookup EXCEPT !.addr = addr, !.names = Aliases(addr)]
    /\ UNCHANGED <<static, maps, list_lib, left>>

\* What is left when the file is closed after n lines.  The end of file leaves
\* nothing but a line feed; a name found before, a read or an allocation that
\* failed leave some of the next line, what was left before, or nothing.
Leftovers(name, n) ==
    IF name = NoName /\ n = Len(maps) THEN {"nothing"} ELSE {"nothing", "part"}

\* All lines are read, or fewer: because a name was displayed, or because
\* get_next_line failed before.  What fails is among the files of the lines that
\* match.
Lookup(addr, failing) ==
    /\ Ready /\ Aliases(addr) = <<>>
    /\ LET base == find_header(addr)
       IN \E lines \in LinesRead, n \in 0..Len(maps) :
            LET result == get_lib(lines, n, addr, base, failing)
            IN /\ \A f \in failing :
                    \E k \in 1..n : Matches(lines[k], addr, base) /\ lines[k].file = f
               /\ n < Len(maps) => result.name = NoName
               /\ list_lib' = result.list
               /\ left' \in Leftovers(result.name, n)
               /\ last' = [addr |-> addr, names |-> <<>>, name |-> result.name,
                           failing |-> failing, read |-> n,
                           misled |-> /\ lines # maps
                                      /\ \/ Matches(lines[1], addr, base)
                                         \/ Matches(maps[1], addr, base)]
    /\ UNCHANGED <<static, maps>>

\* Nothing is displayed without a list, not even for a library's function, nor
\* when /proc/PID/maps cannot be opened.
LookupNothing(addr) ==
    /\ loaded # None
    /\ symbols # NoTable => Aliases(addr) = <<>>
    /\ last' = NoLookup
    /\ UNCHANGED <<static, maps, list_lib, left>>

Remap ==
    /\ loaded # None
    /\ maps' \in Layouts
    /\ last' = NoLookup
    /\ UNCHANGED <<static, list_lib, left>>

Next ==
    \/ Load
    \/ \E addr \in Addr :
         \/ LookupMain(addr) \/ LookupNothing(addr)
         \/ \E failing \in SUBSET Files : Lookup(addr, failing)
    \/ Remap

Spec == Init /\ [][Next]_vars

-----------------------------------------------------------------------------
(* Properties.                                                             *)

TypeOK ==
    /\ disk \in Disks /\ maps \in Layouts
    /\ loaded \in {None, Program, Self} /\ IsTable(symbols)
    /\ \A i \in DOMAIN list_lib :
         list_lib[i].file \in Files /\ IsTable(list_lib[i].table)
    /\ left \in {"nothing", "part"}
    /\ last.addr \in {0} \union Addr /\ last.failing \subseteq Files
    /\ last.read \in 0..Len(maps)

\* No walk over a list leaves it, if the files begin their symbol tables as ELF
\* wants it: the null symbol is not kept, and its cell ends the list.
WalksEnd ==
    (\A f \in DOMAIN disk : HasNull(disk[f])) =>
        last.name.name # Overrun /\ Overrun \notin ToSet(last.names)

\* A file's symbols are loaded into the cache once, however many of its
\* mappings match and however often it is unmapped and mapped again.
CachedOnce == IsInjective([i \in DOMAIN list_lib |-> list_lib[i].file])

\* The file whose code an address is in, by the mapping that has its header:
\* the search comes down to it through words it can read, past no other header
\* and nothing that looks like one.
HeaderLine(addr) ==
    {i \in 1..Len(maps) :
        /\ maps[i].header /\ maps[i].begin <= addr
        /\ \A y \in maps[i].begin..addr : Readable(y)
        /\ \A y \in (maps[i].begin + 1)..addr : ~Magic(y)}

\* A file with nothing out of place, its symbols, and those that are functions.
Sound(elf) ==
    /\ elf.magic
    /\ \E i \in DOMAIN elf.sections : elf.sections[i].symtab
    /\ \A i \in DOMAIN elf.sections :
         /\ elf.sections[i].header /\ elf.sections[i].inside
         /\ \A j \in DOMAIN elf.sections[i].entries :
              elf.sections[i].entries[j].inside

Entries(elf) ==
    LET tables == {i \in DOMAIN elf.sections : elf.sections[i].symtab}
    IN ToSet(elf.sections[CHOOSE i \in tables : \A j \in tables : j <= i].entries)

Functions(elf) == {s \in Entries(elf) : s.type = "FUNC"}

\* An address of the program below 2^32 is displayed with the names of all its
\* functions there, and any address with no other name but that of a symbol
\* beyond 32 bits, whose value was cut: loading lost, moved or unmapped none of
\* them.  A function at 2^32 or beyond is lost, its value being cut.  It takes a
\* program that was executed before the 200 ms were over.
MainIsNamed ==
    loaded = Program /\ symbols # NoTable /\ last.addr # 0
        /\ Sound(disk[Program]) /\ HasNull(disk[Program]) =>
        /\ last.addr < Word32 =>
             {s.name : s \in {f \in Functions(disk[Program]) : f.value = last.addr}}
               \subseteq ToSet(last.names)
        /\ ToSet(last.names) \subseteq
             {s.name : s \in {f \in Entries(disk[Program]) :
                                f.value = last.addr \/ f.value >= Word32}}

\* The address of a function of a mapped file is displayed with a name that
\* file has for it, the first one in the order of the names, or with that of a
\* symbol beyond 32 bits: no other mapping, no entry of the cache and no earlier
\* layout answers for it, wherever the file is mapped.  It takes a function less
\* than 2^32 behind the file's beginning, a header the search can reach, symbols
\* that load, a line of the map that was read, and a first line that did not take
\* the address for its own because of what the last lookup had left.
KnownIsNamed ==
    \A i \in HeaderLine(last.addr) :
        LET line == maps[i]
            offset == last.addr - line.begin
            here == {s \in Entries(disk[line.file]) : s.value = offset \/ s.value >= Word32}
            functions == {s \in here : s.type = "FUNC" /\ s.value = offset}
        IN /\ i <= last.read /\ ~last.misled /\ line.file # None /\ last.names = <<>>
           /\ Sound(disk[line.file]) /\ functions # {}
           /\ offset # 0 /\ offset < Word32
           /\ line.file \notin last.failing \/ get_symbols_by_lib(list_lib, line.file) # NoTable
           => \E s \in here : /\ \A f \in functions : s.key <= f.key
                              /\ last.name = [file |-> line.file, name |-> s.name]

-----------------------------------------------------------------------------
(* Why they hold.                                                          *)

Loadable == {f \in Files : get_symbols_lib(disk[f]) # NoTable}
Cacheable == {[file |-> f, table |-> get_symbols_lib(disk[f])] : f \in Loadable}

\* What can be displayed for an address of the file.
Names(f) ==
    LET table == get_symbols_lib(disk[f])
        walked == {s.name : s \in ToSet(table.symbols)}
        behind == IF Terminated(table) THEN {} ELSE {Overrun}
    IN {[file |-> f, name |-> n] : n \in walked \union behind}

Displayable == {NoName} \union UNION {Names(f) : f \in Loadable}

\* The cache and the names displayed are what the files have.
CacheInv == list_lib \in Seq(Cacheable) /\ CachedOnce /\ last.name \in Displayable

\* The program's list is that of the file loaded, and it was asked first.
ProgramInv ==
    /\ symbols # NoTable =>
         loaded \in {Program, Self} /\ symbols = get_symbols(disk[loaded])
    /\ IF last.addr = 0 THEN last = NoLookup
       ELSE Ready /\ last.names = Aliases(last.addr)
=============================================================================
