----------------------------- MODULE LineReader -----------------------------
(***************************************************************************)
(* get_next_line (get_next_line.c) as get_lib_file uses it: it reads       *)
(* /proc/PID/maps line by line through a small buffer, and what it read    *)
(* beyond a line waits in a static list, under the descriptor's number.    *)
(*                                                                         *)
(* get_lib_file opens the file again for every address it looks up, gets   *)
(* the same number each time, and get_lib leaves it in the middle when it  *)
(* has found its symbol.  What was left of one opening is then in front of *)
(* the next one.  Only that descriptor is modelled: the entries of the     *)
(* list do not touch one another.                                          *)
(***************************************************************************)
EXTENDS Naturals, Sequences, SequencesExt

CONSTANTS
    Chars,          \* characters other than the line feed
    NL,             \* the line feed
    BufSize,        \* BUF_SIZE
    Files,          \* what the file may hold when it is opened
    MaxOpens        \* bound: openings

ASSUME LineReaderAssumption ==
    /\ NL \notin Chars
    /\ BufSize \in Nat \ {0}
    /\ MaxOpens \in Nat
    /\ Files \subseteq Seq(Chars \union {NL})

VARIABLES
    short,          \* read may return less than it was asked for, before the end
    str,            \* the entry's string
    file,           \* what has not been read yet
    in_call,        \* get_next_line was called
    line,           \* what it returned last
    given,          \* what it returned since the file was opened, in order,
                    \* with the line feed that ended each line: no variable of
                    \* the code's
    eof,            \* it returned NULL
    carried,        \* the entry's string when the file was opened
    content,        \* the file's contents
    failed,         \* an allocation failed since then: for the "call", or for
                    \* the "data" it had in hand; or "none" did
    opens

opening == <<short, carried, content, opens>>
result == <<line, given>>
vars == <<opening, str, file, in_call, result, eof, failed>>

-----------------------------------------------------------------------------
is_backslash_n == NL \in ToSet(str)

\* The bytes of one read, with the line feed appended to an incomplete one.
\* Mutants: the line feed is appended to any read, or to none.
PatchedAlways(bytes) == Append(bytes, NL)
PatchedNever(bytes) == bytes

Patched(bytes) ==
    IF Len(bytes) < BufSize /\ (bytes = <<>> \/ Last(bytes) # NL)
    THEN Append(bytes, NL) ELSE bytes

\* return_it: the first line ends before character n.
Ends(n) == str[n] = NL /\ \A m \in 1..(n - 1) : str[m] # NL

\* Mutants of Line and Rest: the line feed is taken into the line; the character
\* after it is lost with it.
LineWithEnd(n) == SubSeq(str, 1, n)
RestSkipping(n) == SubSeq(str, n + 2, Len(str))

Line(n) == SubSeq(str, 1, n - 1)
Rest(n) == SubSeq(str, n + 1, Len(str))

-----------------------------------------------------------------------------
Init ==
    /\ short \in BOOLEAN
    /\ str = <<>> /\ file = <<>> /\ content = <<>> /\ carried = <<>>
    /\ in_call = FALSE /\ line = <<>> /\ given = <<>> /\ eof = TRUE /\ opens = 0
    /\ failed = "none"

\* get_lib_file opens the file; the last opening may have been left anywhere.
Open ==
    /\ ~in_call /\ opens < MaxOpens
    /\ content' \in Files
    /\ file' = content'
    /\ carried' = str
    /\ line' = <<>> /\ given' = <<>> /\ eof' = FALSE /\ failed' = "none"
    /\ opens' = opens + 1
    /\ UNCHANGED <<short, str, in_call>>

get_next_line ==
    /\ ~in_call /\ ~eof
    /\ in_call' = TRUE
    /\ UNCHANGED <<opening, str, file, result, eof, failed>>

\* No memory for the entry or the buffer: the call returns before it reads.
NoBuffer ==
    /\ ~in_call /\ ~eof
    /\ eof' = TRUE /\ failed' = "call"
    /\ UNCHANGED <<opening, str, file, in_call, result>>

\* The sizes read may return.
Sizes ==
    IF Len(file) = 0 THEN {0}
    ELSE LET most == IF Len(file) < BufSize THEN Len(file) ELSE BufSize
         IN IF short THEN 1..most ELSE {most}

ReadMore ==
    /\ in_call /\ ~is_backslash_n
    /\ \E s \in Sizes :
         /\ str' = str \o Patched(SubSeq(file, 1, s))
         /\ file' = SubSeq(file, s + 1, Len(file))
         /\ eof' = (s = 0 /\ IsPrefix(<<NL>>, str'))
         /\ in_call' = ~eof'
    /\ UNCHANGED <<opening, result, failed>>

ReturnsNull == eof' = TRUE /\ in_call' = FALSE

\* read fails, as it does once the process is gone.
ReadFails ==
    /\ in_call /\ ~is_backslash_n
    /\ ReturnsNull
    /\ UNCHANGED <<opening, str, file, result, failed>>

\* add_str_to has no memory for the longer string, and what was read is gone.
NoString ==
    /\ in_call /\ ~is_backslash_n
    /\ \E s \in Sizes : file' = SubSeq(file, s + 1, Len(file))
    /\ ReturnsNull /\ failed' = "data"
    /\ UNCHANGED <<opening, str, result>>

\* return_it has none for the line or the rest: the entry's string is NULL.
NoLine ==
    /\ in_call /\ is_backslash_n
    /\ str' = <<>>
    /\ ReturnsNull /\ failed' = "data"
    /\ UNCHANGED <<opening, file, result>>

return_it ==
    /\ in_call /\ is_backslash_n
    /\ \E n \in DOMAIN str :
         /\ Ends(n)
         /\ line' = Line(n)
         /\ given' = given \o line' \o <<NL>>
         /\ str' = Rest(n)
    /\ in_call' = FALSE
    /\ UNCHANGED <<opening, file, eof, failed>>

Next ==
    \/ Open \/ get_next_line \/ ReadMore \/ ReadFails \/ return_it
    \/ NoBuffer \/ NoString \/ NoLine

Spec == Init /\ [][Next]_vars

FairSpec == Spec /\ WF_vars(ReadMore \/ return_it)

-----------------------------------------------------------------------------
(* Properties.                                                             *)

TypeOK ==
    /\ str \in Seq(Chars \union {NL}) /\ file \in Seq(Chars \union {NL})
    /\ line \in Seq(Chars) /\ given \in Seq(Chars \union {NL})
    /\ short \in BOOLEAN /\ in_call \in BOOLEAN /\ eof \in BOOLEAN
    /\ opens \in 0..MaxOpens /\ failed \in {"none", "call", "data"}

Taken == SubSeq(content, 1, Len(content) - Len(file))

\* What was read, with the leftover in front, and where it is now.
all == carried \o Taken
got == given \o str

\* The lines of a text that ends in a line feed.
Whole(t) == t = <<>> \/ Last(t) = NL

\* No character is lost, doubled or moved between the leftover of the last
\* opening, the lines returned and the leftover kept: in this order they are
\* the text that was read, but for the line feed added at the end of file,
\* and the one that ends a leftover in front of an empty file.  An allocation
\* that fails loses what it was for until the file is opened again, no longer.
NothingLost ==
    Whole(content) /\ ~short /\ failed # "data" =>
        \/ got \in {all, all \o <<NL>>}
        \/ content = <<>> /\ got = all \o <<NL, NL>>

\* Once the end is reached, the lines returned are the leftover of the last
\* opening and the whole file, each line once: only the first may stick to that
\* leftover, and all others are lines of the file.
OthersAreWhole ==
    eof /\ file = <<>> /\ Whole(content) /\ ~short /\ content # <<>>
        /\ failed = "none" =>
        given = carried \o content

\* The characters of a text but the line feeds.
Letters(t) ==
    LET kept[k \in 0..Len(t)] ==
            IF k = 0 THEN <<>>
            ELSE LET before == kept[k - 1]
                 IN IF t[k] = NL THEN before ELSE Append(before, t[k])
    IN kept[Len(t)]

\* Whatever sizes read returns, and with or without a line feed at the end of
\* the file, only line feeds are added, which may split a line: the other
\* characters are those that were read, in order.
LettersKept == failed # "data" => Letters(got) = Letters(all)

\* A call that can read comes back, even one that reads to the end of file
\* with nothing to return.
CallsReturn == in_call ~> ~in_call

-----------------------------------------------------------------------------
(* Why they hold.                                                          *)

\* A line feed is added only behind the end of file, and then the entry's string
\* is empty and the reading over; or the file is empty, and a second one may be.
AddedAtTheEnd ==
    \/ got = all
    \/ got = all \o <<NL>> /\ file = <<>> /\ (eof \/ content = <<>>)
    \/ got = all \o <<NL, NL>> /\ content = <<>> /\ eof

LossInv ==
    /\ Len(file) <= Len(content) /\ content = Taken \o file
    /\ eof => ~in_call
    /\ failed # "none" => eof
    /\ Whole(content) /\ ~short /\ failed # "data" => AddedAtTheEnd
    /\ OthersAreWhole
=============================================================================
