---------------------------- MODULE MCLineReader ----------------------------
(***************************************************************************)
(* Files of one to three lines, shorter than, as long as and longer than   *)
(* the buffer, and an empty one.                                           *)
(***************************************************************************)
EXTENDS LineReader

CONSTANTS a, b, n

MCFiles == {<<>>, <<a, n>>, <<a, b, n, b, n>>, <<a, n, b, a, n, b, b, b, n>>,
            <<a, b, a, b, a, n, n, b, n>>}

\* A file whose last line has no line feed, as well.
MCAnyFiles == MCFiles \union {<<a, n, b>>, <<a, b, a, b>>}
=============================================================================
