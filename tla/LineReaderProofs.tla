-------------------------- MODULE LineReaderProofs --------------------------
(***************************************************************************)
(* Theorems about LineReader, for every buffer size, every alphabet and    *)
(* every set of files.                                                     *)
(***************************************************************************)
EXTENDS LineReader, Loops, SequenceTheorems, TLAPS

Texts == Seq(Chars \union {NL})

-----------------------------------------------------------------------------
(* Texts.                                                                  *)

\* A piece of a text is a text.
LEMMA Piece ==
    ASSUME NEW t \in Texts, NEW i \in 1..(Len(t) + 1), NEW j \in 0..Len(t)
    PROVE  /\ SubSeq(t, i, j) \in Texts
           /\ Len(SubSeq(t, i, j)) = IF i <= j THEN (j - i) + 1 ELSE 0
           /\ \A k \in 1..((j - i) + 1) : SubSeq(t, i, j)[k] = t[(i + k) - 1]
<1>1. /\ i \in Int /\ j \in Int
      /\ \A k \in i..j : t[k] \in Chars \union {NL}
  BY ElementOfSeq, LenProperties DEF Texts
<1>2. /\ SubSeq(t, i, j) \in Seq(Chars \union {NL})
      /\ Len(SubSeq(t, i, j)) = IF i <= j THEN j - i + 1 ELSE 0
      /\ \A k \in 1 .. j - i + 1 : SubSeq(t, i, j)[k] = t[i + k - 1]
  BY <1>1, SubSeqProperties
<1>. QED BY <1>1, <1>2 DEF Texts

\* So are two texts together, and a line feed.
LEMMA Join ==
    ASSUME NEW t \in Texts, NEW u \in Texts
    PROVE  /\ t \o u \in Texts /\ Len(t \o u) = Len(t) + Len(u)
           /\ \A i \in 1..Len(t) : (t \o u)[i] = t[i]
           /\ \A i \in 1..Len(u) : (t \o u)[Len(t) + i] = u[i]
<1>1. Len(t) \in Nat /\ Len(u) \in Nat
  BY LenProperties DEF Texts
<1>. QED BY <1>1, ConcatProperties DEF Texts

LEMMA Feed == <<NL>> \in Texts /\ <<NL, NL>> \in Texts /\ <<>> \in Texts
  BY DEF Texts

\* A text is what comes before a place in it and what comes after.
LEMMA Cut ==
    ASSUME NEW t \in Texts, NEW n \in 0..Len(t)
    PROVE  t = SubSeq(t, 1, n) \o SubSeq(t, n + 1, Len(t))
<1>1. Len(t) \in Nat
  BY LenProperties DEF Texts
<1>2. 1 \in 1..(Len(t) + 1) /\ n \in (1 - 1)..Len(t) /\ Len(t) \in n..Len(t)
  BY <1>1
<1>3. SubSeq(t, 1, n) \o SubSeq(t, n + 1, Len(t)) = SubSeq(t, 1, Len(t))
  BY ONLY <1>2, t \in Texts, ConcatAdjacentSubSeq DEF Texts
<1>. QED BY <1>3, SubSeqFull DEF Texts

\* What comes before the end of a text is found again in front of it.
LEMMA HeadOfJoin ==
    ASSUME NEW t \in Texts, NEW u \in Texts, NEW w, w = t \o u
    PROVE  Len(w) - Len(u) = Len(t) /\ SubSeq(w, 1, Len(t)) = t
<1>1. /\ Len(t) \in Nat /\ Len(u) \in Nat
      /\ w \in Texts /\ Len(w) = Len(t) + Len(u)
      /\ \A k \in 1..Len(t) : w[k] = t[k]
  <2>1. Len(t) \in Nat /\ Len(u) \in Nat
    BY LenProperties DEF Texts
  <2>. QED BY <2>1, Join
<1>2. /\ SubSeq(w, 1, Len(t)) \in Texts
      /\ Len(SubSeq(w, 1, Len(t))) = Len(t)
      /\ \A k \in 1..Len(t) : SubSeq(w, 1, Len(t))[k] = w[k]
  <2>1. 1 \in 1..(Len(w) + 1) /\ Len(t) \in 0..Len(w)
    BY <1>1
  <2>2. /\ SubSeq(w, 1, Len(t)) \in Texts
        /\ Len(SubSeq(w, 1, Len(t))) = IF 1 <= Len(t) THEN (Len(t) - 1) + 1 ELSE 0
        /\ \A k \in 1..((Len(t) - 1) + 1) : SubSeq(w, 1, Len(t))[k] = w[(1 + k) - 1]
    BY <1>1, <2>1, Piece
  <2>. QED BY <1>1, <2>2
<1>3. SubSeq(w, 1, Len(t)) = t
  BY <1>1, <1>2, SeqEqual DEF Texts
<1>4. Len(w) - Len(u) = Len(t)
  BY ONLY <1>1
<1>. QED BY <1>3, <1>4

\* A text ends as its last part does.
LEMMA LastOfJoin ==
    ASSUME NEW t \in Texts, NEW u \in Texts, u # <<>>
    PROVE  t \o u # <<>> /\ Last(t \o u) = Last(u)
<1>1. Len(t) \in Nat /\ Len(u) \in Nat \ {0}
  BY LenProperties, EmptySeq DEF Texts
<1>. QED BY <1>1, Join DEF Last

-----------------------------------------------------------------------------
(* Types.                                                                  *)

\* The bytes of a read, patched, are a text.
LEMMA PatchedType ==
    ASSUME NEW t \in Texts
    PROVE  Patched(t) \in Texts
BY AppendProperties DEF Patched, Texts

LEMMA SizesType ==
    ASSUME file \in Texts
    PROVE  Sizes \subseteq 0..Len(file)
<1>1. Len(file) \in Nat /\ BufSize \in Nat \ {0}
  BY LenProperties, LineReaderAssumption DEF Texts
<1>. QED BY <1>1 DEF Sizes

\* What get_next_line returns has no line feed.
LEMMA LineType ==
    ASSUME str \in Texts, NEW n \in DOMAIN str, Ends(n)
    PROVE  /\ Line(n) \in Seq(Chars) /\ Line(n) \in Texts /\ Rest(n) \in Texts
           /\ str = Line(n) \o <<NL>> \o Rest(n)
<1>1. Len(str) \in Nat /\ n \in 1..Len(str)
  BY LenProperties DEF Texts
<1>2. \A k \in 1..(n - 1) : str[k] \in Chars
  BY <1>1, ElementOfSeq DEF Texts, Ends
<1>3. Line(n) \in Seq(Chars)
  BY <1>1, <1>2, SubSeqProperties DEF Line
<1>4. Line(n) \in Texts /\ Rest(n) \in Texts
  BY <1>1, Piece DEF Line, Rest
<1>5. str = Line(n) \o <<NL>> \o Rest(n)
  <2>1. str = SubSeq(str, 1, n) \o Rest(n)
    <3>1. n \in 0..Len(str)
      BY <1>1
    <3>. QED BY <3>1, Cut DEF Rest
  <2>2. SubSeq(str, 1, n) = Line(n) \o <<NL>>
    <3>1. 1 \in 1..Len(str) /\ n \in 1..Len(str)
      BY <1>1
    <3>2. SubSeq(str, 1, n) = SubSeq(str, 1, n - 1) \o <<str[n]>>
      BY <3>1, SubSeqRecursiveSecond DEF Texts
    <3>. QED BY <3>2 DEF Line, Ends
  <2>. QED BY <2>1, <2>2
<1>. QED BY <1>3, <1>4, <1>5

\* The rest of TypeOK.
MoreTypes ==
    /\ TypeOK
    /\ content \in Texts /\ carried \in Texts

LEMMA TypesInit == Init => MoreTypes
<1>. SUFFICES ASSUME Init PROVE MoreTypes
  OBVIOUS
<1>1. /\ str = <<>> /\ file = <<>> /\ content = <<>> /\ carried = <<>>
      /\ line = <<>> /\ given = <<>> /\ opens = 0 /\ failed = "none"
      /\ short \in BOOLEAN /\ in_call \in BOOLEAN /\ eof \in BOOLEAN
  BY DEF Init
<1>2. <<>> \in Texts /\ <<>> \in Seq(Chars) /\ 0 \in 0..MaxOpens
  BY LineReaderAssumption, EmptySeq DEF Texts
<1>. QED BY <1>1, <1>2 DEF MoreTypes, TypeOK, Texts

LEMMA TypesNext == MoreTypes /\ [Next]_vars => MoreTypes'
<1>. SUFFICES ASSUME MoreTypes, [Next]_vars PROVE MoreTypes'
  OBVIOUS
<1>. USE DEF MoreTypes, TypeOK, opening, result, ReturnsNull
<1>1. str \in Texts /\ file \in Texts /\ given \in Texts /\ Len(file) \in Nat
  BY LenProperties DEF Texts
<1>2. CASE Open
  <2>1. content' \in Texts /\ file' = content' /\ carried' = str
    BY <1>2, LineReaderAssumption DEF Open, Texts
  <2>2. line' = <<>> /\ given' = <<>> /\ opens' \in 0..MaxOpens
    BY <1>2, LineReaderAssumption DEF Open
  <2>3. <<>> \in Seq(Chars)
    BY EmptySeq
  <2>. QED BY <1>1, <1>2, <2>1, <2>2, <2>3, Feed DEF Open, Texts
<1>3. CASE get_next_line \/ NoBuffer \/ ReadFails
  BY <1>3 DEF get_next_line, NoBuffer, ReadFails
<1>4. CASE ReadMore
  <2>1. PICK s \in Sizes : /\ str' = str \o Patched(SubSeq(file, 1, s))
                           /\ file' = SubSeq(file, s + 1, Len(file))
                           /\ eof' = (s = 0 /\ IsPrefix(<<NL>>, str'))
                           /\ in_call' = ~eof'
    BY <1>4 DEF ReadMore
  <2>2. s \in 0..Len(file)
    BY <1>1, SizesType
  <2>3. SubSeq(file, 1, s) \in Texts /\ file' \in Texts
    <3>1. s \in 0..Len(file) /\ s + 1 \in 1..(Len(file) + 1) /\ 1 \in 1..(Len(file) + 1)
          /\ Len(file) \in 0..Len(file)
      BY <1>1, <2>2
    <3>. QED BY <1>1, <2>1, <3>1, Piece
  <2>4. str' \in Texts
    BY <1>1, <2>1, <2>3, PatchedType, Join
  <2>5. eof' \in BOOLEAN /\ in_call' \in BOOLEAN
    BY <2>1
  <2>. QED BY <1>4, <2>3, <2>4, <2>5 DEF ReadMore, Texts
<1>5. CASE NoString
  <2>1. PICK s \in Sizes : file' = SubSeq(file, s + 1, Len(file))
    BY <1>5 DEF NoString
  <2>2. s \in 0..Len(file)
    BY <1>1, SizesType
  <2>3. file' \in Texts
    <3>1. s + 1 \in 1..(Len(file) + 1) /\ Len(file) \in 0..Len(file)
      BY <1>1, <2>2
    <3>. QED BY <1>1, <2>1, <3>1, Piece
  <2>. QED BY <1>5, <2>3 DEF NoString, Texts
<1>6. CASE NoLine
  BY <1>6, EmptySeq DEF NoLine, Texts
<1>7. CASE return_it
  <2>1. PICK n \in DOMAIN str : /\ Ends(n) /\ line' = Line(n) /\ str' = Rest(n)
                                /\ given' = given \o line' \o <<NL>>
    BY <1>7 DEF return_it
  <2>2. line' \in Seq(Chars) /\ str' \in Texts /\ line' \in Texts
    BY <1>1, <2>1, LineType
  <2>3. given \o line' \in Texts
    BY <1>1, <2>2, Join
  <2>4. given' \in Texts
    BY <2>1, <2>3, Join, Feed
  <2>. QED BY <1>7, <2>2, <2>4 DEF return_it, Texts
<1>8. CASE UNCHANGED vars
  BY <1>8 DEF vars
<1>. QED BY <1>2, <1>3, <1>4, <1>5, <1>6, <1>7, <1>8 DEF Next

\* No line that get_next_line returns contains a line feed, and the entry's
\* string is text, whatever sizes read returns and whatever fails.
THEOREM TypeCorrect == Spec => []TypeOK
<1>1. MoreTypes => TypeOK
  BY DEF MoreTypes
<1>. QED BY <1>1, TypesInit, TypesNext, PTL DEF Spec

-----------------------------------------------------------------------------
(* Nothing is lost.                                                        *)

\* One line feed behind a text, and another.
LEMMA TwoFeeds ==
    ASSUME NEW t \in Texts
    PROVE  (t \o <<NL>>) \o <<NL>> = t \o <<NL, NL>>
<1>1. <<NL>> \o <<NL>> = <<NL, NL>>
  <2>. DEFINE one == <<NL>>
              two == <<NL, NL>>
              both == one \o one
  <2>1. one \in Texts /\ Len(one) = 1 /\ one[1] = NL
    BY Feed
  <2>2. two \in Texts /\ Len(two) = 2 /\ two[1] = NL /\ two[2] = NL
    BY Feed
  <2>. HIDE DEF one, two
  <2>3. /\ both \in Texts /\ Len(both) = Len(one) + Len(one)
        /\ \A i \in 1..Len(one) : both[i] = one[i]
        /\ \A i \in 1..Len(one) : both[Len(one) + i] = one[i]
    BY <2>1, Join
  <2>. HIDE DEF both
  <2>4. Len(both) = 2 /\ both[1] = NL /\ both[2] = NL
    BY <2>1, <2>3
  <2>5. both \in Seq(Chars \union {NL}) /\ two \in Seq(Chars \union {NL})
    BY <2>2, <2>3 DEF Texts
  <2>6. \A i \in 1..Len(both) : both[i] = two[i]
    BY <2>2, <2>4
  <2>7. both = two
    BY <2>2, <2>4, <2>5, <2>6, SeqEqual
  <2>. QED BY <2>7 DEF both, one, two
<1>. QED BY <1>1, Feed, ConcatAssociative DEF Texts

LEMMA Regroup ==
    ASSUME NEW t \in Texts, NEW u \in Texts, NEW v \in Texts
    PROVE  (t \o u) \o v = t \o (u \o v)
BY ConcatAssociative DEF Texts

\* What a read takes off the file.
LEMMA Reads ==
    ASSUME MoreTypes, LossInv, NEW s \in Sizes, file' = SubSeq(file, s + 1, Len(file)),
           content' = content
    PROVE  /\ s \in 0..Len(file) /\ SubSeq(file, 1, s) \in Texts
           /\ file' \in Texts /\ Len(file') <= Len(content')
           /\ Taken' = Taken \o SubSeq(file, 1, s)
           /\ content' = Taken' \o file' /\ Taken \in Texts /\ Taken' \in Texts
<1>1. /\ file \in Texts /\ content \in Texts
      /\ Len(file) \in Nat /\ Len(content) \in Nat
      /\ Len(file) <= Len(content) /\ content = Taken \o file
  BY LenProperties DEF MoreTypes, TypeOK, LossInv, Texts
<1>2. s \in 0..Len(file)
  BY <1>1, SizesType
<1>3. SubSeq(file, 1, s) \in Texts /\ file' \in Texts
  <2>1. /\ s \in 0..Len(file) /\ s + 1 \in 1..(Len(file) + 1)
        /\ 1 \in 1..(Len(file) + 1) /\ Len(file) \in 0..Len(file)
    BY <1>1, <1>2
  <2>. QED BY <1>1, <2>1, Piece
<1>4. Taken \in Texts
  <2>1. Len(content) - Len(file) \in 0..Len(content) /\ 1 \in 1..(Len(content) + 1)
    BY <1>1
  <2>. QED BY <1>1, <2>1, Piece DEF Taken
<1>5. file = SubSeq(file, 1, s) \o file'
  BY <1>1, <1>2, Cut
<1>6. content = (Taken \o SubSeq(file, 1, s)) \o file'
  <2>1. (Taken \o SubSeq(file, 1, s)) \o file' = Taken \o (SubSeq(file, 1, s) \o file')
    BY <1>3, <1>4, Regroup
  <2>2. Taken \o (SubSeq(file, 1, s) \o file') = Taken \o file
    BY ONLY <1>5
  <2>. QED BY ONLY <1>1, <2>1, <2>2
<1>7. Taken \o SubSeq(file, 1, s) \in Texts
  BY <1>3, <1>4, Join
<1>8. Taken' = Taken \o SubSeq(file, 1, s)
  <2>. DEFINE front == Taken \o SubSeq(file, 1, s)
  <2>1. Taken' = SubSeq(content, 1, Len(content) - Len(file'))
    BY DEF Taken
  <2>2. front \in Texts /\ file' \in Texts /\ content = front \o file'
    BY <1>3, <1>6, <1>7
  <2>. HIDE DEF front
  <2>3. Len(content) - Len(file') = Len(front) /\ SubSeq(content, 1, Len(front)) = front
    BY <2>2, HeadOfJoin
  <2>. QED BY <2>1, <2>3 DEF front
<1>9. Len(file') <= Len(content')
  <2>. DEFINE front == Taken \o SubSeq(file, 1, s)
  <2>1. front \in Texts /\ file' \in Texts /\ content = front \o file'
    BY <1>3, <1>6, <1>7
  <2>. HIDE DEF front
  <2>2. Len(front) \in Nat /\ Len(file') \in Nat
    BY <2>1, LenProperties DEF Texts
  <2>3. Len(content) = Len(front) + Len(file')
    BY <2>1, Join
  <2>4. Len(file') <= Len(content)
    BY ONLY <2>2, <2>3
  <2>. QED BY <2>4
<1>. QED BY <1>2, <1>3, <1>4, <1>6, <1>7, <1>8, <1>9

-----------------------------------------------------------------------------
(* The invariant.                                                          *)

\* An entry's string without a line feed is empty if what was returned, with it
\* behind, ends in a line feed.
LEMMA NothingLeft ==
    ASSUME MoreTypes, ~is_backslash_n, NEW t \in Texts, NEW u \in Texts,
           u # <<>>, Last(u) = NL, got = t \o u
    PROVE  str = <<>>
<1>. SUFFICES ASSUME str # <<>> PROVE FALSE
  OBVIOUS
<1>1. given \in Texts /\ str \in Texts
  BY DEF MoreTypes, TypeOK, Texts
<1>2. Last(given \o str) = Last(str)
  BY <1>1, LastOfJoin
<1>3. Last(t \o u) = Last(u)
  BY LastOfJoin
<1>4. Last(str) = NL
  BY <1>2, <1>3 DEF got
<1>5. Len(str) \in Nat /\ Len(str) # 0
  BY <1>1, LenProperties, EmptySeq DEF Texts
<1>6. Len(str) \in DOMAIN str /\ str[Len(str)] = NL
  BY <1>1, <1>4, <1>5, LenProperties DEF Last, Texts
<1>. QED BY <1>6 DEF is_backslash_n, ToSet

\* The empty text adds nothing, before or behind.
LEMMA Empties ==
    ASSUME NEW t \in Texts
    PROVE  t \o <<>> = t /\ <<>> \o t = t
BY ConcatEmptySeq DEF Texts

\* At the end of a file of whole lines nothing waits for its end.
LEMMA EndOfFile ==
    ASSUME MoreTypes, LossInv, in_call, ~is_backslash_n, Whole(content), ~short,
           failed # "data", file = <<>>, content # <<>>
    PROVE  str = <<>> /\ given = carried \o content /\ got = all
<1>1. got = all
  BY DEF LossInv, AddedAtTheEnd
<1>2. carried \in Texts /\ content \in Texts /\ given \in Texts
  BY DEF MoreTypes, TypeOK, Texts
<1>3. Taken = content
  <2>1. Len(file) = 0 /\ Len(content) \in Nat
    BY <1>2, LenProperties DEF Texts
  <2>2. Taken = SubSeq(content, 1, Len(content))
    BY <2>1 DEF Taken
  <2>. QED BY <1>2, <2>2, SubSeqFull DEF Texts
<1>4. got = carried \o content
  BY <1>1, <1>3 DEF all
<1>5. Last(content) = NL
  BY DEF Whole
<1>6. str = <<>>
  BY <1>2, <1>4, <1>5, NothingLeft
<1>7. given \o str = given
  BY <1>2, <1>6, Empties
<1>. QED BY <1>1, <1>4, <1>6, <1>7 DEF got

LEMMA LossInit == Init => LossInv
<1>. SUFFICES ASSUME Init PROVE LossInv
  OBVIOUS
<1>1. /\ str = <<>> /\ file = <<>> /\ content = <<>> /\ carried = <<>>
      /\ given = <<>> /\ in_call = FALSE /\ eof = TRUE
  BY DEF Init
<1>2. <<>> \in Texts /\ Len(<<>>) = 0
  BY Feed
<1>3. Taken = <<>>
  BY <1>1, <1>2, SubSeqFull DEF Taken, Texts
<1>4. got = all
  BY <1>1, <1>3 DEF got, all
<1>5. Taken \o file = <<>>
  BY <1>1, <1>2, <1>3, Empties
<1>. QED BY <1>1, <1>2, <1>4, <1>5 DEF LossInv, AddedAtTheEnd, OthersAreWhole

\* A read appends the same bytes to what was read and, patched, to what was given.
LEMMA ReadMoreTexts ==
    ASSUME MoreTypes, LossInv, NEW s \in Sizes,
           str' = str \o Patched(SubSeq(file, 1, s)), file' = SubSeq(file, s + 1, Len(file)),
           content' = content, carried' = carried, given' = given
    PROVE  /\ got \in Texts /\ all \in Texts /\ SubSeq(file, 1, s) \in Texts
           /\ got' = got \o Patched(SubSeq(file, 1, s))
           /\ all' = all \o SubSeq(file, 1, s)
<1>. DEFINE bytes == SubSeq(file, 1, s)
<1>1. bytes \in Texts /\ Taken' = Taken \o bytes /\ Taken \in Texts
  BY Reads
<1>2. str \in Texts /\ given \in Texts /\ carried \in Texts
  BY DEF MoreTypes, TypeOK, Texts
<1>3. got \in Texts /\ all \in Texts
  BY <1>1, <1>2, Join DEF got, all
<1>4. /\ got' = given \o (str \o Patched(bytes))
      /\ all' = carried \o (Taken \o bytes)
  BY <1>1 DEF got, all
<1>5. Patched(bytes) \in Texts
  BY <1>1, PatchedType
<1>. HIDE DEF bytes
<1>6. (given \o str) \o Patched(bytes) = given \o (str \o Patched(bytes))
  BY <1>2, <1>5, Regroup
<1>7. (carried \o Taken) \o bytes = carried \o (Taken \o bytes)
  BY ONLY <1>1, <1>2, Regroup
<1>. QED BY <1>1, <1>3, <1>4, <1>6, <1>7 DEF got, all, bytes

\* A read appends what it takes off the file; at the end of file, a line feed.
LEMMA ReadMoreLoss ==
    ASSUME MoreTypes, MoreTypes', LossInv, ReadMore
    PROVE  LossInv'
<1>1. PICK s \in Sizes : /\ str' = str \o Patched(SubSeq(file, 1, s))
                         /\ file' = SubSeq(file, s + 1, Len(file))
                         /\ eof' = (s = 0 /\ IsPrefix(<<NL>>, str'))
                         /\ in_call' = ~eof'
  BY DEF ReadMore
<1>. DEFINE bytes == SubSeq(file, 1, s)
<1>2. /\ content' = content /\ carried' = carried /\ short' = short
      /\ given' = given /\ failed' = failed
      /\ in_call /\ ~is_backslash_n /\ ~eof
  BY DEF ReadMore, opening, result, LossInv
<1>3. /\ s \in 0..Len(file) /\ bytes \in Texts
      /\ file' \in Texts /\ Len(file') <= Len(content')
      /\ Taken' = Taken \o bytes
      /\ content' = Taken' \o file' /\ Taken \in Texts /\ Taken' \in Texts
  BY <1>1, <1>2, Reads
<1>4. /\ str \in Texts /\ given \in Texts /\ carried \in Texts /\ file \in Texts
      /\ content \in Texts /\ Len(file) \in Nat
  BY LenProperties DEF MoreTypes, TypeOK, Texts
<1>5. failed = "none"
  BY <1>2 DEF LossInv
<1>6. got \in Texts /\ all \in Texts
  BY <1>1, <1>2, ReadMoreTexts
<1>8. /\ got' = got \o Patched(bytes)
      /\ all' = all \o bytes
  BY <1>1, <1>2, ReadMoreTexts
<1>9. ASSUME s = 0
      PROVE  /\ file = <<>> /\ file' = <<>> /\ bytes = <<>>
             /\ got' = got \o <<NL>> /\ all' = all
             /\ str = <<>> => eof'
  <2>1. Len(file) = 0
    BY <1>4, <1>9, LineReaderAssumption DEF Sizes
  <2>2. file = <<>>
    BY <1>4, <2>1, EmptySeq DEF Texts
  <2>3. bytes = <<>>
    BY <1>9 DEF bytes
  <2>4. file' = <<>>
    <3>1. Len(file') = 0
      <4>1. s + 1 \in 1..(Len(file) + 1) /\ Len(file) \in 0..Len(file)
        BY <1>9, <2>1
      <4>2. Len(SubSeq(file, s + 1, Len(file)))
              = IF s + 1 <= Len(file) THEN (Len(file) - (s + 1)) + 1 ELSE 0
        BY <1>4, <4>1, Piece
      <4>. QED BY <1>1, <1>9, <2>1, <4>2
    <3>. QED BY <1>3, <3>1, EmptySeq DEF Texts
  <2>5. Patched(bytes) = <<NL>>
    <3>1. Patched(<<>>) = <<NL>>
      <4>1. Len(<<>>) < BufSize /\ Append(<<>>, NL) = <<NL>>
        BY LineReaderAssumption
      <4>. QED BY <4>1 DEF Patched
    <3>. QED BY ONLY <2>3, <3>1
  <2>6. got' = got \o <<NL>>
    BY ONLY <1>8, <2>5
  <2>7. all' = all
    BY <1>6, <1>8, <2>3, Empties
  <2>8. ASSUME str = <<>> PROVE eof'
    <3>1. str' = <<NL>>
      BY <1>1, <2>5, <2>8, Empties, Feed
    <3>2. IsPrefix(<<NL>>, str')
      BY <3>1 DEF IsPrefix
    <3>. QED BY <1>1, <1>9, <3>2
  <2>. QED BY <2>2, <2>3, <2>4, <2>6, <2>7, <2>8
<1>10. ASSUME Whole(content), ~short
       PROVE  AddedAtTheEnd'
  <2>1. AddedAtTheEnd
    BY <1>5, <1>10 DEF LossInv
  <2>2. CASE s = 0 /\ content # <<>>
    <3>1. str = <<>> /\ got = all
      BY <1>2, <1>5, <1>9, <1>10, <2>2, EndOfFile
    <3>2. got' = all' \o <<NL>> /\ file' = <<>> /\ eof'
      BY <1>9, <2>2, <3>1
    <3>. QED BY ONLY <3>2 DEF AddedAtTheEnd
  <2>3. CASE s = 0 /\ content = <<>> /\ got = all
    <3>1. got' = all' \o <<NL>> /\ file' = <<>> /\ content' = <<>>
      BY <1>2, <1>9, <2>3
    <3>. QED BY ONLY <3>1 DEF AddedAtTheEnd
  <2>4. CASE s = 0 /\ content = <<>> /\ got = all \o <<NL>>
    <3>1. str = <<>>
      <4>1. <<NL>> # <<>> /\ Last(<<NL>>) = NL
        BY DEF Last
      <4>. QED BY <1>2, <1>6, <2>4, <4>1, Feed, NothingLeft
    <3>2. got' = (all \o <<NL>>) \o <<NL>>
      BY <1>9, <2>4
    <3>3. got' = all' \o <<NL, NL>> /\ content' = <<>> /\ eof'
      BY <1>2, <1>6, <1>9, <2>4, <3>1, <3>2, TwoFeeds
    <3>. QED BY ONLY <3>3 DEF AddedAtTheEnd
  <2>5. CASE s # 0
    <3>1. file # <<>> /\ Len(file) # 0
      BY <1>3, <1>4, <2>5, EmptySeq DEF Texts
    <3>2. content = Taken \o file
      BY DEF LossInv
    <3>3. content # <<>> /\ Last(content) = Last(file)
      BY <1>3, <1>4, <3>1, <3>2, LastOfJoin
    <3>4. got = all
      BY <2>1, <3>1, <3>3 DEF AddedAtTheEnd
    <3>5. Len(bytes) = s
      <4>1. s \in 0..Len(file) /\ 1 \in 1..(Len(file) + 1)
        BY <1>3, <1>4
      <4>2. Len(SubSeq(file, 1, s)) = IF 1 <= s THEN (s - 1) + 1 ELSE 0
        BY <1>4, <4>1, Piece
      <4>. QED BY <1>3, <1>4, <2>5, <4>2
    <3>6. ASSUME s < BufSize PROVE bytes # <<>> /\ Last(bytes) = NL
      <4>1. s = Len(file)
        BY <1>4, <1>10, <3>1, <3>6, LineReaderAssumption DEF Sizes
      <4>2. bytes = file
        BY <1>4, <4>1, SubSeqFull DEF Texts
      <4>. QED BY <1>10, <3>1, <3>3, <4>2 DEF Whole
    <3>. HIDE DEF bytes
    <3>7. Patched(bytes) = bytes
      BY <3>5, <3>6 DEF Patched
    <3>8. got' = all'
      BY ONLY <1>8, <3>4, <3>7
    <3>. QED BY ONLY <3>8 DEF AddedAtTheEnd
  <2>6. ~eof
    BY <1>2
  <2>. QED BY <2>1, <2>2, <2>3, <2>4, <2>5, <2>6 DEF AddedAtTheEnd
<1>11. OthersAreWhole'
  <2>. SUFFICES ASSUME eof', file' = <<>>, Whole(content'), ~short', content' # <<>>
                PROVE  given' = carried' \o content'
    BY DEF OthersAreWhole, Whole
  <2>1. s = 0 /\ file = <<>> /\ Whole(content) /\ ~short /\ content # <<>>
    BY <1>1, <1>2, <1>9 DEF Whole
  <2>2. given = carried \o content
    BY <1>2, <1>5, <2>1, EndOfFile
  <2>. QED BY <1>2, <2>2
<1>12. Whole(content') /\ ~short' => AddedAtTheEnd'
  BY <1>2, <1>10 DEF Whole
<1>13. (eof' => ~in_call') /\ failed' = "none"
  BY <1>1, <1>2, <1>5
<1>. QED BY <1>3, <1>11, <1>12, <1>13 DEF LossInv, Whole

\* What was returned and what is left are the same text after a line is taken.
LEMMA ReturnTexts ==
    ASSUME MoreTypes, return_it
    PROVE  got' = got /\ Taken' = Taken /\ all' = all
<1>1. PICK n \in DOMAIN str : /\ Ends(n) /\ line' = Line(n) /\ str' = Rest(n)
                              /\ given' = given \o line' \o <<NL>>
  BY DEF return_it
<1>2. content' = content /\ carried' = carried /\ file' = file
  BY DEF return_it, opening
<1>3. given \in Texts /\ str \in Texts
  BY DEF MoreTypes, TypeOK, Texts
<1>4. /\ line' \in Texts /\ str' \in Texts
      /\ str = (line' \o <<NL>>) \o str'
  BY <1>1, <1>3, LineType
<1>5. got' = got
  <2>1. line' \o <<NL>> \in Texts
    BY <1>4, Feed, Join
  <2>2. given' = given \o (line' \o <<NL>>)
    <3>1. (given \o line') \o <<NL>> = given \o (line' \o <<NL>>)
      <4>. DEFINE one == <<NL>>
      <4>1. given \in Texts /\ line' \in Texts /\ one \in Texts
        BY <1>3, <1>4, Feed
      <4>. HIDE DEF one
      <4>2. (given \o line') \o one = given \o (line' \o one)
        BY ONLY <4>1, Regroup
      <4>. QED BY <4>2 DEF one
    <3>. QED BY ONLY <1>1, <3>1
  <2>3. given' \o str' = given \o ((line' \o <<NL>>) \o str')
    BY <1>3, <1>4, <2>1, <2>2, Regroup
  <2>. QED BY ONLY <1>4, <2>3 DEF got
<1>6. Taken' = Taken /\ all' = all
  BY <1>2 DEF Taken, all
<1>. QED BY <1>5, <1>6

LEMMA ReturnLoss ==
    ASSUME MoreTypes, LossInv, return_it
    PROVE  LossInv'
<1>1. /\ content' = content /\ carried' = carried /\ short' = short
      /\ file' = file /\ eof' = eof /\ failed' = failed /\ in_call' = FALSE
      /\ ~eof
  BY DEF return_it, opening, LossInv
<1>2. got' = got /\ Taken' = Taken /\ all' = all
  BY ReturnTexts
<1>3. AddedAtTheEnd => AddedAtTheEnd'
  BY ONLY <1>1, <1>2 DEF AddedAtTheEnd
<1>4. OthersAreWhole'
  BY <1>1 DEF OthersAreWhole
<1>. QED BY <1>1, <1>2, <1>3, <1>4 DEF LossInv, Whole

LEMMA LossNext == MoreTypes /\ MoreTypes' /\ LossInv /\ [Next]_vars => LossInv'
<1>. SUFFICES ASSUME MoreTypes, MoreTypes', LossInv, [Next]_vars PROVE LossInv'
  OBVIOUS
<1>1. CASE Open
  <2>1. /\ content' \in Texts /\ file' = content' /\ carried' = str /\ str' = str
        /\ given' = <<>> /\ eof' = FALSE /\ failed' = "none" /\ str \in Texts
    BY <1>1 DEF Open, MoreTypes, TypeOK, Texts
  <2>2. Len(content') \in Nat
    BY <2>1, LenProperties DEF Texts
  <2>3. Taken' = <<>>
    <3>1. Len(content') - Len(file') = 0
      BY <2>1, <2>2
    <3>2. Taken' = SubSeq(content', 1, 0)
      BY <3>1 DEF Taken
    <3>. QED BY <2>1, <3>2
  <2>4. got' = all'
    <3>1. got' = <<>> \o str /\ all' = str \o <<>>
      BY <2>1, <2>3 DEF got, all
    <3>. QED BY <2>1, <3>1, Empties
  <2>5. content' = Taken' \o file'
    <3>1. content' = <<>> \o content'
      BY <2>1, Empties
    <3>. QED BY <2>1, <2>3, <3>1
  <2>6. OthersAreWhole'
    BY <2>1 DEF OthersAreWhole
  <2>. QED BY <2>1, <2>2, <2>4, <2>5, <2>6 DEF LossInv, AddedAtTheEnd
<1>2. CASE get_next_line
  <2>1. /\ content' = content /\ carried' = carried /\ short' = short
        /\ file' = file /\ eof' = FALSE /\ failed' = failed /\ eof = FALSE
        /\ given' = given /\ str' = str
    BY <1>2 DEF get_next_line, opening, result, MoreTypes, TypeOK
  <2>2. Taken' = Taken /\ all' = all /\ got' = got
    BY <2>1 DEF Taken, all, got
  <2>3. AddedAtTheEnd => AddedAtTheEnd'
    BY ONLY <2>1, <2>2 DEF AddedAtTheEnd
  <2>4. OthersAreWhole'
    BY <2>1 DEF OthersAreWhole
  <2>. QED BY <2>1, <2>2, <2>3, <2>4 DEF LossInv, Whole
<1>3. CASE NoBuffer
  <2>1. /\ content' = content /\ carried' = carried /\ short' = short
        /\ file' = file /\ eof' = TRUE /\ failed' = "call" /\ ~eof
        /\ given' = given /\ str' = str /\ in_call' = in_call /\ ~in_call
    BY <1>3 DEF NoBuffer, opening, result
  <2>2. Taken' = Taken /\ all' = all /\ got' = got
    BY <2>1 DEF Taken, all, got
  <2>3. AddedAtTheEnd => AddedAtTheEnd'
    BY ONLY <2>1, <2>2 DEF AddedAtTheEnd
  <2>4. failed = "none"
    BY <2>1 DEF LossInv, MoreTypes, TypeOK
  <2>5. OthersAreWhole'
    BY <2>1 DEF OthersAreWhole
  <2>. QED BY <2>1, <2>2, <2>3, <2>4, <2>5 DEF LossInv, Whole
<1>4. CASE ReadMore
  BY <1>4, ReadMoreLoss
<1>5. CASE ReadFails
  <2>1. /\ content' = content /\ carried' = carried /\ short' = short
        /\ file' = file /\ eof' = TRUE /\ failed' = failed
        /\ given' = given /\ str' = str /\ in_call' = FALSE
        /\ in_call /\ ~is_backslash_n
    BY <1>5 DEF ReadFails, ReturnsNull, opening, result
  <2>2. Taken' = Taken /\ all' = all /\ got' = got
    BY <2>1 DEF Taken, all, got
  <2>3. AddedAtTheEnd => AddedAtTheEnd'
    BY ONLY <2>1, <2>2 DEF AddedAtTheEnd
  <2>4. failed = "none"
    BY <2>1 DEF LossInv
  <2>5. OthersAreWhole'
    <3>. SUFFICES ASSUME file = <<>>, Whole(content), ~short, content # <<>>
                  PROVE  given = carried \o content
      BY <2>1 DEF OthersAreWhole, Whole
    <3>. QED BY <2>1, <2>4, EndOfFile
  <2>. QED BY <2>1, <2>2, <2>3, <2>5 DEF LossInv, Whole
<1>6. CASE NoString
  <2>1. /\ content' = content /\ failed' = "data" /\ eof' = TRUE /\ in_call' = FALSE
    BY <1>6 DEF NoString, ReturnsNull, opening
  <2>2. PICK s \in Sizes : file' = SubSeq(file, s + 1, Len(file))
    BY <1>6 DEF NoString
  <2>3. Len(file') <= Len(content') /\ content' = Taken' \o file'
    BY <2>1, <2>2, Reads
  <2>. QED BY <2>1, <2>3 DEF LossInv, OthersAreWhole
<1>7. CASE NoLine
  <2>1. /\ content' = content /\ file' = file /\ failed' = "data"
        /\ eof' = TRUE /\ in_call' = FALSE
    BY <1>7 DEF NoLine, ReturnsNull, opening
  <2>2. Taken' = Taken
    BY <2>1 DEF Taken
  <2>. QED BY <2>1, <2>2 DEF LossInv, OthersAreWhole
<1>8. CASE return_it
  BY <1>8, ReturnLoss
<1>9. CASE UNCHANGED vars
  <2>1. /\ content' = content /\ carried' = carried /\ short' = short
        /\ file' = file /\ eof' = eof /\ failed' = failed
        /\ given' = given /\ str' = str /\ in_call' = in_call
    BY <1>9 DEF vars, opening, result
  <2>2. Taken' = Taken /\ all' = all /\ got' = got
    BY <2>1 DEF Taken, all, got
  <2>3. AddedAtTheEnd => AddedAtTheEnd'
    BY ONLY <2>1, <2>2 DEF AddedAtTheEnd
  <2>4. OthersAreWhole'
    BY <2>1 DEF LossInv, OthersAreWhole, Whole
  <2>. QED BY <2>1, <2>2, <2>3, <2>4 DEF LossInv, Whole
<1>. QED
  BY <1>1, <1>2, <1>3, <1>4, <1>5, <1>6, <1>7, <1>8, <1>9 DEF Next

-----------------------------------------------------------------------------
(* The letters.                                                            *)

\* What Letters goes through: the letters of every beginning of the text.
Gathers(t, h) ==
    /\ h \in [0..Len(t) -> Texts]
    /\ h[0] = <<>>
    /\ \A k \in 1..Len(t) : h[k] = IF t[k] = NL THEN h[k - 1] ELSE Append(h[k - 1], t[k])

LEMMA LettersGather ==
    ASSUME NEW t \in Texts
    PROVE  \E h : Gathers(t, h) /\ Letters(t) = h[Len(t)]
<1>. DEFINE n == Len(t)
            F(k, before) == IF t[k] = NL THEN before ELSE Append(before, t[k])
            turn == [p \in (1..n) \X Texts |-> F(p[1], p[2])]
            Rec(g) == g = [k \in 0..Len(t) |->
                             IF k = 0 THEN <<>>
                             ELSE LET before == g[k - 1]
                                  IN IF t[k] = NL THEN before ELSE Append(before, t[k])]
            kept == CHOOSE g : Rec(g)
<1>1. n \in Nat /\ <<>> \in Texts
  BY LenProperties, Feed DEF Texts
<1>2. ASSUME NEW k \in 1..n, NEW before \in Texts PROVE F(k, before) \in Texts
  <2>1. t[k] \in Chars \union {NL}
    BY <1>1, ElementOfSeq DEF Texts
  <2>. QED BY <2>1, AppendProperties DEF Texts
<1>3. turn \in [(1..n) \X Texts -> Texts]
  <2>. HIDE DEF F
  <2>. QED BY <1>2
<1>4. PICK h \in [0..n -> Texts] :
         h[0] = <<>> /\ \A k \in 1..n : h[k] = turn[<<k, h[k - 1]>>]
  <2>1. IsLoop(Texts, n, turn, <<>>)
    <3>. HIDE DEF turn, n
    <3>. QED BY <1>1, <1>3 DEF IsLoop
  <2>. HIDE DEF turn, n
  <2>2. \E h : IsHistory(h, Texts, n, turn, <<>>)
    BY <2>1, LoopHistory
  <2>. QED BY <2>2 DEF IsHistory
<1>5. ASSUME NEW k \in 1..n PROVE h[k] = F(k, h[k - 1])
  <2>1. h[k - 1] \in Texts
    BY <1>1
  <2>. HIDE DEF F
  <2>. QED BY <1>4, <2>1
<1>6. Gathers(t, h)
  BY <1>4, <1>5 DEF Gathers
<1>7. Rec(h)
  <2>. DEFINE G(g, k) == IF k = 0 THEN <<>> ELSE F(k, g[k - 1])
  <2>1. h = [k \in 0..n |-> h[k]]
    BY <1>4
  <2>2. \A k \in 0..n : h[k] = G(h, k)
    <3>1. \A k \in 0..n : k # 0 => k \in 1..n
      BY <1>1
    <3>. HIDE DEF F, n
    <3>. QED BY <1>4, <1>5, <3>1
  <2>3. [k \in 0..n |-> h[k]] = [k \in 0..n |-> G(h, k)]
    <3>. HIDE DEF G
    <3>. QED BY <2>2
  <2>. QED BY <2>1, <2>3
<1>8. Rec(kept)
  <2>. HIDE DEF Rec
  <2>. QED BY <1>7
<1>9. \A k \in 0..n : kept[k] = h[k]
  <2>1. kept[0] = h[0]
    <3>1. 0 \in 0..n
      BY <1>1
    <3>. HIDE DEF kept, F
    <3>. QED BY <1>4, <1>8, <3>1
  <2>2. ASSUME NEW k \in 1..n, kept[k - 1] = h[k - 1] PROVE kept[k] = h[k]
    <3>1. k \in 0..n /\ k # 0
      BY <1>1
    <3>2. kept[k] = F(k, kept[k - 1])
      <4>. HIDE DEF kept
      <4>. QED BY <1>8, <3>1
    <3>. HIDE DEF kept, F
    <3>. QED BY <1>5, <2>2, <3>2
  <2>. HIDE DEF kept, n
  <2>3. Alike(n, kept, h)
    BY <2>1, <2>2 DEF Alike
  <2>. QED BY <1>1, <2>3, SameHistory
<1>10. Letters(t) = kept[n]
  BY DEF Letters
<1>11. n \in 0..n
  BY <1>1
<1>. HIDE DEF kept, n
<1>. QED BY <1>6, <1>9, <1>10, <1>11 DEF n

\* The letters of two texts together are the letters of each.
LEMMA LettersJoin ==
    ASSUME NEW t \in Texts, NEW u \in Texts
    PROVE  Letters(t \o u) = Letters(t) \o Letters(u)
<1>. DEFINE w == t \o u
            n == Len(t)
            m == Len(u)
<1>1. /\ n \in Nat /\ m \in Nat /\ w \in Texts /\ Len(w) = n + m
      /\ \A k \in 1..n : w[k] = t[k]
      /\ \A k \in 1..m : w[n + k] = u[k]
  BY Join, LenProperties DEF Texts
<1>2. PICK f : Gathers(t, f) /\ Letters(t) = f[n]
  BY LettersGather
<1>3. PICK g : Gathers(u, g) /\ Letters(u) = g[m]
  BY LettersGather
<1>4. PICK h : Gathers(w, h) /\ Letters(w) = h[n + m]
  <2>. HIDE DEF w
  <2>. QED BY <1>1, LettersGather
<1>. HIDE DEF w, n, m
<1>5. /\ f \in [0..n -> Texts] /\ f[0] = <<>>
      /\ \A k \in 1..n : f[k] = IF t[k] = NL THEN f[k - 1] ELSE Append(f[k - 1], t[k])
  BY <1>2 DEF Gathers, n
<1>6. /\ g \in [0..m -> Texts] /\ g[0] = <<>>
      /\ \A k \in 1..m : g[k] = IF u[k] = NL THEN g[k - 1] ELSE Append(g[k - 1], u[k])
  BY <1>3 DEF Gathers, m
<1>7. /\ h[0] = <<>>
      /\ \A k \in 1..(n + m) :
           h[k] = IF w[k] = NL THEN h[k - 1] ELSE Append(h[k - 1], w[k])
  BY <1>1, <1>4 DEF Gathers
<1>8. \A k \in 0..n : h[k] = f[k]
  <2>1. ASSUME NEW k \in 1..n, h[k - 1] = f[k - 1] PROVE h[k] = f[k]
    <3>1. k \in 1..(n + m) /\ w[k] = t[k]
      BY <1>1
    <3>. QED BY <1>5, <1>7, <2>1, <3>1
  <2>2. h[0] = f[0] /\ n \in Nat
    BY <1>1, <1>5, <1>7
  <2>3. Alike(n, h, f)
    BY <2>1, <2>2 DEF Alike
  <2>. QED BY <1>1, <2>3, SameHistory
<1>9. \A k \in 0..m : h[n + k] = f[n] \o g[k]
  <2>. DEFINE T == {k \in 0..m : h[n + k] = f[n] \o g[k]}
  <2>0. f[n] \in Texts
    BY <1>1, <1>5
  <2>1. 0 \in T
    <3>1. h[n + 0] = f[n]
      BY <1>1, <1>8
    <3>2. f[n] \o <<>> = f[n]
      BY <2>0, Empties
    <3>3. g[0] = <<>>
      BY <1>6
    <3>4. h[n + 0] = f[n] \o g[0]
      BY ONLY <3>1, <3>2, <3>3
    <3>5. 0 \in 0..m
      BY <1>1
    <3>. QED BY <3>4, <3>5
  <2>2. ASSUME NEW k \in 1..m, k - 1 \in T PROVE k \in T
    <3>1. /\ n + k \in 1..(n + m) /\ (n + k) - 1 = n + (k - 1) /\ k \in 0..m
          /\ w[n + k] = u[k] /\ k - 1 \in 0..m
      BY <1>1
    <3>2. h[n + (k - 1)] = f[n] \o g[k - 1]
      BY <2>2
    <3>3. h[n + k] = IF u[k] = NL THEN f[n] \o g[k - 1]
                     ELSE Append(f[n] \o g[k - 1], u[k])
      BY <1>7, <3>1, <3>2
    <3>4. Append(f[n] \o g[k - 1], u[k]) = f[n] \o Append(g[k - 1], u[k])
      <4>1. u[k] \in Chars \union {NL}
        BY <1>1, ElementOfSeq DEF Texts, m
      <4>2. g[k - 1] \in Texts
        BY <1>6, <3>1
      <4>. DEFINE one == <<u[k]>>
                  x == f[n]
                  y == g[k - 1]
      <4>3. one \in Texts /\ x \in Texts /\ y \in Texts /\ x \o y \in Texts
        <5>1. one \in Texts
          BY <4>1 DEF Texts
        <5>. QED BY <2>0, <4>2, <5>1, Join
      <4>4. Append(x \o y, u[k]) = (x \o y) \o one /\ Append(y, u[k]) = y \o one
        <5>. HIDE DEF x, y
        <5>. QED BY <4>1, <4>3, AppendIsConcat DEF Texts
      <4>. HIDE DEF one, x, y
      <4>5. (x \o y) \o one = x \o (y \o one)
        BY ONLY <4>3, Regroup
      <4>6. Append(x \o y, u[k]) = x \o Append(y, u[k])
        BY ONLY <4>4, <4>5
      <4>. QED BY <4>6 DEF x, y
    <3>5. h[n + k] = f[n] \o g[k]
      BY <1>6, <3>3, <3>4
    <3>. QED BY <3>1, <3>5
  <2>3. 0..m \subseteq T
    <3>. HIDE DEF T
    <3>. QED BY <1>1, <2>1, <2>2, TurnInduction
  <2>. QED BY <2>3
<1>10. m \in 0..m
  BY <1>1
<1>. QED BY <1>2, <1>3, <1>4, <1>9, <1>10 DEF w

LEMMA LettersOfFeed == Letters(<<NL>>) = <<>>
<1>. DEFINE t == <<NL>>
<1>1. t \in Texts /\ Len(t) = 1 /\ t[1] = NL
  BY Feed
<1>. HIDE DEF t
<1>2. PICK h : Gathers(t, h) /\ Letters(t) = h[Len(t)]
  BY <1>1, LettersGather
<1>3. h[1] = h[1 - 1] /\ h[0] = <<>>
  BY <1>1, <1>2 DEF Gathers
<1>4. h[1 - 1] = h[0]
  OBVIOUS
<1>. QED BY <1>1, <1>2, <1>3, <1>4 DEF t

\* The line feed a read adds is no letter.
LEMMA LettersPatched ==
    ASSUME NEW t \in Texts
    PROVE  Letters(Patched(t)) = Letters(t)
<1>1. Letters(Append(t, NL)) = Letters(t)
  <2>1. Append(t, NL) = t \o <<NL>>
    BY AppendIsConcat DEF Texts
  <2>2. Letters(t \o <<NL>>) = Letters(t) \o <<>>
    BY Feed, LettersJoin, LettersOfFeed
  <2>3. Letters(t) \in Texts
    <3>1. PICK h : Gathers(t, h) /\ Letters(t) = h[Len(t)]
      BY LettersGather
    <3>2. Len(t) \in 0..Len(t)
      BY LenProperties DEF Texts
    <3>. QED BY <3>1, <3>2 DEF Gathers
  <2>. QED BY <2>1, <2>2, <2>3, Empties
<1>. QED BY <1>1 DEF Patched

LEMMA LettersInit == Init => LettersKept
<1>. SUFFICES ASSUME Init PROVE got = all
  BY DEF LettersKept
<1>1. str = <<>> /\ given = <<>> /\ carried = <<>> /\ content = <<>> /\ file = <<>>
  BY DEF Init
<1>2. Taken = <<>>
  <2>1. Taken = SubSeq(<<>>, 1, 0)
    BY <1>1 DEF Taken
  <2>. QED BY <2>1
<1>. QED BY <1>1, <1>2 DEF got, all

LEMMA LettersNext ==
    ASSUME MoreTypes, LossInv, LettersKept, [Next]_vars
    PROVE  LettersKept'
<1>1. CASE Open
  <2>1. /\ content' \in Texts /\ file' = content' /\ carried' = str /\ str' = str
        /\ given' = <<>> /\ str \in Texts
    BY <1>1, LineReaderAssumption DEF Open, MoreTypes, TypeOK, Texts
  <2>2. Taken' = <<>>
    <3>1. Len(content') - Len(file') = 0
      BY <2>1, LenProperties DEF Texts
    <3>2. Taken' = SubSeq(content', 1, 0)
      BY <3>1 DEF Taken
    <3>. QED BY <2>1, <3>2
  <2>3. got' = <<>> \o str /\ all' = str \o <<>>
    BY <2>1, <2>2 DEF got, all
  <2>. QED BY <2>1, <2>3, Empties DEF LettersKept
<1>2. CASE ReadMore
  <2>1. PICK s \in Sizes : /\ str' = str \o Patched(SubSeq(file, 1, s))
                           /\ file' = SubSeq(file, s + 1, Len(file))
    BY <1>2 DEF ReadMore
  <2>2. /\ content' = content /\ carried' = carried /\ given' = given
        /\ failed' = failed
    BY <1>2 DEF ReadMore, opening, result
  <2>. DEFINE bytes == SubSeq(file, 1, s)
  <2>3. /\ got \in Texts /\ all \in Texts /\ bytes \in Texts
        /\ got' = got \o Patched(bytes) /\ all' = all \o bytes
    BY <2>1, <2>2, ReadMoreTexts
  <2>. HIDE DEF bytes
  <2>4. Patched(bytes) \in Texts /\ Letters(Patched(bytes)) = Letters(bytes)
    BY <2>3, PatchedType, LettersPatched
  <2>5. /\ Letters(got') = Letters(got) \o Letters(bytes)
        /\ Letters(all') = Letters(all) \o Letters(bytes)
    BY <2>3, <2>4, LettersJoin
  <2>. QED BY <2>2, <2>5 DEF LettersKept
<1>3. CASE return_it
  <2>1. got' = got /\ all' = all /\ failed' = failed
    BY <1>3, ReturnTexts DEF return_it
  <2>. QED BY <2>1 DEF LettersKept
<1>4. CASE NoString \/ NoLine
  BY <1>4 DEF NoString, NoLine, LettersKept
<1>5. CASE get_next_line \/ NoBuffer \/ ReadFails \/ UNCHANGED vars
  <2>1. /\ content' = content /\ carried' = carried /\ file' = file
        /\ given' = given /\ str' = str
    BY <1>5 DEF get_next_line, NoBuffer, ReadFails, vars, opening, result
  <2>2. got' = got /\ all' = all
    BY <2>1 DEF got, all, Taken
  <2>3. failed = "data" => failed' = "data"
    BY <1>5 DEF get_next_line, NoBuffer, ReadFails, vars, LossInv
  <2>. QED BY <2>2, <2>3 DEF LettersKept
<1>. QED BY <1>1, <1>2, <1>3, <1>4, <1>5 DEF Next

-----------------------------------------------------------------------------
(* The theorems.                                                           *)

LEMMA Invariants == Spec => [](MoreTypes /\ LossInv /\ LettersKept)
BY TypesInit, TypesNext, LossInit, LossNext, LettersInit, LettersNext, PTL DEF Spec

\* The leftover of the last opening and the text read since are what was
\* returned and what is left, in this order, with no more than the line feeds
\* that the end of the file adds: get_next_line loses, doubles and moves nothing,
\* whatever the buffer's size and whatever the files hold.
THEOREM NothingLostCorrect == Spec => []NothingLost
<1>1. LossInv => NothingLost
  BY DEF LossInv, AddedAtTheEnd, NothingLost
<1>. QED BY <1>1, Invariants, PTL

\* A file read to its end has been returned line by line, behind the leftover of
\* the last opening and nothing else: only its first line can be spoiled.
THEOREM OthersCorrect == Spec => []OthersAreWhole
<1>1. LossInv => OthersAreWhole
  BY DEF LossInv
<1>. QED BY <1>1, Invariants, PTL

\* Whatever sizes read returns, the letters returned and kept are those that were
\* read, in order: get_next_line adds line feeds and nothing else.
THEOREM LettersCorrect == Spec => []LettersKept
BY Invariants, PTL
=============================================================================
