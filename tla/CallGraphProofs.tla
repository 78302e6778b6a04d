-------------------------- MODULE CallGraphProofs ---------------------------
(***************************************************************************)
(* Theorems about CallGraph, for every set of functions, labels and system *)
(* calls and every bound.                                                  *)
(***************************************************************************)
EXTENDS CallGraph, SequenceTheorems, TLAPS

USE CallGraphAssumption

-----------------------------------------------------------------------------
(* Lemmas about what is written to graph.dot.                              *)

\* The label of a function is a label of a node.
LEMMA LabelType ==
    ASSUME NEW f \in Funcs PROVE Label(f) \in Nodes
  BY DEF Label, Nodes

\* The tokens a write consists of.
LEMMA TokenType ==
    ASSUME NEW l \in Nodes
    PROVE  /\ Node(l) \in Token /\ Grey(l) \in Token
           /\ Arrow \in Token /\ Newline \in Token
  BY DEF Node, Grey, Arrow, Newline, Token, Nodes

\* One token more adds at most the edge that ends in it.
LEMMA EdgesAppend ==
    ASSUME NEW d \in Seq(Token), NEW x \in Token
    PROVE  Edges(Append(d, x)) =
              Edges(d) \union
                (IF /\ Len(d) >= 2 /\ x.tok = "node"
                    /\ d[Len(d)].tok = "arrow" /\ d[Len(d) - 1].tok = "node"
                 THEN {<<d[Len(d) - 1].label, x.label>>} ELSE {})
  <1> DEFINE e == Append(d, x)
             n == Len(d)
             I(s) == {j \in 2..(Len(s) - 1) : IsEdge(s, j)}
             last == /\ n >= 2 /\ x.tok = "node"
                     /\ d[n].tok = "arrow" /\ d[n - 1].tok = "node"
  <1>1. /\ n \in Nat /\ Len(e) = n + 1 /\ e[n + 1] = x
        /\ \A i \in 1..n : e[i] = d[i]
    BY AppendProperties, LenProperties
  <1>2. \A j \in 2..(n - 1) : IsEdge(e, j) <=> IsEdge(d, j)
    BY <1>1 DEF IsEdge
  <1>3. n >= 2 => (IsEdge(e, n) <=> last)
    BY <1>1 DEF IsEdge
  <1>4. I(e) = I(d) \union (IF last THEN {n} ELSE {})
    BY <1>1, <1>2, <1>3
  <1>5. \A j \in I(d) : /\ e[j - 1].label = d[j - 1].label
                        /\ e[j + 1].label = d[j + 1].label
    BY <1>1
  <1>6. last => e[n - 1].label = d[n - 1].label /\ e[n + 1].label = x.label
    BY <1>1
  <1> HIDE DEF I, last, e, n
  <1>7. {<<e[i - 1].label, e[i + 1].label>> : i \in I(e)} =
            {<<d[i - 1].label, d[i + 1].label>> : i \in I(d)}
              \union (IF last THEN {<<d[n - 1].label, x.label>>} ELSE {})
    BY <1>4, <1>5, <1>6
  <1> QED
    BY <1>7 DEF Edges, I, e, n, last

\* A token that is no node, or that follows no arrow, adds no edge.
LEMMA EdgesAppendNone ==
    ASSUME NEW d \in Seq(Token), NEW x \in Token,
           x.tok # "node" \/ d = <<>> \/ Last(d).tok # "arrow"
    PROVE  Edges(Append(d, x)) = Edges(d)
  <1>1. d = <<>> => ~(Len(d) >= 2)
    BY EmptySeq
  <1> QED
    BY <1>1, EdgesAppend DEF Last

\* A node after an arrow adds the edge from the node before the arrow.
LEMMA EdgesAppendNode ==
    ASSUME NEW d \in Seq(Token), NEW a \in Token, NEW x \in Token,
           d # <<>>, Last(d).tok = "node", a.tok = "arrow", x.tok = "node"
    PROVE  Edges(Append(Append(d, a), x)) =
              Edges(d) \union {<<Last(d).label, x.label>>}
  <1> DEFINE n == Len(d)
             e == Append(d, a)
  <1>1. n \in Nat /\ n > 0
    BY LenProperties, EmptySeq
  <1>2. /\ e \in Seq(Token) /\ Len(e) = n + 1 /\ e[n + 1] = a
        /\ \A i \in 1..n : e[i] = d[i]
    BY AppendProperties
  <1>3. Edges(e) = Edges(d)
    BY EdgesAppendNone
  <1>4. e[Len(e)] = a /\ e[Len(e) - 1] = Last(d) /\ Len(e) >= 2
    BY <1>1, <1>2 DEF Last
  <1> HIDE DEF e
  <1>5. Edges(Append(e, x)) = Edges(e) \union {<<e[Len(e) - 1].label, x.label>>}
    BY <1>2, <1>4, EdgesAppend
  <1> QED
    BY <1>3, <1>4, <1>5 DEF e

\* A node after an arrow that follows no node adds no edge.
LEMMA EdgesAppendDangling ==
    ASSUME NEW d \in Seq(Token), NEW a \in Token, NEW x \in Token,
           d = <<>> \/ Last(d).tok # "node", a.tok = "arrow"
    PROVE  Edges(Append(Append(d, a), x)) = Edges(d)
  <1> DEFINE n == Len(d)
             e == Append(d, a)
  <1>1. n \in Nat /\ (d = <<>> => n = 0) /\ (d # <<>> => n > 0)
    BY LenProperties, EmptySeq
  <1>2. /\ e \in Seq(Token) /\ Len(e) = n + 1
        /\ \A i \in 1..n : e[i] = d[i]
    BY AppendProperties
  <1>3. Edges(e) = Edges(d)
    BY EdgesAppendNone
  <1>4. Len(e) >= 2 => e[Len(e) - 1].tok # "node"
    BY <1>1, <1>2 DEF Last
  <1> HIDE DEF e
  <1>5. Edges(Append(e, x)) = Edges(e)
    BY <1>2, <1>4, EdgesAppend
  <1> QED
    BY <1>3, <1>5 DEF e

\* The last token is the one appended.
LEMMA LastAppend ==
    ASSUME NEW S, NEW d \in Seq(S), NEW x \in S
    PROVE  /\ Append(d, x) \in Seq(S) /\ Append(d, x) # <<>>
           /\ Last(Append(d, x)) = x
  BY AppendProperties, LenProperties DEF Last

\* One token more adds at most itself to the grey nodes.
LEMMA GreysAppend ==
    ASSUME NEW d \in Seq(Token), NEW x \in Token
    PROVE  Greys(Append(d, x)) =
              Greys(d) \union (IF x.tok = "grey" THEN {x.label} ELSE {})
  <1> DEFINE e == Append(d, x)
             n == Len(d)
             I(s) == {j \in 1..Len(s) : s[j].tok = "grey"}
  <1>1. /\ n \in Nat /\ Len(e) = n + 1 /\ e[n + 1] = x
        /\ \A i \in 1..n : e[i] = d[i]
    BY AppendProperties, LenProperties
  <1>2. I(e) = I(d) \union (IF x.tok = "grey" THEN {n + 1} ELSE {})
    BY <1>1
  <1>3. \A j \in I(d) : e[j].label = d[j].label
    BY <1>1
  <1>4. e[n + 1].label = x.label
    BY <1>1
  <1> HIDE DEF I, e, n
  <1>5. {e[i].label : i \in I(e)} =
            {d[i].label : i \in I(d)}
              \union (IF x.tok = "grey" THEN {x.label} ELSE {})
    BY <1>2, <1>3, <1>4
  <1> QED
    BY <1>5 DEF Greys, I, e

-----------------------------------------------------------------------------
(* What format_node writes, for any state of the flags: c is the function  *)
(* on top of the stack, r and f the flags ret and first, l the new node    *)
(* and g whether it is a leaf.                                             *)

Written(d, c, r, f, l, g) ==
    d \o (IF r THEN <<Newline, Node(c)>> ELSE <<>>)
      \o (IF f THEN <<Arrow>> ELSE <<>>)
      \o <<Node(l)>>
      \o (IF g THEN <<Grey(l)>> ELSE <<>>)

\* The same, one token at a time.
Sourced(d, c, r) == IF r THEN Append(Append(d, Newline), Node(c)) ELSE d
Linked(d, f) == IF f THEN Append(d, Arrow) ELSE d
Leafed(d, l, g) == IF g THEN Append(d, Grey(l)) ELSE d

LEMMA ConcatTwo ==
    ASSUME NEW S, NEW d \in Seq(S), NEW a \in S, NEW b \in S
    PROVE  d \o <<a, b>> = Append(Append(d, a), b)
  <1>1. /\ <<a, b>> \in Seq(S) /\ Len(<<a, b>>) = 2
        /\ <<a, b>>[1] = a /\ <<a, b>>[2] = b
    OBVIOUS
  <1>2. /\ d \o <<a, b>> \in Seq(S)
        /\ Len(d \o <<a, b>>) = Len(d) + 2
        /\ \A i \in 1..(Len(d) + 2) : (d \o <<a, b>>)[i] =
              IF i <= Len(d) THEN d[i] ELSE <<a, b>>[i - Len(d)]
    BY <1>1, ConcatProperties
  <1>3. /\ Append(d, a) \in Seq(S) /\ Len(Append(d, a)) = Len(d) + 1
        /\ \A i \in 1..Len(d) : Append(d, a)[i] = d[i]
        /\ Append(d, a)[Len(d) + 1] = a
    BY AppendProperties
  <1>4. /\ Append(Append(d, a), b) \in Seq(S)
        /\ Len(Append(Append(d, a), b)) = Len(d) + 2
        /\ \A i \in 1..(Len(d) + 1) : Append(Append(d, a), b)[i] = Append(d, a)[i]
        /\ Append(Append(d, a), b)[Len(d) + 2] = b
    BY <1>3, AppendProperties, LenProperties
  <1>5. \A i \in 1..(Len(d) + 2) : (d \o <<a, b>>)[i] = Append(Append(d, a), b)[i]
    BY <1>1, <1>2, <1>3, <1>4, LenProperties
  <1> QED
    BY <1>2, <1>4, <1>5, SeqEqual

LEMMA WrittenIsAppended ==
    ASSUME NEW d \in Seq(Token), NEW c \in Nodes, NEW l \in Nodes,
           NEW r \in BOOLEAN, NEW f \in BOOLEAN, NEW g \in BOOLEAN
    PROVE  /\ Written(d, c, r, f, l, g) =
                Leafed(Append(Linked(Sourced(d, c, r), f), Node(l)), l, g)
           /\ Sourced(d, c, r) \in Seq(Token)
           /\ Linked(Sourced(d, c, r), f) \in Seq(Token)
           /\ Written(d, c, r, f, l, g) \in Seq(Token)
  <1> DEFINE w1 == Sourced(d, c, r)
             w2 == Linked(w1, f)
             w3 == Append(w2, Node(l))
             w4 == Leafed(w3, l, g)
  <1>0. /\ Node(c) \in Token /\ Node(l) \in Token /\ Grey(l) \in Token
        /\ Arrow \in Token /\ Newline \in Token
    BY TokenType
  <1>1. /\ w1 \in Seq(Token)
        /\ w1 = d \o (IF r THEN <<Newline, Node(c)>> ELSE <<>>)
    BY <1>0, ConcatTwo, ConcatEmptySeq, AppendProperties DEF Sourced
  <1> HIDE DEF w1
  <1>2. /\ w2 \in Seq(Token)
        /\ w2 = w1 \o (IF f THEN <<Arrow>> ELSE <<>>)
    BY <1>0, <1>1, AppendIsConcat, ConcatEmptySeq, AppendProperties DEF Linked
  <1> HIDE DEF w2
  <1>3. w3 \in Seq(Token) /\ w3 = w2 \o <<Node(l)>>
    BY <1>0, <1>2, AppendIsConcat, AppendProperties
  <1> HIDE DEF w3
  <1>4. /\ w4 \in Seq(Token)
        /\ w4 = w3 \o (IF g THEN <<Grey(l)>> ELSE <<>>)
    BY <1>0, <1>3, AppendIsConcat, ConcatEmptySeq, AppendProperties DEF Leafed
  <1>5. Written(d, c, r, f, l, g) = w4
    BY <1>1, <1>2, <1>3, <1>4 DEF Written
  <1> QED
    BY <1>1, <1>2, <1>4, <1>5 DEF w1, w2, w3

\* What is written ends in the new node or its grey copy.
LEMMA WrittenLast ==
    ASSUME NEW d \in Seq(Token), NEW c \in Nodes, NEW l \in Nodes,
           NEW r \in BOOLEAN, NEW f \in BOOLEAN, NEW g \in BOOLEAN
    PROVE  /\ Written(d, c, r, f, l, g) # <<>>
           /\ Last(Written(d, c, r, f, l, g)) = IF g THEN Grey(l) ELSE Node(l)
  <1> DEFINE w2 == Linked(Sourced(d, c, r), f)
             w3 == Append(w2, Node(l))
  <1>1. Node(l) \in Token /\ Grey(l) \in Token /\ w2 \in Seq(Token)
    BY TokenType, WrittenIsAppended
  <1>0. Written(d, c, r, f, l, g) = Leafed(w3, l, g)
    BY WrittenIsAppended
  <1> HIDE DEF w2
  <1>2. w3 \in Seq(Token) /\ w3 # <<>> /\ w3[Len(w3)] = Node(l)
    BY <1>1, AppendProperties, LenProperties
  <1> HIDE DEF w3
  <1>3. /\ Append(w3, Grey(l)) # <<>>
        /\ Append(w3, Grey(l))[Len(Append(w3, Grey(l)))] = Grey(l)
    BY <1>1, <1>2, AppendProperties, LenProperties
  <1>4. Written(d, c, r, f, l, g) = IF g THEN Append(w3, Grey(l)) ELSE w3
    BY <1>0 DEF Leafed
  <1> QED
    BY <1>2, <1>3, <1>4 DEF Last

\* The only edge written goes to the new node: from the function on top of
\* the stack if the chain was broken, from the node before it otherwise.
LEMMA WrittenEdges ==
    ASSUME NEW d \in Seq(Token), NEW c \in Nodes, NEW l \in Nodes,
           NEW r \in BOOLEAN, NEW f \in BOOLEAN, NEW g \in BOOLEAN,
           d # <<>> => Last(d).tok # "arrow"
    PROVE  Edges(Written(d, c, r, f, l, g)) =
              Edges(d) \union
                (IF f /\ r THEN {<<c, l>>}
                 ELSE IF f /\ d # <<>> /\ Last(d).tok = "node"
                 THEN {<<Last(d).label, l>>} ELSE {})
  <1> DEFINE wn == Append(d, Newline)
             w1 == Sourced(d, c, r)
             w2 == Linked(w1, f)
             w3 == Append(w2, Node(l))
             w4 == Leafed(w3, l, g)
  <1>0. /\ Node(c) \in Token /\ Node(l) \in Token /\ Grey(l) \in Token
        /\ Arrow \in Token /\ Newline \in Token
        /\ Node(c).tok = "node" /\ Node(c).label = c
        /\ Node(l).tok = "node" /\ Node(l).label = l
        /\ Grey(l).tok = "grey" /\ Arrow.tok = "arrow"
        /\ Newline.tok = "newline"
    BY TokenType DEF Node, Grey, Arrow, Newline
  <1>1. /\ w1 \in Seq(Token) /\ w2 \in Seq(Token)
        /\ Written(d, c, r, f, l, g) = w4
    BY WrittenIsAppended
  <1>2. /\ Edges(w1) = Edges(d)
        /\ r => w1 # <<>> /\ Last(w1) = Node(c)
        /\ ~r => w1 = d
    <2>1. wn \in Seq(Token) /\ Last(wn) = Newline /\ Edges(wn) = Edges(d)
      BY <1>0, LastAppend, EdgesAppendNone
    <2> HIDE DEF wn
    <2>2. Append(wn, Node(c)) # <<>> /\ Last(Append(wn, Node(c))) = Node(c)
      BY <1>0, <2>1, LastAppend
    <2>3. Edges(Append(wn, Node(c))) = Edges(wn)
      BY <1>0, <2>1, EdgesAppendNone
    <2> QED
      BY <2>1, <2>2, <2>3 DEF Sourced, wn
  <1> HIDE DEF w1
  <1>3. /\ w3 \in Seq(Token)
        /\ Last(w3) = Node(l)
    BY <1>0, <1>1, LastAppend
  <1>4. Edges(w3) = Edges(w1) \union
            (IF f /\ w1 # <<>> /\ Last(w1).tok = "node"
             THEN {<<Last(w1).label, l>>} ELSE {})
    <2>1. CASE f /\ w1 # <<>> /\ Last(w1).tok = "node"
      BY <1>0, <1>1, <2>1, EdgesAppendNode DEF Linked
    <2>2. CASE f /\ ~(w1 # <<>> /\ Last(w1).tok = "node")
      BY <1>0, <1>1, <2>2, EdgesAppendDangling DEF Linked
    <2>3. CASE ~f
      <3>1. w2 = w1 /\ (w1 = <<>> \/ Last(w1).tok # "arrow")
        BY <1>0, <1>2, <2>3 DEF Linked
      <3>2. Edges(Append(w1, Node(l))) = Edges(w1)
        BY <1>0, <1>1, <3>1, EdgesAppendNone
      <3> QED
        BY <2>3, <3>1, <3>2
    <2> QED
      BY <2>1, <2>2, <2>3
  <1> HIDE DEF w3
  <1>5. Edges(w4) = Edges(w3)
    BY <1>0, <1>3, EdgesAppendNone DEF Leafed
  <1> QED
    BY <1>0, <1>1, <1>2, <1>4, <1>5

\* The only grey node written is the leaf.
LEMMA WrittenGreys ==
    ASSUME NEW d \in Seq(Token), NEW c \in Nodes, NEW l \in Nodes,
           NEW r \in BOOLEAN, NEW f \in BOOLEAN, NEW g \in BOOLEAN
    PROVE  Greys(Written(d, c, r, f, l, g)) =
              Greys(d) \union (IF g THEN {l} ELSE {})
  <1> DEFINE wn == Append(d, Newline)
             w1 == Sourced(d, c, r)
             w2 == Linked(w1, f)
             w3 == Append(w2, Node(l))
             w4 == Leafed(w3, l, g)
  <1>0. /\ Node(c) \in Token /\ Node(l) \in Token /\ Grey(l) \in Token
        /\ Arrow \in Token /\ Newline \in Token
        /\ Node(c).tok = "node" /\ Node(l).tok = "node"
        /\ Grey(l).tok = "grey" /\ Grey(l).label = l
        /\ Arrow.tok = "arrow" /\ Newline.tok = "newline"
    BY TokenType DEF Node, Grey, Arrow, Newline
  <1>1. /\ w1 \in Seq(Token) /\ w2 \in Seq(Token)
        /\ Written(d, c, r, f, l, g) = w4
    BY WrittenIsAppended
  <1>2. wn \in Seq(Token) /\ Greys(wn) = Greys(d)
    BY <1>0, GreysAppend, AppendProperties
  <1> HIDE DEF wn
  <1>3. Greys(w1) = Greys(d)
    BY <1>0, <1>2, GreysAppend DEF Sourced, wn
  <1> HIDE DEF w1
  <1>4. Greys(w2) = Greys(d)
    BY <1>0, <1>1, <1>3, GreysAppend DEF Linked
  <1> HIDE DEF w2
  <1>5. w3 \in Seq(Token) /\ Greys(w3) = Greys(d)
    BY <1>0, <1>1, <1>4, GreysAppend, AppendProperties
  <1> HIDE DEF w3
  <1>6. Greys(w4) = Greys(d) \union (IF g THEN {l} ELSE {})
    BY <1>0, <1>5, GreysAppend DEF Leafed
  <1> QED
    BY <1>1, <1>6

\* A token that is no arrow leaves a well-formed text well formed.
LEMMA WellFormedAppend ==
    ASSUME NEW d \in Seq(Token), NEW x \in Token,
           WellFormed(d), x.tok # "arrow"
    PROVE  WellFormed(Append(d, x))
  <1> DEFINE e == Append(d, x)
             n == Len(d)
  <1>1. /\ n \in Nat /\ Len(e) = n + 1 /\ e[n + 1] = x
        /\ \A i \in 1..n : e[i] = d[i]
    BY AppendProperties, LenProperties
  <1> HIDE DEF e
  <1>2. SUFFICES ASSUME NEW i \in 1..Len(e), e[i].tok = "arrow"
                 PROVE  i > 1 /\ i < Len(e) /\ IsEdge(e, i)
    BY DEF WellFormed, e
  <1>3. i \in 1..n /\ d[i].tok = "arrow"
    BY <1>1, <1>2
  <1>4. i > 1 /\ i < n /\ IsEdge(d, i)
    BY <1>3 DEF WellFormed
  <1> QED
    BY <1>1, <1>3, <1>4 DEF IsEdge

\* So does an arrow between two nodes.
LEMMA WellFormedLink ==
    ASSUME NEW d \in Seq(Token), NEW a \in Token, NEW x \in Token,
           WellFormed(d), d # <<>>, Last(d).tok = "node",
           a.tok = "arrow", x.tok = "node"
    PROVE  WellFormed(Append(Append(d, a), x))
  <1> DEFINE n == Len(d)
             e == Append(d, a)
             h == Append(e, x)
  <1>1. n \in Nat /\ n > 0 /\ d[n].tok = "node"
    BY LenProperties, EmptySeq DEF Last
  <1>2. /\ e \in Seq(Token) /\ Len(e) = n + 1 /\ e[n + 1] = a
        /\ \A i \in 1..n : e[i] = d[i]
    BY AppendProperties
  <1> HIDE DEF e
  <1>3. /\ Len(h) = n + 2 /\ h[n + 2] = x
        /\ \A i \in 1..(n + 1) : h[i] = e[i]
    BY <1>1, <1>2, AppendProperties
  <1> HIDE DEF h
  <1>4. SUFFICES ASSUME NEW i \in 1..Len(h), h[i].tok = "arrow"
                 PROVE  i > 1 /\ i < Len(h) /\ IsEdge(h, i)
    BY DEF WellFormed, e, h
  <1>5. CASE i \in 1..n
    <2>1. d[i].tok = "arrow"
      BY <1>1, <1>2, <1>3, <1>4, <1>5
    <2>2. i > 1 /\ i < n /\ IsEdge(d, i)
      BY <1>5, <2>1 DEF WellFormed
    <2>3. h[i] = d[i] /\ h[i - 1] = d[i - 1] /\ h[i + 1] = d[i + 1]
      BY <1>1, <1>2, <1>3, <2>2
    <2> QED
      BY <1>1, <1>3, <2>2, <2>3 DEF IsEdge
  <1>6. CASE i = n + 1
    <2>1. h[i] = a /\ h[i - 1] = d[n] /\ h[i + 1] = x
      BY <1>1, <1>2, <1>3, <1>6
    <2> QED
      BY <1>1, <1>3, <1>6, <2>1 DEF IsEdge
  <1> QED
    BY <1>1, <1>3, <1>4, <1>5, <1>6

\* What format_node writes is well formed when there is a node to start from.
LEMMA WrittenWellFormed ==
    ASSUME NEW d \in Seq(Token), NEW c \in Nodes, NEW l \in Nodes,
           NEW r \in BOOLEAN, NEW f \in BOOLEAN, NEW g \in BOOLEAN,
           WellFormed(d), f /\ ~r => d # <<>> /\ Last(d).tok = "node"
    PROVE  WellFormed(Written(d, c, r, f, l, g))
  <1> DEFINE wn == Append(d, Newline)
             w1 == Sourced(d, c, r)
             w2 == Linked(w1, f)
             w3 == Append(w2, Node(l))
             w4 == Leafed(w3, l, g)
  <1>0. /\ Node(c) \in Token /\ Node(l) \in Token /\ Grey(l) \in Token
        /\ Arrow \in Token /\ Newline \in Token
        /\ Node(c).tok = "node" /\ Node(l).tok = "node"
        /\ Grey(l).tok = "grey" /\ Arrow.tok = "arrow"
        /\ Newline.tok = "newline"
    BY TokenType DEF Node, Grey, Arrow, Newline
  <1>1. /\ w1 \in Seq(Token) /\ w2 \in Seq(Token)
        /\ Written(d, c, r, f, l, g) = w4
    BY WrittenIsAppended
  <1>2. /\ WellFormed(w1)
        /\ r => w1 # <<>> /\ Last(w1) = Node(c)
        /\ ~r => w1 = d
    <2>1. wn \in Seq(Token) /\ WellFormed(wn)
      BY <1>0, LastAppend, WellFormedAppend
    <2> HIDE DEF wn
    <2>2. Append(wn, Node(c)) # <<>> /\ Last(Append(wn, Node(c))) = Node(c)
      BY <1>0, <2>1, LastAppend
    <2>3. WellFormed(Append(wn, Node(c)))
      BY <1>0, <2>1, WellFormedAppend
    <2> QED
      BY <2>2, <2>3 DEF Sourced, wn
  <1> HIDE DEF w1
  <1>3. w3 \in Seq(Token) /\ WellFormed(w3)
    <2>1. w3 \in Seq(Token)
      BY <1>0, <1>1, LastAppend
    <2>2. CASE f
      BY <1>0, <1>1, <1>2, <2>1, <2>2, WellFormedLink DEF Linked
    <2>3. CASE ~f
      BY <1>0, <1>1, <1>2, <2>1, <2>3, WellFormedAppend DEF Linked
    <2> QED
      BY <2>1, <2>2, <2>3
  <1> HIDE DEF w3
  <1>4. WellFormed(w4)
    BY <1>0, <1>3, WellFormedAppend DEF Leafed
  <1> QED
    BY <1>1, <1>4

-----------------------------------------------------------------------------
(* What the printing functions do to their statics.                        *)

LEMMA LineTypes ==
    /\ \A f \in Funcs : CallLine(f) \in Line /\ CallLine(f).mark = "call"
                        /\ CallLine(f).label = Label(f)
    /\ \A s \in Syscalls : SyscallLine(s) \in Line /\ SyscallLine(s).mark = "@"
                           /\ SyscallLine(s).label = s
    /\ UndefinedSyscallLine \in Line /\ UndefinedSyscallLine.mark = "call"
    /\ UndefinedSyscallLine.label = Blank
    /\ ReturnLine \in Line /\ ReturnLine.mark = ">"
  <1>1. \A f \in Funcs : Label(f) \in Nodes
    BY LabelType
  <1>2. Blank \in Nodes /\ Syscalls \subseteq Nodes
    BY DEF Nodes
  <1> QED
    BY <1>1, <1>2 DEF CallLine, SyscallLine, UndefinedSyscallLine, ReturnLine, Line

LEMMA StackTypes ==
    ASSUME NEW S, NEW list \in Seq(S)
    PROVE  /\ pop_function(list) \in Seq(S)
           /\ \A l \in S, ok \in BOOLEAN : push_function(list, l, ok) \in Seq(S)
           /\ \A l \in S : /\ Cons(l, list) \in Seq(S)
                           /\ Cons(l, list) # <<>>
                           /\ Head(Cons(l, list)) = l
                           /\ Tail(Cons(l, list)) = list
           /\ list # <<>> => Head(list) \in S
  <1>1. list # <<>> => Head(list) \in S /\ Tail(list) \in Seq(S)
    BY HeadTailProperties
  <1>2. ASSUME NEW l \in S
        PROVE  /\ Cons(l, list) \in Seq(S)
               /\ Cons(l, list) # <<>>
               /\ Head(Cons(l, list)) = l
               /\ Tail(Cons(l, list)) = list
    <2>1. /\ <<l>> \in Seq(S) /\ Len(<<l>>) = 1 /\ <<l>>[1] = l
      OBVIOUS
    <2>2. /\ Cons(l, list) \in Seq(S)
          /\ Len(Cons(l, list)) = 1 + Len(list)
          /\ \A i \in 1..(1 + Len(list)) : Cons(l, list)[i] =
                IF i <= 1 THEN l ELSE list[i - 1]
      BY <2>1, ConcatProperties DEF Cons
    <2>3. Len(list) \in Nat
      BY LenProperties
    <2>4. Cons(l, list) # <<>> /\ Head(Cons(l, list)) = l
      BY <2>2, <2>3
    <2>5. /\ Tail(Cons(l, list)) \in Seq(S)
          /\ Len(Tail(Cons(l, list))) = Len(list)
          /\ \A i \in 1..Len(list) : Tail(Cons(l, list))[i] = list[i]
      BY <2>2, <2>3, <2>4, HeadTailProperties
    <2>6. Tail(Cons(l, list)) = list
      BY <2>5, SeqEqual
    <2> QED
      BY <2>2, <2>4, <2>6
  <1> QED
    BY <1>1, <1>2 DEF pop_function, push_function

LEMMA TopType ==
    ASSUME NEW list \in Seq(Nodes)
    PROVE  get_function(list) \in Nodes
  BY StackTypes DEF get_function, Nodes

\* A node line appends what Written says.
LEMMA PrintNode ==
    ASSUME TypeOK, NEW line \in Line, NEW pushed \in BOOLEAN,
           line.mark # ">", print_instruction(line, pushed)
    PROVE  /\ dot' = Written(dot, get_function(list_func), ret, first,
                             line.label, line.mark = "@")
           /\ ret' = (line.mark = "@")
           /\ first' = TRUE
           /\ list_func' = IF line.mark = "@" THEN list_func
                           ELSE push_function(list_func, line.label, pushed)
  BY DEF print_instruction, format_node, Written, Source, Link, Leaf, Breaks

LEMMA PrintReturn ==
    ASSUME NEW line \in Line, NEW pushed \in BOOLEAN,
           line.mark = ">", print_instruction(line, pushed)
    PROVE  /\ dot' = dot /\ ret' = TRUE /\ first' = TRUE
           /\ list_func' = pop_function(list_func)
  BY DEF print_instruction, format_return

\* The type of everything but the program's own stack.
PrinterTypeOK ==
    /\ list_func \in Seq(Nodes)
    /\ ret \in BOOLEAN
    /\ first \in BOOLEAN
    /\ dot \in Seq(Token)

LEMMA PrintType ==
    ASSUME TypeOK, NEW line \in Line, NEW pushed \in BOOLEAN,
           print_instruction(line, pushed)
    PROVE  PrinterTypeOK'
  <1>1. line.label \in Nodes
    BY DEF Line
  <1>2. CASE line.mark = ">"
    BY <1>2, PrintReturn, StackTypes DEF TypeOK, PrinterTypeOK
  <1>3. CASE line.mark # ">"
    <2> DEFINE top == get_function(list_func)
               grey == line.mark = "@"
    <2>1. /\ top \in Nodes /\ grey \in BOOLEAN
          /\ dot \in Seq(Token) /\ ret \in BOOLEAN /\ first \in BOOLEAN
          /\ list_func \in Seq(Nodes)
      BY TopType DEF TypeOK
    <2>2. /\ dot' = Written(dot, top, ret, first, line.label, grey)
          /\ ret' = grey /\ first' = TRUE
          /\ list_func' = IF grey THEN list_func
                          ELSE push_function(list_func, line.label, pushed)
      BY <1>3, PrintNode
    <2>3. push_function(list_func, line.label, pushed) \in Seq(Nodes)
      BY <1>1, <2>1, StackTypes
    <2> HIDE DEF top, grey
    <2>4. Written(dot, top, ret, first, line.label, grey) \in Seq(Token)
      BY <1>1, <2>1, WrittenIsAppended
    <2> QED
      BY <2>1, <2>2, <2>3, <2>4 DEF PrinterTypeOK
  <1> QED
    BY <1>2, <1>3

\* Every step prints one line, prints nothing, or leaves the printer alone.
LEMMA StepPrints ==
    ASSUME [Next]_vars
    PROVE  \/ \E line \in Line, pushed \in BOOLEAN : print_instruction(line, pushed)
           \/ print_nothing /\ (first \/ "silent_start" \in Hazards)
           \/ UNCHANGED <<list_func, ret, first, dot>>
  <1>1. PushOutcomes \subseteq BOOLEAN
    BY DEF PushOutcomes
  <1>2. ASSUME NEW f \in Funcs, Call(f)
        PROVE  \E line \in Line, pushed \in BOOLEAN : print_instruction(line, pushed)
    BY <1>1, <1>2, LineTypes DEF Call
  <1>3. ASSUME NEW s \in Syscalls, Syscall(s) \/ Exec(s)
        PROVE  \E line \in Line, pushed \in BOOLEAN : print_instruction(line, pushed)
    BY <1>3, LineTypes DEF Syscall, Exec
  <1>4. ASSUME Return \/ ExtraReturn
        PROVE  \E line \in Line, pushed \in BOOLEAN : print_instruction(line, pushed)
    BY <1>4, LineTypes DEF Return, ExtraReturn
  <1>5. ASSUME UndefinedSyscall
        PROVE  \E line \in Line, pushed \in BOOLEAN : print_instruction(line, pushed)
    BY <1>1, <1>5, LineTypes DEF UndefinedSyscall
  <1>6. ASSUME NEW f \in Funcs, UnseenCall(f) \/ UnseenReturn
        PROVE  UNCHANGED <<list_func, ret, first, dot>>
    BY <1>6 DEF UnseenCall, UnseenReturn
  <1>7. UnseenReturn => UNCHANGED <<list_func, ret, first, dot>>
    BY DEF UnseenReturn
  <1>8. Silent => print_nothing /\ (first \/ "silent_start" \in Hazards)
    BY DEF Silent
  <1>9. (UNCHANGED vars) => UNCHANGED <<list_func, ret, first, dot>>
    BY DEF vars
  <1> QED
    BY <1>2, <1>3, <1>4, <1>5, <1>6, <1>7, <1>8, <1>9 DEF Next

\* No step makes the program's stack hold anything but functions.
LEMMA StepFrames ==
    ASSUME frames \in Seq(Funcs), [Next]_vars
    PROVE  frames' \in Seq(Funcs)
  <1>1. Left \in Seq(Funcs)
    BY HeadTailProperties DEF Left
  <1>2. \A f \in Funcs : Cons(f, frames) \in Seq(Funcs)
    BY StackTypes
  <1>3. ASSUME NEW f \in Funcs, Call(f) \/ UnseenCall(f)
        PROVE  frames' \in Seq(Funcs)
    BY <1>2, <1>3 DEF Call, UnseenCall
  <1>4. ASSUME NEW s \in Syscalls, Syscall(s) \/ Exec(s)
        PROVE  frames' \in Seq(Funcs)
    BY <1>4, EmptySeq DEF Syscall, Exec
  <1>5. (Return \/ UnseenReturn) => frames' \in Seq(Funcs)
    BY <1>1 DEF Return, UnseenReturn
  <1>6. (Silent \/ UndefinedSyscall \/ ExtraReturn) => frames' = frames
    BY DEF Silent, UndefinedSyscall, ExtraReturn
  <1> QED
    BY <1>3, <1>4, <1>5, <1>6 DEF Next, vars

-----------------------------------------------------------------------------
(* Types.                                                                  *)

LEMMA TypeInit == Init => TypeOK
  BY EmptySeq DEF Init, TypeOK

LEMMA TypeStep == TypeOK /\ [Next]_vars => TypeOK'
  <1> SUFFICES ASSUME TypeOK, [Next]_vars PROVE TypeOK'
    OBVIOUS
  <1>1. frames' \in Seq(Funcs)
    BY StepFrames DEF TypeOK
  <1>2. PrinterTypeOK'
    <2>1. ASSUME NEW line \in Line, NEW pushed \in BOOLEAN,
                 print_instruction(line, pushed)
          PROVE  PrinterTypeOK'
      BY <2>1, PrintType
    <2>2. print_nothing \/ UNCHANGED <<list_func, ret, first, dot>>
            => PrinterTypeOK'
      BY DEF TypeOK, PrinterTypeOK, print_nothing
    <2> QED
      BY <2>1, <2>2, StepPrints
  <1> QED
    BY <1>1, <1>2 DEF TypeOK, PrinterTypeOK

\* The statics of format_dotfile and print_instruction, the text and the
\* program's stack always have their types, whatever the hazards.
THEOREM TypeCorrect == Spec => []TypeOK
  BY TypeInit, TypeStep, PTL DEF Spec

-----------------------------------------------------------------------------
(* graph.dot is well formed.                                               *)

\* The types of what a node line is written from.
LEMMA WriteTypes ==
    ASSUME TypeOK, NEW line \in Line
    PROVE  /\ get_function(list_func) \in Nodes
           /\ line.label \in Nodes /\ (line.mark = "@") \in BOOLEAN
           /\ dot \in Seq(Token) /\ ret \in BOOLEAN /\ first \in BOOLEAN
  BY TopType DEF TypeOK, Line

LEMMA ChainInit == Init => ChainInv
  BY EmptySeq DEF Init, ChainInv, WellFormedDot, WellFormed

LEMMA ChainStep ==
    ASSUME "silent_start" \notin Hazards, TypeOK, ChainInv, [Next]_vars
    PROVE  ChainInv'
  <1>1. ASSUME NEW line \in Line, NEW pushed \in BOOLEAN,
               print_instruction(line, pushed)
        PROVE  ChainInv'
    <2>1. CASE line.mark = ">"
      <3>1. dot' = dot /\ ret' = TRUE /\ first' = TRUE
        BY <1>1, <2>1, PrintReturn
      <3> QED
        BY <3>1 DEF ChainInv, WellFormedDot
    <2>2. CASE line.mark # ">"
      <3> DEFINE top == get_function(list_func)
                 grey == line.mark = "@"
                 w == Written(dot, top, ret, first, line.label, grey)
      <3>1. /\ top \in Nodes /\ line.label \in Nodes /\ grey \in BOOLEAN
            /\ dot \in Seq(Token) /\ ret \in BOOLEAN /\ first \in BOOLEAN
        BY WriteTypes
      <3>2. dot' = w /\ ret' = grey /\ first' = TRUE
        BY <1>1, <2>2, PrintNode
      <3> HIDE DEF top, grey
      <3>3. WellFormed(w)
        BY <3>1, WrittenWellFormed DEF ChainInv, WellFormedDot
      <3>4. w # <<>> /\ Last(w) = IF grey THEN Grey(line.label) ELSE Node(line.label)
        BY <3>1, WrittenLast
      <3> HIDE DEF w
      <3> QED
        BY <3>1, <3>2, <3>3, <3>4 DEF ChainInv, WellFormedDot, Node, Grey
    <2> QED
      BY <2>1, <2>2
  <1>2. print_nothing /\ first => ChainInv'
    BY DEF ChainInv, WellFormedDot, print_nothing
  <1>3. (UNCHANGED <<list_func, ret, first, dot>>) => ChainInv'
    BY DEF ChainInv, WellFormedDot
  <1> QED
    BY <1>1, <1>2, <1>3, StepPrints

\* Unless the first recognised instruction prints nothing, graph.dot can
\* always be read back, whatever the program does and whatever fails.
THEOREM DotWellFormed ==
    ASSUME "silent_start" \notin Hazards
    PROVE  Spec => []WellFormedDot
  <1>1. Init => TypeOK /\ ChainInv
    BY TypeInit, ChainInit
  <1>2. TypeOK /\ ChainInv /\ [Next]_vars => (TypeOK /\ ChainInv)'
    BY TypeStep, ChainStep
  <1>3. TypeOK /\ ChainInv => WellFormedDot
    BY DEF ChainInv
  <1> QED
    BY <1>1, <1>2, <1>3, PTL DEF Spec

-----------------------------------------------------------------------------
(* Only the first arrow of graph.dot may dangle.                           *)

\* A text in front and a token behind do not disturb each other.
LEMMA PrefixAppend ==
    ASSUME NEW S, NEW d \in Seq(S), NEW p \in Seq(S), NEW y \in S
    PROVE  p \o Append(d, y) = Append(p \o d, y)
  <1>1. <<y>> \in Seq(S) /\ p \o d \in Seq(S)
    BY ConcatProperties
  <1>2. Append(d, y) = d \o <<y>> /\ Append(p \o d, y) = (p \o d) \o <<y>>
    BY <1>1, AppendIsConcat
  <1>3. p \o (d \o <<y>>) = (p \o d) \o <<y>>
    BY <1>1, ConcatAssociative
  <1> QED
    BY <1>2, <1>3

\* A text with another in front of it.
Prefixed(p, d) == p \o d

\* What is written does not depend on how the text begins.
LEMMA PrefixWritten ==
    ASSUME NEW d \in Seq(Token), NEW p \in Seq(Token), NEW c \in Nodes,
           NEW l \in Nodes, NEW r \in BOOLEAN, NEW f \in BOOLEAN,
           NEW g \in BOOLEAN
    PROVE  Prefixed(p, Written(d, c, r, f, l, g))
             = Written(Prefixed(p, d), c, r, f, l, g)
  <1> DEFINE e == p \o d
             w1 == Sourced(d, c, r)
             w2 == Linked(w1, f)
             w3 == Append(w2, Node(l))
             v1 == Sourced(e, c, r)
             v2 == Linked(v1, f)
             v3 == Append(v2, Node(l))
  <1>0. /\ Node(c) \in Token /\ Node(l) \in Token /\ Grey(l) \in Token
        /\ Arrow \in Token /\ Newline \in Token
    BY TokenType
  <1>1. e \in Seq(Token)
    BY ConcatProperties
  <1>2. w1 \in Seq(Token) /\ w2 \in Seq(Token)
    BY WrittenIsAppended
  <1>3. p \o w1 = v1
    <2>1. Append(d, Newline) \in Seq(Token)
      BY <1>0, LastAppend
    <2>2. p \o Append(d, Newline) = Append(e, Newline)
      BY <1>0, PrefixAppend
    <2>3. p \o Append(Append(d, Newline), Node(c))
            = Append(p \o Append(d, Newline), Node(c))
      BY <1>0, <2>1, PrefixAppend
    <2> QED
      BY <2>2, <2>3 DEF Sourced
  <1>4. p \o w2 = v2
    <2> HIDE DEF w1, v1
    <2>1. p \o Append(w1, Arrow) = Append(p \o w1, Arrow)
      BY <1>0, <1>2, PrefixAppend
    <2> QED
      BY <1>3, <2>1 DEF Linked
  <1>5. w3 \in Seq(Token) /\ p \o w3 = v3
    <2> HIDE DEF w2, v2
    <2>1. w3 \in Seq(Token)
      BY <1>0, <1>2, LastAppend
    <2>2. p \o Append(w2, Node(l)) = Append(p \o w2, Node(l))
      BY <1>0, <1>2, PrefixAppend
    <2> QED
      BY <1>4, <2>1, <2>2
  <1>6. p \o Leafed(w3, l, g) = Leafed(v3, l, g)
    <2> HIDE DEF w3, v3
    <2>1. p \o Append(w3, Grey(l)) = Append(p \o w3, Grey(l))
      BY <1>0, <1>5, PrefixAppend
    <2> QED
      BY <1>5, <2>1 DEF Leafed
  <1>7. /\ Written(d, c, r, f, l, g) = Leafed(w3, l, g)
        /\ Written(e, c, r, f, l, g) = Leafed(v3, l, g)
    <2>1. Written(d, c, r, f, l, g) = Leafed(w3, l, g)
      BY WrittenIsAppended
    <2> HIDE DEF e
    <2>2. Written(e, c, r, f, l, g) = Leafed(v3, l, g)
      BY <1>1, WrittenIsAppended
    <2> QED
      BY <2>1, <2>2
  <1> QED
    BY <1>6, <1>7 DEF Prefixed

\* The unknown caller is a token to put in front.
LEMMA UnkType == Node(Unk) \in Token /\ <<Node(Unk)>> \in Seq(Token)
  <1>1. Unk \in Nodes
    BY DEF Nodes
  <1> QED
    BY <1>1, TokenType

LEMMA DanglingInit == Init => DanglingInv
  <1> SUFFICES ASSUME Init PROVE DanglingInv
    OBVIOUS
  <1>1. <<Node(Unk)>> \o dot = <<Node(Unk)>>
    BY UnkType, ConcatEmptySeq DEF Init
  <1>2. WellFormed(<<Node(Unk)>>)
    BY DEF WellFormed, Node
  <1> QED
    BY <1>1, <1>2 DEF Init, DanglingInv, OnlyFirstArrowDangles

LEMMA DanglingStep ==
    ASSUME TypeOK, DanglingInv, [Next]_vars
    PROVE  DanglingInv'
  <1> DEFINE D == <<Node(Unk)>> \o dot
  <1>1. ASSUME NEW line \in Line, NEW pushed \in BOOLEAN,
               print_instruction(line, pushed)
        PROVE  DanglingInv'
    <2>1. CASE line.mark = ">"
      <3>1. dot' = dot /\ ret' = TRUE /\ first' = TRUE
        BY <1>1, <2>1, PrintReturn
      <3> QED
        BY <3>1 DEF DanglingInv, OnlyFirstArrowDangles
    <2>2. CASE line.mark # ">"
      <3> DEFINE top == get_function(list_func)
                 grey == line.mark = "@"
                 w == Written(D, top, ret, first, line.label, grey)
      <3>1. /\ top \in Nodes /\ line.label \in Nodes /\ grey \in BOOLEAN
            /\ dot \in Seq(Token) /\ ret \in BOOLEAN /\ first \in BOOLEAN
        BY WriteTypes
      <3>2. /\ dot' = Written(dot, top, ret, first, line.label, grey)
            /\ ret' = grey /\ first' = TRUE
        BY <1>1, <2>2, PrintNode
      <3> HIDE DEF top, grey
      <3>3. <<Node(Unk)>> \o dot' = w
        <4> DEFINE p == <<Node(Unk)>>
                   l == line.label
        <4>0. p \in Seq(Token) /\ l \in Nodes
          BY <3>1, UnkType
        <4> HIDE DEF p, l
        <4>1. Prefixed(p, Written(dot, top, ret, first, l, grey))
                = Written(Prefixed(p, dot), top, ret, first, l, grey)
          BY <3>1, <4>0, PrefixWritten
        <4>2. p \o Written(dot, top, ret, first, l, grey)
                = Written(p \o dot, top, ret, first, l, grey)
          BY <4>1 DEF Prefixed
        <4> USE DEF p, l
        <4> QED
          BY <3>2, <4>2
      <3>4. /\ D \in Seq(Token) /\ D # <<>>
            /\ WellFormed(D)
            /\ first /\ ~ret => Last(D).tok = "node"
        <4>1. D \in Seq(Token) /\ Len(D) = 1 + Len(dot) /\ Len(dot) \in Nat
          BY <3>1, UnkType, ConcatProperties, LenProperties
        <4>2. D # <<>>
          BY <4>1
        <4> QED
          BY <4>1, <4>2 DEF DanglingInv, OnlyFirstArrowDangles
      <3> HIDE DEF D
      <3>5. WellFormed(w)
        BY <3>1, <3>4, WrittenWellFormed
      <3>6. Last(w) = IF grey THEN Grey(line.label) ELSE Node(line.label)
        BY <3>1, <3>4, WrittenLast
      <3> HIDE DEF w
      <3>7. ~grey => Last(w).tok = "node"
        BY <3>6 DEF Node
      <3> QED
        BY <3>2, <3>3, <3>5, <3>7 DEF DanglingInv, OnlyFirstArrowDangles
    <2> QED
      BY <2>1, <2>2
  <1>2. print_nothing => DanglingInv'
    <2> SUFFICES ASSUME print_nothing PROVE DanglingInv'
      OBVIOUS
    <2>1. dot' = dot /\ ret' = ret /\ first' = TRUE
      BY DEF print_nothing
    <2>2. ~first => Last(D).tok = "node"
      <3> SUFFICES ASSUME ~first PROVE Last(D).tok = "node"
        OBVIOUS
      <3>1. D = <<Node(Unk)>>
        BY UnkType, ConcatEmptySeq DEF DanglingInv
      <3> QED
        BY <3>1 DEF Last, Node
    <2> QED
      BY <2>1, <2>2 DEF DanglingInv, OnlyFirstArrowDangles
  <1>3. (UNCHANGED <<list_func, ret, first, dot>>) => DanglingInv'
    BY DEF DanglingInv, OnlyFirstArrowDangles
  <1> QED
    BY <1>1, <1>2, <1>3, StepPrints

\* Whatever the program does, however it starts and whatever fails, the only
\* arrow of graph.dot that can lack a node is the one that begins the text.
THEOREM OneArrowDangles == Spec => []OnlyFirstArrowDangles
  <1>1. Init => TypeOK /\ DanglingInv
    BY TypeInit, DanglingInit
  <1>2. TypeOK /\ DanglingInv /\ [Next]_vars => (TypeOK /\ DanglingInv)'
    BY TypeStep, DanglingStep
  <1>3. TypeOK /\ DanglingInv => OnlyFirstArrowDangles
    BY DEF DanglingInv
  <1> QED
    BY <1>1, <1>2, <1>3, PTL DEF Spec

-----------------------------------------------------------------------------
(* Where nothing goes unseen, graph.dot is the call tree.                  *)

LEMMA LabelledType ==
    ASSUME NEW fs \in Seq(Funcs)
    PROVE  /\ Labelled(fs) \in Seq(Nodes)
           /\ Len(Labelled(fs)) = Len(fs)
           /\ \A i \in 1..Len(fs) : Labelled(fs)[i] = Label(fs[i])
           /\ fs = <<>> <=> Labelled(fs) = <<>>
  <1>1. Len(fs) \in Nat /\ \A i \in 1..Len(fs) : Label(fs[i]) \in Nodes
    BY LabelType, LenProperties
  <1>2. /\ Labelled(fs) \in Seq(Nodes)
        /\ Len(Labelled(fs)) = Len(fs)
        /\ \A i \in 1..Len(fs) : Labelled(fs)[i] = Label(fs[i])
    BY <1>1 DEF Labelled
  <1> QED
    BY <1>1, <1>2, EmptySeq

LEMMA LabelledCons ==
    ASSUME NEW fs \in Seq(Funcs), NEW f \in Funcs
    PROVE  Labelled(Cons(f, fs)) = Cons(Label(f), Labelled(fs))
  <1> DEFINE a == Cons(f, fs)
             b == Cons(Label(f), Labelled(fs))
  <1>1. /\ <<f>> \in Seq(Funcs) /\ Len(<<f>>) = 1 /\ <<f>>[1] = f
        /\ Len(fs) \in Nat
    BY LenProperties
  <1>2. /\ a \in Seq(Funcs) /\ Len(a) = 1 + Len(fs)
        /\ \A i \in 1..(1 + Len(fs)) : a[i] = IF i <= 1 THEN f ELSE fs[i - 1]
    BY <1>1, ConcatProperties DEF Cons
  <1>3. /\ Labelled(fs) \in Seq(Nodes) /\ Len(Labelled(fs)) = Len(fs)
        /\ \A i \in 1..Len(fs) : Labelled(fs)[i] = Label(fs[i])
    BY LabelledType
  <1>4. Label(f) \in Nodes
    BY LabelType
  <1>5. /\ <<Label(f)>> \in Seq(Nodes) /\ Len(<<Label(f)>>) = 1
        /\ <<Label(f)>>[1] = Label(f)
    BY <1>4
  <1>6. /\ b \in Seq(Nodes) /\ Len(b) = 1 + Len(fs)
        /\ \A i \in 1..(1 + Len(fs)) : b[i] =
              IF i <= 1 THEN Label(f) ELSE Labelled(fs)[i - 1]
    BY <1>3, <1>5, ConcatProperties DEF Cons
  <1> HIDE DEF a, b
  <1>7. /\ Labelled(a) \in Seq(Nodes) /\ Len(Labelled(a)) = Len(a)
        /\ \A i \in 1..Len(a) : Labelled(a)[i] = Label(a[i])
    BY <1>2, LabelledType
  <1>8. \A i \in 1..Len(a) : Labelled(a)[i] = b[i]
    <2> TAKE i \in 1..Len(a)
    <2>1. CASE i = 1
      BY <1>1, <1>2, <1>6, <1>7, <2>1
    <2>2. CASE i # 1
      <3>1. i - 1 \in 1..Len(fs) /\ ~(i <= 1)
        BY <1>1, <1>2, <2>2
      <3>2. a[i] = fs[i - 1] /\ b[i] = Labelled(fs)[i - 1]
        BY <1>1, <1>2, <1>6, <3>1
      <3> QED
        BY <1>3, <1>7, <3>1, <3>2
    <2> QED
      BY <2>1, <2>2
  <1>9. Labelled(a) = b
    BY <1>2, <1>6, <1>7, <1>8, SeqEqual
  <1> QED
    BY <1>9 DEF a, b

LEMMA LabelledTail ==
    ASSUME NEW fs \in Seq(Funcs), fs # <<>>
    PROVE  Labelled(Tail(fs)) = Tail(Labelled(fs))
  <1>1. /\ Tail(fs) \in Seq(Funcs) /\ Len(Tail(fs)) = Len(fs) - 1
        /\ \A i \in 1..Len(Tail(fs)) : Tail(fs)[i] = fs[i + 1]
        /\ Len(fs) \in Nat /\ Len(fs) > 0
    BY HeadTailProperties, LenProperties, EmptySeq
  <1>2. /\ Labelled(fs) \in Seq(Nodes) /\ Len(Labelled(fs)) = Len(fs)
        /\ \A i \in 1..Len(fs) : Labelled(fs)[i] = Label(fs[i])
        /\ Labelled(fs) # <<>>
    BY LabelledType
  <1>3. /\ Tail(Labelled(fs)) \in Seq(Nodes)
        /\ Len(Tail(Labelled(fs))) = Len(fs) - 1
        /\ \A i \in 1..(Len(fs) - 1) : Tail(Labelled(fs))[i] = Labelled(fs)[i + 1]
    BY <1>2, HeadTailProperties
  <1>4. /\ Labelled(Tail(fs)) \in Seq(Nodes)
        /\ Len(Labelled(Tail(fs))) = Len(fs) - 1
        /\ \A i \in 1..(Len(fs) - 1) : Labelled(Tail(fs))[i] = Label(Tail(fs)[i])
    BY <1>1, LabelledType
  <1>5. \A i \in 1..(Len(fs) - 1) : Labelled(Tail(fs))[i] = Tail(Labelled(fs))[i]
    BY <1>1, <1>2, <1>3, <1>4
  <1> QED
    BY <1>3, <1>4, <1>5, SeqEqual

\* A return pops the label of the frame it leaves.
LEMMA LabelledLeft ==
    ASSUME frames \in Seq(Funcs)
    PROVE  Labelled(Left) = pop_function(Labelled(frames))
  BY LabelledType, LabelledTail DEF Left, pop_function

\* The edge of a node line is the one the call tree adds.
LEMMA WrittenIsLinked ==
    ASSUME TypeOK, ChainInv, TreeInv, NEW l \in Nodes, NEW g \in BOOLEAN
    PROVE  Edges(Written(dot, get_function(list_func), ret, first, l, g))
              = Tree!Linked(l)
  <1> DEFINE top == get_function(list_func)
  <1>1. /\ top \in Nodes /\ dot \in Seq(Token) /\ ret \in BOOLEAN
        /\ first \in BOOLEAN
    BY TopType DEF TypeOK
  <1>2. top = Tree!Caller
    BY DEF TreeInv, get_function, Tree!Caller
  <1> HIDE DEF top
  <1>3. Edges(Written(dot, top, ret, first, l, g)) =
          Edges(dot) \union
            (IF first /\ ret THEN {<<top, l>>}
             ELSE IF first /\ dot # <<>> /\ Last(dot).tok = "node"
             THEN {<<Last(dot).label, l>>} ELSE {})
    BY <1>1, WrittenEdges DEF ChainInv
  <1>4. first /\ ~ret => Last(dot).label = top
    BY DEF TreeInv, top, get_function
  <1>5. Edges(Written(dot, top, ret, first, l, g)) =
          IF first THEN Edges(dot) \union {<<top, l>>} ELSE Edges(dot)
    BY <1>1, <1>3, <1>4 DEF ChainInv
  <1> QED
    BY <1>2, <1>5 DEF Tree!Linked, top

\* One more line draws the edge from the function on top of the stack, and
\* keeps the stack; the first line has nothing to be linked to, even behind
\* instructions that print nothing.
LEMMA NodeDraws ==
    ASSUME TypeOK, DrawInv, NEW line \in Line, line.mark # ">",
           print_instruction(line, TRUE)
    PROVE  /\ DrawInv' /\ first' = TRUE /\ dot' # <<>>
           /\ list_func' = IF line.mark = "@" THEN list_func
                           ELSE Cons(line.label, list_func)
           /\ Edges(dot') =
                IF dot # <<>> \/ ret
                THEN Edges(dot) \union {<<get_function(list_func), line.label>>}
                ELSE Edges(dot)
  <1> DEFINE l == line.label
             top == get_function(list_func)
             g == line.mark = "@"
             w == Written(dot, top, ret, first, l, g)
  <1>1. /\ l \in Nodes /\ top \in Nodes /\ dot \in Seq(Token)
        /\ ret \in BOOLEAN /\ first \in BOOLEAN /\ g \in BOOLEAN
        /\ list_func \in Seq(Nodes)
    BY WriteTypes DEF TypeOK
  <1>2. /\ dot' = w /\ ret' = g /\ first' = TRUE
        /\ list_func' = IF g THEN list_func ELSE Cons(l, list_func)
    BY PrintNode DEF push_function
  <1>3. /\ ~ret /\ dot # <<>> => Last(dot) = Node(top)
        /\ dot # <<>> \/ ret => first
    BY DEF DrawInv, get_function
  <1> HIDE DEF top, g
  <1>4. Edges(w) =
          Edges(dot) \union
            (IF first /\ ret THEN {<<top, l>>}
             ELSE IF first /\ dot # <<>> /\ Last(dot).tok = "node"
             THEN {<<Last(dot).label, l>>} ELSE {})
    BY <1>1, WrittenEdges DEF DrawInv
  <1>5. Edges(w) = IF dot # <<>> \/ ret THEN Edges(dot) \union {<<top, l>>}
                   ELSE Edges(dot)
    BY <1>1, <1>3, <1>4 DEF Node
  <1>6. w # <<>> /\ Last(w) = IF g THEN Grey(l) ELSE Node(l)
    BY <1>1, WrittenLast
  <1> HIDE DEF w
  <1>7. ~g => list_func' # <<>> /\ Head(list_func') = l
    BY <1>1, <1>2, StackTypes
  <1>8. DrawInv'
    BY <1>2, <1>6, <1>7 DEF DrawInv, Grey, Node
  <1> QED
    BY <1>2, <1>5, <1>6, <1>8 DEF top, g

\* A return takes its function off the stack and draws nothing.
LEMMA ReturnDraws ==
    ASSUME DrawInv, NEW line \in Line, line.mark = ">",
           print_instruction(line, TRUE)
    PROVE  /\ DrawInv' /\ first' = TRUE /\ dot' = dot /\ ret' = TRUE
           /\ list_func' = pop_function(list_func)
  BY PrintReturn DEF DrawInv

LEMMA TreeInit == Init => TreeInv /\ Tree!Init
  <1> SUFFICES ASSUME Init PROVE TreeInv /\ Tree!Init
    OBVIOUS
  <1>1. Labelled(<<>>) = <<>> /\ <<>> \in Seq(Funcs)
    BY LabelledType, EmptySeq
  <1>2. Edges(<<>>) = {} /\ Greys(<<>>) = {}
    BY EmptySeq DEF Edges, Greys
  <1> QED
    BY <1>1, <1>2 DEF Init, TreeInv, Tree!Init

\* A call is the call tree's, a return too, and so is a system call.
LEMMA CallRefines ==
    ASSUME TypeOK, ChainInv, TreeInv, Hazards = {}, NEW f \in Funcs, Call(f)
    PROVE  TreeInv' /\ Tree!Enter(Label(f))
  <1> DEFINE l == Label(f)
             top == get_function(list_func)
             grey == CallLine(f).mark = "@"
             w == Written(dot, top, ret, first, l, grey)
  <1>1. /\ l \in Nodes /\ top \in Nodes /\ dot \in Seq(Token)
        /\ ret \in BOOLEAN /\ first \in BOOLEAN /\ frames \in Seq(Funcs)
        /\ list_func \in Seq(Nodes)
    BY LabelType, TopType DEF TypeOK
  <1>0. grey \in BOOLEAN
    OBVIOUS
  <1>2. print_instruction(CallLine(f), TRUE) /\ frames' = Cons(f, frames)
    BY DEF Call, PushOutcomes
  <1>3. /\ CallLine(f) \in Line /\ CallLine(f).mark = "call"
        /\ CallLine(f).label = l
    BY LineTypes
  <1>4. /\ dot' = w /\ ret' = FALSE /\ first' = TRUE
        /\ list_func' = Cons(l, list_func)
        /\ ~grey
    BY <1>2, <1>3, PrintNode DEF push_function
  <1>5. /\ Edges(w) = Tree!Linked(l)
        /\ Greys(w) = Greys(dot)
        /\ Last(w) = Node(l)
    <2>1. Edges(w) = Tree!Linked(l)
      BY <1>0, <1>1, WrittenIsLinked
    <2> HIDE DEF top, l, grey
    <2>2. Greys(w) = Greys(dot) \union (IF grey THEN {l} ELSE {})
      BY <1>0, <1>1, WrittenGreys
    <2>3. Last(w) = IF grey THEN Grey(l) ELSE Node(l)
      BY <1>0, <1>1, WrittenLast
    <2> QED
      BY <1>4, <2>1, <2>2, <2>3
  <1> HIDE DEF w, top, l
  <1>6. list_func' = Labelled(frames') /\ list_func' = Cons(l, Labelled(frames))
    BY <1>1, <1>2, <1>4, LabelledCons DEF TreeInv, l
  <1>7. list_func' # <<>> /\ Head(list_func') = l
    BY <1>1, <1>4, StackTypes
  <1>8. Last(dot').label = l
    BY <1>4, <1>5 DEF Node
  <1>9. TreeInv'
    BY <1>6, <1>7, <1>8 DEF TreeInv
  <1>10. Tree!Enter(l)
    BY <1>4, <1>5, <1>6 DEF Tree!Enter, Cons
  <1> QED
    BY <1>9, <1>10 DEF l

LEMMA SyscallRefines ==
    ASSUME TypeOK, ChainInv, TreeInv, NEW s \in Syscalls, Syscall(s)
    PROVE  TreeInv' /\ Tree!SystemCall(s)
  <1> DEFINE top == get_function(list_func)
             grey == SyscallLine(s).mark = "@"
             w == Written(dot, top, ret, first, s, grey)
  <1>1. /\ s \in Nodes /\ top \in Nodes /\ dot \in Seq(Token)
        /\ ret \in BOOLEAN /\ first \in BOOLEAN
    BY TopType DEF TypeOK, Nodes
  <1>0. grey \in BOOLEAN
    OBVIOUS
  <1>2. print_instruction(SyscallLine(s), TRUE) /\ frames' = frames
    BY DEF Syscall
  <1>3. /\ SyscallLine(s) \in Line /\ SyscallLine(s).mark = "@"
        /\ SyscallLine(s).label = s
    BY LineTypes
  <1>4. /\ dot' = w /\ ret' = TRUE /\ first' = TRUE /\ list_func' = list_func
        /\ grey
    BY <1>2, <1>3, PrintNode
  <1>5. Edges(w) = Tree!Linked(s) /\ Greys(w) = Greys(dot) \union {s}
    <2>1. Edges(w) = Tree!Linked(s)
      BY <1>0, <1>1, WrittenIsLinked
    <2> HIDE DEF top, grey
    <2>2. Greys(w) = Greys(dot) \union (IF grey THEN {s} ELSE {})
      BY <1>0, <1>1, WrittenGreys
    <2> QED
      BY <1>4, <2>1, <2>2
  <1> HIDE DEF w, top
  <1>6. TreeInv'
    BY <1>2, <1>4 DEF TreeInv
  <1>7. Tree!SystemCall(s)
    BY <1>2, <1>4, <1>5 DEF Tree!SystemCall
  <1> QED
    BY <1>6, <1>7

LEMMA ReturnRefines ==
    ASSUME TypeOK, TreeInv, Return
    PROVE  TreeInv' /\ Tree!Leave
  <1>1. /\ dot' = dot /\ ret' = TRUE /\ first' = TRUE
        /\ list_func' = pop_function(list_func) /\ frames' = Left
    BY LineTypes, PrintReturn DEF Return
  <1>2. Labelled(frames') = pop_function(Labelled(frames))
    BY <1>1, LabelledLeft DEF TypeOK
  <1>3. TreeInv'
    BY <1>1, <1>2 DEF TreeInv
  <1>4. Tree!Leave
    BY <1>1, <1>2 DEF Tree!Leave, pop_function
  <1> QED
    BY <1>3, <1>4

LEMMA TreeStep ==
    ASSUME TypeOK, ChainInv, TreeInv, Hazards = {}, [Next]_vars
    PROVE  TreeInv' /\ [Tree!Next]_(Tree!vars)
  <1>1. ASSUME NEW f \in Funcs, Call(f)
        PROVE  TreeInv' /\ Tree!Next
    BY <1>1, CallRefines, LabelType DEF Tree!Next
  <1>2. ASSUME NEW s \in Syscalls, Syscall(s)
        PROVE  TreeInv' /\ Tree!Next
    BY <1>2, SyscallRefines DEF Tree!Next, Nodes
  <1>3. Return => TreeInv' /\ Tree!Next
    BY ReturnRefines DEF Tree!Next
  <1>4. (Silent \/ UNCHANGED vars) => TreeInv' /\ UNCHANGED Tree!vars
    <2>1. Silent => first /\ first' /\ UNCHANGED <<list_func, ret, dot, frames>>
      BY DEF Silent, print_nothing, TypeOK
    <2>2. Silent => UNCHANGED vars
      BY <2>1 DEF vars, TypeOK, Silent, print_nothing
    <2>3. (UNCHANGED vars) => TreeInv' /\ UNCHANGED Tree!vars
      BY DEF vars, TreeInv, Tree!vars, Labelled
    <2> QED
      BY <2>2, <2>3
  <1>5. /\ \A f \in Funcs : ~UnseenCall(f)
        /\ \A s \in Syscalls : ~Exec(s)
        /\ ~UnseenReturn /\ ~UndefinedSyscall /\ ~ExtraReturn
    BY DEF UnseenCall, Exec, UnseenReturn, UndefinedSyscall, ExtraReturn
  <1> QED
    BY <1>1, <1>2, <1>3, <1>4, <1>5 DEF Next

\* Where nothing goes unseen, what format_dotfile writes, returns to and
\* breaks is exactly the program's call tree: the step that proves
\* RefinesCallTree for every set of functions and every run.
THEOREM GraphIsCallTree ==
    ASSUME Hazards = {}
    PROVE  Spec => RefinesCallTree
  <1>1. Init => TypeOK /\ ChainInv /\ TreeInv /\ Tree!Init
    BY TypeInit, ChainInit, TreeInit
  <1>2. TypeOK /\ ChainInv /\ TreeInv /\ [Next]_vars
          => (TypeOK /\ ChainInv /\ TreeInv)' /\ [Tree!Next]_(Tree!vars)
    BY TypeStep, ChainStep, TreeStep
  <1> QED
    BY <1>1, <1>2, PTL DEF Spec, RefinesCallTree, Tree!Spec

-----------------------------------------------------------------------------
(* What survives lost calls, lost labels and returns used as jumps.        *)

LEMMA SubsequenceEmpty ==
    ASSUME NEW S, NEW t \in Seq(S)
    PROVE  IsSubsequence(<<>>, t)
  <1> DEFINE m == [i \in 1..0 |-> 1]
  <1>1. Len(<<>>) = 0
    BY EmptySeq
  <1>2. m \in [1..0 -> 1..Len(t)] /\ \A i \in 1..0 : FALSE
    OBVIOUS
  <1> HIDE DEF m
  <1> QED
    BY <1>1, <1>2, Zenon DEF IsSubsequence

LEMMA ConsProperties ==
    ASSUME NEW S, NEW s \in Seq(S), NEW x \in S
    PROVE  /\ Cons(x, s) \in Seq(S)
           /\ Len(Cons(x, s)) = 1 + Len(s)
           /\ Cons(x, s)[1] = x
           /\ \A i \in 1..Len(s) : Cons(x, s)[i + 1] = s[i]
  <1>1. /\ <<x>> \in Seq(S) /\ Len(<<x>>) = 1 /\ <<x>>[1] = x
        /\ Len(s) \in Nat
    BY LenProperties
  <1>2. /\ Cons(x, s) \in Seq(S) /\ Len(Cons(x, s)) = 1 + Len(s)
        /\ \A i \in 1..(1 + Len(s)) : Cons(x, s)[i] = IF i <= 1 THEN x ELSE s[i - 1]
    BY <1>1, ConcatProperties DEF Cons
  <1> QED
    BY <1>1, <1>2

\* A call seen and pushed.
LEMMA SubsequenceCons ==
    ASSUME NEW S, NEW s \in Seq(S), NEW t \in Seq(S), NEW x \in S,
           IsSubsequence(s, t)
    PROVE  IsSubsequence(Cons(x, s), Cons(x, t))
  <1>1. PICK m \in [1..Len(s) -> 1..Len(t)] :
           /\ \A i, j \in 1..Len(s) : i < j => m[i] < m[j]
           /\ \A i \in 1..Len(s) : s[i] = t[m[i]]
    BY DEF IsSubsequence
  <1> DEFINE n == Len(s)
             k == Len(t)
             p == Cons(x, s)
             q == Cons(x, t)
             h == [i \in 1..(n + 1) |-> IF i = 1 THEN 1 ELSE m[i - 1] + 1]
  <1>2. n \in Nat /\ k \in Nat
    BY LenProperties
  <1>3. /\ Len(p) = n + 1 /\ p[1] = x /\ \A i \in 1..n : p[i + 1] = s[i]
        /\ Len(q) = k + 1 /\ q[1] = x /\ \A i \in 1..k : q[i + 1] = t[i]
    <2>1. Len(p) = n + 1 /\ p[1] = x /\ \A i \in 1..n : p[i + 1] = s[i]
      BY <1>2, ConsProperties
    <2>2. Len(q) = k + 1 /\ q[1] = x /\ \A i \in 1..k : q[i + 1] = t[i]
      BY <1>2, ConsProperties
    <2> QED
      BY <2>1, <2>2
  <1> HIDE DEF p, q
  <1>4. h \in [1..(n + 1) -> 1..(k + 1)]
    BY <1>1, <1>2
  <1>5. \A i, j \in 1..(n + 1) : i < j => h[i] < h[j]
    <2> TAKE i, j \in 1..(n + 1)
    <2>1. CASE i = 1
      <3>1. j # 1 => j - 1 \in 1..n /\ m[j - 1] \in 1..k
        BY <1>1, <1>2
      <3> QED
        BY <1>2, <2>1, <3>1
    <2>2. CASE i # 1
      <3>1. i < j => i - 1 \in 1..n /\ j - 1 \in 1..n /\ i - 1 < j - 1
        BY <1>2, <2>2
      <3>2. i < j => m[i - 1] < m[j - 1] /\ m[i - 1] \in 1..k /\ m[j - 1] \in 1..k
        BY <1>1, <3>1
      <3> QED
        BY <1>2, <2>2, <3>1, <3>2
    <2> QED
      BY <2>1, <2>2
  <1>6. \A i \in 1..(n + 1) : p[i] = q[h[i]]
    <2> TAKE i \in 1..(n + 1)
    <2>1. CASE i = 1
      BY <1>2, <1>3, <2>1
    <2>2. CASE i # 1
      <3>1. i - 1 \in 1..n /\ (i - 1) + 1 = i /\ h[i] = m[i - 1] + 1
        BY <1>2, <2>2
      <3>2. m[i - 1] \in 1..k /\ s[i - 1] = t[m[i - 1]]
        BY <1>1, <3>1
      <3>3. p[i] = s[i - 1]
        BY <1>3, <3>1
      <3>4. q[m[i - 1] + 1] = t[m[i - 1]]
        BY <1>3, <3>2
      <3> QED
        BY <3>1, <3>2, <3>3, <3>4
    <2> QED
      BY <2>1, <2>2
  <1> HIDE DEF h
  <1>7. IsSubsequence(p, q)
    BY <1>3, <1>4, <1>5, <1>6 DEF IsSubsequence
  <1> QED
    BY <1>7 DEF p, q

\* A call that was not seen, or not pushed.
LEMMA SubsequenceSkip ==
    ASSUME NEW S, NEW s \in Seq(S), NEW t \in Seq(S), NEW x \in S,
           IsSubsequence(s, t)
    PROVE  IsSubsequence(s, Cons(x, t))
  <1>1. PICK m \in [1..Len(s) -> 1..Len(t)] :
           /\ \A i, j \in 1..Len(s) : i < j => m[i] < m[j]
           /\ \A i \in 1..Len(s) : s[i] = t[m[i]]
    BY DEF IsSubsequence
  <1> DEFINE n == Len(s)
             k == Len(t)
             q == Cons(x, t)
             h == [i \in 1..n |-> m[i] + 1]
  <1>2. n \in Nat /\ k \in Nat
    BY LenProperties
  <1>3. Len(q) = k + 1 /\ \A i \in 1..k : q[i + 1] = t[i]
    BY <1>2, ConsProperties
  <1> HIDE DEF q
  <1>4. h \in [1..n -> 1..(k + 1)]
    BY <1>1, <1>2
  <1>5. \A i, j \in 1..n : i < j => h[i] < h[j]
    <2> TAKE i, j \in 1..n
    <2>1. m[i] \in 1..k /\ m[j] \in 1..k /\ (i < j => m[i] < m[j])
      BY <1>1
    <2> QED
      BY <1>2, <2>1
  <1>6. \A i \in 1..n : s[i] = q[h[i]]
    BY <1>1, <1>2, <1>3
  <1> HIDE DEF h
  <1>7. IsSubsequence(s, q)
    BY <1>3, <1>4, <1>5, <1>6 DEF IsSubsequence
  <1> QED
    BY <1>7 DEF q

\* A return that leaves no frame.
LEMMA SubsequencePop ==
    ASSUME NEW S, NEW s \in Seq(S), NEW t \in Seq(S), s # <<>>,
           IsSubsequence(s, t)
    PROVE  IsSubsequence(Tail(s), t)
  <1>1. PICK m \in [1..Len(s) -> 1..Len(t)] :
           /\ \A i, j \in 1..Len(s) : i < j => m[i] < m[j]
           /\ \A i \in 1..Len(s) : s[i] = t[m[i]]
    BY DEF IsSubsequence
  <1> DEFINE n == Len(s)
             k == Len(t)
             p == Tail(s)
             h == [i \in 1..(n - 1) |-> m[i + 1]]
  <1>2. n \in Nat /\ n > 0 /\ k \in Nat
    BY LenProperties, EmptySeq
  <1>3. Len(p) = n - 1 /\ \A i \in 1..(n - 1) : p[i] = s[i + 1]
    BY <1>2, HeadTailProperties
  <1> HIDE DEF p
  <1>4. h \in [1..(n - 1) -> 1..k]
    BY <1>1, <1>2
  <1>5. \A i, j \in 1..(n - 1) : i < j => h[i] < h[j]
    BY <1>1, <1>2
  <1>6. \A i \in 1..(n - 1) : p[i] = t[h[i]]
    BY <1>1, <1>2, <1>3
  <1> HIDE DEF h
  <1>7. IsSubsequence(p, t)
    BY <1>3, <1>4, <1>5, <1>6 DEF IsSubsequence
  <1> QED
    BY <1>7 DEF p

\* A return that leaves one, remembered or not.
LEMMA SubsequenceLeave ==
    ASSUME NEW S, NEW s \in Seq(S), NEW t \in Seq(S), s # <<>>, t # <<>>,
           IsSubsequence(s, t)
    PROVE  IsSubsequence(Tail(s), Tail(t))
  <1>1. PICK m \in [1..Len(s) -> 1..Len(t)] :
           /\ \A i, j \in 1..Len(s) : i < j => m[i] < m[j]
           /\ \A i \in 1..Len(s) : s[i] = t[m[i]]
    BY DEF IsSubsequence
  <1> DEFINE n == Len(s)
             k == Len(t)
             p == Tail(s)
             q == Tail(t)
             h == [i \in 1..(n - 1) |-> m[i + 1] - 1]
  <1>2. n \in Nat /\ n > 0 /\ k \in Nat /\ k > 0
    BY LenProperties, EmptySeq
  <1>3. /\ Len(p) = n - 1 /\ \A i \in 1..(n - 1) : p[i] = s[i + 1]
        /\ Len(q) = k - 1 /\ \A i \in 1..(k - 1) : q[i] = t[i + 1]
    BY <1>2, HeadTailProperties
  <1> HIDE DEF p, q
  <1>4. \A i \in 1..(n - 1) : m[i + 1] \in 2..k
    <2> TAKE i \in 1..(n - 1)
    <2>1. 1 \in 1..n /\ i + 1 \in 1..n /\ 1 < i + 1
      BY <1>2
    <2>2. m[1] < m[i + 1] /\ m[1] \in 1..k /\ m[i + 1] \in 1..k
      BY <1>1, <2>1
    <2> QED
      BY <1>2, <2>2
  <1>5. h \in [1..(n - 1) -> 1..(k - 1)]
    BY <1>2, <1>4
  <1>6. \A i, j \in 1..(n - 1) : i < j => h[i] < h[j]
    <2> TAKE i, j \in 1..(n - 1)
    <2>1. i + 1 \in 1..n /\ j + 1 \in 1..n
      BY <1>2
    <2>2. i < j => m[i + 1] < m[j + 1]
      BY <1>1, <2>1
    <2>3. m[i + 1] \in 2..k /\ m[j + 1] \in 2..k
      BY <1>4
    <2> QED
      BY <1>2, <2>2, <2>3
  <1>7. \A i \in 1..(n - 1) : p[i] = q[h[i]]
    <2> TAKE i \in 1..(n - 1)
    <2>1. m[i + 1] \in 2..k /\ m[i + 1] - 1 \in 1..(k - 1)
          /\ (m[i + 1] - 1) + 1 = m[i + 1]
      BY <1>2, <1>4
    <2>2. q[m[i + 1] - 1] = t[m[i + 1]]
      BY <1>3, <2>1
    <2>3. i + 1 \in 1..n
      BY <1>2
    <2>4. p[i] = s[i + 1] /\ s[i + 1] = t[m[i + 1]]
      BY <1>1, <1>3, <2>3
    <2> QED
      BY <2>2, <2>4
  <1> HIDE DEF h
  <1>8. IsSubsequence(p, q)
    BY <1>3, <1>5, <1>6, <1>7 DEF IsSubsequence
  <1> QED
    BY <1>8 DEF p, q

\* An element of a subsequence is an element.
LEMMA SubsequenceHead ==
    ASSUME NEW S, NEW s \in Seq(S), NEW t \in Seq(S), s # <<>>,
           IsSubsequence(s, t)
    PROVE  Head(s) \in ToSet(t)
  <1>1. PICK m \in [1..Len(s) -> 1..Len(t)] :
           \A i \in 1..Len(s) : s[i] = t[m[i]]
    BY DEF IsSubsequence
  <1>2. 1 \in 1..Len(s) /\ DOMAIN t = 1..Len(t)
    BY LenProperties, EmptySeq
  <1> QED
    BY <1>1, <1>2 DEF ToSet

LossyOnly == Hazards \subseteq {"silent_start", "unseen_call", "extra_return",
                                "push_fails"}

\* Entering a function makes it active and leaves the others active.
LEMMA ActiveCons ==
    ASSUME NEW fs \in Seq(Funcs), NEW f \in Funcs
    PROVE  ToSet(Labelled(Cons(f, fs))) = ToSet(Labelled(fs)) \union {Label(f)}
  <1> DEFINE t == Labelled(fs)
             q == Cons(Label(f), t)
  <1>1. t \in Seq(Nodes) /\ Label(f) \in Nodes
    BY LabelledType, LabelType
  <1> HIDE DEF t
  <1>2. /\ q \in Seq(Nodes) /\ Len(q) = 1 + Len(t) /\ q[1] = Label(f)
        /\ \A i \in 1..Len(t) : q[i + 1] = t[i]
        /\ Len(t) \in Nat /\ DOMAIN t = 1..Len(t) /\ DOMAIN q = 1..Len(q)
    BY <1>1, ConsProperties, LenProperties
  <1> HIDE DEF q
  <1>3. ToSet(q) \subseteq ToSet(t) \union {Label(f)}
    <2> SUFFICES ASSUME NEW i \in 1..Len(q)
                 PROVE  q[i] \in ToSet(t) \union {Label(f)}
      BY <1>2 DEF ToSet
    <2>1. CASE i = 1
      BY <1>2, <2>1
    <2>2. CASE i # 1
      <3>1. i - 1 \in 1..Len(t) /\ (i - 1) + 1 = i
        BY <1>2, <2>2
      <3>2. q[i] = t[i - 1]
        BY <1>2, <3>1
      <3> QED
        BY <1>2, <3>1, <3>2 DEF ToSet
    <2> QED
      BY <2>1, <2>2
  <1>4. ToSet(t) \union {Label(f)} \subseteq ToSet(q)
    <2>1. 1 \in 1..Len(q) /\ \A i \in 1..Len(t) : i + 1 \in 1..Len(q)
      BY <1>2
    <2> QED
      BY <1>2, <2>1 DEF ToSet
  <1>5. Labelled(Cons(f, fs)) = q
    BY LabelledCons DEF q, t
  <1> QED
    BY <1>3, <1>4, <1>5 DEF t

\* The source of an edge is active, or unknown.
LEMMA LossySource ==
    ASSUME TypeOK, LossyInv, NEW l \in Nodes, NEW g \in BOOLEAN
    PROVE  \A e \in Edges(Written(dot, get_function(list_func), ret, first, l, g))
                      \ Edges(dot) : e[1] \in Active \union {Unk}
  <1> DEFINE top == get_function(list_func)
  <1>1. /\ top \in Nodes /\ dot \in Seq(Token) /\ ret \in BOOLEAN
        /\ first \in BOOLEAN /\ list_func \in Seq(Nodes)
        /\ frames \in Seq(Funcs)
    BY TopType DEF TypeOK
  <1>2. top \in Active \union {Unk}
    <2>1. Labelled(frames) \in Seq(Nodes)
      BY <1>1, LabelledType
    <2>2. list_func # <<>> => Head(list_func) \in Active
      BY <1>1, <2>1, SubsequenceHead DEF LossyInv, RemembersActive, Active
    <2> QED
      BY <2>2 DEF get_function
  <1> HIDE DEF top
  <1>3. Edges(Written(dot, top, ret, first, l, g)) =
          Edges(dot) \union
            (IF first /\ ret THEN {<<top, l>>}
             ELSE IF first /\ dot # <<>> /\ Last(dot).tok = "node"
             THEN {<<Last(dot).label, l>>} ELSE {})
    BY <1>1, WrittenEdges DEF LossyInv
  <1>4. ~ret /\ dot # <<>> => Last(dot).label \in Active
    BY DEF LossyInv
  <1> QED
    BY <1>1, <1>2, <1>3, <1>4 DEF top

LEMMA LossyInit == Init => LossyInv
  <1>1. Init => Labelled(frames) \in Seq(Nodes)
    BY LabelledType, EmptySeq DEF Init
  <1> QED
    BY <1>1, SubsequenceEmpty DEF Init, LossyInv, RemembersActive

LEMMA LossyCall ==
    ASSUME TypeOK, LossyInv, NEW f \in Funcs, Call(f)
    PROVE  /\ LossyInv'
           /\ \A e \in Edges(dot') \ Edges(dot) : e[1] \in Active \union {Unk}
  <1> DEFINE l == Label(f)
             top == get_function(list_func)
             grey == CallLine(f).mark = "@"
             w == Written(dot, top, ret, first, l, grey)
             t == Labelled(frames)
  <1>1. /\ l \in Nodes /\ top \in Nodes /\ dot \in Seq(Token)
        /\ ret \in BOOLEAN /\ first \in BOOLEAN /\ grey \in BOOLEAN
        /\ list_func \in Seq(Nodes) /\ frames \in Seq(Funcs)
        /\ t \in Seq(Nodes)
    BY LabelType, TopType, LabelledType DEF TypeOK
  <1>2. PICK pushed \in BOOLEAN : print_instruction(CallLine(f), pushed)
    BY DEF Call, PushOutcomes
  <1>3. frames' = Cons(f, frames) /\ Labelled(frames') = Cons(l, t)
    BY <1>1, LabelledCons DEF Call
  <1>4. /\ CallLine(f) \in Line /\ CallLine(f).mark = "call"
        /\ CallLine(f).label = l
    BY LineTypes
  <1>5. /\ dot' = w /\ ret' = FALSE
        /\ list_func' = push_function(list_func, l, pushed)
    BY <1>2, <1>4, PrintNode
  <1>6. ~grey
    BY <1>4
  <1>7. \A e \in Edges(w) \ Edges(dot) : e[1] \in Active \union {Unk}
    BY <1>1, LossySource
  <1> HIDE DEF grey, top, l, t
  <1>8. w # <<>> /\ Last(w) = IF grey THEN Grey(l) ELSE Node(l)
    BY <1>1, WrittenLast
  <1> HIDE DEF w
  <1>9. RemembersActive'
    <2>1. IsSubsequence(list_func, t)
      BY DEF LossyInv, RemembersActive, t
    <2>2. CASE pushed
      <3>1. list_func' = Cons(l, list_func)
        BY <1>5, <2>2 DEF push_function
      <3> QED
        BY <1>1, <1>3, <2>1, <3>1, SubsequenceCons DEF RemembersActive
    <2>3. CASE ~pushed
      <3>1. list_func' = list_func
        BY <1>5, <2>3 DEF push_function
      <3> QED
        BY <1>1, <1>3, <2>1, <3>1, SubsequenceSkip DEF RemembersActive
    <2> QED
      BY <2>2, <2>3
  <1>10. Active' = Active \union {l}
    BY <1>1, <1>3, ActiveCons DEF Active, l
  <1>11. Last(dot').tok = "node" /\ Last(dot').label = l
    BY <1>5, <1>6, <1>8 DEF Node
  <1> QED
    BY <1>5, <1>7, <1>9, <1>10, <1>11 DEF LossyInv

LEMMA LossySyscall ==
    ASSUME TypeOK, LossyInv, NEW s \in Syscalls, Syscall(s)
    PROVE  /\ LossyInv'
           /\ \A e \in Edges(dot') \ Edges(dot) : e[1] \in Active \union {Unk}
  <1> DEFINE top == get_function(list_func)
             grey == SyscallLine(s).mark = "@"
             w == Written(dot, top, ret, first, s, grey)
  <1>1. /\ s \in Nodes /\ top \in Nodes /\ dot \in Seq(Token)
        /\ ret \in BOOLEAN /\ first \in BOOLEAN /\ grey \in BOOLEAN
    BY TopType DEF TypeOK, Nodes
  <1>2. print_instruction(SyscallLine(s), TRUE) /\ frames' = frames
    BY DEF Syscall
  <1>3. /\ SyscallLine(s) \in Line /\ SyscallLine(s).mark = "@"
        /\ SyscallLine(s).label = s
    BY LineTypes
  <1>4. dot' = w /\ ret' = TRUE /\ list_func' = list_func
    BY <1>2, <1>3, PrintNode
  <1>5. \A e \in Edges(w) \ Edges(dot) : e[1] \in Active \union {Unk}
    BY <1>1, LossySource
  <1> HIDE DEF grey, top
  <1>6. w # <<>> /\ Last(w) = IF grey THEN Grey(s) ELSE Node(s)
    BY <1>1, WrittenLast
  <1> HIDE DEF w
  <1>7. Last(dot').tok # "arrow"
    BY <1>4, <1>6 DEF Grey, Node
  <1>8. RemembersActive'
    BY <1>2, <1>4 DEF LossyInv, RemembersActive
  <1> QED
    BY <1>4, <1>5, <1>7, <1>8 DEF LossyInv

LEMMA LossyReturn ==
    ASSUME TypeOK, LossyInv, Return \/ ExtraReturn
    PROVE  LossyInv' /\ dot' = dot
  <1> DEFINE t == Labelled(frames)
  <1>1. /\ dot' = dot /\ ret' = TRUE
        /\ list_func' = pop_function(list_func)
        /\ frames' = Left \/ frames' = frames
    BY LineTypes, PrintReturn DEF Return, ExtraReturn
  <1>2. list_func \in Seq(Nodes) /\ frames \in Seq(Funcs) /\ t \in Seq(Nodes)
    BY LabelledType DEF TypeOK
  <1>3. Labelled(frames') = pop_function(t) \/ Labelled(frames') = t
    BY <1>1, <1>2, LabelledLeft
  <1>4. IsSubsequence(list_func, t)
    BY DEF LossyInv, RemembersActive
  <1> HIDE DEF t
  <1>5. pop_function(t) \in Seq(Nodes)
    BY <1>2, StackTypes
  <1>6. CASE list_func = <<>>
    BY <1>1, <1>2, <1>3, <1>5, <1>6, SubsequenceEmpty
       DEF pop_function, RemembersActive, LossyInv
  <1>7. CASE list_func # <<>>
    <2>1. t # <<>>
      <3> SUFFICES ASSUME t = <<>> PROVE FALSE
        OBVIOUS
      <3>1. Head(list_func) \in ToSet(t)
        BY <1>2, <1>4, <1>7, SubsequenceHead
      <3> QED
        BY <3>1, EmptySeq DEF ToSet
    <2>2. /\ IsSubsequence(Tail(list_func), t)
          /\ IsSubsequence(Tail(list_func), Tail(t))
      BY <1>2, <1>4, <1>7, <2>1, SubsequencePop, SubsequenceLeave
    <2>3. list_func' = Tail(list_func)
          /\ (Labelled(frames') = Tail(t) \/ Labelled(frames') = t)
      BY <1>1, <1>3, <1>7, <2>1 DEF pop_function
    <2>4. RemembersActive'
      BY <2>2, <2>3 DEF RemembersActive
    <2> QED
      BY <1>1, <2>4 DEF LossyInv
  <1> QED
    BY <1>1, <1>6, <1>7

LEMMA LossyUnseenCall ==
    ASSUME TypeOK, LossyInv, NEW f \in Funcs, UnseenCall(f)
    PROVE  LossyInv' /\ dot' = dot
  <1>1. /\ frames' = Cons(f, frames) /\ dot' = dot /\ ret' = ret
        /\ list_func' = list_func
    BY DEF UnseenCall
  <1>2. /\ list_func \in Seq(Nodes) /\ frames \in Seq(Funcs)
        /\ Labelled(frames) \in Seq(Nodes) /\ Label(f) \in Nodes
    BY LabelledType, LabelType DEF TypeOK
  <1>3. Labelled(frames') = Cons(Label(f), Labelled(frames))
    BY <1>1, <1>2, LabelledCons
  <1>4. IsSubsequence(list_func, Cons(Label(f), Labelled(frames)))
    BY <1>2, SubsequenceSkip DEF LossyInv, RemembersActive
  <1>5. Active \subseteq Active'
    BY <1>1, <1>2, ActiveCons DEF Active
  <1> QED
    BY <1>1, <1>3, <1>4, <1>5 DEF LossyInv, RemembersActive

LEMMA LossyStep ==
    ASSUME LossyOnly, TypeOK, LossyInv, [Next]_vars
    PROVE  /\ LossyInv'
           /\ \A e \in Edges(dot') \ Edges(dot) : e[1] \in Active \union {Unk}
  <1>1. /\ \A s \in Syscalls : ~Exec(s)
        /\ ~UnseenReturn /\ ~UndefinedSyscall
    BY DEF LossyOnly, Exec, UnseenReturn, UndefinedSyscall
  <1>2. (Silent \/ UNCHANGED vars) => LossyInv' /\ dot' = dot
    BY DEF Silent, print_nothing, vars, LossyInv, RemembersActive, Active
  <1> QED
    BY <1>1, <1>2, LossyCall, LossySyscall, LossyReturn, LossyUnseenCall DEF Next

\* However many calls the decoder misses, allocations fail or returns are
\* used as jumps, the stack of labels is what is left of the program's stack.
THEOREM StackRemembersActive ==
    ASSUME LossyOnly
    PROVE  Spec => []RemembersActive
  <1>1. TypeOK /\ LossyInv /\ [Next]_vars => (TypeOK /\ LossyInv)'
    BY TypeStep, LossyStep
  <1>2. LossyInv => RemembersActive
    BY DEF LossyInv
  <1> QED
    BY TypeInit, LossyInit, <1>1, <1>2, PTL DEF Spec

\* With the same losses, every edge leaves from a function that is active
\* when it is written, or from the unknown caller.
THEOREM EdgesLeaveActive ==
    ASSUME LossyOnly
    PROVE  Spec => NewEdgesFromActive
  <1> DEFINE FromActive ==
        \A e \in Edges(dot') \ Edges(dot) : e[1] \in Active \union {Unk}
  <1>1. TypeOK /\ LossyInv /\ [Next]_vars => (TypeOK /\ LossyInv)'
    BY TypeStep, LossyStep
  <1>2. TypeOK /\ LossyInv /\ [Next]_vars => [FromActive]_vars
    BY LossyStep
  <1> HIDE DEF FromActive
  <1>3. Spec => [][FromActive]_vars
    BY TypeInit, LossyInit, <1>1, <1>2, PTL DEF Spec
  <1> QED
    BY <1>3, PTL DEF NewEdgesFromActive, FromActive
=============================================================================
