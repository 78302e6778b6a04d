------------------------ MODULE SymbolResolverProofs ------------------------
(***************************************************************************)
(* Theorems about SymbolTable and SymbolResolver, for every ELF file, every*)
(* memory map and any sequence of lookups.                                 *)
(***************************************************************************)
EXTENDS SymbolResolver, Loops, SequenceTheorems, TLAPS

-----------------------------------------------------------------------------
(* Lists that are filtered.                                                *)

\* What Only goes through: the elements of S in every beginning of the list.
Gathers(list, S, h) ==
    /\ h \in [0..Len(list) -> Seq(S)]
    /\ h[0] = <<>>
    /\ \A k \in 1..Len(list) :
         h[k] = IF list[k] \in S THEN Append(h[k - 1], list[k]) ELSE h[k - 1]

LEMMA OnlyGathers ==
    ASSUME NEW list, Len(list) \in Nat, NEW S
    PROVE  \E h : Gathers(list, S, h) /\ Only(list, S) = h[Len(list)]
<1>. DEFINE n == Len(list)
            F(k, kept) == IF list[k] \in S THEN Append(kept, list[k]) ELSE kept
            turn == [p \in (1..n) \X Seq(S) |-> F(p[1], p[2])]
            Rec(g) == g = [k \in 0..n |->
                             IF k = 0 THEN <<>>
                             ELSE LET before == g[k - 1] IN F(k, before)]
            state == CHOOSE g : Rec(g)
<1>1. n \in Nat
  OBVIOUS
<1>2. ASSUME NEW k \in 1..n, NEW kept \in Seq(S) PROVE F(k, kept) \in Seq(S)
  BY AppendProperties
<1>3. IsLoop(Seq(S), n, turn, <<>>)
  <2>1. <<>> \in Seq(S)
    OBVIOUS
  <2>. HIDE DEF n, F
  <2>. QED BY <1>1, <1>2, <2>1 DEF IsLoop
<1>4. PICK h : IsHistory(h, Seq(S), n, turn, <<>>)
  <2>. HIDE DEF turn, n
  <2>. QED BY <1>3, LoopHistory
<1>5. ASSUME NEW k \in 1..n PROVE h[k] = F(k, h[k - 1])
  <2>1. h[k - 1] \in Seq(S)
    BY <1>1, <1>4 DEF IsHistory
  <2>. HIDE DEF F
  <2>. QED BY <1>4, <2>1 DEF IsHistory
<1>6. h \in [0..n -> Seq(S)] /\ h[0] = <<>>
  BY <1>4 DEF IsHistory
<1>7. Rec(h)
  <2>. DEFINE G(g, k) == IF k = 0 THEN <<>> ELSE F(k, g[k - 1])
  <2>1. h = [k \in 0..n |-> h[k]]
    BY <1>6
  <2>2. \A k \in 0..n : h[k] = G(h, k)
    <3>1. \A k \in 0..n : k # 0 => k \in 1..n
      BY <1>1
    <3>. HIDE DEF F, n
    <3>. QED BY <1>5, <1>6, <3>1
  <2>3. [k \in 0..n |-> h[k]] = [k \in 0..n |-> G(h, k)]
    <3>. HIDE DEF G
    <3>. QED BY <2>2
  <2>. HIDE DEF F, n
  <2>. QED BY <2>1, <2>3
<1>8. Rec(state)
  <2>. HIDE DEF Rec
  <2>. QED BY <1>7
<1>9. \A k \in 0..n : state[k] = h[k]
  <2>1. state[0] = h[0]
    <3>1. 0 \in 0..n
      BY <1>1
    <3>. HIDE DEF state, F
    <3>. QED BY <1>6, <1>8, <3>1
  <2>2. ASSUME NEW k \in 1..n, state[k - 1] = h[k - 1] PROVE state[k] = h[k]
    <3>1. k \in 0..n /\ k # 0
      BY <1>1
    <3>2. state[k] = F(k, state[k - 1])
      <4>. HIDE DEF state, F, n
      <4>. QED BY <1>8, <3>1
    <3>. HIDE DEF state, F
    <3>. QED BY <1>5, <2>2, <3>2
  <2>. HIDE DEF state, n
  <2>3. Alike(n, state, h)
    BY <2>1, <2>2 DEF Alike
  <2>. QED BY <1>1, <2>3, SameHistory
<1>10. Only(list, S) = state[n]
  BY DEF Only, After
<1>11. n \in 0..n
  BY <1>1
<1>12. Gathers(list, S, h)
  BY <1>5, <1>6 DEF Gathers
<1>. HIDE DEF state, n
<1>. QED BY <1>9, <1>10, <1>11, <1>12 DEF n

\* Only leaves out what is not in S and nothing else.
LEMMA OnlyIs ==
    ASSUME NEW list, list \in Seq(ToSet(list)), NEW S
    PROVE  LET kept == Only(list, S)
           IN /\ kept \in Seq(S) /\ Len(kept) \in 0..Len(list)
              /\ ToSet(kept) = ToSet(list) \intersect S
              /\ (\E i \in 1..Len(list) : list[i] \notin S) => Len(kept) < Len(list)
<1>. DEFINE n == Len(list)
            Begun(k) == {list[m] : m \in 1..k}
<1>1. n \in Nat /\ DOMAIN list = 1..n
  BY LenProperties
<1>2. PICK h : Gathers(list, S, h) /\ Only(list, S) = h[n]
  BY <1>1, OnlyGathers
<1>3. /\ h \in [0..n -> Seq(S)] /\ h[0] = <<>>
      /\ \A k \in 1..n :
           h[k] = IF list[k] \in S THEN Append(h[k - 1], list[k]) ELSE h[k - 1]
  BY <1>2 DEF Gathers
<1>. HIDE DEF n
<1>. DEFINE Holds(k) ==
                /\ Len(h[k]) \in 0..k
                /\ ToSet(h[k]) = Begun(k) \intersect S
                /\ (\E i \in 1..k : list[i] \notin S) => Len(h[k]) < k
            T == {k \in 0..n : Holds(k)}
<1>4. 0 \in T
  <2>1. Holds(0)
    BY <1>3 DEF ToSet
  <2>. QED BY <1>1, <2>1
<1>5. ASSUME NEW k \in 1..n, k - 1 \in T PROVE k \in T
  <2>. DEFINE j == k - 1
  <2>1. /\ j \in 0..n /\ j \in Nat /\ k = j + 1 /\ k \in 0..n
        /\ Holds(j) /\ h[j] \in Seq(S)
    <3>1. j \in 0..n /\ j \in Nat /\ k = j + 1 /\ k \in 0..n
      BY <1>1
    <3>2. Holds(j)
      <4>. HIDE DEF Holds
      <4>. QED BY <1>5
    <3>3. h[j] \in Seq(S)
      BY <1>3, <3>1
    <3>. QED BY <3>1, <3>2, <3>3
  <2>2. h[k] = IF list[k] \in S THEN Append(h[j], list[k]) ELSE h[j]
    BY <1>3
  <2>. HIDE DEF j
  <2>3. Begun(k) = Begun(j) \union {list[k]}
    <3>1. 1..k = (1..j) \union {k}
      BY <2>1
    <3>. QED BY <3>1
  <2>4. (\E i \in 1..k : list[i] \notin S)
          => list[k] \notin S \/ \E i \in 1..j : list[i] \notin S
    BY <2>1
  <2>5. Len(h[j]) \in 0..j /\ ToSet(h[j]) = Begun(j) \intersect S
    BY <2>1
  <2>6. ASSUME list[k] \in S
        PROVE  ToSet(Append(h[j], list[k])) = ToSet(h[j]) \union {list[k]}
               /\ Len(Append(h[j], list[k])) = Len(h[j]) + 1
    <3>. DEFINE t == h[j]
                u == Append(t, list[k])
                m == Len(t)
    <3>1. /\ m \in Nat /\ DOMAIN t = 1..m
          /\ DOMAIN u = 1..(m + 1) /\ Len(u) = m + 1 /\ u[m + 1] = list[k]
          /\ \A i \in 1..m : u[i] = t[i]
      BY <2>1, <2>6, LenProperties, AppendProperties
    <3>. HIDE DEF t, u, m
    <3>2. {u[i] : i \in 1..(m + 1)} = {t[i] : i \in 1..m} \union {list[k]}
      <4>1. 1..(m + 1) = (1..m) \union {m + 1}
        BY <3>1
      <4>. QED BY <3>1, <4>1
    <3>. QED BY <3>1, <3>2 DEF ToSet, t, u, m
  <2>7. CASE list[k] \in S
    <3>1. h[k] = Append(h[j], list[k])
      BY <2>2, <2>7
    <3>2. ToSet(h[k]) = Begun(k) \intersect S
      <4>. HIDE DEF Begun
      <4>. QED BY <2>3, <2>5, <2>6, <2>7, <3>1
    <3>3. Len(h[k]) = Len(h[j]) + 1
      BY <2>6, <2>7, <3>1
    <3>4. (\E i \in 1..k : list[i] \notin S) => Len(h[j]) < j
      BY <2>1, <2>4, <2>7
    <3>5. Holds(k)
      <4>. HIDE DEF Begun
      <4>1. Len(h[k]) \in 0..k
        BY <2>1, <2>5, <3>3
      <4>2. (\E i \in 1..k : list[i] \notin S) => Len(h[k]) < k
        BY <2>1, <2>5, <3>3, <3>4
      <4>. QED BY <3>2, <4>1, <4>2
    <3>. QED BY <2>1, <3>5
  <2>8. CASE list[k] \notin S
    <3>1. h[k] = h[j]
      BY <2>2, <2>8
    <3>2. ToSet(h[k]) = Begun(k) \intersect S
      <4>. HIDE DEF Begun
      <4>. QED BY <2>3, <2>5, <2>8, <3>1
    <3>3. Len(h[k]) \in 0..k /\ Len(h[k]) < k
      BY <2>1, <2>5, <3>1
    <3>. QED BY <2>1, <3>2, <3>3
  <2>. QED BY <2>7, <2>8
<1>6. Holds(n)
  <2>1. 0..n \subseteq T
    <3>. HIDE DEF T
    <3>. QED BY <1>1, <1>4, <1>5, TurnInduction
  <2>2. n \in 0..n
    BY <1>1
  <2>. QED BY <2>1, <2>2
<1>7. h[n] \in Seq(S)
  BY <1>1, <1>3
<1>8. Begun(n) = ToSet(list)
  BY <1>1 DEF ToSet
<1>. QED BY <1>2, <1>6, <1>7, <1>8 DEF n

-----------------------------------------------------------------------------
(* sort_sym.                                                               *)

Ranked(X) == \A x \in X : x.key \in Nat

LEMMA AsList ==
    ASSUME NEW X, NEW n \in Nat, NEW l \in [1..n -> X]
    PROVE  l \in Seq(X) /\ Len(l) = n
  OBVIOUS

\* The lesser of two cells is at i, and the others are where they were.
Exchanged(X, n, l, i, j, e) ==
    /\ e \in [1..n -> X]
    /\ e[i].key <= e[j].key /\ e[i].key <= l[i].key
    /\ \A m \in 1..n : m # i /\ m # j => e[m] = l[m]
    /\ {e[i], e[j]} = {l[i], l[j]}

LEMMA ExchangeIs ==
    ASSUME NEW X, Ranked(X), NEW n \in Nat, NEW l \in [1..n -> X],
           NEW i \in 1..n, NEW j \in 1..n
    PROVE  Exchanged(X, n, l, i, j, Exchange(l, i, j))
<1>. USE DEF Exchanged
<1>. DEFINE e == Exchange(l, i, j)
<1>1. l[i] \in X /\ l[j] \in X /\ l[i].key \in Nat /\ l[j].key \in Nat
  BY DEF Ranked
<1>2. CASE l[i].key - l[j].key > 0
  <2>1. e = [l EXCEPT ![i] = l[j], ![j] = l[i]]
    BY <1>2 DEF Exchange, yolo_cmp, swap
  <2>2. /\ e \in [1..n -> X] /\ e[i] = l[j] /\ e[j] = l[i]
        /\ \A m \in 1..n : m # i /\ m # j => e[m] = l[m]
    BY <1>1, <2>1
  <2>. HIDE DEF e
  <2>. QED BY <1>1, <1>2, <2>2 DEF e
<1>3. CASE ~(l[i].key - l[j].key > 0)
  <2>1. e = l
    BY <1>3 DEF Exchange, yolo_cmp
  <2>. QED BY <1>1, <1>3, <2>1
<1>. QED BY <1>2, <1>3

\* The turns of the inner loop.
RowGoes(X, n, list, i, h) ==
    /\ h \in [0..((n + 1) - i) -> [1..n -> X]] /\ h[0] = list
    /\ \A k \in 1..((n + 1) - i) : h[k] = Exchange(h[k - 1], i, i + k - 1)
    /\ Row(list, i) = h[(n + 1) - i]

LEMMA RowTurns ==
    ASSUME NEW X, Ranked(X), NEW n \in Nat, NEW list \in [1..n -> X], NEW i \in 1..n
    PROVE  \E h : RowGoes(X, n, list, i, h)
<1>. DEFINE S == [1..n -> X]
            len == Len(list) + 1 - i
            F(k, l) == Exchange(l, i, i + k - 1)
            turn == [p \in (1..len) \X S |-> F(p[1], p[2])]
            Rec(g) == g = [k \in 0..len |->
                             IF k = 0 THEN list
                             ELSE LET before == g[k - 1] IN F(k, before)]
            state == CHOOSE g : Rec(g)
<1>0. len = (n + 1) - i
  BY AsList
<1>1. len \in Nat /\ list \in S
  BY <1>0
<1>2. ASSUME NEW k \in 1..len, NEW l \in S PROVE F(k, l) \in S
  <2>1. i + k - 1 \in 1..n
    BY <1>0
  <2>. QED BY <2>1, ExchangeIs DEF Exchanged
<1>3. IsLoop(S, len, turn, list)
  <2>. HIDE DEF S, len, F
  <2>. QED BY <1>1, <1>2 DEF IsLoop
<1>4. PICK h : IsHistory(h, S, len, turn, list)
  <2>. HIDE DEF S, turn, len
  <2>. QED BY <1>3, LoopHistory
<1>5. ASSUME NEW k \in 1..len PROVE h[k] = F(k, h[k - 1])
  <2>. HIDE DEF S, len, F
  <2>1. h[k - 1] \in S
    BY <1>1, <1>4 DEF IsHistory
  <2>. QED BY <1>4, <2>1 DEF IsHistory
<1>6. h \in [0..len -> S] /\ h[0] = list
  BY <1>4 DEF IsHistory
<1>7. Rec(h)
  <2>. HIDE DEF S, len, F
  <2>. DEFINE G(g, k) == IF k = 0 THEN list ELSE F(k, g[k - 1])
  <2>1. h = [k \in 0..len |-> h[k]]
    BY <1>6
  <2>2. \A k \in 0..len : h[k] = G(h, k)
    <3>1. \A k \in 0..len : k # 0 => k \in 1..len
      BY <1>1
    <3>. QED BY <1>5, <1>6, <3>1
  <2>3. [k \in 0..len |-> h[k]] = [k \in 0..len |-> G(h, k)]
    <3>. HIDE DEF G
    <3>. QED BY <2>2
  <2>. QED BY <2>1, <2>3
<1>8. Rec(state)
  <2>. HIDE DEF Rec
  <2>. QED BY <1>7
<1>9. \A k \in 0..len : state[k] = h[k]
  <2>. HIDE DEF state, S, len, F
  <2>1. state[0] = h[0]
    <3>1. 0 \in 0..len
      BY <1>1
    <3>. QED BY <1>6, <1>8, <3>1
  <2>2. ASSUME NEW k \in 1..len, state[k - 1] = h[k - 1] PROVE state[k] = h[k]
    <3>1. k \in 0..len /\ k # 0
      BY <1>1
    <3>2. state[k] = F(k, state[k - 1])
      BY <1>8, <3>1
    <3>. QED BY <1>5, <2>2, <3>2
  <2>3. Alike(len, state, h)
    BY <2>1, <2>2 DEF Alike
  <2>. QED BY <1>1, <2>3, SameHistory
<1>10. Row(list, i) = state[len]
  BY DEF Row, After
<1>11. len \in 0..len
  BY <1>1
<1>. HIDE DEF state, len
<1>. QED BY <1>0, <1>5, <1>6, <1>9, <1>10, <1>11 DEF RowGoes

\* The inner loop brings the least of the cells from i on to the front, and leaves
\* those before i alone.
Led(X, n, list, i, r) ==
    /\ r \in [1..n -> X]
    /\ \A m \in 1..(i - 1) : r[m] = list[m]
    /\ {r[m] : m \in i..n} = {list[m] : m \in i..n}
    /\ \A m \in i..n : r[i].key <= r[m].key

LEMMA RowIs ==
    ASSUME NEW X, Ranked(X), NEW n \in Nat, NEW list \in [1..n -> X], NEW i \in 1..n
    PROVE  Led(X, n, list, i, Row(list, i))
<1>. DEFINE len == (n + 1) - i
<1>1. PICK h : /\ h \in [0..len -> [1..n -> X]] /\ h[0] = list
               /\ \A k \in 1..len : h[k] = Exchange(h[k - 1], i, i + k - 1)
               /\ Row(list, i) = h[len]
  <2>1. \E h : RowGoes(X, n, list, i, h)
    BY RowTurns
  <2>. QED BY <2>1 DEF RowGoes
<1>. DEFINE Holds(k) ==
                /\ \A m \in 1..(i - 1) : h[k][m] = list[m]
                /\ {h[k][m] : m \in i..n} = {list[m] : m \in i..n}
                /\ \A m \in i..((i + k) - 1) : h[k][i].key <= h[k][m].key
            T == {k \in 0..len : Holds(k)}
<1>2. len \in Nat /\ len \in 0..len /\ 0 \in 0..len /\ (i + len) - 1 = n
  OBVIOUS
<1>. HIDE DEF len
<1>3. 0 \in T
  <2>1. i..((i + 0) - 1) = {}
    OBVIOUS
  <2>. QED BY <1>1, <1>2, <2>1
<1>4. ASSUME NEW k \in 1..len, k - 1 \in T PROVE k \in T
  <2>. DEFINE l == h[k - 1]
              e == h[k]
              j == (i + k) - 1
  <2>1. /\ k \in 0..len /\ k - 1 \in 0..len /\ j \in i..n /\ j \in 1..n
        /\ (i + (k - 1)) - 1 = j - 1 /\ i + k - 1 = j
    BY <1>2
  <2>2. l \in [1..n -> X] /\ e \in [1..n -> X] /\ e = Exchange(l, i, j)
    <3>1. h[k] = Exchange(h[k - 1], i, i + k - 1)
      BY <1>1
    <3>. QED BY <1>1, <2>1, <3>1
  <2>3. Holds(k - 1)
    <3>. HIDE DEF Holds
    <3>. QED BY <1>4
  <2>4. /\ \A m \in 1..(i - 1) : l[m] = list[m]
        /\ {l[m] : m \in i..n} = {list[m] : m \in i..n}
        /\ \A m \in i..(j - 1) : l[i].key <= l[m].key
    BY <2>1, <2>3
  <2>. HIDE DEF l, e, j
  <2>5. /\ e[i].key <= e[j].key /\ e[i].key <= l[i].key
        /\ \A m \in 1..n : m # i /\ m # j => e[m] = l[m]
        /\ {e[i], e[j]} = {l[i], l[j]}
    <3>1. l \in [1..n -> X] /\ j \in 1..n
      BY <2>1, <2>2
    <3>2. Exchanged(X, n, l, i, j, Exchange(l, i, j))
      BY <3>1, ExchangeIs
    <3>. QED BY <2>2, <3>2 DEF Exchanged
  <2>6. \A m \in 1..n : e[m].key \in Nat /\ l[m].key \in Nat
    BY <2>2 DEF Ranked
  <2>7. \A m \in 1..(i - 1) : e[m] = list[m]
    BY <2>1, <2>4, <2>5
  <2>8. {e[m] : m \in i..n} = {list[m] : m \in i..n}
    <3>. DEFINE R == (i..n) \ {i, j}
    <3>1. i..n = R \union {i, j}
      BY <2>1
    <3>2. R \subseteq 1..n
      OBVIOUS
    <3>3. {e[m] : m \in i..n} = {e[m] : m \in R} \union {e[i], e[j]}
      BY <3>1
    <3>4. {l[m] : m \in i..n} = {l[m] : m \in R} \union {l[i], l[j]}
      BY <3>1
    <3>5. {e[m] : m \in R} = {l[m] : m \in R}
      BY <2>5, <3>2
    <3>. QED BY <2>4, <2>5, <3>3, <3>4, <3>5
  <2>9. ASSUME NEW m \in i..j PROVE e[i].key <= e[m].key
    <3>1. m \in 1..n /\ i \in 1..n
      BY <2>1
    <3>2. CASE m = i
      BY <2>6, <3>1, <3>2
    <3>3. CASE m = j
      BY <2>5, <3>3
    <3>4. CASE m # i /\ m # j
      <4>1. m \in i..(j - 1)
        BY <2>1, <3>4
      <4>2. e[m] = l[m] /\ l[i].key <= l[m].key
        BY <2>4, <2>5, <3>1, <3>4, <4>1
      <4>. QED BY <2>5, <2>6, <3>1, <4>2
    <3>. QED BY <3>2, <3>3, <3>4
  <2>10. Holds(k)
    BY <2>7, <2>8, <2>9 DEF e, j
  <2>. QED BY <2>1, <2>10
<1>5. Holds(len)
  <2>1. 0..len \subseteq T
    <3>. HIDE DEF T
    <3>. QED BY <1>2, <1>3, <1>4, TurnInduction
  <2>. HIDE DEF Holds
  <2>. QED BY <1>2, <2>1
<1>6. Row(list, i) = h[len] /\ h[len] \in [1..n -> X]
  BY <1>1, <1>2
<1>7. /\ \A m \in 1..(i - 1) : h[len][m] = list[m]
      /\ {h[len][m] : m \in i..n} = {list[m] : m \in i..n}
      /\ \A m \in i..n : h[len][i].key <= h[len][m].key
  BY <1>2, <1>5
<1>. HIDE DEF Holds, T
<1>. QED BY <1>6, <1>7 DEF Led

\* The turns of the outer loop.
SortGoes(X, n, list, h) ==
    /\ h \in [0..n -> [1..n -> X]] /\ h[0] = list
    /\ \A i \in 1..n : h[i] = Row(h[i - 1], i)
    /\ sort_sym(list) = h[n]

LEMMA SortTurns ==
    ASSUME NEW X, Ranked(X), NEW n \in Nat, NEW list \in [1..n -> X]
    PROVE  \E h : SortGoes(X, n, list, h)
<1>. DEFINE S == [1..n -> X]
            F(i, l) == Row(l, i)
            turn == [p \in (1..n) \X S |-> F(p[1], p[2])]
            Rec(len, g) == g = [k \in 0..len |->
                                  IF k = 0 THEN list
                                  ELSE LET before == g[k - 1] IN F(k, before)]
            state(len) == CHOOSE g : Rec(len, g)
<1>1. n \in Nat /\ list \in S /\ Len(list) = n
  BY AsList
<1>2. ASSUME NEW i \in 1..n, NEW l \in S PROVE F(i, l) \in S
  BY RowIs DEF Led
<1>3. IsLoop(S, n, turn, list)
  <2>. HIDE DEF S, F
  <2>. QED BY <1>1, <1>2 DEF IsLoop
<1>4. PICK h : IsHistory(h, S, n, turn, list)
  <2>. HIDE DEF S, turn
  <2>. QED BY <1>3, LoopHistory
<1>5. ASSUME NEW i \in 1..n PROVE h[i] = F(i, h[i - 1])
  <2>. HIDE DEF S, F
  <2>1. h[i - 1] \in S
    BY <1>1, <1>4 DEF IsHistory
  <2>. QED BY <1>4, <2>1 DEF IsHistory
<1>6. h \in [0..n -> S] /\ h[0] = list
  BY <1>4 DEF IsHistory
<1>7. Rec(n, h)
  <2>. HIDE DEF S, F
  <2>. DEFINE G(g, k) == IF k = 0 THEN list ELSE F(k, g[k - 1])
  <2>1. h = [k \in 0..n |-> h[k]]
    BY <1>6
  <2>2. \A k \in 0..n : h[k] = G(h, k)
    <3>1. \A k \in 0..n : k # 0 => k \in 1..n
      BY <1>1
    <3>. QED BY <1>5, <1>6, <3>1
  <2>3. [k \in 0..n |-> h[k]] = [k \in 0..n |-> G(h, k)]
    <3>. HIDE DEF G
    <3>. QED BY <2>2
  <2>. QED BY <2>1, <2>3
<1>8. Rec(n, state(n))
  <2>. HIDE DEF Rec
  <2>. QED BY <1>7
<1>9. \A k \in 0..n : state(n)[k] = h[k]
  <2>. DEFINE g == state(n)
  <2>0. Rec(n, g)
    BY <1>8
  <2>. HIDE DEF g, S, F
  <2>1. g[0] = h[0]
    <3>1. 0 \in 0..n
      BY <1>1
    <3>. QED BY <1>6, <2>0, <3>1
  <2>2. ASSUME NEW k \in 1..n, g[k - 1] = h[k - 1] PROVE g[k] = h[k]
    <3>1. k \in 0..n /\ k # 0
      BY <1>1
    <3>2. g[k] = F(k, g[k - 1])
      BY <2>0, <3>1
    <3>. QED BY <1>5, <2>2, <3>2
  <2>3. Alike(n, g, h)
    BY <2>1, <2>2 DEF Alike
  <2>4. \A k \in 0..n : g[k] = h[k]
    BY <1>1, <2>3, SameHistory
  <2>. QED BY <2>4 DEF g
<1>10. sort_sym(list) = state(n)[n]
  <2>1. sort_sym(list) = state(Len(list))[Len(list)]
    BY DEF sort_sym, After
  <2>. DEFINE value(len) == state(len)[len]
  <2>2. sort_sym(list) = value(Len(list))
    BY <2>1
  <2>. HIDE DEF value
  <2>3. sort_sym(list) = value(n)
    BY <1>1, <2>2
  <2>. QED BY <2>3 DEF value
<1>11. n \in 0..n
  BY <1>1
<1>. HIDE DEF state
<1>. QED BY <1>5, <1>6, <1>9, <1>10, <1>11 DEF SortGoes

\* sort_sym puts its symbols in the order of their names, and keeps them all.
InOrder(list) ==
    \A i \in 1..Len(list), j \in 1..Len(list) : i <= j => list[i].key <= list[j].key

THEOREM SortCorrect ==
    ASSUME NEW X, Ranked(X), NEW list \in Seq(X)
    PROVE  LET r == sort_sym(list)
           IN r \in Seq(X) /\ Len(r) = Len(list) /\ ToSet(r) = ToSet(list) /\ InOrder(r)
<1>. DEFINE n == Len(list)
<1>1. n \in Nat /\ list \in [1..n -> X] /\ DOMAIN list = 1..n
  BY LenProperties
<1>. HIDE DEF n
<1>2. PICK h : /\ h \in [0..n -> [1..n -> X]] /\ h[0] = list
               /\ \A i \in 1..n : h[i] = Row(h[i - 1], i)
               /\ sort_sym(list) = h[n]
  <2>1. \E h : SortGoes(X, n, list, h)
    BY <1>1, SortTurns
  <2>. QED BY <2>1 DEF SortGoes
<1>. DEFINE Holds(i) ==
                /\ {h[i][m] : m \in 1..n} = {list[m] : m \in 1..n}
                /\ \A a \in 1..i, b \in 1..n : a <= b => h[i][a].key <= h[i][b].key
            T == {i \in 0..n : Holds(i)}
<1>3. 0 \in T
  <2>1. Holds(0)
    BY <1>2
  <2>2. 0 \in 0..n
    BY <1>1
  <2>. HIDE DEF Holds
  <2>. QED BY <2>1, <2>2
<1>4. ASSUME NEW i \in 1..n, i - 1 \in T PROVE i \in T
  <2>. DEFINE l == h[i - 1]
              e == h[i]
  <2>1. i \in 0..n /\ i - 1 \in 0..n
    BY <1>1
  <2>2. l \in [1..n -> X] /\ e \in [1..n -> X] /\ e = Row(l, i)
    BY <1>2, <2>1
  <2>3. Holds(i - 1)
    <3>. HIDE DEF Holds
    <3>. QED BY <1>4
  <2>4. /\ {l[m] : m \in 1..n} = {list[m] : m \in 1..n}
        /\ \A a \in 1..(i - 1), b \in 1..n : a <= b => l[a].key <= l[b].key
    BY <2>3
  <2>. HIDE DEF l, e
  <2>5. /\ \A m \in 1..(i - 1) : e[m] = l[m]
        /\ {e[m] : m \in i..n} = {l[m] : m \in i..n}
        /\ \A m \in i..n : e[i].key <= e[m].key
    <3>1. Led(X, n, l, i, Row(l, i))
      BY <1>1, <2>2, RowIs
    <3>. QED BY <2>2, <3>1 DEF Led
  <2>6. {e[m] : m \in 1..n} = {list[m] : m \in 1..n}
    <3>1. 1..n = (1..(i - 1)) \union (i..n)
      BY <1>1
    <3>2. {e[m] : m \in 1..n} = {e[m] : m \in 1..(i - 1)} \union {e[m] : m \in i..n}
      BY <3>1
    <3>3. {l[m] : m \in 1..n} = {l[m] : m \in 1..(i - 1)} \union {l[m] : m \in i..n}
      BY <3>1
    <3>4. {e[m] : m \in 1..(i - 1)} = {l[m] : m \in 1..(i - 1)}
      BY <2>5
    <3>. QED BY <2>4, <2>5, <3>2, <3>3, <3>4
  <2>7. ASSUME NEW a \in 1..i, NEW b \in 1..n, a <= b PROVE e[a].key <= e[b].key
    <3>1. CASE a = i
      <4>1. b \in i..n
        BY <2>7, <3>1
      <4>. QED BY <2>5, <3>1, <4>1
    <3>2. CASE a # i
      <4>1. a \in 1..(i - 1) /\ e[a] = l[a]
        BY <1>1, <2>5, <3>2
      <4>2. CASE b < i
        <5>1. b \in 1..(i - 1)
          BY <1>1, <4>2
        <5>. QED BY <2>4, <2>5, <2>7, <4>1, <5>1
      <4>3. CASE ~(b < i)
        <5>1. b \in i..n
          BY <1>1, <4>3
        <5>2. PICK m \in i..n : e[b] = l[m]
          BY <2>5, <5>1
        <5>3. m \in 1..n /\ a <= m
          BY <1>1, <4>1
        <5>. QED BY <2>4, <4>1, <5>2, <5>3
      <4>. QED BY <4>2, <4>3
    <3>. QED BY <3>1, <3>2
  <2>8. Holds(i)
    BY <2>6, <2>7 DEF e
  <2>. QED BY <2>1, <2>8
<1>5. Holds(n)
  <2>1. 0..n \subseteq T
    <3>. HIDE DEF T
    <3>. QED BY <1>1, <1>3, <1>4, TurnInduction
  <2>2. n \in 0..n
    BY <1>1
  <2>. HIDE DEF Holds
  <2>. QED BY <2>1, <2>2
<1>. DEFINE r == h[n]
<1>6. r \in [1..n -> X] /\ r \in Seq(X) /\ Len(r) = n /\ DOMAIN r = 1..n
  BY <1>1, <1>2, AsList
<1>7. ToSet(r) = ToSet(list)
  BY <1>1, <1>5, <1>6 DEF ToSet
<1>. QED BY <1>2, <1>5, <1>6, <1>7 DEF n, InOrder

-----------------------------------------------------------------------------
(* The list of a file.                                                     *)

Fill(S) == {fill_symbol(s) : s \in S}
Keep(S) == {s \in S : Kept(s)}

\* The list of a symbol table's entries.
IsListOf(t, entries) ==
    /\ t.symbols \in Seq(Fill(ToSet(entries)))
    /\ ToSet(t.symbols) = Fill(Keep(ToSet(entries)))
    /\ t.cells = Len(entries) /\ t.cells \in Nat /\ Len(t.symbols) \in 0..t.cells
    /\ entries # <<>> /\ ~Kept(entries[1]) => Len(t.symbols) < t.cells

Symbols(entries) ==
    entries \in Seq(ToSet(entries)) /\ \A i \in DOMAIN entries : IsSymbol(entries[i])

LEMMA get_symIs ==
    ASSUME NEW entries, Symbols(entries)
    PROVE  /\ get_sym(entries) # NoTable =>
                /\ IsListOf(get_sym(entries), entries)
                /\ DOMAIN get_sym(entries) = {"symbols", "cells"}
           /\ (\A i \in DOMAIN entries : entries[i].inside) => get_sym(entries) # NoTable
<1>. DEFINE E == ToSet(entries)
            kept == Only(entries, Keep(E))
            symbols_ == [i \in DOMAIN kept |-> fill_symbol(kept[i])]
            table == [symbols |-> symbols_, cells |-> Len(entries)]
            n == Len(entries)
            k == Len(kept)
<1>1. entries \in Seq(E) /\ n \in Nat /\ DOMAIN entries = 1..n /\ \A s \in E : IsSymbol(s)
  BY LenProperties DEF Symbols, ToSet
<1>2. /\ kept \in Seq(Keep(E)) /\ k \in 0..n /\ ToSet(kept) = E \intersect Keep(E)
      /\ (\E i \in 1..n : entries[i] \notin Keep(E)) => k < n
  BY <1>1, OnlyIs
<1>3. get_sym(entries) = IF \E i \in DOMAIN kept : ~kept[i].inside THEN NoTable ELSE table
  BY DEF get_sym, Keep
<1>. HIDE DEF kept, E, n, k
<1>4. k \in Nat /\ DOMAIN kept = 1..k /\ kept \in [1..k -> Keep(E)]
  BY <1>2, LenProperties DEF k
<1>5. Keep(E) \subseteq E /\ ToSet(kept) = Keep(E)
  BY <1>2 DEF Keep
<1>6. /\ symbols_ \in [1..k -> Fill(E)] /\ symbols_ \in Seq(Fill(E)) /\ Len(symbols_) = k
      /\ DOMAIN symbols_ = 1..k
  <2>1. symbols_ \in [1..k -> Fill(E)]
    BY <1>4, <1>5 DEF Fill
  <2>. HIDE DEF symbols_
  <2>. QED BY <1>4, <2>1
<1>7. ToSet(symbols_) = Fill(Keep(E))
  <2>1. ToSet(symbols_) = {fill_symbol(kept[i]) : i \in 1..k}
    BY <1>4 DEF ToSet
  <2>2. Keep(E) = {kept[i] : i \in 1..k}
    BY <1>4, <1>5 DEF ToSet
  <2>. QED BY <2>1, <2>2 DEF Fill
<1>8. entries # <<>> /\ ~Kept(entries[1]) => k < n
  <2>. SUFFICES ASSUME entries # <<>>, ~Kept(entries[1]) PROVE k < n
    OBVIOUS
  <2>1. 1 \in 1..n
    BY <1>1, EmptySeq DEF n
  <2>2. entries[1] \notin Keep(E)
    BY DEF Keep
  <2>. QED BY <1>2, <2>1, <2>2
<1>. HIDE DEF symbols_
<1>9. /\ table.symbols = symbols_ /\ table.cells = n /\ DOMAIN table = {"symbols", "cells"}
      /\ table # NoTable
  BY <1>1 DEF NoTable, n
<1>. HIDE DEF table
<1>10. IsListOf(table, entries)
  BY <1>1, <1>2, <1>6, <1>7, <1>8, <1>9 DEF IsListOf, E, n
<1>11. ASSUME \A i \in DOMAIN entries : entries[i].inside
       PROVE  \A i \in DOMAIN kept : kept[i].inside
  <2>1. \A s \in E : s.inside
    BY <1>11 DEF E, ToSet
  <2>. QED BY <1>4, <1>5, <2>1
<1>. QED BY <1>3, <1>9, <1>10, <1>11

LEMMA FilledRanked ==
    ASSUME NEW S, \A s \in S : IsSymbol(s)
    PROVE  Ranked(Fill(S))
BY DEF Ranked, Fill, fill_symbol, IsSymbol

\* Sorting leaves the list what it is.
LEMMA SortedIs ==
    ASSUME NEW entries, Symbols(entries), NEW t, IsListOf(t, entries),
           DOMAIN t = {"symbols", "cells"}
    PROVE  IsListOf(Sorted(t), entries) /\ InOrder(Sorted(t).symbols)
<1>. DEFINE r == sort_sym(t.symbols)
            X == Fill(ToSet(entries))
<1>1. Ranked(X)
  BY FilledRanked DEF Symbols, ToSet
<1>2. t.symbols \in Seq(X)
  BY DEF IsListOf
<1>. HIDE DEF X
<1>3. /\ r \in Seq(X) /\ Len(r) = Len(t.symbols) /\ ToSet(r) = ToSet(t.symbols)
      /\ InOrder(r)
  BY <1>1, <1>2, SortCorrect
<1>4. Sorted(t).symbols = r /\ Sorted(t).cells = t.cells
  BY DEF Sorted
<1>. HIDE DEF r
<1>. QED BY <1>3, <1>4 DEF IsListOf, X

\* The first and the last of some places in a list.
LEMMA FirstOf ==
    ASSUME NEW n \in Nat, NEW S, S \subseteq 1..n, S # {}
    PROVE  Min(S) \in S /\ \A y \in S : Min(S) <= y
<1>1. S \subseteq Nat
  OBVIOUS
<1>2. \E x \in S : \A y \in S : x <= y
  BY <1>1, LeastOf
<1>. QED BY <1>2 DEF Min

LEMMA LastOf ==
    ASSUME NEW n \in Nat, NEW S, S \subseteq 1..n, S # {}
    PROVE  /\ Max(S) \in S /\ \A y \in S : Max(S) >= y
           /\ Max(S) = CHOOSE i \in S : \A j \in S : j <= i
<1>1. \E x \in S : \A y \in S : x >= y
  BY GreatestOf
<1>2. Max(S) \in S /\ \A y \in S : Max(S) >= y
  BY <1>1 DEF Max
<1>. DEFINE m == Max(S)
            c == CHOOSE i \in S : \A j \in S : j <= i
<1>3. m \in S /\ \A y \in S : y <= m
  BY <1>2
<1>. HIDE DEF m
<1>4. c \in S /\ \A j \in S : j <= c
  BY <1>3
<1>. HIDE DEF c
<1>5. m <= c /\ c <= m /\ m \in Nat /\ c \in Nat
  BY <1>3, <1>4
<1>6. m = c
  BY <1>5
<1>. QED BY <1>2, <1>6 DEF m, c

LEMMA SortedNothing == Sorted(NoTable) = NoTable
<1>1. sort_sym(<<>>) \in Seq({}) /\ Len(sort_sym(<<>>)) = Len(<<>>)
  <2>1. Ranked({}) /\ <<>> \in Seq({})
    BY DEF Ranked
  <2>. QED BY <2>1, SortCorrect
<1>2. sort_sym(<<>>) = <<>>
  BY <1>1, EmptySeq
<1>. QED BY <1>2 DEF Sorted, NoTable

\* What a list has to do with its file.
OfFile(t, elf) ==
    /\ \A s \in Entries(elf) : IsSymbol(s)
    /\ t.symbols \in Seq(Fill(Entries(elf)))
    /\ ToSet(t.symbols) = Fill(Keep(Entries(elf)))
    /\ t.cells \in Nat /\ Len(t.symbols) \in 0..t.cells
    /\ HasNull(elf) => Terminated(t)
    /\ InOrder(t.symbols)

LEMMA run_elfIs ==
    ASSUME NEW elf, IsElf(elf)
    PROVE  /\ run_elf(elf) # NoTable => OfFile(run_elf(elf), elf)
           /\ Sound(elf) => run_elf(elf) # NoTable
<1>. DEFINE tables == {i \in 1..Len(elf.sections) : elf.sections[i].symtab}
            table == SelectLastInSeq(elf.sections, LAMBDA s : s.symtab)
            Bad == \E i \in DOMAIN elf.sections :
                     LET s == elf.sections[i] IN ~s.header \/ (s.symtab /\ ~s.inside)
            entries == elf.sections[table].entries
<1>1. /\ Len(elf.sections) \in Nat /\ DOMAIN elf.sections = 1..Len(elf.sections)
      /\ \A i \in DOMAIN elf.sections : IsSection(elf.sections[i])
  <2>1. elf.sections \in Seq(ToSet(elf.sections))
    BY DEF IsElf
  <2>. QED BY <2>1, LenProperties DEF IsElf
<1>2. table = IF tables # {} THEN Max(tables) ELSE 0
  BY DEF SelectLastInSeq
<1>3. run_elf(elf) = IF Bad \/ table = 0 THEN NoTable ELSE Sorted(get_sym(entries))
  BY DEF run_elf
<1>. HIDE DEF table, Bad
<1>4. ASSUME tables # {}
      PROVE  /\ table \in tables /\ table # 0 /\ Entries(elf) = ToSet(entries)
             /\ Symbols(entries)
  <2>1. tables \subseteq 1..Len(elf.sections)
    OBVIOUS
  <2>2. tables = {i \in DOMAIN elf.sections : elf.sections[i].symtab}
    BY <1>1
  <2>. HIDE DEF tables
  <2>3. table \in tables /\ table = CHOOSE i \in tables : \A j \in tables : j <= i
    BY <1>1, <1>2, <1>4, <2>1, LastOf
  <2>4. table \in DOMAIN elf.sections /\ table # 0
    <3>1. table \in 1..Len(elf.sections)
      BY <2>1, <2>3
    <3>2. table # 0
      BY <1>1, <3>1
    <3>. QED BY <1>1, <3>1, <3>2
  <2>5. Symbols(entries)
    BY <1>1, <2>4 DEF IsSection, Symbols
  <2>6. Entries(elf) = ToSet(entries)
    BY <2>2, <2>3 DEF Entries
  <2>. QED BY <2>3, <2>4, <2>5, <2>6
<1>5. tables # {} \/ table = 0
  BY <1>2
<1>6. ASSUME tables # {} PROVE HasNull(elf) => entries # <<>> /\ ~Kept(entries[1])
  <2>1. table \in DOMAIN elf.sections /\ elf.sections[table].symtab
    BY <1>1, <1>4, <1>6
  <2>. QED BY <2>1 DEF HasNull, Kept
<1>. DEFINE got == get_sym(entries)
<1>7. ASSUME ~(Bad \/ table = 0)
      PROVE  /\ got # NoTable => OfFile(Sorted(got), elf) /\ Sorted(got) # NoTable
             /\ got = NoTable => Sorted(got) = NoTable
  <2>0. tables # {}
    BY <1>5, <1>7
  <2>. HIDE DEF tables
  <2>1. Symbols(entries) /\ Entries(elf) = ToSet(entries)
    BY <1>4, <2>0
  <2>. HIDE DEF entries
  <2>2. got # NoTable => IsListOf(got, entries) /\ DOMAIN got = {"symbols", "cells"}
    BY <2>1, get_symIs
  <2>3. got # NoTable => IsListOf(Sorted(got), entries) /\ InOrder(Sorted(got).symbols)
    <3>. HIDE DEF got
    <3>. QED BY <2>1, <2>2, SortedIs
  <2>4. HasNull(elf) => entries # <<>> /\ ~Kept(entries[1])
    BY <1>6, <2>0 DEF entries
  <2>5. \A s \in Entries(elf) : IsSymbol(s)
    BY <2>1 DEF Symbols, ToSet
  <2>6. ASSUME got # NoTable PROVE OfFile(Sorted(got), elf)
    <3>. HIDE DEF got
    <3>. QED BY <2>1, <2>3, <2>4, <2>5, <2>6 DEF OfFile, IsListOf, Terminated
  <2>7. got # NoTable => Sorted(got) # NoTable
    <3>. HIDE DEF got
    <3>1. NoTable.cells \notin Nat
      BY DEF NoTable
    <3>. QED BY <2>3, <3>1 DEF IsListOf
  <2>8. got = NoTable => Sorted(got) = NoTable
    BY SortedNothing
  <2>. QED BY <2>6, <2>7, <2>8
<1>8. ASSUME Sound(elf) PROVE ~(Bad \/ table = 0) /\ got # NoTable
  <2>1. tables # {}
    BY <1>1, <1>8 DEF Sound
  <2>2. ~Bad
    BY <1>8 DEF Sound, Bad
  <2>3. table # 0 /\ table \in DOMAIN elf.sections /\ Symbols(entries)
    BY <1>1, <1>4, <2>1
  <2>4. \A i \in DOMAIN entries : entries[i].inside
    BY <1>8, <2>3 DEF Sound
  <2>. HIDE DEF entries
  <2>. QED BY <2>2, <2>3, <2>4, get_symIs
<1>. HIDE DEF got, entries, tables
<1>9. run_elf(elf) # NoTable => ~(Bad \/ table = 0)
  BY <1>3
<1>10. ~(Bad \/ table = 0) => run_elf(elf) = Sorted(got)
  BY <1>3 DEF got
<1>. QED BY <1>7, <1>8, <1>9, <1>10

LEMMA LibIs ==
    ASSUME NEW elf, IsElf(elf)
    PROVE  /\ get_symbols_lib(elf) # NoTable => OfFile(get_symbols_lib(elf), elf)
           /\ Sound(elf) => get_symbols_lib(elf) # NoTable
<1>1. run_elf(elf) # NoTable => OfFile(run_elf(elf), elf)
  BY run_elfIs
<1>2. Sound(elf) => run_elf(elf) # NoTable
  BY run_elfIs
<1>3. Sound(elf) => elf.magic
  BY DEF Sound
<1>. QED BY <1>1, <1>2, <1>3 DEF get_symbols_lib

\* The values of a file's list are words of 32 bits.
LEMMA OfFileIsTable ==
    ASSUME NEW t, NEW elf, OfFile(t, elf)
    PROVE  IsTable(t)
<1>1. /\ t.symbols \in Seq(Fill(Entries(elf))) /\ t.cells \in Nat
      /\ Len(t.symbols) \in 0..t.cells /\ \A s \in Entries(elf) : IsSymbol(s)
  BY DEF OfFile
<1>2. \A s \in Fill(Entries(elf)) : s.value \in 0..(Word32 - 1)
  BY <1>1, SymbolTableAssumption DEF Fill, fill_symbol, IsSymbol
<1>3. \A i \in DOMAIN t.symbols : t.symbols[i] \in Fill(Entries(elf))
  BY <1>1, LenProperties
<1>. QED BY <1>1, <1>2, <1>3 DEF IsTable

-----------------------------------------------------------------------------
(* The cache, and the walk over the lines of the memory map.               *)

LEMMA FileIs ==
    ASSUME disk \in Disks, NEW f \in Files \union {Self}
    PROVE  IsElf(disk[f])
BY ResolverAssumption

LEMMA LoadableIs ==
    ASSUME disk \in Disks, NEW f \in Loadable
    PROVE  OfFile(get_symbols_lib(disk[f]), disk[f])
<1>1. IsElf(disk[f]) /\ get_symbols_lib(disk[f]) # NoTable
  BY FileIs DEF Loadable
<1>. QED BY <1>1, LibIs

Cached(list) == {list[i].file : i \in DOMAIN list}
Once(list) == IsInjective([i \in DOMAIN list |-> list[i].file])

\* The cache answers for the files in it and no other.
LEMMA ByLib ==
    ASSUME NEW list \in Seq(Cacheable), NEW f
    PROVE  /\ f \in Cached(list) => get_symbols_by_lib(list, f) = get_symbols_lib(disk[f])
                                    /\ get_symbols_by_lib(list, f) # NoTable
           /\ f \notin Cached(list) => get_symbols_by_lib(list, f) = NoTable
<1>. DEFINE S == {i \in 1..Len(list) : list[i].file = f}
            k == SelectInSeq(list, LAMBDA e : e.file = f)
<1>1. Len(list) \in Nat /\ DOMAIN list = 1..Len(list)
  BY LenProperties
<1>2. k = IF S # {} THEN Min(S) ELSE 0
  BY DEF SelectInSeq
<1>3. get_symbols_by_lib(list, f) = IF k = 0 THEN NoTable ELSE list[k].table
  BY DEF get_symbols_by_lib
<1>. HIDE DEF k
<1>4. CASE S = {}
  <2>1. f \notin Cached(list)
    BY <1>1, <1>4 DEF Cached
  <2>. QED BY <1>2, <1>3, <1>4, <2>1
<1>5. CASE S # {}
  <2>1. S \subseteq 1..Len(list)
    OBVIOUS
  <2>2. k \in S
    <3>. HIDE DEF S
    <3>. QED BY <1>1, <1>2, <1>5, <2>1, FirstOf
  <2>3. k # 0 /\ k \in DOMAIN list /\ list[k].file = f
    BY <1>1, <2>2
  <2>4. f \in Cached(list)
    BY <2>3 DEF Cached
  <2>5. list[k] \in Cacheable
    BY <2>3, LenProperties
  <2>6. list[k].table = get_symbols_lib(disk[f]) /\ f \in Loadable
    BY <2>3, <2>5 DEF Cacheable
  <2>. QED BY <1>3, <2>3, <2>4, <2>6 DEF Loadable
<1>. QED BY <1>4, <1>5

LEMMA PushIs ==
    ASSUME NEW list \in Seq(Cacheable), Once(list), NEW f \in Loadable, f \notin Cached(list)
    PROVE  LET r == push_lib(list, f, get_symbols_lib(disk[f]))
           IN r \in Seq(Cacheable) /\ Once(r) /\ Cached(r) = Cached(list) \union {f}
<1>. DEFINE e == [file |-> f, table |-> get_symbols_lib(disk[f])]
            r == push_lib(list, f, get_symbols_lib(disk[f]))
            n == Len(list)
<1>1. e \in Cacheable /\ e.file = f
  BY DEF Cacheable
<1>2. n \in Nat /\ DOMAIN list = 1..n /\ \A i \in 1..n : list[i] \in Cacheable
  BY LenProperties
<1>3. r = <<e>> \o list
  BY DEF push_lib, Cons
<1>. HIDE DEF e, r, n
<1>4. /\ r \in Seq(Cacheable) /\ Len(r) = n + 1 /\ DOMAIN r = 1..(n + 1) /\ r[1] = e
      /\ \A i \in 2..(n + 1) : r[i] = list[i - 1]
  <2>1. r \in Seq(Cacheable)
    BY <1>1, <1>3
  <2>2. Len(r) = n + 1
    BY <1>1, <1>2, <1>3 DEF n
  <2>3. DOMAIN r = 1..(n + 1)
    BY <2>1, <2>2, LenProperties
  <2>4. r[1] = e /\ \A i \in 2..(n + 1) : r[i] = list[i - 1]
    BY <1>1, <1>2, <1>3 DEF n
  <2>. QED BY <2>1, <2>2, <2>3, <2>4
<1>5. Cached(r) = Cached(list) \union {f}
  <2>1. ASSUME NEW i \in 1..(n + 1) PROVE r[i].file \in Cached(list) \union {f}
    <3>1. CASE i = 1
      BY <1>1, <1>4, <3>1
    <3>2. CASE i # 1
      <4>1. i \in 2..(n + 1) /\ i - 1 \in 1..n
        BY <1>2, <3>2
      <4>. QED BY <1>2, <1>4, <4>1 DEF Cached
    <3>. QED BY <3>1, <3>2
  <2>2. f \in Cached(r)
    <3>1. 1 \in 1..(n + 1)
      BY <1>2
    <3>. QED BY <1>1, <1>4, <3>1 DEF Cached
  <2>3. ASSUME NEW i \in 1..n PROVE list[i].file \in Cached(r)
    <3>1. i + 1 \in 2..(n + 1) /\ i + 1 \in 1..(n + 1) /\ (i + 1) - 1 = i
      BY <1>2
    <3>2. r[i + 1] = list[i]
      BY <1>4, <3>1
    <3>. QED BY <1>4, <3>1, <3>2 DEF Cached
  <2>. QED BY <1>2, <1>4, <2>1, <2>2, <2>3 DEF Cached
<1>6. ASSUME NEW i \in DOMAIN r, NEW j \in DOMAIN r, r[i].file = r[j].file PROVE i = j
  <2>1. \A m \in 1..n, l \in 1..n : list[m].file = list[l].file => m = l
    BY <1>2 DEF Once, IsInjective
  <2>2. \A m \in 1..n : list[m].file # f
    BY <1>2 DEF Cached
  <2>3. ASSUME NEW m \in DOMAIN r, m # 1
        PROVE  m - 1 \in 1..n /\ r[m] = list[m - 1] /\ m \in Int
    BY <1>2, <1>4, <2>3
  <2>4. CASE i = 1 /\ j = 1
    BY <2>4
  <2>5. CASE i = 1 /\ j # 1
    BY <1>1, <1>4, <1>6, <2>2, <2>3, <2>5
  <2>6. CASE i # 1 /\ j = 1
    BY <1>1, <1>4, <1>6, <2>2, <2>3, <2>6
  <2>7. CASE i # 1 /\ j # 1
    <3>1. i - 1 = j - 1
      BY <1>6, <2>1, <2>3, <2>7
    <3>. QED BY <2>3, <2>7, <3>1
  <2>. QED BY <2>4, <2>5, <2>6, <2>7
<1>7. Once(r)
  BY <1>6 DEF Once, IsInjective
<1>. QED BY <1>4, <1>5, <1>7 DEF r

\* The name displayed is one of the file's.
LEMMA ResolveIs ==
    ASSUME NEW line, NEW addr, line.file \in Loadable,
           OfFile(get_symbols_lib(disk[line.file]), disk[line.file])
    PROVE  resolve_symbol_lib(line, addr, get_symbols_lib(disk[line.file]))
             \in {NoName} \union Names(line.file)
<1>. DEFINE table == get_symbols_lib(disk[line.file])
            S == {i \in 1..Len(table.symbols) : table.symbols[i].value = addr - line.begin}
            k == SelectInSeq(table.symbols, LAMBDA s : s.value = addr - line.begin)
            r == resolve_symbol_lib(line, addr, table)
<1>1. Len(table.symbols) \in Nat /\ DOMAIN table.symbols = 1..Len(table.symbols)
  <2>1. table.symbols \in Seq(Fill(Entries(disk[line.file])))
    BY DEF OfFile
  <2>. HIDE DEF table
  <2>. QED BY <2>1, LenProperties
<1>2. k = IF S # {} THEN Min(S) ELSE 0
  BY DEF SelectInSeq
<1>3. r = IF table = NoTable \/ addr = line.begin THEN NoName
          ELSE IF k # 0 THEN [file |-> line.file, name |-> table.symbols[k].name]
          ELSE IF Terminated(table) THEN NoName
          ELSE [file |-> line.file, name |-> Overrun]
  BY DEF resolve_symbol_lib
<1>4. Names(line.file) = {[file |-> line.file, name |-> n] :
          n \in {s.name : s \in ToSet(table.symbols)}
                  \union IF Terminated(table) THEN {} ELSE {Overrun}}
  BY DEF Names
<1>. HIDE DEF table, k, r
<1>5. k # 0 => k \in DOMAIN table.symbols
  <2>1. S # {} => Min(S) \in S
    <3>1. S \subseteq 1..Len(table.symbols)
      OBVIOUS
    <3>. HIDE DEF S
    <3>. QED BY <1>1, <3>1, FirstOf
  <2>. QED BY <1>1, <1>2, <2>1
<1>6. k # 0 => table.symbols[k].name \in {s.name : s \in ToSet(table.symbols)}
  BY <1>5 DEF ToSet
<1>7. r \in {NoName} \union Names(line.file)
  BY <1>3, <1>4, <1>6
<1>. QED BY <1>7 DEF r, table

\* What get_lib may have gathered: entries of the cache, each file once, none that
\* cannot be opened but those that were there; and a name.
Gatherable(failing) ==
    {acc \in [list : Seq(Cacheable), name : Displayable] :
       Once(acc.list) /\ Cached(acc.list) \intersect failing \subseteq Cached(list_lib)}

LEMMA ExamineIs ==
    ASSUME disk \in Disks, NEW failing, NEW acc \in Gatherable(failing), NEW line,
           line.file \in Files \union {None}, NEW addr, NEW base
    PROVE  Examine(acc, line, addr, base, failing) \in Gatherable(failing)
<1>. DEFINE cached == get_symbols_by_lib(acc.list, line.file)
            sym == IF cached # NoTable THEN cached
                   ELSE IF line.file \in failing THEN NoTable
                   ELSE get_symbols_lib(disk[line.file])
            list == IF cached = NoTable /\ sym # NoTable
                    THEN push_lib(acc.list, line.file, sym) ELSE acc.list
            name == resolve_symbol_lib(line, addr, sym)
<1>1. CASE acc.name # NoName \/ ~Matches(line, addr, base)
  BY <1>1 DEF Examine
<1>2. CASE ~(acc.name # NoName \/ ~Matches(line, addr, base))
  <2>1. Examine(acc, line, addr, base, failing) = [list |-> list, name |-> name]
    BY <1>2 DEF Examine
  <2>2. line.file \in Files
    BY <1>2 DEF Matches
  <2>3. /\ acc.list \in Seq(Cacheable) /\ Once(acc.list)
        /\ Cached(acc.list) \intersect failing \subseteq Cached(list_lib)
    BY DEF Gatherable
  <2>4. sym # NoTable => sym = get_symbols_lib(disk[line.file]) /\ line.file \in Loadable
    BY <2>2, <2>3, ByLib DEF Loadable
  <2>5. cached = NoTable => line.file \notin Cached(acc.list)
    BY <2>3, ByLib
  <2>6. cached = NoTable /\ sym # NoTable => line.file \notin failing
    OBVIOUS
  <2>. HIDE DEF cached, sym
  <2>7. name \in Displayable
    <3>1. sym = NoTable => name = NoName
      BY DEF resolve_symbol_lib
    <3>2. sym # NoTable => name \in {NoName} \union Names(line.file)
      <4>. SUFFICES ASSUME sym # NoTable PROVE name \in {NoName} \union Names(line.file)
        OBVIOUS
      <4>1. OfFile(get_symbols_lib(disk[line.file]), disk[line.file])
        BY <2>4, LoadableIs
      <4>. QED BY <2>4, <4>1, ResolveIs
    <3>. HIDE DEF name
    <3>. QED BY <2>4, <3>1, <3>2 DEF Displayable
  <2>8. /\ list \in Seq(Cacheable) /\ Once(list)
        /\ Cached(list) \intersect failing \subseteq Cached(list_lib)
    <3>1. CASE cached = NoTable /\ sym # NoTable
      <4>1. list = push_lib(acc.list, line.file, get_symbols_lib(disk[line.file]))
        BY <2>4, <3>1
      <4>2. list \in Seq(Cacheable) /\ Once(list)
            /\ Cached(list) = Cached(acc.list) \union {line.file}
        BY <2>3, <2>4, <2>5, <3>1, <4>1, PushIs
      <4>. QED BY <2>3, <2>6, <3>1, <4>2
    <3>2. CASE ~(cached = NoTable /\ sym # NoTable)
      BY <2>3, <3>2
    <3>. QED BY <3>1, <3>2
  <2>. HIDE DEF list, name
  <2>. QED BY <2>1, <2>7, <2>8 DEF Gatherable
<1>. QED BY <1>1, <1>2

\* The turns of get_lib.
LibGoes(lines, n, addr, base, failing, h) ==
    /\ h \in [0..n -> Gatherable(failing)]
    /\ h[0] = [list |-> list_lib, name |-> NoName]
    /\ \A k \in 1..n : h[k] = Examine(h[k - 1], lines[k], addr, base, failing)
    /\ get_lib(lines, n, addr, base, failing) = h[n]

LEMMA LibTurns ==
    ASSUME disk \in Disks, list_lib \in Seq(Cacheable), CachedOnce,
           NEW n \in Nat, NEW lines,
           \A k \in 1..n : lines[k].file \in Files \union {None},
           NEW addr, NEW base, NEW failing
    PROVE  \E h : LibGoes(lines, n, addr, base, failing, h)
<1>. DEFINE S == Gatherable(failing)
            start == [list |-> list_lib, name |-> NoName]
            F(k, acc) == Examine(acc, lines[k], addr, base, failing)
            turn == [p \in (1..n) \X S |-> F(p[1], p[2])]
            Rec(g) == g = [k \in 0..n |->
                             IF k = 0 THEN start
                             ELSE LET before == g[k - 1] IN F(k, before)]
            state == CHOOSE g : Rec(g)
<1>1. start \in S
  <2>1. Once(list_lib)
    BY DEF CachedOnce, Once
  <2>. QED BY <2>1 DEF Gatherable, Displayable
<1>2. ASSUME NEW k \in 1..n, NEW acc \in S PROVE F(k, acc) \in S
  BY ExamineIs
<1>3. IsLoop(S, n, turn, start)
  <2>. HIDE DEF S, F, start
  <2>. QED BY <1>1, <1>2 DEF IsLoop
<1>4. PICK h : IsHistory(h, S, n, turn, start)
  <2>. HIDE DEF S, turn, start
  <2>. QED BY <1>3, LoopHistory
<1>5. ASSUME NEW k \in 1..n PROVE h[k] = F(k, h[k - 1])
  <2>1. k - 1 \in 0..n
    OBVIOUS
  <2>. HIDE DEF S, F, start
  <2>2. h[k - 1] \in S
    BY <1>4, <2>1 DEF IsHistory
  <2>. QED BY <1>4, <2>2 DEF IsHistory
<1>6. h \in [0..n -> S] /\ h[0] = start
  BY <1>4 DEF IsHistory
<1>7. Rec(h)
  <2>0. \A k \in 0..n : k # 0 => k \in 1..n
    OBVIOUS
  <2>. HIDE DEF S, F, start
  <2>. DEFINE G(g, k) == IF k = 0 THEN start ELSE F(k, g[k - 1])
  <2>1. h = [k \in 0..n |-> h[k]]
    BY <1>6
  <2>2. \A k \in 0..n : h[k] = G(h, k)
    BY <1>5, <1>6, <2>0
  <2>3. [k \in 0..n |-> h[k]] = [k \in 0..n |-> G(h, k)]
    <3>. HIDE DEF G
    <3>. QED BY <2>2
  <2>. QED BY <2>1, <2>3
<1>8. Rec(state)
  <2>. HIDE DEF Rec
  <2>. QED BY <1>7
<1>9. \A k \in 0..n : state[k] = h[k]
  <2>0. n \in Nat /\ 0 \in 0..n /\ \A k \in 1..n : k \in 0..n /\ k # 0
    OBVIOUS
  <2>. HIDE DEF state, S, F, start
  <2>1. state[0] = h[0]
    BY <1>6, <1>8, <2>0
  <2>2. ASSUME NEW k \in 1..n, state[k - 1] = h[k - 1] PROVE state[k] = h[k]
    <3>1. state[k] = F(k, state[k - 1])
      BY <1>8, <2>0
    <3>. QED BY <1>5, <2>2, <3>1
  <2>3. Alike(n, state, h)
    BY <2>1, <2>2 DEF Alike
  <2>. QED BY <2>0, <2>3, SameHistory
<1>10. get_lib(lines, n, addr, base, failing) = state[n]
  BY DEF get_lib, After
<1>11. n \in 0..n
  OBVIOUS
<1>. HIDE DEF state
<1>. QED BY <1>5, <1>6, <1>9, <1>10, <1>11 DEF LibGoes

-----------------------------------------------------------------------------
(* The steps.                                                              *)

\* What was left of the last reading changes the first line only: its bounds, or
\* its file into none.
LEMMA LinesAre ==
    ASSUME maps \in Layouts, NEW lines \in LinesRead
    PROVE  /\ Len(lines) \in Nat /\ Len(lines) = Len(maps)
           /\ \A k \in 1..Len(lines) :
                /\ maps[k] \in Mapping /\ lines[k].file \in {maps[k].file, None}
                /\ k # 1 => lines[k] = maps[k]
<1>. DEFINE n == Len(maps)
<1>1. maps \in Seq(Mapping)
  BY ResolverAssumption
<1>2. n \in Nat /\ maps \in [1..n -> Mapping]
  BY <1>1, LenProperties
<1>. HIDE DEF n
<1>3. CASE left # "part"
  <2>1. lines = maps
    BY <1>3 DEF LinesRead
  <2>. QED BY <1>2, <2>1 DEF n
<1>4. CASE left = "part"
  <2>0. \/ \E g \in Garbled : lines = [maps EXCEPT ![1].begin = g[1], ![1].end = g[2]]
        \/ lines = [maps EXCEPT ![1].file = None]
    BY <1>4 DEF LinesRead
  <2>1. PICK first : lines = [maps EXCEPT ![1] = first]
    BY <2>0
  <2>2. lines \in [1..n -> {lines[k] : k \in 1..n}]
    BY <1>2, <2>1
  <2>3. Len(lines) = n
    BY <1>2, <2>2
  <2>4. \A k \in 1..n : k # 1 => lines[k] = maps[k]
    BY <1>2, <2>1
  <2>5. 1 \in 1..n => lines[1].file \in {maps[1].file, None}
    <3>1. ASSUME 1 \in 1..n PROVE maps[1] \in Mapping
      BY <1>2, <3>1
    <3>2. ASSUME 1 \in 1..n, NEW g \in Garbled,
                 lines = [maps EXCEPT ![1].begin = g[1], ![1].end = g[2]]
          PROVE  lines[1].file = maps[1].file
      BY <1>2, <3>1, <3>2 DEF Mapping
    <3>3. ASSUME 1 \in 1..n, lines = [maps EXCEPT ![1].file = None]
          PROVE  lines[1].file = None
      BY <1>2, <3>1, <3>3 DEF Mapping
    <3>. QED BY <2>0, <3>2, <3>3
  <2>. QED BY <1>2, <2>3, <2>4, <2>5 DEF n
<1>. QED BY <1>3, <1>4

LEMMA TablesAre ==
    ASSUME disk \in Disks
    PROVE  /\ symbols = NoTable \/ (/\ loaded \in {Program, Self}
                                    /\ symbols = get_symbols(disk[loaded]))
                => IsTable(symbols)
           /\ list_lib \in Seq(Cacheable) =>
                \A i \in DOMAIN list_lib :
                  list_lib[i].file \in Files /\ IsTable(list_lib[i].table)
<1>1. ASSUME symbols # NoTable, loaded \in {Program, Self},
             symbols = get_symbols(disk[loaded])
      PROVE  IsTable(symbols)
  <2>1. loaded \in Files \union {Self}
    BY <1>1, ResolverAssumption
  <2>2. IsElf(disk[loaded])
    BY <2>1, FileIs
  <2>3. OfFile(symbols, disk[loaded])
    BY <1>1, <2>2, LibIs DEF get_symbols
  <2>. QED BY <2>3, OfFileIsTable
<1>2. symbols = NoTable => IsTable(symbols)
  BY DEF IsTable
<1>3. ASSUME list_lib \in Seq(Cacheable), NEW i \in DOMAIN list_lib
      PROVE  list_lib[i].file \in Files /\ IsTable(list_lib[i].table)
  <2>1. list_lib[i] \in Cacheable
    BY <1>3
  <2>2. PICK f \in Loadable : list_lib[i] = [file |-> f, table |-> get_symbols_lib(disk[f])]
    BY <2>1 DEF Cacheable
  <2>3. OfFile(get_symbols_lib(disk[f]), disk[f])
    BY LoadableIs
  <2>4. IsTable(get_symbols_lib(disk[f]))
    BY <2>3, OfFileIsTable
  <2>. QED BY <2>2, <2>4 DEF Loadable
<1>. QED BY <1>1, <1>2, <1>3

ResolverInv ==
    /\ disk \in Disks /\ maps \in Layouts
    /\ left \in {"nothing", "part"} /\ loaded \in {None, Program, Self}
    /\ last.addr \in {0} \union Addr /\ last.failing \subseteq Files
    /\ last.read \in 0..Len(maps)
    /\ CacheInv /\ ProgramInv

LEMMA ResolverInit == Init => ResolverInv
<1>. SUFFICES ASSUME Init PROVE ResolverInv
  OBVIOUS
<1>1. CacheInv
  BY DEF Init, CacheInv, CachedOnce, IsInjective, Displayable, NoLookup
<1>2. ProgramInv
  BY DEF Init, ProgramInv, NoLookup
<1>. QED BY <1>1, <1>2 DEF Init, ResolverInv, NoLookup

\* Nothing but the last lookup changed, and this is none.
LEMMA NoLookupKeeps ==
    ASSUME ResolverInv, UNCHANGED <<static, list_lib>>, maps' \in Layouts,
           left' = left, last' = NoLookup
    PROVE  ResolverInv'
<1>. USE DEF static
<1>1. CacheInv'
  BY DEF ResolverInv, CacheInv, CachedOnce, Displayable, Names, Cacheable, Loadable, NoLookup
<1>2. ProgramInv'
  BY DEF ResolverInv, ProgramInv, NoLookup
<1>. QED BY <1>1, <1>2 DEF ResolverInv, NoLookup

LEMMA LoadKeeps ==
    ASSUME ResolverInv, Load
    PROVE  ResolverInv'
<1>1. CacheInv'
  BY DEF Load, ResolverInv, CacheInv, CachedOnce, Displayable, Names, Cacheable, Loadable
<1>2. last = NoLookup
  BY DEF Load, ResolverInv, ProgramInv, Ready
<1>3. symbols' # NoTable =>
        loaded' \in {Program, Self} /\ symbols' = get_symbols(disk'[loaded'])
  BY DEF Load
<1>4. ProgramInv'
  BY <1>2, <1>3 DEF Load, ProgramInv, NoLookup
<1>. QED BY <1>1, <1>2, <1>4 DEF Load, ResolverInv, NoLookup

LEMMA LookupMainKeeps ==
    ASSUME ResolverInv, NEW addr \in Addr, LookupMain(addr)
    PROVE  ResolverInv'
<1>. USE DEF static, LookupMain
<1>1. /\ last'.addr = addr /\ last'.names = Aliases(addr) /\ last'.name = NoName
      /\ last'.failing = {} /\ last'.read = 0 /\ addr # 0
  BY ResolverAssumption DEF NoLookup, Addr
<1>2. CacheInv'
  <2>1. NoName \in Displayable'
    BY DEF Displayable
  <2>. QED BY <1>1, <2>1 DEF ResolverInv, CacheInv, CachedOnce, Cacheable, Loadable
<1>3. Aliases(last.addr)' = Aliases(addr)
  BY <1>1 DEF Aliases
<1>4. ProgramInv'
  <2>1. Ready'
    BY DEF Ready
  <2>2. (last.addr # 0 /\ last.names = Aliases(last.addr))'
    BY <1>1, <1>3
  <2>3. (symbols # NoTable =>
           loaded \in {Program, Self} /\ symbols = get_symbols(disk[loaded]))'
    BY DEF ResolverInv, ProgramInv
  <2>. QED BY <2>1, <2>2, <2>3 DEF ProgramInv
<1>5. 0 \in 0..Len(maps)
  <2>1. maps \in Seq(Mapping)
    BY ResolverAssumption DEF ResolverInv
  <2>. QED BY <2>1, LenProperties
<1>. QED BY <1>1, <1>2, <1>4, <1>5 DEF ResolverInv

\* A lookup in the libraries: what it makes of the cache and the names.
LEMMA LookupMakes ==
    ASSUME ResolverInv, NEW lines \in LinesRead, NEW n \in 0..Len(maps),
           NEW addr, NEW base, NEW failing
    PROVE  LET r == get_lib(lines, n, addr, base, failing)
           IN r \in Gatherable(failing) /\ \E h : LibGoes(lines, n, addr, base, failing, h)
<1>1. /\ n \in Nat /\ n <= Len(lines)
      /\ \A k \in 1..n : lines[k].file \in Files \union {None}
  <2>1. /\ Len(lines) \in Nat /\ Len(lines) = Len(maps)
        /\ \A k \in 1..Len(lines) :
             maps[k] \in Mapping /\ lines[k].file \in {maps[k].file, None}
    BY LinesAre DEF ResolverInv
  <2>. QED BY <2>1 DEF Mapping
<1>2. disk \in Disks /\ list_lib \in Seq(Cacheable) /\ CachedOnce
  BY DEF ResolverInv, CacheInv
<1>3. PICK h : LibGoes(lines, n, addr, base, failing, h)
  BY <1>1, <1>2, LibTurns
<1>4. get_lib(lines, n, addr, base, failing) \in Gatherable(failing)
  <2>1. n \in 0..n
    BY <1>1
  <2>. QED BY <1>3, <2>1 DEF LibGoes
<1>. QED BY <1>3, <1>4

LEMMA LookupKeeps ==
    ASSUME ResolverInv, NEW addr \in Addr, NEW failing \in SUBSET Files,
           Lookup(addr, failing)
    PROVE  ResolverInv'
<1>. USE DEF static
<1>0. disk' = disk /\ symbols' = symbols /\ loaded' = loaded /\ maps' = maps
  BY DEF Lookup
<1>. DEFINE base == find_header(addr)
<1>1. PICK lines \in LinesRead, n \in 0..Len(maps) :
        LET r == get_lib(lines, n, addr, base, failing)
        IN /\ list_lib' = r.list /\ left' \in Leftovers(r.name, n)
           /\ last'.addr = addr /\ last'.names = <<>> /\ last'.name = r.name
           /\ last'.failing = failing /\ last'.read = n
  BY DEF Lookup
<1>2. PICK r \in Gatherable(failing) :
        /\ list_lib' = r.list /\ left' \in Leftovers(r.name, n)
        /\ last'.addr = addr /\ last'.names = <<>> /\ last'.name = r.name
        /\ last'.failing = failing /\ last'.read = n
  <2>. HIDE DEF base
  <2>. QED BY <1>1, LookupMakes
<1>3. addr # 0
  BY ResolverAssumption DEF Addr
<1>4. CacheInv'
  <2>1. r.list \in Seq(Cacheable) /\ Once(r.list) /\ r.name \in Displayable
    BY DEF Gatherable
  <2>2. Cacheable' = Cacheable
    BY <1>0 DEF Cacheable, Loadable
  <2>3. Displayable' = Displayable
    BY <1>0 DEF Displayable, Names, Loadable
  <2>4. CachedOnce'
    BY <1>2, <2>1 DEF CachedOnce, Once
  <2>. QED BY <1>2, <2>1, <2>2, <2>3, <2>4 DEF CacheInv
<1>5. ProgramInv'
  <2>1. Ready' /\ Aliases(addr) = <<>>
    BY <1>0 DEF Lookup, Ready
  <2>2. Aliases(last.addr)' = Aliases(addr)
    BY <1>0, <1>2 DEF Aliases
  <2>3. (last.addr # 0 /\ last.names = Aliases(last.addr))'
    BY <1>2, <1>3, <2>1, <2>2
  <2>4. (symbols # NoTable =>
           loaded \in {Program, Self} /\ symbols = get_symbols(disk[loaded]))'
    BY <1>0 DEF ResolverInv, ProgramInv
  <2>. QED BY <2>1, <2>3, <2>4 DEF ProgramInv
<1>6. left' \in {"nothing", "part"}
  BY <1>2 DEF Leftovers
<1>. QED BY <1>0, <1>2, <1>4, <1>5, <1>6 DEF ResolverInv

LEMMA ResolverNext == ResolverInv /\ [Next]_vars => ResolverInv'
<1>. SUFFICES ASSUME ResolverInv, [Next]_vars PROVE ResolverInv'
  OBVIOUS
<1>1. CASE Load
  BY <1>1, LoadKeeps
<1>2. ASSUME NEW addr \in Addr, LookupMain(addr) PROVE ResolverInv'
  BY <1>2, LookupMainKeeps
<1>3. ASSUME NEW addr \in Addr, LookupNothing(addr) PROVE ResolverInv'
  BY <1>3, NoLookupKeeps DEF LookupNothing, ResolverInv
<1>4. ASSUME NEW addr \in Addr, NEW failing \in SUBSET Files, Lookup(addr, failing)
      PROVE  ResolverInv'
  BY <1>4, LookupKeeps
<1>5. CASE Remap
  BY <1>5, NoLookupKeeps DEF Remap, static
<1>6. CASE UNCHANGED vars
  <2>. USE <1>6 DEF vars, static
  <2>1. CacheInv'
    BY DEF ResolverInv, CacheInv, CachedOnce, Displayable, Names, Cacheable, Loadable
  <2>2. Aliases(last.addr)' = Aliases(last.addr)
    BY DEF Aliases
  <2>3. ProgramInv'
    BY <2>2 DEF ResolverInv, ProgramInv, Ready
  <2>. QED BY <2>1, <2>3 DEF ResolverInv
<1>. QED BY <1>1, <1>2, <1>3, <1>4, <1>5, <1>6 DEF Next

LEMMA Resolver == Spec => []ResolverInv
BY ResolverInit, ResolverNext, PTL DEF Spec

-----------------------------------------------------------------------------
(* What it is for.                                                         *)

\* What was loaded and looked up is of its type: no value of a list has more than
\* the 32 bits resolve_symbol compares.
THEOREM TypeCorrect == Spec => []TypeOK
<1>1. ResolverInv => TypeOK
  BY TablesAre DEF ResolverInv, CacheInv, ProgramInv, TypeOK
<1>. QED BY <1>1, Resolver, PTL

\* get_symbols_by_lib is asked before a file is loaded: the cache never holds a file
\* twice.
THEOREM CachedOnceCorrect == Spec => []CachedOnce
<1>1. ResolverInv => CachedOnce
  BY DEF ResolverInv, CacheInv
<1>. QED BY <1>1, Resolver, PTL

\* The names the program's list has for an address.
LEMMA AliasesAre ==
    ASSUME NEW E, symbols.symbols \in Seq(Fill(E)), NEW addr
    PROVE  LET here == {s.name : s \in {x \in ToSet(symbols.symbols) : x.value = addr}}
           IN ToSet(Aliases(addr)) =
                IF Terminated(symbols) THEN here ELSE here \union {Overrun}
<1>. DEFINE list == symbols.symbols
            at == {s \in ToSet(list) : s.value = addr}
            matches == Only(list, at)
            n == Len(matches)
            names == [i \in DOMAIN matches |-> matches[i].name]
<1>1. list \in Seq(ToSet(list))
  <2>1. Len(list) \in Nat /\ DOMAIN list = 1..Len(list) /\ list \in [1..Len(list) -> Fill(E)]
    BY LenProperties
  <2>2. list \in [1..Len(list) -> ToSet(list)]
    BY <2>1 DEF ToSet
  <2>. HIDE DEF list
  <2>. QED BY <2>1, <2>2
<1>2. Aliases(addr) = IF Terminated(symbols) THEN names ELSE Append(names, Overrun)
  BY DEF Aliases
<1>3. matches \in Seq(at) /\ ToSet(matches) = at
  <2>1. at \subseteq ToSet(list)
    OBVIOUS
  <2>. HIDE DEF at, list
  <2>2. matches \in Seq(at) /\ ToSet(matches) = ToSet(list) \intersect at
    BY <1>1, OnlyIs
  <2>. QED BY <2>1, <2>2
<1>. HIDE DEF matches, at
<1>4. n \in Nat /\ DOMAIN matches = 1..n
  BY <1>3, LenProperties
<1>5. DOMAIN names = 1..n /\ \A i \in 1..n : names[i] = matches[i].name
  BY <1>4
<1>6. ToSet(names) = {s.name : s \in at}
  <2>1. ToSet(names) = {matches[i].name : i \in 1..n}
    BY <1>5 DEF ToSet
  <2>2. at = {matches[i] : i \in 1..n}
    BY <1>3, <1>4 DEF ToSet
  <2>. QED BY <2>1, <2>2
<1>7. ToSet(Append(names, Overrun)) = ToSet(names) \union {Overrun}
  <2>. DEFINE N == {matches[i].name : i \in 1..n} \union {Overrun}
              u == Append(names, Overrun)
  <2>1. names \in [1..n -> N]
    BY <1>4
  <2>. HIDE DEF N, names, n
  <2>2. names \in Seq(N) /\ Len(names) = n
    BY <1>4, <2>1
  <2>3. Overrun \in N
    BY DEF N
  <2>4. /\ DOMAIN u = 1..(n + 1) /\ u[n + 1] = Overrun
        /\ \A i \in 1..n : u[i] = names[i]
    <3>1. u \in Seq(N) /\ Len(u) = n + 1
      BY <2>2, <2>3, AppendProperties
    <3>2. DOMAIN u = 1..(n + 1)
      BY <3>1, LenProperties
    <3>. QED BY <2>2, <2>3, <3>2, AppendProperties
  <2>. HIDE DEF u
  <2>5. 1..(n + 1) = (1..n) \union {n + 1}
    BY <1>4
  <2>6. ToSet(u) = {u[i] : i \in 1..n} \union {Overrun}
    BY <2>4, <2>5 DEF ToSet
  <2>7. ToSet(names) = {names[i] : i \in 1..n}
    BY <1>5 DEF ToSet
  <2>8. {u[i] : i \in 1..n} = {names[i] : i \in 1..n}
    BY <2>4
  <2>. QED BY <2>6, <2>7, <2>8 DEF u
<1>. HIDE DEF names
<1>. QED BY <1>2, <1>6, <1>7 DEF at

LEMMA FilledNames ==
    ASSUME NEW S, \A s \in S : IsSymbol(s), NEW x \in Fill(S)
    PROVE  x.name # Overrun
BY DEF Fill, fill_symbol, IsSymbol

\* Neither walk, over the program's list or a library's, leaves its list: the null
\* symbol get_sym leaves out makes room for the cell that ends it.
THEOREM WalksEndCorrect == Spec => []WalksEnd
<1>1. ASSUME ResolverInv, \A f \in DOMAIN disk : HasNull(disk[f])
      PROVE  last.name.name # Overrun
  <2>1. CASE last.name = NoName
    BY <2>1 DEF NoName, None, Overrun
  <2>2. ASSUME NEW f \in Loadable, last.name \in Names(f) PROVE last.name.name # Overrun
    <3>. DEFINE table == get_symbols_lib(disk[f])
    <3>1. f \in DOMAIN disk /\ disk \in Disks
      BY <1>1, ResolverAssumption DEF ResolverInv, Loadable
    <3>2. OfFile(table, disk[f])
      BY <3>1, LoadableIs
    <3>3. Terminated(table)
      BY <1>1, <3>1, <3>2 DEF OfFile
    <3>4. PICK s \in ToSet(table.symbols) : last.name = [file |-> f, name |-> s.name]
      BY <2>2, <3>3 DEF Names
    <3>. HIDE DEF table
    <3>5. s \in Fill(Keep(Entries(disk[f]))) /\ \A e \in Entries(disk[f]) : IsSymbol(e)
      BY <3>2 DEF OfFile
    <3>6. s.name # Overrun
      <4>1. \A e \in Keep(Entries(disk[f])) : IsSymbol(e)
        BY <3>5 DEF Keep
      <4>. QED BY <3>5, <4>1, FilledNames
    <3>. QED BY <3>4, <3>6
  <2>3. last.name = NoName \/ \E f \in Loadable : last.name \in Names(f)
    BY <1>1 DEF ResolverInv, CacheInv, Displayable
  <2>. QED BY <2>1, <2>2, <2>3
<1>2. ASSUME ResolverInv, \A f \in DOMAIN disk : HasNull(disk[f])
      PROVE  Overrun \notin ToSet(last.names)
  <2>1. CASE last.addr = 0
    <3>1. last.names = <<>>
      BY <1>2, <2>1 DEF ResolverInv, ProgramInv, NoLookup
    <3>. QED BY <3>1 DEF ToSet
  <2>2. CASE last.addr # 0
    <3>1. /\ symbols # NoTable /\ loaded \in {Program, Self}
          /\ symbols = get_symbols(disk[loaded]) /\ last.names = Aliases(last.addr)
      BY <1>2, <2>2 DEF ResolverInv, ProgramInv, Ready
    <3>2. disk \in Disks /\ loaded \in Files \union {Self} /\ loaded \in DOMAIN disk
      BY <1>2, <3>1, ResolverAssumption DEF ResolverInv
    <3>. DEFINE E == Entries(disk[loaded])
    <3>3. OfFile(symbols, disk[loaded])
      BY <3>1, <3>2, FileIs, LibIs DEF get_symbols
    <3>4. /\ \A s \in E : IsSymbol(s)
          /\ symbols.symbols \in Seq(Fill(E))
          /\ ToSet(symbols.symbols) = Fill(Keep(E)) /\ Terminated(symbols)
      BY <1>2, <3>2, <3>3 DEF OfFile
    <3>. HIDE DEF E
    <3>5. ToSet(Aliases(last.addr)) =
            {s.name : s \in {x \in ToSet(symbols.symbols) : x.value = last.addr}}
      BY <3>4, AliasesAre
    <3>6. \A x \in ToSet(symbols.symbols) : x.name # Overrun
      <4>1. \A e \in Keep(E) : IsSymbol(e)
        BY <3>4 DEF Keep
      <4>. QED BY <3>4, <4>1, FilledNames
    <3>. QED BY <3>1, <3>5, <3>6
  <2>. QED BY <2>1, <2>2
<1>3. ResolverInv => WalksEnd
  BY <1>1, <1>2 DEF WalksEnd
<1>. QED BY <1>3, Resolver, PTL

\* resolve_symbol displays an address of the program below 2^32 with the names of
\* all its functions there, and no address with a name from elsewhere but that of a
\* symbol whose value was cut.
THEOREM MainCorrect == Spec => []MainIsNamed
<1>1. ASSUME ResolverInv, loaded = Program, symbols # NoTable, last.addr # 0,
             HasNull(disk[Program])
      PROVE  /\ last.addr < Word32 =>
                  {s.name : s \in {f \in Functions(disk[Program]) : f.value = last.addr}}
                    \subseteq ToSet(last.names)
             /\ ToSet(last.names) \subseteq
                  {s.name : s \in {f \in Entries(disk[Program]) :
                                     f.value = last.addr \/ f.value >= Word32}}
  <2>1. symbols = get_symbols(disk[Program]) /\ last.names = Aliases(last.addr)
    BY <1>1 DEF ResolverInv, ProgramInv
  <2>2. disk \in Disks /\ Program \in Files \union {Self}
    BY <1>1, ResolverAssumption DEF ResolverInv
  <2>. DEFINE E == Entries(disk[Program])
              addr == last.addr
  <2>3. OfFile(symbols, disk[Program])
    BY <1>1, <2>1, <2>2, FileIs, LibIs DEF get_symbols
  <2>4. /\ \A s \in E : IsSymbol(s)
        /\ symbols.symbols \in Seq(Fill(E))
        /\ ToSet(symbols.symbols) = Fill(Keep(E)) /\ Terminated(symbols)
    BY <1>1, <2>3 DEF OfFile
  <2>5. Functions(disk[Program]) = {s \in E : s.type = "FUNC"}
    BY DEF Functions
  <2>6. addr \in Nat /\ Word32 \in Nat \ {0}
    BY <1>1, ResolverAssumption, SymbolTableAssumption DEF ResolverInv, Addr
  <2>. HIDE DEF E, addr
  <2>7. ToSet(Aliases(addr)) =
          {s.name : s \in {x \in Fill(Keep(E)) : x.value = addr}}
    BY <2>4, AliasesAre
  <2>8. ASSUME addr < Word32, NEW s \in E, s.type = "FUNC", s.value = addr
        PROVE  s.name \in ToSet(Aliases(addr))
    <3>1. s \in Keep(E)
      BY <2>8 DEF Keep, Kept
    <3>2. fill_symbol(s).value = addr /\ fill_symbol(s).name = s.name
      BY <2>6, <2>8 DEF fill_symbol
    <3>. QED BY <2>7, <3>1, <3>2 DEF Fill
  <2>9. ASSUME NEW n \in ToSet(Aliases(addr))
        PROVE  \E s \in E : s.name = n /\ (s.value = addr \/ s.value >= Word32)
    <3>1. PICK s \in Keep(E) : fill_symbol(s).value = addr /\ fill_symbol(s).name = n
      BY <2>7 DEF Fill
    <3>2. s \in E /\ s.value \in Nat
      BY <2>4 DEF Keep, IsSymbol
    <3>3. s.name = n /\ s.value % Word32 = addr
      BY <3>1 DEF fill_symbol
    <3>4. s.value < Word32 => s.value % Word32 = s.value
      BY <2>6, <3>2
    <3>. QED BY <2>6, <3>2, <3>3, <3>4
  <2>. QED BY <2>1, <2>5, <2>8, <2>9 DEF E, addr
<1>2. ResolverInv => MainIsNamed
  BY <1>1 DEF MainIsNamed
<1>. QED BY <1>2, Resolver, PTL

-----------------------------------------------------------------------------
(* The names of libraries.                                                 *)

LEMMA LayoutIs ==
    ASSUME maps \in Layouts
    PROVE  /\ Len(maps) \in Nat
           /\ \A i \in 1..Len(maps) :
                /\ maps[i] \in Mapping /\ maps[i].begin \in Nat /\ maps[i].end \in Nat
                /\ maps[i].begin > 0 /\ maps[i].begin < maps[i].end
           /\ \A i, j \in 1..Len(maps) : i < j => maps[i].end <= maps[j].begin
<1>1. /\ maps \in Seq(Mapping)
      /\ \A i, j \in 1..Len(maps) : i < j => maps[i].end <= maps[j].begin
      /\ \A i \in 1..Len(maps) : maps[i].begin < maps[i].end
  BY ResolverAssumption
<1>2. Len(maps) \in Nat /\ \A i \in 1..Len(maps) : maps[i] \in Mapping
  BY <1>1, LenProperties
<1>3. \A i \in 1..Len(maps) :
        maps[i].begin \in Nat /\ maps[i].end \in Nat /\ maps[i].begin > 0
  BY <1>2, ResolverAssumption DEF Mapping, Addr
<1>. QED BY <1>1, <1>2, <1>3

\* The search for a header ends at that of the mapping the address is in.
LEMMA HeaderIs ==
    ASSUME maps \in Layouts, NEW addr \in Addr, NEW i \in HeaderLine(addr)
    PROVE  find_header(addr) = maps[i].begin
<1>. DEFINE Reached == {x \in 1..addr : Magic(x) /\ \A y \in x..addr : Readable(y)}
            b == maps[i].begin
            c == CHOOSE x \in Reached : \A y \in Reached : y <= x
<1>1. /\ i \in 1..Len(maps) /\ maps[i].header /\ b <= addr
      /\ \A y \in b..addr : Readable(y)
      /\ \A y \in (b + 1)..addr : ~Magic(y)
  BY DEF HeaderLine
<1>2. addr \in Nat /\ b \in 1..addr
  BY <1>1, LayoutIs, ResolverAssumption DEF Addr
<1>3. b \in Reached
  BY <1>1, <1>2 DEF Magic
<1>4. ASSUME NEW x \in Reached PROVE x <= b
  <2>1. x \in 1..addr /\ Magic(x)
    OBVIOUS
  <2>2. x > b => x \in (b + 1)..addr
    BY <1>2, <2>1
  <2>. HIDE DEF b, Reached
  <2>. QED BY <1>1, <1>2, <2>1, <2>2
<1>5. find_header(addr) = c
  BY <1>3 DEF find_header
<1>6. c \in Reached /\ \A y \in Reached : y <= c
  BY <1>3, <1>4
<1>7. c <= b /\ b <= c /\ c \in Nat /\ b \in Nat
  <2>1. c <= b
    BY <1>4, <1>6
  <2>2. b <= c
    BY <1>3, <1>6
  <2>3. c \in Nat
    BY <1>2, <1>6
  <2>. QED BY <1>2, <2>1, <2>2, <2>3
<1>8. c = b
  <2>. HIDE DEF c, b
  <2>. QED BY <1>7
<1>. QED BY <1>5, <1>8

\* No mapping before that one takes the address for its own.
LEMMA EarlierMisses ==
    ASSUME maps \in Layouts, NEW addr \in Addr, NEW i \in HeaderLine(addr),
           NEW j \in 1..Len(maps), j < i
    PROVE  ~Matches(maps[j], addr, maps[i].begin)
<1>1. i \in 1..Len(maps) /\ maps[i].begin <= addr
  BY DEF HeaderLine
<1>2. /\ maps[j].end <= maps[i].begin /\ maps[j].begin < maps[j].end
      /\ maps[j].begin \in Nat /\ maps[j].end \in Nat /\ maps[i].begin \in Nat
  BY <1>1, LayoutIs
<1>3. addr \in Nat
  BY ResolverAssumption DEF Addr
<1>. QED BY <1>1, <1>2, <1>3 DEF Matches

\* The list of the file gives the first of the names it has there.
LEMMA FirstNamed ==
    ASSUME NEW line, NEW addr \in Nat, line.begin \in Nat, NEW table, NEW elf,
           OfFile(table, elf), table # NoTable,
           NEW offset \in 1..(Word32 - 1), offset = addr - line.begin,
           NEW function \in Entries(elf), function.type = "FUNC", function.value = offset
    PROVE  \E s \in Entries(elf) :
             /\ s.value = offset \/ s.value >= Word32
             /\ \A f \in Entries(elf) : f.type = "FUNC" /\ f.value = offset => s.key <= f.key
             /\ resolve_symbol_lib(line, addr, table) = [file |-> line.file, name |-> s.name]
<1>. DEFINE E == Entries(elf)
            list == table.symbols
            n == Len(list)
            S == {i \in 1..n : list[i].value = offset}
            k == SelectInSeq(table.symbols, LAMBDA s : s.value = addr - line.begin)
<1>1. /\ \A s \in E : IsSymbol(s)
      /\ list \in Seq(Fill(E)) /\ ToSet(list) = Fill(Keep(E)) /\ InOrder(list)
  BY DEF OfFile
<1>2. n \in Nat /\ DOMAIN list = 1..n /\ \A i \in 1..n : list[i] \in Fill(E)
  BY <1>1, LenProperties
<1>3. k = IF S # {} THEN Min(S) ELSE 0
  BY DEF SelectInSeq
<1>4. resolve_symbol_lib(line, addr, table) =
        IF table = NoTable \/ addr = line.begin THEN NoName
        ELSE IF k # 0 THEN [file |-> line.file, name |-> list[k].name]
        ELSE IF Terminated(table) THEN NoName
        ELSE [file |-> line.file, name |-> Overrun]
  BY DEF resolve_symbol_lib
<1>5. Word32 \in Nat \ {0} /\ offset \in Nat /\ addr # line.begin
  BY SymbolTableAssumption
<1>. HIDE DEF E, k, list, n
<1>6. ASSUME NEW f \in E, f.type = "FUNC", f.value = offset
      PROVE  \E m \in S : list[m].key = f.key
  <2>1. f \in Keep(E)
    BY <1>6 DEF Keep, Kept
  <2>2. fill_symbol(f) \in ToSet(list)
    BY <1>1, <2>1 DEF Fill
  <2>3. PICK m \in 1..n : list[m] = fill_symbol(f)
    BY <1>2, <2>2 DEF ToSet
  <2>4. fill_symbol(f).value = offset /\ fill_symbol(f).key = f.key
    BY <1>5, <1>6 DEF fill_symbol
  <2>. QED BY <2>3, <2>4
<1>7. S # {} /\ S \subseteq 1..n
  BY <1>6 DEF E
<1>8. k \in S /\ \A m \in S : k <= m
  <2>. HIDE DEF S
  <2>. QED BY <1>2, <1>3, <1>7, FirstOf
<1>9. k # 0 /\ k \in 1..n
  BY <1>2, <1>8
<1>10. PICK s \in Keep(E) : list[k] = fill_symbol(s)
  <2>1. list[k] \in ToSet(list)
    BY <1>2, <1>9 DEF ToSet
  <2>. QED BY <1>1, <2>1 DEF Fill
<1>11. s \in E /\ s.value \in Nat
  BY <1>1 DEF Keep, IsSymbol
<1>12. list[k].name = s.name /\ list[k].key = s.key /\ s.value % Word32 = offset
  BY <1>8, <1>10 DEF fill_symbol
<1>13. s.value = offset \/ s.value >= Word32
  <2>1. s.value < Word32 => s.value % Word32 = s.value
    BY <1>5, <1>11
  <2>. QED BY <1>5, <1>11, <1>12, <2>1
<1>14. ASSUME NEW f \in E, f.type = "FUNC", f.value = offset PROVE s.key <= f.key
  <2>1. PICK m \in S : list[m].key = f.key
    BY <1>6, <1>14
  <2>2. list[k].key <= list[m].key
    BY <1>1, <1>7, <1>8, <1>9, <2>1 DEF InOrder, n
  <2>. QED BY <1>12, <2>1, <2>2
<1>15. resolve_symbol_lib(line, addr, table) = [file |-> line.file, name |-> s.name]
  BY <1>4, <1>5, <1>9, <1>12
<1>. QED BY <1>11, <1>13, <1>14, <1>15 DEF E

\* The name is one the file has at the offset, or a cut one, and not behind any of
\* its functions there.
NamedBy(f, offset, name) ==
    \E s \in Entries(disk[f]) :
        /\ s.value = offset \/ s.value >= Word32
        /\ \A g \in Entries(disk[f]) : g.type = "FUNC" /\ g.value = offset => s.key <= g.key
        /\ name = [file |-> f, name |-> s.name]

\* What get_lib returns for an address of a file's function: none of the lines
\* before answers, and the file's own does.
LEMMA KnownByLib ==
    ASSUME ResolverInv, NEW addr \in Addr, NEW failing, NEW lines \in LinesRead,
           NEW n \in 0..Len(maps), NEW i \in HeaderLine(addr), i <= n, NEW base, base = find_header(addr),
           lines # maps => ~Matches(lines[1], addr, base) /\ ~Matches(maps[1], addr, base),
           NEW f \in Files, f = maps[i].file, Sound(disk[f]),
           NEW offset, offset = addr - maps[i].begin, offset # 0, offset < Word32,
           NEW function \in Entries(disk[f]), function.type = "FUNC", function.value = offset,
           NEW r, r = get_lib(lines, n, addr, base, failing),
           f \notin failing \/ get_symbols_by_lib(r.list, f) # NoTable
    PROVE  NamedBy(f, offset, r.name)
<1>. DEFINE start == [list |-> list_lib, name |-> NoName]
            line == maps[i]
            table == get_symbols_lib(disk[f])
<1>1. maps \in Layouts /\ disk \in Disks /\ list_lib \in Seq(Cacheable)
  BY DEF ResolverInv, CacheInv
<1>2. base = line.begin /\ i \in 1..Len(maps)
  BY <1>1, HeaderIs DEF HeaderLine
<1>3. n \in Nat /\ n <= Len(maps) /\ \A k \in 1..n : k # 1 => lines[k] = maps[k]
  <2>1. /\ Len(lines) \in Nat /\ Len(lines) = Len(maps)
        /\ \A k \in 1..Len(lines) : k # 1 => lines[k] = maps[k]
    BY <1>1, LinesAre
  <2>. QED BY <2>1
<1>4. PICK h : LibGoes(lines, n, addr, base, failing, h)
  BY LookupMakes
<1>5. /\ h[0] = start /\ r = h[n]
      /\ \A k \in 1..n : h[k] = Examine(h[k - 1], lines[k], addr, base, failing)
  BY <1>4 DEF LibGoes
<1>6. Matches(line, addr, base)
  BY <1>2, ResolverAssumption DEF Matches
<1>7. lines[i] = line
  <2>1. CASE i = 1
    BY <1>6, <2>1
  <2>2. CASE i # 1
    BY <1>2, <1>3, <2>2
  <2>. QED BY <2>1, <2>2
<1>8. ASSUME NEW j \in 1..n, j < i PROVE ~Matches(lines[j], addr, base)
  <2>0. j \in 1..Len(maps)
    BY <1>2, <1>3, <1>8, LayoutIs, <1>1
  <2>1. ~Matches(maps[j], addr, base)
    BY <1>1, <1>2, <1>8, <2>0, EarlierMisses
  <2>2. CASE lines = maps
    BY <2>1, <2>2
  <2>3. CASE lines # maps /\ j = 1
    BY <2>3
  <2>4. CASE lines # maps /\ j # 1
    BY <1>3, <2>1, <2>4
  <2>. QED BY <2>2, <2>3, <2>4
<1>9. i \in Nat /\ i - 1 \in Nat /\ i <= n /\ i \in 1..n
  BY <1>2, <1>3
<1>. HIDE DEF start, line, table
<1>10. h[i - 1] = start
  <2>. DEFINE T == {k \in 0..(i - 1) : h[k] = start}
              m == i - 1
  <2>1. 0 \in T
    BY <1>5, <1>9
  <2>2. ASSUME NEW k \in 1..m, k - 1 \in T PROVE k \in T
    <3>0. n \in Nat
      BY <1>3
    <3>1. k \in 1..n /\ k < i /\ k \in 0..(i - 1)
      BY <1>9, <3>0
    <3>2. h[k] = Examine(h[k - 1], lines[k], addr, base, failing) /\ h[k - 1] = start
      BY <1>5, <2>2, <3>1
    <3>3. ~Matches(lines[k], addr, base)
      BY <1>8, <3>1
    <3>. QED BY <3>1, <3>2, <3>3 DEF Examine
  <2>3. 0..m \subseteq T
    <3>1. m \in Nat
      BY <1>9
    <3>. HIDE DEF T, m
    <3>. QED BY <2>1, <2>2, <3>1, TurnInduction
  <2>4. m \in 0..m
    BY <1>9
  <2>. QED BY <2>3, <2>4
<1>11. table # NoTable /\ OfFile(table, disk[f]) /\ f \in Loadable
  <2>1. IsElf(disk[f])
    BY <1>1, FileIs
  <2>2. table # NoTable /\ OfFile(table, disk[f])
    BY <2>1, LibIs DEF table
  <2>. QED BY <2>2 DEF Loadable, table
<1>12. f \notin failing \/ f \in Cached(list_lib)
  <2>1. r \in Gatherable(failing)
    BY LookupMakes
  <2>2. r.list \in Seq(Cacheable) /\ Cached(r.list) \intersect failing \subseteq Cached(list_lib)
    BY <2>1 DEF Gatherable
  <2>3. get_symbols_by_lib(r.list, f) # NoTable => f \in Cached(r.list)
    BY <2>2, ByLib
  <2>. QED BY <2>2, <2>3
<1>13. h[i].name = resolve_symbol_lib(line, addr, table)
  <2>. DEFINE cached == get_symbols_by_lib(list_lib, f)
              sym == IF cached # NoTable THEN cached
                     ELSE IF f \in failing THEN NoTable ELSE table
  <2>1. /\ f \in Cached(list_lib) => cached = table /\ cached # NoTable
        /\ f \notin Cached(list_lib) => cached = NoTable
    BY <1>1, ByLib DEF table
  <2>2. sym = table
    BY <1>12, <2>1
  <2>3. h[i] = Examine(start, line, addr, base, failing)
    BY <1>5, <1>7, <1>9, <1>10
  <2>4. line.file = f /\ start.list = list_lib /\ start.name = NoName
    BY DEF line, start
  <2>5. h[i].name = resolve_symbol_lib(line, addr, sym)
    BY <1>6, <2>3, <2>4 DEF Examine, table
  <2>. QED BY <2>2, <2>5
<1>14. PICK s \in Entries(disk[f]) :
         /\ s.value = offset \/ s.value >= Word32
         /\ \A g \in Entries(disk[f]) : g.type = "FUNC" /\ g.value = offset => s.key <= g.key
         /\ resolve_symbol_lib(line, addr, table) = [file |-> line.file, name |-> s.name]
  <2>1. addr \in Nat /\ line.begin \in Nat /\ line.begin > 0 /\ line.begin <= addr
    BY <1>1, <1>2, LayoutIs, ResolverAssumption DEF Addr, line, HeaderLine
  <2>2. offset \in 1..(Word32 - 1) /\ offset = addr - line.begin
    BY <2>1, ResolverAssumption, SymbolTableAssumption DEF Addr, line
  <2>3. table # NoTable /\ OfFile(table, disk[f])
    BY <1>11
  <2>. HIDE DEF line, table
  <2>. QED BY <2>1, <2>2, <2>3, FirstNamed, SMTT(30)
<1>15. h[i].name = [file |-> f, name |-> s.name] /\ h[i].name # NoName
  <2>1. h[i].name = [file |-> f, name |-> s.name]
    BY <1>13, <1>14 DEF line
  <2>2. f # None
    BY ResolverAssumption
  <2>. QED BY <2>1, <2>2 DEF NoName
<1>16. h[n].name = h[i].name
  <2>. DEFINE T == {k \in 0..n : k >= i => h[k].name = h[i].name}
  <2>1. 0 \in T
    BY <1>3, <1>9
  <2>2. ASSUME NEW k \in 1..n, k - 1 \in T PROVE k \in T
    <3>1. n \in Nat /\ k \in 0..n
      BY <1>3
    <3>2. CASE k > i
      <4>1. h[k - 1].name # NoName /\ h[k - 1].name = h[i].name
        BY <1>9, <1>15, <2>2, <3>1, <3>2
      <4>2. h[k] = Examine(h[k - 1], lines[k], addr, base, failing)
        BY <1>5
      <4>3. h[k] = h[k - 1]
        BY <4>1, <4>2 DEF Examine
      <4>. QED BY <3>1, <4>1, <4>3
    <3>3. CASE ~(k > i)
      BY <1>9, <3>1, <3>3
    <3>. QED BY <3>2, <3>3
  <2>3. 0..n \subseteq T
    <3>1. n \in Nat
      BY <1>3
    <3>. HIDE DEF T
    <3>. QED BY <2>1, <2>2, <3>1, TurnInduction
  <2>4. n \in 0..n
    BY <1>3
  <2>. QED BY <1>9, <2>3, <2>4
<1>. QED BY <1>5, <1>14, <1>15, <1>16 DEF NamedBy

LEMMA KnownInit == ResolverInv /\ last = NoLookup => KnownIsNamed
<1>. SUFFICES ASSUME ResolverInv, last = NoLookup PROVE KnownIsNamed
  OBVIOUS
<1>1. last.addr = 0
  BY DEF NoLookup
<1>2. \A i \in 1..Len(maps) : ~(maps[i].begin <= last.addr)
  BY <1>1, LayoutIs DEF ResolverInv
<1>3. HeaderLine(last.addr) = {}
  BY <1>2 DEF HeaderLine
<1>. QED BY <1>3 DEF KnownIsNamed

LEMMA KnownLookup ==
    ASSUME ResolverInv, NEW addr \in Addr, NEW failing \in SUBSET Files,
           Lookup(addr, failing)
    PROVE  KnownIsNamed'
<1>. DEFINE base == find_header(addr)
<1>1. PICK lines \in LinesRead, n \in 0..Len(maps) :
        LET r == get_lib(lines, n, addr, base, failing)
        IN /\ list_lib' = r.list
           /\ last' = [addr |-> addr, names |-> <<>>, name |-> r.name,
                       failing |-> failing, read |-> n,
                       misled |-> /\ lines # maps
                                  /\ \/ Matches(lines[1], addr, base)
                                     \/ Matches(maps[1], addr, base)]
  BY DEF Lookup
<1>2. disk' = disk /\ maps' = maps
  BY DEF Lookup, static
<1>. DEFINE r == get_lib(lines, n, addr, base, failing)
<1>3. /\ list_lib' = r.list /\ last'.addr = addr /\ last'.name = r.name
      /\ last'.failing = failing /\ last'.read = n
      /\ last'.misled = (/\ lines # maps
                         /\ \/ Matches(lines[1], addr, base)
                            \/ Matches(maps[1], addr, base))
  <2>. HIDE DEF r, base
  <2>. QED BY <1>1 DEF r
<1>. HIDE DEF r, base
<1>4. HeaderLine(last.addr)' = HeaderLine(addr)
  BY <1>2, <1>3 DEF HeaderLine, Readable, Mapped, Magic
<1>. SUFFICES ASSUME NEW i \in HeaderLine(addr), i <= n,
                     ~last'.misled, maps[i].file # None,
                     Sound(disk[maps[i].file]), addr - maps[i].begin # 0,
                     addr - maps[i].begin < Word32,
                     NEW function \in Entries(disk[maps[i].file]),
                     function.type = "FUNC", function.value = addr - maps[i].begin,
                     \/ maps[i].file \notin failing
                     \/ get_symbols_by_lib(r.list, maps[i].file) # NoTable
              PROVE  \E s \in Entries(disk[maps[i].file]) :
                       /\ s.value = addr - maps[i].begin \/ s.value >= Word32
                       /\ \A f \in Entries(disk[maps[i].file]) :
                            f.type = "FUNC" /\ f.value = addr - maps[i].begin => s.key <= f.key
                       /\ r.name = [file |-> maps[i].file, name |-> s.name]
  BY <1>2, <1>3, <1>4 DEF KnownIsNamed
<1>5. maps[i].file \in Files
  <2>1. maps[i] \in Mapping
    BY LayoutIs DEF ResolverInv, HeaderLine
  <2>. QED BY <2>1 DEF Mapping
<1>6. lines # maps => ~Matches(lines[1], addr, base) /\ ~Matches(maps[1], addr, base)
  BY <1>3
<1>. DEFINE f == maps[i].file
            offset == addr - maps[i].begin
<1>7. f \in Files /\ Sound(disk[f]) /\ offset # 0 /\ offset < Word32
  BY <1>5
<1>8. base = find_header(addr) /\ r = get_lib(lines, n, addr, base, failing)
  BY DEF r, base
<1>9. function \in Entries(disk[f]) /\ function.value = offset
  OBVIOUS
<1>10. f \notin failing \/ get_symbols_by_lib(r.list, f) # NoTable
  OBVIOUS
<1>11. f = maps[i].file /\ offset = addr - maps[i].begin
  OBVIOUS
<1>. HIDE DEF f, offset
<1>12. NamedBy(f, offset, r.name)
  BY <1>6, <1>7, <1>8, <1>9, <1>10, <1>11, KnownByLib
<1>. QED BY <1>12 DEF f, offset, NamedBy

LEMMA KnownNext == ResolverInv /\ ResolverInv' /\ KnownIsNamed /\ [Next]_vars => KnownIsNamed'
<1>. SUFFICES ASSUME ResolverInv, ResolverInv', KnownIsNamed, [Next]_vars
              PROVE  KnownIsNamed'
  OBVIOUS
<1>1. ASSUME last' = NoLookup PROVE KnownIsNamed'
  <2>1. (last = NoLookup)'
    BY <1>1 DEF NoLookup
  <2>2. (ResolverInv /\ last = NoLookup)' => KnownIsNamed'
    BY KnownInit, PTL
  <2>. QED BY <2>1, <2>2
<1>2. ASSUME UNCHANGED <<disk, maps, list_lib, last>> PROVE KnownIsNamed'
  BY <1>2 DEF KnownIsNamed, HeaderLine, Readable, Mapped, Magic
<1>3. CASE Load
  BY <1>2, <1>3 DEF Load
<1>4. ASSUME NEW addr \in Addr, LookupMain(addr) PROVE KnownIsNamed'
  <2>1. last'.names # <<>>
    BY <1>4 DEF LookupMain, NoLookup
  <2>. QED BY <2>1 DEF KnownIsNamed
<1>5. ASSUME NEW addr \in Addr, LookupNothing(addr) PROVE KnownIsNamed'
  BY <1>1, <1>5 DEF LookupNothing
<1>6. ASSUME NEW addr \in Addr, NEW failing \in SUBSET Files, Lookup(addr, failing)
      PROVE  KnownIsNamed'
  BY <1>6, KnownLookup
<1>7. CASE Remap
  BY <1>1, <1>7 DEF Remap
<1>8. CASE UNCHANGED vars
  BY <1>2, <1>8 DEF vars, static
<1>. QED BY <1>3, <1>4, <1>5, <1>6, <1>7, <1>8 DEF Next

\* An address of a library is displayed with the first of the names the file mapped
\* there has for it: find_header finds the file's own header, no line before it
\* answers, and the list is the file's, cached or not.
THEOREM KnownCorrect == Spec => []KnownIsNamed
<1>1. Init => KnownIsNamed
  BY ResolverInit, KnownInit DEF Init
<1>2. ResolverInv /\ ResolverInv' /\ KnownIsNamed /\ [Next]_vars => KnownIsNamed'
  BY KnownNext
<1>. QED BY <1>1, <1>2, Resolver, PTL DEF Spec
=============================================================================
