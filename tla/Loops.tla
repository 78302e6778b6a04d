------------------------------- MODULE Loops -------------------------------
(***************************************************************************)
(* Induction, for the proofs about definitions that go through a list: a   *)
(* recursive function on 0..n is the history of a loop of n turns.         *)
(***************************************************************************)
EXTENDS Integers, WellFoundedInduction, TLAPS

LEMMA LessIsWellFounded == IsWellFoundedOn({p \in Nat \X Nat : p[1] < p[2]}, Nat)
<1>1. IsWellFoundedOn(OpToRel(<, Nat), Nat)
  BY NatLessThanWellFounded
<1>2. OpToRel(<, Nat) = {p \in Nat \X Nat : p[1] < p[2]}
  BY DEF OpToRel
<1>. QED BY <1>1, <1>2

\* Induction over the natural numbers, for a set in place of a formula.
LEMMA SetInduction ==
    ASSUME NEW T, 0 \in T, \A n \in Nat : n \in T => n + 1 \in T
    PROVE  Nat \subseteq T
<1>. DEFINE R == {p \in Nat \X Nat : p[1] < p[2]}
            Out == Nat \ T
<1>1. SUFFICES ASSUME Out # {} PROVE FALSE
  OBVIOUS
<1>2. PICK x \in Out : \A y \in Out : ~(<<y, x>> \in R)
  <2>1. Out \subseteq Nat
    OBVIOUS
  <2>2. IsWellFoundedOn(R, Nat)
    BY LessIsWellFounded
  <2>. HIDE DEF R, Out
  <2>. QED BY <1>1, <2>1, <2>2, WFMin
<1>3. x # 0 /\ x \in Nat
  OBVIOUS
<1>4. x - 1 \in Nat /\ <<x - 1, x>> \in R
  BY <1>3
<1>5. x - 1 \notin Out
  BY <1>2, <1>4
<1>6. x \in T
  BY <1>3, <1>4, <1>5
<1>. QED BY <1>6

\* The same as far as n.
LEMMA TurnInduction ==
    ASSUME NEW n \in Nat, NEW T, 0 \in T, \A k \in 1..n : k - 1 \in T => k \in T
    PROVE  0..n \subseteq T
<1>. DEFINE U == {m \in Nat : m <= n => m \in T}
<1>1. 0 \in U
  OBVIOUS
<1>2. ASSUME NEW m \in Nat, m \in U PROVE m + 1 \in U
  <2>1. SUFFICES ASSUME m + 1 <= n PROVE m + 1 \in T
    OBVIOUS
  <2>2. m \in T /\ m + 1 \in 1..n /\ m = (m + 1) - 1
    BY <1>2, <2>1
  <2>. QED BY <2>2
<1>3. Nat \subseteq U
  <2>. HIDE DEF U
  <2>. QED BY <1>1, <1>2, SetInduction
<1>. QED BY <1>3

\* A loop of n turns, each of which makes a state of S into another; and the states
\* it goes through.
IsLoop(S, n, turn, start) ==
    n \in Nat /\ turn \in [(1..n) \X S -> S] /\ start \in S

IsHistory(h, S, n, turn, start) ==
    /\ h \in [0..n -> S] /\ h[0] = start
    /\ \A k \in 1..n : h[k] = turn[<<k, h[k - 1]>>]

LEMMA LoopHistory ==
    ASSUME NEW S, NEW n, NEW turn, NEW start, IsLoop(S, n, turn, start)
    PROVE  \E h : IsHistory(h, S, n, turn, start)
<1>. USE DEF IsLoop
<1>. DEFINE Good(m) == \E h \in [0..m -> S] :
                h[0] = start /\ \A k \in 1..m : h[k] = turn[<<k, h[k - 1]>>]
            T == {m \in 0..n : Good(m)}
<1>1. 0 \in T
  <2>1. Good(0)
    <3>. WITNESS [k \in 0..0 |-> start] \in [0..0 -> S]
    <3>. QED OBVIOUS
  <2>. QED BY <2>1
<1>2. ASSUME NEW e \in 1..n, e - 1 \in T PROVE e \in T
  <2>. DEFINE m == e - 1
  <2>1. m \in Nat /\ m + 1 = e /\ m + 1 <= n
    OBVIOUS
  <2>2. PICK h \in [0..m -> S] :
            h[0] = start /\ \A k \in 1..m : h[k] = turn[<<k, h[k - 1]>>]
    BY <1>2
  <2>. HIDE DEF m
  <2>. DEFINE g == [k \in 0..(m + 1) |-> IF k <= m THEN h[k] ELSE turn[<<m + 1, h[m]>>]]
  <2>3. g \in [0..(m + 1) -> S]
    <3>1. turn[<<m + 1, h[m]>>] \in S
      BY <2>1, <2>2
    <3>. QED BY <2>1, <2>2, <3>1
  <2>4. g[0] = start
    BY <2>1, <2>2
  <2>5. ASSUME NEW k \in 1..(m + 1) PROVE g[k] = turn[<<k, g[k - 1]>>]
    <3>1. CASE k <= m
      <4>1. k \in 1..m /\ k - 1 \in 0..(m + 1) /\ k \in 0..(m + 1) /\ k - 1 <= m
        BY <2>1, <3>1
      <4>2. g[k] = h[k] /\ g[k - 1] = h[k - 1]
        BY <3>1, <4>1
      <4>. QED BY <2>2, <4>1, <4>2
    <3>2. CASE ~(k <= m)
      <4>1. k = m + 1 /\ k \in 0..(m + 1) /\ k - 1 = m /\ m \in 0..(m + 1)
        BY <2>1, <3>2
      <4>2. g[k] = turn[<<m + 1, h[m]>>] /\ g[k - 1] = h[m]
        BY <3>2, <4>1
      <4>. QED BY <4>1, <4>2
    <3>. QED BY <3>1, <3>2
  <2>. HIDE DEF g
  <2>6. Good(m + 1)
    BY <2>3, <2>4, <2>5
  <2>. QED BY <2>1, <2>6
<1>3. 0..n \subseteq T
  <2>. HIDE DEF T
  <2>. QED BY <1>1, <1>2, TurnInduction
<1>4. n \in T
  BY <1>3
<1>. QED BY <1>4 DEF IsHistory

\* Two histories that begin alike and go on alike are the same.
Alike(n, g, h) ==
    g[0] = h[0] /\ \A k \in 1..n : g[k - 1] = h[k - 1] => g[k] = h[k]

LEMMA SameHistory ==
    ASSUME NEW n \in Nat, NEW g, NEW h, Alike(n, g, h)
    PROVE  \A k \in 0..n : g[k] = h[k]
<1>. USE DEF Alike
<1>. DEFINE T == {k \in 0..n : g[k] = h[k]}
<1>1. 0..n \subseteq T
  <2>1. 0 \in T
    OBVIOUS
  <2>2. \A k \in 1..n : k - 1 \in T => k \in T
    OBVIOUS
  <2>. HIDE DEF T
  <2>. QED BY <2>1, <2>2, TurnInduction
<1>. QED BY <1>1

\* A set of natural numbers has a least one, and a greatest one if it ends.
LEMMA LeastOf ==
    ASSUME NEW S, S \subseteq Nat, S # {}
    PROVE  \E x \in S : \A y \in S : x <= y
<1>. DEFINE R == {p \in Nat \X Nat : p[1] < p[2]}
<1>1. PICK x \in S : \A y \in S : ~(<<y, x>> \in R)
  <2>1. IsWellFoundedOn(R, Nat)
    BY LessIsWellFounded
  <2>. HIDE DEF R
  <2>. QED BY <2>1, WFMin
<1>2. ASSUME NEW y \in S PROVE x <= y
  <2>1. x \in Nat /\ y \in Nat /\ ~(<<y, x>> \in R)
    BY <1>1
  <2>2. y < x => <<y, x>> \in R
    BY <2>1
  <2>. HIDE DEF R
  <2>. QED BY <2>1, <2>2
<1>. QED BY <1>2

LEMMA GreatestOf ==
    ASSUME NEW n \in Nat, NEW S, S \subseteq 1..n, S # {}
    PROVE  \E x \in S : \A y \in S : x >= y
<1>. DEFINE Down == {n - x : x \in S}
<1>1. Down \subseteq Nat /\ Down # {}
  <2>1. ASSUME NEW x \in S PROVE n - x \in Nat
    <3>1. x \in 1..n
      OBVIOUS
    <3>. QED BY <3>1
  <2>2. Down \subseteq Nat
    BY <2>1
  <2>3. Down # {}
    OBVIOUS
  <2>. QED BY <2>2, <2>3
<1>2. PICK d \in Down : \A e \in Down : d <= e
  <2>. HIDE DEF Down
  <2>. QED BY <1>1, LeastOf
<1>3. PICK x \in S : d = n - x
  OBVIOUS
<1>4. ASSUME NEW y \in S PROVE x >= y
  <2>1. n - y \in Down
    OBVIOUS
  <2>. QED BY <1>2, <1>3, <2>1
<1>. QED BY <1>4
=============================================================================
