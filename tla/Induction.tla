----------------------------- MODULE Induction -----------------------------
(***************************************************************************)
(* Induction on the natural numbers without an operator: a set of numbers  *)
(* has a least element, so a set that holds 0 and with i - 1 also i holds  *)
(* every number.  The recursive functions of the models are folds along    *)
(* 1 .. n, and these exist.                                                *)
(***************************************************************************)
EXTENDS Integers, WellFoundedInduction, TLAPS

LEMMA LeastElement ==
  ASSUME NEW T, T \subseteq Nat, T # {}
  PROVE  \E m \in T : \A k \in T : m <= k
<1>1. PICK m \in T : \A k \in T : <<k, m>> \notin OpToRel(<, Nat)
  BY NatLessThanWellFounded, WFMin, Zenon
<1>2. \A k \in T : ~(k < m)
  <2>1. SUFFICES ASSUME NEW k \in T, k < m PROVE FALSE
    OBVIOUS
  <2>2. k \in Nat /\ m \in Nat
    OBVIOUS
  <2>3. <<k, m>> \in OpToRel(<, Nat)
    BY <2>1, <2>2, Zenon DEF OpToRel
  <2>4. QED BY <1>1, <2>3
<1>3. m \in Nat /\ \A k \in T : k \in Nat
  OBVIOUS
<1>4. \A k \in T : m <= k
  BY <1>2, <1>3
<1>5. QED BY <1>4

(* A set that holds 0 and with i - 1 also i holds every number up to n. *)
LEMMA UpTo ==
  ASSUME NEW n \in Nat, NEW T, 0 \in T,
         \A i \in 1 .. n : i - 1 \in T => i \in T
  PROVE  \A i \in 0 .. n : i \in T
<1> DEFINE U == {i \in 0 .. n : i \notin T}
<1> SUFFICES ASSUME U # {} PROVE FALSE
  OBVIOUS
<1>1. PICK m \in U : \A k \in U : m <= k
  <2>1. U \subseteq Nat
    OBVIOUS
  <2> HIDE DEF U
  <2> QED BY <2>1, LeastElement
<1>2. m \in 1 .. n /\ m - 1 \notin U
  BY <1>1
<1> QED
  BY <1>2

(* f goes from b along 1 .. n, and its i-th step is the function g[i].     *)
Follows(f, n, S, b, g) ==
  /\ f \in [0 .. n -> S]
  /\ f[0] = b
  /\ \A i \in 1 .. n : f[i] = g[i][f[i - 1]]

LEMMA FollowsExists ==
  ASSUME NEW n \in Nat, NEW S, NEW b \in S, NEW g \in [1 .. n -> [S -> S]]
  PROVE  \E f : Follows(f, n, S, b, g)
<1> DEFINE T == {k \in 0 .. n : \E f : Follows(f, k, S, b, g)}
<1>1. 0 \in T
  <2>1. Follows([i \in 0 .. 0 |-> b], 0, S, b, g)
    BY DEF Follows
  <2>2. 0 \in 0 .. n
    OBVIOUS
  <2> QED BY <2>1, <2>2
<1>2. ASSUME NEW k \in 1 .. n, k - 1 \in T PROVE k \in T
  <2>1. PICK f : Follows(f, k - 1, S, b, g)
    BY <1>2
  <2> DEFINE h == [i \in 0 .. k |-> IF i = k THEN g[k][f[k - 1]] ELSE f[i]]
  <2> USE DEF Follows
  <2>2. g[k][f[k - 1]] \in S
    BY <2>1
  <2>3. h \in [0 .. k -> S]
    BY <2>1, <2>2
  <2>4. \A i \in 1 .. k : h[i] = g[i][h[i - 1]]
    BY <2>1
  <2>5. h[0] = b
    BY <2>1
  <2> HIDE DEF h
  <2>6. Follows(h, k, S, b, g)
    BY <2>3, <2>4, <2>5
  <2> HIDE DEF Follows
  <2> QED BY <2>6
<1>3. n \in T
  <2> HIDE DEF T
  <2>1. \A i \in 0 .. n : i \in T
    BY <1>1, <1>2, UpTo
  <2>2. n \in 0 .. n
    OBVIOUS
  <2> QED BY <2>1, <2>2
<1> QED
  BY <1>3
=============================================================================
