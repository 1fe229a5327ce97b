------------------------ MODULE TimerListRaceProofs ------------------------
(***************************************************************************)
(* The list of timers never closes into a cycle, for any set of timers and *)
(* however the radio interrupts preempt TimerIrqHandler.                   *)
(*                                                                         *)
(* WalksEnd counts steps.  What is inductive is that the timers can be     *)
(* ranked so that following Next goes down (Falls).  Only TimerStart links *)
(* a timer in front of others, and the timer is on no walk from the head:  *)
(* the ranks of what the head leads to are spread, that of the timer put   *)
(* between two of them, and all others raised above it.                    *)
(***************************************************************************)
EXTENDS TimerListRace, Induction, FiniteSetTheorems

Nodes == Timers \cup {NULL}

(* Following Next goes down by the ranks r. *)
Falls(r) ==
  /\ r \in [Timers -> Nat]
  /\ \A t \in Timers : next[t] # NULL => r[next[t]] < r[t]

Pointers ==
  /\ head \in Nodes /\ behind \in Nodes /\ cur \in Nodes
  /\ next \in [Timers -> Nodes]

IInv == Pointers /\ \E r : Falls(r)

(* w follows Next from x, n steps far, and stays at NULL. *)
Walks(w, n, x) ==
  /\ w \in [0 .. n -> Nodes]
  /\ w[0] = x
  /\ \A i \in 1 .. n :
       w[i] = IF w[i - 1] = NULL THEN NULL ELSE next[w[i - 1]]

LEMMA CountIs == Count \in Nat
BY FS_CardinalityType, TimerListRaceAssumption DEF Count

(* From any timer there is a walk, ... *)
LEMMA WalkExists ==
  ASSUME Pointers, NEW x \in Nodes, NEW n \in Nat
  PROVE  \E w : Walks(w, n, x)
<1> DEFINE S == Nodes
           Step(y) == IF y = NULL THEN NULL ELSE next[y]
           g == [i \in 1 .. n |-> [y \in S |-> Step(y)]]
<1>1. \A y \in S : Step(y) \in S
  BY DEF Pointers, Nodes
<1> HIDE DEF Step
<1>2. g \in [1 .. n -> [S -> S]]
  BY <1>1
<1>3. PICK w : Follows(w, n, S, x, g)
  <2> HIDE DEF g
  <2> QED
    BY <1>2, FollowsExists, Zenon
<1>4. /\ w \in [0 .. n -> S] /\ w[0] = x
      /\ \A i \in 1 .. n : w[i] = g[i][w[i - 1]]
  <2> HIDE DEF g, S
  <2> QED
    BY <1>3 DEF Follows
<1>5. \A i \in 1 .. n : w[i] = Step(w[i - 1])
  <2> SUFFICES ASSUME NEW i \in 1 .. n PROVE w[i] = Step(w[i - 1])
    OBVIOUS
  <2>1. g[i] = [y \in S |-> Step(y)]
    OBVIOUS
  <2> HIDE DEF g, S
  <2>2. i - 1 \in 0 .. n
    OBVIOUS
  <2>3. w[i - 1] \in S
    BY <1>4, <2>2
  <2> QED
    BY <1>4, <2>1, <2>3
<1> QED
  BY <1>4, <1>5 DEF Walks, Step

(* ... and only one. *)
LEMMA WalkUnique ==
  ASSUME NEW n \in Nat, NEW x, NEW v, NEW w, Walks(v, n, x),
         w[0] = x,
         \A i \in 1 .. n : w[i] = IF w[i - 1] = NULL THEN NULL ELSE next[w[i - 1]]
  PROVE  \A i \in 0 .. n : w[i] = v[i]
<1> DEFINE T == {i \in 0 .. n : w[i] = v[i]}
<1>1. 0 \in T
  BY DEF Walks
<1>2. ASSUME NEW i \in 1 .. n, i - 1 \in T PROVE i \in T
  BY <1>2 DEF Walks
<1> HIDE DEF T
<1>3. \A i \in 0 .. n : i \in T
  BY <1>1, <1>2, UpTo
<1> QED
  BY <1>3 DEF T

(* A walk that goes down visits no timer twice, so it ends. *)
LEMMA WalkEnds ==
  ASSUME IInv, NEW x, NEW w, Walks(w, Count, x)
  PROVE  w[Count] = NULL
<1>1. PICK r : Falls(r)
  BY DEF IInv
<1> SUFFICES ASSUME w[Count] # NULL PROVE FALSE
  OBVIOUS
<1> DEFINE Down(i) == w[i] # NULL =>
                        \A j \in 0 .. i - 1 : w[j] # NULL /\ r[w[i]] < r[w[j]]
           T == {i \in 0 .. Count : Down(i)}
<1>2. 0 \in T
  BY CountIs
<1>3. ASSUME NEW i \in 1 .. Count, i - 1 \in T PROVE i \in T
  <2>1. i \in 0 .. Count /\ i - 1 \in 0 .. Count
    BY CountIs
  <2> SUFFICES ASSUME w[i] # NULL, NEW j \in 0 .. i - 1
               PROVE  w[j] # NULL /\ r[w[i]] < r[w[j]]
    BY <2>1
  <2>2. w[i - 1] # NULL /\ w[i] = next[w[i - 1]]
    BY DEF Walks
  <2>3. w[i - 1] \in Timers /\ w[i] \in Timers /\ w[j] \in Nodes
    <3>1. j \in 0 .. Count /\ w \in [0 .. Count -> Nodes]
      BY CountIs DEF Walks
    <3>2. w[i - 1] \in Nodes /\ w[i] \in Nodes /\ w[j] \in Nodes
      BY <2>1, <3>1
    <3> QED
      BY <2>2, <3>2 DEF Nodes
  <2>4. r[w[i]] < r[w[i - 1]]
    BY <1>1, <2>2, <2>3 DEF Falls
  <2>5. CASE j = i - 1
    BY <2>2, <2>4, <2>5
  <2>6. CASE j \in 0 .. i - 2
    <3>1. w[j] # NULL /\ r[w[i - 1]] < r[w[j]]
      BY <1>3, <2>2, <2>6
    <3>2. w[j] \in Timers
      BY <2>3, <3>1 DEF Nodes
    <3>3. r[w[i]] \in Nat /\ r[w[i - 1]] \in Nat /\ r[w[j]] \in Nat
      BY <1>1, <2>3, <3>2 DEF Falls
    <3> QED
      BY <2>4, <3>1, <3>3
  <2> QED
    BY <2>5, <2>6
<1> HIDE DEF T
<1>4. \A i \in 0 .. Count : i \in T
  BY <1>2, <1>3, CountIs, UpTo
<1>5. \A i \in 0 .. Count : Down(i)
  BY <1>4 DEF T
<1>6. \A i \in 0 .. Count : w[i] \in Timers
  <2> SUFFICES ASSUME NEW i \in 0 .. Count PROVE w[i] # NULL
    BY DEF Walks, Nodes
  <2>1. Count \in 0 .. Count
    BY CountIs
  <2>2. CASE i = Count
    BY <2>2
  <2>3. CASE i \in 0 .. Count - 1
    BY <1>5, <2>1, <2>3
  <2> QED
    BY <2>2, <2>3, CountIs
<1>7. w \in [0 .. Count -> Timers]
  BY <1>6 DEF Walks
<1>8. PICK i, j \in 0 .. Count : i # j /\ w[i] = w[j]
  <2>1. /\ IsFiniteSet(0 .. Count) /\ Cardinality(0 .. Count) = Count + 1
    BY FS_Interval, CountIs
  <2>2. Cardinality(Timers) < Cardinality(0 .. Count)
    BY <2>1, CountIs DEF Count
  <2> QED
    BY <1>7, <2>1, <2>2, FS_PigeonHole, TimerListRaceAssumption
<1>9. \A k, l \in 0 .. Count : k < l => r[w[l]] < r[w[k]]
  BY <1>5, <1>6, CountIs, TimerListRaceAssumption
<1>10. r[w[i]] \in Nat
  BY <1>1, <1>6 DEF Falls
<1> QED
  BY <1>8, <1>9, <1>10, CountIs

-----------------------------------------------------------------------------
(* What the walk from the head says of Place and of Chain. *)
LEMMA PlaceIs ==
  ASSUME IInv, NEW w, Walks(w, Count, head)
  PROVE  \A i \in 1 .. Count + 1 : Place[i] = w[i - 1]
<1> DEFINE D == 1 .. Count + 1
           Is(p) == p = [i \in D |-> IF i = 1 THEN head
                                    ELSE IF p[i - 1] = NULL THEN NULL
                                    ELSE next[p[i - 1]]]
           at == CHOOSE p : p = [i \in D |-> IF i = 1 THEN head
                                  ELSE IF p[i - 1] = NULL THEN NULL
                                  ELSE next[p[i - 1]]]
           f == [i \in D |-> w[i - 1]]
<1>1. Count \in Nat
  BY CountIs
<1>2. Is(f)
  <2>1. \A i \in D : i # 1 => i - 1 \in D /\ i - 1 \in 1 .. Count
    BY <1>1
  <2>2. \A i \in D : f[i] = w[i - 1]
    OBVIOUS
  <2>3. f[1] = head
    BY <1>1, <2>2 DEF Walks
  <2>4. \A i \in D : i # 1 => f[i] = IF f[i - 1] = NULL THEN NULL
                                                      ELSE next[f[i - 1]]
    <3> SUFFICES ASSUME NEW i \in D, i # 1
                 PROVE  f[i] = IF f[i - 1] = NULL THEN NULL ELSE next[f[i - 1]]
      OBVIOUS
    <3>1. f[i] = w[i - 1] /\ f[i - 1] = w[(i - 1) - 1]
      BY <2>1, <2>2
    <3> QED
      BY <2>1, <3>1 DEF Walks
  <2>5. f = [i \in D |-> f[i]]
    OBVIOUS
  <2> HIDE DEF f, D
  <2> QED
    BY <2>3, <2>4, <2>5
<1>3. Is(at)
  <2> HIDE DEF D, f
  <2> QED
    BY <1>2
<1>4. Place = at
  BY Zenon DEF Place
<1> HIDE DEF at
<1> DEFINE v == [i \in 0 .. Count |-> at[i + 1]]
<1>5. /\ v[0] = head
      /\ \A i \in 1 .. Count :
           v[i] = IF v[i - 1] = NULL THEN NULL ELSE next[v[i - 1]]
  <2>1. at[1] = head
    BY <1>1, <1>3
  <2>5. v[0] = head
    <3>1. 0 \in 0 .. Count /\ 0 + 1 = 1
      BY <1>1
    <3>2. v[0] = at[0 + 1]
      BY <3>1
    <3> QED
      BY <2>1, <3>1, <3>2
  <2> SUFFICES ASSUME NEW i \in 1 .. Count
               PROVE  v[i] = IF v[i - 1] = NULL THEN NULL ELSE next[v[i - 1]]
    BY <2>5
  <2>2. i + 1 \in D /\ i + 1 # 1 /\ (i + 1) - 1 = i
    BY <1>1
  <2>3. at[i + 1] = IF at[i] = NULL THEN NULL ELSE next[at[i]]
    BY <1>3, <2>2
  <2>4. v[i] = at[i + 1] /\ v[i - 1] = at[i]
    BY <1>1
  <2> QED
    BY <2>3, <2>4
<1>6. \A i \in 0 .. Count : v[i] = w[i]
  <2> HIDE DEF v
  <2> QED
    BY <1>1, <1>5, WalkUnique
<1> QED
  BY <1>1, <1>4, <1>6

(* The chain holds the m timers the head leads to. *)
LEMMA ChainIs ==
  ASSUME IInv
  PROVE  \E m \in 0 .. Count :
           /\ Chain \in [1 .. m -> Timers] /\ Len(Chain) = m
           /\ m = 0 => head = NULL
           /\ m > 0 => Chain[1] = head /\ next[Chain[m]] = NULL
           /\ \A i \in 1 .. m - 1 : next[Chain[i]] = Chain[i + 1]
<1>1. Count \in Nat
  BY CountIs
<1>2. PICK w : Walks(w, Count, head)
  BY <1>1, WalkExists DEF IInv, Pointers
<1>3. w[Count] = NULL
  BY <1>2, WalkEnds
<1> DEFINE N == {i \in 0 .. Count : w[i] = NULL}
<1>4. PICK m \in N : \A i \in N : m <= i
  <2>1. N \subseteq Nat /\ N # {}
    BY <1>1, <1>3
  <2> HIDE DEF N
  <2> QED
    BY <2>1, LeastElement
<1>5. /\ m \in 0 .. Count /\ m \in Nat /\ w[m] = NULL
      /\ \A i \in 0 .. m - 1 : w[i] \in Timers
  <2>1. m \in 0 .. Count /\ m \in Nat /\ w[m] = NULL
    BY <1>1, <1>4
  <2>2. ASSUME NEW i \in 0 .. m - 1 PROVE w[i] \in Timers
    <3>1. i \in 0 .. Count /\ w \in [0 .. Count -> Nodes]
      BY <1>1, <1>2, <2>1 DEF Walks
    <3>2. w[i] # NULL
      BY <1>4, <2>1, <3>1
    <3>3. w[i] \in Nodes
      BY <3>1
    <3> QED
      BY <3>2, <3>3 DEF Nodes
  <2> QED
    BY <2>1, <2>2
<1> HIDE DEF N
<1>6. \A i \in 1 .. Count + 1 : Place[i] = w[i - 1]
  BY <1>2, PlaceIs
<1> DEFINE D == {i \in 1 .. Count : \A j \in 1 .. i : Place[j] # NULL}
<1>7. D = 1 .. m
  <2>1. ASSUME NEW i \in D PROVE i \in 1 .. m
    <3>1. i <= m
      <4> SUFFICES ASSUME i > m PROVE FALSE
        BY <1>5
      <4>1. m + 1 \in 1 .. i /\ m + 1 \in 1 .. Count + 1 /\ (m + 1) - 1 = m
        BY <1>1, <1>5
      <4> QED
        BY <1>5, <1>6, <4>1
    <3> QED
      BY <1>5, <3>1
  <2>2. ASSUME NEW i \in 1 .. m PROVE i \in D
    <3>1. i \in 1 .. Count
      BY <1>1, <1>5
    <3>2. ASSUME NEW j \in 1 .. i PROVE Place[j] # NULL
      <4>1. j \in 1 .. Count + 1 /\ j - 1 \in 0 .. m - 1
        BY <1>1, <1>5
      <4> QED
        BY <1>5, <1>6, <4>1, TimerListRaceAssumption
    <3> QED
      BY <3>1, <3>2
  <2> QED
    BY <2>1, <2>2
<1>8. Cardinality(D) = m
  <2> HIDE DEF D
  <2>1. Cardinality(1 .. m) = m
    BY <1>5, FS_Interval
  <2> QED
    BY <1>7, <2>1
<1>9. Chain = [i \in 1 .. m |-> Place[i]]
  BY <1>8, Zenon DEF Chain
<1> HIDE DEF D
<1>10. \A i \in 1 .. m : Chain[i] = w[i - 1]
  BY <1>1, <1>5, <1>6, <1>9
<1>11. Chain \in [1 .. m -> Timers]
  <2>1. \A i \in 1 .. m : Chain[i] \in Timers
    BY <1>5, <1>10
  <2> QED
    BY <1>9, <2>1
<1>12. Len(Chain) = m
  <2>1. Chain \in Seq(Timers) /\ DOMAIN Chain = 1 .. m
    BY <1>5, <1>11
  <2> QED
    BY <1>5, <2>1
<1>13. \A i \in 1 .. m : next[Chain[i]] = w[i]
  <2> SUFFICES ASSUME NEW i \in 1 .. m PROVE next[Chain[i]] = w[i]
    OBVIOUS
  <2>1. i \in 1 .. Count /\ i - 1 \in 0 .. m - 1
    BY <1>1, <1>5
  <2>2. w[i] = IF w[i - 1] = NULL THEN NULL ELSE next[w[i - 1]]
    BY <1>2, <2>1 DEF Walks
  <2>3. w[i - 1] # NULL
    BY <1>5, <2>1, TimerListRaceAssumption
  <2> QED
    BY <1>10, <2>2, <2>3
<1>14. w[0] = head
  BY <1>2 DEF Walks
<1>15. m = 0 => head = NULL
  BY <1>5, <1>14
<1>16. m > 0 => Chain[1] = head /\ next[Chain[m]] = NULL
  BY <1>5, <1>10, <1>13, <1>14
<1>17. \A i \in 1 .. m - 1 : next[Chain[i]] = Chain[i + 1]
  BY <1>5, <1>10, <1>13
<1> QED
  BY <1>5, <1>11, <1>12, <1>15, <1>16, <1>17

(* What the head leads to leads nowhere else. *)
LEMMA ChainClosed ==
  ASSUME IInv
  PROVE  /\ ToSet(Chain) \subseteq Timers
         /\ head \in ToSet(Chain) \cup {NULL}
         /\ \A t \in ToSet(Chain) : next[t] \in ToSet(Chain) \cup {NULL}
         /\ \A i \in 1 .. Len(Chain) : Chain[i] \in ToSet(Chain)
         /\ \A i \in 2 .. Len(Chain) : /\ Chain[i - 1] \in Timers
                                        /\ next[Chain[i - 1]] = Chain[i]
<1>1. PICK m \in 0 .. Count :
        /\ Chain \in [1 .. m -> Timers] /\ Len(Chain) = m
        /\ m = 0 => head = NULL
        /\ m > 0 => Chain[1] = head /\ next[Chain[m]] = NULL
        /\ \A i \in 1 .. m - 1 : next[Chain[i]] = Chain[i + 1]
  BY ChainIs
<1>2. m \in Nat
  BY <1>1, CountIs
<1>3. ToSet(Chain) = {Chain[i] : i \in 1 .. m}
  BY <1>1 DEF ToSet
<1> HIDE DEF ToSet
<1>4. ASSUME NEW t \in ToSet(Chain) PROVE next[t] \in ToSet(Chain) \cup {NULL}
  <2>1. PICK i \in 1 .. m : t = Chain[i]
    BY <1>3
  <2>2. CASE i = m
    BY <1>1, <1>2, <2>1, <2>2
  <2>3. CASE i \in 1 .. m - 1
    <3>1. next[t] = Chain[i + 1] /\ i + 1 \in 1 .. m
      BY <1>1, <1>2, <2>1, <2>3
    <3> QED
      BY <1>3, <3>1
  <2> QED
    BY <1>2, <2>2, <2>3
<1>5. head \in ToSet(Chain) \cup {NULL}
  <2>1. CASE m = 0
    BY <1>1, <2>1
  <2>2. CASE m > 0
    <3>1. 1 \in 1 .. m
      BY <1>2, <2>2
    <3> QED
      BY <1>1, <1>3, <2>2, <3>1
  <2> QED
    BY <1>2, <2>1, <2>2
<1>6. ASSUME NEW i \in 2 .. Len(Chain)
      PROVE  Chain[i - 1] \in Timers /\ next[Chain[i - 1]] = Chain[i]
  <2>1. i - 1 \in 1 .. m /\ i - 1 \in 1 .. m - 1 /\ (i - 1) + 1 = i
    BY <1>1, <1>2, <1>6
  <2> QED
    BY <1>1, <2>1
<1> QED
  BY <1>1, <1>3, <1>4, <1>5, <1>6

(* The walk of WalksEnd ends. *)
LEMMA AllEnd ==
  ASSUME IInv
  PROVE  WalksEnd
<1> SUFFICES ASSUME NEW t \in Timers PROVE EndsFrom(t)
  BY DEF WalksEnd
<1> DEFINE D == 0 .. Count
           at == CHOOSE p : p = [i \in D |-> IF i = 0 THEN t
                                  ELSE IF p[i - 1] = NULL THEN NULL
                                  ELSE next[p[i - 1]]]
           Is(p) == p = [i \in D |-> IF i = 0 THEN t
                                  ELSE IF p[i - 1] = NULL THEN NULL
                                  ELSE next[p[i - 1]]]
<1>1. Count \in Nat
  BY CountIs
<1>2. PICK w : Walks(w, Count, t)
  <2>1. t \in Nodes /\ Pointers
    BY DEF Nodes, IInv
  <2> QED
    BY <1>1, <2>1, WalkExists
<1>3. Is(w)
  <2>1. \A i \in D : i # 0 => i \in 1 .. Count
    BY <1>1
  <2>2. w[0] = t /\ w = [i \in D |-> w[i]]
    BY <1>2 DEF Walks
  <2>3. \A i \in D : i # 0 => w[i] = IF w[i - 1] = NULL THEN NULL
                                                      ELSE next[w[i - 1]]
    BY <1>2, <2>1 DEF Walks
  <2> HIDE DEF D
  <2> QED
    BY <2>2, <2>3
<1>4. Is(at)
  <2> HIDE DEF D
  <2> QED
    BY <1>3
<1>5. EndsFrom(t) = (at[Count] = NULL)
  BY Zenon DEF EndsFrom
<1> HIDE DEF at
<1>6. /\ at[0] = t
      /\ \A i \in 1 .. Count :
           at[i] = IF at[i - 1] = NULL THEN NULL ELSE next[at[i - 1]]
  <2>1. \A i \in 1 .. Count : i \in D /\ i # 0
    BY <1>1
  <2>2. 0 \in D
    BY <1>1
  <2> HIDE DEF D
  <2> QED
    BY <1>4, <2>1, <2>2
<1>7. \A i \in D : at[i] = w[i]
  BY <1>1, <1>2, <1>6, WalkUnique
<1>8. Count \in D /\ w[Count] = NULL
  BY <1>1, <1>2, WalkEnds
<1> QED
  BY <1>5, <1>7, <1>8

-----------------------------------------------------------------------------
(* The timer t is linked in front of q, and what led from the list to q    *)
(* may lead to t instead.                                                  *)
LEMMA Linked ==
  ASSUME NEW r, Falls(r), NEW C, C \subseteq Timers,
         \A x \in C : next[x] \in C \cup {NULL},
         NEW t \in Timers \ C, NEW q \in C \cup {NULL},
         next' \in [Timers -> Nodes], next \in [Timers -> Nodes],
         next'[t] = q,
         \A x \in Timers \ {t} :
           \/ next'[x] = next[x]
           \/ x \in C /\ next'[x] = t /\ next[x] = q
  PROVE  \E s : Falls(s)'
<1> DEFINE top == IF q = NULL THEN 0 ELSE 2 * r[q] + 2
           R(x) == IF x \in C THEN 2 * r[x] + 1
                   ELSE IF x = t THEN top ELSE 2 * r[x] + top + 2
           s == [x \in Timers |-> R(x)]
<1>1. /\ r \in [Timers -> Nat]
      /\ \A x \in Timers : next[x] # NULL => r[next[x]] < r[x]
  BY DEF Falls
<1>2. NULL \notin Timers
  BY TimerListRaceAssumption
<1>3. top \in Nat /\ (q # NULL => q \in C /\ r[q] \in Nat /\ top = 2 * r[q] + 2)
  BY <1>1
<1> HIDE DEF top
<1>4. \A x \in Timers : R(x) \in Nat
  BY <1>1, <1>3
<1>5. ASSUME NEW x \in Timers, next'[x] # NULL
      PROVE  next'[x] \in Timers /\ R(next'[x]) < R(x)
  <2>1. next'[x] \in Timers
    BY <1>5 DEF Nodes
  <2>2. CASE x = t
    BY <1>1, <1>3, <2>2, <1>5
  <2>3. CASE x # t /\ next'[x] = next[x]
    <3> DEFINE y == next[x]
    <3>1. y \in Timers /\ y # NULL /\ r[y] < r[x] /\ r[y] \in Nat /\ r[x] \in Nat
      BY <1>1, <1>5, <2>1, <2>3
    <3>2. x \in C => y \in C
      BY <3>1
    <3> HIDE DEF y
    <3>3. R(y) < R(x)
      BY <1>3, <2>3, <3>1, <3>2
    <3> QED
      BY <2>1, <2>3, <3>3 DEF y
  <2>4. CASE x \in C /\ next'[x] = t /\ next[x] = q
    <3>1. r[x] \in Nat /\ (q # NULL => r[q] < r[x])
      BY <1>1, <2>4
    <3>2. top < 2 * r[x] + 1
      <4>1. CASE q = NULL
        BY <3>1, <4>1 DEF top
      <4>2. CASE q # NULL
        BY <1>3, <3>1, <4>2
      <4> QED
        BY <4>1, <4>2
    <3>3. R(t) = top /\ R(x) = 2 * r[x] + 1
      BY <2>4
    <3> QED
      BY <2>1, <2>4, <3>2, <3>3
  <2> QED
    BY <2>2, <2>3, <2>4
<1> HIDE DEF R
<1>6. Falls(s)'
  <2>1. s \in [Timers -> Nat]
    BY <1>4
  <2>2. \A x \in Timers : s[x] = R(x)
    OBVIOUS
  <2> HIDE DEF s
  <2>3. \A x \in Timers : next'[x] # NULL => s[next'[x]] < s[x]
    BY <1>5, <2>2
  <2> QED
    BY <2>1, <2>3 DEF Falls
<1> QED
  BY <1>6

LEMMA Links ==
  ASSUME IInv, NEW t \in Timers, TimerStart(t)
  PROVE  IInv'
<1> DEFINE C == ToSet(Chain)
<1>1. PICK r : Falls(r)
  BY DEF IInv
<1>2. /\ C \subseteq Timers
      /\ head \in C \cup {NULL}
      /\ \A x \in C : next[x] \in C \cup {NULL}
      /\ \A i \in 1 .. Len(Chain) : Chain[i] \in C
  BY ChainClosed, Zenon
<1>3. t \notin C
  BY DEF TimerStart, Exists
<1> HIDE DEF C
<1>4. /\ head \in Nodes /\ behind \in Nodes /\ cur \in Nodes
      /\ next \in [Timers -> Nodes]
      /\ behind' = behind /\ cur' = cur
  BY DEF IInv, Pointers, TimerStart, handler
<1>5. CASE InsertNewHead(t)
  <2>1. head' = t /\ next' = [next EXCEPT ![t] = head]
    BY <1>5 DEF InsertNewHead
  <2>2. next' \in [Timers -> Nodes] /\ head' \in Nodes
    BY <1>4, <2>1 DEF Nodes
  <2>3. next'[t] = head /\ \A x \in Timers \ {t} : next'[x] = next[x]
    BY <1>4, <2>1
  <2>4. \E s : Falls(s)'
    BY <1>1, <1>2, <1>3, <1>4, <2>2, <2>3, Linked
  <2> QED
    BY <1>4, <2>2, <2>4 DEF IInv, Pointers
<1>6. ASSUME NEW p \in 1 .. Len(Chain), NEW due \in BOOLEAN, Insert(t, p, due)
      PROVE  IInv'
  <2> DEFINE c == Chain[p]
             q == next[c]
  <2>1. head' = head /\ next' = [next EXCEPT ![c] = t, ![t] = q]
    BY <1>6 DEF Insert
  <2>2. c \in C /\ q \in C \cup {NULL} /\ c # t
    BY <1>2, <1>3
  <2> HIDE DEF c
  <2>3. next' \in [Timers -> Nodes] /\ head' \in Nodes
    BY <1>2, <1>4, <2>1, <2>2 DEF Nodes
  <2>4. next'[t] = q /\ \A x \in Timers \ {t} :
                          IF x = c THEN next'[x] = t ELSE next'[x] = next[x]
    BY <1>2, <1>4, <2>1, <2>2
  <2>6. \A x \in Timers \ {t} :
          next'[x] = next[x] \/ (x \in C /\ next'[x] = t /\ next[x] = q)
    BY <2>2, <2>4
  <2>5. \E s : Falls(s)'
    BY <1>1, <1>2, <1>3, <1>4, <2>2, <2>3, <2>4, <2>6, Linked
  <2> QED
    BY <1>4, <2>3, <2>5 DEF IInv, Pointers
<1> QED
  BY <1>5, <1>6 DEF TimerStart

(* A timer taken out of the list leaves a shorter way. *)
LEMMA Unlinks ==
  ASSUME IInv, NEW t \in Timers, TimerStop(t)
  PROVE  IInv'
<1>1. PICK r : Falls(r)
  BY DEF IInv
<1>2. /\ head \in Nodes /\ behind \in Nodes /\ cur \in Nodes
      /\ next \in [Timers -> Nodes]
      /\ behind' = behind /\ cur' = cur
  BY DEF IInv, Pointers, TimerStop, handler
<1>3. CASE StopHead(t)
  <2>1. head' = next[t] /\ next' = next
    BY <1>3 DEF StopHead
  <2>2. Falls(r)'
    BY <1>1, <2>1 DEF Falls
  <2> QED
    BY <1>2, <2>1, <2>2 DEF IInv, Pointers
<1>4. CASE StopWithin(t)
  <2>1. PICK i \in 2 .. Len(Chain) :
          /\ Chain[i] = t
          /\ next' = [next EXCEPT ![Chain[i - 1]] = next[t]]
          /\ head' = head
    BY <1>4 DEF StopWithin
  <2> DEFINE c == Chain[i - 1]
  <2>2. c \in Timers /\ next[c] = t
    BY <2>1, ChainClosed
  <2>3. next' = [next EXCEPT ![c] = next[t]]
    BY <2>1
  <2> HIDE DEF c
  <2>4. next' \in [Timers -> Nodes]
    BY <1>2, <2>3
  <2>5. Falls(r)'
    <3>1. \A x \in Timers : next'[x] = IF x = c THEN next[t] ELSE next[x]
      BY <1>2, <2>2, <2>3
    <3>2. t # NULL /\ r \in [Timers -> Nat] /\ r[t] < r[c]
      BY <1>1, <2>2, TimerListRaceAssumption DEF Falls
    <3>3. \A x \in Timers : next[x] # NULL => next[x] \in Timers /\ r[next[x]] < r[x]
      BY <1>1, <1>2 DEF Falls, Nodes
    <3>4. \A x \in Timers : next'[x] # NULL => r[next'[x]] < r[x]
      <4> SUFFICES ASSUME NEW x \in Timers, next'[x] # NULL
                   PROVE  r[next'[x]] < r[x]
        OBVIOUS
      <4>1. CASE x = c
        <5>1. next'[x] = next[t] /\ r[next[t]] < r[t] /\ next[t] \in Timers
          BY <3>1, <3>3, <4>1
        <5>2. r[next[t]] \in Nat /\ r[t] \in Nat /\ r[c] \in Nat
          BY <2>2, <3>2, <5>1
        <5> QED
          BY <3>2, <4>1, <5>1, <5>2
      <4>2. CASE x # c
        BY <3>1, <3>3, <4>2
      <4> QED
        BY <4>1, <4>2
    <3> QED
      BY <3>2, <3>4 DEF Falls
  <2> QED
    BY <1>2, <2>1, <2>4, <2>5 DEF IInv, Pointers
<1> QED
  BY <1>3, <1>4 DEF TimerStop

(* The handler only moves pointers; it writes no Next. *)
LEMMA Handles ==
  ASSUME IInv,
         \/ IrqEnter \/ IrqCharge \/ IrqTest \/ IrqLoad \/ IrqStore
         \/ IrqCall \/ IrqLeave \/ UNCHANGED vars
  PROVE  IInv'
<1>1. PICK r : Falls(r)
  BY DEF IInv
<1>2. next' = next
  BY DEF IrqEnter, IrqCharge, IrqTest, IrqLoad, IrqStore, IrqCall, IrqLeave, vars
<1>3. Falls(r)'
  BY <1>1, <1>2 DEF Falls
<1>4. /\ head \in Nodes /\ behind \in Nodes /\ cur \in Nodes
      /\ next \in [Timers -> Nodes]
  BY DEF IInv, Pointers
<1>5. head' \in Nodes /\ behind' \in Nodes /\ cur' \in Nodes
  <2>1. CASE IrqLoad
    <3>1. cur' \in {cur, head} \ {NULL} /\ behind' = next[cur'] /\ head' = head
      BY <2>1 DEF IrqLoad
    <3>2. cur' \in Timers
      BY <1>4, <3>1 DEF Nodes
    <3> QED
      BY <1>4, <3>1, <3>2 DEF Nodes
  <2>2. CASE IrqStore
    BY <1>4, <2>2 DEF IrqStore, Unlinked, Nodes
  <2>3. CASE IrqEnter \/ IrqCharge \/ IrqTest \/ IrqCall \/ IrqLeave \/ UNCHANGED vars
    BY <1>4, <2>3
    DEF IrqEnter, IrqCharge, IrqTest, IrqCall, IrqLeave, vars, Nodes
  <2> QED
    BY <2>1, <2>2, <2>3
<1> QED
  BY <1>2, <1>3, <1>4, <1>5 DEF IInv, Pointers

(* WalksEnd for any set of timers: whatever the radio interrupts start and *)
(* stop between the loads and stores of TimerIrqHandler, the Next pointers *)
(* never close into a cycle, so TimerExists and TimerInsertTimer, which    *)
(* walk them with interrupts disabled, return.                             *)
THEOREM ListNeverCloses == Spec => []WalksEnd
<1>1. Init => IInv
  <2> SUFFICES ASSUME Init PROVE IInv
    OBVIOUS
  <2> DEFINE z == [t \in Timers |-> 0]
  <2>1. Falls(z)
    BY DEF Init, Falls
  <2> QED
    BY <2>1 DEF Init, IInv, Pointers, Nodes
<1>2. IInv /\ [Next]_vars => IInv'
  <2> SUFFICES ASSUME IInv, [Next]_vars PROVE IInv'
    OBVIOUS
  <2>1. ASSUME NEW t \in Timers, TimerStart(t) PROVE IInv'
    BY <2>1, Links
  <2>2. ASSUME NEW t \in Timers, TimerStop(t) PROVE IInv'
    BY <2>2, Unlinks
  <2>3. CASE \/ IrqEnter \/ IrqCharge \/ IrqTest \/ IrqLoad \/ IrqStore
             \/ IrqCall \/ IrqLeave \/ UNCHANGED vars
    BY <2>3, Handles, Zenon
  <2> QED
    BY <2>1, <2>2, <2>3, Zenon DEF Next
<1>3. IInv => WalksEnd
  BY AllEnd
<1> QED
  BY <1>1, <1>2, <1>3, PTL DEF Spec
=============================================================================
