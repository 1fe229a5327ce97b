-------------------------- MODULE TimerListProofs --------------------------
(***************************************************************************)
(* The delta list of timer.c keeps its promises for any set of timers, any *)
(* intervals and any wake-up time.                                         *)
(*                                                                         *)
(* The inductive invariant names the expiry times the deltas stand for: a  *)
(* function f from the places of the list, whose first value is what is    *)
(* left of the head and whose differences are the deltas.  Each operation  *)
(* is shown to turn f into the sums of the new list.                       *)
(*                                                                         *)
(* With it, every step is shown to be one of TimerService or a stutter.    *)
(***************************************************************************)
EXTENDS TimerList, Induction

-----------------------------------------------------------------------------
(* Sums of deltas: least elements stand in for induction on the place.     *)

(* f holds the sums of the deltas ts along the n places of l, from r on.   *)
Sums(f, n, l, ts, r) ==
  /\ f \in [1 .. n -> 0 .. MaxValue]
  /\ f[1] = r
  /\ \A i \in 2 .. n : f[i] = f[i - 1] + ts[l[i]]

LEMMA SumsUnique ==
  ASSUME NEW n \in Nat, NEW l, NEW ts, NEW r, NEW f, NEW g,
         Sums(f, n, l, ts, r), Sums(g, n, l, ts, r), MaxValue \in Nat
  PROVE  f = g
<1> DEFINE D == {i \in 1 .. n : f[i] # g[i]}
<1>1. SUFFICES ASSUME D # {} PROVE FALSE
  <2>1. f \in [1 .. n -> 0 .. MaxValue] /\ g \in [1 .. n -> 0 .. MaxValue]
    BY DEF Sums
  <2>2. D = {} => \A i \in 1 .. n : f[i] = g[i]
    OBVIOUS
  <2>3. f = [i \in 1 .. n |-> f[i]] /\ g = [i \in 1 .. n |-> g[i]]
    BY <2>1
  <2>4. D = {} => [i \in 1 .. n |-> f[i]] = [i \in 1 .. n |-> g[i]]
    BY <2>2
  <2>5. QED BY <2>3, <2>4
<1>2. PICK m \in D : \A k \in D : m <= k
  <2>1. D \subseteq Nat
    OBVIOUS
  <2> HIDE DEF D
  <2>2. QED BY <1>1, <2>1, LeastElement
<1>3. m \in 2 .. n
  BY DEF Sums
<1>4. m - 1 \in 1 .. n /\ m - 1 \notin D
  BY <1>2, <1>3
<1>5. f[m] = f[m - 1] + ts[l[m]] /\ g[m] = g[m - 1] + ts[l[m]]
  BY <1>3 DEF Sums
<1>6. QED BY <1>2, <1>4, <1>5

LEMMA SumsGrow ==
  ASSUME NEW n \in Nat, NEW l, NEW ts, NEW r, NEW f,
         Sums(f, n, l, ts, r), MaxValue \in Nat,
         \A i \in 1 .. n : ts[l[i]] \in Nat
  PROVE  \A i, j \in 1 .. n : i <= j => f[i] <= f[j]
<1>1. SUFFICES ASSUME NEW i \in 1 .. n
               PROVE  \A j \in 1 .. n : i <= j => f[i] <= f[j]
  OBVIOUS
<1> DEFINE D == {j \in 1 .. n : i <= j /\ ~(f[i] <= f[j])}
<1>2. SUFFICES ASSUME D # {} PROVE FALSE
  OBVIOUS
<1>3. PICK m \in D : \A k \in D : m <= k
  <2>1. D \subseteq Nat
    OBVIOUS
  <2> HIDE DEF D
  <2>2. QED BY <1>2, <2>1, LeastElement
<1>4. f \in [1 .. n -> 0 .. MaxValue]
  BY DEF Sums
<1>5. m # i
  BY <1>4
<1>6. m \in 2 .. n /\ m - 1 \in 1 .. n /\ i <= m - 1
  BY <1>5
<1>7. m - 1 \notin D
  BY <1>3, <1>6
<1>8. f[i] <= f[m - 1]
  BY <1>6, <1>7
<1>9. f[m] = f[m - 1] + ts[l[m]] /\ ts[l[m]] \in Nat
  BY <1>6 DEF Sums
<1>10. QED BY <1>4, <1>6, <1>8, <1>9

-----------------------------------------------------------------------------
(* The inductive invariant.                                                *)

(* f gives the places of the list, a function from 1 .. n to Timers called *)
(* l, expiry times that cover the deadlines d.                             *)
Covers(f, n, l, ts, r, d) ==
  /\ Sums(f, n, l, ts, r)
  /\ \A i \in 1 .. n : f[i] >= d[l[i]]

(* Some sums do. *)
Coverable(n, l, ts, r, d) == \E f : Covers(f, n, l, ts, r, d)

Covered ==
  list # <<>> => Coverable(Len(list), list, timestamp, HeadRemaining, due)

(* The alarm, if the head is running, is armed for the head. *)
AlarmMatches ==
  list # <<>> /\ running[Head(list)] =>
    \/ pending
    \/ /\ alarmIn # Off
       /\ \/ alarmIn + elapsed = timestamp[Head(list)]
          \/ timestamp[Head(list)] = 0 /\ alarmIn = 1

IdleRuns == irq = "idle" /\ list # <<>> => running[Head(list)]

Distinct(n, l) == \A i, j \in 1 .. n : l[i] = l[j] => i = j

IInv ==
  /\ TypeOK
  /\ Distinct(Len(list), list)
  /\ OnlyHeadRuns
  /\ IdleRuns
  /\ AlarmMatches
  /\ Covered

-----------------------------------------------------------------------------
(* What the invariant gives in a state.                                    *)

LEMMA Positive == MaxValue \in Nat \ {0} /\ Values \subseteq Nat \ {0}
<1>1. PICK v \in Values : v \in 1 .. MaxValue
  BY TimerListAssumption
<1>2. QED BY <1>1, TimerListAssumption

LEMMA HeadRemainingType ==
  ASSUME TypeOK, list # <<>>
  PROVE  /\ Head(list) \in Timers
         /\ Head(list) = list[1]
         /\ Len(list) \in Nat \ {0}
         /\ HeadRemaining \in 0 .. timestamp[Head(list)]
<1>1. Head(list) \in Timers /\ Head(list) = list[1] /\ Len(list) \in Nat \ {0}
  BY DEF TypeOK
<1>2. timestamp[Head(list)] \in Nat /\ elapsed \in Nat
  BY <1>1, Positive DEF TypeOK
<1>3. HeadRemaining \in 0 .. timestamp[Head(list)]
  BY <1>2 DEF HeadRemaining, Smaller
<1>4. QED BY <1>1, <1>3

(* Arming the alarm shortens a timeout, by no more than there is of it. *)
LEMMA AdjustedType ==
  ASSUME TypeOK, NEW v \in 0 .. MaxValue
  PROVE  Adjusted(v) \in 0 .. v
BY TimerListAssumption DEF TypeOK, Adjusted, Recovered

(* The CHOOSE of TimerInsertTimer names the sums the invariant speaks of. *)
LEMMA AggregatedIs ==
  ASSUME IInv, list # <<>>
  PROVE  Covers(Aggregated, Len(list), list, timestamp, HeadRemaining, due)
<1>1. PICK f : Covers(f, Len(list), list, timestamp, HeadRemaining, due)
  BY DEF IInv, Covered, Coverable
<1>2. f \in [1 .. Len(list) -> 0 .. MaxValue] /\ SumsUp(f)
  BY <1>1 DEF Covers, Sums, SumsUp
<1>3. Aggregated \in [1 .. Len(list) -> 0 .. MaxValue] /\ SumsUp(Aggregated)
  BY <1>2, Zenon DEF Aggregated
<1>4. Sums(Aggregated, Len(list), list, timestamp, HeadRemaining)
  BY <1>3 DEF Sums, SumsUp
<1>5. Len(list) \in Nat
  BY DEF IInv, TypeOK
<1>6. Aggregated = f
  BY <1>1, <1>4, <1>5, SumsUnique, Positive DEF Covers
<1>7. QED BY <1>1, <1>6

LEMMA AggregatedGrows ==
  ASSUME IInv, list # <<>>
  PROVE  \A i, j \in 1 .. Len(list) : i <= j => Aggregated[i] <= Aggregated[j]
<1>1. Sums(Aggregated, Len(list), list, timestamp, HeadRemaining)
  BY AggregatedIs DEF Covers
<1>2. \A i \in 1 .. Len(list) : timestamp[list[i]] \in Nat
  BY Positive DEF IInv, TypeOK
<1>3. Len(list) \in Nat
  BY DEF IInv, TypeOK
<1>4. QED BY <1>1, <1>2, <1>3, SumsGrow, Positive

(* The invariant says all the runs check. *)
LEMMA InvariantSuffices ==
  ASSUME IInv
  PROVE  /\ TypeOK /\ NoDoubleLink /\ OnlyHeadRuns
         /\ NoOverflow /\ AlarmServesHead /\ NeverEarly
<1>1. NoDoubleLink
  <2>1. DOMAIN list = 1 .. Len(list)
    BY DEF IInv, TypeOK
  <2>2. QED BY <2>1 DEF IInv, Distinct, NoDoubleLink, IsInjective
<1>2. list # <<>> => SumsUp(Aggregated)
                     /\ Aggregated \in [1 .. Len(list) -> 0 .. MaxValue]
  BY AggregatedIs DEF Covers, Sums, SumsUp
<1>3. NoOverflow
  BY <1>2 DEF NoOverflow
<1>4. NeverEarly
  BY AggregatedIs DEF NeverEarly, Covers
<1>5. AlarmServesHead
  BY DEF IInv, AlarmServesHead, AlarmMatches, IdleRuns
<1>6. QED BY <1>1, <1>3, <1>4, <1>5 DEF IInv

(* The place TimerInsertTimer finds. *)
LEMMA InsertAfterIs ==
  ASSUME IInv, list # <<>>, NEW v \in Nat
  PROVE  /\ InsertAfter(v) \in 1 .. Len(list)
         /\ \A i \in 2 .. InsertAfter(v) : Aggregated[i] <= v
         /\ InsertAfter(v) < Len(list) => Aggregated[InsertAfter(v) + 1] > v
<1> DEFINE n == Len(list)
           T == {p \in 1 .. n : p < n => Aggregated[p + 1] > v}
<1>1. n \in Nat \ {0} /\ Aggregated \in [1 .. n -> 0 .. MaxValue]
  BY AggregatedIs, HeadRemainingType DEF IInv, Covers, Sums
<1>2. n \in T /\ T \subseteq Nat
  BY <1>1
<1>3. PICK p \in T : \A q \in T : p <= q
  <2> HIDE DEF T
  <2>1. QED BY <1>2, LeastElement
<1>4. \A i \in 2 .. p : Aggregated[i] <= v
  <2> SUFFICES ASSUME NEW i \in 2 .. p PROVE Aggregated[i] <= v
    OBVIOUS
  <2>1. i - 1 \in 1 .. n /\ i - 1 < n /\ i \in 1 .. n /\ ~(p <= i - 1)
    BY <1>1
  <2>5. i - 1 \notin T
    BY <1>3, <2>1
  <2>2. ~(Aggregated[(i - 1) + 1] > v)
    BY <2>1, <2>5
  <2>3. (i - 1) + 1 = i /\ Aggregated[i] \in Nat
    BY <1>1, <2>1, Positive
  <2>4. QED BY <2>2, <2>3
<1>5. \E q \in 1 .. Len(list) :
        /\ \A i \in 2 .. q : Aggregated[i] <= v
        /\ q < Len(list) => Aggregated[q + 1] > v
  BY <1>3, <1>4
<1>6. QED BY <1>5, Zenon DEF InsertAfter

-----------------------------------------------------------------------------
(* Sums after an operation, from the sums f before it.                     *)

(* A new head of a ms, v of which were asked for, before places n of l.    *)
Pushed(n, l, ts, r, f, d, v, a, k, ks, e) ==
  /\ n \in Nat \ {0}
  /\ Covers(f, n, l, ts, r, d)
  /\ v \in 0 .. MaxValue
  /\ a \in 0 .. v
  /\ r \in Int
  /\ v < r
  /\ \A i \in 1 .. n : r <= f[i]
  /\ \A i \in 2 .. n + 1 : k[i] = l[i - 1]
  /\ ks[l[1]] = r - v
  /\ \A i \in 2 .. n : ks[l[i]] = ts[l[i]] /\ ts[l[i]] \in Int
  /\ e[k[1]] <= a
  /\ e[k[1]] \in Int
  /\ \A i \in 1 .. n : /\ e[l[i]] \in Int /\ d[l[i]] \in Int
                       /\ e[l[i]] = 0 \/ e[l[i]] <= d[l[i]] - (v - a)

LEMMA PushCovers ==
  ASSUME NEW n, NEW l, NEW ts, NEW r, NEW f, NEW d, NEW v, NEW a,
         NEW k, NEW ks, NEW e,
         Pushed(n, l, ts, r, f, d, v, a, k, ks, e)
  PROVE  Coverable(n + 1, k, ks, a, e)
<1> USE DEF Pushed
<1> DEFINE g == [i \in 1 .. n + 1 |-> IF i = 1 THEN a ELSE f[i - 1] - (v - a)]
<1>1. /\ f \in [1 .. n -> 0 .. MaxValue]
      /\ f[1] = r
      /\ \A i \in 2 .. n : f[i] = f[i - 1] + ts[l[i]]
      /\ \A i \in 1 .. n : f[i] >= d[l[i]]
  BY DEF Covers, Sums
<1>2. \A i \in 1 .. n : f[i] \in 0 .. MaxValue /\ f[i] \in Int
  BY <1>1, Positive
<1>3. \A i \in 2 .. n + 1 : i - 1 \in 1 .. n /\ g[i] = f[i - 1] - (v - a)
  OBVIOUS
<1>4. g[1] = a
  OBVIOUS
<1>5. g \in [1 .. n + 1 -> 0 .. MaxValue]
  <2> SUFFICES ASSUME NEW i \in 1 .. n + 1
               PROVE  (IF i = 1 THEN a ELSE f[i - 1] - (v - a)) \in 0 .. MaxValue
    OBVIOUS
  <2>1. CASE i = 1
    BY <2>1, Positive
  <2>2. CASE i # 1
    <3>1. i - 1 \in 1 .. n
      BY <2>2
    <3>2. f[i - 1] \in 0 .. MaxValue /\ f[i - 1] \in Int /\ r <= f[i - 1]
      BY <1>2, <3>1
    <3>3. QED BY <2>2, <3>2, Positive
  <2>3. QED BY <2>1, <2>2
<1>6. \A i \in 2 .. n + 1 : g[i] = g[i - 1] + ks[k[i]]
  <2> SUFFICES ASSUME NEW i \in 2 .. n + 1 PROVE g[i] = g[i - 1] + ks[k[i]]
    OBVIOUS
  <2>1. g[i] = f[i - 1] - (v - a) /\ k[i] = l[i - 1] /\ f[i - 1] \in Int
    BY <1>2, <1>3
  <2>2. CASE i = 2
    BY <1>1, <1>4, <2>1, <2>2
  <2>3. CASE i # 2
    <3>1. i - 1 \in 2 .. n /\ i - 1 \in 2 .. n + 1 /\ (i - 1) - 1 \in 1 .. n
      BY <2>3
    <3>2. g[i - 1] = f[(i - 1) - 1] - (v - a) /\ f[(i - 1) - 1] \in Int
      BY <1>2, <1>3, <3>1
    <3>3. f[i - 1] = f[(i - 1) - 1] + ts[l[i - 1]]
          /\ ks[l[i - 1]] = ts[l[i - 1]] /\ ts[l[i - 1]] \in Int
      BY <1>1, <3>1
    <3> HIDE DEF g
    <3>4. QED BY <2>1, <3>2, <3>3
  <2>4. QED BY <2>2, <2>3
<1>7. \A i \in 1 .. n + 1 : g[i] >= e[k[i]]
  <2> SUFFICES ASSUME NEW i \in 1 .. n + 1 PROVE g[i] >= e[k[i]]
    OBVIOUS
  <2>1. CASE i = 1
    BY <1>4, <2>1
  <2>2. CASE i # 1
    <3>1. i \in 2 .. n + 1 /\ i - 1 \in 1 .. n
      BY <2>2
    <3>2. g[i] = f[i - 1] - (v - a) /\ k[i] = l[i - 1] /\ f[i - 1] \in Int
          /\ f[i - 1] >= d[l[i - 1]] /\ g[i] \in 0 .. MaxValue
      BY <1>1, <1>2, <1>3, <1>5, <3>1
    <3>3. /\ e[l[i - 1]] \in Int /\ d[l[i - 1]] \in Int
          /\ e[l[i - 1]] = 0 \/ e[l[i - 1]] <= d[l[i - 1]] - (v - a)
      BY <3>1
    <3> HIDE DEF g
    <3>4. QED BY <3>2, <3>3, Positive
  <2>3. QED BY <2>1, <2>2
<1> HIDE DEF g
<1>8. Covers(g, n + 1, k, ks, a, e)
  BY <1>4, <1>5, <1>6, <1>7 DEF Covers, Sums
<1>9. QED BY <1>8 DEF Coverable

(* The first place dropped, and s ms left of what was the second.          *)
Dropped(n, l, ts, r, f, d, s, k, ks, e) ==
  /\ n \in Nat \ {0, 1}
  /\ Covers(f, n, l, ts, r, d)
  /\ s \in Nat
  /\ s <= f[2]
  /\ \A i, j \in 1 .. n : i <= j => f[i] <= f[j]
  /\ \A i \in 1 .. n - 1 : k[i] = l[i + 1]
  /\ \A i \in 3 .. n : ks[l[i]] = ts[l[i]] /\ ts[l[i]] \in Int
  /\ \A i \in 2 .. n : /\ e[l[i]] \in Int /\ d[l[i]] \in Int
                       /\ e[l[i]] = 0 \/ e[l[i]] <= d[l[i]] - (f[2] - s)

LEMMA DropCovers ==
  ASSUME NEW n, NEW l, NEW ts, NEW r, NEW f, NEW d, NEW s,
         NEW k, NEW ks, NEW e,
         Dropped(n, l, ts, r, f, d, s, k, ks, e)
  PROVE  Coverable(n - 1, k, ks, s, e)
<1> USE DEF Dropped
<1> DEFINE c == f[2] - s
           g == [i \in 1 .. n - 1 |-> f[i + 1] - c]
<1>1. /\ f \in [1 .. n -> 0 .. MaxValue]
      /\ \A i \in 2 .. n : f[i] = f[i - 1] + ts[l[i]]
      /\ \A i \in 1 .. n : f[i] >= d[l[i]]
  BY DEF Covers, Sums
<1>2. \A i \in 1 .. n : f[i] \in 0 .. MaxValue /\ f[i] \in Int
  BY <1>1, Positive
<1>9. c \in Nat /\ c <= f[2] /\ f[2] - c = s
  <2>1. 2 \in 1 .. n
    OBVIOUS
  <2>2. QED BY <1>2, <2>1
<1>10. \A i \in 2 .. n : /\ e[l[i]] \in Int /\ d[l[i]] \in Int
                         /\ e[l[i]] = 0 \/ e[l[i]] <= d[l[i]] - c
  OBVIOUS
<1> HIDE DEF c
<1>3. g \in [1 .. n - 1 -> 0 .. MaxValue]
  <2> SUFFICES ASSUME NEW i \in 1 .. n - 1 PROVE f[i + 1] - c \in 0 .. MaxValue
    OBVIOUS
  <2>1. i + 1 \in 1 .. n /\ 2 \in 1 .. n /\ 2 <= i + 1
    OBVIOUS
  <2>2. f[2] <= f[i + 1] /\ f[i + 1] \in 0 .. MaxValue /\ f[2] \in Int
    BY <1>2, <2>1
  <2>3. QED BY <1>9, <2>2, Positive
<1>4. g[1] = s
  BY <1>9
<1>5. \A i \in 2 .. n - 1 : g[i] = g[i - 1] + ks[k[i]]
  <2> SUFFICES ASSUME NEW i \in 2 .. n - 1 PROVE g[i] = g[i - 1] + ks[k[i]]
    OBVIOUS
  <2>1. i + 1 \in 3 .. n /\ i + 1 \in 2 .. n /\ i \in 1 .. n - 1 /\ (i + 1) - 1 = i
        /\ i - 1 \in 1 .. n - 1 /\ (i - 1) + 1 = i
    OBVIOUS
  <2>2. g[i] = f[i + 1] - c /\ g[i - 1] = f[i] - c
    BY <2>1
  <2>3. f[i + 1] = f[i] + ts[l[i + 1]] /\ ks[k[i]] = ts[l[i + 1]]
        /\ ts[l[i + 1]] \in Int
    BY <1>1, <2>1
  <2>4. f[i + 1] \in Int /\ f[i] \in Int
    BY <1>2, <2>1
  <2> HIDE DEF g
  <2>5. QED BY <1>9, <2>2, <2>3, <2>4
<1>6. \A i \in 1 .. n - 1 : g[i] >= e[k[i]]
  <2> SUFFICES ASSUME NEW i \in 1 .. n - 1 PROVE g[i] >= e[k[i]]
    OBVIOUS
  <2>1. i + 1 \in 2 .. n /\ i + 1 \in 1 .. n
    OBVIOUS
  <2>2. g[i] = f[i + 1] - c /\ k[i] = l[i + 1] /\ f[i + 1] \in Int
        /\ f[i + 1] >= d[l[i + 1]] /\ g[i] \in 0 .. MaxValue
    BY <1>1, <1>2, <1>3, <2>1
  <2>3. /\ e[l[i + 1]] \in Int /\ d[l[i + 1]] \in Int
        /\ e[l[i + 1]] = 0 \/ e[l[i + 1]] <= d[l[i + 1]] - c
    BY <1>10, <2>1
  <2> HIDE DEF g
  <2>4. QED BY <1>9, <2>2, <2>3, Positive
<1> HIDE DEF g
<1>7. Covers(g, n - 1, k, ks, s, e)
  BY <1>3, <1>4, <1>5, <1>6 DEF Covers, Sums
<1>8. QED BY <1>7 DEF Coverable

(* The same places, s ms left of the head.                                 *)
Shifted(n, l, ts, r, f, d, s, ks, e) ==
  /\ n \in Nat \ {0}
  /\ Covers(f, n, l, ts, r, d)
  /\ r \in Int
  /\ s \in Nat
  /\ s <= r
  /\ \A i \in 1 .. n : r <= f[i]
  /\ \A i \in 2 .. n : ks[l[i]] = ts[l[i]] /\ ts[l[i]] \in Int
  /\ \A i \in 1 .. n : /\ e[l[i]] \in Int /\ d[l[i]] \in Int
                       /\ e[l[i]] = 0 \/ e[l[i]] <= d[l[i]] - (r - s)

LEMMA ShiftCovers ==
  ASSUME NEW n, NEW l, NEW ts, NEW r, NEW f, NEW d, NEW s,
         NEW ks, NEW e,
         Shifted(n, l, ts, r, f, d, s, ks, e)
  PROVE  Coverable(n, l, ks, s, e)
<1> USE DEF Shifted
<1> DEFINE g == [i \in 1 .. n |-> f[i] - (r - s)]
<1>1. /\ f \in [1 .. n -> 0 .. MaxValue]
      /\ f[1] = r
      /\ \A i \in 2 .. n : f[i] = f[i - 1] + ts[l[i]]
      /\ \A i \in 1 .. n : f[i] >= d[l[i]]
  BY DEF Covers, Sums
<1>2. \A i \in 1 .. n : f[i] \in 0 .. MaxValue /\ f[i] \in Int
  BY <1>1, Positive
<1>3. g \in [1 .. n -> 0 .. MaxValue]
  <2> SUFFICES ASSUME NEW i \in 1 .. n PROVE f[i] - (r - s) \in 0 .. MaxValue
    OBVIOUS
  <2>1. QED BY <1>2, Positive
<1>4. g[1] = s
  BY <1>1
<1>5. \A i \in 2 .. n : g[i] = g[i - 1] + ks[l[i]]
  <2> SUFFICES ASSUME NEW i \in 2 .. n PROVE g[i] = g[i - 1] + ks[l[i]]
    OBVIOUS
  <2>1. i \in 1 .. n /\ i - 1 \in 1 .. n
    OBVIOUS
  <2>2. g[i] = f[i] - (r - s) /\ g[i - 1] = f[i - 1] - (r - s)
    BY <2>1
  <2>3. f[i] = f[i - 1] + ts[l[i]] /\ ks[l[i]] = ts[l[i]] /\ ts[l[i]] \in Int
        /\ f[i - 1] \in Int
    BY <1>1, <1>2, <2>1
  <2> HIDE DEF g
  <2>4. QED BY <2>2, <2>3
<1>6. \A i \in 1 .. n : g[i] >= e[l[i]]
  <2> SUFFICES ASSUME NEW i \in 1 .. n PROVE g[i] >= e[l[i]]
    OBVIOUS
  <2>1. g[i] = f[i] - (r - s) /\ f[i] \in Int /\ f[i] >= d[l[i]]
        /\ g[i] \in 0 .. MaxValue
    BY <1>1, <1>2, <1>3
  <2>3. /\ e[l[i]] \in Int /\ d[l[i]] \in Int
        /\ e[l[i]] = 0 \/ e[l[i]] <= d[l[i]] - (r - s)
    OBVIOUS
  <2> HIDE DEF g
  <2>4. QED BY <2>1, <2>3, Positive
<1> HIDE DEF g
<1>7. Covers(g, n, l, ks, s, e)
  BY <1>3, <1>4, <1>5, <1>6 DEF Covers, Sums
<1>8. QED BY <1>7 DEF Coverable

(* A place of v ms linked behind the p-th one.                             *)
Linked(n, l, ts, r, f, d, p, v, k, ks, e) ==
  /\ n \in Nat \ {0}
  /\ Covers(f, n, l, ts, r, d)
  /\ p \in 1 .. n
  /\ v \in 0 .. MaxValue
  /\ f[p] <= v
  /\ \A i \in 1 .. p : k[i] = l[i]
  /\ \A i \in p + 2 .. n + 1 : k[i] = l[i - 1]
  /\ ks[k[p + 1]] = v - f[p]
  /\ \A i \in 2 .. n : i # p + 1 => ks[l[i]] = ts[l[i]]
  /\ p < n => ks[l[p + 1]] = ts[l[p + 1]] - (v - f[p])
  /\ \A i \in 2 .. n : ts[l[i]] \in Int
  /\ e[k[p + 1]] = v
  /\ \A i \in 1 .. n : e[l[i]] = d[l[i]]

LEMMA LinkCovers ==
  ASSUME NEW n, NEW l, NEW ts, NEW r, NEW f, NEW d, NEW p, NEW v,
         NEW k, NEW ks, NEW e,
         Linked(n, l, ts, r, f, d, p, v, k, ks, e)
  PROVE  Coverable(n + 1, k, ks, r, e)
<1> USE DEF Linked
<1> DEFINE g == [i \in 1 .. n + 1 |-> IF i <= p THEN f[i]
                                      ELSE IF i = p + 1 THEN v ELSE f[i - 1]]
<1>1. /\ f \in [1 .. n -> 0 .. MaxValue]
      /\ f[1] = r
      /\ \A i \in 2 .. n : f[i] = f[i - 1] + ts[l[i]]
      /\ \A i \in 1 .. n : f[i] >= d[l[i]]
  BY DEF Covers, Sums
<1>2. \A i \in 1 .. n : f[i] \in 0 .. MaxValue /\ f[i] \in Int
  <2> TAKE i \in 1 .. n
  <2>1. f[i] \in 0 .. MaxValue
    BY <1>1
  <2>2. QED BY <2>1, Positive
<1>3. /\ \A i \in 1 .. p : i \in 1 .. n /\ g[i] = f[i]
      /\ g[p + 1] = v
      /\ \A i \in p + 2 .. n + 1 : i - 1 \in 1 .. n /\ g[i] = f[i - 1]
  OBVIOUS
<1>4. g \in [1 .. n + 1 -> 0 .. MaxValue]
  <2> SUFFICES ASSUME NEW i \in 1 .. n + 1
               PROVE  (IF i <= p THEN f[i]
                       ELSE IF i = p + 1 THEN v ELSE f[i - 1]) \in 0 .. MaxValue
    OBVIOUS
  <2>1. i <= p \/ i = p + 1 \/ i - 1 \in 1 .. n
    OBVIOUS
  <2>2. QED BY <1>2, <2>1
<1>5. g[1] = r
  BY <1>1, <1>3
<1> HIDE DEF g
<1>6. \A i \in 2 .. n + 1 : g[i] = g[i - 1] + ks[k[i]]
  <2> SUFFICES ASSUME NEW i \in 2 .. n + 1 PROVE g[i] = g[i - 1] + ks[k[i]]
    OBVIOUS
  <2>1. CASE i <= p
    <3>1. i \in 1 .. p /\ i - 1 \in 1 .. p /\ i \in 2 .. n /\ i # p + 1
          /\ i \in 1 .. n
      BY <2>1
    <3>2. g[i] = f[i] /\ g[i - 1] = f[i - 1] /\ k[i] = l[i]
      BY <1>3, <3>1
    <3>3. f[i] = f[i - 1] + ts[l[i]] /\ ks[l[i]] = ts[l[i]]
      BY <1>1, <3>1
    <3>4. QED BY <3>2, <3>3
  <2>2. CASE i = p + 1
    <3>1. p \in 1 .. p /\ i - 1 = p /\ p \in 1 .. n
      BY <2>2
    <3>2. QED BY <1>2, <1>3, <2>2, <3>1
  <2>3. CASE i = p + 2
    <3>1. p < n /\ p + 1 \in 2 .. n /\ i \in p + 2 .. n + 1 /\ i - 1 = p + 1
          /\ (p + 1) - 1 = p /\ p \in 1 .. n /\ p + 1 \in 1 .. n
      BY <2>3
    <3>2. g[i] = f[p + 1] /\ g[i - 1] = v /\ k[i] = l[p + 1]
      BY <1>3, <3>1
    <3>3. f[p + 1] = f[p] + ts[l[p + 1]] /\ ts[l[p + 1]] \in Int /\ f[p] \in Int
      BY <1>1, <1>2, <3>1
    <3>4. ks[l[p + 1]] = ts[l[p + 1]] - (v - f[p])
      BY <3>1
    <3>5. QED BY <3>2, <3>3, <3>4
  <2>4. CASE i > p + 2
    <3>1. i \in p + 2 .. n + 1 /\ i - 1 \in p + 2 .. n + 1 /\ i - 1 \in 2 .. n
          /\ i - 1 # p + 1 /\ (i - 1) - 1 \in 1 .. n
      BY <2>4
    <3>2. g[i] = f[i - 1] /\ g[i - 1] = f[(i - 1) - 1] /\ k[i] = l[i - 1]
      BY <1>3, <3>1
    <3>3. f[i - 1] = f[(i - 1) - 1] + ts[l[i - 1]] /\ ks[l[i - 1]] = ts[l[i - 1]]
      BY <1>1, <3>1
    <3>4. QED BY <3>2, <3>3
  <2>5. QED BY <2>1, <2>2, <2>3, <2>4
<1>7. \A i \in 1 .. n + 1 : g[i] >= e[k[i]]
  <2> SUFFICES ASSUME NEW i \in 1 .. n + 1 PROVE g[i] >= e[k[i]]
    OBVIOUS
  <2>1. CASE i <= p
    <3>1. i \in 1 .. p /\ i \in 1 .. n
      BY <2>1
    <3>2. g[i] = f[i] /\ k[i] = l[i]
      BY <1>3, <3>1
    <3>3. f[i] >= d[l[i]] /\ e[l[i]] = d[l[i]]
      BY <1>1, <3>1
    <3>4. QED BY <3>2, <3>3
  <2>2. CASE i = p + 1
    BY <1>3, <2>2, Positive
  <2>3. CASE i > p + 1
    <3>1. i \in p + 2 .. n + 1 /\ i - 1 \in 1 .. n
      BY <2>3
    <3>2. g[i] = f[i - 1] /\ k[i] = l[i - 1]
      BY <1>3, <3>1
    <3>3. f[i - 1] >= d[l[i - 1]] /\ e[l[i - 1]] = d[l[i - 1]]
      BY <1>1, <3>1
    <3>4. QED BY <3>2, <3>3
  <2>4. QED BY <2>1, <2>2, <2>3
<1>8. Covers(g, n + 1, k, ks, r, e)
  BY <1>4, <1>5, <1>6, <1>7 DEF Covers, Sums
<1>9. QED BY <1>8 DEF Coverable

(* The q-th place, not the first, unlinked; its ms go to the one behind.   *)
Cut(n, l, ts, r, f, d, q, k, ks, e) ==
  /\ n \in Nat \ {0}
  /\ Covers(f, n, l, ts, r, d)
  /\ q \in 2 .. n
  /\ \A i \in 1 .. q - 1 : k[i] = l[i]
  /\ \A i \in q .. n - 1 : k[i] = l[i + 1]
  /\ \A i \in 2 .. n : ts[l[i]] \in Int
  /\ \A i \in 2 .. n : i # q /\ i # q + 1 => ks[l[i]] = ts[l[i]]
  /\ q < n => ks[l[q + 1]] = ts[l[q + 1]] + ts[l[q]]
  /\ \A i \in 1 .. n : i # q => e[l[i]] = d[l[i]]

LEMMA UnlinkCovers ==
  ASSUME NEW n, NEW l, NEW ts, NEW r, NEW f, NEW d, NEW q,
         NEW k, NEW ks, NEW e,
         Cut(n, l, ts, r, f, d, q, k, ks, e)
  PROVE  Coverable(n - 1, k, ks, r, e)
<1> USE DEF Cut
<1> DEFINE g == [i \in 1 .. n - 1 |-> IF i < q THEN f[i] ELSE f[i + 1]]
<1>1. /\ f \in [1 .. n -> 0 .. MaxValue]
      /\ f[1] = r
      /\ \A i \in 2 .. n : f[i] = f[i - 1] + ts[l[i]]
      /\ \A i \in 1 .. n : f[i] >= d[l[i]]
  BY DEF Covers, Sums
<1>2. \A i \in 1 .. n : f[i] \in 0 .. MaxValue /\ f[i] \in Int
  <2> TAKE i \in 1 .. n
  <2>1. f[i] \in 0 .. MaxValue
    BY <1>1
  <2>2. QED BY <2>1, Positive
<1>3. /\ \A i \in 1 .. q - 1 : i \in 1 .. n /\ g[i] = f[i]
      /\ \A i \in q .. n - 1 : i + 1 \in 1 .. n /\ g[i] = f[i + 1]
  OBVIOUS
<1>4. g \in [1 .. n - 1 -> 0 .. MaxValue]
  <2> SUFFICES ASSUME NEW i \in 1 .. n - 1
               PROVE  (IF i < q THEN f[i] ELSE f[i + 1]) \in 0 .. MaxValue
    OBVIOUS
  <2>1. i \in 1 .. n /\ i + 1 \in 1 .. n
    OBVIOUS
  <2>2. QED BY <1>2, <2>1
<1>5. g[1] = r
  BY <1>1, <1>3
<1> HIDE DEF g
<1>6. \A i \in 2 .. n - 1 : g[i] = g[i - 1] + ks[k[i]]
  <2> SUFFICES ASSUME NEW i \in 2 .. n - 1 PROVE g[i] = g[i - 1] + ks[k[i]]
    OBVIOUS
  <2>1. CASE i < q
    <3>1. i \in 1 .. q - 1 /\ i - 1 \in 1 .. q - 1 /\ i \in 2 .. n
          /\ i # q /\ i # q + 1
      BY <2>1
    <3>2. g[i] = f[i] /\ g[i - 1] = f[i - 1] /\ k[i] = l[i]
      BY <1>3, <3>1
    <3>3. f[i] = f[i - 1] + ts[l[i]] /\ ks[l[i]] = ts[l[i]]
      BY <1>1, <3>1
    <3>4. QED BY <3>2, <3>3
  <2>2. CASE i = q
    <3>1. q < n /\ q \in q .. n - 1 /\ q - 1 \in 1 .. q - 1 /\ q + 1 \in 2 .. n
          /\ (q + 1) - 1 = q /\ q - 1 \in 1 .. n
      BY <2>2
    <3>2. g[q] = f[q + 1] /\ g[q - 1] = f[q - 1] /\ k[q] = l[q + 1]
      BY <1>3, <3>1
    <3>3. f[q + 1] = f[q] + ts[l[q + 1]] /\ f[q] = f[q - 1] + ts[l[q]]
      BY <1>1, <3>1
    <3>4. ts[l[q]] \in Int /\ ts[l[q + 1]] \in Int /\ f[q - 1] \in Int
      BY <1>2, <3>1
    <3>5. ks[l[q + 1]] = ts[l[q + 1]] + ts[l[q]]
      BY <3>1
    <3>6. QED BY <2>2, <3>2, <3>3, <3>4, <3>5
  <2>3. CASE i > q
    <3>1. i \in q .. n - 1 /\ i - 1 \in q .. n - 1 /\ (i - 1) + 1 = i
          /\ i + 1 \in 2 .. n /\ i + 1 # q /\ i + 1 # q + 1 /\ (i + 1) - 1 = i
      BY <2>3
    <3>2. g[i] = f[i + 1] /\ g[i - 1] = f[i] /\ k[i] = l[i + 1]
      BY <1>3, <3>1
    <3>3. f[i + 1] = f[i] + ts[l[i + 1]] /\ ks[l[i + 1]] = ts[l[i + 1]]
      BY <1>1, <3>1
    <3>4. QED BY <3>2, <3>3
  <2>4. QED BY <2>1, <2>2, <2>3
<1>7. \A i \in 1 .. n - 1 : g[i] >= e[k[i]]
  <2> SUFFICES ASSUME NEW i \in 1 .. n - 1 PROVE g[i] >= e[k[i]]
    OBVIOUS
  <2>1. CASE i < q
    <3>1. i \in 1 .. q - 1 /\ i \in 1 .. n /\ i # q
      BY <2>1
    <3>2. g[i] = f[i] /\ k[i] = l[i]
      BY <1>3, <3>1
    <3>3. f[i] >= d[l[i]] /\ e[l[i]] = d[l[i]]
      BY <1>1, <3>1
    <3>4. QED BY <3>2, <3>3
  <2>2. CASE i >= q
    <3>1. i \in q .. n - 1 /\ i + 1 \in 1 .. n /\ i + 1 # q
      BY <2>2
    <3>2. g[i] = f[i + 1] /\ k[i] = l[i + 1]
      BY <1>3, <3>1
    <3>3. f[i + 1] >= d[l[i + 1]] /\ e[l[i + 1]] = d[l[i + 1]]
      BY <1>1, <3>1
    <3>4. QED BY <3>2, <3>3
  <2>3. QED BY <2>1, <2>2
<1>8. Covers(g, n - 1, k, ks, r, e)
  BY <1>4, <1>5, <1>6, <1>7 DEF Covers, Sums
<1>9. QED BY <1>8 DEF Coverable

-----------------------------------------------------------------------------
(* Arming the alarm.                                                       *)

LEMMA LapseFacts ==
  ASSUME NEW d \in [Timers -> 0 .. MaxValue], NEW c \in Nat
  PROVE  /\ Lapse(d, c) \in [Timers -> 0 .. MaxValue]
         /\ \A u \in Timers : /\ Lapse(d, c)[u] \in Int /\ d[u] \in Int
                              /\ Lapse(d, c)[u] = 0 \/ Lapse(d, c)[u] <= d[u] - c
BY Positive DEF Lapse

LEMMA SetTimeoutFacts ==
  ASSUME TypeOK, NEW h \in Timers, NEW v \in 0 .. MaxValue,
         NEW ts \in [Timers -> 0 .. MaxValue],
         NEW d \in [Timers -> 0 .. MaxValue],
         SetTimeout(h, v, ts, d)
  PROVE  /\ timestamp' \in [Timers -> 0 .. MaxValue]
         /\ timestamp'[h] = Adjusted(v)
         /\ \A u \in Timers : u # h => timestamp'[u] = ts[u]
         /\ Adjusted(v) \in 0 .. v
         /\ alarmIn' \in 1 .. MaxValue
         /\ \/ alarmIn' + elapsed' = timestamp'[h]
            \/ timestamp'[h] = 0 /\ alarmIn' = 1
         /\ elapsed' = 0
         /\ nonScheduled' \in BOOLEAN
         /\ due' \in [Timers -> 0 .. MaxValue]
         /\ due' = Lapse(d, v - Adjusted(v))
<1>1. Adjusted(v) \in 0 .. v /\ Adjusted(v) \in 0 .. MaxValue
  BY AdjustedType, Positive
<1>2. timestamp' = [ts EXCEPT ![h] = Adjusted(v)]
  BY DEF SetTimeout
<1>3. alarmIn' = (IF Adjusted(v) = 0 THEN 1 ELSE Adjusted(v)) /\ elapsed' = 0
  BY DEF SetTimeout
<1>4. nonScheduled' \in BOOLEAN
  BY DEF SetTimeout, TypeOK
<1>5. due' = Lapse(d, v - Adjusted(v))
  BY DEF SetTimeout
<1>6. v - Adjusted(v) \in Nat
  BY <1>1
<1>7. due' \in [Timers -> 0 .. MaxValue]
  BY <1>5, <1>6, LapseFacts
<1>8. timestamp' \in [Timers -> 0 .. MaxValue] /\ timestamp'[h] = Adjusted(v)
      /\ \A u \in Timers : u # h => timestamp'[u] = ts[u]
  BY <1>1, <1>2
<1>9. alarmIn' \in 1 .. MaxValue
  BY <1>1, <1>3, Positive
<1>10. \/ alarmIn' + elapsed' = timestamp'[h]
       \/ timestamp'[h] = 0 /\ alarmIn' = 1
  BY <1>1, <1>3, <1>8
<1>11. QED BY <1>1, <1>3, <1>4, <1>5, <1>7, <1>8, <1>9, <1>10

(* A state whose alarm has just been armed for its head, and sums for it.  *)
LEMMA ArmedState ==
  ASSUME TypeOK', NEW n \in Nat, Len(list') = n, list' # <<>>,
         Distinct(n, list'), OnlyHeadRuns',
         running'[list'[1]], elapsed' = 0, alarmIn' \in 1 .. MaxValue,
         \/ alarmIn' + elapsed' = timestamp'[list'[1]]
         \/ timestamp'[list'[1]] = 0 /\ alarmIn' = 1,
         NEW a, timestamp'[list'[1]] = a,
         Coverable(n, list', timestamp', a, due')
  PROVE  IInv'
<1>1. Head(list') = list'[1] /\ list'[1] \in Timers
  BY DEF TypeOK
<1>2. timestamp'[list'[1]] \in 0 .. MaxValue
  BY <1>1 DEF TypeOK
<1>3. HeadRemaining' = timestamp'[list'[1]]
  BY <1>1, <1>2, Positive DEF HeadRemaining, Smaller
<1>4. Covered'
  BY <1>3 DEF Covered
<1>5. alarmIn' # Off
  BY TimerListAssumption, Positive
<1>6. AlarmMatches' /\ IdleRuns'
  BY <1>1, <1>5 DEF AlarmMatches, IdleRuns
<1>7. Distinct(Len(list), list)'
  OBVIOUS
<1>8. QED BY <1>4, <1>6, <1>7 DEF IInv

(* What the invariant says of a list that is not empty. *)
LEMMA NonEmptyFacts ==
  ASSUME IInv, list # <<>>
  PROVE  /\ Len(list) \in Nat \ {0}
         /\ Head(list) = list[1]
         /\ \A i \in 1 .. Len(list) : list[i] \in Timers
         /\ \A u \in Timers : /\ timestamp[u] \in 0 .. MaxValue
                              /\ timestamp[u] \in Int
                              /\ due[u] \in Int
         /\ HeadRemaining \in 0 .. MaxValue
         /\ HeadRemaining \in Int
         /\ HeadRemaining <= timestamp[list[1]]
         /\ Covers(Aggregated, Len(list), list, timestamp, HeadRemaining, due)
         /\ Aggregated[1] = HeadRemaining
         /\ \A i \in 1 .. Len(list) : HeadRemaining <= Aggregated[i]
<1>1. TypeOK
  BY DEF IInv
<1>2. /\ Len(list) \in Nat \ {0} /\ Head(list) = list[1]
      /\ \A i \in 1 .. Len(list) : list[i] \in Timers
  BY <1>1 DEF TypeOK
<1>3. \A u \in Timers : timestamp[u] \in 0 .. MaxValue /\ due[u] \in 0 .. MaxValue
  BY <1>1 DEF TypeOK
<1>4. \A u \in Timers : timestamp[u] \in Int /\ due[u] \in Int
  BY <1>3, Positive
<1>5. list[1] \in Timers
  BY <1>2
<1>6. HeadRemaining \in 0 .. timestamp[list[1]]
  BY <1>1, <1>2, HeadRemainingType
<1>7. Covers(Aggregated, Len(list), list, timestamp, HeadRemaining, due)
  BY AggregatedIs
<1>8. Aggregated[1] = HeadRemaining
  BY <1>7 DEF Covers, Sums
<1>9. \A i \in 1 .. Len(list) : HeadRemaining <= Aggregated[i]
  <2> TAKE i \in 1 .. Len(list)
  <2>1. 1 \in 1 .. Len(list) /\ 1 <= i
    BY <1>2
  <2>2. QED BY <1>8, <2>1, AggregatedGrows
<1>10. HeadRemaining \in 0 .. MaxValue /\ HeadRemaining \in Int
       /\ HeadRemaining <= timestamp[list[1]]
  BY <1>3, <1>4, <1>5, <1>6, Positive
<1>11. QED BY <1>2, <1>3, <1>4, <1>7, <1>8, <1>9, <1>10

-----------------------------------------------------------------------------
(* Each operation keeps the invariant.                                     *)

LEMMA InsertNewHeadKeeps ==
  ASSUME IInv, NEW t \in Timers, ~Exists(t), InsertNewHead(t),
         UNCHANGED <<reload, pending, irq, wakeUpTime>>
  PROVE  IInv'
<1> DEFINE v == reload[t]
           a == Adjusted(v)
           n == Len(list)
           old == IF list = <<>> THEN timestamp
                  ELSE [timestamp EXCEPT ![Head(list)] = HeadRemaining - v]
           d == [due EXCEPT ![t] = v]
<1>1. TypeOK /\ v \in 0 .. MaxValue /\ v \in Nat /\ n \in Nat
  <2>1. TypeOK
    BY DEF IInv
  <2>2. v \in Values /\ n \in Nat
    BY <2>1 DEF TypeOK
  <2> HIDE DEF v, n
  <2>3. v \in 1 .. MaxValue
    BY <2>2, TimerListAssumption
  <2>4. QED BY <2>1, <2>2, <2>3, Positive
<1>2. /\ list # <<>> => v < HeadRemaining
      /\ list' = <<t>> \o list
      /\ running' = HeadMarked(t)
      /\ SetTimeout(t, v, old, d)
  BY DEF InsertNewHead
<1>3. /\ old \in [Timers -> 0 .. MaxValue]
      /\ list # <<>> => /\ old[list[1]] = HeadRemaining - v
                        /\ \A u \in Timers : u # list[1] => old[u] = timestamp[u]
  <2>1. CASE list = <<>>
    BY <1>1, <2>1 DEF TypeOK
  <2>2. CASE list # <<>>
    <3>1. /\ Head(list) = list[1] /\ list[1] \in Timers
          /\ HeadRemaining - v \in 0 .. MaxValue
      BY <1>1, <1>2, <2>2, NonEmptyFacts, Positive
    <3>2. timestamp \in [Timers -> 0 .. MaxValue]
      BY <1>1 DEF TypeOK
    <3>3. QED BY <2>2, <3>1, <3>2
  <2>3. QED BY <2>1, <2>2
<1>4. /\ d \in [Timers -> 0 .. MaxValue] /\ d[t] = v
      /\ \A u \in Timers : u # t => d[u] = due[u]
  <2>1. due \in [Timers -> 0 .. MaxValue]
    BY <1>1 DEF TypeOK
  <2> HIDE DEF v
  <2>2. d = [due EXCEPT ![t] = v]
    OBVIOUS
  <2> HIDE DEF d
  <2>3. QED BY <1>1, <2>1, <2>2
<1> HIDE DEF old, d, v, a
<1>5. /\ timestamp' \in [Timers -> 0 .. MaxValue]
      /\ timestamp'[t] = a
      /\ \A u \in Timers : u # t => timestamp'[u] = old[u]
      /\ a \in 0 .. v
      /\ alarmIn' \in 1 .. MaxValue
      /\ \/ alarmIn' + elapsed' = timestamp'[t]
         \/ timestamp'[t] = 0 /\ alarmIn' = 1
      /\ elapsed' = 0
      /\ nonScheduled' \in BOOLEAN
      /\ due' \in [Timers -> 0 .. MaxValue]
      /\ due' = Lapse(d, v - a)
  BY <1>1, <1>2, <1>3, <1>4, SetTimeoutFacts DEF a
<1>6. /\ list' \in Seq(Timers) /\ list' # <<>> /\ Len(list') = n + 1
      /\ list'[1] = t
      /\ \A i \in 2 .. n + 1 : list'[i] = list[i - 1]
  BY <1>1, <1>2 DEF TypeOK
<1>7. \A i \in 1 .. n : list[i] \in Timers /\ list[i] # t
  BY <1>1 DEF TypeOK, Exists, ToSet
<1>8. /\ running' \in [Timers -> BOOLEAN] /\ running'[t]
      /\ list # <<>> => ~running'[list[1]]
      /\ \A u \in Timers : u # t /\ running'[u] => running[u]
  <2>1. CASE list = <<>>
    BY <1>1, <1>2, <2>1 DEF HeadMarked, TypeOK
  <2>2. CASE list # <<>>
    <3>1. Head(list) = list[1] /\ list[1] \in Timers /\ list[1] # t
      BY <1>7, <2>2, NonEmptyFacts
    <3>2. running' = [running EXCEPT ![list[1]] = FALSE, ![t] = TRUE]
      BY <1>2, <2>2, <3>1 DEF HeadMarked
    <3>3. running \in [Timers -> BOOLEAN]
      BY <1>1 DEF TypeOK
    <3>4. QED BY <3>1, <3>2, <3>3
  <2>3. QED BY <2>1, <2>2
<1>9. TypeOK'
  BY <1>1, <1>5, <1>6, <1>8, Positive DEF TypeOK
<1>10. Distinct(n + 1, list')
  <2> SUFFICES ASSUME NEW i \in 1 .. n + 1, NEW j \in 1 .. n + 1,
                      list'[i] = list'[j]
               PROVE  i = j
    BY DEF Distinct
  <2>1. (i = 1 \/ i - 1 \in 1 .. n) /\ (j = 1 \/ j - 1 \in 1 .. n)
    BY <1>1
  <2>2. (i # 1 => list'[i] = list[i - 1]) /\ (j # 1 => list'[j] = list[j - 1])
    BY <1>6
  <2>3. i # 1 /\ j # 1 => i - 1 = j - 1
    BY <2>1, <2>2 DEF IInv, Distinct
  <2>4. QED BY <1>6, <1>7, <2>1, <2>2, <2>3
<1>11. OnlyHeadRuns'
  <2> SUFFICES ASSUME NEW i \in 2 .. n + 1 PROVE ~running'[list'[i]]
    BY <1>6 DEF OnlyHeadRuns
  <2>1. list'[i] = list[i - 1] /\ i - 1 \in 1 .. n
    BY <1>1, <1>6
  <2>2. list # <<>> /\ list[i - 1] \in Timers /\ list[i - 1] # t
    BY <1>1, <1>7, <2>1
  <2>3. CASE i = 2
    BY <2>1, <2>2, <2>3, <1>8
  <2>4. CASE i # 2
    <3>1. ~running[list[i - 1]]
      BY <2>1, <2>4 DEF IInv, OnlyHeadRuns
    <3>2. QED BY <2>1, <2>2, <3>1, <1>8
  <2>5. QED BY <2>3, <2>4
<1>12. Coverable(n + 1, list', timestamp', a, due')
  <2>1. CASE list = <<>>
    <3> DEFINE g == [i \in 1 .. 1 |-> a]
    <3>1. n = 0
      BY <2>1
    <3>2. due'[t] = 0 \/ due'[t] <= a
      BY <1>1, <1>4, <1>5 DEF Lapse
    <3>3. a \in 0 .. MaxValue /\ a \in Nat
      BY <1>1, <1>5
    <3>4. Sums(g, 1, list', timestamp', a)
      BY <3>3 DEF Sums
    <3>5. g[1] >= due'[list'[1]]
      BY <3>2, <3>3, <1>6
    <3> HIDE DEF g
    <3>6. Covers(g, 1, list', timestamp', a, due')
      BY <3>4, <3>5 DEF Covers
    <3>7. QED BY <3>1, <3>6 DEF Coverable
  <2>2. CASE list # <<>>
    <3>1. /\ n \in Nat \ {0}
          /\ HeadRemaining \in Int /\ v < HeadRemaining
          /\ Covers(Aggregated, n, list, timestamp, HeadRemaining, due)
          /\ \A i \in 1 .. n : HeadRemaining <= Aggregated[i]
      BY <1>2, <2>2, NonEmptyFacts
    <3>2. timestamp'[list[1]] = HeadRemaining - v
      BY <1>3, <1>5, <1>7, <2>2, <3>1
    <3>3. \A i \in 2 .. n : /\ timestamp'[list[i]] = timestamp[list[i]]
                            /\ timestamp[list[i]] \in Int
      <4> TAKE i \in 2 .. n
      <4>1. i \in 1 .. n /\ 1 \in 1 .. n /\ list[i] # list[1]
        BY <3>1 DEF IInv, Distinct
      <4>2. QED BY <4>1, <1>3, <1>5, <1>7, <2>2, NonEmptyFacts
    <3>4. v - a \in Nat
      BY <1>1, <1>5
    <3>5. due'[t] <= a /\ due'[t] \in Int
      BY <1>1, <1>4, <1>5, <3>4 DEF Lapse
    <3>6. \A i \in 1 .. n :
            /\ due'[list[i]] \in Int /\ due[list[i]] \in Int
            /\ due'[list[i]] = 0 \/ due'[list[i]] <= due[list[i]] - (v - a)
      <4> TAKE i \in 1 .. n
      <4>1. list[i] \in Timers /\ d[list[i]] = due[list[i]]
        BY <1>4, <1>7
      <4>2. QED BY <4>1, <1>4, <1>5, <3>4, LapseFacts
    <3>7. /\ \A i \in 2 .. n + 1 : list'[i] = list[i - 1]
          /\ due'[list'[1]] <= a /\ due'[list'[1]] \in Int
          /\ v \in 0 .. MaxValue /\ a \in 0 .. v
      BY <3>5, <1>1, <1>5, <1>6
    <3> HIDE DEF n
    <3>8. n \in Nat \ {0}
          /\ Covers(Aggregated, n, list, timestamp, HeadRemaining, due)
      BY <3>1
    <3>9. v \in 0 .. MaxValue /\ a \in 0 .. v
          /\ HeadRemaining \in Int /\ v < HeadRemaining
      BY <3>1, <3>7
    <3>10. \A i \in 1 .. n : HeadRemaining <= Aggregated[i]
      BY <3>1
    <3>11. \A i \in 2 .. n + 1 : list'[i] = list[i - 1]
      BY <3>7
    <3>12. due'[list'[1]] <= a /\ due'[list'[1]] \in Int
      BY <3>7
    <3>13. Pushed(n, list, timestamp, HeadRemaining, Aggregated, due, v, a,
                  list', timestamp', due')
      BY <3>2, <3>3, <3>6, <3>8, <3>9, <3>10, <3>11, <3>12 DEF Pushed
    <3>14. QED BY <3>13, PushCovers
  <2>3. QED BY <2>1, <2>2
<1>13. n + 1 \in Nat
  BY <1>1
<1>14. QED
  BY <1>5, <1>6, <1>8, <1>9, <1>10, <1>11, <1>12, <1>13, ArmedState

(* A step that leaves the alarm and the head of the list as they are.      *)
LEMMA QuietState ==
  ASSUME IInv, list # <<>>, TypeOK', NEW n \in Nat, Len(list') = n,
         list' # <<>>, list'[1] = list[1],
         UNCHANGED <<irq, alarmIn, elapsed, pending>>,
         running'[list[1]] = running[list[1]],
         timestamp'[list[1]] = timestamp[list[1]],
         Distinct(n, list'), OnlyHeadRuns',
         Coverable(n, list', timestamp', HeadRemaining, due')
  PROVE  IInv'
<1>1. Head(list') = list'[1] /\ Head(list) = list[1]
  BY NonEmptyFacts DEF TypeOK
<1>2. HeadRemaining' = HeadRemaining
  BY <1>1 DEF HeadRemaining
<1>3. Covered'
  BY <1>2 DEF Covered
<1>4. AlarmMatches'
  BY <1>1 DEF IInv, AlarmMatches
<1>5. IdleRuns'
  BY <1>1 DEF IInv, IdleRuns
<1>6. Distinct(Len(list), list)'
  OBVIOUS
<1>7. QED BY <1>3, <1>4, <1>5, <1>6 DEF IInv

(* An empty list leaves nothing to say but the types. *)
LEMMA EmptyState ==
  ASSUME TypeOK', list' = <<>>
  PROVE  IInv'
<1>1. Len(list') = 0
  OBVIOUS
<1>2. Distinct(Len(list), list)' /\ OnlyHeadRuns'
  BY <1>1 DEF Distinct, OnlyHeadRuns
<1>3. QED BY <1>2 DEF IInv, IdleRuns, AlarmMatches, Covered

LEMMA PlacesAreSequence ==
  ASSUME NEW n \in Nat, NEW S, NEW s, s \in [1 .. n -> S]
  PROVE  s \in Seq(S) /\ Len(s) = n
OBVIOUS

LEMMA InsertTimerKeeps ==
  ASSUME IInv, NEW t \in Timers, ~Exists(t), InsertTimer(t),
         UNCHANGED <<reload, pending, irq, wakeUpTime>>
  PROVE  IInv'
<1> DEFINE v == reload[t]
           n == Len(list)
           p == InsertAfter(v)
           r == HeadRemaining
           G == Aggregated
           delta == v - G[p]
<1>1. TypeOK /\ list # <<>> /\ v \in 0 .. MaxValue /\ v \in Nat /\ v >= r
  <2>1. TypeOK /\ list # <<>> /\ v >= r
    BY DEF IInv, InsertTimer
  <2>2. v \in Values
    BY <2>1 DEF TypeOK
  <2> HIDE DEF v, r
  <2>3. v \in 1 .. MaxValue
    BY <2>2, TimerListAssumption
  <2>4. QED BY <2>1, <2>3, Positive
<1>2. /\ list' = LinkedAfter(p, t)
      /\ running' = [running EXCEPT ![t] = FALSE]
      /\ timestamp' = [u \in Timers |->
                         IF u = t THEN delta
                         ELSE IF p < n /\ u = list[p + 1]
                              THEN timestamp[u] - delta
                         ELSE timestamp[u]]
      /\ due' = [due EXCEPT ![t] = v]
      /\ UNCHANGED <<alarmIn, elapsed, nonScheduled>>
  BY DEF InsertTimer, NoTimeout
<1>3. /\ p \in 1 .. n
      /\ \A i \in 2 .. p : G[i] <= v
      /\ p < n => G[p + 1] > v
  BY <1>1, InsertAfterIs
<1>4. /\ n \in Nat \ {0}
      /\ \A i \in 1 .. n : list[i] \in Timers
      /\ \A u \in Timers : /\ timestamp[u] \in 0 .. MaxValue
                           /\ timestamp[u] \in Int
                           /\ due[u] \in Int
      /\ r \in 0 .. MaxValue /\ r \in Int
      /\ Covers(G, n, list, timestamp, r, due)
      /\ G[1] = r
  BY <1>1, NonEmptyFacts
<1>5. \A i \in 1 .. n : list[i] # t
  BY <1>1 DEF TypeOK, Exists, ToSet
<1>6. Distinct(n, list)
  BY DEF IInv
<1> HIDE DEF v, n, p, r, G
<1>7. /\ \A i \in 1 .. n : G[i] \in 0 .. MaxValue
      /\ \A i \in 2 .. n : G[i] = G[i - 1] + timestamp[list[i]]
  BY <1>4 DEF Covers, Sums
<1>8. G[p] <= v /\ G[p] \in 0 .. MaxValue /\ delta \in 0 .. MaxValue
  BY <1>1, <1>3, <1>4, <1>7, Positive
<1>9. p < n => /\ p + 1 \in 2 .. n /\ list[p + 1] \in Timers
               /\ timestamp[list[p + 1]] - delta \in 0 .. MaxValue
  <2> SUFFICES ASSUME p < n
               PROVE  /\ p + 1 \in 2 .. n /\ list[p + 1] \in Timers
                      /\ timestamp[list[p + 1]] - delta \in 0 .. MaxValue
    OBVIOUS
  <2>1. p + 1 \in 2 .. n /\ p + 1 \in 1 .. n /\ (p + 1) - 1 = p
    BY <1>3, <1>4
  <2>2. G[p + 1] = G[p] + timestamp[list[p + 1]] /\ list[p + 1] \in Timers
    BY <1>4, <1>7, <2>1
  <2>3. timestamp[list[p + 1]] \in 0 .. MaxValue
    BY <1>4, <2>2
  <2>4. QED BY <1>1, <1>3, <1>8, <2>1, <2>2, <2>3, Positive
<1> HIDE DEF delta
<1>10. timestamp' \in [Timers -> 0 .. MaxValue]
  <2> SUFFICES ASSUME NEW u \in Timers
               PROVE  (IF u = t THEN delta
                       ELSE IF p < n /\ u = list[p + 1]
                            THEN timestamp[u] - delta
                       ELSE timestamp[u]) \in 0 .. MaxValue
    BY <1>2
  <2>1. QED BY <1>4, <1>8, <1>9
<1>11. list' = [i \in 1 .. n + 1 |-> IF i <= p THEN list[i]
                                     ELSE IF i = p + 1 THEN t ELSE list[i - 1]]
  BY <1>2 DEF LinkedAfter, n
<1>12. /\ \A i \in 1 .. p : i \in 1 .. n /\ list'[i] = list[i]
       /\ list'[p + 1] = t
       /\ \A i \in p + 2 .. n + 1 : i - 1 \in 1 .. n /\ list'[i] = list[i - 1]
  BY <1>3, <1>4, <1>11
<1>13. \A i \in 1 .. n + 1 : i \in 1 .. p \/ i = p + 1 \/ i \in p + 2 .. n + 1
  BY <1>3, <1>4
<1>14. list' \in Seq(Timers) /\ Len(list') = n + 1 /\ list' # <<>>
       /\ list'[1] = list[1]
  <2>1. \A i \in 1 .. n + 1 : list'[i] \in Timers
    BY <1>4, <1>12, <1>13
  <2>2. list' \in [1 .. n + 1 -> Timers] /\ n + 1 \in Nat
    BY <1>4, <1>11, <2>1
  <2>3. list' \in Seq(Timers) /\ Len(list') = n + 1
    BY <2>2, PlacesAreSequence
  <2>4. 1 \in 1 .. p
    BY <1>3, <1>4
  <2>5. QED BY <1>4, <1>12, <2>3, <2>4
<1>15. TypeOK'
  <2>1. due' \in [Timers -> 0 .. MaxValue] /\ running' \in [Timers -> BOOLEAN]
    BY <1>1, <1>2 DEF TypeOK
  <2>2. QED BY <1>1, <1>2, <1>10, <1>14, <2>1 DEF TypeOK
<1>16. Distinct(n + 1, list')
  <2> SUFFICES ASSUME NEW i \in 1 .. n + 1, NEW j \in 1 .. n + 1,
                      list'[i] = list'[j]
               PROVE  i = j
    BY DEF Distinct
  <2>1. QED BY <1>3, <1>4, <1>5, <1>6, <1>12, <1>13 DEF Distinct
<1>17. OnlyHeadRuns'
  <2> SUFFICES ASSUME NEW i \in 2 .. n + 1 PROVE ~running'[list'[i]]
    BY <1>14 DEF OnlyHeadRuns
  <2>1. \A j \in 2 .. n : ~running'[list[j]]
    <3> TAKE j \in 2 .. n
    <3>1. list[j] \in Timers /\ ~running[list[j]]
      BY <1>4 DEF IInv, OnlyHeadRuns, n
    <3>2. QED BY <1>1, <1>2, <3>1 DEF TypeOK
  <2>2. CASE i \in 2 .. p
    BY <1>3, <1>4, <1>12, <2>1, <2>2
  <2>3. CASE i = p + 1
    BY <1>1, <1>2, <1>12, <2>3 DEF TypeOK
  <2>4. CASE i \in p + 2 .. n + 1
    <3>1. i - 1 \in 2 .. n
      BY <1>3, <1>4, <2>4
    <3>2. QED BY <1>12, <2>1, <2>4, <3>1
  <2>5. QED BY <1>3, <1>4, <2>2, <2>3, <2>4
<1>18. \A i \in 1 .. n : /\ due'[list[i]] = due[list[i]]
                         /\ i # p + 1 => timestamp'[list[i]] = timestamp[list[i]]
  <2> TAKE i \in 1 .. n
  <2>1. list[i] \in Timers /\ list[i] # t
    BY <1>4, <1>5
  <2>2. p < n /\ i # p + 1 => list[i] # list[p + 1]
    BY <1>3, <1>4, <1>6 DEF Distinct
  <2>3. QED BY <1>1, <1>2, <2>1, <2>2 DEF TypeOK
<1>19. /\ p < n => timestamp'[list[p + 1]] = timestamp[list[p + 1]] - (v - G[p])
       /\ timestamp'[t] = v - G[p]
       /\ due'[t] = v
  <2>1. p < n => list[p + 1] \in Timers /\ list[p + 1] # t
    BY <1>3, <1>4, <1>5
  <2>2. QED BY <1>1, <1>2, <2>1 DEF TypeOK, delta
<1>20. Coverable(n + 1, list', timestamp', r, due')
  <2>1. \A i \in 2 .. n : timestamp[list[i]] \in Int
    BY <1>4
  <2>2. \A i \in 1 .. p : list'[i] = list[i]
    BY <1>12
  <2>3. \A i \in p + 2 .. n + 1 : list'[i] = list[i - 1]
    BY <1>12
  <2>4. timestamp'[list'[p + 1]] = v - G[p] /\ due'[list'[p + 1]] = v
    BY <1>12, <1>19
  <2>5. \A i \in 2 .. n : i # p + 1 => timestamp'[list[i]] = timestamp[list[i]]
    BY <1>18
  <2>6. p < n => timestamp'[list[p + 1]] = timestamp[list[p + 1]] - (v - G[p])
    BY <1>19
  <2>7. \A i \in 1 .. n : due'[list[i]] = due[list[i]]
    BY <1>18
  <2>8. n \in Nat \ {0} /\ p \in 1 .. n /\ v \in 0 .. MaxValue /\ G[p] <= v
        /\ Covers(G, n, list, timestamp, r, due)
    BY <1>1, <1>3, <1>4, <1>8
  <2>9. Linked(n, list, timestamp, r, G, due, p, v, list', timestamp', due')
    BY <2>1, <2>2, <2>3, <2>4, <2>5, <2>6, <2>7, <2>8 DEF Linked
  <2>10. QED BY <2>9, LinkCovers
<1>21. running'[list[1]] = running[list[1]]
       /\ timestamp'[list[1]] = timestamp[list[1]]
  <2>1. 1 \in 1 .. n /\ 1 # p + 1
    BY <1>3, <1>4
  <2>2. QED BY <1>1, <1>2, <1>4, <1>5, <1>18, <2>1 DEF TypeOK
<1>22. n + 1 \in Nat
  BY <1>4
<1>23. QED
  BY <1>1, <1>2, <1>14, <1>15, <1>16, <1>17, <1>20, <1>21, <1>22, QuietState
     DEF r

LEMMA StopLastKeeps ==
  ASSUME IInv, NEW t \in Timers, StopLast(t),
         UNCHANGED <<reload, pending, irq, wakeUpTime>>
  PROVE  IInv'
<1>1. TypeOK
  BY DEF IInv
<1>2. list' = <<>> /\ due' = [due EXCEPT ![t] = 0] /\ timestamp' = timestamp
      /\ UNCHANGED <<running, alarmIn, elapsed, nonScheduled>>
  BY DEF StopLast, NoTimeout
<1>3. due' \in [Timers -> 0 .. MaxValue]
  BY <1>1, <1>2, Positive DEF TypeOK
<1>4. TypeOK'
  BY <1>1, <1>2, <1>3 DEF TypeOK
<1>5. QED BY <1>2, <1>4, EmptyState

(* A list of several timers without its head. *)
LEMMA TailFacts ==
  ASSUME IInv, Len(list) > 1, list' = Tail(list)
  PROVE  /\ Len(list) \in Nat \ {0, 1}
         /\ list' \in Seq(Timers) /\ list' # <<>>
         /\ Len(list') = Len(list) - 1
         /\ \A i \in 1 .. Len(list) - 1 : list'[i] = list[i + 1]
         /\ list'[1] = list[2]
         /\ Distinct(Len(list) - 1, list')
<1>1. list \in Seq(Timers) /\ Distinct(Len(list), list)
  BY DEF IInv, TypeOK
<1>2. /\ Len(list) \in Nat \ {0, 1}
      /\ list' \in Seq(Timers) /\ list' # <<>>
      /\ Len(list') = Len(list) - 1
      /\ \A i \in 1 .. Len(list) - 1 : list'[i] = list[i + 1]
  BY <1>1
<1>3. list'[1] = list[2]
  BY <1>2
<1>4. Distinct(Len(list) - 1, list')
  <2> SUFFICES ASSUME NEW i \in 1 .. Len(list) - 1, NEW j \in 1 .. Len(list) - 1,
                      list'[i] = list'[j]
               PROVE  i = j
    BY DEF Distinct
  <2>1. i + 1 \in 1 .. Len(list) /\ j + 1 \in 1 .. Len(list)
    BY <1>2
  <2>2. list[i + 1] = list[j + 1]
    BY <1>2
  <2>3. i + 1 = j + 1
    BY <1>1, <2>1, <2>2 DEF Distinct
  <2>4. QED BY <1>2, <2>3
<1>5. QED BY <1>2, <1>3, <1>4

(* The head gone, and s ms left of the next timer.                         *)
LEMMA TailCovers ==
  ASSUME IInv, Len(list) > 1, list' = Tail(list),
         NEW s \in Nat, s <= Aggregated[2],
         \A i \in 3 .. Len(list) : timestamp'[list[i]] = timestamp[list[i]],
         \A i \in 2 .. Len(list) :
            /\ due'[list[i]] \in Int
            /\ due'[list[i]] = 0 \/ due'[list[i]] <= due[list[i]] - (Aggregated[2] - s)
  PROVE  Coverable(Len(list) - 1, list', timestamp', s, due')
<1>1. Len(list) \in Nat \ {0, 1} /\ list # <<>>
      /\ \A i \in 1 .. Len(list) - 1 : list'[i] = list[i + 1]
  BY TailFacts
<1>2. /\ \A i \in 1 .. Len(list) : list[i] \in Timers
      /\ \A u \in Timers : timestamp[u] \in Int /\ due[u] \in Int
      /\ Covers(Aggregated, Len(list), list, timestamp, HeadRemaining, due)
  BY <1>1, NonEmptyFacts
<1>3. \A i, j \in 1 .. Len(list) : i <= j => Aggregated[i] <= Aggregated[j]
  BY <1>1, AggregatedGrows
<1>4. \A i \in 3 .. Len(list) : /\ timestamp'[list[i]] = timestamp[list[i]]
                                /\ timestamp[list[i]] \in Int
  BY <1>2
<1>5. \A i \in 2 .. Len(list) :
        /\ due'[list[i]] \in Int /\ due[list[i]] \in Int
        /\ due'[list[i]] = 0 \/ due'[list[i]] <= due[list[i]] - (Aggregated[2] - s)
  BY <1>2
<1>6. /\ Len(list) \in Nat \ {0, 1}
      /\ Covers(Aggregated, Len(list), list, timestamp, HeadRemaining, due)
  BY <1>1, <1>2
<1>7. \A i \in 1 .. Len(list) - 1 : list'[i] = list[i + 1]
  BY <1>1
<1>8. Dropped(Len(list), list, timestamp, HeadRemaining, Aggregated, due, s,
              list', timestamp', due')
  BY <1>3, <1>4, <1>5, <1>6, <1>7 DEF Dropped
<1>9. QED BY <1>8, DropCovers

(* The second timer in the list is due after both deltas. *)
LEMMA SecondFacts ==
  ASSUME IInv, Len(list) > 1
  PROVE  /\ list # <<>> /\ list[2] \in Timers /\ list[2] # list[1]
         /\ Aggregated[2] = timestamp[list[2]] + HeadRemaining
         /\ Aggregated[2] \in 0 .. MaxValue
<1>1. list # <<>> /\ 1 \in 1 .. Len(list) /\ 2 \in 1 .. Len(list)
      /\ 2 \in 2 .. Len(list)
  BY DEF IInv, TypeOK
<1>2. Covers(Aggregated, Len(list), list, timestamp, HeadRemaining, due)
      /\ HeadRemaining \in Int /\ list[2] \in Timers
      /\ timestamp[list[2]] \in Int
  BY <1>1, NonEmptyFacts
<1>3. Aggregated[1] = HeadRemaining /\ Aggregated[2] \in 0 .. MaxValue
      /\ Aggregated[2] = Aggregated[2 - 1] + timestamp[list[2]]
  BY <1>1, <1>2 DEF Covers, Sums
<1>4. list[2] # list[1]
  BY <1>1 DEF IInv, Distinct
<1>5. QED BY <1>1, <1>2, <1>3, <1>4

LEMMA StopHeadKeeps ==
  ASSUME IInv, NEW t \in Timers, StopHead(t),
         UNCHANGED <<reload, pending, irq, wakeUpTime>>
  PROVE  IInv'
<1> DEFINE n == Len(list)
           h == list[2]
           v == Aggregated[2]
           a == Adjusted(v)
           d == [due EXCEPT ![t] = 0]
<1>1. TypeOK /\ n > 1 /\ list' = Tail(list) /\ t = Head(list)
  BY DEF IInv, StopHead
<1>2. /\ n \in Nat \ {0, 1} /\ list # <<>> /\ t = list[1]
      /\ h \in Timers /\ h # t
      /\ v = timestamp[h] + HeadRemaining
      /\ v \in 0 .. MaxValue
      /\ \A i \in 1 .. n : list[i] \in Timers
      /\ \A u \in Timers : due[u] \in Int
  BY <1>1, SecondFacts, TailFacts, NonEmptyFacts
<1>3. /\ list' \in Seq(Timers) /\ list' # <<>> /\ Len(list') = n - 1
      /\ list'[1] = h /\ Distinct(n - 1, list')
      /\ \A i \in 1 .. n - 1 : list'[i] = list[i + 1]
  BY <1>1, TailFacts
<1>4. \A i \in 2 .. n : list[i] # t /\ ~running[list[i]]
  <2> TAKE i \in 2 .. n
  <2>1. i \in 1 .. n /\ 1 \in 1 .. n
    BY <1>2
  <2>2. QED BY <1>2, <2>1 DEF IInv, Distinct, OnlyHeadRuns
<1>5. \A i \in 3 .. n : list[i] # h /\ list[i] \in Timers
  <2> TAKE i \in 3 .. n
  <2>1. i \in 1 .. n /\ 2 \in 1 .. n
    BY <1>2
  <2>2. QED BY <1>2, <2>1 DEF IInv, Distinct
<1>6. /\ due \in [Timers -> 0 .. MaxValue]
      /\ timestamp \in [Timers -> 0 .. MaxValue]
      /\ running \in [Timers -> BOOLEAN]
  BY <1>1 DEF TypeOK
<1>7. d \in [Timers -> 0 .. MaxValue] /\ \A u \in Timers : u # t => d[u] = due[u]
  BY <1>6, Positive
<1> HIDE DEF h, v, a, d, n
<1>8. CASE running[t]
  <2>1. /\ running' = [running EXCEPT ![t] = FALSE, ![h] = TRUE]
        /\ SetTimeout(h, v, timestamp, d)
    BY <1>2, <1>8 DEF StopHead, h, d
  <2>2. /\ timestamp' \in [Timers -> 0 .. MaxValue]
        /\ timestamp'[h] = a
        /\ \A u \in Timers : u # h => timestamp'[u] = timestamp[u]
        /\ a \in 0 .. v
        /\ alarmIn' \in 1 .. MaxValue
        /\ \/ alarmIn' + elapsed' = timestamp'[h]
           \/ timestamp'[h] = 0 /\ alarmIn' = 1
        /\ elapsed' = 0
        /\ nonScheduled' \in BOOLEAN
        /\ due' \in [Timers -> 0 .. MaxValue]
        /\ due' = Lapse(d, v - a)
    <3>1. TypeOK /\ SetTimeout(h, v, timestamp, d)
      BY <1>1, <2>1
    <3>2. /\ h \in Timers /\ v \in 0 .. MaxValue
          /\ timestamp \in [Timers -> 0 .. MaxValue]
          /\ d \in [Timers -> 0 .. MaxValue]
      BY <1>2, <1>6, <1>7
    <3>3. QED BY <3>1, <3>2, SetTimeoutFacts DEF a
  <2>3. running' \in [Timers -> BOOLEAN] /\ running'[h]
        /\ \A u \in Timers : u # h /\ running'[u] => running[u]
    BY <1>2, <1>6, <2>1
  <2>4. TypeOK'
    <3>1. list' \in Seq(Timers) /\ elapsed' \in 0 .. MaxValue
      BY <1>3, <2>2, Positive
    <3>2. timestamp' \in [Timers -> 0 .. MaxValue]
          /\ due' \in [Timers -> 0 .. MaxValue]
          /\ alarmIn' \in 1 .. MaxValue /\ nonScheduled' \in BOOLEAN
          /\ running' \in [Timers -> BOOLEAN]
      BY <2>2, <2>3
    <3>3. QED BY <1>1, <3>1, <3>2 DEF TypeOK
  <2>5. OnlyHeadRuns'
    <3> SUFFICES ASSUME NEW i \in 2 .. n - 1 PROVE ~running'[list'[i]]
      BY <1>3 DEF OnlyHeadRuns
    <3>1. i + 1 \in 3 .. n /\ i + 1 \in 2 .. n /\ i \in 1 .. n - 1
      BY <1>2
    <3>2. QED BY <1>3, <1>4, <1>5, <2>3, <3>1
  <2>6. v - a \in Nat /\ v - a <= v /\ v - (v - a) = a
    BY <1>2, <2>2
  <2>7. \A i \in 2 .. n :
          /\ due'[list[i]] \in Int
          /\ due'[list[i]] = 0 \/ due'[list[i]] <= due[list[i]] - (v - a)
    <3> TAKE i \in 2 .. n
    <3>1. list[i] \in Timers /\ d[list[i]] = due[list[i]]
      BY <1>2, <1>4, <1>7
    <3>2. QED BY <1>7, <2>2, <2>6, <3>1, LapseFacts
  <2>8. \A i \in 3 .. n : timestamp'[list[i]] = timestamp[list[i]]
    BY <1>5, <2>2
  <2>9. a \in Nat /\ a <= v
    BY <1>2, <2>2
  <2>10. Coverable(n - 1, list', timestamp', a, due')
    BY <1>1, <2>7, <2>8, <2>9, TailCovers DEF n, v
  <2>11. n - 1 \in Nat
    BY <1>2
  <2>12. QED
    BY <1>3, <2>2, <2>3, <2>4, <2>5, <2>10, <2>11, ArmedState
<1>9. CASE ~running[t]
  <2>1. /\ running' = running
        /\ timestamp' = [timestamp EXCEPT ![h] = v]
        /\ due' = d
        /\ UNCHANGED <<alarmIn, elapsed, nonScheduled>>
    BY <1>2, <1>9 DEF StopHead, NoTimeout, h, d
  <2>2. TypeOK'
    BY <1>1, <1>2, <1>3, <1>6, <1>7, <2>1 DEF TypeOK
  <2>3. irq' = "loop"
    BY <1>1, <1>2, <1>9 DEF IInv, IdleRuns, TypeOK
  <2>4. Head(list') = h /\ ~running'[h] /\ timestamp'[h] = v
    <3>1. 2 \in 2 .. n
      BY <1>2
    <3>2. ~running[h]
      BY <1>4, <3>1 DEF h
    <3>3. QED BY <1>2, <1>3, <1>6, <2>1, <3>2
  <2>5. HeadRemaining' = v
    BY <2>4 DEF HeadRemaining
  <2>6. OnlyHeadRuns'
    <3> SUFFICES ASSUME NEW i \in 2 .. n - 1 PROVE ~running'[list'[i]]
      BY <1>3 DEF OnlyHeadRuns
    <3>1. i + 1 \in 2 .. n /\ i \in 1 .. n - 1
      BY <1>2
    <3>2. QED BY <1>3, <1>4, <2>1, <3>1
  <2>7. \A i \in 2 .. n :
          /\ due'[list[i]] \in Int
          /\ due'[list[i]] = 0 \/ due'[list[i]] <= due[list[i]] - (v - v)
    BY <1>2, <1>4, <1>7, <2>1
  <2>8. \A i \in 3 .. n : timestamp'[list[i]] = timestamp[list[i]]
    BY <1>5, <1>6, <2>1
  <2>9. v \in Nat /\ v <= v
    BY <1>2
  <2>10. Coverable(n - 1, list', timestamp', v, due')
    BY <1>1, <2>7, <2>8, <2>9, TailCovers DEF n, v
  <2>11. Covered'
    BY <1>3, <2>5, <2>10 DEF Covered
  <2>12. IdleRuns' /\ AlarmMatches'
    BY <2>3, <2>4 DEF IdleRuns, AlarmMatches
  <2>13. Distinct(Len(list), list)'
    BY <1>3
  <2>14. QED BY <2>2, <2>6, <2>11, <2>12, <2>13 DEF IInv
<1>10. QED BY <1>8, <1>9

LEMMA StopWithinKeeps ==
  ASSUME IInv, NEW t \in Timers, StopWithin(t),
         UNCHANGED <<reload, pending, irq, wakeUpTime>>
  PROVE  IInv'
<1> DEFINE n == Len(list)
           r == HeadRemaining
<1>1. PICK q \in 2 .. n :
        /\ list[q] = t
        /\ list' = Unlinked(q)
        /\ timestamp' = DeltaKept(q)
        /\ due' = [due EXCEPT ![t] = 0]
        /\ UNCHANGED <<running, alarmIn, elapsed, nonScheduled>>
  BY DEF StopWithin, NoTimeout
<1>2. TypeOK /\ list # <<>>
  BY <1>1 DEF IInv, TypeOK
<1>3. /\ n \in Nat \ {0, 1}
      /\ \A i \in 1 .. n : list[i] \in Timers
      /\ \A u \in Timers : /\ timestamp[u] \in 0 .. MaxValue
                           /\ timestamp[u] \in Int
                           /\ due[u] \in Int
      /\ Covers(Aggregated, n, list, timestamp, r, due)
  BY <1>1, <1>2, NonEmptyFacts
<1>4. Distinct(n, list)
  BY DEF IInv
<1>5. list' = [i \in 1 .. n - 1 |-> IF i < q THEN list[i] ELSE list[i + 1]]
  BY <1>1 DEF Unlinked
<1>6. q < n => /\ q + 1 \in 2 .. n /\ list[q + 1] \in Timers
               /\ timestamp' = [timestamp EXCEPT
                                  ![list[q + 1]] = @ + timestamp[list[q]]]
  BY <1>1, <1>3 DEF DeltaKept
<1>7. q = n => timestamp' = timestamp
  BY <1>1 DEF DeltaKept
<1>8. /\ due \in [Timers -> 0 .. MaxValue]
      /\ timestamp \in [Timers -> 0 .. MaxValue]
      /\ list \in Seq(Timers)
  BY <1>2 DEF TypeOK
<1>20. /\ \A i \in 1 .. n : Aggregated[i] \in 0 .. MaxValue
       /\ \A i \in 2 .. n : Aggregated[i] = Aggregated[i - 1] + timestamp[list[i]]
  BY <1>3 DEF Covers, Sums
<1> HIDE DEF n, r
(* Two deltas in a row are part of an expiry time. *)
<1>9. q < n => timestamp[list[q + 1]] + timestamp[list[q]] \in 0 .. MaxValue
  <2> SUFFICES ASSUME q < n
               PROVE  timestamp[list[q + 1]] + timestamp[list[q]] \in 0 .. MaxValue
    OBVIOUS
  <2>1. q \in 2 .. n /\ q \in 1 .. n /\ q - 1 \in 1 .. n
        /\ q + 1 \in 2 .. n /\ q + 1 \in 1 .. n /\ (q + 1) - 1 = q
    BY <1>3
  <2>2. Aggregated[q] = Aggregated[q - 1] + timestamp[list[q]]
        /\ Aggregated[q + 1] = Aggregated[q] + timestamp[list[q + 1]]
    BY <1>20, <2>1
  <2>3. /\ Aggregated[q - 1] \in 0 .. MaxValue
        /\ Aggregated[q + 1] \in 0 .. MaxValue
        /\ timestamp[list[q]] \in 0 .. MaxValue
        /\ timestamp[list[q + 1]] \in 0 .. MaxValue
    BY <1>3, <1>20, <2>1
  <2>4. QED BY <2>2, <2>3, Positive
<1>10. timestamp' \in [Timers -> 0 .. MaxValue]
  <2>1. CASE q = n
    BY <1>7, <1>8, <2>1
  <2>2. CASE q < n
    BY <1>6, <1>8, <1>9, <2>2
  <2>3. QED BY <1>3, <2>1, <2>2
<1>11. /\ \A i \in 1 .. q - 1 : i \in 1 .. n /\ list'[i] = list[i]
       /\ \A i \in q .. n - 1 : i + 1 \in 1 .. n /\ list'[i] = list[i + 1]
       /\ \A i \in 1 .. n - 1 : i \in 1 .. q - 1 \/ i \in q .. n - 1
  BY <1>3, <1>5
<1>12. list' \in Seq(Timers) /\ Len(list') = n - 1 /\ list' # <<>>
       /\ list'[1] = list[1]
  <2>1. \A i \in 1 .. n - 1 : list'[i] \in Timers
    BY <1>3, <1>11
  <2>2. list' \in [1 .. n - 1 -> Timers] /\ n - 1 \in Nat
    BY <1>3, <1>5, <2>1
  <2>3. list' \in Seq(Timers) /\ Len(list') = n - 1
    BY <2>2, PlacesAreSequence
  <2>4. 1 \in 1 .. q - 1
    OBVIOUS
  <2>5. QED BY <1>3, <1>11, <2>3, <2>4
<1>13. TypeOK'
  <2>1. due' \in [Timers -> 0 .. MaxValue]
    BY <1>1, <1>8, Positive
  <2>2. QED BY <1>1, <1>2, <1>10, <1>12, <2>1 DEF TypeOK
<1>14. Distinct(n - 1, list')
  <2> SUFFICES ASSUME NEW i \in 1 .. n - 1, NEW j \in 1 .. n - 1,
                      list'[i] = list'[j]
               PROVE  i = j
    BY DEF Distinct
  <2>1. QED BY <1>3, <1>4, <1>11 DEF Distinct
<1>15. OnlyHeadRuns'
  <2> SUFFICES ASSUME NEW i \in 2 .. n - 1 PROVE ~running'[list'[i]]
    BY <1>12 DEF OnlyHeadRuns
  <2>1. \A j \in 2 .. n : ~running'[list[j]]
    BY <1>1 DEF IInv, OnlyHeadRuns, n
  <2>2. i \in 2 .. n /\ i + 1 \in 2 .. n /\ i \in 1 .. n - 1
    BY <1>3
  <2>3. QED BY <1>11, <2>1, <2>2
<1>16. /\ \A i \in 1 .. n : i # q => due'[list[i]] = due[list[i]]
       /\ \A i \in 1 .. n : i # q + 1 => timestamp'[list[i]] = timestamp[list[i]]
  <2>1. SUFFICES ASSUME NEW i \in 1 .. n
                 PROVE  /\ i # q => due'[list[i]] = due[list[i]]
                        /\ i # q + 1 => timestamp'[list[i]] = timestamp[list[i]]
    OBVIOUS
  <2>2. i # q => list[i] # t
    BY <1>1, <1>3, <1>4 DEF Distinct
  <2>3. q < n /\ i # q + 1 => list[i] # list[q + 1]
    BY <1>3, <1>4, <1>6 DEF Distinct
  <2>4. i # q => due'[list[i]] = due[list[i]]
    BY <1>1, <1>3, <1>8, <2>2
  <2>5. q < n \/ q = n
    BY <1>3
  <2>6. i # q + 1 => timestamp'[list[i]] = timestamp[list[i]]
    BY <1>3, <1>6, <1>7, <1>8, <2>3, <2>5
  <2>7. QED BY <2>4, <2>6
<1>17. Cut(n, list, timestamp, r, Aggregated, due, q, list', timestamp', due')
  <2>1. n \in Nat \ {0} /\ Covers(Aggregated, n, list, timestamp, r, due)
    BY <1>3
  <2>2. /\ \A i \in 1 .. q - 1 : list'[i] = list[i]
        /\ \A i \in q .. n - 1 : list'[i] = list[i + 1]
    BY <1>11
  <2>3. \A i \in 2 .. n : timestamp[list[i]] \in Int
    BY <1>3
  <2>4. \A i \in 2 .. n :
          i # q /\ i # q + 1 => timestamp'[list[i]] = timestamp[list[i]]
    BY <1>16
  <2>5. q < n => timestamp'[list[q + 1]]
                   = timestamp[list[q + 1]] + timestamp[list[q]]
    BY <1>6, <1>8
  <2>6. \A i \in 1 .. n : i # q => due'[list[i]] = due[list[i]]
    BY <1>16
  <2>7. QED BY <2>1, <2>2, <2>3, <2>4, <2>5, <2>6 DEF Cut
<1>18. Coverable(n - 1, list', timestamp', r, due')
  BY <1>17, UnlinkCovers
<1>19. QED
  <2>1. 1 \in 1 .. n /\ 1 # q + 1 /\ n - 1 \in Nat
    BY <1>3
  <2>2. timestamp'[list[1]] = timestamp[list[1]]
    BY <1>16, <2>1
  <2>3. QED
    BY <1>1, <1>2, <1>12, <1>13, <1>14, <1>15, <1>18, <2>1, <2>2, QuietState
       DEF r

(* The places are as they were, s ms left of the head.                     *)
LEMMA StayCovers ==
  ASSUME IInv, list # <<>>, list' = list,
         NEW s \in Nat, s <= HeadRemaining,
         \A i \in 2 .. Len(list) : timestamp'[list[i]] = timestamp[list[i]],
         \A i \in 1 .. Len(list) :
            /\ due'[list[i]] \in Int
            /\ due'[list[i]] = 0
               \/ due'[list[i]] <= due[list[i]] - (HeadRemaining - s)
  PROVE  Coverable(Len(list), list', timestamp', s, due')
<1>1. /\ Len(list) \in Nat \ {0}
      /\ Covers(Aggregated, Len(list), list, timestamp, HeadRemaining, due)
      /\ HeadRemaining \in Int
      /\ \A i \in 1 .. Len(list) : HeadRemaining <= Aggregated[i]
      /\ \A i \in 1 .. Len(list) : list[i] \in Timers
      /\ \A u \in Timers : timestamp[u] \in Int /\ due[u] \in Int
  BY NonEmptyFacts
<1>2. \A i \in 2 .. Len(list) : /\ timestamp'[list[i]] = timestamp[list[i]]
                                /\ timestamp[list[i]] \in Int
  BY <1>1
<1>3. \A i \in 1 .. Len(list) :
        /\ due'[list[i]] \in Int /\ due[list[i]] \in Int
        /\ due'[list[i]] = 0
           \/ due'[list[i]] <= due[list[i]] - (HeadRemaining - s)
  BY <1>1
<1>4. Shifted(Len(list), list, timestamp, HeadRemaining, Aggregated, due, s,
              timestamp', due')
  BY <1>1, <1>2, <1>3 DEF Shifted
<1>5. QED BY <1>4, ShiftCovers

LEMMA TimerSetValueKeeps ==
  ASSUME IInv, NEW t \in Timers, TimerSetValue(t)
  PROVE  IInv'
<1>1. TypeOK
  BY DEF IInv
<1>2. PICK v \in Values : /\ timestamp' = [timestamp EXCEPT ![t] = v]
                          /\ reload' = [reload EXCEPT ![t] = v]
  BY DEF TimerSetValue
<1>3. v \in 0 .. MaxValue
  BY TimerListAssumption
<1>4. UNCHANGED <<list, running, elapsed, alarmIn, pending, irq, wakeUpTime,
                  nonScheduled, due>> /\ ~Exists(t)
  BY DEF TimerSetValue
<1>5. TypeOK'
  BY <1>1, <1>2, <1>3, <1>4 DEF TypeOK
<1>6. CASE list = <<>>
  BY <1>4, <1>5, <1>6, EmptyState
<1>7. CASE list # <<>>
  <2>1. \A i \in 1 .. Len(list) : list[i] \in Timers /\ list[i] # t
    BY <1>1, <1>4 DEF TypeOK, Exists, ToSet
  <2>2. \A i \in 1 .. Len(list) : timestamp'[list[i]] = timestamp[list[i]]
    BY <1>1, <1>2, <2>1 DEF TypeOK
  <2>3. /\ HeadRemaining \in Nat
        /\ Len(list) \in Nat \ {0}
        /\ \A u \in Timers : due[u] \in Int
    BY <1>7, NonEmptyFacts
  <2>4. \A i \in 1 .. Len(list) :
          /\ due'[list[i]] \in Int
          /\ due'[list[i]] = 0
             \/ due'[list[i]] <= due[list[i]] - (HeadRemaining - HeadRemaining)
    BY <1>4, <2>1, <2>3
  <2>5. Coverable(Len(list), list', timestamp', HeadRemaining, due')
    BY <1>4, <1>7, <2>2, <2>3, <2>4, StayCovers
  <2>6. timestamp'[list[1]] = timestamp[list[1]]
    BY <2>2, <2>3
  <2>7. OnlyHeadRuns' /\ Distinct(Len(list), list')
    BY <1>4 DEF IInv, OnlyHeadRuns
  <2>8. QED
    BY <1>4, <1>5, <1>7, <2>3, <2>5, <2>6, <2>7, QuietState
<1>8. QED BY <1>6, <1>7

LEMMA IrqEnterKeeps ==
  ASSUME IInv, IrqEnter
  PROVE  IInv'
<1>1. TypeOK /\ irq = "idle"
  BY DEF IInv, IrqEnter
<1>2. /\ pending' = FALSE /\ alarmIn' = Off /\ wakeUpTime' = McuWakeUpTime
      /\ nonScheduled' \in {nonScheduled, TRUE}
      /\ UNCHANGED <<list, reload, elapsed, due>>
  BY DEF IrqEnter
<1>3. CASE list = <<>>
  <2>1. UNCHANGED <<irq, timestamp, running>>
    BY <1>3 DEF IrqEnter
  <2>2. TypeOK'
    BY <1>1, <1>2, <2>1 DEF TypeOK
  <2>3. QED BY <1>2, <1>3, <2>2, EmptyState
<1>4. CASE list # <<>>
  <2> DEFINE h == list[1]
  <2>1. /\ Len(list) \in Nat \ {0} /\ Head(list) = h /\ h \in Timers
        /\ \A i \in 1 .. Len(list) : list[i] \in Timers
        /\ HeadRemaining \in 0 .. MaxValue /\ HeadRemaining \in Nat
        /\ \A u \in Timers : due[u] \in Int
    BY <1>4, NonEmptyFacts
  <2>2. /\ irq' = "loop"
        /\ timestamp' = [timestamp EXCEPT ![h] = Drained(h)]
        /\ running' = [running EXCEPT ![h] = FALSE]
    BY <1>4, <2>1 DEF IrqEnter
  <2>3. HeadRemaining = Drained(h)
    BY <1>1, <1>4, <2>1 DEF IInv, IdleRuns, HeadRemaining, Drained
  <2>4. /\ timestamp \in [Timers -> 0 .. MaxValue]
        /\ running \in [Timers -> BOOLEAN]
    BY <1>1 DEF TypeOK
  <2> HIDE DEF h
  <2>5. /\ timestamp' \in [Timers -> 0 .. MaxValue]
        /\ running' \in [Timers -> BOOLEAN]
        /\ timestamp'[h] = HeadRemaining
        /\ ~running'[h]
        /\ \A u \in Timers : u # h => timestamp'[u] = timestamp[u]
        /\ \A u \in Timers : running'[u] => running[u]
    BY <2>1, <2>2, <2>3, <2>4
  <2>6. TypeOK'
    BY <1>1, <1>2, <2>2, <2>5 DEF TypeOK
  <2>7. HeadRemaining' = HeadRemaining /\ ~running'[Head(list')]
    <3>1. Head(list') = h
      BY <1>2, <2>1
    <3>2. QED BY <2>5, <3>1 DEF HeadRemaining
  <2>8. \A i \in 2 .. Len(list) : list[i] # h /\ list[i] \in Timers
    <3> TAKE i \in 2 .. Len(list)
    <3>1. i \in 1 .. Len(list) /\ 1 \in 1 .. Len(list)
      BY <2>1
    <3>2. QED BY <2>1, <3>1 DEF IInv, Distinct, h
  <2>9. OnlyHeadRuns'
    <3> SUFFICES ASSUME NEW i \in 2 .. Len(list) PROVE ~running'[list[i]]
      BY <1>2 DEF OnlyHeadRuns
    <3>1. QED BY <2>5, <2>8 DEF IInv, OnlyHeadRuns
  <2>10. \A i \in 2 .. Len(list) : timestamp'[list[i]] = timestamp[list[i]]
    BY <2>5, <2>8
  <2>11. \A i \in 1 .. Len(list) :
          /\ due'[list[i]] \in Int
          /\ due'[list[i]] = 0
             \/ due'[list[i]] <= due[list[i]] - (HeadRemaining - HeadRemaining)
    BY <1>2, <2>1
  <2>12. Coverable(Len(list), list', timestamp', HeadRemaining, due')
    BY <1>2, <1>4, <2>1, <2>10, <2>11, StayCovers
  <2>13. Covered'
    BY <1>2, <2>7, <2>12 DEF Covered
  <2>14. IdleRuns' /\ AlarmMatches'
    BY <2>2, <2>7 DEF IdleRuns, AlarmMatches
  <2>15. Distinct(Len(list), list)'
    BY <1>2 DEF IInv
  <2>16. QED BY <2>6, <2>9, <2>13, <2>14, <2>15 DEF IInv
<1>5. QED BY <1>3, <1>4

LEMMA IrqPopKeeps ==
  ASSUME IInv, IrqPop
  PROVE  IInv'
<1>1. /\ TypeOK /\ irq = "loop" /\ list # <<>> /\ timestamp[Head(list)] = 0
      /\ list' = Tail(list)
      /\ UNCHANGED <<timestamp, reload, running, elapsed, alarmIn, pending,
                     irq, wakeUpTime, nonScheduled, due>>
  BY DEF IInv, IrqPop
<1>2. TypeOK'
  BY <1>1 DEF TypeOK
<1>3. CASE list' = <<>>
  BY <1>2, <1>3, EmptyState
<1>4. CASE list' # <<>>
  <2> DEFINE n == Len(list)
             h == list[2]
  <2>1. n > 1
    BY <1>1, <1>4 DEF TypeOK
  <2>2. /\ n \in Nat \ {0, 1} /\ list' # <<>> /\ Len(list') = n - 1
        /\ list'[1] = h /\ Distinct(n - 1, list')
        /\ \A i \in 1 .. n - 1 : list'[i] = list[i + 1]
    BY <1>1, <2>1, TailFacts
  <2>3. /\ h \in Timers /\ Aggregated[2] = timestamp[h] + HeadRemaining
    BY <2>1, SecondFacts
  <2>4. /\ Head(list) = list[1]
        /\ \A i \in 1 .. n : list[i] \in Timers
        /\ \A u \in Timers : timestamp[u] \in Nat /\ due[u] \in Int
        /\ HeadRemaining \in 0 .. MaxValue
        /\ HeadRemaining <= timestamp[list[1]]
    BY <1>1, NonEmptyFacts, Positive
  <2>5. HeadRemaining = 0
    BY <1>1, <2>4, Positive
  <2>6. Aggregated[2] = timestamp[h] /\ timestamp[h] \in Nat
    BY <2>3, <2>4, <2>5
  <2> HIDE DEF n, h
  <2>7. \A i \in 2 .. n : ~running[list[i]]
    BY DEF IInv, OnlyHeadRuns, n
  <2>8. Head(list') = h /\ ~running'[h]
    <3>1. 2 \in 2 .. n
      BY <2>2
    <3>2. ~running[h]
      BY <2>7, <3>1 DEF h
    <3>3. QED BY <1>1, <1>2, <2>2, <3>2 DEF TypeOK
  <2>9. HeadRemaining' = timestamp[h]
    BY <1>1, <2>8 DEF HeadRemaining
  <2>10. OnlyHeadRuns'
    <3> SUFFICES ASSUME NEW i \in 2 .. n - 1 PROVE ~running'[list'[i]]
      BY <2>2 DEF OnlyHeadRuns
    <3>1. i + 1 \in 2 .. n /\ i \in 1 .. n - 1
      BY <2>2
    <3>2. QED BY <1>1, <2>2, <2>7, <3>1
  <2>11. \A i \in 2 .. n :
          /\ due'[list[i]] \in Int
          /\ due'[list[i]] = 0
             \/ due'[list[i]] <= due[list[i]] - (Aggregated[2] - timestamp[h])
    BY <1>1, <2>2, <2>4, <2>6
  <2>12. \A i \in 3 .. n : timestamp'[list[i]] = timestamp[list[i]]
    BY <1>1
  <2>13. timestamp[h] <= Aggregated[2]
    BY <2>6
  <2>14. Coverable(n - 1, list', timestamp', timestamp[h], due')
    BY <1>1, <2>1, <2>6, <2>11, <2>12, <2>13, TailCovers DEF n
  <2>15. Covered'
    BY <2>2, <2>9, <2>14 DEF Covered
  <2>16. IdleRuns' /\ AlarmMatches'
    BY <1>1, <2>8 DEF IdleRuns, AlarmMatches
  <2>17. Distinct(Len(list), list)'
    BY <2>2
  <2>18. QED BY <1>2, <2>10, <2>15, <2>16, <2>17 DEF IInv
<1>5. QED BY <1>3, <1>4

LEMMA IrqLeaveKeeps ==
  ASSUME IInv, IrqLeave
  PROVE  IInv'
<1>1. /\ TypeOK /\ irq' = "idle"
      /\ UNCHANGED <<list, reload, pending, wakeUpTime>>
      /\ Distinct(Len(list), list)
  BY DEF IInv, IrqLeave
<1>2. CASE ~HeadWaits
  <2>1. UNCHANGED <<running, timestamp, alarmIn, elapsed, nonScheduled, due>>
    BY <1>2 DEF IrqLeave
  <2>2. TypeOK'
    BY <1>1, <2>1 DEF TypeOK
  <2>3. IdleRuns'
    BY <1>1, <1>2, <2>1 DEF HeadWaits, IdleRuns
  <2>4. AlarmMatches' /\ OnlyHeadRuns'
    BY <1>1, <2>1 DEF IInv, AlarmMatches, OnlyHeadRuns
  <2>5. HeadRemaining' = HeadRemaining
    BY <1>1, <2>1 DEF HeadRemaining
  <2>6. Covered'
    BY <1>1, <2>1, <2>5 DEF IInv, Covered
  <2>7. Distinct(Len(list), list)'
    BY <1>1
  <2>8. QED BY <2>2, <2>3, <2>4, <2>6, <2>7 DEF IInv
<1>3. CASE HeadWaits
  <2> DEFINE h == list[1]
             v == timestamp[h]
             a == Adjusted(v)
  <2>1. list # <<>> /\ ~running[Head(list)]
    BY <1>3 DEF HeadWaits
  <2>2. /\ Len(list) \in Nat \ {0} /\ Head(list) = h /\ h \in Timers
        /\ \A i \in 1 .. Len(list) : list[i] \in Timers
        /\ v \in 0 .. MaxValue
    BY <2>1, NonEmptyFacts
  <2>3. HeadRemaining = v
    BY <2>1, <2>2 DEF HeadRemaining
  <2>4. /\ running' = [running EXCEPT ![h] = TRUE]
        /\ SetTimeout(h, v, timestamp, due)
    BY <1>3, <2>2 DEF IrqLeave
  <2>5. /\ timestamp \in [Timers -> 0 .. MaxValue]
        /\ running \in [Timers -> BOOLEAN]
        /\ due \in [Timers -> 0 .. MaxValue]
    BY <1>1 DEF TypeOK
  <2> HIDE DEF h, v, a
  <2>6. /\ timestamp' \in [Timers -> 0 .. MaxValue]
        /\ timestamp'[h] = a
        /\ \A u \in Timers : u # h => timestamp'[u] = timestamp[u]
        /\ a \in 0 .. v
        /\ alarmIn' \in 1 .. MaxValue
        /\ \/ alarmIn' + elapsed' = timestamp'[h]
           \/ timestamp'[h] = 0 /\ alarmIn' = 1
        /\ elapsed' = 0
        /\ nonScheduled' \in BOOLEAN
        /\ due' \in [Timers -> 0 .. MaxValue]
        /\ due' = Lapse(due, v - a)
    BY <1>1, <2>2, <2>4, <2>5, SetTimeoutFacts DEF a
  <2>7. /\ running' \in [Timers -> BOOLEAN] /\ running'[h]
        /\ \A u \in Timers : u # h /\ running'[u] => running[u]
    BY <2>2, <2>4, <2>5
  <2>8. TypeOK'
    <3>1. elapsed' \in 0 .. MaxValue
      BY <2>6, Positive
    <3>2. QED BY <1>1, <2>6, <2>7, <3>1 DEF TypeOK
  <2>9. \A i \in 2 .. Len(list) : list[i] # h /\ list[i] \in Timers
    <3> TAKE i \in 2 .. Len(list)
    <3>1. i \in 1 .. Len(list) /\ 1 \in 1 .. Len(list)
      BY <2>2
    <3>2. QED BY <1>1, <2>2, <3>1 DEF Distinct, h
  <2>10. OnlyHeadRuns'
    <3> SUFFICES ASSUME NEW i \in 2 .. Len(list) PROVE ~running'[list[i]]
      BY <1>1 DEF OnlyHeadRuns
    <3>1. QED BY <2>7, <2>9 DEF IInv, OnlyHeadRuns
  <2>11. \A i \in 2 .. Len(list) : timestamp'[list[i]] = timestamp[list[i]]
    BY <2>6, <2>9
  <2>12. a \in Nat /\ a <= HeadRemaining /\ v - a \in Nat
    BY <2>2, <2>3, <2>6
  <2>13. \A i \in 1 .. Len(list) :
          /\ due'[list[i]] \in Int
          /\ due'[list[i]] = 0
             \/ due'[list[i]] <= due[list[i]] - (HeadRemaining - a)
    BY <2>2, <2>3, <2>5, <2>6, <2>12, LapseFacts
  <2>14. Coverable(Len(list), list', timestamp', a, due')
    BY <1>1, <2>1, <2>11, <2>12, <2>13, StayCovers
  <2>15. list' # <<>> /\ Len(list') = Len(list) /\ list'[1] = h
    BY <1>1, <2>1 DEF h
  <2>16. Distinct(Len(list), list') /\ Len(list) \in Nat
    BY <1>1, <2>2
  <2>17. QED
    BY <2>6, <2>7, <2>8, <2>10, <2>14, <2>15, <2>16, ArmedState
<1>4. QED BY <1>2, <1>3

(* Nothing the invariant speaks of, but a flag, changes. *)
LEMMA SameKeeps ==
  ASSUME IInv, nonScheduled' \in BOOLEAN,
         UNCHANGED <<list, timestamp, reload, running, elapsed, alarmIn,
                     pending, irq, wakeUpTime, due>>
  PROVE  IInv'
<1>1. TypeOK'
  BY DEF IInv, TypeOK
<1>2. HeadRemaining' = HeadRemaining
  BY DEF HeadRemaining
<1>3. Covered'
  BY <1>2 DEF IInv, Covered
<1>4. OnlyHeadRuns' /\ IdleRuns' /\ AlarmMatches' /\ Distinct(Len(list), list)'
  BY DEF IInv, OnlyHeadRuns, IdleRuns, AlarmMatches
<1>5. QED BY <1>1, <1>3, <1>4 DEF IInv

LEMMA TickKeeps ==
  ASSUME IInv, Tick
  PROVE  IInv'
<1>1. /\ TypeOK
      /\ elapsed' = Smaller(elapsed + 1, MaxValue)
      /\ due' = Lapse(due, 1)
      /\ UNCHANGED <<list, timestamp, reload, running, irq, wakeUpTime,
                     nonScheduled>>
  BY DEF IInv, Tick
<1>2. /\ alarmIn = Off => alarmIn' = Off /\ pending' = pending
      /\ alarmIn = 1 => alarmIn' = Off /\ pending' = TRUE
      /\ alarmIn # Off /\ alarmIn # 1 =>
           alarmIn' = alarmIn - 1 /\ pending' = pending
  BY TimerListAssumption DEF Tick
<1>3. /\ elapsed \in 0 .. MaxValue
      /\ alarmIn \in 1 .. MaxValue \cup {Off}
      /\ due \in [Timers -> 0 .. MaxValue]
  BY <1>1 DEF TypeOK
<1>4. /\ elapsed' \in 0 .. MaxValue
      /\ elapsed < MaxValue => elapsed' = elapsed + 1
      /\ elapsed = MaxValue => elapsed' = elapsed
  BY <1>1, <1>3, Positive DEF Smaller
<1>5. alarmIn' \in 1 .. MaxValue \cup {Off} /\ pending' \in BOOLEAN
  <2>1. pending \in BOOLEAN
    BY <1>1 DEF TypeOK
  <2>2. CASE alarmIn = Off \/ alarmIn = 1
    BY <1>2, <2>1, <2>2
  <2>3. CASE alarmIn # Off /\ alarmIn # 1
    <3>1. alarmIn \in 2 .. MaxValue /\ alarmIn' = alarmIn - 1
      BY <1>2, <1>3, <2>3, Positive
    <3>2. alarmIn' \in 1 .. MaxValue
      BY <3>1, Positive
    <3>3. QED BY <1>2, <2>1, <2>3, <3>2
  <2>4. QED BY <2>2, <2>3
<1>6. due' \in [Timers -> 0 .. MaxValue]
  BY <1>1, <1>3, LapseFacts
<1>7. TypeOK'
  BY <1>1, <1>4, <1>5, <1>6 DEF TypeOK
<1>8. CASE list = <<>>
  BY <1>1, <1>7, <1>8, EmptyState
<1>9. CASE list # <<>>
  <2> DEFINE h == list[1]
  <2>1. /\ Len(list) \in Nat \ {0} /\ Head(list) = h /\ Head(list') = h
        /\ \A i \in 1 .. Len(list) : list[i] \in Timers
        /\ timestamp[h] \in 0 .. MaxValue
        /\ \A u \in Timers : due[u] \in Int
    BY <1>1, <1>9, NonEmptyFacts
  <2> HIDE DEF h
  <2>2. PICK r \in Nat, s \in Nat :
          r = HeadRemaining /\ s = HeadRemaining' /\ s <= r /\ r - s <= 1
    <3>1. CASE running[h]
      <4>1. /\ HeadRemaining = timestamp[h] - Smaller(elapsed, timestamp[h])
            /\ HeadRemaining' = timestamp[h] - Smaller(elapsed', timestamp[h])
        BY <1>1, <2>1, <3>1 DEF HeadRemaining
      <4>2. QED BY <1>3, <1>4, <2>1, <4>1, Positive DEF Smaller
    <3>2. CASE ~running[h]
      <4>1. HeadRemaining = timestamp[h] /\ HeadRemaining' = timestamp[h]
        BY <1>1, <2>1, <3>2 DEF HeadRemaining
      <4>2. QED BY <2>1, <4>1, Positive
    <3>3. QED BY <3>1, <3>2
  <2>3. \A i \in 1 .. Len(list) :
          /\ due'[list[i]] \in Int
          /\ due'[list[i]] = 0
             \/ due'[list[i]] <= due[list[i]] - (r - s)
    <3> TAKE i \in 1 .. Len(list)
    <3>1. list[i] \in Timers /\ due[list[i]] \in Int
      BY <2>1
    <3>2. due'[list[i]] \in Int
          /\ (due'[list[i]] = 0 \/ due'[list[i]] <= due[list[i]] - 1)
      BY <1>1, <1>3, <3>1, LapseFacts
    <3> DEFINE c == r - s
               x == due[list[i]]
               y == due'[list[i]]
    <3>3. c \in Int /\ c <= 1
      <4>1. r \in Nat /\ s \in Nat /\ r - s <= 1
        BY <2>2
      <4>2. r - s \in Int /\ r - s <= 1
        BY <4>1
      <4>3. QED BY <4>2
    <3>4. x \in Int /\ y \in Int /\ (y = 0 \/ y <= x - 1)
      BY <3>1, <3>2
    <3> HIDE DEF c, x, y
    <3>5. y \in Int /\ (y = 0 \/ y <= x - c)
      BY <3>3, <3>4
    <3>6. QED BY <3>5 DEF c, x, y
  <2>4. \A i \in 2 .. Len(list) : timestamp'[list[i]] = timestamp[list[i]]
    BY <1>1
  <2>5. Coverable(Len(list), list', timestamp', s, due')
    <3>1. s \in Nat /\ s <= HeadRemaining
      BY <2>2
    <3>2. \A i \in 1 .. Len(list) :
            /\ due'[list[i]] \in Int
            /\ due'[list[i]] = 0
               \/ due'[list[i]] <= due[list[i]] - (HeadRemaining - s)
      BY <2>2, <2>3
    <3>3. QED BY <1>1, <1>9, <2>4, <3>1, <3>2, StayCovers
  <2>6. Covered'
    BY <1>1, <2>2, <2>5 DEF Covered
  <2>7. AlarmMatches'
    <3> SUFFICES ASSUME running[h]
                 PROVE  \/ pending'
                        \/ /\ alarmIn' # Off
                           /\ \/ alarmIn' + elapsed' = timestamp[h]
                              \/ timestamp[h] = 0 /\ alarmIn' = 1
      BY <1>1, <2>1 DEF AlarmMatches
    <3>1. \/ pending
          \/ /\ alarmIn # Off
             /\ \/ alarmIn + elapsed = timestamp[h]
                \/ timestamp[h] = 0 /\ alarmIn = 1
      BY <1>9, <2>1 DEF IInv, AlarmMatches
    <3>2. CASE alarmIn = Off \/ alarmIn = 1
      BY <1>2, <3>1, <3>2
    <3>3. CASE alarmIn # Off /\ alarmIn # 1
      <4>1. CASE pending
        BY <1>2, <3>3, <4>1
      <4>2. CASE ~pending
        <5>1. alarmIn + elapsed = timestamp[h] /\ alarmIn \in 2 .. MaxValue
          BY <1>3, <3>1, <3>3, <4>2, Positive
        <5>2. elapsed < MaxValue
          BY <1>3, <2>1, <5>1, Positive
        <5>3. alarmIn' = alarmIn - 1 /\ elapsed' = elapsed + 1
          BY <1>2, <1>4, <3>3, <5>2
        <5>4. alarmIn' \in Nat /\ alarmIn' # Off
          BY <5>1, <5>3, Positive, TimerListAssumption
        <5>5. QED BY <1>3, <5>1, <5>3, <5>4, Positive
      <4>3. QED BY <4>1, <4>2
    <3>4. QED BY <3>2, <3>3
  <2>8. IdleRuns' /\ OnlyHeadRuns' /\ Distinct(Len(list), list)'
    BY <1>1 DEF IInv, IdleRuns, OnlyHeadRuns
  <2>9. QED BY <1>7, <2>6, <2>7, <2>8 DEF IInv
<1>10. QED BY <1>8, <1>9

-----------------------------------------------------------------------------
LEMMA InitIInv == Init => IInv
<1> SUFFICES ASSUME Init PROVE IInv
  OBVIOUS
<1>1. TypeOK
  <2>1. 0 \in 0 .. MaxValue /\ <<>> \in Seq(Timers)
    BY Positive
  <2>2. QED BY <2>1 DEF Init, TypeOK
<1>2. list = <<>> /\ Len(list) = 0
  BY DEF Init
<1>3. QED
  BY <1>1, <1>2 DEF IInv, Distinct, OnlyHeadRuns, IdleRuns, AlarmMatches, Covered

LEMMA NextIInv == IInv /\ [Next]_vars => IInv'
<1> SUFFICES ASSUME IInv, [Next]_vars PROVE IInv'
  OBVIOUS
<1>1. ASSUME NEW t \in Timers, TimerStart(t) PROVE IInv'
  BY <1>1, InsertNewHeadKeeps, InsertTimerKeeps DEF TimerStart
<1>2. ASSUME NEW t \in Timers, TimerStop(t) PROVE IInv'
  BY <1>2, StopLastKeeps, StopHeadKeeps, StopWithinKeeps DEF TimerStop
<1>3. ASSUME NEW t \in Timers, TimerSetValue(t) PROVE IInv'
  BY <1>3, TimerSetValueKeeps
<1>4. CASE IrqEnter
  BY <1>4, IrqEnterKeeps
<1>5. CASE IrqPop
  BY <1>5, IrqPopKeeps
<1>6. CASE IrqLeave
  BY <1>6, IrqLeaveKeeps
<1>7. CASE OtherWakeUp
  BY <1>7, SameKeeps DEF OtherWakeUp
<1>8. CASE Tick
  BY <1>8, TickKeeps
<1>9. CASE UNCHANGED vars
  BY <1>9, SameKeeps DEF vars, IInv, TypeOK
<1>10. QED
  BY <1>1, <1>2, <1>3, <1>4, <1>5, <1>6, <1>7, <1>8, <1>9 DEF Next

THEOREM Invariance == Safety => []IInv
BY InitIInv, NextIInv, PTL DEF Safety

(* Every value stays in its range, for any number of timers, any intervals *)
(* and any wake-up time: no difference of TimerIrqHandler, TimerStop or    *)
(* TimerInsertTimer goes below zero, where a uint32_t would wrap.          *)
THEOREM TypeCorrect == Safety => []TypeOK
<1>1. IInv => TypeOK
  BY InvariantSuffices
<1>2. QED BY <1>1, Invariance, PTL

(* The list is never a cycle, and only its head is marked running.         *)
THEOREM WellFormed == Safety => [](NoDoubleLink /\ OnlyHeadRuns)
<1>1. IInv => NoDoubleLink /\ OnlyHeadRuns
  BY InvariantSuffices
<1>2. QED BY <1>1, Invariance, PTL

(* The sums of deltas TimerInsertTimer walks over never pass the longest   *)
(* interval, however many timers there are.                                *)
THEOREM SumsBounded == Safety => []NoOverflow
<1>1. IInv => NoOverflow
  BY InvariantSuffices
<1>2. QED BY <1>1, Invariance, PTL

(* Outside the handler, the head of the list has an interrupt to come.     *)
THEOREM HeadServed == Safety => []AlarmServesHead
<1>1. IInv => AlarmServesHead
  BY InvariantSuffices
<1>2. QED BY <1>1, Invariance, PTL

(* What the list holds back for a timer covers what is left of its         *)
(* interval: none fires before the compensated interval is over.           *)
THEOREM FiresOnTime == Safety => []NeverEarly
<1>1. IInv => NeverEarly
  BY InvariantSuffices
<1>2. QED BY <1>1, Invariance, PTL

-----------------------------------------------------------------------------
(* Each step is one of TimerService, or a stutter, with the timers in the  *)
(* list armed.                                                             *)

LEMMA LapseIs ==
  /\ \A d, c : Service!Lapse(d, c) = Lapse(d, c)
  /\ \A d \in [Timers -> 0 .. MaxValue] : Lapse(d, 0) = d
<1>1. \A d, c : Service!Lapse(d, c) = Lapse(d, c)
  BY DEF Service!Lapse, Lapse
<1>2. ASSUME NEW d \in [Timers -> 0 .. MaxValue] PROVE Lapse(d, 0) = d
  <2>1. \A u \in Timers : d[u] \in Nat
    BY Positive
  <2>2. \A u \in Timers : (IF d[u] > 0 THEN d[u] - 0 ELSE 0) = d[u]
    BY <2>1
  <2>3. Lapse(d, 0) = [u \in Timers |-> d[u]]
    BY <2>2 DEF Lapse
  <2> QED
    BY <2>3
<1> QED
  BY <1>1, <1>2

LEMMA QuietCompensates ==
  ASSUME NEW d \in [Timers -> 0 .. MaxValue], due' = d
  PROVE  Service!Compensated(d)
<1>1. 0 \in 0 .. 2 * McuWakeUpTime
  BY TimerListAssumption
<1>2. due' = Service!Lapse(d, 0)
  BY LapseIs
<1> QED
  BY <1>1, <1>2 DEF Service!Compensated

(* Arming the alarm takes the wake-up time off at most twice. *)
LEMMA ArmingCompensates ==
  ASSUME TypeOK, NEW v \in 0 .. MaxValue, NEW d, due' = Lapse(d, v - Adjusted(v))
  PROVE  Service!Compensated(d)
<1>1. v - Adjusted(v) \in 0 .. 2 * McuWakeUpTime
  BY Positive, TimerListAssumption DEF TypeOK, Adjusted, Recovered
<1>2. due' = Service!Lapse(d, v - Adjusted(v))
  BY LapseIs
<1> QED
  BY <1>1, <1>2 DEF Service!Compensated

LEMMA StartServes ==
  ASSUME IInv, NEW t \in Timers, TimerStart(t)
  PROVE  Service!Start(t)
<1> DEFINE v == reload[t]
           d == [due EXCEPT ![t] = v]
<1>1. /\ TypeOK /\ list \in Seq(Timers) /\ t \notin ToSet(list)
      /\ v \in Values /\ v \in 0 .. MaxValue /\ v \in Nat
      /\ d \in [Timers -> 0 .. MaxValue]
  <2>1. TypeOK /\ v \in Values
    BY DEF IInv, TypeOK
  <2> HIDE DEF v
  <2>2. v \in 1 .. MaxValue
    BY <2>1, TimerListAssumption
  <2>3. v \in 0 .. MaxValue /\ v \in Nat
    BY <2>2, Positive
  <2> QED
    BY <2>1, <2>3 DEF TypeOK, TimerStart, Exists
<1>2. CASE InsertNewHead(t)
  <2>1. list' = <<t>> \o list /\ due' = Lapse(d, v - Adjusted(v))
    BY <1>2 DEF InsertNewHead, SetTimeout
  <2>2. ToSet(list') = ToSet(list) \cup {t}
    <3>1. /\ Len(list) \in Nat /\ Len(list') = Len(list) + 1
          /\ list'[1] = t
          /\ \A i \in 1 .. Len(list) : list'[i + 1] = list[i]
          /\ DOMAIN list = 1 .. Len(list) /\ DOMAIN list' = 1 .. Len(list')
      BY <1>1, <2>1
    <3>2. \A i \in 1 .. Len(list') : i = 1 \/ (i - 1 \in 1 .. Len(list)
                                              /\ list'[i] = list[i - 1])
      <4> SUFFICES ASSUME NEW i \in 1 .. Len(list'), i # 1
                   PROVE  i - 1 \in 1 .. Len(list) /\ list'[i] = list[i - 1]
        OBVIOUS
      <4>1. i - 1 \in 1 .. Len(list) /\ (i - 1) + 1 = i
        BY <3>1
      <4> QED
        BY <3>1, <4>1
    <3>3. /\ 1 \in 1 .. Len(list')
          /\ \A i \in 1 .. Len(list) : i + 1 \in 1 .. Len(list')
      BY <3>1
    <3> QED
      BY <3>1, <3>2, <3>3 DEF ToSet
  <2>3. Service!Compensated(d)
    BY <1>1, <2>1, ArmingCompensates
  <2> QED
    BY <1>1, <2>2, <2>3 DEF Service!Start
<1>3. CASE InsertTimer(t)
  <2> DEFINE p == InsertAfter(v)
             n == Len(list)
  <2>1. list # <<>> /\ list' = LinkedAfter(p, t) /\ due' = d
    BY <1>3 DEF InsertTimer, NoTimeout
  <2>2. p \in 1 .. n /\ n \in Nat
    BY <1>1, <2>1, InsertAfterIs
  <2>3. ToSet(list') = ToSet(list) \cup {t}
    <3> HIDE DEF p, n
    <3>1. list' = [i \in 1 .. n + 1 |-> IF i <= p THEN list[i]
                                       ELSE IF i = p + 1 THEN t ELSE list[i - 1]]
      BY <2>1 DEF LinkedAfter, n
    <3>2. DOMAIN list = 1 .. n
      BY <1>1 DEF n
    <3>3. ToSet(list') = {list'[i] : i \in 1 .. n + 1}
          /\ ToSet(list) = {list[i] : i \in 1 .. n}
      BY <3>1, <3>2 DEF ToSet
    <3>4. ASSUME NEW i \in 1 .. n + 1 PROVE list'[i] \in ToSet(list) \cup {t}
      <4>1. CASE i <= p
        <5>1. i \in 1 .. n /\ list'[i] = list[i]
          BY <2>2, <3>1, <4>1
        <5> QED
          BY <3>3, <5>1
      <4>2. CASE i = p + 1
        BY <2>2, <3>1, <4>2
      <4>3. CASE i > p + 1
        <5>1. i - 1 \in 1 .. n /\ list'[i] = list[i - 1]
          BY <2>2, <3>1, <4>3
        <5> QED
          BY <3>3, <5>1
      <4> QED
        BY <2>2, <4>1, <4>2, <4>3
    <3>5. ASSUME NEW i \in 1 .. n PROVE list[i] \in ToSet(list')
      <4>1. CASE i <= p
        <5>1. i \in 1 .. n + 1 /\ list'[i] = list[i]
          BY <2>2, <3>1, <4>1
        <5> QED
          BY <3>3, <5>1
      <4>2. CASE i > p
        <5>1. i + 1 \in 1 .. n + 1 /\ list'[i + 1] = list[(i + 1) - 1]
              /\ (i + 1) - 1 = i
          BY <2>2, <3>1, <4>2
        <5> QED
          BY <3>3, <5>1
      <4> QED
        BY <2>2, <4>1, <4>2
    <3>6. t \in ToSet(list')
      <4>1. p + 1 \in 1 .. n + 1 /\ list'[p + 1] = t
        BY <2>2, <3>1
      <4> QED
        BY <3>3, <4>1
    <3> QED
      BY <3>3, <3>4, <3>5, <3>6
  <2>4. Service!Compensated(d)
    BY <1>1, <2>1, QuietCompensates
  <2> QED
    BY <1>1, <2>3, <2>4 DEF Service!Start
<1> QED
  BY <1>2, <1>3 DEF TimerStart

(* A timer that is in the list once is not in the list without it. *)
LEMMA UnlinkedIs ==
  ASSUME IInv, NEW k \in 1 .. Len(list),
         Len(list') = Len(list) - 1, list' \in Seq(Timers),
         \A i \in 1 .. Len(list) - 1 :
            list'[i] = IF i < k THEN list[i] ELSE list[i + 1]
  PROVE  ToSet(list') = ToSet(list) \ {list[k]}
<1> DEFINE n == Len(list)
<1>1. n \in Nat /\ Distinct(n, list)
      /\ ToSet(list) = {list[i] : i \in 1 .. n}
      /\ ToSet(list') = {list'[i] : i \in 1 .. n - 1}
  <2>1. DOMAIN list = 1 .. n /\ DOMAIN list' = 1 .. n - 1
    BY DEF IInv, TypeOK
  <2> QED
    BY <2>1 DEF IInv, TypeOK, ToSet
<1> HIDE DEF n
<1>2. ASSUME NEW i \in 1 .. n - 1 PROVE list'[i] \in ToSet(list) \ {list[k]}
  <2> DEFINE j == IF i < k THEN i ELSE i + 1
  <2>1. j \in 1 .. n /\ j # k /\ list'[i] = list[j]
    BY <1>1 DEF n
  <2> HIDE DEF j
  <2>2. list[j] # list[k]
    BY <1>1, <2>1 DEF Distinct, n
  <2> QED
    BY <1>1, <2>1, <2>2
<1>3. ASSUME NEW j \in 1 .. n, j # k PROVE list[j] \in ToSet(list')
  <2>1. CASE j < k
    <3>1. j \in 1 .. n - 1 /\ list'[j] = list[j]
      BY <1>1, <2>1 DEF n
    <3> QED
      BY <1>1, <3>1
  <2>2. CASE j > k
    <3>1. j - 1 \in 1 .. n - 1 /\ ~(j - 1 < k) /\ (j - 1) + 1 = j
      BY <1>1, <2>2 DEF n
    <3>2. list'[j - 1] = list[j]
      BY <3>1 DEF n
    <3> QED
      BY <1>1, <3>1, <3>2
  <2> QED
    BY <1>1, <1>3, <2>1, <2>2 DEF n
<1> QED
  BY <1>1, <1>2, <1>3

LEMMA StopServes ==
  ASSUME IInv, NEW t \in Timers, TimerStop(t)
  PROVE  Service!Stop(t)
<1> DEFINE d == [due EXCEPT ![t] = 0]
           n == Len(list)
<1>1. TypeOK /\ list \in Seq(Timers) /\ n \in Nat /\ t \in ToSet(list)
      /\ d \in [Timers -> 0 .. MaxValue]
  <2>1. 0 \in 0 .. MaxValue
    BY Positive
  <2> QED
    BY <2>1 DEF IInv, TypeOK, TimerStop, Exists
<1>2. CASE StopLast(t)
  <2>1. list = <<t>> /\ list' = <<>> /\ due' = d
    BY <1>2 DEF StopLast, NoTimeout
  <2>2. ToSet(list') = ToSet(list) \ {t}
    BY <2>1 DEF ToSet
  <2>3. Service!Compensated(d)
    BY <1>1, <2>1, QuietCompensates
  <2> QED
    BY <1>1, <2>2, <2>3 DEF Service!Stop
<1>3. CASE StopHead(t)
  <2> DEFINE v == timestamp[list[2]] + HeadRemaining
  <2>1. n > 1 /\ t = Head(list) /\ list' = Tail(list)
        /\ (due' = Lapse(d, v - Adjusted(v)) \/ due' = d)
    BY <1>3 DEF StopHead, SetTimeout, NoTimeout
  <2>2. ToSet(list') = ToSet(list) \ {t}
    <3>1. /\ list' \in Seq(Timers) /\ Len(list') = n - 1
          /\ \A i \in 1 .. n - 1 : list'[i] = list[i + 1]
          /\ t = list[1] /\ 1 \in 1 .. n
      BY <1>1, <2>1, TailFacts
    <3>2. \A i \in 1 .. n - 1 :
            list'[i] = IF i < 1 THEN list[i] ELSE list[i + 1]
      BY <1>1, <3>1
    <3> QED
      BY <3>1, <3>2, UnlinkedIs
  <2>3. v \in 0 .. MaxValue
    BY <2>1, SecondFacts
  <2> HIDE DEF v, d
  <2>4. Service!Compensated(d)
    BY <1>1, <2>1, <2>3, QuietCompensates, ArmingCompensates
  <2> QED
    BY <1>1, <2>2, <2>4 DEF Service!Stop, d
<1>4. CASE StopWithin(t)
  <2>1. PICK k \in 2 .. n : list[k] = t /\ list' = Unlinked(k) /\ due' = d
    BY <1>4 DEF StopWithin, NoTimeout
  <2>2. ToSet(list') = ToSet(list) \ {t}
    <3>1. list' = [i \in 1 .. n - 1 |-> IF i < k THEN list[i] ELSE list[i + 1]]
      BY <2>1 DEF Unlinked
    <3>2. \A i \in 1 .. n - 1 : list[i] \in Timers /\ list[i + 1] \in Timers
      BY <1>1
    <3>3. list' \in Seq(Timers) /\ Len(list') = n - 1
      <4>1. list' \in [1 .. n - 1 -> Timers] /\ n - 1 \in Nat
        <5>1. n - 1 \in Nat
          BY <1>1, <2>1
        <5> HIDE DEF n
        <5> QED
          BY <3>1, <3>2, <5>1
      <4> QED
        BY <4>1, PlacesAreSequence
    <3>4. k \in 1 .. n
      BY <1>1
    <3> QED
      BY <2>1, <3>1, <3>3, <3>4, UnlinkedIs
  <2>3. Service!Compensated(d)
    BY <1>1, <2>1, QuietCompensates
  <2> QED
    BY <1>1, <2>2, <2>3 DEF Service!Stop
<1> QED
  BY <1>2, <1>3, <1>4 DEF TimerStop

(* A timer is called back only when nothing is left of its interval. *)
LEMMA PopServes ==
  ASSUME IInv, IrqPop
  PROVE  Service!Fire(Head(list))
<1> DEFINE h == Head(list)
           n == Len(list)
<1>1. list # <<>> /\ timestamp[h] = 0 /\ list' = Tail(list) /\ due' = due
      /\ TypeOK
  BY DEF IrqPop, IInv
<1>2. /\ n \in Nat \ {0} /\ h = list[1] /\ HeadRemaining \in Int
      /\ HeadRemaining <= timestamp[list[1]]
      /\ Covers(Aggregated, n, list, timestamp, HeadRemaining, due)
      /\ Aggregated[1] = HeadRemaining
  BY <1>1, NonEmptyFacts
<1>3. due[h] = 0
  <2>1. 1 \in 1 .. n /\ h \in Timers
    BY <1>1, <1>2 DEF TypeOK
  <2>2. Aggregated[1] >= due[h]
    BY <1>2, <2>1 DEF Covers
  <2>3. due[h] \in Nat
    BY <1>1, <2>1, Positive DEF TypeOK
  <2> QED
    BY <1>1, <1>2, <2>2, <2>3
<1>4. /\ list' \in Seq(Timers) /\ Len(list') = n - 1
      /\ \A i \in 1 .. n - 1 : list'[i] = IF i < 1 THEN list[i] ELSE list[i + 1]
  BY <1>1, <1>2 DEF TypeOK
<1>5. ToSet(list') = ToSet(list) \ {h}
  BY <1>2, <1>4, UnlinkedIs
<1>6. h \in ToSet(list)
  BY <1>1, <1>2 DEF ToSet, TypeOK
<1> QED
  BY <1>1, <1>3, <1>5, <1>6 DEF Service!Fire

LEMMA NextServes ==
  ASSUME IInv, [Next]_vars
  PROVE  [Service!Next]_(Service!svars)
<1>1. ASSUME NEW t \in Timers, TimerStart(t) PROVE Service!Next
  BY <1>1, StartServes DEF Service!Next
<1>2. ASSUME NEW t \in Timers, TimerStop(t) PROVE Service!Next
  BY <1>2, StopServes DEF Service!Next
<1>3. CASE IrqPop
  <2>1. Head(list) \in Timers
    BY <1>3, NonEmptyFacts DEF IrqPop
  <2> QED
    BY <1>3, <2>1, PopServes DEF Service!Next
<1>4. CASE IrqLeave
  <2>1. CASE HeadWaits
    <3>1. /\ TypeOK /\ list # <<>> /\ list' = list
          /\ due' = Lapse(due, timestamp[Head(list)]
                                - Adjusted(timestamp[Head(list)]))
      BY <1>4, <2>1 DEF IrqLeave, HeadWaits, SetTimeout, IInv
    <3>2. timestamp[Head(list)] \in 0 .. MaxValue
      BY <3>1, HeadRemainingType DEF TypeOK
    <3>3. Service!Compensated(due)
      BY <3>1, <3>2, ArmingCompensates
    <3> QED
      BY <3>1, <3>3 DEF Service!Next, Service!Rearm
  <2>2. CASE ~HeadWaits
    BY <1>4, <2>2 DEF IrqLeave, Service!svars
  <2> QED
    BY <2>1, <2>2
<1>5. CASE Tick
  <2>1. due' = Service!Lapse(due, 1) /\ list' = list
    BY <1>5, LapseIs DEF Tick
  <2> QED
    BY <2>1 DEF Service!Next, Service!Elapse
<1>6. CASE \/ \E t \in Timers : TimerSetValue(t)
           \/ IrqEnter \/ OtherWakeUp \/ UNCHANGED vars
  <2>1. list' = list /\ due' = due
    BY <1>6 DEF TimerSetValue, IrqEnter, OtherWakeUp, vars
  <2> QED
    BY <2>1 DEF Service!svars
<1> QED
  BY <1>1, <1>2, <1>3, <1>4, <1>5, <1>6 DEF Next

(* The delta list implements the timers that timer.h promises: a timer     *)
(* that is started fires only when its interval, less what arming the      *)
(* alarm takes off, is over, and at most once; one that was stopped does   *)
(* not.  (That it does fire is the fairness of Implements.)                *)
THEOREM ImplementsService ==
  Safety => Service!Init /\ [][Service!Next]_(Service!svars)
<1>1. Init => Service!Init
  BY DEF Init, Service!Init, ToSet
<1>2. IInv /\ [Next]_vars => [Service!Next]_(Service!svars)
  BY NextServes
<1> QED
  BY <1>1, <1>2, Invariance, PTL DEF Safety
=============================================================================
