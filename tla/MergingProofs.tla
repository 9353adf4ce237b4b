--------------------------- MODULE MergingProofs ---------------------------
(***************************************************************************)
(* Proofs about the merging of parameters, for lists of any length and any *)
(* values: have_majority finds what counting finds, although it stops as   *)
(* soon as nothing can be found, and get_median finds the middle.          *)
(***************************************************************************)
EXTENDS Merging, SumTheorems, SequenceTheorems

\* How often v is among the first i values
times(seq, v, i) == Cardinality({j \in 1 .. i : seq[j] = v})

----------------------------------------------------------------------------
(* Counting *)

\* It is a number, never more than there are positions.
LEMMA TimesNumber ==
  ASSUME NEW seq, NEW v, NEW i \in Nat
  PROVE  /\ IsFiniteSet({j \in 1 .. i : seq[j] = v})
         /\ times(seq, v, i) \in 0 .. i
<1> DEFINE S == {j \in 1 .. i : seq[j] = v}
<1>1. IsFiniteSet(1 .. i) /\ Cardinality(1 .. i) = i
  BY FS_Interval
<1>2. S \in SUBSET (1 .. i)
  OBVIOUS
<1> HIDE DEF S
<1>3. IsFiniteSet(S) /\ Cardinality(S) <= i
  BY <1>1, <1>2, FS_Subset
<1>4. Cardinality(S) \in Nat
  BY <1>3, FS_CardinalityType
<1> QED BY <1>3, <1>4 DEF times, S

\* So it is a natural number.
LEMMA TimesNat ==
  ASSUME NEW seq, NEW v, NEW i \in Nat
  PROVE  times(seq, v, i) \in Nat
<1>1. times(seq, v, i) \in 0 .. i
  BY TimesNumber
<1> QED BY <1>1

\* The next value is one time more of itself and of no other.
LEMMA TimesStep ==
  ASSUME NEW seq, NEW v, NEW i \in Nat \ {0}
  PROVE  times(seq, v, i) = times(seq, v, i - 1) + (IF seq[i] = v THEN 1 ELSE 0)
<1> DEFINE S == {j \in 1 .. i - 1 : seq[j] = v}
           T == {j \in 1 .. i : seq[j] = v}
<1>1. IsFiniteSet(S) /\ Cardinality(S) \in Nat
  <2>1. i - 1 \in Nat
    OBVIOUS
  <2> QED BY <2>1, TimesNumber, FS_CardinalityType
<1>2. i \notin S /\ T = (IF seq[i] = v THEN S \union {i} ELSE S)
  OBVIOUS
<1> HIDE DEF S, T
<1>3. Cardinality(S \union {i}) = Cardinality(S) + 1
  BY <1>1, <1>2, FS_AddElement
<1>4. Cardinality(T) = Cardinality(S) + (IF seq[i] = v THEN 1 ELSE 0)
  BY <1>1, <1>2, <1>3
<1> QED BY <1>4 DEF times, S, T

\* Of what is left each position counts at most once.
LEMMA TimesRest ==
  ASSUME NEW seq, NEW v, NEW i \in Nat, NEW n \in Nat, i <= n
  PROVE  /\ times(seq, v, i) <= times(seq, v, n)
         /\ times(seq, v, n) <= times(seq, v, i) + (n - i)
<1> DEFINE S == {j \in 1 .. i : seq[j] = v}
           T == {j \in 1 .. n : seq[j] = v}
           R == (i + 1) .. n
<1>1. IsFiniteSet(S) /\ IsFiniteSet(T) /\ Cardinality(S) \in Nat /\ Cardinality(T) \in Nat
  BY TimesNumber, FS_CardinalityType
<1>2. IsFiniteSet(R) /\ Cardinality(R) = n - i
  <2>1. i + 1 \in Int /\ n \in Int
    OBVIOUS
  <2>2. IsFiniteSet(R) /\ Cardinality(R) = IF i + 1 > n THEN 0 ELSE n - (i + 1) + 1
    BY <2>1, FS_Interval
  <2> QED BY <2>2
<1>3. S \in SUBSET T /\ T \in SUBSET (S \union R)
  OBVIOUS
<1> HIDE DEF S, T, R
<1>4. Cardinality(S) <= Cardinality(T)
  BY <1>1, <1>3, FS_Subset
<1>5. IsFiniteSet(S \intersect R) /\ Cardinality(S \intersect R) \in Nat
  BY <1>1, FS_Intersection, FS_CardinalityType
<1>6. /\ IsFiniteSet(S \union R)
      /\ Cardinality(S \union R) = Cardinality(S) + Cardinality(R) - Cardinality(S \intersect R)
  BY <1>1, <1>2, FS_Union
<1>7. Cardinality(T) <= Cardinality(S \union R)
  BY <1>3, <1>6, FS_Subset
<1>8. Cardinality(T) <= Cardinality(S) + (n - i)
  BY <1>1, <1>2, <1>5, <1>6, <1>7
<1> QED BY <1>4, <1>8 DEF times, S, T

----------------------------------------------------------------------------
(* The loop of have_majority *)

\* After i values: what was found occurs often enough; while nothing was and
\* there was a chance, no value has occurred more often than max_count, which
\* is too few; without a chance no value will.
Scanned(seq, req, i, s) ==
  /\ s.max_count \in Int
  /\ s.found => s.done /\ times(seq, s.max_value, Len(seq)) >= req
  /\ ~s.done => /\ s.max_count < req
                /\ \A v : times(seq, v, i) <= s.max_count \/ times(seq, v, i) = 0
  /\ s.done /\ ~s.found => \A v : times(seq, v, Len(seq)) < req

\* Nothing has been counted before the first value.
LEMMA ScanStarts ==
  ASSUME NEW seq, NEW req \in Nat \ {0}
  PROVE  Scanned(seq, req, 0, fresh(seq))
<1> DEFINE s == fresh(seq)
<1>1. s.max_count = -1 /\ ~s.found /\ ~s.done
  BY DEF fresh
<1>2. \A v : times(seq, v, 0) = 0
  <2> SUFFICES ASSUME NEW v PROVE times(seq, v, 0) = 0
    OBVIOUS
  <2>1. times(seq, v, 0) \in 0 .. 0
    BY TimesNumber
  <2> QED BY <2>1
<1> HIDE DEF s
<1>3. s.max_count \in Int /\ s.max_count < req
  BY <1>1
<1>4. Scanned(seq, req, 0, s)
  BY <1>1, <1>2, <1>3 DEF Scanned
<1> QED BY <1>4 DEF s

\* One pass keeps that: only the value at hand has become more frequent.
LEMMA PassScans ==
  ASSUME NEW seq, Len(seq) \in Nat, NEW req \in Nat \ {0}, NEW i \in 1 .. Len(seq), NEW s,
         Scanned(seq, req, i - 1, s)
  PROVE  Scanned(seq, req, i, pass(seq, req, i, s))
<1> DEFINE n == Len(seq)
           x == seq[i]
           k == same(seq, i)
           more == k > s.max_count
           best == IF more THEN k ELSE s.max_count
           won == more /\ best >= req
           lost == no_chance(seq, i, best, req)
           t == pass(seq, req, i, s)
<1>1. CASE s.done
  <2>1. t = s
    BY <1>1 DEF pass
  <2> HIDE DEF t
  <2>2. Scanned(seq, req, i, t)
    BY <1>1, <2>1 DEF Scanned
  <2> QED BY <2>2 DEF t
<1>2. CASE ~s.done
  <2>1. /\ s.max_count \in Int /\ s.max_count < req
        /\ \A v : times(seq, v, i - 1) <= s.max_count \/ times(seq, v, i - 1) = 0
    BY <1>2 DEF Scanned
  <2>2. t = [max_count |-> best, max_value |-> IF more THEN x ELSE s.max_value,
             found |-> won, done |-> won \/ lost]
    BY <1>2 DEF pass
  <2>3. /\ t.max_count = best /\ (more => t.max_value = x)
        /\ t.found <=> won
        /\ t.done <=> won \/ lost
    <3> HIDE DEF t, more, won, lost, best, x
    <3> QED BY <2>2, Zenon
  <2>4. k = times(seq, x, i) /\ k \in Nat /\ k >= 1
    <3>1. k = times(seq, x, i)
      BY DEF same, times
    <3>2. times(seq, x, i) = times(seq, x, i - 1) + 1
      BY TimesStep
    <3>3. i - 1 \in Nat
      OBVIOUS
    <3>4. times(seq, x, i - 1) \in 0 .. i - 1
      BY <3>3, TimesNumber
    <3> QED BY <3>1, <3>2, <3>4
  <2>5. lost <=> n - i + 1 + best < req
    BY DEF no_chance
  <2> HIDE DEF t, k, x, lost, n
  <2>6. best \in Int /\ best >= k /\ best >= s.max_count
    BY <2>1, <2>4
  <2>7. \A v : times(seq, v, i) <= best
    <3> SUFFICES ASSUME NEW v PROVE times(seq, v, i) <= best
      OBVIOUS
    <3>1. CASE v = x
      BY <3>1, <2>4, <2>6
    <3>2. CASE v # x
      <4>1. i - 1 \in Nat
        OBVIOUS
      <4>2. times(seq, v, i - 1) \in Nat
        BY <4>1, TimesNat
      <4>3. times(seq, v, i) = times(seq, v, i - 1) + (IF seq[i] = v THEN 1 ELSE 0)
        BY TimesStep
      <4>4. times(seq, v, i) = times(seq, v, i - 1)
        BY <3>2, <4>2, <4>3 DEF x
      <4> HIDE DEF best
      <4>5. best >= 1
        BY <2>4, <2>6
      <4> QED BY <2>1, <2>6, <4>2, <4>4, <4>5
    <3> QED BY <3>1, <3>2
  <2>8. ~won => best < req
    BY <2>1, <2>4
  <2>9. won => times(seq, x, n) >= req
    <3>1. i \in Nat /\ n \in Nat /\ i <= n
      BY DEF n
    <3>2. times(seq, x, i) <= times(seq, x, n) /\ times(seq, x, n) \in Nat
      BY <3>1, TimesRest, TimesNat
    <3>3. won => k >= req
      OBVIOUS
    <3> QED BY <2>4, <3>2, <3>3
  <2>10. lost => \A v : times(seq, v, n) < req
    <3> SUFFICES ASSUME lost, NEW v PROVE times(seq, v, n) < req
      OBVIOUS
    <3>1. i \in Nat /\ n \in Nat /\ i <= n
      BY DEF n
    <3>2. /\ times(seq, v, n) <= times(seq, v, i) + (n - i)
          /\ times(seq, v, n) \in Nat /\ times(seq, v, i) \in Nat
      BY <3>1, TimesRest, TimesNat
    <3> HIDE DEF best
    <3>3. times(seq, v, i) <= best
      BY <2>7
    <3> QED BY <2>5, <2>6, <3>1, <3>2, <3>3
  <2>11. won => more
    OBVIOUS
  <2> HIDE DEF won, more, best
  <2>12. t.max_count \in Int
    BY <2>3, <2>6
  <2>13. t.found => t.done /\ times(seq, t.max_value, n) >= req
    BY <2>3, <2>9, <2>11
  <2>14. ~t.done => /\ t.max_count < req
                    /\ \A v : times(seq, v, i) <= t.max_count \/ times(seq, v, i) = 0
    BY <2>3, <2>7, <2>8
  <2>15. t.done /\ ~t.found => \A v : times(seq, v, n) < req
    BY <2>3, <2>10
  <2>16. Scanned(seq, req, i, t)
    BY <2>12, <2>13, <2>14, <2>15 DEF Scanned, n
  <2> QED BY <2>16 DEF t
<1> QED BY <1>1, <1>2 DEF t

\* g is what the loop has reached after each value, up to the n-th.
IsScan(g, n, seq, req) ==
  g = [i \in 0 .. n |-> IF i = 0 THEN fresh(seq) ELSE pass(seq, req, i, g[i - 1])]

\* There is such a function: the recursion is well defined.
LEMMA ScanExists ==
  ASSUME NEW n \in Nat, NEW seq, NEW req
  PROVE  \E g : IsScan(g, n, seq, req)
<1> DEFINE Step(g, i) == IF i = 0 THEN fresh(seq) ELSE pass(seq, req, i, g[i - 1])
           S == {k \in 0 .. n : ~\E g : IsScan(g, k, seq, req)}
<1> SUFFICES ASSUME ~\E g : IsScan(g, n, seq, req) PROVE FALSE
  OBVIOUS
<1>1. S # {} /\ S \subseteq Nat
  <2>1. n \in S
    OBVIOUS
  <2> QED BY <2>1
<1>2. PICK k \in S : \A j \in S : k <= j
  <2> HIDE DEF S
  <2> QED BY <1>1, SmallestNumber
<1>3. CASE k = 0
  <2> DEFINE g == [i \in 0 .. 0 |-> fresh(seq)]
  <2>1. g = [i \in 0 .. 0 |-> Step(g, i)]
    OBVIOUS
  <2>2. IsScan(g, 0, seq, req)
    BY <2>1 DEF IsScan
  <2> QED BY <1>3, <2>2
<1>4. CASE k # 0
  <2>1. k - 1 \in 0 .. n /\ ~(k <= k - 1)
    BY <1>1, <1>4
  <2>2. k - 1 \notin S
    BY <1>2, <2>1
  <2>3. PICK g : IsScan(g, k - 1, seq, req)
    BY <2>1, <2>2
  <2> DEFINE h == [i \in 0 .. k |-> Step(g, i)]
  <2>4. \A i \in 0 .. k - 1 : g[i] = Step(g, i)
    BY <2>3 DEF IsScan
  <2>5. \A i \in 0 .. k - 1 : h[i] = g[i]
    <3>1. \A i \in 0 .. k - 1 : i \in 0 .. k
      BY <1>1
    <3> QED BY <2>4, <3>1
  <2>6. \A i \in 0 .. k : i # 0 => i - 1 \in 0 .. k - 1
    BY <1>1
  <2>7. h = [i \in 0 .. k |-> Step(h, i)]
    <3>1. \A i \in 0 .. k : i # 0 => h[i - 1] = g[i - 1]
      BY <2>5, <2>6
    <3> QED BY <3>1
  <2>8. IsScan(h, k, seq, req)
    BY <2>7 DEF IsScan
  <2> QED BY <2>8
<1> QED BY <1>3, <1>4

\* So the loop ends with what each pass keeps.
LEMMA ScanEnds ==
  ASSUME NEW seq, Len(seq) \in Nat, NEW req \in Nat \ {0}
  PROVE  Scanned(seq, req, Len(seq), passes(seq, req)[Len(seq)])
<1> DEFINE n == Len(seq)
           g == CHOOSE f : IsScan(f, n, seq, req)
<1>1. passes(seq, req)[n] = g[n]
  BY DEF passes, IsScan
<1>2. IsScan(g, n, seq, req)
  BY ScanExists
<1> HIDE DEF g
<1>3. /\ g[0] = fresh(seq)
      /\ \A i \in 1 .. n : g[i] = pass(seq, req, i, g[i - 1])
  <2>1. \A i \in 0 .. n : g[i] = IF i = 0 THEN fresh(seq) ELSE pass(seq, req, i, g[i - 1])
    BY <1>2 DEF IsScan
  <2>2. 0 \in 0 .. n /\ \A i \in 1 .. n : i \in 0 .. n /\ i # 0
    OBVIOUS
  <2> QED BY <2>1, <2>2
<1> DEFINE S == {i \in 0 .. n : ~Scanned(seq, req, i, g[i])}
<1>4. S = {}
  <2> SUFFICES ASSUME S # {} PROVE FALSE
    OBVIOUS
  <2>1. S \subseteq Nat
    OBVIOUS
  <2>2. PICK k \in S : \A j \in S : k <= j
    <3> HIDE DEF S
    <3> QED BY <2>1, SmallestNumber
  <2>3. k # 0
    <3>1. Scanned(seq, req, 0, fresh(seq))
      BY ScanStarts
    <3> QED BY <1>3, <2>2, <3>1
  <2>4. k \in 1 .. n /\ k - 1 \in 0 .. n /\ ~(k <= k - 1)
    BY <2>3
  <2>5. Scanned(seq, req, k - 1, g[k - 1])
    BY <2>2, <2>4
  <2>6. g[k] = pass(seq, req, k, g[k - 1])
    BY <1>3, <2>4
  <2>7. Scanned(seq, req, k, g[k])
    BY <2>4, <2>5, <2>6, PassScans
  <2> QED BY <2>2, <2>7
<1>5. n \in 0 .. n
  OBVIOUS
<1> QED BY <1>1, <1>4, <1>5

\* For any list, have_majority says whether a value occurs as often as required,
\* and major is one that does.
LEMMA MajorityExact ==
  ASSUME NEW seq, Len(seq) \in Nat, NEW req \in Nat \ {0}
  PROVE  /\ have_majority(seq, req) => times(seq, major(seq, req), Len(seq)) >= req
         /\ ~have_majority(seq, req) => \A v : times(seq, v, Len(seq)) < req
<1> DEFINE n == Len(seq)
           s == passes(seq, req)[n]
<1>1. Scanned(seq, req, n, s)
  BY ScanEnds
<1>2. have_majority(seq, req) <=> n >= req /\ s.found
  BY DEF have_majority
<1>3. major(seq, req) = s.max_value
  BY DEF major
<1>4. \A v : times(seq, v, n) \in Nat /\ times(seq, v, n) <= n
  <2> SUFFICES ASSUME NEW v PROVE times(seq, v, n) \in Nat /\ times(seq, v, n) <= n
    OBVIOUS
  <2>1. times(seq, v, n) \in 0 .. n
    BY TimesNumber
  <2> QED BY <2>1
<1> HIDE DEF s
<1>5. have_majority(seq, req) => times(seq, major(seq, req), n) >= req
  BY <1>1, <1>2, <1>3 DEF Scanned
<1>6. ASSUME ~have_majority(seq, req), NEW v PROVE times(seq, v, n) < req
  <2>1. CASE n < req
    BY <1>4, <2>1
  <2>2. CASE n >= req /\ ~s.found /\ s.done
    BY <1>1, <2>2 DEF Scanned
  <2>3. CASE n >= req /\ ~s.found /\ ~s.done
    <3>1. /\ s.max_count \in Int /\ s.max_count < req
          /\ times(seq, v, n) <= s.max_count \/ times(seq, v, n) = 0
      BY <1>1, <2>3 DEF Scanned
    <3>2. times(seq, v, n) \in Nat
      BY <1>4
    <3> QED BY <3>1, <3>2
  <2> QED BY <1>2, <1>6, <2>1, <2>2, <2>3
<1> QED BY <1>5, <1>6

----------------------------------------------------------------------------
(* What nth_element leaves *)

\* Of finitely many numbers one is a largest.
LEMMA LargestValue ==
  ASSUME NEW A, A # {}, IsFiniteSet(A), NEW f, \A a \in A : f[a] \in Int
  PROVE  \E m \in A : \A a \in A : f[a] <= f[m]
<1> DEFINE Above(a) == {b \in A : f[b] > f[a]}
           C == {Above(a) : a \in A}
<1>1. C # {}
  OBVIOUS
<1>2. \A S \in C : IsFiniteSet(S)
  BY FS_Subset
<1>3. PICK T \in C : \A U \in C : ~(U \subseteq T /\ U # T)
  <2> HIDE DEF C
  <2> QED BY <1>1, <1>2, SmallestSet
<1>4. PICK m \in A : T = Above(m)
  OBVIOUS
<1>5. ASSUME NEW a \in A PROVE f[a] <= f[m]
  <2>1. f[a] \in Int /\ f[m] \in Int
    OBVIOUS
  <2>2. ASSUME f[a] > f[m] PROVE FALSE
    <3>1. Above(a) \in C
      OBVIOUS
    <3>2. \A b \in A : f[b] > f[a] => f[b] > f[m]
      BY <2>1, <2>2
    <3>3. Above(a) \subseteq Above(m)
      BY <3>2
    <3>4. a \in Above(m) /\ a \notin Above(a)
      BY <2>1, <2>2
    <3> HIDE DEF C, Above
    <3> QED BY <1>3, <1>4, <3>1, <3>3, <3>4
  <2> QED BY <2>1, <2>2
<1> QED BY <1>5

\* p lists the k elements of A in the order of their values.
Sorts(p, k, A, f) ==
  /\ p \in Surjection(1 .. k, A)
  /\ \A i, j \in 1 .. k : i <= j => f[p[i]] <= f[p[j]]

\* The largest comes last.
LEMMA SortOneMore ==
  ASSUME NEW k \in Nat \ {0}, NEW A, NEW f, \A a \in A : f[a] \in Int, NEW m \in A,
         \A a \in A : f[a] <= f[m], NEW q, Sorts(q, k - 1, A \ {m}, f)
  PROVE  \E p : Sorts(p, k, A, f)
<1> DEFINE p == [i \in 1 .. k |-> IF i = k THEN m ELSE q[i]]
<1>1. /\ q \in [1 .. k - 1 -> A \ {m}]
      /\ \A a \in A \ {m} : \E i \in 1 .. k - 1 : q[i] = a
      /\ \A i, j \in 1 .. k - 1 : i <= j => f[q[i]] <= f[q[j]]
  BY DEF Sorts, Surjection
<1>2. k \in 1 .. k /\ \A i \in 1 .. k : i # k => i \in 1 .. k - 1
  OBVIOUS
<1>3. \A i \in 1 .. k - 1 : i \in 1 .. k /\ i # k
  OBVIOUS
<1>4. p[k] = m /\ \A i \in 1 .. k - 1 : p[i] = q[i]
  BY <1>2, <1>3
<1>5. p \in [1 .. k -> A]
  BY <1>1, <1>2
<1> HIDE DEF p
<1>6. ASSUME NEW a \in A PROVE \E i \in 1 .. k : p[i] = a
  <2>1. CASE a = m
    BY <1>2, <1>4, <2>1
  <2>2. CASE a # m
    <3>1. PICK i \in 1 .. k - 1 : q[i] = a
      BY <1>1, <2>2
    <3> QED BY <1>3, <1>4, <3>1
  <2> QED BY <2>1, <2>2
<1>7. ASSUME NEW i \in 1 .. k, NEW j \in 1 .. k, i <= j PROVE f[p[i]] <= f[p[j]]
  <2>1. CASE j = k
    BY <1>4, <1>5, <2>1
  <2>2. CASE j # k
    <3>1. i \in 1 .. k - 1 /\ j \in 1 .. k - 1
      BY <1>7, <2>2
    <3> QED BY <1>1, <1>4, <1>7, <3>1
  <2> QED BY <2>1, <2>2
<1>8. p \in Surjection(1 .. k, A)
  BY <1>5, <1>6 DEF Surjection
<1>9. Sorts(p, k, A, f)
  BY <1>7, <1>8 DEF Sorts
<1> QED BY <1>9

\* Every list can be brought into order.
LEMMA SortingExists ==
  ASSUME NEW n \in Nat, NEW f, \A i \in 1 .. n : f[i] \in Int
  PROVE  \E p : Sorts(p, n, 1 .. n, f)
<1> DEFINE S == {k \in 0 .. n : \E A \in SUBSET (1 .. n) :
                                  Cardinality(A) = k /\ ~\E p : Sorts(p, k, A, f)}
<1> SUFFICES ASSUME ~\E p : Sorts(p, n, 1 .. n, f) PROVE FALSE
  OBVIOUS
<1>1. S # {} /\ S \subseteq Nat
  <2>1. Cardinality(1 .. n) = n
    BY FS_Interval
  <2>2. n \in S
    BY <2>1
  <2> QED BY <2>2
<1>2. PICK k \in S : \A j \in S : k <= j
  <2> HIDE DEF S
  <2> QED BY <1>1, SmallestNumber
<1>3. PICK A \in SUBSET (1 .. n) : Cardinality(A) = k /\ ~\E p : Sorts(p, k, A, f)
  OBVIOUS
<1>4. k \in 0 .. n
  OBVIOUS
<1>5. IsFiniteSet(A)
  <2>1. IsFiniteSet(1 .. n)
    BY FS_Interval
  <2> QED BY <2>1, FS_Subset
<1>6. CASE A = {}
  <2> DEFINE p == [i \in 1 .. 0 |-> 0]
  <2>1. k = 0
    BY <1>3, <1>6, FS_EmptySet
  <2>2. 1 .. 0 = {}
    OBVIOUS
  <2>3. p \in Surjection(1 .. 0, {})
    BY <2>2 DEF Surjection
  <2>4. Sorts(p, 0, {}, f)
    BY <2>2, <2>3 DEF Sorts
  <2> QED BY <1>3, <1>6, <2>1, <2>4
<1>7. CASE A # {}
  <2>1. \A a \in A : f[a] \in Int
    OBVIOUS
  <2>2. PICK m \in A : \A a \in A : f[a] <= f[m]
    BY <1>5, <1>7, <2>1, LargestValue
  <2>3. k # 0
    BY <1>3, <1>5, <1>7, FS_EmptySet
  <2>4. Cardinality(A \ {m}) = k - 1
    BY <1>3, <1>5, FS_RemoveElement
  <2>5. k - 1 \in 0 .. n /\ ~(k <= k - 1) /\ k \in Nat \ {0}
    BY <1>4, <2>3
  <2>6. k - 1 \notin S
    BY <1>2, <2>5
  <2>7. A \ {m} \in SUBSET (1 .. n)
    OBVIOUS
  <2>8. PICK q : Sorts(q, k - 1, A \ {m}, f)
    BY <2>4, <2>5, <2>6, <2>7
  <2> HIDE DEF S
  <2>9. \E p : Sorts(p, k, A, f)
    BY <2>1, <2>2, <2>5, <2>8, SortOneMore
  <2> QED BY <1>3, <2>9
<1> QED BY <1>6, <1>7

\* So there is what nth_element is to find.
LEMMA NthElement ==
  ASSUME NEW seq, NEW n \in Nat, DOMAIN seq = 1 .. n, \A i \in 1 .. n : seq[i] \in Int,
         NEW k \in 1 .. n
  PROVE  LET p == nth_element(seq, k) IN
         /\ p \in Surjection(1 .. n, 1 .. n)
         /\ \A i, j \in 1 .. n : i <= k /\ k <= j => seq[p[i]] <= seq[p[j]]
<1>1. PICK q : Sorts(q, n, 1 .. n, seq)
  BY SortingExists
<1>2. /\ q \in Surjection(1 .. n, 1 .. n)
      /\ \A i, j \in 1 .. n : i <= k /\ k <= j => seq[q[i]] <= seq[q[j]]
  <2>1. \A i, j \in 1 .. n : i <= k /\ k <= j => i <= j
    OBVIOUS
  <2> QED BY <1>1, <2>1 DEF Sorts
<1> DEFINE Right(p) == \A i, j \in 1 .. n : i <= k /\ k <= j => seq[p[i]] <= seq[p[j]]
<1>3. nth_element(seq, k) = CHOOSE p \in Surjection(1 .. n, 1 .. n) : Right(p)
  BY DEF nth_element
<1>4. \E p \in Surjection(1 .. n, 1 .. n) : Right(p)
  BY <1>2
<1> HIDE DEF Right
<1>5. LET p == nth_element(seq, k) IN p \in Surjection(1 .. n, 1 .. n) /\ Right(p)
  BY <1>3, <1>4
<1> QED BY <1>5 DEF Right

\* Positions in P that an order p fills are at least as many as those they fill.
LEMMA FilledFrom ==
  ASSUME NEW p, NEW P, IsFiniteSet(P), NEW T, \A t \in T : \E j \in P : p[j] = t
  PROVE  IsFiniteSet(T) /\ Cardinality(T) <= Cardinality(P)
<1> DEFINE D == {j \in P : p[j] \in T}
           g == [j \in D |-> p[j]]
<1>1. IsFiniteSet(D) /\ Cardinality(D) <= Cardinality(P)
  BY FS_Subset
<1>2. g \in Surjection(D, T)
  BY DEF Surjection
<1> HIDE DEF D, g
<1>3. IsFiniteSet(T) /\ Cardinality(T) <= Cardinality(D)
  BY <1>1, <1>2, FS_Surjection
<1>4. Cardinality(T) \in Nat /\ Cardinality(D) \in Nat /\ Cardinality(P) \in Nat
  BY <1>1, <1>3, FS_CardinalityType
<1> QED BY <1>1, <1>3, <1>4

\* The median of any list of numbers has at most half of them below it, fewer
\* than half above, and is one of them.
LEMMA MedianExact ==
  ASSUME NEW seq, NEW n \in Nat \ {0}, Len(seq) = n, DOMAIN seq = 1 .. n,
         \A i \in 1 .. n : seq[i] \in Int
  PROVE  LET x == get_median(seq) IN
         /\ \E i \in 1 .. n : x = seq[i]
         /\ 2 * Cardinality({i \in 1 .. n : seq[i] < x}) <= n
         /\ 2 * Cardinality({i \in 1 .. n : seq[i] > x}) < n
<1> DEFINE k == n \div 2 + 1
           p == nth_element(seq, k)
           x == get_median(seq)
           Below == {i \in 1 .. n : seq[i] < x}
           Above == {i \in 1 .. n : seq[i] > x}
<1>1. k \in 1 .. n /\ 2 * (k - 1) <= n /\ 2 * (n - k) < n
  OBVIOUS
<1>2. x = seq[p[k]]
  BY DEF get_median
<1> HIDE DEF k
<1>3. /\ p \in Surjection(1 .. n, 1 .. n)
      /\ \A i, j \in 1 .. n : i <= k /\ k <= j => seq[p[i]] <= seq[p[j]]
  BY <1>1, NthElement
<1> HIDE DEF p, x
<1>4. /\ \A i \in 1 .. n : p[i] \in 1 .. n
      /\ \A i \in 1 .. n : \E j \in 1 .. n : p[j] = i
  BY <1>3 DEF Surjection
<1>5. p[k] \in 1 .. n /\ x \in Int
  BY <1>1, <1>2, <1>4
<1>6. \A i \in Below : \E j \in 1 .. k - 1 : p[j] = i
  <2> SUFFICES ASSUME NEW i \in Below PROVE \E j \in 1 .. k - 1 : p[j] = i
    OBVIOUS
  <2>1. PICK j \in 1 .. n : p[j] = i
    BY <1>4
  <2>2. seq[i] < x /\ seq[i] \in Int
    OBVIOUS
  <2>3. ~(k <= j)
    <3>1. k <= j => seq[p[k]] <= seq[p[j]]
      BY <1>1, <1>3
    <3> QED BY <1>2, <1>5, <2>1, <2>2, <3>1
  <2>4. j \in 1 .. k - 1
    BY <1>1, <2>3
  <2> QED BY <2>1, <2>4
<1>7. \A i \in Above : \E j \in k + 1 .. n : p[j] = i
  <2> SUFFICES ASSUME NEW i \in Above PROVE \E j \in k + 1 .. n : p[j] = i
    OBVIOUS
  <2>1. PICK j \in 1 .. n : p[j] = i
    BY <1>4
  <2>2. seq[i] > x /\ seq[i] \in Int
    OBVIOUS
  <2>3. ~(j <= k)
    <3>1. j <= k => seq[p[j]] <= seq[p[k]]
      BY <1>1, <1>3
    <3> QED BY <1>2, <1>5, <2>1, <2>2, <3>1
  <2>4. j \in k + 1 .. n
    BY <1>1, <2>3
  <2> QED BY <2>1, <2>4
<1>8. /\ IsFiniteSet(1 .. k - 1) /\ Cardinality(1 .. k - 1) = k - 1
      /\ IsFiniteSet(k + 1 .. n) /\ Cardinality(k + 1 .. n) = n - k
  <2>1. 1 \in Int /\ k - 1 \in Int /\ k + 1 \in Int /\ n \in Int
    BY <1>1
  <2>2. /\ IsFiniteSet(1 .. k - 1)
        /\ Cardinality(1 .. k - 1) = IF 1 > k - 1 THEN 0 ELSE k - 1 - 1 + 1
    BY <2>1, FS_Interval
  <2>3. /\ IsFiniteSet(k + 1 .. n)
        /\ Cardinality(k + 1 .. n) = IF k + 1 > n THEN 0 ELSE n - (k + 1) + 1
    BY <2>1, FS_Interval
  <2> QED BY <1>1, <2>2, <2>3
<1> HIDE DEF Below, Above
<1>9. /\ IsFiniteSet(Below) /\ Cardinality(Below) <= k - 1
      /\ IsFiniteSet(Above) /\ Cardinality(Above) <= n - k
  <2>1. IsFiniteSet(Below) /\ Cardinality(Below) <= Cardinality(1 .. k - 1)
    <3>1. IsFiniteSet(1 .. k - 1)
      BY <1>8
    <3> QED BY <1>6, <3>1, FilledFrom
  <2>2. IsFiniteSet(Above) /\ Cardinality(Above) <= Cardinality(k + 1 .. n)
    <3>1. IsFiniteSet(k + 1 .. n)
      BY <1>8
    <3> QED BY <1>7, <3>1, FilledFrom
  <2> QED BY <1>8, <2>1, <2>2
<1>10. Cardinality(Below) \in Nat /\ Cardinality(Above) \in Nat
  BY <1>9, FS_CardinalityType
<1>11. 2 * Cardinality(Below) <= n /\ 2 * Cardinality(Above) < n
  BY <1>1, <1>9, <1>10
<1> QED BY <1>2, <1>5, <1>11 DEF Below, Above, x

----------------------------------------------------------------------------
(* Majority and median of what was collected *)

\* The values that were collected come from Value.
Collected == top_params \in Seq(Value)

LEMMA ListsTyped == SpecMerging => []Collected
<1>1. Init_top => Collected
  BY DEF Init_top, Collected
<1>2. Collected /\ [get_top_params]_top_params => Collected'
  <2> SUFFICES ASSUME Collected, [get_top_params]_top_params PROVE Collected'
    OBVIOUS
  <2>1. CASE UNCHANGED top_params
    BY <2>1 DEF Collected
  <2>2. CASE top_params' = <<>>
    BY <2>2 DEF Collected
  <2>3. ASSUME NEW v \in Value, top_params' = Append(top_params, v) PROVE Collected'
    BY <2>3, AppendProperties DEF Collected
  <2> QED BY <2>1, <2>2, <2>3 DEF get_top_params
<1> QED BY <1>1, <1>2, PTL DEF SpecMerging

\* The majority of any list of chosen values, for any requirement that the check
\* lets in.
THEOREM MajorityIsFound == SpecMerging => []MajorityFound
<1>1. Collected => MajorityFound
  <2> SUFFICES ASSUME Collected, NEW req \in 1 .. MaxTop + 1
               PROVE  /\ have_majority(top_params, req) <=> \E v \in Value : Many({v}) >= req
                      /\ have_majority(top_params, req) =>
                           Many({major(top_params, req)}) >= req
    BY DEF MajorityFound
  <2> DEFINE n == Len(top_params)
             x == major(top_params, req)
  <2>1. n \in Nat /\ DOMAIN top_params = 1 .. n /\ \A i \in 1 .. n : top_params[i] \in Value
    BY DEF Collected
  <2>2. req \in Nat \ {0}
    BY MergingAssumption
  <2>3. \A v : Many({v}) = times(top_params, v, n)
    <3> SUFFICES ASSUME NEW v PROVE Many({v}) = times(top_params, v, n)
      OBVIOUS
    <3>1. {i \in DOMAIN top_params : top_params[i] \in {v}}
            = {j \in 1 .. n : top_params[j] = v}
      BY <2>1
    <3> QED BY <3>1 DEF Many, times
  <2>4. /\ have_majority(top_params, req) => times(top_params, x, n) >= req
        /\ ~have_majority(top_params, req) => \A v : times(top_params, v, n) < req
    BY <2>1, <2>2, MajorityExact
  <2>5. \A v : times(top_params, v, n) \in Nat
    BY <2>1, TimesNat
  <2> HIDE DEF x, n
  <2>6. ASSUME have_majority(top_params, req) PROVE x \in Value
    <3>1. times(top_params, x, n) >= req
      BY <2>4, <2>6
    <3>2. CASE \E j \in 1 .. n : top_params[j] = x
      BY <2>1, <3>2
    <3>3. CASE ~\E j \in 1 .. n : top_params[j] = x
      <4>1. {j \in 1 .. n : top_params[j] = x} = {}
        BY <3>3
      <4>2. times(top_params, x, n) = 0
        BY <4>1, FS_EmptySet DEF times
      <4> QED BY <2>2, <3>1, <4>2
    <3> QED BY <3>2, <3>3
  <2>7. have_majority(top_params, req) => Many({x}) >= req
    BY <2>3, <2>4
  <2>8. ~have_majority(top_params, req) => \A v : ~(Many({v}) >= req)
    <3> SUFFICES ASSUME ~have_majority(top_params, req), NEW v PROVE ~(Many({v}) >= req)
      OBVIOUS
    <3>1. times(top_params, v, n) < req /\ times(top_params, v, n) \in Nat
      BY <2>4, <2>5
    <3> QED BY <2>2, <2>3, <3>1
  <2>9. have_majority(top_params, req) <=> \E v \in Value : Many({v}) >= req
    BY <2>6, <2>7, <2>8
  <2> QED BY <2>7, <2>9 DEF x
<1> QED BY <1>1, ListsTyped, PTL

\* The median of any list of chosen values.
THEOREM MedianIsInMiddle == SpecMerging => []MedianInMiddle
<1>1. Collected => MedianInMiddle
  <2> SUFFICES ASSUME Collected, top_params # <<>>
               PROVE  LET x == get_median(top_params) IN
                      /\ 2 * Many({v \in Value : v < x}) <= Len(top_params)
                      /\ 2 * Many({v \in Value : v > x}) < Len(top_params)
    BY DEF MedianInMiddle
  <2> DEFINE n == Len(top_params)
             x == get_median(top_params)
  <2>1. n \in Nat /\ DOMAIN top_params = 1 .. n /\ \A i \in 1 .. n : top_params[i] \in Value
    BY DEF Collected
  <2>2. n # 0
    BY EmptySeq DEF Collected
  <2>3. \A i \in 1 .. n : top_params[i] \in Int
    BY <2>1, MergingAssumption
  <2>4. /\ 2 * Cardinality({i \in 1 .. n : top_params[i] < x}) <= n
        /\ 2 * Cardinality({i \in 1 .. n : top_params[i] > x}) < n
    BY <2>1, <2>2, <2>3, MedianExact
  <2> HIDE DEF x
  <2>5. /\ {i \in 1 .. n : top_params[i] < x}
             = {i \in 1 .. n : top_params[i] \in {v \in Value : v < x}}
        /\ {i \in 1 .. n : top_params[i] > x}
             = {i \in 1 .. n : top_params[i] \in {v \in Value : v > x}}
    BY <2>1
  <2>6. /\ Many({v \in Value : v < x}) = Cardinality({i \in 1 .. n : top_params[i] < x})
        /\ Many({v \in Value : v > x}) = Cardinality({i \in 1 .. n : top_params[i] > x})
    BY <2>1, <2>5 DEF Many
  <2> QED BY <2>4, <2>6 DEF x
<1> QED BY <1>1, ListsTyped, PTL
=============================================================================
