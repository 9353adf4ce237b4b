----------------------------- MODULE SumTheorems -----------------------------
(***************************************************************************)
(* What SumOver of module Tables is, for every function and every finite   *)
(* set: the facts that proofs about totals of balances, weights and shares *)
(* cite.                                                                   *)
(*                                                                         *)
(* SumOver takes elements out of the set one by one.  Facts about it are   *)
(* proved by looking at a smallest set for which they fail (SmallestSet),  *)
(* which is how induction is written here: the library states it with a    *)
(* predicate as parameter, a form that cannot be instantiated.             *)
(***************************************************************************)
EXTENDS Tables, FiniteSetTheorems, WellFoundedInduction, TLAPS

\* The element that is taken out first
Pick(S) == CHOOSE x \in S : TRUE

\* g sums f over every subset of S.
IsSum(g, f, S) ==
  g = [T \in SUBSET S |-> IF T = {} THEN 0 ELSE f[Pick(T)] + g[T \ {Pick(T)}]]

----------------------------------------------------------------------------
(* The recursion is well defined. *)

\* A collection of finite sets that is not empty has a smallest member.
LEMMA SmallestSet ==
  ASSUME NEW C, C # {}, \A S \in C : IsFiniteSet(S)
  PROVE  \E S \in C : \A T \in C : ~(T \subseteq S /\ T # S)
<1> DEFINE U == UNION C
<1>1. C \subseteq FiniteSubsetsOf(U)
  BY DEF FiniteSubsetsOf
<1>2. PICK S \in C : \A T \in C : ~(<<T, S>> \in StrictSubsetOrdering(U))
  BY <1>1, FS_StrictSubsetOrderingWellFounded, WFMin
<1>3. ASSUME NEW T \in C PROVE ~(T \subseteq S /\ T # S)
  BY <1>2 DEF StrictSubsetOrdering
<1> QED BY <1>3

\* The same for numbers: a set of them has a smallest, and if it is bounded a
\* largest.
LEMMA SmallestNumber ==
  ASSUME NEW S, S # {}, S \subseteq Nat
  PROVE  \E n \in S : \A m \in S : n <= m
<1> DEFINE C == {0 .. n : n \in S}
<1>1. C # {}
  OBVIOUS
<1>2. \A T \in C : IsFiniteSet(T)
  <2> SUFFICES ASSUME NEW n \in S PROVE IsFiniteSet(0 .. n)
    OBVIOUS
  <2> QED BY FS_Interval
<1>3. PICK T \in C : \A V \in C : ~(V \subseteq T /\ V # T)
  <2> HIDE DEF C
  <2> QED BY <1>1, <1>2, SmallestSet
<1>4. PICK n \in S : T = 0 .. n
  OBVIOUS
<1>5. ASSUME NEW m \in S PROVE n <= m
  <2>1. n \in Nat /\ m \in Nat
    OBVIOUS
  <2>2. ~(0 .. m \subseteq T /\ 0 .. m # T)
    BY <1>3
  <2>3. m < n => 0 .. m \subseteq 0 .. n /\ n \in 0 .. n /\ n \notin 0 .. m
    BY <2>1
  <2> QED BY <1>4, <2>1, <2>2, <2>3
<1> QED BY <1>5

\* A bounded set of numbers that is not empty has a largest member.
LEMMA LargestNumber ==
  ASSUME NEW S, S # {}, NEW n \in Nat, S \subseteq 0 .. n
  PROVE  \E x \in S : \A y \in S : y <= x
<1> DEFINE R == {n - x : x \in S}
<1>1. R # {} /\ R \subseteq Nat
  <2>1. R # {}
    OBVIOUS
  <2>2. ASSUME NEW x \in S PROVE n - x \in Nat
    <3>1. x \in 0 .. n
      OBVIOUS
    <3> QED BY <3>1
  <2> QED BY <2>1, <2>2
<1>2. PICK r \in R : \A q \in R : r <= q
  <2> HIDE DEF R
  <2> QED BY <1>1, SmallestNumber
<1>3. PICK x \in S : r = n - x
  OBVIOUS
<1>4. ASSUME NEW y \in S PROVE y <= x
  <2>1. x \in 0 .. n /\ y \in 0 .. n /\ r <= n - y
    BY <1>2
  <2> QED BY <1>3, <2>1
<1> QED BY <1>4

\* The element taken out is one of the set.
LEMMA PickIn == ASSUME NEW S, S # {} PROVE Pick(S) \in S
  BY DEF Pick

\* Two such functions agree on the subsets both are defined for.
LEMMA SumUnique ==
  ASSUME NEW f, NEW S, IsFiniteSet(S), NEW g, NEW h, NEW R, S \subseteq R, IsSum(g, f, S), IsSum(h, f, R)
  PROVE  \A T \in SUBSET S : g[T] = h[T]
<1> DEFINE C == {T \in SUBSET S : g[T] # h[T]}
<1> SUFFICES ASSUME NEW Z \in SUBSET S, g[Z] # h[Z] PROVE FALSE
  OBVIOUS
<1>1. Z \in C
  OBVIOUS
<1>2. \A T \in C : IsFiniteSet(T)
  BY FS_Subset
<1>3. PICK T \in C : \A V \in C : ~(V \subseteq T /\ V # T)
  <2> HIDE DEF C
  <2> QED BY <1>1, <1>2, SmallestSet
<1>4. g[T] = IF T = {} THEN 0 ELSE f[Pick(T)] + g[T \ {Pick(T)}]
  BY DEF IsSum
<1>5. h[T] = IF T = {} THEN 0 ELSE f[Pick(T)] + h[T \ {Pick(T)}]
  BY DEF IsSum
<1>6. T # {} => Pick(T) \in T
  BY PickIn
<1>7. T # {} => g[T \ {Pick(T)}] = h[T \ {Pick(T)}]
  BY <1>3, <1>6
<1> QED BY <1>4, <1>5, <1>7

\* There is such a function for every finite set.
LEMMA SumExists ==
  ASSUME NEW f, NEW S, IsFiniteSet(S)
  PROVE  \E g : IsSum(g, f, S)
<1> DEFINE C == {T \in SUBSET S : ~\E g : IsSum(g, f, T)}
<1> SUFFICES ASSUME ~\E g : IsSum(g, f, S) PROVE FALSE
  OBVIOUS
<1>1. S \in C
  OBVIOUS
<1>2. \A T \in C : IsFiniteSet(T)
  BY FS_Subset
<1>3. PICK T \in C : \A V \in C : ~(V \subseteq T /\ V # T)
  <2> HIDE DEF C
  <2> QED BY <1>1, <1>2, SmallestSet
<1> DEFINE fn(V) == CHOOSE g : IsSum(g, f, V)
           v(V) == fn(V)[V]
           body(V) == IF V = {} THEN 0 ELSE f[Pick(V)] + v(V \ {Pick(V)})
           g == [V \in SUBSET T |-> body(V)]
<1>4. ASSUME NEW V, V \subseteq T, V # T PROVE IsFiniteSet(V) /\ IsSum(fn(V), f, V)
  <2>1. \E k : IsSum(k, f, V)
    BY <1>3, <1>4
  <2> QED BY <2>1, <1>2, <1>4, FS_Subset
<1>5. ASSUME NEW V, V \subseteq T, V # T PROVE v(V) = body(V)
  <2>1. V \in SUBSET V
    OBVIOUS
  <2>2. IsSum(fn(V), f, V)
    BY <1>4, <1>5
  <2>3. v(V) = IF V = {} THEN 0 ELSE f[Pick(V)] + fn(V)[V \ {Pick(V)}]
    <3> HIDE DEF fn
    <3> QED BY <2>1, <2>2 DEF IsSum
  <2>4. CASE V = {}
    BY <2>3, <2>4
  <2>5. CASE V # {}
    <3> DEFINE W == V \ {Pick(V)}
    <3>1. Pick(V) \in V
      BY <2>5, PickIn
    <3>2. W \subseteq V /\ W \subseteq T /\ W # T
      BY <3>1, <1>5
    <3>3. IsFiniteSet(W) /\ IsSum(fn(W), f, W)
      BY <3>2, <1>4
    <3>4. W \in SUBSET W
      OBVIOUS
    <3>5. fn(W)[W] = fn(V)[W]
      <4> HIDE DEF fn, W
      <4> QED BY <3>2, <3>3, <3>4, <2>2, SumUnique
    <3> QED BY <2>3, <2>5, <3>5
  <2> QED BY <2>4, <2>5
<1>6. ASSUME NEW V \in SUBSET T, V # {} PROVE g[V \ {Pick(V)}] = v(V \ {Pick(V)})
  <2> DEFINE W == V \ {Pick(V)}
  <2>1. W \subseteq T /\ W # T
    BY <1>6, PickIn
  <2>2. v(W) = body(W)
    BY <2>1, <1>5
  <2>3. g[W] = body(W)
    <3> HIDE DEF body
    <3> QED BY <2>1
  <2> QED BY <2>2, <2>3
<1>7. \A V \in SUBSET T : body(V) = IF V = {} THEN 0 ELSE f[Pick(V)] + g[V \ {Pick(V)}]
  <2> HIDE DEF v, g
  <2> QED BY <1>6
<1>8. g = [V \in SUBSET T |-> IF V = {} THEN 0 ELSE f[Pick(V)] + g[V \ {Pick(V)}]]
  <2> DEFINE k == g
  <2>1. k = [V \in SUBSET T |-> body(V)]
    OBVIOUS
  <2>2. \A V \in SUBSET T : body(V) = IF V = {} THEN 0 ELSE f[Pick(V)] + k[V \ {Pick(V)}]
    BY <1>7
  <2> HIDE DEF k, body, v
  <2>3. k = [V \in SUBSET T |-> IF V = {} THEN 0 ELSE f[Pick(V)] + k[V \ {Pick(V)}]]
    BY <2>1, <2>2
  <2> QED BY <2>3 DEF k
<1>9. IsSum(g, f, T)
  BY <1>8 DEF IsSum
<1> HIDE DEF g
<1> QED BY <1>9

\* So SumOver is a sum in this sense, on which every lemma below rests.
LEMMA SumDefined ==
  ASSUME NEW f, NEW S, IsFiniteSet(S)
  PROVE  \E g : IsSum(g, f, S) /\ \A T \in SUBSET S : SumOver(f, T) = g[T]
<1> DEFINE fn(V) == CHOOSE g : IsSum(g, f, V)
<1>1. \A T : SumOver(f, T) = fn(T)[T]
  BY DEF SumOver, MapThenSumSet, MapThenFoldSet, IsSum, Pick
<1>2. \A T \in SUBSET S : IsFiniteSet(T) /\ IsSum(fn(T), f, T)
  <2> TAKE T \in SUBSET S
  <2>1. IsFiniteSet(T)
    BY FS_Subset
  <2>2. \E g : IsSum(g, f, T)
    BY <2>1, SumExists
  <2> QED BY <2>1, <2>2
<1>3. IsSum(fn(S), f, S)
  BY <1>2
<1> HIDE DEF fn
<1>4. \A T \in SUBSET S : fn(T)[T] = fn(S)[T]
  BY <1>2, <1>3, SumUnique
<1> QED BY <1>1, <1>3, <1>4

\* Nothing adds up to zero.
LEMMA SumEmpty == \A f : SumOver(f, {}) = 0
  <1> TAKE f
  <1>1. PICK g : IsSum(g, f, {}) /\ \A T \in SUBSET {} : SumOver(f, T) = g[T]
    BY SumDefined, FS_EmptySet
  <1> QED BY <1>1 DEF IsSum

\* One step of the recursion
LEMMA SumPick ==
  ASSUME NEW f, NEW S, IsFiniteSet(S), S # {}
  PROVE  SumOver(f, S) = f[Pick(S)] + SumOver(f, S \ {Pick(S)})
  <1>1. PICK g : IsSum(g, f, S) /\ \A T \in SUBSET S : SumOver(f, T) = g[T]
    BY SumDefined
  <1>2. g[S] = f[Pick(S)] + g[S \ {Pick(S)}]
    BY <1>1 DEF IsSum
  <1>3. S \in SUBSET S /\ S \ {Pick(S)} \in SUBSET S
    OBVIOUS
  <1> QED BY <1>1, <1>2, <1>3
----------------------------------------------------------------------------
(* Sums *)

\* A sum of integers is an integer.
LEMMA SumInt ==
  ASSUME NEW f, NEW S, IsFiniteSet(S), \A x \in S : f[x] \in Int
  PROVE  SumOver(f, S) \in Int
<1> DEFINE C == {T \in SUBSET S : SumOver(f, T) \notin Int}
<1> SUFFICES ASSUME SumOver(f, S) \notin Int PROVE FALSE
  OBVIOUS
<1>1. S \in C
  OBVIOUS
<1>2. \A T \in C : IsFiniteSet(T)
  BY FS_Subset
<1>3. PICK T \in C : \A V \in C : ~(V \subseteq T /\ V # T)
  <2> HIDE DEF C
  <2> QED BY <1>1, <1>2, SmallestSet
<1>4. T # {}
  BY SumEmpty
<1>5. Pick(T) \in T
  BY <1>4, PickIn
<1>6. SumOver(f, T \ {Pick(T)}) \in Int
  BY <1>3, <1>5
<1>7. SumOver(f, T) = f[Pick(T)] + SumOver(f, T \ {Pick(T)})
  BY <1>2, <1>4, SumPick
<1> QED BY <1>5, <1>6, <1>7

\* Any element may be taken out first.
LEMMA SumRemove ==
  ASSUME NEW f, NEW S, IsFiniteSet(S), \A x \in S : f[x] \in Int, NEW y \in S
  PROVE  SumOver(f, S) = f[y] + SumOver(f, S \ {y})
<1> DEFINE Holds(T) == \A x \in T : SumOver(f, T) = f[x] + SumOver(f, T \ {x})
           C == {T \in SUBSET S : ~Holds(T)}
<1> SUFFICES ASSUME ~Holds(S) PROVE FALSE
  OBVIOUS
<1>1. S \in C
  OBVIOUS
<1>2. \A T \in C : IsFiniteSet(T)
  BY FS_Subset
<1>3. PICK T \in C : \A V \in C : ~(V \subseteq T /\ V # T)
  <2> HIDE DEF C
  <2> QED BY <1>1, <1>2, SmallestSet
<1> SUFFICES ASSUME NEW x \in T, SumOver(f, T) # f[x] + SumOver(f, T \ {x})
             PROVE  FALSE
  OBVIOUS
<1> DEFINE c == Pick(T)
           R == T \ {c}
           Q == T \ {x}
<1>4. c \in T /\ IsFiniteSet(T)
  BY <1>2, PickIn
<1>5. SumOver(f, T) = f[c] + SumOver(f, R)
  BY <1>4, SumPick
<1>6. x # c
  BY <1>5
<1>7. Holds(R) /\ Holds(Q)
  <2>1. R \subseteq T /\ R # T /\ Q \subseteq T /\ Q # T /\ R \in SUBSET S /\ Q \in SUBSET S
    BY <1>4
  <2> HIDE DEF R, Q, Holds
  <2> QED BY <2>1, <1>3
<1>8. SumOver(f, R) = f[x] + SumOver(f, R \ {x}) /\ SumOver(f, Q) = f[c] + SumOver(f, Q \ {c})
  BY <1>4, <1>6, <1>7
<1>9. R \ {x} = Q \ {c}
  OBVIOUS
<1>10. SumOver(f, Q \ {c}) \in Int /\ f[x] \in Int /\ f[c] \in Int
  <2>1. IsFiniteSet(Q \ {c}) /\ \A z \in Q \ {c} : f[z] \in Int
    BY <1>4, FS_RemoveElement
  <2>2. SumOver(f, Q \ {c}) \in Int
    BY <2>1, SumInt
  <2> QED BY <1>4, <2>2
<1>11. SumOver(f, T) = f[x] + SumOver(f, Q)
  <2> DEFINE rest == SumOver(f, Q \ {c})
  <2>1. /\ SumOver(f, T) = f[c] + (f[x] + rest) /\ SumOver(f, Q) = f[c] + rest
        /\ rest \in Int /\ f[x] \in Int /\ f[c] \in Int
    <3> HIDE DEF R, Q, c
    <3> QED BY <1>5, <1>8, <1>9, <1>10, Zenon
  <2> HIDE DEF rest, Q, c
  <2> QED BY <2>1
<1> QED BY <1>11

\* One element more
LEMMA SumInsert ==
  ASSUME NEW f, NEW S, IsFiniteSet(S), NEW y, y \notin S,
         \A x \in S \union {y} : f[x] \in Int
  PROVE  SumOver(f, S \union {y}) = SumOver(f, S) + f[y]
<1>1. IsFiniteSet(S \union {y}) /\ (S \union {y}) \ {y} = S
  BY FS_AddElement
<1>2. SumOver(f, S \union {y}) = f[y] + SumOver(f, S)
  BY <1>1, SumRemove
<1>3. SumOver(f, S) \in Int
  BY SumInt
<1> QED BY <1>2, <1>3

\* Two functions of which one is at most the other, element by element
LEMMA SumAtMost ==
  ASSUME NEW f, NEW g, NEW S, IsFiniteSet(S),
         \A x \in S : f[x] \in Int /\ g[x] \in Int /\ f[x] <= g[x]
  PROVE  SumOver(f, S) <= SumOver(g, S)
<1> DEFINE C == {T \in SUBSET S : ~(SumOver(f, T) <= SumOver(g, T))}
<1> SUFFICES ASSUME ~(SumOver(f, S) <= SumOver(g, S)) PROVE FALSE
  OBVIOUS
<1>1. S \in C
  OBVIOUS
<1>2. \A T \in C : IsFiniteSet(T)
  BY FS_Subset
<1>3. PICK T \in C : \A V \in C : ~(V \subseteq T /\ V # T)
  <2> HIDE DEF C
  <2> QED BY <1>1, <1>2, SmallestSet
<1>4. T # {}
  <2>1. SumOver(f, {}) = 0 /\ SumOver(g, {}) = 0
    BY SumEmpty
  <2> QED BY <2>1
<1>5. PICK x \in T : TRUE
  BY <1>4
<1>6. SumOver(f, T \ {x}) <= SumOver(g, T \ {x})
  BY <1>3, <1>5
<1>7. /\ SumOver(f, T) = f[x] + SumOver(f, T \ {x})
      /\ SumOver(g, T) = g[x] + SumOver(g, T \ {x})
  BY <1>2, <1>5, SumRemove
<1>8. SumOver(f, T \ {x}) \in Int /\ SumOver(g, T \ {x}) \in Int
  <2>1. IsFiniteSet(T \ {x}) /\ \A z \in T \ {x} : f[z] \in Int /\ g[z] \in Int
    BY <1>2, FS_RemoveElement
  <2> QED BY <2>1, SumInt
<1>9. f[x] \in Int /\ g[x] \in Int /\ f[x] <= g[x]
  BY <1>5
<1>10. SumOver(f, T) <= SumOver(g, T)
  BY <1>6, <1>7, <1>8, <1>9
<1> QED BY <1>10

\* Functions that agree on the set have the same sum.
LEMMA SumSame ==
  ASSUME NEW f, NEW g, NEW S, IsFiniteSet(S),
         \A x \in S : f[x] \in Int /\ g[x] = f[x]
  PROVE  SumOver(g, S) = SumOver(f, S)
<1>1. SumOver(f, S) <= SumOver(g, S) /\ SumOver(g, S) <= SumOver(f, S)
  BY SumAtMost
<1>2. SumOver(f, S) \in Int /\ SumOver(g, S) \in Int
  BY SumInt
<1> QED BY <1>1, <1>2

\* Two functions that differ at one element
LEMMA SumChange ==
  ASSUME NEW f, NEW g, NEW S, IsFiniteSet(S), NEW y \in S,
         \A x \in S : f[x] \in Int /\ g[x] \in Int,
         \A x \in S \ {y} : g[x] = f[x]
  PROVE  SumOver(g, S) = SumOver(f, S) + g[y] - f[y]
<1>1. IsFiniteSet(S \ {y})
  BY FS_RemoveElement
<1>2. SumOver(g, S \ {y}) = SumOver(f, S \ {y}) /\ SumOver(f, S \ {y}) \in Int
  BY <1>1, SumSame, SumInt
<1>3. /\ SumOver(f, S) = f[y] + SumOver(f, S \ {y})
      /\ SumOver(g, S) = g[y] + SumOver(g, S \ {y})
  BY SumRemove
<1> QED BY <1>2, <1>3

\* Zeros add up to zero.
LEMMA SumZero ==
  ASSUME NEW f, NEW S, IsFiniteSet(S), \A x \in S : f[x] = 0
  PROVE  SumOver(f, S) = 0
<1> DEFINE C == {T \in SUBSET S : SumOver(f, T) # 0}
<1> SUFFICES ASSUME SumOver(f, S) # 0 PROVE FALSE
  OBVIOUS
<1>1. S \in C
  OBVIOUS
<1>2. \A T \in C : IsFiniteSet(T)
  BY FS_Subset
<1>3. PICK T \in C : \A V \in C : ~(V \subseteq T /\ V # T)
  <2> HIDE DEF C
  <2> QED BY <1>1, <1>2, SmallestSet
<1>4. T # {}
  BY SumEmpty
<1>5. PICK x \in T : TRUE
  BY <1>4
<1>6. SumOver(f, T \ {x}) = 0
  BY <1>3, <1>5
<1>7. SumOver(f, T) = f[x] + SumOver(f, T \ {x})
  BY <1>2, <1>5, SumRemove
<1> QED BY <1>5, <1>6, <1>7

\* What is summed and never negative is never negative in sum, and none of it
\* is more than the sum.
LEMMA SumNat ==
  ASSUME NEW f, NEW S, IsFiniteSet(S), \A x \in S : f[x] \in Nat
  PROVE  SumOver(f, S) \in Nat
<1> DEFINE z == [x \in S |-> 0]
<1>1. \A x \in S : z[x] \in Int /\ z[x] = 0 /\ f[x] \in Int /\ z[x] <= f[x]
  OBVIOUS
<1> HIDE DEF z
<1>2. SumOver(z, S) = 0 /\ SumOver(z, S) <= SumOver(f, S)
  BY <1>1, SumZero, SumAtMost
<1>3. SumOver(f, S) \in Int
  BY SumInt
<1> QED BY <1>2, <1>3

\* An element is at most the sum, when none is negative.
LEMMA SumPart ==
  ASSUME NEW f, NEW S, IsFiniteSet(S), \A x \in S : f[x] \in Nat, NEW y \in S
  PROVE  f[y] <= SumOver(f, S)
<1>1. IsFiniteSet(S \ {y})
  BY FS_RemoveElement
<1>2. SumOver(f, S) = f[y] + SumOver(f, S \ {y})
  BY SumRemove
<1>3. SumOver(f, S \ {y}) \in Nat
  BY <1>1, SumNat
<1> QED BY <1>2, <1>3

\* The sum of sums
LEMMA SumPlus ==
  ASSUME NEW f, NEW g, NEW h, NEW S, IsFiniteSet(S),
         \A x \in S : f[x] \in Int /\ g[x] \in Int /\ h[x] = f[x] + g[x]
  PROVE  SumOver(h, S) = SumOver(f, S) + SumOver(g, S)
<1> DEFINE C == {T \in SUBSET S : SumOver(h, T) # SumOver(f, T) + SumOver(g, T)}
<1> SUFFICES ASSUME SumOver(h, S) # SumOver(f, S) + SumOver(g, S) PROVE FALSE
  OBVIOUS
<1>1. S \in C
  OBVIOUS
<1>2. \A T \in C : IsFiniteSet(T)
  BY FS_Subset
<1>3. PICK T \in C : \A V \in C : ~(V \subseteq T /\ V # T)
  <2> HIDE DEF C
  <2> QED BY <1>1, <1>2, SmallestSet
<1>4. T # {}
  BY SumEmpty
<1>5. PICK x \in T : TRUE
  BY <1>4
<1>6. SumOver(h, T \ {x}) = SumOver(f, T \ {x}) + SumOver(g, T \ {x})
  BY <1>3, <1>5
<1>7. /\ SumOver(f, T) = f[x] + SumOver(f, T \ {x})
      /\ SumOver(g, T) = g[x] + SumOver(g, T \ {x})
      /\ SumOver(h, T) = h[x] + SumOver(h, T \ {x})
  BY <1>2, <1>5, SumRemove
<1>8. SumOver(f, T \ {x}) \in Int /\ SumOver(g, T \ {x}) \in Int
  <2>1. IsFiniteSet(T \ {x}) /\ \A z \in T \ {x} : f[z] \in Int /\ g[z] \in Int
    BY <1>2, FS_RemoveElement
  <2> QED BY <2>1, SumInt
<1>9. f[x] \in Int /\ g[x] \in Int /\ h[x] = f[x] + g[x]
  BY <1>5
<1>10. SumOver(h, T) = SumOver(f, T) + SumOver(g, T)
  BY <1>6, <1>7, <1>8, <1>9
<1> QED BY <1>10

\* Equal parts
LEMMA SumConstant ==
  ASSUME NEW f, NEW S, IsFiniteSet(S), NEW c \in Int, \A x \in S : f[x] = c
  PROVE  SumOver(f, S) = c * Cardinality(S)
<1> DEFINE C == {T \in SUBSET S : SumOver(f, T) # c * Cardinality(T)}
<1> SUFFICES ASSUME SumOver(f, S) # c * Cardinality(S) PROVE FALSE
  OBVIOUS
<1>1. S \in C
  OBVIOUS
<1>2. \A T \in C : IsFiniteSet(T)
  BY FS_Subset
<1>3. PICK T \in C : \A V \in C : ~(V \subseteq T /\ V # T)
  <2> HIDE DEF C
  <2> QED BY <1>1, <1>2, SmallestSet
<1>4. T # {}
  <2>1. SumOver(f, {}) = 0 /\ Cardinality({}) = 0 /\ c * 0 = 0
    BY SumEmpty, FS_EmptySet
  <2> QED BY <2>1
<1>5. PICK x \in T : TRUE
  BY <1>4
<1>6. SumOver(f, T \ {x}) = c * Cardinality(T \ {x})
  BY <1>3, <1>5
<1>7. SumOver(f, T) = c + SumOver(f, T \ {x})
  BY <1>2, <1>5, SumRemove
<1>8. /\ Cardinality(T) \in Nat /\ Cardinality(T \ {x}) \in Nat
      /\ Cardinality(T \ {x}) = Cardinality(T) - 1
  BY <1>2, <1>5, FS_RemoveElement, FS_CardinalityType
<1>9. ASSUME NEW m \in Nat, NEW n \in Nat, m = n - 1 PROVE c + c * m = c * n
  BY <1>9
<1>10. c + c * Cardinality(T \ {x}) = c * Cardinality(T)
  BY <1>8, <1>9
<1>11. SumOver(f, T) = c * Cardinality(T)
  BY <1>6, <1>7, <1>10
<1> QED BY <1>11

\* A product of integers is one.
LEMMA ProductInt == ASSUME NEW a \in Int, NEW b \in Int PROVE a * b \in Int
OBVIOUS

\* A common factor
LEMMA SumScale ==
  ASSUME NEW f, NEW g, NEW S, IsFiniteSet(S), NEW c \in Int,
         \A x \in S : f[x] \in Int /\ g[x] = c * f[x]
  PROVE  SumOver(g, S) = c * SumOver(f, S)
<1> DEFINE C == {T \in SUBSET S : SumOver(g, T) # c * SumOver(f, T)}
<1> SUFFICES ASSUME SumOver(g, S) # c * SumOver(f, S) PROVE FALSE
  OBVIOUS
<1>1. S \in C
  OBVIOUS
<1>2. \A T \in C : IsFiniteSet(T)
  BY FS_Subset
<1>3. PICK T \in C : \A V \in C : ~(V \subseteq T /\ V # T)
  <2> HIDE DEF C
  <2> QED BY <1>1, <1>2, SmallestSet
<1>4. T # {}
  <2>1. SumOver(f, {}) = 0 /\ SumOver(g, {}) = 0 /\ c * 0 = 0
    BY SumEmpty
  <2> QED BY <2>1
<1>5. PICK x \in T : TRUE
  BY <1>4
<1>6. SumOver(g, T \ {x}) = c * SumOver(f, T \ {x})
  BY <1>3, <1>5
<1>7. \A y \in S : g[y] \in Int
  BY ProductInt
<1>8. /\ SumOver(f, T) = f[x] + SumOver(f, T \ {x})
      /\ SumOver(g, T) = g[x] + SumOver(g, T \ {x})
  <2>1. \A y \in T : f[y] \in Int /\ g[y] \in Int
    BY <1>7
  <2> QED BY <1>2, <1>5, <2>1, SumRemove
<1>9. SumOver(f, T \ {x}) \in Int /\ f[x] \in Int /\ g[x] = c * f[x]
  <2>1. IsFiniteSet(T \ {x}) /\ \A z \in T \ {x} : f[z] \in Int
    BY <1>2, FS_RemoveElement
  <2> QED BY <1>5, <2>1, SumInt
<1>10. ASSUME NEW a \in Int, NEW b \in Int PROVE c * a + c * b = c * (a + b)
  OBVIOUS
<1>11. SumOver(g, T) = c * SumOver(f, T)
  BY <1>6, <1>8, <1>9, <1>10
<1> QED BY <1>11

\* The same values under other names
LEMMA SumRenamed ==
  ASSUME NEW f, NEW g, NEW h, NEW S, IsFiniteSet(S),
         \A x \in S : g[x] \in Int /\ f[h[x]] = g[x],
         \A x, y \in S : h[x] = h[y] => x = y
  PROVE  /\ IsFiniteSet({h[x] : x \in S})
         /\ SumOver(f, {h[x] : x \in S}) = SumOver(g, S)
<1> DEFINE Image(T) == {h[x] : x \in T}
           Holds(T) == IsFiniteSet(Image(T)) /\ SumOver(f, Image(T)) = SumOver(g, T)
           C == {T \in SUBSET S : ~Holds(T)}
<1> SUFFICES ASSUME ~Holds(S) PROVE FALSE
  OBVIOUS
<1>1. S \in C
  OBVIOUS
<1>2. \A T \in C : IsFiniteSet(T)
  BY FS_Subset
<1>3. PICK T \in C : \A V \in C : ~(V \subseteq T /\ V # T)
  <2> HIDE DEF C
  <2> QED BY <1>1, <1>2, SmallestSet
<1>4. T # {}
  <2>1. Image({}) = {}
    OBVIOUS
  <2>2. Holds({})
    BY <2>1, SumEmpty, FS_EmptySet
  <2> HIDE DEF Holds
  <2> QED BY <2>2
<1>5. PICK x \in T : TRUE
  BY <1>4
<1> DEFINE R == T \ {x}
<1>6. Holds(R)
  <2>1. R \subseteq T /\ R # T /\ R \in SUBSET S
    BY <1>5
  <2> HIDE DEF Holds, R
  <2> QED BY <1>3, <2>1
<1>7. /\ Image(T) = Image(R) \union {h[x]} /\ h[x] \notin Image(R)
      /\ \A y \in Image(R) \union {h[x]} : f[y] \in Int
  BY <1>5
<1>8. IsFiniteSet(Image(T))
  <2> DEFINE I == Image(R)
             k == h[x]
             J == Image(T)
  <2>1. IsFiniteSet(I) /\ J = I \union {k}
    BY <1>6, <1>7
  <2> HIDE DEF I, J, k
  <2>2. IsFiniteSet(I \union {k})
    BY <2>1, FS_AddElement
  <2>3. IsFiniteSet(J)
    BY <2>1, <2>2
  <2> QED BY <2>3 DEF J
<1>9. SumOver(f, Image(T)) = SumOver(f, Image(R)) + f[h[x]]
  <2> DEFINE I == Image(R)
             k == h[x]
  <2>1. IsFiniteSet(I) /\ k \notin I /\ \A y \in I \union {k} : f[y] \in Int
    BY <1>6, <1>7
  <2> HIDE DEF I, k
  <2>2. SumOver(f, I \union {k}) = SumOver(f, I) + f[k]
    BY <2>1, SumInsert
  <2> QED BY <1>7, <2>2 DEF I, k
<1>10. SumOver(g, T) = g[x] + SumOver(g, R)
  <2>1. IsFiniteSet(T) /\ x \in T /\ \A z \in T : g[z] \in Int
    BY <1>2, <1>5
  <2> QED BY <2>1, SumRemove
<1>11. SumOver(g, R) \in Int /\ g[x] \in Int
  <2>1. IsFiniteSet(R) /\ \A z \in R : g[z] \in Int
    BY <1>2, FS_RemoveElement
  <2> QED BY <1>5, <2>1, SumInt
<1>12. SumOver(f, Image(T)) = SumOver(g, T)
  <2>1. SumOver(f, Image(R)) = SumOver(g, R) /\ f[h[x]] = g[x]
    BY <1>5, <1>6
  <2> HIDE DEF Image, R
  <2> QED BY <1>9, <1>10, <1>11, <2>1
<1> QED BY <1>8, <1>12

\* Zeros add nothing: the sum of a part that leaves out only zeros is the same.
LEMMA SumWithoutZeros ==
  ASSUME NEW f, NEW S, IsFiniteSet(S), \A x \in S : f[x] \in Int,
         NEW T, T \subseteq S, \A x \in S \ T : f[x] = 0
  PROVE  SumOver(f, S) = SumOver(f, T)
<1> DEFINE C == {R \in SUBSET S : SumOver(f, R) # SumOver(f, R \intersect T)}
<1> SUFFICES ASSUME SumOver(f, S) # SumOver(f, T) PROVE FALSE
  OBVIOUS
<1>1. S \in C
  <2>1. S \intersect T = T
    OBVIOUS
  <2> QED BY <2>1
<1>2. \A R \in C : IsFiniteSet(R)
  BY FS_Subset
<1>3. PICK R \in C : \A V \in C : ~(V \subseteq R /\ V # R)
  <2> HIDE DEF C
  <2> QED BY <1>1, <1>2, SmallestSet
<1>4. IsFiniteSet(R) /\ R \subseteq S /\ \A x \in R : f[x] \in Int
  BY <1>2
<1>5. PICK x \in R : TRUE
  <2>1. {} \intersect T = {}
    OBVIOUS
  <2>2. SumOver(f, {}) = 0
    BY SumEmpty
  <2>3. R # {}
    BY <1>3, <2>1, <2>2
  <2> QED BY <2>3
<1> DEFINE Q == R \ {x}
<1>6. SumOver(f, Q) = SumOver(f, Q \intersect T)
  <2>1. Q \subseteq R /\ Q # R /\ Q \in SUBSET S
    BY <1>4
  <2> QED BY <1>3, <2>1
<1>7. SumOver(f, R) = f[x] + SumOver(f, Q)
  BY <1>4, SumRemove
<1>8. IsFiniteSet(R \intersect T) /\ \A y \in R \intersect T : f[y] \in Int
  <2>1. R \intersect T \in SUBSET R
    OBVIOUS
  <2> QED BY <1>4, <2>1, FS_Subset
<1>9. CASE x \in T
  <2>1. SumOver(f, R \intersect T) = f[x] + SumOver(f, (R \intersect T) \ {x})
    <3>1. x \in R \intersect T
      BY <1>9
    <3> QED BY <1>8, <3>1, SumRemove
  <2>2. (R \intersect T) \ {x} = Q \intersect T
    OBVIOUS
  <2>3. SumOver(f, R) # SumOver(f, R \intersect T)
    BY <1>3
  <2> HIDE DEF Q
  <2>4. SumOver(f, R \intersect T) = f[x] + SumOver(f, Q)
    BY <1>6, <2>1, <2>2
  <2> QED BY <1>7, <2>3, <2>4
<1>10. CASE x \notin T
  <2>1. R \intersect T = Q \intersect T /\ f[x] = 0
    BY <1>4, <1>10
  <2>2. SumOver(f, Q) \in Int
    <3>1. IsFiniteSet(Q) /\ \A y \in Q : f[y] \in Int
      BY <1>4, FS_RemoveElement
    <3> HIDE DEF Q
    <3> QED BY <3>1, SumInt
  <2>3. SumOver(f, R) # SumOver(f, R \intersect T)
    BY <1>3
  <2> HIDE DEF Q
  <2>4. SumOver(f, R \intersect T) = SumOver(f, Q)
    BY <1>6, <2>1
  <2> QED BY <1>7, <2>1, <2>2, <2>3, <2>4
<1> QED BY <1>9, <1>10

----------------------------------------------------------------------------
(* Totals: how the total of a table follows a change of the table *)

\* The total of integers is an integer.
LEMMA TotalInt ==
  ASSUME NEW f, IsFiniteSet(DOMAIN f), \A x \in DOMAIN f : f[x] \in Int
  PROVE  Total(f) \in Int
BY SumInt DEF Total

\* The total of naturals is a natural.
LEMMA TotalNat ==
  ASSUME NEW f, IsFiniteSet(DOMAIN f), \A x \in DOMAIN f : f[x] \in Nat
  PROVE  Total(f) \in Nat
BY SumNat DEF Total

\* A value is at most the total, when none is negative.
LEMMA TotalPart ==
  ASSUME NEW f, IsFiniteSet(DOMAIN f), \A x \in DOMAIN f : f[x] \in Nat,
         NEW y \in DOMAIN f
  PROVE  f[y] <= Total(f)
BY SumPart DEF Total

\* An empty table has total zero.
LEMMA TotalEmpty ==
  ASSUME NEW f, DOMAIN f = {}
  PROVE  Total(f) = 0
BY SumEmpty DEF Total

\* So has a table of zeros.
LEMMA TotalZero ==
  ASSUME NEW f, IsFiniteSet(DOMAIN f), \A x \in DOMAIN f : f[x] = 0
  PROVE  Total(f) = 0
BY SumZero DEF Total

\* Smaller values have the smaller total.
LEMMA TotalAtMost ==
  ASSUME NEW f, NEW g, IsFiniteSet(DOMAIN f), DOMAIN g = DOMAIN f,
         \A x \in DOMAIN f : f[x] \in Int /\ g[x] \in Int /\ f[x] <= g[x]
  PROVE  Total(f) <= Total(g)
BY SumAtMost DEF Total

\* Tables with the same rows have the same total.
LEMMA TotalSame ==
  ASSUME NEW f, NEW g, IsFiniteSet(DOMAIN f), DOMAIN g = DOMAIN f,
         \A x \in DOMAIN f : f[x] \in Int /\ g[x] = f[x]
  PROVE  Total(g) = Total(f)
BY SumSame DEF Total

\* One value changes.
LEMMA TotalChange ==
  ASSUME NEW f, NEW g, IsFiniteSet(DOMAIN f), NEW y \in DOMAIN f,
         DOMAIN g = DOMAIN f,
         \A x \in DOMAIN f : f[x] \in Int /\ g[x] \in Int,
         \A x \in DOMAIN f \ {y} : g[x] = f[x]
  PROVE  Total(g) = Total(f) + g[y] - f[y]
BY SumChange DEF Total

\* A key is added.
LEMMA TotalInsert ==
  ASSUME NEW f, NEW g, IsFiniteSet(DOMAIN f), NEW y, y \notin DOMAIN f,
         DOMAIN g = DOMAIN f \union {y}, g[y] \in Int,
         \A x \in DOMAIN f : f[x] \in Int /\ g[x] = f[x]
  PROVE  Total(g) = Total(f) + g[y]
<1>1. SumOver(g, DOMAIN f \union {y}) = SumOver(g, DOMAIN f) + g[y]
  BY SumInsert
<1>2. SumOver(g, DOMAIN f) = SumOver(f, DOMAIN f)
  BY SumSame
<1> QED BY <1>1, <1>2 DEF Total

\* A key is removed.
LEMMA TotalRemove ==
  ASSUME NEW f, NEW g, IsFiniteSet(DOMAIN f), NEW y \in DOMAIN f,
         DOMAIN g = DOMAIN f \ {y},
         \A x \in DOMAIN f : f[x] \in Int,
         \A x \in DOMAIN g : g[x] = f[x]
  PROVE  Total(g) = Total(f) - f[y]
<1>1. IsFiniteSet(DOMAIN f \ {y})
  BY FS_RemoveElement
<1>2. SumOver(f, DOMAIN f) = f[y] + SumOver(f, DOMAIN f \ {y})
  BY SumRemove
<1>3. SumOver(g, DOMAIN f \ {y}) = SumOver(f, DOMAIN f \ {y})
  BY <1>1, SumSame
<1>4. SumOver(f, DOMAIN f \ {y}) \in Int
  BY <1>1, SumInt
<1> QED BY <1>2, <1>3, <1>4 DEF Total

\* The total of row-by-row sums is the sum of the totals.
LEMMA TotalPlus ==
  ASSUME NEW f, NEW g, NEW h, IsFiniteSet(DOMAIN f),
         DOMAIN g = DOMAIN f, DOMAIN h = DOMAIN f,
         \A x \in DOMAIN f : f[x] \in Int /\ g[x] \in Int /\ h[x] = f[x] + g[x]
  PROVE  Total(h) = Total(f) + Total(g)
BY SumPlus DEF Total

\* A key is added or its value changed.
LEMMA TotalPut ==
  ASSUME NEW f, NEW g, IsFiniteSet(DOMAIN f), NEW y,
         DOMAIN g = DOMAIN f \union {y}, g[y] \in Int,
         \A x \in DOMAIN f : f[x] \in Int,
         \A x \in DOMAIN f \ {y} : g[x] = f[x]
  PROVE  /\ Total(f) \in Int
         /\ Total(g) = Total(f) + g[y] - (IF y \in DOMAIN f THEN f[y] ELSE 0)
<1>1. Total(f) \in Int
  BY TotalInt
<1>2. CASE y \in DOMAIN f
  <2>1. DOMAIN g = DOMAIN f /\ \A x \in DOMAIN f : g[x] \in Int
    BY <1>2
  <2> QED BY <1>1, <1>2, <2>1, TotalChange
<1>3. CASE y \notin DOMAIN f
  BY <1>1, <1>3, TotalInsert
<1> QED BY <1>2, <1>3

\* Keys whose values are zero are left out.
LEMMA TotalWithoutZeros ==
  ASSUME NEW f, NEW g, IsFiniteSet(DOMAIN f), \A x \in DOMAIN f : f[x] \in Int,
         DOMAIN g \subseteq DOMAIN f, \A x \in DOMAIN g : g[x] = f[x],
         \A x \in DOMAIN f \ DOMAIN g : f[x] = 0
  PROVE  Total(g) = Total(f)
<1>1. IsFiniteSet(DOMAIN g)
  BY FS_Subset
<1>2. SumOver(g, DOMAIN g) = SumOver(f, DOMAIN g)
  BY <1>1, SumSame
<1>3. SumOver(f, DOMAIN f) = SumOver(f, DOMAIN g)
  BY SumWithoutZeros
<1> QED BY <1>2, <1>3 DEF Total
=============================================================================
