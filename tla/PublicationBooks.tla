-------------------------- MODULE PublicationBooks --------------------------
(***************************************************************************)
(* Proofs about the books of golos.publication for any accounts, rules,    *)
(* votes and bounds: a pool counts its open messages and is the sum of     *)
(* their shares, its tokens cover what it promised, and beneficiaries      *)
(* never get more than all.                                                *)
(***************************************************************************)
EXTENDS PublicationProofs, SumTheorems, SequenceTheorems

IsPool(p) ==
  /\ p = [rules |-> p.rules, msgs |-> p.msgs, funds |-> p.funds,
          rshares |-> p.rshares, rsharesfn |-> p.rsharesfn]
  /\ p.msgs \in 0 .. CounterRange - 1
  /\ p.funds \in Int /\ p.rshares \in Int /\ p.rsharesfn \in Int
  /\ IsRules(p.rules)

MessageRow ==
  [date : Nat, pool_date : Nat, tokenprop : Nat,
   beneficiaries : UNION {[S -> 0 .. Whole] : S \in SUBSET Account},
   rewardweight : 0 .. Whole, netshares : Int, voteshares : Int, sumcuratorsw : Int,
   curators_prcnt : Nat, cashout_time : Int, mssg_reward : Int, max_payout : Nat,
   paid_amount : Int]

VoteRow ==
  [weight : Int, count : Int, delegators : Seq([delegator : Account, interest_rate : Nat]),
   curatorsw : Int, rshares : Int, paid_amount : Int]

\* What the sums need of the types
Shapes ==
  /\ now \in 0 .. MaxTime /\ balance \in Int
  /\ DOMAIN pools \subseteq 0 .. now
  /\ \A p \in DOMAIN pools : IsPool(pools[p])
  /\ \A id \in DOMAIN messages : messages[id] \in MessageRow
  /\ \A k \in DOMAIN votes : votes[k] \in VoteRow
  /\ \A k \in DOMAIN charges : charges[k].value \in Int
  /\ \A id \in DOMAIN restorers : IsRestorer(restorers[id])
  /\ \A act \in DOMAIN limits : limits[act].price \in Int /\ limits[act].cutoff \in Int
  /\ \A r \in DOMAIN referrals :
       referrals[r].referrer \in Account /\ referrals[r].percent \in Nat
  /\ \A p \in DOMAIN astray.msgs : astray.msgs[p] \in Int
  /\ \A p \in DOMAIN astray.shares : astray.shares[p] \in Int
  /\ astray.funds \in Int

\* A message that is not closed has been paid nothing, nor has one that gets
\* nothing.
NothingPaid ==
  \A id \in DOMAIN messages :
    ~closed(messages[id]) \/ messages[id].mssg_reward = 0 => messages[id].paid_amount = 0

\* What belongs to a pool made this very second is open and not yet due, and the
\* pool is still there when there is any; so rules set twice in one second leave
\* no message behind whose shares the new pool would lack.
YoungPool ==
  /\ \A id \in DOMAIN messages :
       /\ messages[id].pool_date <= now
       /\ messages[id].pool_date = now => messages[id].cashout_time > now
  /\ DOMAIN astray.msgs \subseteq 0 .. now /\ at(astray.msgs, now) = 0
  /\ now \in DOMAIN pools \/ open_in(now) = {}

BooksInv ==
  IInv /\ Shapes /\ YoungPool /\ NothingPaid /\ CountsExact /\ SharesExact /\ FundsCovered
  /\ BeneficiariesSound

----------------------------------------------------------------------------
(* The order in which messages are closed *)

rank(id) == Cardinality(before(id))

\* A message that comes before another one has the smaller rank.
LEMMA RanksRise ==
  ASSUME IInv, Shapes
  PROVE  /\ IsFiniteSet(due)
         /\ \A x \in due : rank(x) \in 0 .. Cardinality(due) - 1
         /\ \A x, y \in due : x \in before(y) => rank(x) < rank(y)
         /\ \A x, y \in due : x # y => x \in before(y) \/ y \in before(x)
<1>1. due \subseteq 1 .. last_id /\ last_id \in Nat
  BY DEF IInv, Keys, due
<1>2. IsFiniteSet(due)
  <2>1. IsFiniteSet(1 .. last_id)
    BY <1>1, FS_Interval
  <2> QED BY <1>1, <2>1, FS_Subset
<1>3. \A x \in due : x \in Int /\ messages[x].cashout_time \in Int
  BY <1>1 DEF due, Shapes, MessageRow
<1>4. \A x \in due : before(x) \subseteq due /\ x \notin before(x)
  BY <1>3 DEF before
<1>5. \A x \in due : IsFiniteSet(before(x)) /\ rank(x) \in Nat
  BY <1>2, <1>4, FS_Subset, FS_CardinalityType DEF rank
<1>6. \A x, y \in due : x \in before(y) => before(x) \subseteq before(y)
  BY <1>3 DEF before
<1>7. ASSUME NEW S, IsFiniteSet(S), NEW T, T \subseteq S, NEW x \in S, x \notin T
      PROVE  Cardinality(T) < Cardinality(S)
  <2>1. Cardinality(T) <= Cardinality(S) /\ (Cardinality(S) = Cardinality(T) => S = T)
    BY <1>7, FS_Subset
  <2>2. IsFiniteSet(T)
    BY <1>7, FS_Subset
  <2>3. Cardinality(S) \in Nat /\ Cardinality(T) \in Nat
    BY <1>7, <2>2, FS_CardinalityType
  <2> QED BY <1>7, <2>1, <2>3
<1>8. \A x, y \in due : x \in before(y) => rank(x) < rank(y)
  <2> SUFFICES ASSUME NEW x \in due, NEW y \in due, x \in before(y)
               PROVE  Cardinality(before(x)) < Cardinality(before(y))
    BY DEF rank
  <2>1. IsFiniteSet(before(y)) /\ before(x) \subseteq before(y) /\ x \notin before(x)
    BY <1>4, <1>5, <1>6
  <2> QED BY <2>1, <1>7
<1>9. \A x \in due : rank(x) \in 0 .. Cardinality(due) - 1
  <2> SUFFICES ASSUME NEW x \in due PROVE rank(x) \in 0 .. Cardinality(due) - 1
    OBVIOUS
  <2>1. before(x) \subseteq due /\ x \notin before(x)
    BY <1>4
  <2>2. Cardinality(before(x)) < Cardinality(due)
    BY <2>1, <1>2, <1>7
  <2>3. Cardinality(due) \in Nat /\ rank(x) \in Nat
    BY <1>2, <1>5, FS_CardinalityType
  <2> QED BY <2>2, <2>3 DEF rank
<1>10. \A x, y \in due : x # y => x \in before(y) \/ y \in before(x)
  BY <1>3 DEF before
<1> QED BY <1>2, <1>8, <1>9, <1>10

\* So the ranks are the numbers from 0 on, each of one message.
LEMMA RanksFill ==
  ASSUME IInv, Shapes
  PROVE  /\ \A x, y \in due : rank(x) = rank(y) => x = y
         /\ \A k \in 0 .. Cardinality(due) - 1 : \E x \in due : rank(x) = k
<1> DEFINE n == Cardinality(due)
           r == [x \in due |-> rank(x)]
<1>1. /\ IsFiniteSet(due) /\ n \in Nat
      /\ \A x \in due : rank(x) \in 0 .. n - 1
  BY RanksRise, FS_CardinalityType
<1>2. \A x, y \in due : rank(x) = rank(y) => x = y
  <2> SUFFICES ASSUME NEW x \in due, NEW y \in due, x # y PROVE rank(x) # rank(y)
    OBVIOUS
  <2>1. rank(x) < rank(y) \/ rank(y) < rank(x)
    BY RanksRise
  <2>2. rank(x) \in Int /\ rank(y) \in Int
    BY <1>1
  <2> QED BY <2>1, <2>2
<1> HIDE DEF n
<1>3. r \in Injection(due, 0 .. n - 1)
  BY <1>1, <1>2 DEF Injection, IsInjective
<1>4. IsFiniteSet(0 .. n - 1) /\ Cardinality(0 .. n - 1) = n
  <2>1. n - 1 \in Int /\ 0 \in Int
    BY <1>1
  <2>2. /\ IsFiniteSet(0 .. n - 1)
        /\ Cardinality(0 .. n - 1) = IF 0 > n - 1 THEN 0 ELSE n - 1 - 0 + 1
    BY <2>1, FS_Interval
  <2> QED BY <1>1, <2>2
<1>5. r \in Surjection(due, 0 .. n - 1)
  <2> HIDE DEF r
  <2> QED BY <1>3, <1>4, FS_Injection DEF n
<1>6. \A k \in 0 .. n - 1 : \E x \in due : r[x] = k
  BY <1>5 DEF Surjection
<1> QED BY <1>2, <1>6 DEF n

\* The messages that one call closes are those of the first ranks, in order.
LEMMA ClosingInOrder ==
  ASSUME IInv, Shapes
  PROVE  /\ Cardinality(closing) \in Nat /\ IsFiniteSet(closing)
         /\ \A i \in 1 .. Cardinality(closing) : nth_due(i) \in closing
         /\ \A i, j \in 1 .. Cardinality(closing) : nth_due(i) = nth_due(j) => i = j
         /\ closing = {nth_due(i) : i \in 1 .. Cardinality(closing)}
<1> DEFINE n == Cardinality(due)
           k == Least(n, MaxClosed)
           r == [x \in closing |-> rank(x) + 1]
<1>1. /\ IsFiniteSet(due) /\ n \in Nat
      /\ \A x \in due : rank(x) \in 0 .. n - 1
  BY RanksRise, FS_CardinalityType
<1>2. MaxClosed \in Nat
  BY BoundsAssumption
<1>3. k \in Nat /\ k <= n /\ k <= MaxClosed /\ (k = n \/ k = MaxClosed)
  BY <1>1, <1>2 DEF Least
<1> HIDE DEF n, k
<1>4. closing \subseteq due /\ \A x \in due : x \in closing <=> rank(x) < MaxClosed
  BY DEF closing, rank
<1>5. \A i \in 1 .. k : /\ nth_due(i) \in closing /\ rank(nth_due(i)) = i - 1
  <2> SUFFICES ASSUME NEW i \in 1 .. k
               PROVE  nth_due(i) \in closing /\ rank(nth_due(i)) = i - 1
    OBVIOUS
  <2>1. i - 1 \in 0 .. n - 1 /\ i - 1 < MaxClosed
    BY <1>1, <1>2, <1>3
  <2>2. \E x \in due : rank(x) = i - 1
    BY <2>1, RanksFill DEF n
  <2>3. nth_due(i) \in due /\ rank(nth_due(i)) = i - 1
    BY <2>2 DEF nth_due, rank
  <2> QED BY <1>4, <2>1, <2>3
<1>6. \A x \in closing : rank(x) + 1 \in 1 .. k /\ x = nth_due(rank(x) + 1)
  <2> SUFFICES ASSUME NEW x \in closing
               PROVE  rank(x) + 1 \in 1 .. k /\ x = nth_due(rank(x) + 1)
    OBVIOUS
  <2>1. x \in due /\ rank(x) \in 0 .. n - 1 /\ rank(x) < MaxClosed
    BY <1>1, <1>4
  <2>2. PICK i : i = rank(x) + 1
    OBVIOUS
  <2>3. i \in 1 .. k /\ i - 1 = rank(x)
    BY <1>1, <1>2, <1>3, <2>1, <2>2
  <2>4. nth_due(i) \in closing /\ rank(nth_due(i)) = i - 1
    BY <1>5, <2>3
  <2>5. nth_due(i) \in due /\ rank(nth_due(i)) = rank(x)
    BY <1>4, <2>3, <2>4
  <2>6. nth_due(i) = x
    BY <2>1, <2>5, RanksFill
  <2> QED BY <2>2, <2>3, <2>6
<1>7. r \in Bijection(closing, 1 .. k)
  <2>1. r \in [closing -> 1 .. k]
    BY <1>6
  <2>2. \A x, y \in closing : r[x] = r[y] => x = y
    BY <1>6
  <2>3. \A i \in 1 .. k : nth_due(i) \in closing /\ r[nth_due(i)] = i
    BY <1>3, <1>5
  <2> HIDE DEF r
  <2> QED BY <2>1, <2>2, <2>3 DEF Bijection, Injection, Surjection, IsInjective
<1>8. IsFiniteSet(1 .. k) /\ Cardinality(1 .. k) = k
  BY <1>3, FS_Interval
<1>9. IsFiniteSet(closing)
  BY <1>1, <1>4, FS_Subset
<1>10. Cardinality(closing) = k
  <2>1. ExistsBijection(closing, 1 .. k)
    BY <1>7 DEF ExistsBijection
  <2> QED BY <1>8, <1>9, <2>1, FS_Bijection
<1>11. \A i, j \in 1 .. k : nth_due(i) = nth_due(j) => i = j
  <2> SUFFICES ASSUME NEW i \in 1 .. k, NEW j \in 1 .. k, nth_due(i) = nth_due(j)
               PROVE  i = j
    OBVIOUS
  <2>1. i - 1 = j - 1
    BY <1>5
  <2> QED BY <1>3, <2>1
<1>12. closing = {nth_due(i) : i \in 1 .. k}
  BY <1>5, <1>6
<1> HIDE DEF r
<1> QED BY <1>3, <1>5, <1>9, <1>10, <1>11, <1>12

----------------------------------------------------------------------------
(* Counters that wrap around *)

\* A remainder is what is left of a number beside a multiple.
LEMMA Remainder ==
  ASSUME NEW N \in Nat \ {0}, NEW x \in Int
  PROVE  /\ (x % N) \in 0 .. N - 1
         /\ \E q \in Int : x = N * q + (x % N)
         /\ \A q \in Int, r \in 0 .. N - 1 : x = N * q + r => (x % N) = r
<1>1. (x % N) \in 0 .. N - 1 /\ x \div N \in Int /\ x = N * (x \div N) + (x % N)
  <2>1. N > 0 /\ N \in Int
    OBVIOUS
  <2>2. x \div N \in Int
    BY <2>1
  <2>3. (x % N) \in 0 .. N - 1
    BY <2>1
  <2>4. x = N * (x \div N) + (x % N)
    BY <2>1
  <2> QED BY <2>2, <2>3, <2>4
<1>2. ASSUME NEW q \in Int, NEW s \in Int, q < s PROVE N * q + N <= N * s
  <2>1. PICK d \in Nat : s = q + 1 + d
    <3>1. s - q - 1 \in Nat /\ s = q + 1 + (s - q - 1)
      BY <1>2
    <3> QED BY <3>1
  <2>2. N * d >= 0 /\ N * d \in Int
    BY <2>1
  <2>3. N * (q + 1 + d) = N * q + N + N * d
    BY <2>1
  <2> QED BY <2>1, <2>2, <2>3
<1>3. ASSUME NEW q \in Int, NEW r \in 0 .. N - 1, x = N * q + r PROVE (x % N) = r
  <2> DEFINE s == x \div N
             t == (x % N)
  <2>1. s \in Int /\ t \in 0 .. N - 1 /\ N * q + r = N * s + t
    BY <1>1, <1>3
  <2> HIDE DEF s, t
  <2>2. CASE q < s
    <3>1. N * q + N <= N * s
      BY <1>2, <2>1, <2>2
    <3> QED BY <2>1, <3>1
  <2>3. CASE s < q
    <3>1. N * s + N <= N * q
      BY <1>2, <2>1, <2>3
    <3> QED BY <2>1, <3>1
  <2>4. CASE s = q
    BY <2>1, <2>4 DEF t
  <2> QED BY <2>1, <2>2, <2>3, <2>4
<1> QED BY <1>1, <1>3

\* Wrapping around earlier changes nothing.
LEMMA WrapsTwice ==
  ASSUME NEW N \in Nat \ {0}, NEW x \in Int, NEW y \in Int
  PROVE  ((x % N) + y) % N = (x + y) % N
<1>1. PICK q \in Int : x = N * q + (x % N) /\ (x % N) \in 0 .. N - 1
  BY Remainder
<1> DEFINE z == (x % N) + y
<1>2. z \in Int /\ x + y = N * q + z
  BY <1>1
<1> HIDE DEF z
<1>3. PICK s \in Int : z = N * s + (z % N) /\ (z % N) \in 0 .. N - 1
  BY <1>2, Remainder
<1>4. x + y = N * (q + s) + (z % N)
  <2> DEFINE t == z % N
             u == N * q
             v == N * s
  <2>1. N * (q + s) = u + v /\ u \in Int /\ v \in Int
    OBVIOUS
  <2>2. x + y = u + z /\ z = v + t /\ t \in Int /\ z \in Int
    BY <1>2, <1>3
  <2> HIDE DEF t, u, v
  <2>3. x + y = (u + v) + t
    BY <2>1, <2>2
  <2> QED BY <2>1, <2>3 DEF t
<1>5. (x + y) % N = (z % N)
  <2>1. x + y \in Int /\ q + s \in Int
    OBVIOUS
  <2>2. \A m \in Int, r \in 0 .. N - 1 : x + y = N * m + r => (x + y) % N = r
    BY <2>1, Remainder
  <2> HIDE DEF z
  <2> QED BY <1>3, <1>4, <2>1, <2>2
<1> QED BY <1>5 DEF z

\* A count of one or more goes down by one.
LEMMA CountsDown ==
  ASSUME NEW N \in Nat \ {0}, NEW x \in Int, (x % N) > 0
  PROVE  (x - 1) % N = (x % N) - 1
<1>1. PICK q \in Int : x = N * q + (x % N) /\ (x % N) \in 0 .. N - 1
  BY Remainder
<1> DEFINE r == (x % N)
<1>2. x - 1 = N * q + (r - 1) /\ r - 1 \in 0 .. N - 1 /\ x - 1 \in Int
  BY <1>1
<1>3. \A m \in Int, k \in 0 .. N - 1 : x - 1 = N * m + k => (x - 1) % N = k
  BY <1>2, Remainder
<1> HIDE DEF r
<1>4. (x - 1) % N = r - 1
  BY <1>2, <1>3
<1> QED BY <1>4 DEF r

\* A count below the largest goes up by one.
LEMMA CountsUp ==
  ASSUME NEW N \in Nat \ {0}, NEW x \in Int, (x % N) < N - 1
  PROVE  (x + 1) % N = (x % N) + 1
<1>1. PICK q \in Int : x = N * q + (x % N) /\ (x % N) \in 0 .. N - 1
  BY Remainder
<1> DEFINE r == (x % N)
<1>2. x + 1 = N * q + (r + 1) /\ r + 1 \in 0 .. N - 1 /\ x + 1 \in Int
  BY <1>1
<1>3. \A m \in Int, k \in 0 .. N - 1 : x + 1 = N * m + k => (x + 1) % N = k
  BY <1>2, Remainder
<1> HIDE DEF r
<1>4. (x + 1) % N = r + 1
  BY <1>2, <1>3
<1> QED BY <1>4 DEF r

\* A number below the largest is its own remainder.
LEMMA SmallRemainder ==
  ASSUME NEW N \in Nat \ {0}, NEW x \in 0 .. N - 1
  PROVE  (x % N) = x
<1>1. x = N * 0 + x /\ x \in Int /\ 0 \in Int
  OBVIOUS
<1>2. \A m \in Int, k \in 0 .. N - 1 : x = N * m + k => (x % N) = k
  BY <1>1, Remainder
<1> QED BY <1>1, <1>2

----------------------------------------------------------------------------
(* The books while messages are being closed *)

\* The pools ps are right when the messages D have been closed: their counts,
CountedBut(ps, D) ==
  \A p \in DOMAIN ps :
    (ps[p].msgs + at(astray.msgs, p)) % CounterRange = Cardinality(open_in(p) \ D)

\* and their sums.
SharedBut(ps, D) ==
  \A p \in DOMAIN ps :
    /\ ps[p].rshares =
         Total([id \in open_in(p) \ D |-> messages[id].netshares]) + at(astray.shares, p)
    /\ ps[p].rules.mainfunc[0] = 0 =>
         ps[p].rsharesfn =
           Total([id \in open_in(p) \ D |-> run(ps[p].rules.mainfunc, messages[id].netshares)])

funds_of(ps) == Total([p \in DOMAIN ps |-> ps[p].funds])

all_closed == {id \in DOMAIN messages : closed(messages[id])}

\* What is still to be paid, with the rewards r of the messages D
owed(r, D) ==
  Total([id \in all_closed \union D |->
           IF id \in D THEN r[id] ELSE messages[id].mssg_reward - messages[id].paid_amount])

\* What the loop has reached from the pools ps when it has closed D
ClosedSoFar(c, ps, D) ==
  /\ c = [ok |-> c.ok, rewards |-> c.rewards, pools |-> c.pools]
  /\ DOMAIN c.pools = DOMAIN ps
  /\ \A p \in DOMAIN ps : IsPool(c.pools[p]) /\ c.pools[p].rules = ps[p].rules
  /\ DOMAIN c.rewards = D /\ \A id \in D : c.rewards[id] \in Int
  /\ CountedBut(c.pools, D) /\ SharedBut(c.pools, D)
  /\ funds_of(c.pools) + owed(c.rewards, D) = funds_of(ps) + unpaid
  /\ \A id \in D :
       LET p == messages[id].pool_date IN
       p \in DOMAIN ps /\ (c.pools[p].msgs = 0 => c.pools[p].funds = 0)

\* A function of the rules has a number for every argument.
LEMMA RunInt ==
  ASSUME NEW rules, IsRules(rules), NEW x \in Int,
         NEW f \in {rules.mainfunc, rules.curationfunc, rules.timepenalty}
  PROVE  run(f, x) \in Int
<1>1. /\ maxarg(f) \in Nat /\ DOMAIN f = 0 .. maxarg(f)
      /\ \A y \in DOMAIN f : f[y] \in Int
  BY DEF IsRules
<1> DEFINE y == IF x < 0 THEN 0 ELSE IF x > maxarg(f) THEN maxarg(f) ELSE x
<1>2. y \in 0 .. maxarg(f)
  BY <1>1
<1> QED BY <1>1, <1>2 DEF run

\* Messages are finitely many, so what is open in a pool is too.
LEMMA MessagesFinite ==
  ASSUME IInv
  PROVE  /\ IsFiniteSet(DOMAIN messages)
         /\ Cardinality(DOMAIN messages) \in 0 .. last_id
         /\ \A p : open_in(p) \subseteq DOMAIN messages /\ IsFiniteSet(open_in(p))
         /\ \A p : Cardinality(open_in(p)) \in 0 .. last_id
         /\ all_closed \subseteq DOMAIN messages /\ IsFiniteSet(all_closed)
<1>1. DOMAIN messages \subseteq 1 .. last_id /\ last_id \in Nat
  BY DEF IInv, Keys
<1>2. IsFiniteSet(1 .. last_id) /\ Cardinality(1 .. last_id) = last_id
  BY <1>1, FS_Interval
<1>3. ASSUME NEW S, S \subseteq 1 .. last_id
      PROVE  IsFiniteSet(S) /\ Cardinality(S) \in 0 .. last_id
  <2>1. IsFiniteSet(S) /\ Cardinality(S) <= last_id
    BY <1>2, <1>3, FS_Subset
  <2> QED BY <1>1, <2>1, FS_CardinalityType
<1>4. \A p : open_in(p) \subseteq DOMAIN messages
  BY DEF open_in
<1>5. all_closed \subseteq DOMAIN messages
  BY DEF all_closed
<1> QED BY <1>1, <1>3, <1>4, <1>5

\* With one more message closed, its pool counts one less.
LEMMA CountsOneLess ==
  ASSUME IInv, Shapes, NEW ps, NEW qs, NEW D, NEW q \in DOMAIN ps, NEW id \in open_in(q) \ D,
         DOMAIN qs = DOMAIN ps, \A p \in DOMAIN ps \ {q} : qs[p].msgs = ps[p].msgs,
         ps[q].msgs \in Int, qs[q].msgs = ps[q].msgs - 1,
         CountedBut(ps, D)
  PROVE  CountedBut(qs, D \union {id})
<1> DEFINE S(p) == open_in(p) \ D
           a(p) == at(astray.msgs, p)
<1>0. CounterRange \in Nat \ {0}
  BY BoundsAssumption
<1>1. a(q) \in Int
  BY DEF at, Shapes
<1>2. IsFiniteSet(S(q)) /\ Cardinality(S(q)) \in Nat
  <2>1. S(q) \in SUBSET open_in(q) /\ IsFiniteSet(open_in(q))
    BY MessagesFinite
  <2> QED BY <2>1, FS_Subset, FS_CardinalityType
<1>3. \A p \in DOMAIN ps \ {q} : open_in(p) \ (D \union {id}) = S(p)
  BY DEF open_in
<1>4. open_in(q) \ (D \union {id}) = S(q) \ {id}
  OBVIOUS
<1>5. Cardinality(S(q) \ {id}) = Cardinality(S(q)) - 1 /\ Cardinality(S(q)) > 0
  <2>1. Cardinality(S(q) \ {id}) = Cardinality(S(q)) - 1
    BY <1>2, FS_RemoveElement
  <2>2. S(q) # {}
    OBVIOUS
  <2>3. Cardinality(S(q)) # 0
    BY <1>2, <2>2, FS_EmptySet
  <2> QED BY <1>2, <2>1, <2>3
<1>6. (ps[q].msgs + a(q)) % CounterRange = Cardinality(S(q))
  BY DEF CountedBut
<1> DEFINE x == ps[q].msgs + a(q)
<1>7. x \in Int /\ qs[q].msgs + a(q) = x - 1
  BY <1>1
<1>8. x % CounterRange > 0
  BY <1>5, <1>6
<1>9. (qs[q].msgs + a(q)) % CounterRange = Cardinality(S(q)) - 1
  <2> HIDE DEF x, a, S
  <2>1. (x - 1) % CounterRange = (x % CounterRange) - 1
    BY <1>0, <1>7, <1>8, CountsDown
  <2>2. x % CounterRange = Cardinality(S(q))
    BY <1>6 DEF x
  <2> QED BY <1>7, <2>1, <2>2
<1> HIDE DEF S, a, x
<1> SUFFICES ASSUME NEW p \in DOMAIN ps
             PROVE  (qs[p].msgs + a(p)) % CounterRange = Cardinality(open_in(p) \ (D \union {id}))
  BY DEF CountedBut, a
<1>10. CASE p = q
  BY <1>4, <1>5, <1>9, <1>10
<1>11. CASE p # q
  <2>1. (ps[p].msgs + a(p)) % CounterRange = Cardinality(S(p))
    BY DEF CountedBut, a, S
  <2> QED BY <1>3, <1>11, <2>1
<1> QED BY <1>10, <1>11

\* And its sums are what remains without that message.
LEMMA SharesOneLess ==
  ASSUME IInv, Shapes, NEW ps, NEW qs, NEW D, NEW q \in DOMAIN ps, NEW id \in open_in(q) \ D,
         DOMAIN qs = DOMAIN ps, \A p \in DOMAIN ps \ {q} : qs[p] = ps[p],
         IsPool(ps[q]), qs[q].rules = ps[q].rules,
         qs[q].rshares = ps[q].rshares - messages[id].netshares,
         qs[q].rsharesfn = ps[q].rsharesfn - run(ps[q].rules.mainfunc, messages[id].netshares),
         SharedBut(ps, D)
  PROVE  SharedBut(qs, D \union {id})
<1> DEFINE E == D \union {id}
           S == open_in(q) \ D
           f == ps[q].rules.mainfunc
           n == [o \in S |-> messages[o].netshares]
           n2 == [o \in open_in(q) \ E |-> messages[o].netshares]
           w == [o \in S |-> run(f, messages[o].netshares)]
           w2 == [o \in open_in(q) \ E |-> run(f, messages[o].netshares)]
           a(p) == at(astray.shares, p)
<1>1. a(q) \in Int
  BY DEF at, Shapes
<1>2. IsFiniteSet(S) /\ S \subseteq DOMAIN messages /\ id \in S
  <2>1. S \in SUBSET open_in(q) /\ IsFiniteSet(open_in(q)) /\ open_in(q) \subseteq DOMAIN messages
    BY MessagesFinite
  <2> QED BY <2>1, FS_Subset
<1>3. open_in(q) \ E = S \ {id}
  OBVIOUS
<1>4. \A o \in S : messages[o].netshares \in Int
  BY <1>2 DEF Shapes, MessageRow
<1>5. IsRules(ps[q].rules)
  BY DEF IsPool
<1>6. \A o \in S : run(f, messages[o].netshares) \in Int
  BY <1>4, <1>5, RunInt
<1>7. /\ DOMAIN n = S /\ DOMAIN n2 = S \ {id}
      /\ \A o \in S : n[o] = messages[o].netshares
      /\ \A o \in S \ {id} : n2[o] = n[o]
  BY <1>3
<1>8. /\ DOMAIN w = S /\ DOMAIN w2 = S \ {id}
      /\ \A o \in S : w[o] = run(f, messages[o].netshares)
      /\ \A o \in S \ {id} : w2[o] = w[o]
  BY <1>3
<1>9. /\ ps[q].rshares = Total(n) + a(q)
      /\ f[0] = 0 => ps[q].rsharesfn = Total(w)
  BY DEF SharedBut
<1> HIDE DEF n, n2, w, w2, S, a
<1>10. Total(n2) = Total(n) - messages[id].netshares /\ Total(n) \in Int
  <2>1. \A o \in DOMAIN n : n[o] \in Int
    BY <1>4, <1>7
  <2>2. Total(n2) = Total(n) - n[id]
    BY <1>2, <1>7, <2>1, TotalRemove
  <2>3. Total(n) \in Int
    BY <1>2, <1>7, <2>1, TotalInt
  <2> QED BY <1>2, <1>7, <2>2, <2>3
<1>11. Total(w2) = Total(w) - run(f, messages[id].netshares)
  <2>1. \A o \in DOMAIN w : w[o] \in Int
    BY <1>6, <1>8
  <2>2. Total(w2) = Total(w) - w[id]
    BY <1>2, <1>8, <2>1, TotalRemove
  <2> QED BY <1>2, <1>8, <2>2
<1>12. qs[q].rshares = Total(n2) + a(q)
  <2>1. messages[id].netshares \in Int
    BY <1>2, <1>4
  <2> QED BY <1>1, <1>9, <1>10, <2>1
<1>13. f[0] = 0 => qs[q].rsharesfn = Total(w2)
  BY <1>9, <1>11
<1>14. \A p \in DOMAIN ps \ {q} : open_in(p) \ E = open_in(p) \ D
  BY DEF open_in
<1> SUFFICES ASSUME NEW p \in DOMAIN ps
             PROVE  /\ qs[p].rshares =
                         Total([o \in open_in(p) \ E |-> messages[o].netshares]) + at(astray.shares, p)
                    /\ qs[p].rules.mainfunc[0] = 0 =>
                         qs[p].rsharesfn =
                           Total([o \in open_in(p) \ E |->
                                    run(qs[p].rules.mainfunc, messages[o].netshares)])
  BY DEF SharedBut
<1>15. CASE p = q
  BY <1>12, <1>13, <1>15 DEF n2, w2, a
<1>16. CASE p # q
  <2>1. /\ ps[p].rshares =
             Total([o \in open_in(p) \ D |-> messages[o].netshares]) + at(astray.shares, p)
        /\ ps[p].rules.mainfunc[0] = 0 =>
             ps[p].rsharesfn =
               Total([o \in open_in(p) \ D |-> run(ps[p].rules.mainfunc, messages[o].netshares)])
    BY DEF SharedBut
  <2>2. open_in(p) \ E = open_in(p) \ D /\ qs[p] = ps[p]
    BY <1>14, <1>16
  <2> HIDE DEF E
  <2> QED BY <2>1, <2>2
<1> QED BY <1>15, <1>16

\* What is to be paid grows by the reward of the message.
LEMMA OwedGrows ==
  ASSUME IInv, Shapes, NEW r, NEW D, D \subseteq due, DOMAIN r = D, \A o \in D : r[o] \in Int,
         NEW id \in due \ D, NEW payout \in Int
  PROVE  /\ owed(r, D) \in Int
         /\ owed(Put(r, id, payout), D \union {id}) = owed(r, D) + payout
<1> DEFINE s == Put(r, id, payout)
           E == D \union {id}
           f == [o \in all_closed \union D |->
                   IF o \in D THEN r[o] ELSE messages[o].mssg_reward - messages[o].paid_amount]
           g == [o \in all_closed \union E |->
                   IF o \in E THEN s[o] ELSE messages[o].mssg_reward - messages[o].paid_amount]
<1>1. /\ id \notin all_closed /\ id \notin D
      /\ due \subseteq DOMAIN messages /\ all_closed \subseteq DOMAIN messages
  BY DEF due, all_closed
<1>2. \A o \in DOMAIN messages : messages[o].mssg_reward - messages[o].paid_amount \in Int
  BY DEF Shapes, MessageRow
<1>3. s[id] = payout /\ \A o \in D : s[o] = r[o]
  BY <1>1 DEF Put
<1>4. IsFiniteSet(all_closed \union D)
  <2>1. all_closed \union D \in SUBSET DOMAIN messages
    BY <1>1
  <2> QED BY <2>1, MessagesFinite, FS_Subset
<1>5. \A o \in all_closed \union D : f[o] \in Int
  BY <1>1, <1>2
<1> HIDE DEF s
<1>6. /\ DOMAIN g = (all_closed \union D) \union {id} /\ g[id] = payout
      /\ \A o \in all_closed \union D : g[o] = f[o]
  BY <1>1, <1>3
<1>7. DOMAIN f = all_closed \union D
  OBVIOUS
<1> HIDE DEF f, g
<1>8. Total(f) \in Int
  BY <1>4, <1>5, <1>7, TotalInt
<1>9. Total(g) = Total(f) + payout
  <2>1. /\ IsFiniteSet(DOMAIN f) /\ id \notin DOMAIN f /\ DOMAIN g = DOMAIN f \union {id}
        /\ g[id] \in Int /\ \A o \in DOMAIN f : f[o] \in Int /\ g[o] = f[o]
    BY <1>1, <1>4, <1>5, <1>6, <1>7
  <2>2. Total(g) = Total(f) + g[id]
    BY <2>1, TotalInsert
  <2> QED BY <1>6, <2>2
<1>10. owed(r, D) = Total(f)
  BY DEF owed, f
<1>11. owed(s, E) = Total(g)
  BY DEF owed, g
<1> QED BY <1>8, <1>9, <1>10, <1>11 DEF s

\* Machine division by anything but zero gives a number.
LEMMA QuotientInt ==
  ASSUME NEW a \in Int, NEW b \in Int, b # 0
  PROVE  quotient(a, b) \in Int
<1>1. abs_value(a) \in Nat /\ abs_value(b) \in Nat \ {0}
  BY DEF abs_value
<1> DEFINE q == abs_value(a) \div abs_value(b)
<1>2. q \in Int
  BY <1>1
<1> QED BY <1>2 DEF quotient

\* So is a reward, as the pool has shares when the message has some.
LEMMA ShareInt ==
  ASSUME NEW p, IsPool(p), NEW m \in MessageRow, NEW sharesfn \in Int,
         sharesfn > 0 => p.rsharesfn > 0
  PROVE  share_of_pool(p, m, sharesfn) \in Int
<1>1. CASE sharesfn <= 0
  BY <1>1 DEF share_of_pool
<1>2. CASE ~(sharesfn <= 0)
  <2> DEFINE a == m.rewardweight * p.funds * sharesfn
             b == Whole * p.rsharesfn
  <2>1. m.rewardweight \in Int /\ p.funds \in Int /\ p.rsharesfn \in Int /\ m.max_payout \in Int
    BY AmountsAssumption DEF IsPool, MessageRow
  <2>2. a \in Int
    BY <2>1, ProductInt
  <2>3. Whole \in Int /\ Whole > 0
    BY AmountsAssumption
  <2>4. b \in Int /\ b > 0
    <3>1. p.rsharesfn > 0
      BY <1>2
    <3> QED BY <2>1, <2>3, <3>1
  <2>5. share_of_pool(p, m, sharesfn) = Least(quotient(a, b), m.max_payout)
    BY <1>2 DEF share_of_pool
  <2> HIDE DEF a, b
  <2>6. quotient(a, b) \in Int
    BY <2>2, <2>4, QuotientInt
  <2> QED BY <2>1, <2>5, <2>6 DEF Least
<1> QED BY <1>1, <1>2

\* The fields of a pool
LEMMA PoolFields ==
  ASSUME NEW p, IsPool(p)
  PROVE  /\ p.msgs \in 0 .. CounterRange - 1 /\ p.msgs \in Int
         /\ p.funds \in Int /\ p.rshares \in Int /\ p.rsharesfn \in Int
         /\ IsRules(p.rules)
BY DEF IsPool

\* What is left of a pool without one of its messages is a pool.
LEMMA PoolLess ==
  ASSUME NEW p, IsPool(p), p.msgs # 0, NEW payout \in Int, NEW n \in Int, NEW s \in Int
  PROVE  IsPool([rules |-> p.rules, msgs |-> p.msgs - 1, funds |-> p.funds - payout,
                 rshares |-> p.rshares - n, rsharesfn |-> p.rsharesfn - s])
<1>1. /\ IsRules(p.rules) /\ p.msgs \in 0 .. CounterRange - 1
      /\ p.funds \in Int /\ p.rshares \in Int /\ p.rsharesfn \in Int
  BY DEF IsPool
<1>2. CounterRange \in Nat
  BY BoundsAssumption
<1>3. p.msgs - 1 \in 0 .. CounterRange - 1
  BY <1>1, <1>2
<1>4. p.funds - payout \in Int /\ p.rshares - n \in Int /\ p.rsharesfn - s \in Int
  BY <1>1
<1> DEFINE r == p.rules
           k == p.msgs - 1
           f == p.funds - payout
           a == p.rshares - n
           b == p.rsharesfn - s
<1>5. IsRules(r) /\ k \in 0 .. CounterRange - 1 /\ f \in Int /\ a \in Int /\ b \in Int
  BY <1>1, <1>3, <1>4
<1> HIDE DEF r, k, f, a, b
<1>6. IsPool([rules |-> r, msgs |-> k, funds |-> f, rshares |-> a, rsharesfn |-> b])
  BY <1>5 DEF IsPool
<1> QED BY <1>6 DEF r, k, f, a, b

\* The row that closing a message writes
LEMMA PoolWritten ==
  ASSUME NEW p, IsPool(p), NEW x, NEW n, NEW s
  PROVE  [p EXCEPT !.msgs = @ - 1, !.funds = x, !.rshares = @ - n, !.rsharesfn = @ - s] =
           [rules |-> p.rules, msgs |-> p.msgs - 1, funds |-> x,
            rshares |-> p.rshares - n, rsharesfn |-> p.rsharesfn - s]
<1> DEFINE k == p.msgs - 1
           a == p.rshares - n
           b == p.rsharesfn - s
           q == [p EXCEPT !.msgs = @ - 1, !.funds = x, !.rshares = @ - n, !.rsharesfn = @ - s]
           p1 == [p EXCEPT !.msgs = k]
           p2 == [p1 EXCEPT !.funds = x]
           p3 == [p2 EXCEPT !.rshares = a]
           p4 == [p3 EXCEPT !.rsharesfn = b]
<1>1. q = p4
  OBVIOUS
<1>2. p = [rules |-> p.rules, msgs |-> p.msgs, funds |-> p.funds,
           rshares |-> p.rshares, rsharesfn |-> p.rsharesfn]
  BY DEF IsPool
<1> HIDE DEF k, a, b, q
<1>3. p1 = [rules |-> p.rules, msgs |-> k, funds |-> p.funds,
            rshares |-> p.rshares, rsharesfn |-> p.rsharesfn]
  BY <1>2
<1> HIDE DEF p1
<1>4. p2 = [rules |-> p.rules, msgs |-> k, funds |-> x,
            rshares |-> p.rshares, rsharesfn |-> p.rsharesfn]
  BY <1>3
<1> HIDE DEF p2
<1>5. p3 = [rules |-> p.rules, msgs |-> k, funds |-> x, rshares |-> a, rsharesfn |-> p.rsharesfn]
  BY <1>4
<1> HIDE DEF p3
<1>6. p4 = [rules |-> p.rules, msgs |-> k, funds |-> x, rshares |-> a, rsharesfn |-> b]
  BY <1>5
<1> QED BY <1>1, <1>6 DEF q, k, a, b

\* When a message leaves its pool with its reward, the books stay right.
LEMMA TakesOne ==
  ASSUME IInv, Shapes, NEW ps, NEW c, NEW D, D \subseteq due, IsFiniteSet(DOMAIN ps),
         ClosedSoFar(c, ps, D), NEW id \in due \ D,
         NEW q \in DOMAIN ps, q = messages[id].pool_date, c.pools[q].msgs # 0,
         NEW payout \in Int, c.pools[q].msgs = 1 => payout = c.pools[q].funds,
         NEW nps, DOMAIN nps = DOMAIN ps, \A x \in DOMAIN ps \ {q} : nps[x] = c.pools[x],
         IsPool(nps[q]), nps[q].rules = c.pools[q].rules,
         nps[q].msgs = c.pools[q].msgs - 1, nps[q].funds = c.pools[q].funds - payout,
         nps[q].rshares = c.pools[q].rshares - messages[id].netshares,
         nps[q].rsharesfn =
           c.pools[q].rsharesfn - run(c.pools[q].rules.mainfunc, messages[id].netshares),
         NEW ok
  PROVE  ClosedSoFar([ok |-> ok, rewards |-> Put(c.rewards, id, payout), pools |-> nps],
                     ps, D \union {id})
<1> DEFINE E == D \union {id}
<1>1. /\ DOMAIN c.pools = DOMAIN ps
      /\ \A x \in DOMAIN ps : IsPool(c.pools[x]) /\ c.pools[x].rules = ps[x].rules
      /\ DOMAIN c.rewards = D /\ \A o \in D : c.rewards[o] \in Int
      /\ CountedBut(c.pools, D) /\ SharedBut(c.pools, D)
      /\ funds_of(c.pools) + owed(c.rewards, D) = funds_of(ps) + unpaid
      /\ \A o \in D : /\ messages[o].pool_date \in DOMAIN ps
                      /\ c.pools[messages[o].pool_date].msgs = 0
                           => c.pools[messages[o].pool_date].funds = 0
  BY DEF ClosedSoFar
<1>2. /\ c.pools[q].msgs \in Int /\ c.pools[q].funds \in Int /\ IsPool(c.pools[q])
  <2>1. IsPool(c.pools[q])
    BY <1>1
  <2> QED BY <2>1, PoolFields
<1>3. q \in DOMAIN c.pools /\ DOMAIN nps = DOMAIN c.pools
  BY <1>1
<1>4. id \in open_in(q) \ D
  BY DEF due, open_in
<1>5. CountedBut(nps, E)
  <2>1. \A x \in DOMAIN c.pools \ {q} : nps[x].msgs = c.pools[x].msgs
    BY <1>1
  <2>2. CountedBut(c.pools, D)
    BY <1>1
  <2> QED BY <1>2, <1>3, <1>4, <2>1, <2>2, CountsOneLess
<1>6. SharedBut(nps, E)
  <2>1. \A x \in DOMAIN c.pools \ {q} : nps[x] = c.pools[x]
    BY <1>1
  <2> QED BY <1>1, <1>2, <1>3, <1>4, <2>1, SharesOneLess
<1>7. \A x \in DOMAIN ps : IsPool(nps[x]) /\ nps[x].rules = ps[x].rules
  BY <1>1
<1>8. funds_of(nps) = funds_of(c.pools) - payout /\ funds_of(c.pools) \in Int
  <2> DEFINE f == [x \in DOMAIN c.pools |-> c.pools[x].funds]
             g == [x \in DOMAIN nps |-> nps[x].funds]
  <2>1. \A x \in DOMAIN ps : c.pools[x].funds \in Int /\ nps[x].funds \in Int
    BY <1>1, <1>7, PoolFields
  <2>2. /\ DOMAIN f = DOMAIN ps /\ DOMAIN g = DOMAIN f
        /\ \A x \in DOMAIN f : f[x] \in Int /\ g[x] \in Int
        /\ \A x \in DOMAIN f \ {q} : g[x] = f[x]
        /\ f[q] = c.pools[q].funds /\ g[q] = nps[q].funds
    BY <1>1, <2>1
  <2> HIDE DEF f, g
  <2>3. IsFiniteSet(DOMAIN f) /\ q \in DOMAIN f
    BY <2>2
  <2>4. Total(g) = Total(f) + g[q] - f[q]
    BY <2>2, <2>3, TotalChange
  <2>5. Total(f) \in Int
    BY <2>2, <2>3, TotalInt
  <2>6. Total(g) = Total(f) - payout
    BY <1>2, <2>2, <2>4, <2>5
  <2> QED BY <2>5, <2>6 DEF funds_of, f, g
<1>9. /\ owed(c.rewards, D) \in Int
      /\ owed(Put(c.rewards, id, payout), E) = owed(c.rewards, D) + payout
  <2> DEFINE r == c.rewards
  <2>1. DOMAIN r = D /\ \A o \in D : r[o] \in Int
    BY <1>1
  <2> HIDE DEF r
  <2>2. owed(r, D) \in Int /\ owed(Put(r, id, payout), D \union {id}) = owed(r, D) + payout
    BY <2>1, OwedGrows
  <2> QED BY <2>2 DEF r
<1>10. funds_of(nps) + owed(Put(c.rewards, id, payout), E) = funds_of(ps) + unpaid
  <2>1. funds_of(c.pools) + owed(c.rewards, D) = funds_of(ps) + unpaid
    BY <1>1
  <2> QED BY <1>8, <1>9, <2>1
<1>11. nps[q].msgs = 0 => nps[q].funds = 0
  <2> DEFINE x == c.pools[q].msgs
             y == c.pools[q].funds
  <2>1. x \in Int /\ y \in Int /\ (x = 1 => payout = y) /\ nps[q].msgs = x - 1 /\ nps[q].funds = y - payout
    BY <1>2
  <2> HIDE DEF x, y
  <2> QED BY <2>1
<1>12. \A o \in E : /\ messages[o].pool_date \in DOMAIN ps
                    /\ nps[messages[o].pool_date].msgs = 0
                         => nps[messages[o].pool_date].funds = 0
  <2> TAKE o \in E
  <2>1. CASE messages[o].pool_date = q
    BY <1>11, <2>1
  <2>2. CASE messages[o].pool_date # q
    <3>1. o \in D
      BY <2>2
    <3>2. /\ messages[o].pool_date \in DOMAIN ps
          /\ c.pools[messages[o].pool_date].msgs = 0 => c.pools[messages[o].pool_date].funds = 0
      BY <1>1, <3>1
    <3>3. nps[messages[o].pool_date] = c.pools[messages[o].pool_date]
      BY <2>2, <3>2
    <3> QED BY <3>2, <3>3
  <2> QED BY <2>1, <2>2
<1>13. /\ DOMAIN Put(c.rewards, id, payout) = E
       /\ \A o \in E : Put(c.rewards, id, payout)[o] \in Int
  BY <1>1 DEF Put
<1> DEFINE w == Put(c.rewards, id, payout)
           r == [ok |-> ok, rewards |-> w, pools |-> nps]
<1>14. r.rewards = w /\ r.pools = nps /\ r = [ok |-> r.ok, rewards |-> r.rewards, pools |-> r.pools]
  OBVIOUS
<1>15. DOMAIN w = E /\ \A o \in E : w[o] \in Int
  BY <1>13
<1>16. funds_of(nps) + owed(w, E) = funds_of(ps) + unpaid
  BY <1>10
<1>17. ClosedSoFar(r, ps, E)
  <2> HIDE DEF E, w, r
  <2> QED BY <1>5, <1>6, <1>7, <1>12, <1>14, <1>15, <1>16 DEF ClosedSoFar
<1> QED BY <1>17

\* One pass of the loop keeps the books.
LEMMA ClosesOne ==
  ASSUME IInv, Shapes, NEW ps, NEW c, NEW D, D \subseteq due, IsFiniteSet(DOMAIN ps),
         ClosedSoFar(c, ps, D), NEW id \in due \ D, close_one(c, id).ok
  PROVE  c.ok /\ ClosedSoFar(close_one(c, id), ps, D \union {id})
<1> DEFINE m        == messages[id]
           q        == m.pool_date
           p        == c.pools[q]
           sharesfn == run(p.rules.mainfunc, m.netshares)
           only     == p.msgs = 1
           sound    == /\ q \in DOMAIN c.pools
                       /\ p.msgs # 0
                       /\ IF only THEN p.rshares = m.netshares /\ p.rsharesfn = sharesfn
                          ELSE /\ sharesfn > 0 => p.rsharesfn > 0
                               /\ p.rsharesfn - sharesfn >= 0
           payout   == IF only THEN p.funds ELSE share_of_pool(p, m, sharesfn)
           np       == [p EXCEPT !.msgs = @ - 1, !.funds = taken(p, payout),
                                 !.rshares = @ - m.netshares, !.rsharesfn = @ - sharesfn]
           nps      == [c.pools EXCEPT ![q] = np]
           fine     == only \/ sharesfn <= 0 \/ taken(p, payout) >= 0
           r        == close_one(c, id)
<1>1. /\ c = [ok |-> c.ok, rewards |-> c.rewards, pools |-> c.pools]
      /\ DOMAIN c.pools = DOMAIN ps
      /\ \A x \in DOMAIN ps : IsPool(c.pools[x])
  BY DEF ClosedSoFar
<1>2. r = IF ~c.ok \/ ~sound THEN [c EXCEPT !.ok = FALSE]
          ELSE [ok |-> fine, rewards |-> Put(c.rewards, id, payout), pools |-> nps]
  BY DEF close_one
<1>3. c.ok /\ sound
  <2> HIDE DEF sound, nps, payout, fine
  <2>1. [c EXCEPT !.ok = FALSE].ok = FALSE
    BY <1>1
  <2> QED BY <1>2, <2>1
<1>4. r = [ok |-> r.ok, rewards |-> Put(c.rewards, id, payout), pools |-> nps]
  <2> HIDE DEF sound, nps, payout, fine
  <2> QED BY <1>2, <1>3
<1>5. q \in DOMAIN ps /\ p.msgs # 0 /\ m \in MessageRow
  BY <1>1, <1>3 DEF due, Shapes
<1>6. IsPool(p)
  BY <1>1, <1>5
<1>7. sharesfn \in Int
  <2>1. m.netshares \in Int /\ IsRules(p.rules)
    BY <1>5, <1>6 DEF MessageRow, IsPool
  <2> QED BY <2>1, RunInt
<1>8. ~only /\ sharesfn > 0 => p.rsharesfn > 0
  BY <1>3
<1> HIDE DEF sound, fine, r
<1>9. payout \in Int
  <2> HIDE DEF sharesfn, p, m
  <2>1. CASE only
    BY <1>6, <2>1 DEF IsPool
  <2>2. CASE ~only
    BY <1>5, <1>6, <1>7, <1>8, <2>2, ShareInt
  <2> QED BY <2>1, <2>2
<1>11. np = [rules |-> p.rules, msgs |-> p.msgs - 1, funds |-> p.funds - payout,
             rshares |-> p.rshares - m.netshares, rsharesfn |-> p.rsharesfn - sharesfn]
  <2>1. taken(p, payout) = p.funds - payout
    BY DEF taken
  <2>2. np = [p EXCEPT !.msgs = @ - 1, !.funds = taken(p, payout),
                       !.rshares = @ - m.netshares, !.rsharesfn = @ - sharesfn]
    OBVIOUS
  <2> HIDE DEF p, m, payout, sharesfn, np
  <2>3. np = [rules |-> p.rules, msgs |-> p.msgs - 1, funds |-> taken(p, payout),
              rshares |-> p.rshares - m.netshares, rsharesfn |-> p.rsharesfn - sharesfn]
    BY <1>6, <2>2, PoolWritten
  <2> QED BY <2>1, <2>3
<1>12. p.msgs = 1 => payout = p.funds
  OBVIOUS
<1> HIDE DEF payout, np
<1>13. /\ DOMAIN nps = DOMAIN ps /\ nps[q] = np
       /\ \A x \in DOMAIN ps \ {q} : nps[x] = c.pools[x]
  <2> HIDE DEF q
  <2> QED BY <1>1, <1>5
<1>14. IsPool(np)
  <2>1. m.netshares \in Int
    BY <1>5 DEF MessageRow
  <2> HIDE DEF p, m, sharesfn
  <2> QED BY <1>5, <1>6, <1>7, <1>9, <1>11, <2>1, PoolLess
<1>15. /\ np.rules = p.rules /\ np.msgs = p.msgs - 1 /\ np.funds = p.funds - payout
       /\ np.rshares = p.rshares - messages[id].netshares
       /\ np.rsharesfn = p.rsharesfn - run(p.rules.mainfunc, messages[id].netshares)
  <2> HIDE DEF p
  <2> QED BY <1>11 DEF sharesfn, m
<1>16. ClosedSoFar(r, ps, D \union {id})
  <2>1. /\ nps[q] = np /\ c.pools[q] = p /\ q = messages[id].pool_date
    BY <1>13
  <2> HIDE DEF nps, p, sharesfn, q, m
  <2> QED BY <1>4, <1>5, <1>9, <1>12, <1>13, <1>14, <1>15, <2>1, TakesOne
<1> QED BY <1>3, <1>16 DEF r

----------------------------------------------------------------------------
(* The loop *)

start(ps) == [ok |-> TRUE, rewards |-> EmptyTable, pools |-> ps]

\* g is what the loop has reached after each pass, up to the n-th.
IsLoop(g, n, ps) ==
  g = [i \in 0 .. n |-> IF i = 0 THEN start(ps) ELSE close_one(g[i - 1], nth_due(i))]

\* There is such a function: the recursion of close_all is well defined.
LEMMA LoopExists ==
  ASSUME NEW n \in Nat, NEW ps
  PROVE  \E g : IsLoop(g, n, ps)
<1> DEFINE S == {k \in 0 .. n : ~\E g : IsLoop(g, k, ps)}
<1> SUFFICES ASSUME ~\E g : IsLoop(g, n, ps) PROVE FALSE
  OBVIOUS
<1>1. S # {} /\ S \subseteq Nat
  <2>1. n \in S
    OBVIOUS
  <2> QED BY <2>1
<1>2. PICK k \in S : \A j \in S : k <= j
  <2> HIDE DEF S
  <2> QED BY <1>1, SmallestNumber
<1>3. CASE k = 0
  <2> DEFINE g == [i \in 0 .. 0 |-> start(ps)]
  <2>1. g = [i \in 0 .. 0 |-> IF i = 0 THEN start(ps) ELSE close_one(g[i - 1], nth_due(i))]
    OBVIOUS
  <2>2. IsLoop(g, 0, ps)
    BY <2>1 DEF IsLoop
  <2> QED BY <1>3, <2>2
<1>4. CASE k # 0
  <2>1. k - 1 \in 0 .. n /\ ~(k <= k - 1)
    BY <1>1, <1>4
  <2>2. k - 1 \notin S
    BY <1>2, <2>1
  <2>3. PICK g : IsLoop(g, k - 1, ps)
    BY <2>1, <2>2
  <2> DEFINE h == [i \in 0 .. k |-> IF i = 0 THEN start(ps) ELSE close_one(g[i - 1], nth_due(i))]
  <2>4. \A i \in 0 .. k - 1 :
          g[i] = IF i = 0 THEN start(ps) ELSE close_one(g[i - 1], nth_due(i))
    BY <2>3 DEF IsLoop
  <2>5. \A i \in 0 .. k - 1 : h[i] = g[i]
    <3>1. \A i \in 0 .. k - 1 : i \in 0 .. k
      BY <1>1
    <3> QED BY <2>4, <3>1
  <2>6. \A i \in 0 .. k : i # 0 => i - 1 \in 0 .. k - 1
    BY <1>1
  <2>7. h = [i \in 0 .. k |-> IF i = 0 THEN start(ps) ELSE close_one(h[i - 1], nth_due(i))]
    <3>1. \A i \in 0 .. k : i # 0 => h[i - 1] = g[i - 1]
      BY <2>5, <2>6
    <3> QED BY <3>1
  <2>8. IsLoop(h, k, ps)
    BY <2>7 DEF IsLoop
  <2> QED BY <2>8
<1> QED BY <1>3, <1>4

\* A pass that ends well began well.
LEMMA OkBefore ==
  ASSUME NEW c, NEW id, "ok" \in DOMAIN c
  PROVE  "ok" \in DOMAIN close_one(c, id) /\ (close_one(c, id).ok => c.ok)
<1> DEFINE m        == messages[id]
           p        == c.pools[m.pool_date]
           sharesfn == run(p.rules.mainfunc, m.netshares)
           only     == p.msgs = 1
           sound    == /\ m.pool_date \in DOMAIN c.pools
                       /\ p.msgs # 0
                       /\ IF only THEN p.rshares = m.netshares /\ p.rsharesfn = sharesfn
                          ELSE /\ sharesfn > 0 => p.rsharesfn > 0
                               /\ p.rsharesfn - sharesfn >= 0
           payout   == IF only THEN p.funds ELSE share_of_pool(p, m, sharesfn)
           fine     == only \/ sharesfn <= 0 \/ taken(p, payout) >= 0
           rest     == [c.pools EXCEPT ![m.pool_date] =
                          [p EXCEPT !.msgs = @ - 1, !.funds = taken(p, payout),
                                    !.rshares = @ - m.netshares, !.rsharesfn = @ - sharesfn]]
<1>1. close_one(c, id) =
        IF ~c.ok \/ ~sound THEN [c EXCEPT !.ok = FALSE]
        ELSE [ok |-> fine, rewards |-> Put(c.rewards, id, payout), pools |-> rest]
  BY DEF close_one
<1> HIDE DEF sound, payout, fine, rest
<1>2. "ok" \in DOMAIN [c EXCEPT !.ok = FALSE] /\ [c EXCEPT !.ok = FALSE].ok = FALSE
  OBVIOUS
<1>3. CASE ~c.ok \/ ~sound
  BY <1>1, <1>2, <1>3
<1>4. CASE ~(~c.ok \/ ~sound)
  BY <1>1, <1>4
<1> QED BY <1>3, <1>4

\* The pools ps agree with the messages as they are.
PoolsRight(ps) ==
  /\ DOMAIN ps \subseteq 0 .. now
  /\ \A p \in DOMAIN ps : IsPool(ps[p])
  /\ CountedBut(ps, {}) /\ SharedBut(ps, {})

\* Before the first pass nothing has been closed, so the books are as they were.
LEMMA StartsRight ==
  ASSUME IInv, Shapes, NEW ps, PoolsRight(ps)
  PROVE  ClosedSoFar(start(ps), ps, {})
<1> DEFINE c == start(ps)
<1>1. /\ c.ok = TRUE /\ c.rewards = EmptyTable /\ c.pools = ps
      /\ c = [ok |-> c.ok, rewards |-> c.rewards, pools |-> c.pools]
  BY DEF start
<1>2. DOMAIN EmptyTable = {}
  BY DEF EmptyTable
<1>3. owed(EmptyTable, {}) = unpaid
  <2>1. all_closed \union {} = {i \in DOMAIN messages : closed(messages[i])}
    BY DEF all_closed
  <2> QED BY <2>1 DEF owed, unpaid
<1>4. /\ \A p \in DOMAIN ps : IsPool(ps[p])
      /\ CountedBut(ps, {}) /\ SharedBut(ps, {})
  BY DEF PoolsRight
<1> HIDE DEF c
<1> QED BY <1>1, <1>2, <1>3, <1>4 DEF ClosedSoFar, c

\* When no check of the loop failed, the books are right after it.
LEMMA LoopKeepsBooks ==
  ASSUME IInv, Shapes, NEW ps, PoolsRight(ps), close_all(ps).ok
  PROVE  ClosedSoFar(close_all(ps), ps, closing)
<1> DEFINE n == Cardinality(closing)
           done(i) == {nth_due(j) : j \in 1 .. i}
<1>1. /\ n \in Nat /\ \A i \in 1 .. n : nth_due(i) \in closing
      /\ \A i, j \in 1 .. n : nth_due(i) = nth_due(j) => i = j
      /\ closing = done(n)
  BY ClosingInOrder
<1>2. closing \subseteq due
  BY DEF closing
<1>3. IsFiniteSet(DOMAIN ps)
  <2>1. DOMAIN ps \subseteq 0 .. now /\ now \in Int /\ 0 \in Int
    BY DEF PoolsRight, IInv, Keys
  <2>2. IsFiniteSet(0 .. now)
    BY <2>1, FS_Interval
  <2> QED BY <2>1, <2>2, FS_Subset
<1> HIDE DEF n
<1> DEFINE g == CHOOSE f : IsLoop(f, n, ps)
<1>4. close_all(ps) = g[n]
  BY DEF close_all, IsLoop, start, n
<1>5. IsLoop(g, n, ps)
  BY <1>1, LoopExists
<1> HIDE DEF g
<1>6. /\ g[0] = start(ps)
      /\ \A i \in 1 .. n : g[i] = close_one(g[i - 1], nth_due(i))
  <2>1. \A i \in 0 .. n : g[i] = IF i = 0 THEN start(ps) ELSE close_one(g[i - 1], nth_due(i))
    BY <1>5 DEF IsLoop
  <2>2. 0 \in 0 .. n /\ \A i \in 1 .. n : i \in 0 .. n /\ i # 0
    BY <1>1
  <2> QED BY <2>1, <2>2
<1> DEFINE Fine(i) == "ok" \in DOMAIN g[i] /\ (g[i].ok => ClosedSoFar(g[i], ps, done(i)))
           S == {i \in 0 .. n : ~Fine(i)}
<1>7. S = {}
  <2> SUFFICES ASSUME S # {} PROVE FALSE
    OBVIOUS
  <2>1. S \subseteq Nat
    OBVIOUS
  <2>2. PICK k \in S : \A j \in S : k <= j
    <3> HIDE DEF S
    <3> QED BY <2>1, SmallestNumber
  <2>3. k # 0
    <3>1. done(0) = {}
      BY SMT
    <3>2. "ok" \in DOMAIN start(ps)
      BY DEF start
    <3>3. Fine(0)
      <4> HIDE DEF done
      <4> QED BY <1>6, <3>1, <3>2, StartsRight
    <3> QED BY <2>2, <3>3
  <2>4. k \in 1 .. n /\ k - 1 \in 0 .. n /\ ~(k <= k - 1)
    BY <1>1, <2>3
  <2>5. Fine(k - 1)
    BY <2>2, <2>4
  <2> DEFINE c == g[k - 1]
             id == nth_due(k)
             D == done(k - 1)
  <2>6. g[k] = close_one(c, id)
    BY <1>6, <2>4
  <2>7. id \in due \ D /\ D \subseteq due /\ done(k) = D \union {id}
    <3>1. \A j \in 1 .. k - 1 : j \in 1 .. n /\ j # k
      BY <1>1, <2>4
    <3>2. id \in closing
      BY <1>1, <2>4
    <3>3. id \notin D /\ D \subseteq closing
      BY <1>1, <2>4, <3>1
    <3>4. \A j : j \in 1 .. k <=> j \in 1 .. k - 1 \/ j = k
      BY <1>1, <2>4
    <3>5. done(k) = D \union {id}
      BY <3>4
    <3> QED BY <1>2, <3>2, <3>3, <3>5
  <2>8. Fine(k)
    <3>1. "ok" \in DOMAIN c /\ (c.ok => ClosedSoFar(c, ps, D))
      BY <2>5
    <3> HIDE DEF c, id, D, done
    <3>2. "ok" \in DOMAIN g[k] /\ (g[k].ok => c.ok)
      BY <2>6, <3>1, OkBefore
    <3>3. ASSUME g[k].ok PROVE ClosedSoFar(g[k], ps, done(k))
      <4>1. ClosedSoFar(c, ps, D) /\ close_one(c, id).ok
        BY <2>6, <3>1, <3>2, <3>3
      <4>2. ClosedSoFar(close_one(c, id), ps, D \union {id})
        BY <1>3, <2>7, <4>1, ClosesOne
      <4> QED BY <2>6, <2>7, <4>2
    <3> QED BY <3>2, <3>3
  <2> QED BY <2>2, <2>8
<1>8. Fine(n)
  <2>1. n \in 0 .. n
    BY <1>1
  <2> QED BY <1>7, <2>1
<1> QED BY <1>1, <1>4, <1>8

----------------------------------------------------------------------------
(* The books of any pools and messages *)

OpenIn(ms, p) == {id \in DOMAIN ms : ~closed(ms[id]) /\ ms[id].pool_date = p}

ClosedOf(ms) == {id \in DOMAIN ms : closed(ms[id])}

\* A message by itself
MessageRight(m) ==
  /\ m \in MessageRow
  /\ ~closed(m) \/ m.mssg_reward = 0 => m.paid_amount = 0
  /\ Total(m.beneficiaries) <= Whole

Counted(ps, ms, a) ==
  \A p \in DOMAIN ps : (ps[p].msgs + at(a.msgs, p)) % CounterRange = Cardinality(OpenIn(ms, p))

Summed(ps, ms, a) ==
  \A p \in DOMAIN ps :
    /\ ps[p].rshares = Total([id \in OpenIn(ms, p) |-> ms[id].netshares]) + at(a.shares, p)
    /\ ps[p].rules.mainfunc[0] = 0 =>
         ps[p].rsharesfn =
           Total([id \in OpenIn(ms, p) |-> run(ps[p].rules.mainfunc, ms[id].netshares)])

Promised(ms) == Total([id \in ClosedOf(ms) |-> ms[id].mssg_reward - ms[id].paid_amount])

Young(ps, ms, a, t) ==
  /\ \A id \in DOMAIN ms :
       /\ ms[id].pool_date <= t
       /\ ms[id].pool_date = t => ms[id].cashout_time > t
  /\ DOMAIN a.msgs \subseteq 0 .. t /\ at(a.msgs, t) = 0
  /\ t \in DOMAIN ps \/ OpenIn(ms, t) = {}

\* Pools ps and messages ms agree at time t, where a is astray and b is what
\* there is to cover them.
Books(ps, ms, a, b, t) ==
  /\ DOMAIN ps \subseteq 0 .. t /\ \A p \in DOMAIN ps : IsPool(ps[p])
  /\ \A id \in DOMAIN ms : MessageRight(ms[id])
  /\ Young(ps, ms, a, t)
  /\ Counted(ps, ms, a) /\ Summed(ps, ms, a)
  /\ funds_of(ps) + Promised(ms) <= b

\* The types of what else the sums depend on
Sides ==
  /\ now \in 0 .. MaxTime /\ balance \in Int
  /\ \A k \in DOMAIN votes : votes[k] \in VoteRow
  /\ \A k \in DOMAIN charges : charges[k].value \in Int
  /\ \A id \in DOMAIN restorers : IsRestorer(restorers[id])
  /\ \A act \in DOMAIN limits : limits[act].price \in Int /\ limits[act].cutoff \in Int
  /\ \A r \in DOMAIN referrals :
       referrals[r].referrer \in Account /\ referrals[r].percent \in Nat
  /\ \A p \in DOMAIN astray.msgs : astray.msgs[p] \in Int
  /\ \A p \in DOMAIN astray.shares : astray.shares[p] \in Int
  /\ astray.funds \in Int

\* That the books are right says the same as BooksInv.
LEMMA BooksSame ==
  BooksInv <=> IInv /\ Sides /\ Books(pools, messages, astray, balance + astray.funds, now)
<1>1. /\ \A p : OpenIn(messages, p) = open_in(p)
      /\ ClosedOf(messages) = {i \in DOMAIN messages : closed(messages[i])}
  BY DEF OpenIn, open_in, ClosedOf
<1>2. Promised(messages) = unpaid
  BY <1>1 DEF Promised, unpaid
<1>3. Counted(pools, messages, astray) <=> CountsExact
  BY <1>1 DEF Counted, CountsExact
<1>4. Summed(pools, messages, astray) <=> SharesExact
  BY <1>1 DEF Summed, SharesExact, netshares_in, sharesfn_in, grounded
<1>5. Young(pools, messages, astray, now) <=> YoungPool
  BY <1>1 DEF Young, YoungPool
<1>6. funds_of(pools) + Promised(messages) <= balance + astray.funds <=> FundsCovered
  BY <1>2 DEF funds_of, FundsCovered
<1>7. (\A id \in DOMAIN messages : MessageRight(messages[id])) <=>
        /\ \A id \in DOMAIN messages : messages[id] \in MessageRow
        /\ NothingPaid /\ BeneficiariesSound
  BY DEF MessageRight, NothingPaid, BeneficiariesSound
<1>8. Shapes <=> /\ Sides /\ DOMAIN pools \subseteq 0 .. now
                 /\ \A p \in DOMAIN pools : IsPool(pools[p])
                 /\ \A id \in DOMAIN messages : messages[id] \in MessageRow
  BY DEF Shapes, Sides
<1> QED BY <1>3, <1>4, <1>5, <1>6, <1>7, <1>8 DEF BooksInv, Books

\* The same after a step
LEMMA BooksNext ==
  ASSUME IInv', Sides', Books(pools', messages', astray', balance' + astray'.funds, now')
  PROVE  BooksInv'
<1>1. /\ \A p : OpenIn(messages', p) = open_in(p)'
      /\ ClosedOf(messages') = {i \in DOMAIN messages : closed(messages[i])}'
  BY DEF OpenIn, open_in, ClosedOf, closed
<1>2. Promised(messages') = unpaid'
  BY <1>1 DEF Promised, unpaid, closed
<1>3. Counted(pools', messages', astray') <=> CountsExact'
  BY <1>1 DEF Counted, CountsExact, at
<1>4. Summed(pools', messages', astray') <=> SharesExact'
  BY <1>1 DEF Summed, SharesExact, netshares_in, sharesfn_in, grounded, at, run, maxarg
<1>5. Young(pools', messages', astray', now') <=> YoungPool'
  BY <1>1 DEF Young, YoungPool, at
<1>6. funds_of(pools') + Promised(messages') <= balance' + astray'.funds <=> FundsCovered'
  BY <1>2 DEF funds_of, FundsCovered
<1>7. (\A id \in DOMAIN messages' : MessageRight(messages'[id])) <=>
        /\ \A id \in DOMAIN messages' : messages'[id] \in MessageRow
        /\ NothingPaid' /\ BeneficiariesSound'
  BY DEF MessageRight, NothingPaid, BeneficiariesSound, closed
<1>8. Shapes' <=> /\ Sides' /\ DOMAIN pools' \subseteq 0 .. now'
                  /\ \A p \in DOMAIN pools' : IsPool(pools'[p])
                  /\ \A id \in DOMAIN messages' : messages'[id] \in MessageRow
  BY DEF Shapes, Sides
<1> QED BY <1>3, <1>4, <1>5, <1>6, <1>7, <1>8 DEF BooksInv, Books

----------------------------------------------------------------------------
(* What closing leaves *)

\* Row n is row m once it has been closed with reward r.
ClosedRow(n, m, r) == n = [m EXCEPT !.cashout_time = Never, !.mssg_reward = r]

\* The row of a message that has been closed
LEMMA MessageClosed ==
  ASSUME NEW m \in MessageRow, NEW r \in Int, NEW n, ClosedRow(n, m, r)
  PROVE  /\ n \in MessageRow /\ closed(n) /\ n.mssg_reward = r
         /\ n.pool_date = m.pool_date /\ n.paid_amount = m.paid_amount
         /\ n.beneficiaries = m.beneficiaries
<1> DEFINE k == [m EXCEPT !.cashout_time = Never]
<1>1. n = [k EXCEPT !.mssg_reward = r]
  BY DEF ClosedRow
<1>2. /\ k \in MessageRow /\ k.cashout_time = Never /\ k.pool_date = m.pool_date
      /\ k.paid_amount = m.paid_amount /\ k.beneficiaries = m.beneficiaries
  BY DEF MessageRow, Never
<1> HIDE DEF k
<1>3. /\ n \in MessageRow /\ n.cashout_time = k.cashout_time /\ n.pool_date = k.pool_date
      /\ n.paid_amount = k.paid_amount /\ n.beneficiaries = k.beneficiaries
      /\ n.mssg_reward = r
  BY <1>1, <1>2 DEF MessageRow
<1> QED BY <1>2, <1>3 DEF closed

\* Messages ms with the rewards r of those that were closed
ClosedWith(ms, r) ==
  /\ DOMAIN ms = DOMAIN messages
  /\ \A id \in DOMAIN messages \ closing : ms[id] = messages[id]
  /\ \A id \in closing :
       /\ ms[id] \in MessageRow /\ closed(ms[id]) /\ ms[id].mssg_reward = r[id]
       /\ ms[id].pool_date = messages[id].pool_date
       /\ ms[id].paid_amount = messages[id].paid_amount
       /\ ms[id].beneficiaries = messages[id].beneficiaries

\* closemssgs writes what the loop came to into the messages it closes.
LEMMA ClosingWrites ==
  ASSUME IInv, Shapes, NEW ps, NEW sent, DOMAIN close_all(ps).rewards = closing,
         \A id \in closing : close_all(ps).rewards[id] \in Int
  PROVE  ClosedWith(closemssgs(ps, sent).messages, close_all(ps).rewards)
<1> DEFINE r == close_all(ps).rewards
           ms == [id \in DOMAIN messages |->
                    IF id \in closing
                    THEN [messages[id] EXCEPT !.cashout_time = Never,
                                              !.mssg_reward = at(r, id)]
                    ELSE messages[id]]
<1>1. closemssgs(ps, sent).messages = ms
  BY DEF closemssgs
<1>2. DOMAIN r = closing /\ \A id \in closing : r[id] \in Int
  OBVIOUS
<1>3. closing \subseteq DOMAIN messages
  BY DEF closing, due
<1> HIDE DEF r
<1>4. /\ DOMAIN ms = DOMAIN messages
      /\ \A id \in DOMAIN messages \ closing : ms[id] = messages[id]
  OBVIOUS
<1>5. ASSUME NEW id \in closing
      PROVE  /\ ms[id] \in MessageRow /\ closed(ms[id]) /\ ms[id].mssg_reward = r[id]
             /\ ms[id].pool_date = messages[id].pool_date
             /\ ms[id].paid_amount = messages[id].paid_amount
             /\ ms[id].beneficiaries = messages[id].beneficiaries
  <2> DEFINE m == messages[id]
             n == ms[id]
             y == r[id]
  <2>1. m \in MessageRow /\ y \in Int
    BY <1>2, <1>3 DEF Shapes
  <2>2. at(r, id) = y
    <3>1. id \in DOMAIN r
      BY <1>2
    <3> QED BY <1>2, <3>1 DEF at
  <2>3. ClosedRow(n, m, y)
    <3>1. n = [m EXCEPT !.cashout_time = Never, !.mssg_reward = at(r, id)]
      BY <1>3
    <3> HIDE DEF m, n, ms, y
    <3> QED BY <2>2, <3>1 DEF ClosedRow
  <2> HIDE DEF m, n, ms, y
  <2>4. /\ n \in MessageRow /\ closed(n) /\ n.mssg_reward = y
        /\ n.pool_date = m.pool_date /\ n.paid_amount = m.paid_amount
        /\ n.beneficiaries = m.beneficiaries
    BY ONLY <2>1, <2>3, MessageClosed
  <2> QED BY <2>4 DEF m, n, y
<1> HIDE DEF ms
<1> QED BY <1>1, <1>4, <1>5 DEF ClosedWith, r

\* There is a last pool where there are any.
LEMMA LastPool ==
  ASSUME NEW ps, NEW t \in Nat, DOMAIN ps \subseteq 0 .. t, DOMAIN ps # {}
  PROVE  last_pool(ps) \in DOMAIN ps /\ \A q \in DOMAIN ps : q <= last_pool(ps)
<1>1. \E p \in DOMAIN ps : \A q \in DOMAIN ps : q <= p
  BY LargestNumber
<1> QED BY <1>1 DEF last_pool

\* Pools that go when they are empty take no tokens with them.
LEMMA EmptyPoolsGo ==
  ASSUME IInv, NEW qs, DOMAIN qs \subseteq 0 .. now,
         \A p \in DOMAIN qs : IsPool(qs[p]),
         \A id \in closing : qs[messages[id].pool_date].msgs = 0
                               => qs[messages[id].pool_date].funds = 0
  PROVE  /\ DOMAIN without_empty(qs) \subseteq DOMAIN qs
         /\ \A p \in DOMAIN without_empty(qs) : without_empty(qs)[p] = qs[p]
         /\ \A p \in DOMAIN qs \ {messages[id].pool_date : id \in closing} :
              p \in DOMAIN without_empty(qs)
         /\ DOMAIN qs # {} => DOMAIN without_empty(qs) # {}
         /\ funds_of(without_empty(qs)) = funds_of(qs) /\ funds_of(qs) \in Int
<1> DEFINE ws == without_empty(qs)
<1>1. /\ DOMAIN ws \subseteq DOMAIN qs
      /\ \A p \in DOMAIN ws : ws[p] = qs[p]
      /\ \A p \in DOMAIN qs \ {messages[id].pool_date : id \in closing} : p \in DOMAIN ws
      /\ \A p \in DOMAIN qs \ DOMAIN ws :
           qs[p].msgs = 0 /\ \E id \in closing : p = messages[id].pool_date
      /\ \A p \in DOMAIN qs : p = last_pool(qs) => p \in DOMAIN ws
  BY DEF without_empty
<1>2. now \in Nat /\ IsFiniteSet(DOMAIN qs)
  <2>1. now \in Nat
    BY DEF IInv, Keys
  <2>2. now \in Int /\ 0 \in Int
    BY <2>1
  <2>3. IsFiniteSet(0 .. now)
    BY <2>2, FS_Interval
  <2> QED BY <2>1, <2>3, FS_Subset
<1> HIDE DEF ws
<1>3. DOMAIN qs # {} => DOMAIN ws # {}
  BY <1>1, <1>2, LastPool
<1> DEFINE f == [p \in DOMAIN qs |-> qs[p].funds]
           g == [p \in DOMAIN ws |-> ws[p].funds]
<1>4. \A p \in DOMAIN qs : qs[p].funds \in Int
  BY PoolFields
<1>5. /\ DOMAIN f = DOMAIN qs /\ \A p \in DOMAIN f : f[p] \in Int
      /\ DOMAIN g \subseteq DOMAIN f /\ \A p \in DOMAIN g : g[p] = f[p]
      /\ \A p \in DOMAIN f \ DOMAIN g : f[p] = 0
  BY <1>1, <1>4
<1> HIDE DEF f, g
<1>6. Total(g) = Total(f) /\ Total(f) \in Int
  BY <1>2, <1>5, TotalWithoutZeros, TotalInt
<1> QED BY <1>1, <1>3, <1>6 DEF ws, f, g, funds_of

\* When none of its checks fails, closing leaves the books right.
LEMMA ClosingKeeps ==
  ASSUME BooksInv, NEW ps, NEW b \in Int, Books(ps, messages, astray, b, now),
         NEW sent, closemssgs(ps, sent).ok
  PROVE  /\ Books(closemssgs(ps, sent).pools, closemssgs(ps, sent).messages, astray, b, now)
         /\ DOMAIN closemssgs(ps, sent).messages = DOMAIN messages
         /\ \A id \in DOMAIN messages :
              ~closed(closemssgs(ps, sent).messages[id])
                => closemssgs(ps, sent).messages[id] = messages[id]
         /\ DOMAIN ps # {} => DOMAIN closemssgs(ps, sent).pools # {}
<1> DEFINE c == close_all(ps)
           qs == c.pools
           r == c.rewards
           ms == closemssgs(ps, sent).messages
           ws == closemssgs(ps, sent).pools
<1>1. IInv /\ Shapes /\ YoungPool /\ NothingPaid /\ BeneficiariesSound
  BY DEF BooksInv
<1>2. c.ok /\ ws = without_empty(qs)
  BY DEF closemssgs
<1>3. \A p : OpenIn(messages, p) = open_in(p) \ {}
  BY DEF OpenIn, open_in
<1>4. PoolsRight(ps)
  BY <1>3 DEF PoolsRight, Books, Counted, Summed, CountedBut, SharedBut
<1>5. ClosedSoFar(c, ps, closing)
  <2> HIDE DEF c
  <2> QED BY <1>1, <1>2, <1>4, LoopKeepsBooks DEF c
<1> HIDE DEF c
<1>6. /\ DOMAIN qs = DOMAIN ps
      /\ \A p \in DOMAIN ps : IsPool(qs[p]) /\ qs[p].rules = ps[p].rules
      /\ DOMAIN r = closing /\ \A id \in closing : r[id] \in Int
      /\ CountedBut(qs, closing) /\ SharedBut(qs, closing)
      /\ funds_of(qs) + owed(r, closing) = funds_of(ps) + unpaid
      /\ \A id \in closing :
           qs[messages[id].pool_date].msgs = 0 => qs[messages[id].pool_date].funds = 0
  BY <1>5 DEF ClosedSoFar
<1>7. ClosedWith(ms, r)
  <2>1. DOMAIN c.rewards = closing /\ \A id \in closing : c.rewards[id] \in Int
    BY <1>6
  <2> HIDE DEF ms
  <2> QED BY <1>1, <2>1, ClosingWrites DEF c, ms
<1>8. /\ DOMAIN ws \subseteq DOMAIN qs
      /\ \A p \in DOMAIN ws : ws[p] = qs[p]
      /\ \A p \in DOMAIN qs \ {messages[id].pool_date : id \in closing} : p \in DOMAIN ws
      /\ DOMAIN qs # {} => DOMAIN ws # {}
      /\ funds_of(ws) = funds_of(qs) /\ funds_of(qs) \in Int
  <2> HIDE DEF qs, ws
  <2>1. DOMAIN qs \subseteq 0 .. now /\ \A p \in DOMAIN qs : IsPool(qs[p])
    BY <1>4, <1>6 DEF PoolsRight
  <2> QED BY <1>1, <1>2, <1>6, <2>1, EmptyPoolsGo
<1> HIDE DEF qs, r, ms, ws
<1>9. /\ closing \subseteq due /\ due \subseteq DOMAIN messages
      /\ \A id \in due : ~closed(messages[id]) /\ messages[id].cashout_time <= now
  BY DEF closing, due
<1>10. /\ DOMAIN ms = DOMAIN messages
       /\ \A id \in DOMAIN messages \ closing : ms[id] = messages[id]
       /\ \A id \in closing : closed(ms[id])
       /\ \A id \in DOMAIN messages : ms[id].pool_date = messages[id].pool_date
  BY <1>7, <1>9 DEF ClosedWith
<1>11. /\ \A p : OpenIn(ms, p) = open_in(p) \ closing
       /\ ClosedOf(ms) = all_closed \union closing
  BY <1>9, <1>10 DEF OpenIn, open_in, ClosedOf, all_closed
<1>12. \A id \in DOMAIN ms : MessageRight(ms[id])
  <2>1. \A id \in DOMAIN messages : MessageRight(messages[id])
    BY DEF Books
  <2>2. ASSUME NEW id \in closing PROVE MessageRight(ms[id])
    <3>1. /\ ms[id] \in MessageRow /\ ms[id].paid_amount = messages[id].paid_amount
          /\ ms[id].beneficiaries = messages[id].beneficiaries
      BY <1>7 DEF ClosedWith
    <3>2. MessageRight(messages[id]) /\ ~closed(messages[id])
      BY <1>9, <2>1
    <3> QED BY <3>1, <3>2 DEF MessageRight
  <2> QED BY <1>9, <1>10, <2>1, <2>2
<1>13. Young(ws, ms, astray, now)
  <2>1. /\ \A id \in DOMAIN messages :
             /\ messages[id].pool_date <= now
             /\ messages[id].pool_date = now => messages[id].cashout_time > now
        /\ DOMAIN astray.msgs \subseteq 0 .. now /\ at(astray.msgs, now) = 0
        /\ now \in DOMAIN ps \/ OpenIn(messages, now) = {}
    BY DEF Books, Young
  <2>2. now \in Int /\ \A id \in DOMAIN messages : messages[id].cashout_time \in Int
    BY <1>1 DEF IInv, Keys, Shapes, MessageRow
  <2>3. \A id \in closing : messages[id].pool_date # now
    BY <1>9, <2>1, <2>2
  <2>4. \A id \in DOMAIN ms : /\ ms[id].pool_date <= now
                              /\ ms[id].pool_date = now => ms[id].cashout_time > now
    BY <1>9, <1>10, <2>1, <2>3
  <2>5. now \in DOMAIN ws \/ OpenIn(ms, now) = {}
    BY <1>3, <1>6, <1>8, <1>11, <2>1, <2>3
  <2> QED BY <2>1, <2>4, <2>5 DEF Young
<1>14. Counted(ws, ms, astray)
  <2>1. \A p \in DOMAIN qs :
          (qs[p].msgs + at(astray.msgs, p)) % CounterRange = Cardinality(open_in(p) \ closing)
    BY <1>6 DEF CountedBut
  <2> QED BY <1>8, <1>11, <2>1 DEF Counted
<1>15. Summed(ws, ms, astray)
  <2> SUFFICES ASSUME NEW p \in DOMAIN ws
               PROVE  /\ ws[p].rshares = Total([id \in OpenIn(ms, p) |-> ms[id].netshares])
                                           + at(astray.shares, p)
                      /\ ws[p].rules.mainfunc[0] = 0 =>
                           ws[p].rsharesfn = Total([id \in OpenIn(ms, p) |->
                                               run(ws[p].rules.mainfunc, ms[id].netshares)])
    BY DEF Summed
  <2>1. /\ qs[p].rshares = Total([id \in open_in(p) \ closing |-> messages[id].netshares])
                             + at(astray.shares, p)
        /\ qs[p].rules.mainfunc[0] = 0 =>
             qs[p].rsharesfn = Total([id \in open_in(p) \ closing |->
                                 run(qs[p].rules.mainfunc, messages[id].netshares)])
    BY <1>6, <1>8 DEF SharedBut
  <2>2. ws[p] = qs[p] /\ OpenIn(ms, p) = open_in(p) \ closing
    BY <1>8, <1>11
  <2>3. \A id \in open_in(p) \ closing : ms[id] = messages[id]
    BY <1>10 DEF open_in
  <2>4. /\ [id \in OpenIn(ms, p) |-> ms[id].netshares] =
             [id \in open_in(p) \ closing |-> messages[id].netshares]
        /\ [id \in OpenIn(ms, p) |-> run(ws[p].rules.mainfunc, ms[id].netshares)] =
             [id \in open_in(p) \ closing |-> run(qs[p].rules.mainfunc, messages[id].netshares)]
    BY <2>2, <2>3
  <2> QED BY <2>1, <2>2, <2>4
<1>16. Promised(ms) = owed(r, closing)
  <2> DEFINE f == [id \in ClosedOf(ms) |-> ms[id].mssg_reward - ms[id].paid_amount]
             g == [id \in all_closed \union closing |->
                     IF id \in closing THEN r[id]
                     ELSE messages[id].mssg_reward - messages[id].paid_amount]
  <2>1. ASSUME NEW id \in closing PROVE ms[id].mssg_reward - ms[id].paid_amount = r[id]
    <3>1. ms[id].mssg_reward = r[id] /\ ms[id].paid_amount = messages[id].paid_amount
      BY <1>7 DEF ClosedWith
    <3>2. messages[id].paid_amount = 0
      BY <1>1, <1>9 DEF NothingPaid
    <3>3. r[id] \in Int
      BY <1>6
    <3> QED BY <3>1, <3>2, <3>3
  <2>2. \A id \in all_closed : id \in DOMAIN messages
    BY DEF all_closed
  <2>3. f = g
    BY <1>10, <1>11, <2>1, <2>2
  <2> HIDE DEF f, g
  <2>4. Total(f) = Total(g)
    BY <2>3
  <2> QED BY <2>4 DEF Promised, owed, f, g
<1>17. funds_of(ws) + Promised(ms) <= b
  <2>1. funds_of(ps) + Promised(messages) <= b
    BY DEF Books
  <2>2. Promised(messages) = unpaid
    BY DEF Promised, unpaid, ClosedOf
  <2>3. funds_of(ws) + Promised(ms) = funds_of(ps) + unpaid
    BY <1>6, <1>8, <1>16
  <2> QED BY <2>1, <2>2, <2>3
<1>18. DOMAIN ws \subseteq 0 .. now /\ \A p \in DOMAIN ws : IsPool(ws[p])
  BY <1>4, <1>6, <1>8 DEF PoolsRight
<1>19. Books(ws, ms, astray, b, now)
  BY <1>12, <1>13, <1>14, <1>15, <1>17, <1>18 DEF Books
<1>20. \A id \in DOMAIN messages : ~closed(ms[id]) => ms[id] = messages[id]
  BY <1>10
<1>21. DOMAIN ps # {} => DOMAIN ws # {}
  BY <1>6, <1>8
<1> QED BY <1>10, <1>19, <1>20, <1>21 DEF ms, ws

----------------------------------------------------------------------------
(* Tokens come and go *)

\* Finite books have sums, which are integers.
LEMMA BooksNumbers ==
  ASSUME NEW ps, NEW ms, NEW a, NEW b, NEW t \in Nat, Books(ps, ms, a, b, t),
         IsFiniteSet(DOMAIN ms)
  PROVE  /\ IsFiniteSet(DOMAIN ps) /\ funds_of(ps) \in Int /\ Promised(ms) \in Int
         /\ \A p \in DOMAIN ps : ps[p].funds \in Int
<1>1. IsFiniteSet(DOMAIN ps)
  <2>1. DOMAIN ps \subseteq 0 .. t /\ t \in Int /\ 0 \in Int
    BY DEF Books
  <2>2. IsFiniteSet(0 .. t)
    BY <2>1, FS_Interval
  <2> QED BY <2>1, <2>2, FS_Subset
<1>2. \A p \in DOMAIN ps : ps[p].funds \in Int
  BY PoolFields DEF Books
<1>3. funds_of(ps) \in Int
  <2> DEFINE f == [p \in DOMAIN ps |-> ps[p].funds]
  <2>1. DOMAIN f = DOMAIN ps /\ \A p \in DOMAIN f : f[p] \in Int
    BY <1>2
  <2> HIDE DEF f
  <2>2. Total(f) \in Int
    BY <1>1, <2>1, TotalInt
  <2> QED BY <2>2 DEF funds_of, f
<1>4. Promised(ms) \in Int
  <2> DEFINE f == [id \in ClosedOf(ms) |-> ms[id].mssg_reward - ms[id].paid_amount]
  <2>1. \A id \in DOMAIN ms : ms[id].mssg_reward \in Int /\ ms[id].paid_amount \in Int
    BY DEF Books, MessageRight, MessageRow
  <2>2. ClosedOf(ms) \in SUBSET DOMAIN ms
    BY DEF ClosedOf
  <2>3. DOMAIN f = ClosedOf(ms) /\ \A id \in DOMAIN f : f[id] \in Int
    BY <2>1, <2>2
  <2>4. IsFiniteSet(ClosedOf(ms))
    BY <2>2, FS_Subset
  <2> HIDE DEF f
  <2>5. Total(f) \in Int
    BY <2>3, <2>4, TotalInt
  <2> QED BY <2>5 DEF Promised, f
<1> QED BY <1>1, <1>2, <1>3, <1>4

\* Pools may go, and change their funds, when the balance covers what is left
\* and none made this second goes.
LEMMA FundsMove ==
  ASSUME NEW ps, NEW ms, NEW a, NEW b, NEW t, Books(ps, ms, a, b, t),
         NEW qs, DOMAIN qs \subseteq DOMAIN ps, t \in DOMAIN ps => t \in DOMAIN qs,
         \A p \in DOMAIN qs :
           /\ IsPool(qs[p]) /\ qs[p].rules = ps[p].rules /\ qs[p].msgs = ps[p].msgs
           /\ qs[p].rshares = ps[p].rshares /\ qs[p].rsharesfn = ps[p].rsharesfn,
         NEW d, funds_of(qs) + Promised(ms) <= d
  PROVE  Books(qs, ms, a, d, t)
<1>1. Counted(qs, ms, a)
  BY DEF Books, Counted
<1>2. Summed(qs, ms, a)
  BY DEF Books, Summed
<1>3. Young(qs, ms, a, t)
  BY DEF Books, Young
<1>4. DOMAIN qs \subseteq 0 .. t /\ \A id \in DOMAIN ms : MessageRight(ms[id])
  BY DEF Books
<1> QED BY <1>1, <1>2, <1>3, <1>4 DEF Books

\* A pool with other funds
LEMMA PoolFunded ==
  ASSUME NEW p, IsPool(p), NEW x \in Int, NEW n, n = [p EXCEPT !.funds = x]
  PROVE  /\ IsPool(n) /\ n.rules = p.rules /\ n.msgs = p.msgs /\ n.funds = x
         /\ n.rshares = p.rshares /\ n.rsharesfn = p.rsharesfn
<1>1. p = [rules |-> p.rules, msgs |-> p.msgs, funds |-> p.funds,
           rshares |-> p.rshares, rsharesfn |-> p.rsharesfn]
  BY DEF IsPool
<1>2. n = [rules |-> p.rules, msgs |-> p.msgs, funds |-> x,
           rshares |-> p.rshares, rsharesfn |-> p.rsharesfn]
  BY <1>1
<1>3. /\ p.msgs \in 0 .. CounterRange - 1 /\ p.rshares \in Int /\ p.rsharesfn \in Int
      /\ IsRules(p.rules)
  BY PoolFields
<1> QED BY <1>2, <1>3 DEF IsPool

\* What fills the pool with the least ratio is at most what comes in.
LEMMA FillKeeps ==
  ASSUME NEW ps, NEW ms, NEW a, NEW b \in Int, NEW t \in Nat, Books(ps, ms, a, b, t),
         IsFiniteSet(DOMAIN ms), NEW quantity \in Nat
  PROVE  /\ Books(fill_depleted_pool(ps, quantity), ms, a, b + quantity, t)
         /\ DOMAIN fill_depleted_pool(ps, quantity) = DOMAIN ps
<1> DEFINE least  == {p \in DOMAIN ps : \A q \in DOMAIN ps : ratio_le(ps[p], ps[q])}
           choice == CHOOSE p \in least : \A q \in least : q <= p
           qs == fill_depleted_pool(ps, quantity)
<1>1. qs = ps \/ qs = [ps EXCEPT ![choice].funds = @ + quantity]
  BY DEF fill_depleted_pool
<1> HIDE DEF choice, qs
<1>2. DOMAIN qs = DOMAIN ps /\ \A p \in DOMAIN ps \ {choice} : qs[p] = ps[p]
  BY <1>1
<1>3. /\ IsFiniteSet(DOMAIN ps) /\ funds_of(ps) \in Int /\ Promised(ms) \in Int
      /\ \A p \in DOMAIN ps : ps[p].funds \in Int
  BY BooksNumbers
<1>4. funds_of(ps) + Promised(ms) <= b /\ \A p \in DOMAIN ps : IsPool(ps[p])
  BY DEF Books
<1>5. CASE \A p \in DOMAIN ps : qs[p] = ps[p]
  <2>1. funds_of(qs) = funds_of(ps)
    <3>1. [p \in DOMAIN qs |-> qs[p].funds] = [p \in DOMAIN ps |-> ps[p].funds]
      BY <1>2, <1>5
    <3> QED BY <3>1 DEF funds_of
  <2>2. funds_of(qs) + Promised(ms) <= b + quantity
    BY <1>3, <1>4, <2>1
  <2> QED BY <1>2, <1>4, <1>5, <2>2, FundsMove DEF qs
<1>6. CASE choice \in DOMAIN ps /\ qs[choice] # ps[choice]
  <2> DEFINE x == ps[choice].funds + quantity
  <2>1. qs[choice] = [ps[choice] EXCEPT !.funds = x]
    BY <1>1, <1>6
  <2>2. x \in Int /\ IsPool(ps[choice])
    BY <1>3, <1>4, <1>6
  <2>3. /\ IsPool(qs[choice]) /\ qs[choice].rules = ps[choice].rules
        /\ qs[choice].msgs = ps[choice].msgs /\ qs[choice].funds = x
        /\ qs[choice].rshares = ps[choice].rshares /\ qs[choice].rsharesfn = ps[choice].rsharesfn
    <3> HIDE DEF x
    <3> QED BY <2>1, <2>2, PoolFunded
  <2>4. funds_of(qs) = funds_of(ps) + quantity
    <3> DEFINE f == [p \in DOMAIN ps |-> ps[p].funds]
               g == [p \in DOMAIN qs |-> qs[p].funds]
    <3>1. /\ DOMAIN f = DOMAIN ps /\ DOMAIN g = DOMAIN f
          /\ \A p \in DOMAIN f : f[p] \in Int /\ g[p] \in Int
          /\ \A p \in DOMAIN f \ {choice} : g[p] = f[p]
          /\ f[choice] = ps[choice].funds /\ g[choice] = x
      BY <1>2, <1>3, <1>6, <2>2, <2>3
    <3> HIDE DEF f, g
    <3>2. Total(g) = Total(f) + g[choice] - f[choice] /\ Total(f) \in Int
      BY <1>3, <1>6, <3>1, TotalChange, TotalInt
    <3>3. Total(g) = Total(f) + quantity
      BY <1>3, <1>6, <3>1, <3>2
    <3> QED BY <3>3 DEF f, g, funds_of
  <2>5. funds_of(qs) + Promised(ms) <= b + quantity
    BY <1>3, <1>4, <2>4
  <2>6. \A p \in DOMAIN qs :
          /\ IsPool(qs[p]) /\ qs[p].rules = ps[p].rules /\ qs[p].msgs = ps[p].msgs
          /\ qs[p].rshares = ps[p].rshares /\ qs[p].rsharesfn = ps[p].rsharesfn
    BY <1>2, <1>4, <2>3
  <2> QED BY <1>2, <2>5, <2>6, FundsMove DEF qs
<1> QED BY <1>2, <1>5, <1>6

\* The messages are finitely many.
LEMMA FewMessages ==
  ASSUME BooksInv
  PROVE  /\ now \in Nat /\ IsFiniteSet(DOMAIN messages) /\ balance + astray.funds \in Int
         /\ balance \in Int /\ astray.funds \in Int
         /\ Sides /\ IInv /\ Books(pools, messages, astray, balance + astray.funds, now)
<1>1. IInv /\ Sides /\ Books(pools, messages, astray, balance + astray.funds, now)
  BY BooksSame
<1>2. IsFiniteSet(DOMAIN messages) /\ now \in Nat
  BY <1>1, MessagesFinite DEF IInv, Keys
<1>3. balance \in Int /\ astray.funds \in Int
  BY <1>1 DEF Sides
<1> QED BY <1>1, <1>2, <1>3

\* closemssgs by itself
LEMMA CloseBooks ==
  ASSUME BooksInv, IInv', NEW sent, close(sent)
  PROVE  BooksInv'
<1> DEFINE c == closemssgs(pools, sent)
<1>1. /\ c.ok /\ pools' = c.pools /\ messages' = c.messages
      /\ UNCHANGED <<now, limits, votes, balance, charges, restorers, referrals, astray>>
  BY DEF close, settings, contracts, history
<1>2. Books(c.pools, c.messages, astray, balance + astray.funds, now)
  BY <1>1, FewMessages, ClosingKeeps
<1>3. Sides'
  BY <1>1, FewMessages DEF Sides
<1>4. Books(pools', messages', astray', balance' + astray'.funds, now')
  <2> HIDE DEF c
  <2> QED BY <1>1, <1>2
<1> QED BY <1>3, <1>4, BooksNext

\* Tokens come in: emission's and anyone's.
LEMMA TransferBooks ==
  ASSUME BooksInv, IInv', NEW quantity \in Fund, on_transfer(quantity)
  PROVE  BooksInv'
<1> DEFINE ps == fill_depleted_pool(pools, quantity)
           c == closemssgs(ps, deferred)
           b == balance + astray.funds + quantity
<1>1. /\ c.ok /\ pools' = c.pools /\ messages' = c.messages
      /\ balance' = balance + quantity
      /\ UNCHANGED <<now, limits, votes, charges, restorers, referrals, astray>>
  BY DEF on_transfer, settings, contracts, history
<1>2. quantity \in Nat
  BY AmountsAssumption
<1>3. Books(ps, messages, astray, b, now) /\ b \in Int
  <2>1. balance + astray.funds \in Int /\ now \in Nat /\ IsFiniteSet(DOMAIN messages)
    BY FewMessages
  <2>2. Books(pools, messages, astray, balance + astray.funds, now)
    BY FewMessages
  <2> HIDE DEF ps
  <2>3. Books(ps, messages, astray, b, now)
    BY <1>2, <2>1, <2>2, FillKeeps DEF ps
  <2> QED BY <1>2, <2>1, <2>3
<1> HIDE DEF ps, b
<1>4. Books(c.pools, c.messages, astray, b, now)
  BY <1>1, <1>3, ClosingKeeps
<1>5. Sides'
  BY <1>1, <1>2, FewMessages DEF Sides
<1>6. balance' + astray'.funds = b
  BY <1>1, <1>2, FewMessages DEF b
<1>7. Books(pools', messages', astray', balance' + astray'.funds, now')
  <2> HIDE DEF c
  <2> QED BY <1>1, <1>4, <1>6
<1> QED BY <1>5, <1>7, BooksNext

----------------------------------------------------------------------------
(* Steps that leave pools and messages alone *)

\* Charges, limits, votes and referrals may change, with rows of their type.
LEMMA QuietBooks ==
  ASSUME BooksInv, IInv', Sides', UNCHANGED <<now, pools, messages, balance>>,
         astray'.msgs = astray.msgs, astray'.shares = astray.shares,
         astray'.funds = astray.funds
  PROVE  BooksInv'
<1>1. Books(pools, messages, astray, balance + astray.funds, now)
  BY FewMessages
<1>2. Books(pools, messages, astray', balance + astray.funds, now)
  BY <1>1 DEF Books, Young, Counted, Summed
<1>3. Books(pools', messages', astray', balance' + astray'.funds, now')
  BY <1>2
<1> QED BY <1>3, BooksNext

\* Permlinks are no part of the books.
LEMMA PermlinkBooks ==
  ASSUME BooksInv, IInv',
         \/ \E author \in Account, link \in Link, parent \in DOMAIN permlinks \union {Root},
               import \in Imports : addpermlink(author, link, parent, import)
         \/ \E id \in DOMAIN permlinks : delpermlink(id)
  PROVE  BooksInv'
<1>1. \E S : astray' = [astray EXCEPT !.tree = S]
  BY DEF addpermlink, delpermlink
<1>2. astray = [msgs |-> astray.msgs, shares |-> astray.shares,
                funds |-> astray.funds, dealt |-> astray.dealt, tree |-> astray.tree]
  BY FewMessages DEF IInv, Rows
<1>3. /\ astray'.msgs = astray.msgs /\ astray'.shares = astray.shares
      /\ astray'.funds = astray.funds
  BY <1>1, <1>2
<1>4. UNCHANGED <<now, pools, messages, balance, votes, charges, restorers, limits, referrals>>
  BY DEF addpermlink, delpermlink, settings, contracts
<1>5. Sides'
  BY <1>3, <1>4, FewMessages DEF Sides
<1> QED BY <1>3, <1>4, <1>5, QuietBooks

\* Nor are the parameters; a limit has a price and a cutoff.
LEMMA ParamsBooks ==
  ASSUME BooksInv, IInv',
         \/ \E batch \in ParamBatches : setparams(batch)
         \/ \E act \in DOMAIN LimitRows : \E row \in LimitRows[act] : setlimit(act, row)
  PROVE  BooksInv'
<1>1. UNCHANGED <<now, pools, messages, balance, votes, charges, restorers, referrals, astray>>
  BY DEF setparams, setlimit, contracts, history
<1>2. \A act \in DOMAIN limits' : limits'[act].price \in Int /\ limits'[act].cutoff \in Int
  <2>1. \A act \in DOMAIN limits : limits[act].price \in Int /\ limits[act].cutoff \in Int
    BY FewMessages DEF Sides
  <2>2. CASE limits' = limits
    BY <2>1, <2>2
  <2>3. CASE \E act \in DOMAIN LimitRows : \E row \in LimitRows[act] :
               limits' = Put(limits, act, row)
    <3>0. PICK act \in DOMAIN LimitRows : \E row \in LimitRows[act] : limits' = Put(limits, act, row)
      BY <2>3
    <3>1. PICK row \in LimitRows[act] : limits' = Put(limits, act, row)
      BY <3>0
    <3>2. row.price \in Int /\ row.cutoff \in Int
      BY AmountsAssumption
    <3> QED BY <2>1, <3>1, <3>2 DEF Put
  <2> QED BY <2>2, <2>3 DEF setparams, setlimit
<1>3. Sides'
  BY <1>1, <1>2, FewMessages DEF Sides
<1> QED BY <1>1, <1>3, QuietBooks

\* Votes are erased when their message is gone.
LEMMA EraseBooks ==
  ASSUME BooksInv, IInv', NEW id, NEW sent, deletevotes(id, sent)
  PROVE  BooksInv'
<1>1. UNCHANGED <<now, pools, messages, balance, limits, charges, restorers, referrals, astray>>
  BY DEF deletevotes, settings, contracts, history
<1>2. \E S : votes' = [k \in DOMAIN votes \ S |-> votes[k]]
  BY DEF deletevotes
<1>3. Sides'
  BY <1>1, <1>2, FewMessages DEF Sides
<1> QED BY <1>1, <1>3, QuietBooks

\* A deferred transaction that is lost changes no books.
LEMMA LoseBooks ==
  ASSUME BooksInv, IInv', NEW id, lose_deferred(id)
  PROVE  BooksInv'
<1>1. UNCHANGED <<now, pools, messages, balance, votes, limits, charges, restorers,
                  referrals, astray>>
  BY DEF lose_deferred, settings, contracts
<1>2. Sides'
  BY <1>1, FewMessages DEF Sides
<1> QED BY <1>1, <1>2, QuietBooks

\* Charges that are integers stay integers.
ChargesInt(table) == \A k \in DOMAIN table : table[k].value \in Int

\* A restorer is never applied outside the arguments it is defined for.
LEMMA ClampedIn ==
  ASSUME NEW f, IsLookup(f), NEW x
  PROVE  \E y \in DOMAIN f : Chg!clamped(f, x) = f[y]
<1>1. \E m \in DOMAIN f : \A y \in DOMAIN f : y <= m
  BY DEF IsLookup
<1> DEFINE y == IF x \in DOMAIN f THEN x ELSE CHOOSE m \in DOMAIN f : \A z \in DOMAIN f : z <= m
<1>2. y \in DOMAIN f
  BY <1>1
<1>3. Chg!clamped(f, x) = f[y]
  BY DEF Chg!clamped
<1> QED BY <1>2, <1>3

\* The charge after a use is an integer.
LEMMA NewValueInt ==
  ASSUME Sides, NEW table, ChargesInt(table), NEW user, NEW id, NEW price \in Int,
         Chg!can_calc(table, user, id)
  PROVE  Chg!new_value(table, user, id, price) \in Int
<1>1. CASE <<user, id>> \notin DOMAIN table
  BY <1>1 DEF Chg!new_value
<1>2. CASE <<user, id>> \in DOMAIN table
  <2> DEFINE row == table[<<user, id>>]
             back == Chg!restored(row, id)
  <2>1. row.value \in Int
    BY <1>2 DEF ChargesInt
  <2>2. back \in Int
    <3>1. CASE now = row.last_update
      BY <3>1 DEF Chg!restored
    <3>2. CASE now # row.last_update
      <4>1. id \in DOMAIN restorers
        BY <1>2, <3>2 DEF Chg!can_calc, Chg!exist
      <4>2. IsRestorer(restorers[id])
        BY <4>1 DEF Sides
      <4>3. PICK x \in DOMAIN restorers[id] :
              Chg!clamped(restorers[id], row.value) = restorers[id][x]
        BY <4>2, ClampedIn DEF IsRestorer
      <4> DEFINE g == restorers[id][x]
      <4>4. IsLookup(g) /\ \A y \in DOMAIN g : g[y] \in Int
        BY <4>2 DEF IsRestorer
      <4>5. \E y \in DOMAIN g : Chg!clamped(g, now - row.last_update) = g[y]
        BY <4>4, ClampedIn
      <4>6. back = Chg!clamped(g, now - row.last_update)
        BY <3>2, <4>3 DEF Chg!restored
      <4> QED BY <4>4, <4>5, <4>6
    <3> QED BY <3>1, <3>2
  <2>3. Chg!new_value(table, user, id, price) =
          IF row.value - back + price > 0 THEN row.value - back + price ELSE 0
    BY <1>2 DEF Chg!new_value, Chg!calc_value
  <2> HIDE DEF row, back
  <2> QED BY <2>1, <2>2, <2>3
<1> QED BY <1>1, <1>2

\* Using a charge leaves charges that are integers.
LEMMA ConsumeInt ==
  ASSUME Sides, NEW table, ChargesInt(table), NEW user, NEW id, NEW price \in Int,
         Chg!can_calc(table, user, id)
  PROVE  ChargesInt(Chg!consume_charge(table, user, id, price))
<1> DEFINE value == Chg!new_value(table, user, id, price)
<1>1. value \in Int
  BY NewValueInt
<1>2. \/ Chg!consume_charge(table, user, id, price) =
           Put(table, <<user, id>>, [value |-> value, last_update |-> now])
      \/ Chg!consume_charge(table, user, id, price) = Drop(table, <<user, id>>)
  BY DEF Chg!consume_charge, Chg!Put, Chg!Drop, Put, Drop
<1> HIDE DEF value
<1> QED BY <1>1, <1>2 DEF ChargesInt, Put, Drop

\* The other contracts keep rows of their type.
LEMMA OtherBooks ==
  ASSUME BooksInv, IInv', Others
  PROVE  BooksInv'
<1>1. /\ UNCHANGED <<now, pools, messages, balance, votes, limits, astray>>
      /\ \/ UNCHANGED <<charges, restorers, referrals>>
         \/ Ref!Next /\ UNCHANGED <<charges, restorers>>
         \/ Chg!Next /\ UNCHANGED referrals
  BY DEF Others, posting, history
<1>2. /\ \A k \in DOMAIN charges : charges[k].value \in Int
      /\ \A id \in DOMAIN restorers : IsRestorer(restorers[id])
      /\ \A r \in DOMAIN referrals :
           referrals[r].referrer \in Account /\ referrals[r].percent \in Nat
  BY FewMessages DEF Sides
<1>3. CASE UNCHANGED <<charges, restorers, referrals>>
  <2>1. Sides'
    BY <1>1, <1>3, FewMessages DEF Sides
  <2> QED BY <1>1, <2>1, QuietBooks
<1>4. CASE Ref!Next /\ UNCHANGED <<charges, restorers>>
  <2>1. \A r \in DOMAIN referrals' :
          \/ r \in DOMAIN referrals /\ referrals'[r] = referrals[r]
          \/ referrals'[r].referrer \in Account /\ referrals'[r].percent \in Percent
    <3>1. CASE \E S : referrals' = Ref!without(S)
      BY <3>1 DEF Ref!without
    <3>2. CASE UNCHANGED referrals
      BY <3>2
    <3>3. CASE \E referral \in Account, referrer \in Account, p \in Percent, e \in Expire,
                  q \in Breakout : Ref!add_referral(referrer, referral, p, e, q)
      <4>1. PICK referral \in Account, referrer \in Account, p \in Percent, e \in Expire,
                 q \in Breakout : Ref!add_referral(referrer, referral, p, e, q)
        BY <3>3
      <4>2. PICK S : referrals' = Ref!Put(Ref!without(S), referral,
                       [referrer |-> referrer, percent |-> p, expire |-> e, breakout |-> q])
        BY <4>1 DEF Ref!add_referral
      <4> QED BY <4>2 DEF Ref!Put, Ref!without
    <3>4. \/ Ref!closeoldref
          \/ \E batch \in RefBatches : Ref!setparams(batch)
          \/ \E referral \in Account :
               \/ \E q \in Breakout : Ref!on_transfer(referral, q)
               \/ \E referrer \in Account, p \in Percent, e \in Expire, b \in Breakout :
                    Ref!add_referral(referrer, referral, p, e, b)
      BY <1>4 DEF Ref!Next
    <3>5. CASE Ref!closeoldref
      BY <3>1, <3>5 DEF Ref!closeoldref
    <3>6. CASE \E batch \in RefBatches : Ref!setparams(batch)
      BY <3>2, <3>6 DEF Ref!setparams
    <3>7. CASE \E referral \in Account, q \in Breakout : Ref!on_transfer(referral, q)
      BY <3>1, <3>7 DEF Ref!on_transfer
    <3> QED BY <3>3, <3>4, <3>5, <3>6, <3>7
  <2>2. \A r \in DOMAIN referrals' :
          referrals'[r].referrer \in Account /\ referrals'[r].percent \in Nat
    BY <1>2, <2>1, AmountsAssumption
  <2>3. Sides'
    BY <1>1, <1>4, <2>2, FewMessages DEF Sides
  <2> QED BY <1>1, <2>3, QuietBooks
<1>5. CASE Chg!Next /\ UNCHANGED referrals
  <2>1. PICK id \in ChargeId :
          \/ \E user \in Account, price \in UsePrices :
               \/ Chg!usenotify(user, id, price)
               \/ \E cutoff \in Cutoffs : Chg!use(user, id, price, cutoff)
          \/ \E func \in RestorerFuncs : Chg!setrestorer(id, func)
    BY <1>5 DEF Chg!Next
  <2>2. CASE \E user \in Account, price \in UsePrices, cutoff \in Cutoffs \union {-1} :
               Chg!use(user, id, price, cutoff)
    <3>1. PICK user \in Account, price \in UsePrices, cutoff \in Cutoffs \union {-1} :
            Chg!use(user, id, price, cutoff)
      BY <2>2
    <3>2. /\ Chg!can_calc(charges, user, id) /\ UNCHANGED restorers
          /\ charges' = Chg!consume_charge(charges, user, id, price)
      BY <3>1 DEF Chg!use, Chg!may_consume
    <3>3. price \in Int /\ ChargesInt(charges) /\ Sides
      BY <1>2, AmountsAssumption, FewMessages DEF ChargesInt
    <3>4. ChargesInt(charges')
      BY <3>2, <3>3, ConsumeInt
    <3>5. Sides'
      BY <1>1, <1>5, <3>2, <3>3, <3>4 DEF Sides, ChargesInt
    <3> QED BY <1>1, <3>5, QuietBooks
  <2>3. CASE \E func \in RestorerFuncs : Chg!setrestorer(id, func)
    <3>1. PICK func \in RestorerFuncs : Chg!setrestorer(id, func)
      BY <2>3
    <3>2. restorers' = Put(restorers, id, func) /\ UNCHANGED charges
      BY <3>1 DEF Chg!setrestorer, Chg!Put, Put
    <3>3. IsRestorer(func)
      BY AmountsAssumption
    <3>4. \A o \in DOMAIN restorers' :
            \/ restorers'[o] = func
            \/ o \in DOMAIN restorers /\ restorers'[o] = restorers[o]
      BY <3>2 DEF Put
    <3>5. \A o \in DOMAIN restorers' : IsRestorer(restorers'[o])
      BY <1>2, <3>3, <3>4
    <3>6. Sides'
      BY <1>1, <1>5, <3>2, <3>5, FewMessages DEF Sides
    <3> QED BY <1>1, <3>6, QuietBooks
  <2> QED BY <2>1, <2>2, <2>3 DEF Chg!usenotify
<1> QED BY <1>1, <1>3, <1>4, <1>5

\* What was made a moment ago is not made now.
LEMMA TickBooks ==
  ASSUME BooksInv, IInv', Tick
  PROVE  BooksInv'
<1>1. /\ now < MaxTime /\ now' = now + 1
      /\ UNCHANGED <<limits, pools, messages, votes, balance, charges, restorers, referrals,
                     astray>>
  BY DEF Tick, settings, contracts, history
<1>2. /\ now \in Nat /\ Sides
      /\ Books(pools, messages, astray, balance + astray.funds, now)
  BY FewMessages
<1>3. Sides'
  BY <1>1, <1>2, BoundsAssumption DEF Sides
<1>4. /\ DOMAIN pools \subseteq 0 .. now /\ DOMAIN astray.msgs \subseteq 0 .. now
      /\ \A id \in DOMAIN messages : /\ messages[id].pool_date <= now
                                     /\ messages[id].pool_date \in Nat
  BY <1>2 DEF Books, Young, MessageRight, MessageRow
<1>5. \A x : x \in 0 .. now => x \in 0 .. (now + 1) /\ x # now + 1
  BY <1>2
<1>6. \A id \in DOMAIN messages :
        messages[id].pool_date <= now + 1 /\ messages[id].pool_date # now + 1
  BY <1>2, <1>4
<1>7. at(astray.msgs, now + 1) = 0 /\ OpenIn(messages, now + 1) = {}
  BY <1>4, <1>5, <1>6 DEF at, OpenIn
<1>8. Young(pools, messages, astray, now + 1)
  BY <1>4, <1>5, <1>6, <1>7 DEF Young
<1>9. Books(pools, messages, astray, balance + astray.funds, now + 1)
  BY <1>2, <1>4, <1>5, <1>8 DEF Books
<1>10. Books(pools', messages', astray', balance' + astray'.funds, now')
  BY <1>1, <1>9
<1> QED BY <1>3, <1>10, BooksNext

\* Nothing happens.
LEMMA StutterBooks ==
  ASSUME BooksInv, IInv', UNCHANGED vars
  PROVE  BooksInv'
<1>1. UNCHANGED <<now, limits, pools, messages, votes, balance, charges, restorers,
                  referrals, astray>>
  BY DEF vars, settings, contracts, history
<1>2. Sides'
  BY <1>1, FewMessages DEF Sides
<1> QED BY <1>1, <1>2, QuietBooks

\* At the start there is nothing.
LEMMA StartBooks ==
  ASSUME Init, IInv
  PROVE  BooksInv
<1>1. /\ now = 0 /\ balance = 0
      /\ DOMAIN pools = {} /\ DOMAIN messages = {} /\ DOMAIN votes = {}
      /\ DOMAIN limits = {} /\ DOMAIN charges = {} /\ DOMAIN restorers = {}
      /\ DOMAIN referrals = {}
      /\ DOMAIN astray.msgs = {} /\ DOMAIN astray.shares = {} /\ astray.funds = 0
  BY DEF Init, EmptyTable, Chg!Init, Ref!Init, Chg!EmptyTable, Ref!EmptyTable
<1>2. Sides
  BY <1>1, BoundsAssumption DEF Sides
<1>3. funds_of(pools) = 0
  BY <1>1, TotalEmpty DEF funds_of
<1>4. Promised(messages) = 0
  BY <1>1, TotalEmpty DEF Promised, ClosedOf
<1>5. Young(pools, messages, astray, now)
  BY <1>1 DEF Young, OpenIn, at
<1>6. Books(pools, messages, astray, balance + astray.funds, now)
  BY <1>1, <1>3, <1>4, <1>5 DEF Books, Counted, Summed
<1> QED BY <1>2, <1>6, BooksSame

----------------------------------------------------------------------------
(* One message changes *)

\* A row that keeps what the sums are made of keeps the books.
LEMMA MessageTouched ==
  ASSUME NEW ps, NEW ms, NEW a, NEW b, NEW t, Books(ps, ms, a, b, t),
         NEW ns, DOMAIN ns = DOMAIN ms, \A o \in DOMAIN ms : MessageRight(ns[o]),
         \A o \in DOMAIN ms :
           /\ ns[o].cashout_time = ms[o].cashout_time /\ ns[o].pool_date = ms[o].pool_date
           /\ ns[o].netshares = ms[o].netshares /\ ns[o].mssg_reward = ms[o].mssg_reward
           /\ ns[o].paid_amount = ms[o].paid_amount
  PROVE  Books(ps, ns, a, b, t)
<1>1. /\ \A p : OpenIn(ns, p) = OpenIn(ms, p)
      /\ ClosedOf(ns) = ClosedOf(ms)
  BY DEF OpenIn, ClosedOf, closed
<1>2. Promised(ns) = Promised(ms)
  <2>1. [id \in ClosedOf(ns) |-> ns[id].mssg_reward - ns[id].paid_amount] =
          [id \in ClosedOf(ms) |-> ms[id].mssg_reward - ms[id].paid_amount]
    BY <1>1 DEF ClosedOf
  <2> QED BY <2>1 DEF Promised
<1>3. Counted(ps, ns, a)
  BY <1>1 DEF Books, Counted
<1>4. Summed(ps, ns, a)
  <2> SUFFICES ASSUME NEW p \in DOMAIN ps
               PROVE  /\ ps[p].rshares = Total([id \in OpenIn(ns, p) |-> ns[id].netshares])
                                           + at(a.shares, p)
                      /\ ps[p].rules.mainfunc[0] = 0 =>
                           ps[p].rsharesfn = Total([id \in OpenIn(ns, p) |->
                                               run(ps[p].rules.mainfunc, ns[id].netshares)])
    BY DEF Summed
  <2>1. \A o \in OpenIn(ms, p) : ns[o].netshares = ms[o].netshares
    BY DEF OpenIn
  <2>2. /\ [id \in OpenIn(ns, p) |-> ns[id].netshares] =
             [id \in OpenIn(ms, p) |-> ms[id].netshares]
        /\ [id \in OpenIn(ns, p) |-> run(ps[p].rules.mainfunc, ns[id].netshares)] =
             [id \in OpenIn(ms, p) |-> run(ps[p].rules.mainfunc, ms[id].netshares)]
    BY <1>1, <2>1
  <2>3. Summed(ps, ms, a)
    BY DEF Books
  <2> QED BY <2>2, <2>3 DEF Summed
<1>5. Young(ps, ns, a, t)
  BY <1>1 DEF Books, Young
<1> QED BY <1>2, <1>3, <1>4, <1>5 DEF Books

\* The author changes the curators' part or the largest payout.
LEMMA ChangeBooks ==
  ASSUME BooksInv, IInv', NEW id,
         \/ \E c \in CuratorPrcnts : setcurprcnt(id, c)
         \/ \E x \in MaxPayouts : setmaxpayout(id, x)
  PROVE  BooksInv'
<1>1. /\ id \in DOMAIN messages
      /\ UNCHANGED <<now, limits, pools, votes, balance, charges, restorers, referrals, astray>>
  BY DEF setcurprcnt, setmaxpayout, settings, contracts, history
<1>2. Books(pools, messages, astray, balance + astray.funds, now)
  BY FewMessages
<1>3. \A o \in DOMAIN messages : MessageRight(messages[o])
  BY <1>2 DEF Books
<1> DEFINE m == messages[id]
<1>4. m \in MessageRow /\ MessageRight(m)
  BY <1>1, <1>3 DEF MessageRight
<1>5. PICK n : /\ messages' = [messages EXCEPT ![id] = n]
               /\ \/ \E c \in Nat : n = [m EXCEPT !.curators_prcnt = c]
                  \/ \E x \in Nat : n = [m EXCEPT !.max_payout = x]
  <2>1. CASE \E c \in CuratorPrcnts : setcurprcnt(id, c)
    <3>1. PICK c \in CuratorPrcnts : setcurprcnt(id, c)
      BY <2>1
    <3>2. messages' = [messages EXCEPT ![id] = [m EXCEPT !.curators_prcnt = c]]
      BY <3>1 DEF setcurprcnt
    <3>3. c \in Nat
      BY AmountsAssumption
    <3> QED BY <3>2, <3>3
  <2>2. CASE \E x \in MaxPayouts : setmaxpayout(id, x)
    <3>1. PICK x \in MaxPayouts : setmaxpayout(id, x)
      BY <2>2
    <3>2. messages' = [messages EXCEPT ![id] = [m EXCEPT !.max_payout = x]]
      BY <3>1 DEF setmaxpayout
    <3>3. x \in Nat
      BY AmountsAssumption
    <3> QED BY <3>2, <3>3
  <2> QED BY <2>1, <2>2
<1> HIDE DEF m
<1>6. /\ n \in MessageRow
      /\ n.cashout_time = m.cashout_time /\ n.pool_date = m.pool_date
      /\ n.netshares = m.netshares /\ n.mssg_reward = m.mssg_reward
      /\ n.paid_amount = m.paid_amount /\ n.beneficiaries = m.beneficiaries
  <2>1. CASE \E c \in Nat : n = [m EXCEPT !.curators_prcnt = c]
    BY <1>4, <2>1 DEF MessageRow
  <2>2. CASE \E x \in Nat : n = [m EXCEPT !.max_payout = x]
    BY <1>4, <2>2 DEF MessageRow
  <2> QED BY <1>5, <2>1, <2>2
<1>7. MessageRight(n)
  BY <1>4, <1>6 DEF MessageRight, closed
<1>8. /\ DOMAIN messages' = DOMAIN messages /\ messages'[id] = n
      /\ \A o \in DOMAIN messages \ {id} : messages'[o] = messages[o]
  BY <1>1, <1>5
<1>9. \A o \in DOMAIN messages :
        /\ MessageRight(messages'[o])
        /\ messages'[o].cashout_time = messages[o].cashout_time
        /\ messages'[o].pool_date = messages[o].pool_date
        /\ messages'[o].netshares = messages[o].netshares
        /\ messages'[o].mssg_reward = messages[o].mssg_reward
        /\ messages'[o].paid_amount = messages[o].paid_amount
  BY <1>3, <1>6, <1>7, <1>8 DEF m
<1>10. Books(pools, messages', astray, balance + astray.funds, now)
  BY <1>2, <1>8, <1>9, MessageTouched
<1>11. Books(pools', messages', astray', balance' + astray'.funds, now')
  BY <1>1, <1>10
<1>12. Sides'
  BY <1>1, FewMessages DEF Sides
<1> QED BY <1>11, <1>12, BooksNext

\* When an open message gets other net shares and its pool follows, the books
\* stay right.
LEMMA SharesMove ==
  ASSUME NEW ps, NEW ms, NEW a, NEW b, NEW t, Books(ps, ms, a, b, t), IsFiniteSet(DOMAIN ms),
         \A p \in DOMAIN a.shares : a.shares[p] \in Int,
         NEW id \in DOMAIN ms, ~closed(ms[id]), NEW d \in DOMAIN ps, ms[id].pool_date = d,
         NEW n, n.netshares \in Int, MessageRight(n),
         n.cashout_time = ms[id].cashout_time, n.pool_date = d,
         NEW ns, DOMAIN ns = DOMAIN ms, ns[id] = n, \A o \in DOMAIN ms \ {id} : ns[o] = ms[o],
         NEW qs, DOMAIN qs = DOMAIN ps, \A p \in DOMAIN ps \ {d} : qs[p] = ps[p],
         IsPool(qs[d]), qs[d].rules = ps[d].rules, qs[d].msgs = ps[d].msgs,
         qs[d].funds = ps[d].funds,
         qs[d].rshares = ps[d].rshares - ms[id].netshares + n.netshares,
         qs[d].rsharesfn = ps[d].rsharesfn
                             + get_delta(ps[d].rules.mainfunc, ms[id].netshares, n.netshares)
  PROVE  Books(qs, ns, a, b, t)
<1>1. /\ \A p : OpenIn(ns, p) = OpenIn(ms, p)
      /\ ClosedOf(ns) = ClosedOf(ms)
  BY DEF OpenIn, ClosedOf, closed
<1>2. Promised(ns) = Promised(ms)
  <2>1. \A o \in ClosedOf(ms) : ns[o] = ms[o]
    BY DEF ClosedOf
  <2>2. [o \in ClosedOf(ns) |-> ns[o].mssg_reward - ns[o].paid_amount] =
          [o \in ClosedOf(ms) |-> ms[o].mssg_reward - ms[o].paid_amount]
    BY <1>1, <2>1
  <2> QED BY <2>2 DEF Promised
<1>3. funds_of(qs) = funds_of(ps)
  <2>1. [p \in DOMAIN qs |-> qs[p].funds] = [p \in DOMAIN ps |-> ps[p].funds]
    OBVIOUS
  <2> QED BY <2>1 DEF funds_of
<1>4. Counted(qs, ns, a)
  BY <1>1 DEF Books, Counted
<1>5. Young(qs, ns, a, t)
  BY <1>1 DEF Books, Young
<1>6. \A o \in DOMAIN ms : ms[o] \in MessageRow /\ ms[o].netshares \in Int
  BY DEF Books, MessageRight, MessageRow
<1>7. /\ IsRules(ps[d].rules) /\ ps[d].rshares \in Int /\ ps[d].rsharesfn \in Int
  BY PoolFields DEF Books
<1>8. Summed(qs, ns, a)
  <2>1. Summed(ps, ms, a)
    BY DEF Books
  <2>2. ASSUME NEW p \in DOMAIN ps, p # d
        PROVE  /\ qs[p].rshares = Total([o \in OpenIn(ns, p) |-> ns[o].netshares])
                                    + at(a.shares, p)
               /\ qs[p].rules.mainfunc[0] = 0 =>
                    qs[p].rsharesfn = Total([o \in OpenIn(ns, p) |->
                                        run(qs[p].rules.mainfunc, ns[o].netshares)])
    <3>1. \A o \in OpenIn(ms, p) : ns[o] = ms[o]
      BY <2>2 DEF OpenIn
    <3>2. qs[p] = ps[p]
      BY <2>2
    <3>3. /\ [o \in OpenIn(ns, p) |-> ns[o].netshares] =
               [o \in OpenIn(ms, p) |-> ms[o].netshares]
          /\ [o \in OpenIn(ns, p) |-> run(qs[p].rules.mainfunc, ns[o].netshares)] =
               [o \in OpenIn(ms, p) |-> run(ps[p].rules.mainfunc, ms[o].netshares)]
      BY <1>1, <3>1, <3>2
    <3> QED BY <2>1, <2>2, <3>2, <3>3 DEF Summed
  <2> DEFINE S == OpenIn(ms, d)
             f == ps[d].rules.mainfunc
             x == [o \in S |-> ms[o].netshares]
             y == [o \in S |-> ns[o].netshares]
             v == [o \in S |-> run(f, ms[o].netshares)]
             w == [o \in S |-> run(f, ns[o].netshares)]
  <2>3. S \subseteq DOMAIN ms /\ IsFiniteSet(S) /\ id \in S
    <3>1. S \in SUBSET DOMAIN ms /\ id \in S
      BY DEF OpenIn
    <3> QED BY <3>1, FS_Subset
  <2>4. ps[d].rshares = Total(x) + at(a.shares, d) /\ (f[0] = 0 => ps[d].rsharesfn = Total(v))
    BY <2>1 DEF Summed
  <2>5. \A z \in Int : run(f, z) \in Int
    BY <1>7, RunInt
  <2> HIDE DEF S, f
  <2>6. /\ DOMAIN x = S /\ DOMAIN y = S
        /\ \A o \in S : x[o] \in Int /\ y[o] \in Int
        /\ \A o \in S \ {id} : y[o] = x[o]
        /\ x[id] = ms[id].netshares /\ y[id] = n.netshares
    BY <1>6, <2>3
  <2>7. /\ DOMAIN v = S /\ DOMAIN w = S
        /\ \A o \in S : v[o] \in Int /\ w[o] \in Int
        /\ \A o \in S \ {id} : w[o] = v[o]
        /\ v[id] = run(f, ms[id].netshares) /\ w[id] = run(f, n.netshares)
    BY <1>6, <2>3, <2>5
  <2> HIDE DEF x, y, v, w
  <2>8. Total(y) = Total(x) + y[id] - x[id] /\ Total(x) \in Int
    BY <2>3, <2>6, TotalChange, TotalInt
  <2>9. Total(w) = Total(v) + w[id] - v[id] /\ Total(v) \in Int
    BY <2>3, <2>7, TotalChange, TotalInt
  <2>10. at(a.shares, d) \in Int
    BY DEF at
  <2>11. qs[d].rshares = Total(y) + at(a.shares, d)
    BY <1>6, <2>4, <2>6, <2>8, <2>10
  <2>12. f[0] = 0 => qs[d].rsharesfn = Total(w)
    <3>1. qs[d].rsharesfn = ps[d].rsharesfn + (w[id] - v[id])
      BY <2>7 DEF get_delta, f
    <3> QED BY <2>3, <2>4, <2>7, <2>9, <3>1
  <2>13. /\ y = [o \in OpenIn(ns, d) |-> ns[o].netshares]
         /\ w = [o \in OpenIn(ns, d) |-> run(qs[d].rules.mainfunc, ns[o].netshares)]
         /\ f = qs[d].rules.mainfunc
    BY <1>1 DEF y, w, S, f
  <2> QED BY <2>2, <2>11, <2>12, <2>13 DEF Summed
<1>9. \A p \in DOMAIN qs : IsPool(qs[p])
  BY DEF Books
<1>10. \A o \in DOMAIN ns : MessageRight(ns[o])
  BY DEF Books
<1> QED BY <1>2, <1>3, <1>4, <1>5, <1>8, <1>9, <1>10 DEF Books

\* A pool with other sums
SumsSet(p, x, y) == [p EXCEPT !.rshares = x, !.rsharesfn = y]

\* It is a pool that is the same otherwise.
LEMMA PoolShifted ==
  ASSUME NEW p, IsPool(p), NEW x \in Int, NEW y \in Int, NEW n, n = SumsSet(p, x, y)
  PROVE  /\ IsPool(n) /\ n.rules = p.rules /\ n.msgs = p.msgs /\ n.funds = p.funds
         /\ n.rshares = x /\ n.rsharesfn = y
<1> DEFINE p1 == [p EXCEPT !.rshares = x]
<1>1. n = [p1 EXCEPT !.rsharesfn = y]
  BY DEF SumsSet
<1>2. p = [rules |-> p.rules, msgs |-> p.msgs, funds |-> p.funds,
           rshares |-> p.rshares, rsharesfn |-> p.rsharesfn]
  BY DEF IsPool
<1>3. p1 = [rules |-> p.rules, msgs |-> p.msgs, funds |-> p.funds,
            rshares |-> x, rsharesfn |-> p.rsharesfn]
  BY <1>2
<1> HIDE DEF p1
<1>4. n = [rules |-> p.rules, msgs |-> p.msgs, funds |-> p.funds,
           rshares |-> x, rsharesfn |-> y]
  BY <1>1, <1>3
<1>5. /\ p.msgs \in 0 .. CounterRange - 1 /\ p.funds \in Int /\ IsRules(p.rules)
  BY PoolFields
<1> QED BY <1>4, <1>5 DEF IsPool

\* The row of a message after a vote
VotedRow(m, x, y, z) == [m EXCEPT !.netshares = x, !.voteshares = y, !.sumcuratorsw = z]

\* It is right, and the same otherwise.
LEMMA MessageVoted ==
  ASSUME NEW m, MessageRight(m), NEW x \in Int, NEW y \in Int, NEW z \in Int, NEW n,
         n = VotedRow(m, x, y, z)
  PROVE  /\ MessageRight(n) /\ n.netshares = x
         /\ n.cashout_time = m.cashout_time /\ n.pool_date = m.pool_date
<1> DEFINE m1 == [m EXCEPT !.netshares = x]
           m2 == [m1 EXCEPT !.voteshares = y]
<1>1. n = [m2 EXCEPT !.sumcuratorsw = z]
  BY DEF VotedRow
<1>2. m \in MessageRow
  BY DEF MessageRight
<1>3. /\ m1 \in MessageRow /\ m1.netshares = x
      /\ m1.cashout_time = m.cashout_time /\ m1.pool_date = m.pool_date
      /\ m1.beneficiaries = m.beneficiaries /\ m1.paid_amount = m.paid_amount
      /\ m1.mssg_reward = m.mssg_reward
  BY <1>2 DEF MessageRow
<1> HIDE DEF m1
<1>4. /\ m2 \in MessageRow /\ m2.netshares = x
      /\ m2.cashout_time = m.cashout_time /\ m2.pool_date = m.pool_date
      /\ m2.beneficiaries = m.beneficiaries /\ m2.paid_amount = m.paid_amount
      /\ m2.mssg_reward = m.mssg_reward
  BY <1>3 DEF MessageRow
<1> HIDE DEF m2
<1>5. /\ n \in MessageRow /\ n.netshares = x
      /\ n.cashout_time = m.cashout_time /\ n.pool_date = m.pool_date
      /\ n.beneficiaries = m.beneficiaries /\ n.paid_amount = m.paid_amount
      /\ n.mssg_reward = m.mssg_reward
  BY <1>1, <1>4 DEF MessageRow
<1> QED BY <1>5 DEF MessageRight, closed

----------------------------------------------------------------------------
(* Votes *)

\* What a vote is worth, and costs, is a number.
LEMMA VoteNumbers ==
  ASSUME Sides, NEW voter, NEW weight \in Int, can_vote(voter, abs_value(weight)),
         NEW vesting \in EffVesting
  PROVE  /\ available_rshares(voter, weight, vesting) \in Int
         /\ vote_price(voter, abs_value(weight)) \in Int
         /\ ChargesInt(charged(charges, voter, "vote", vote_price(voter, abs_value(weight))))
<1> DEFINE s == abs_value(weight)
           row == limits["vote"]
           k == vote_k
           u == used_power(voter, s)
           price == vote_price(voter, s)
           power == voting_power(voter)
<1>1. /\ "vote" \in DOMAIN limits /\ k # 0
      /\ Chg!can_calc(charges, voter, row.charge_id)
  BY DEF can_vote, limit_ok
<1>2. row.price \in Int /\ ChargesInt(charges)
  BY <1>1 DEF Sides, ChargesInt
<1>3. Whole \in Nat \ {0} /\ DefaultK \in Nat \ {0} /\ vesting \in Nat
  BY AmountsAssumption
<1>4. s \in Int
  BY DEF abs_value
<1>5. k \in Nat \ {0}
  <2>1. k = IF row.price > 0 THEN Whole \div row.price ELSE DefaultK
    BY DEF vote_k
  <2> HIDE DEF k, row
  <2>2. row.price > 0 => Whole \div row.price \in Nat
    BY <1>2, <1>3
  <2> QED BY <1>1, <1>3, <2>1, <2>2
<1>6. power \in Int
  <2>1. Chg!new_value(charges, voter, row.charge_id, 0) \in Int
    BY <1>1, <1>2, NewValueInt
  <2>2. power = Whole - Chg!new_value(charges, voter, row.charge_id, 0)
    BY DEF voting_power, Chg!get_current_value
  <2> QED BY <1>3, <2>1, <2>2
<1>7. u \in Int
  <2>1. u = ((s * power) \div Whole + k - 1) \div k
    BY DEF used_power
  <2> DEFINE q == (s * power) \div Whole
  <2>2. q \in Int
    <3>1. s * power \in Int
      BY <1>4, <1>6, ProductInt
    <3> QED BY <1>3, <3>1
  <2> HIDE DEF s, k, power, u, q
  <2>3. u = (q + k - 1) \div k
    BY <2>1 DEF q
  <2> QED BY <1>5, <2>2, <2>3
<1>8. price \in Int
  <2>1. price = (row.price * u * k) \div Whole
    BY DEF vote_price
  <2> HIDE DEF row, u, k, price
  <2>2. row.price * u \in Int
    BY <1>2, <1>7, ProductInt
  <2>3. k \in Int
    BY <1>5
  <2>4. row.price * u * k \in Int
    BY <2>2, <2>3, ProductInt
  <2> QED BY <1>3, <2>1, <2>4
<1>9. available_rshares(voter, weight, vesting) \in Int
  <2> DEFINE z == (vesting * u) \div Whole
  <2>1. vesting * u \in Int
    BY <1>3, <1>7, ProductInt
  <2>2. z \in Int
    BY <1>3, <2>1
  <2>3. available_rshares(voter, weight, vesting) = IF weight < 0 THEN -z ELSE z
    BY DEF available_rshares
  <2> HIDE DEF z
  <2> QED BY <2>2, <2>3
<1>10. ChargesInt(charged(charges, voter, "vote", price))
  <2>1. CASE row.price < 0
    BY <1>2, <2>1 DEF charged
  <2>2. CASE ~(row.price < 0)
    <3>1. charged(charges, voter, "vote", price) =
            Chg!consume_charge(charges, voter, row.charge_id, price)
      BY <2>2 DEF charged
    <3> HIDE DEF price, row
    <3>2. ChargesInt(Chg!consume_charge(charges, voter, row.charge_id, price))
      BY <1>1, <1>2, <1>8, ConsumeInt
    <3> QED BY <3>1, <3>2
  <2> QED BY <2>1, <2>2
<1> QED BY <1>8, <1>9, <1>10

\* The pool follows the message.
LEMMA ShiftedPools ==
  ASSUME NEW ps, NEW m, NEW n \in Int, m.netshares \in Int, NEW d \in DOMAIN ps,
         m.pool_date = d, IsPool(ps[d]), NEW qs, qs = shifted(ps, m, n)
  PROVE  /\ DOMAIN qs = DOMAIN ps /\ \A p \in DOMAIN ps \ {d} : qs[p] = ps[p]
         /\ IsPool(qs[d]) /\ qs[d].rules = ps[d].rules /\ qs[d].msgs = ps[d].msgs
         /\ qs[d].funds = ps[d].funds
         /\ qs[d].rshares = ps[d].rshares - m.netshares + n
         /\ qs[d].rsharesfn = ps[d].rsharesfn
                                + get_delta(ps[d].rules.mainfunc, m.netshares, n)
<1> DEFINE p  == ps[d]
           dl == get_delta(p.rules.mainfunc, m.netshares, n)
           x  == p.rshares - m.netshares + n
           y  == p.rsharesfn + dl
<1>1. /\ IsRules(p.rules) /\ p.rshares \in Int /\ p.rsharesfn \in Int
  BY PoolFields
<1>2. run(p.rules.mainfunc, n) \in Int /\ run(p.rules.mainfunc, m.netshares) \in Int
  <2>1. \A z \in Int : run(p.rules.mainfunc, z) \in Int
    BY <1>1, RunInt
  <2> QED BY <2>1
<1>3. x \in Int /\ y \in Int
  BY <1>1, <1>2 DEF get_delta
<1>4. /\ DOMAIN qs = DOMAIN ps /\ \A q \in DOMAIN ps \ {d} : qs[q] = ps[q]
      /\ qs[d] = [p EXCEPT !.rshares = x, !.rsharesfn = @ + dl]
  BY DEF shifted
<1>5. qs[d] = [p EXCEPT !.rshares = x, !.rsharesfn = y]
  <2> DEFINE p1 == [p EXCEPT !.rshares = x]
  <2>1. [p EXCEPT !.rshares = x, !.rsharesfn = @ + dl] =
          [p1 EXCEPT !.rsharesfn = p1.rsharesfn + dl]
    OBVIOUS
  <2>2. [p EXCEPT !.rshares = x, !.rsharesfn = y] = [p1 EXCEPT !.rsharesfn = y]
    OBVIOUS
  <2>3. p1.rsharesfn = p.rsharesfn
    <3>1. p = [rules |-> p.rules, msgs |-> p.msgs, funds |-> p.funds,
               rshares |-> p.rshares, rsharesfn |-> p.rsharesfn]
      BY DEF IsPool
    <3> HIDE DEF p, x
    <3> QED BY <3>1
  <2> HIDE DEF p1
  <2> QED BY <1>4, <2>1, <2>2, <2>3
<1> HIDE DEF x, y
<1>6. /\ IsPool(qs[d]) /\ qs[d].rules = p.rules /\ qs[d].msgs = p.msgs /\ qs[d].funds = p.funds
      /\ qs[d].rshares = x /\ qs[d].rsharesfn = y
  <2> DEFINE np == qs[d]
  <2>1. IsPool(p) /\ np = SumsSet(p, x, y)
    BY <1>5 DEF SumsSet
  <2> HIDE DEF p, np
  <2>2. /\ IsPool(np) /\ np.rules = p.rules /\ np.msgs = p.msgs /\ np.funds = p.funds
        /\ np.rshares = x /\ np.rsharesfn = y
    BY <1>3, <2>1, PoolShifted
  <2> QED BY <2>2 DEF np
<1> QED BY <1>4, <1>6 DEF x, y

\* A vote leaves the books right that closing left right.
LEMMA VoteMoves ==
  ASSUME BooksInv, NEW c, c = closemssgs(pools, deferred), c.ok,
         NEW id \in DOMAIN messages, ~closed(c.messages[id]),
         messages[id].pool_date \in DOMAIN c.pools,
         NEW voter, NEW weight \in Int, NEW rshares \in Int,
         \/ \E delegators \in DelegatorLists, count \in VoteCounts :
              new_vote(c, id, voter, weight, rshares, delegators, count)
         \/ revote(c, id, voter, weight, rshares) /\ <<id, voter>> \in DOMAIN votes
  PROVE  /\ Books(pools', messages', astray, balance + astray.funds, now)
         /\ \A k \in DOMAIN votes' : votes'[k] \in VoteRow
<1> DEFINE ps == c.pools
           ms == c.messages
           m  == ms[id]
           d  == m.pool_date
           b  == balance + astray.funds
<1>1. /\ Books(ps, ms, astray, b, now) /\ DOMAIN ms = DOMAIN messages
      /\ m = messages[id] /\ ~closed(m)
  <2>1. Books(pools, messages, astray, b, now) /\ b \in Int
    BY FewMessages
  <2>2. closemssgs(pools, deferred).ok
    OBVIOUS
  <2> HIDE DEF b
  <2>3. /\ Books(closemssgs(pools, deferred).pools, closemssgs(pools, deferred).messages,
                 astray, b, now)
        /\ DOMAIN closemssgs(pools, deferred).messages = DOMAIN messages
        /\ \A o \in DOMAIN messages :
             ~closed(closemssgs(pools, deferred).messages[o])
               => closemssgs(pools, deferred).messages[o] = messages[o]
    BY <2>1, <2>2, ClosingKeeps
  <2> QED BY <2>3
<1> HIDE DEF b
<1>2. id \in DOMAIN ms /\ d \in DOMAIN ps /\ IsFiniteSet(DOMAIN ms)
  BY <1>1, FewMessages
<1>3. MessageRight(m) /\ IsPool(ps[d])
  BY <1>1, <1>2 DEF Books
<1>4. /\ m.netshares \in Int /\ m.voteshares \in Int /\ m.sumcuratorsw \in Int /\ m.date \in Nat
      /\ IsRules(ps[d].rules)
  BY <1>3, PoolFields DEF MessageRight, MessageRow
<1>5. \A p \in DOMAIN astray.shares : astray.shares[p] \in Int
  BY FewMessages DEF Sides
<1>6. now \in Nat /\ \A k \in DOMAIN votes : votes[k] \in VoteRow
  BY FewMessages DEF Sides
<1>7. CASE \E delegators \in DelegatorLists, count \in VoteCounts :
             new_vote(c, id, voter, weight, rshares, delegators, count)
  <2>0. PICK delegators \in DelegatorLists, count \in VoteCounts :
          new_vote(c, id, voter, weight, rshares, delegators, count)
    BY <1>7
  <2> DEFINE rules == ps[d].rules
             voteshares == upvoted(m, rshares)
             delta == get_delta(rules.curationfunc, m.voteshares, voteshares)
             x == m.netshares + rshares
             z == m.sumcuratorsw + delta
             n == messages'[id]
             w == curator_weight(delta, time_factor(rules, m))
  <2>1. /\ pools' = shifted(ps, m, x)
        /\ messages' = [ms EXCEPT ![id].netshares = @ + rshares,
                                  ![id].voteshares = voteshares,
                                  ![id].sumcuratorsw = @ + delta]
        /\ votes' = Put(votes, <<id, voter>>,
             [weight |-> weight, count |-> count, delegators |-> delegators,
              curatorsw |-> w, rshares |-> rshares, paid_amount |-> 0])
    BY <2>0 DEF new_vote
  <2>2. voteshares \in Int /\ x \in Int
    BY <1>4 DEF upvoted
  <2>3. delta \in Int
    <3> HIDE DEF voteshares
    <3> DEFINE f == rules.curationfunc
    <3>1. \A y \in Int : run(f, y) \in Int
      BY <1>4, RunInt
    <3>2. delta = run(f, voteshares) - run(f, m.voteshares)
      BY DEF get_delta
    <3> HIDE DEF f, m, delta
    <3>3. run(f, voteshares) \in Int /\ run(f, m.voteshares) \in Int
      BY <1>4, <2>2, <3>1
    <3> QED BY <3>2, <3>3
  <2>4. w \in Int
    <3> DEFINE g == time_factor(rules, m)
               r == run(rules.timepenalty, now - m.date)
    <3>1. now - m.date \in Int
      BY <1>4, <1>6
    <3>2. r \in Int
      BY <1>4, <3>1, RunInt
    <3>3. g = IF r > Whole THEN Whole ELSE IF r < 0 THEN 0 ELSE r
      BY DEF time_factor
    <3> HIDE DEF g, r, delta
    <3>4. g \in Int /\ Whole \in Nat \ {0}
      BY <3>2, <3>3, AmountsAssumption
    <3>5. delta * g \in Int
      BY <2>3, <3>4, ProductInt
    <3>6. w = (delta * g) \div Whole
      BY DEF curator_weight, g
    <3> QED BY <3>4, <3>5, <3>6
  <2>5. z \in Int
    <3> HIDE DEF m, delta
    <3> QED BY <1>4, <2>3
  <2>6. n = [m EXCEPT !.netshares = x, !.voteshares = voteshares, !.sumcuratorsw = z]
    <3>1. n = [m EXCEPT !.netshares = @ + rshares, !.voteshares = voteshares,
                        !.sumcuratorsw = @ + delta]
      BY <1>2, <2>1
    <3>2. m \in MessageRow
      BY <1>3 DEF MessageRight
    <3> HIDE DEF voteshares, delta, n, m
    <3> DEFINE m1 == [m EXCEPT !.netshares = x]
               m2 == [m1 EXCEPT !.voteshares = voteshares]
    <3>3. m1 \in MessageRow /\ m1.sumcuratorsw = m.sumcuratorsw
      BY <2>2, <3>2 DEF MessageRow
    <3>4. n = [m2 EXCEPT !.sumcuratorsw = m2.sumcuratorsw + delta]
      BY <3>1
    <3>5. [m EXCEPT !.netshares = x, !.voteshares = voteshares, !.sumcuratorsw = z] =
            [m2 EXCEPT !.sumcuratorsw = z]
      OBVIOUS
    <3> HIDE DEF m1
    <3>6. m2.sumcuratorsw = m1.sumcuratorsw
      BY <3>3 DEF MessageRow
    <3> HIDE DEF m2
    <3> QED BY <3>3, <3>4, <3>5, <3>6
  <2>7. DOMAIN messages' = DOMAIN ms /\ \A o \in DOMAIN ms \ {id} : messages'[o] = ms[o]
    BY <2>1
  <2> HIDE DEF n, x, z, voteshares, delta, w
  <2>8. /\ MessageRight(n) /\ n.netshares = x
        /\ n.cashout_time = m.cashout_time /\ n.pool_date = d
    <3>1. MessageRight(m) /\ n = VotedRow(m, x, voteshares, z)
      BY <1>3, <2>6 DEF VotedRow
    <3> HIDE DEF m
    <3>2. /\ MessageRight(n) /\ n.netshares = x
          /\ n.cashout_time = m.cashout_time /\ n.pool_date = m.pool_date
      BY <2>2, <2>5, <3>1, MessageVoted
    <3> QED BY <3>2
  <2>9. /\ DOMAIN pools' = DOMAIN ps /\ \A p \in DOMAIN ps \ {d} : pools'[p] = ps[p]
        /\ IsPool(pools'[d]) /\ pools'[d].rules = ps[d].rules /\ pools'[d].msgs = ps[d].msgs
        /\ pools'[d].funds = ps[d].funds
        /\ pools'[d].rshares = ps[d].rshares - m.netshares + x
        /\ pools'[d].rsharesfn = ps[d].rsharesfn
                                   + get_delta(ps[d].rules.mainfunc, m.netshares, x)
    <3> HIDE DEF ps, m, d
    <3>1. m.pool_date = d
      BY DEF d, m
    <3> QED BY <1>2, <1>3, <1>4, <2>1, <2>2, <3>1, ShiftedPools
  <2>10. Books(pools', messages', astray, b, now)
    <3>1. messages'[id] = n
      BY DEF n
    <3>2. ms[id] = m /\ m.pool_date = d
      OBVIOUS
    <3> HIDE DEF ps, ms, m, d
    <3> QED BY <1>1, <1>2, <1>5, <2>2, <2>7, <2>8, <2>9, <3>1, <3>2, SharesMove
  <2>11. [weight |-> weight, count |-> count, delegators |-> delegators,
          curatorsw |-> w, rshares |-> rshares, paid_amount |-> 0] \in VoteRow
    <3> DEFINE S == Seq([delegator : Account, interest_rate : Nat])
    <3>1. VoteCounts \subseteq Nat /\ DelegatorLists \subseteq S
      BY AmountsAssumption, Zenon
    <3>2. VoteRow = [weight : Int, count : Int, delegators : S, curatorsw : Int,
                     rshares : Int, paid_amount : Int]
      BY DEF VoteRow
    <3> HIDE DEF S
    <3> QED BY <2>4, <3>1, <3>2
  <2>12. \A k \in DOMAIN votes' : votes'[k] \in VoteRow
    BY <1>6, <2>1, <2>11 DEF Put
  <2> QED BY <2>10, <2>12 DEF b
<1>8. CASE revote(c, id, voter, weight, rshares) /\ <<id, voter>> \in DOMAIN votes
  <2> DEFINE v == votes[<<id, voter>>]
             x == shares_after(m, v, rshares)
             z == m.sumcuratorsw - v.curatorsw
             n == messages'[id]
             qs == shifted(ps, m, x)
             u == ps[d].rshares - v.rshares + rshares
  <2>1. /\ pools' = [qs EXCEPT ![d].rshares = u]
        /\ messages' = [ms EXCEPT ![id].netshares = x, ![id].sumcuratorsw = @ - v.curatorsw]
        /\ votes' = [votes EXCEPT ![<<id, voter>>] =
             [v EXCEPT !.weight = weight, !.curatorsw = 0, !.rshares = rshares,
                       !.count = (@ + 1) % 256]]
    BY <1>8 DEF revote
  <2>2. v \in VoteRow
    BY <1>6, <1>8
  <2>3. /\ v.rshares \in Int /\ v.curatorsw \in Int /\ v.count \in Int
        /\ ps[d].rshares \in Int
    BY <1>3, <2>2, PoolFields DEF VoteRow
  <2>4. x \in Int /\ z \in Int /\ u \in Int /\ u = ps[d].rshares - m.netshares + x
    <3>1. x = m.netshares - v.rshares + rshares
      BY DEF shares_after
    <3> HIDE DEF m, v, x
    <3> QED BY <1>4, <2>3, <3>1
  <2>5. n = [m EXCEPT !.netshares = x, !.voteshares = m.voteshares, !.sumcuratorsw = z]
    <3>1. n = [m EXCEPT !.netshares = x, !.sumcuratorsw = @ - v.curatorsw]
      BY <1>2, <2>1
    <3>2. m \in MessageRow
      BY <1>3 DEF MessageRight
    <3> HIDE DEF n, m, v, x
    <3> DEFINE m1 == [m EXCEPT !.netshares = x]
    <3>3. m1 \in MessageRow /\ m1.sumcuratorsw = m.sumcuratorsw /\ m1.voteshares = m.voteshares
      BY <2>4, <3>2 DEF MessageRow
    <3>4. n = [m1 EXCEPT !.sumcuratorsw = m1.sumcuratorsw - v.curatorsw]
      BY <3>1
    <3>5. [m EXCEPT !.netshares = x, !.voteshares = m.voteshares, !.sumcuratorsw = z] =
            [[m1 EXCEPT !.voteshares = m.voteshares] EXCEPT !.sumcuratorsw = z]
      OBVIOUS
    <3> HIDE DEF m1
    <3>6. [m1 EXCEPT !.voteshares = m.voteshares] = m1
      BY <3>3 DEF MessageRow
    <3> QED BY <3>3, <3>4, <3>5, <3>6
  <2>6. DOMAIN messages' = DOMAIN ms /\ \A o \in DOMAIN ms \ {id} : messages'[o] = ms[o]
    BY <2>1
  <2> HIDE DEF n, x, z, v, qs, u
  <2>7. /\ MessageRight(n) /\ n.netshares = x
        /\ n.cashout_time = m.cashout_time /\ n.pool_date = d
    <3>1. /\ MessageRight(m) /\ m.voteshares \in Int
          /\ n = VotedRow(m, x, m.voteshares, z)
      BY <1>3, <1>4, <2>5 DEF VotedRow
    <3> HIDE DEF m
    <3>2. /\ MessageRight(n) /\ n.netshares = x
          /\ n.cashout_time = m.cashout_time /\ n.pool_date = m.pool_date
      BY <2>4, <3>1, MessageVoted
    <3> QED BY <3>2
  <2>8. /\ DOMAIN qs = DOMAIN ps /\ \A p \in DOMAIN ps \ {d} : qs[p] = ps[p]
        /\ IsPool(qs[d]) /\ qs[d].rules = ps[d].rules /\ qs[d].msgs = ps[d].msgs
        /\ qs[d].funds = ps[d].funds
        /\ qs[d].rshares = ps[d].rshares - m.netshares + x
        /\ qs[d].rsharesfn = ps[d].rsharesfn
                               + get_delta(ps[d].rules.mainfunc, m.netshares, x)
    <3> HIDE DEF ps, m, d
    <3>1. m.pool_date = d /\ qs = shifted(ps, m, x)
      BY DEF d, m, qs
    <3> QED BY <1>2, <1>3, <1>4, <2>4, <3>1, ShiftedPools
  <2>9. /\ DOMAIN pools' = DOMAIN qs /\ \A p \in DOMAIN qs \ {d} : pools'[p] = qs[p]
        /\ pools'[d] = qs[d]
    <3> DEFINE q == qs[d]
    <3>1. pools'[d] = [q EXCEPT !.rshares = u]
      BY <1>2, <2>1, <2>8
    <3>2. q = [rules |-> q.rules, msgs |-> q.msgs, funds |-> q.funds,
               rshares |-> u, rsharesfn |-> q.rsharesfn]
      BY <2>4, <2>8 DEF IsPool
    <3>3. DOMAIN pools' = DOMAIN qs /\ \A p \in DOMAIN qs \ {d} : pools'[p] = qs[p]
      BY <2>1
    <3> HIDE DEF q
    <3>4. [q EXCEPT !.rshares = u] = q
      BY <3>2
    <3> QED BY <3>1, <3>3, <3>4 DEF q
  <2>10. Books(pools', messages', astray, b, now)
    <3>1. messages'[id] = n
      BY DEF n
    <3>2. ms[id] = m /\ m.pool_date = d
      OBVIOUS
    <3>3. /\ DOMAIN pools' = DOMAIN ps /\ \A p \in DOMAIN ps \ {d} : pools'[p] = ps[p]
          /\ IsPool(pools'[d]) /\ pools'[d].rules = ps[d].rules
          /\ pools'[d].msgs = ps[d].msgs /\ pools'[d].funds = ps[d].funds
          /\ pools'[d].rshares = ps[d].rshares - m.netshares + x
          /\ pools'[d].rsharesfn = ps[d].rsharesfn
                                     + get_delta(ps[d].rules.mainfunc, m.netshares, x)
      BY <2>8, <2>9
    <3> HIDE DEF ps, ms, m, d
    <3> QED BY <1>1, <1>2, <1>5, <2>4, <2>6, <2>7, <3>1, <3>2, <3>3, SharesMove
  <2>11. votes'[<<id, voter>>] \in VoteRow
    <3> DEFINE S  == Seq([delegator : Account, interest_rate : Nat])
               v1 == [v EXCEPT !.weight = weight]
               v2 == [v1 EXCEPT !.curatorsw = 0]
               v3 == [v2 EXCEPT !.rshares = rshares]
               e  == (v3.count + 1) % 256
    <3>1. votes'[<<id, voter>>] = [v3 EXCEPT !.count = e]
      BY <1>8, <2>1
    <3>2. VoteRow = [weight : Int, count : Int, delegators : S, curatorsw : Int,
                     rshares : Int, paid_amount : Int]
      BY DEF VoteRow
    <3> HIDE DEF S
    <3>3. v1 \in VoteRow
      BY <2>2, <3>2
    <3> HIDE DEF v1
    <3>4. v2 \in VoteRow
      BY <3>2, <3>3
    <3> HIDE DEF v2
    <3>5. v3 \in VoteRow
      BY <3>2, <3>4
    <3> HIDE DEF v3
    <3>6. e \in Int
      BY <3>2, <3>5
    <3> HIDE DEF e
    <3> QED BY <3>1, <3>2, <3>5, <3>6
  <2>12. \A k \in DOMAIN votes' : votes'[k] \in VoteRow
    BY <1>6, <2>1, <2>11
  <2> QED BY <2>10, <2>12 DEF b
<1> QED BY <1>7, <1>8

\* set_vote: a first vote or a changed one, after the messages due are closed
LEMMA VoteBooks ==
  ASSUME BooksInv, IInv', NEW voter \in Account, NEW id \in DOMAIN messages, NEW weight \in Int,
         set_vote(voter, id, weight)
  PROVE  BooksInv'
<1> DEFINE c == closemssgs(pools, deferred)
<1>1. PICK vesting \in EffVesting :
        LET rshares == available_rshares(voter, weight, vesting) IN
        IF <<id, voter>> \in DOMAIN votes THEN revote(c, id, voter, weight, rshares)
        ELSE \E delegators \in DelegatorLists, count \in VoteCounts :
               new_vote(c, id, voter, weight, rshares, delegators, count)
  BY DEF set_vote
<1>2. /\ c.ok /\ ~closed(c.messages[id]) /\ messages[id].pool_date \in DOMAIN c.pools
      /\ can_vote(voter, abs_value(weight))
      /\ charges' = charged(charges, voter, "vote", vote_price(voter, abs_value(weight)))
      /\ UNCHANGED <<now, limits, balance, restorers, referrals, astray>>
  BY DEF set_vote, settings, history
<1> DEFINE rshares == available_rshares(voter, weight, vesting)
<1>3. rshares \in Int /\ ChargesInt(charges')
  BY <1>2, VoteNumbers, FewMessages
<1>4. \/ \E delegators \in DelegatorLists, count \in VoteCounts :
           new_vote(c, id, voter, weight, rshares, delegators, count)
      \/ revote(c, id, voter, weight, rshares) /\ <<id, voter>> \in DOMAIN votes
  BY <1>1
<1> DEFINE d == c
<1>5. d = closemssgs(pools, deferred)
  OBVIOUS
<1>6. /\ Books(pools', messages', astray, balance + astray.funds, now)
      /\ \A k \in DOMAIN votes' : votes'[k] \in VoteRow
  <2>1. /\ d.ok /\ ~closed(d.messages[id]) /\ messages[id].pool_date \in DOMAIN d.pools
        /\ \/ \E delegators \in DelegatorLists, count \in VoteCounts :
                new_vote(d, id, voter, weight, rshares, delegators, count)
           \/ revote(d, id, voter, weight, rshares) /\ <<id, voter>> \in DOMAIN votes
    BY <1>2, <1>4
  <2> HIDE DEF d, rshares
  <2> QED BY <1>3, <1>5, <2>1, VoteMoves
<1>7. Sides'
  BY <1>2, <1>3, <1>6, FewMessages DEF Sides, ChargesInt
<1>8. Books(pools', messages', astray', balance' + astray'.funds, now')
  BY <1>2, <1>6
<1> QED BY <1>7, <1>8, BooksNext

\* upvote, downvote and unvote are votes of some weight.
LEMMA VotingBooks ==
  ASSUME BooksInv, IInv', Voting
  PROVE  BooksInv'
<1>1. PICK voter \in Account, id \in DOMAIN messages :
        \/ \E w \in Percents : upvote(voter, id, w) \/ downvote(voter, id, w)
        \/ unvote(voter, id)
  BY DEF Voting
<1>2. \E weight \in Int : set_vote(voter, id, weight)
  <2>1. CASE \E w \in Percents : upvote(voter, id, w) \/ downvote(voter, id, w)
    <3>1. PICK w \in Percents : upvote(voter, id, w) \/ downvote(voter, id, w)
      BY <2>1
    <3>2. w \in Int /\ -w \in Int
      BY AmountsAssumption
    <3>3. set_vote(voter, id, w) \/ set_vote(voter, id, -w)
      BY <3>1 DEF upvote, downvote
    <3> QED BY <3>2, <3>3
  <2>2. CASE unvote(voter, id)
    BY <2>2 DEF unvote
  <2> QED BY <1>1, <2>1, <2>2
<1> QED BY <1>2, VoteBooks

----------------------------------------------------------------------------
(* New messages *)

\* A pool with another count
MsgsSet(p, k) == [p EXCEPT !.msgs = k]

\* It is a pool that is the same otherwise.
LEMMA PoolCounted ==
  ASSUME NEW p, IsPool(p), NEW k \in 0 .. CounterRange - 1, NEW n, n = MsgsSet(p, k)
  PROVE  /\ IsPool(n) /\ n.rules = p.rules /\ n.msgs = k /\ n.funds = p.funds
         /\ n.rshares = p.rshares /\ n.rsharesfn = p.rsharesfn
<1>1. p = [rules |-> p.rules, msgs |-> p.msgs, funds |-> p.funds,
           rshares |-> p.rshares, rsharesfn |-> p.rsharesfn]
  BY DEF IsPool
<1>2. n = [rules |-> p.rules, msgs |-> k, funds |-> p.funds,
           rshares |-> p.rshares, rsharesfn |-> p.rsharesfn]
  BY <1>1 DEF MsgsSet
<1>3. /\ p.funds \in Int /\ p.rshares \in Int /\ p.rsharesfn \in Int /\ IsRules(p.rules)
  BY PoolFields
<1> QED BY <1>2, <1>3 DEF IsPool

\* A new message has no shares, and its pool counts one more.
LEMMA MessageAdded ==
  ASSUME NEW ps, NEW ms, NEW a, NEW b, NEW t \in Nat, Books(ps, ms, a, b, t),
         IsFiniteSet(DOMAIN ms),
         \A p \in DOMAIN a.msgs : a.msgs[p] \in Int, \A p \in DOMAIN a.shares : a.shares[p] \in Int,
         NEW id, id \notin DOMAIN ms, NEW d \in DOMAIN ps,
         Cardinality(OpenIn(ms, d)) < CounterRange - 1, ps[d].msgs < CounterRange - 1,
         NEW n, MessageRight(n), ~closed(n), n.pool_date = d, n.cashout_time > t,
         n.netshares = 0, NEW ns, ns = Put(ms, id, n), NEW qs, qs = counted(ps, d)
  PROVE  Books(qs, ns, a, b, t)
<1>1. /\ DOMAIN ns = DOMAIN ms \union {id} /\ ns[id] = n
      /\ \A o \in DOMAIN ms : ns[o] = ms[o]
  BY DEF Put
<1>2. /\ DOMAIN qs = DOMAIN ps /\ \A p \in DOMAIN ps \ {d} : qs[p] = ps[p]
      /\ qs[d] = MsgsSet(ps[d], ps[d].msgs + 1)
  BY DEF counted, MsgsSet
<1>3. IsPool(ps[d]) /\ IsRules(ps[d].rules) /\ ps[d].msgs \in 0 .. CounterRange - 1
  BY PoolFields DEF Books
<1>4. CounterRange \in Nat \ {0}
  BY BoundsAssumption
<1>5. /\ IsPool(qs[d]) /\ qs[d].rules = ps[d].rules /\ qs[d].msgs = ps[d].msgs + 1
      /\ qs[d].funds = ps[d].funds /\ qs[d].rshares = ps[d].rshares
      /\ qs[d].rsharesfn = ps[d].rsharesfn
  <2> DEFINE p == ps[d]
             np == qs[d]
             k == ps[d].msgs + 1
  <2>1. k \in 0 .. CounterRange - 1
    BY <1>3, <1>4
  <2>2. IsPool(p) /\ np = MsgsSet(p, k)
    BY <1>2, <1>3
  <2> HIDE DEF p, np, k
  <2>3. /\ IsPool(np) /\ np.rules = p.rules /\ np.msgs = k /\ np.funds = p.funds
        /\ np.rshares = p.rshares /\ np.rsharesfn = p.rsharesfn
    BY <2>1, <2>2, PoolCounted
  <2> QED BY <2>3 DEF np, p, k
<1>6. /\ OpenIn(ns, d) = OpenIn(ms, d) \union {id} /\ id \notin OpenIn(ms, d)
      /\ \A p : p # d => OpenIn(ns, p) = OpenIn(ms, p)
      /\ ClosedOf(ns) = ClosedOf(ms)
  BY <1>1 DEF OpenIn, ClosedOf
<1>7. /\ IsFiniteSet(OpenIn(ms, d)) /\ OpenIn(ms, d) \subseteq DOMAIN ms
      /\ Cardinality(OpenIn(ms, d)) \in Nat
  <2>1. OpenIn(ms, d) \in SUBSET DOMAIN ms
    BY DEF OpenIn
  <2> QED BY <2>1, FS_Subset, FS_CardinalityType
<1>8. Counted(qs, ns, a)
  <2>1. \A p \in DOMAIN ps : (ps[p].msgs + at(a.msgs, p)) % CounterRange = Cardinality(OpenIn(ms, p))
    BY DEF Books, Counted
  <2>2. at(a.msgs, d) \in Int
    BY DEF at
  <2> DEFINE x == ps[d].msgs + at(a.msgs, d)
  <2>3. x \in Int /\ qs[d].msgs + at(a.msgs, d) = x + 1
    BY <1>3, <1>5, <2>2
  <2>4. (x % CounterRange) = Cardinality(OpenIn(ms, d))
    BY <2>1
  <2> HIDE DEF x
  <2>5. (x + 1) % CounterRange = Cardinality(OpenIn(ms, d)) + 1
    <3>1. (x % CounterRange) < CounterRange - 1
      BY <2>4
    <3>2. (x + 1) % CounterRange = (x % CounterRange) + 1
      BY <1>4, <2>3, <3>1, CountsUp
    <3> QED BY <2>4, <3>2
  <2>6. Cardinality(OpenIn(ns, d)) = Cardinality(OpenIn(ms, d)) + 1
    <3> DEFINE S == OpenIn(ms, d)
    <3>1. IsFiniteSet(S) /\ id \notin S /\ OpenIn(ns, d) = S \union {id}
      BY <1>6, <1>7
    <3> HIDE DEF S
    <3>2. Cardinality(S \union {id}) = Cardinality(S) + 1
      BY <3>1, FS_AddElement
    <3> QED BY <3>1, <3>2 DEF S
  <2>7. (qs[d].msgs + at(a.msgs, d)) % CounterRange = Cardinality(OpenIn(ns, d))
    BY <2>3, <2>5, <2>6
  <2>8. \A p \in DOMAIN qs \ {d} :
          (qs[p].msgs + at(a.msgs, p)) % CounterRange = Cardinality(OpenIn(ns, p))
    BY <1>2, <1>6, <2>1
  <2> QED BY <2>7, <2>8 DEF Counted
<1>9. Summed(qs, ns, a)
  <2>1. Summed(ps, ms, a)
    BY DEF Books
  <2>2. ASSUME NEW p \in DOMAIN ps, p # d
        PROVE  /\ qs[p].rshares = Total([o \in OpenIn(ns, p) |-> ns[o].netshares])
                                    + at(a.shares, p)
               /\ qs[p].rules.mainfunc[0] = 0 =>
                    qs[p].rsharesfn = Total([o \in OpenIn(ns, p) |->
                                        run(qs[p].rules.mainfunc, ns[o].netshares)])
    <3>1. \A o \in OpenIn(ms, p) : ns[o] = ms[o]
      BY <1>1 DEF OpenIn
    <3>2. qs[p] = ps[p] /\ OpenIn(ns, p) = OpenIn(ms, p)
      BY <1>2, <1>6, <2>2
    <3>3. /\ [o \in OpenIn(ns, p) |-> ns[o].netshares] =
               [o \in OpenIn(ms, p) |-> ms[o].netshares]
          /\ [o \in OpenIn(ns, p) |-> run(qs[p].rules.mainfunc, ns[o].netshares)] =
               [o \in OpenIn(ms, p) |-> run(ps[p].rules.mainfunc, ms[o].netshares)]
      BY <3>1, <3>2
    <3> QED BY <2>1, <2>2, <3>2, <3>3 DEF Summed
  <2> DEFINE S == OpenIn(ms, d)
             f == ps[d].rules.mainfunc
             x == [o \in S |-> ms[o].netshares]
             y == [o \in OpenIn(ns, d) |-> ns[o].netshares]
             v == [o \in S |-> run(f, ms[o].netshares)]
             w == [o \in OpenIn(ns, d) |-> run(f, ns[o].netshares)]
  <2>3. ps[d].rshares = Total(x) + at(a.shares, d) /\ (f[0] = 0 => ps[d].rsharesfn = Total(v))
    BY <2>1 DEF Summed
  <2>4. (\A z \in Int : run(f, z) \in Int) /\ run(f, 0) = f[0]
    <3>1. \A z \in Int : run(f, z) \in Int
      BY <1>3, RunInt
    <3>2. maxarg(f) \in Nat
      BY <1>3 DEF IsRules
    <3> QED BY <3>1, <3>2 DEF run
  <2>5. \A o \in DOMAIN ms : ms[o].netshares \in Int
    BY DEF Books, MessageRight, MessageRow
  <2> HIDE DEF f
  <2>6. /\ DOMAIN x = S /\ DOMAIN y = S \union {id}
        /\ y[id] = 0
        /\ \A o \in S : x[o] \in Int /\ y[o] = x[o]
    BY <1>1, <1>6, <1>7, <2>5
  <2>7. /\ DOMAIN v = S /\ DOMAIN w = S \union {id}
        /\ w[id] = f[0] /\ f[0] \in Int
        /\ \A o \in S : v[o] \in Int /\ w[o] = v[o]
    BY <1>1, <1>6, <1>7, <2>4, <2>5
  <2>8. IsFiniteSet(S) /\ id \notin S
    BY <1>6, <1>7
  <2> HIDE DEF x, y, v, w, S
  <2>9. Total(y) = Total(x)
    <3>1. Total(y) = Total(x) + y[id] /\ Total(x) \in Int
      BY <2>6, <2>8, TotalInsert, TotalInt
    <3> QED BY <2>6, <3>1
  <2>10. f[0] = 0 => Total(w) = Total(v)
    <3>1. Total(w) = Total(v) + w[id] /\ Total(v) \in Int
      BY <2>7, <2>8, TotalInsert, TotalInt
    <3> QED BY <2>7, <3>1
  <2>11. /\ qs[d].rshares = Total(y) + at(a.shares, d)
         /\ f[0] = 0 => qs[d].rsharesfn = Total(w)
    BY <1>5, <2>3, <2>9, <2>10
  <2>12. /\ w = [o \in OpenIn(ns, d) |-> run(qs[d].rules.mainfunc, ns[o].netshares)]
         /\ f = qs[d].rules.mainfunc
    BY <1>5 DEF w, f
  <2> QED BY <1>2, <2>2, <2>11, <2>12 DEF Summed, y
<1>10. Promised(ns) = Promised(ms)
  <2>1. \A o \in ClosedOf(ms) : ns[o] = ms[o]
    BY <1>1 DEF ClosedOf
  <2>2. [o \in ClosedOf(ns) |-> ns[o].mssg_reward - ns[o].paid_amount] =
          [o \in ClosedOf(ms) |-> ms[o].mssg_reward - ms[o].paid_amount]
    BY <1>6, <2>1
  <2> QED BY <2>2 DEF Promised
<1>11. funds_of(qs) = funds_of(ps)
  <2>1. [p \in DOMAIN qs |-> qs[p].funds] = [p \in DOMAIN ps |-> ps[p].funds]
    BY <1>2, <1>5
  <2> QED BY <2>1 DEF funds_of
<1>12. Young(qs, ns, a, t)
  <2>1. Young(ps, ms, a, t) /\ d <= t
    BY DEF Books
  <2> QED BY <1>1, <1>2, <1>6, <2>1 DEF Young
<1>13. DOMAIN qs \subseteq 0 .. t /\ \A p \in DOMAIN qs : IsPool(qs[p])
  BY <1>2, <1>5 DEF Books
<1>14. \A o \in DOMAIN ns : MessageRight(ns[o])
  BY <1>1 DEF Books
<1> QED BY <1>8, <1>9, <1>10, <1>11, <1>12, <1>13, <1>14 DEF Books

\* The author's referrer gets a share that fits.
LEMMA ReferrerFits ==
  ASSUME Sides, NEW author, NEW map \in Beneficiaries, NEW vested,
         beneficiaries_ok(map, vested), NEW bens \in with_referrer(author, map)
  PROVE  /\ bens \in UNION {[S -> 0 .. Whole] : S \in SUBSET Account}
         /\ Total(bens) <= Whole
<1> DEFINE r == IF params.referral_acc THEN Ref!account_referrer(author) ELSE {}
           x == referrals[author].referrer
           percent == referrals[author].percent
<1>1. PICK S \in SUBSET Account : map \in [S -> Nat]
  BY AmountsAssumption
<1>2. Whole \in Nat /\ IsFiniteSet(S)
  BY <1>1, AmountsAssumption, BoundsAssumption, FS_Subset
<1>3. map \in [S -> 0 .. Whole] /\ Total(map) <= Whole
  BY <1>1, <1>2 DEF beneficiaries_ok
<1>4. CASE r = {}
  <2>1. bens = map
    BY <1>4 DEF with_referrer
  <2> QED BY <1>3, <2>1
<1>5. CASE r # {}
  <2>1. /\ x \notin DOMAIN map /\ ~(Total(map) + percent > Whole)
        /\ bens = Put(map, x, percent)
    BY <1>5 DEF with_referrer
  <2>2. author \in DOMAIN referrals
    BY <1>5 DEF Ref!account_referrer
  <2>3. x \in Account /\ percent \in Nat
    BY <2>2 DEF Sides
  <2> HIDE DEF x, percent
  <2>4. DOMAIN map = S /\ \A y \in S : map[y] \in Nat /\ map[y] \in 0 .. Whole
    BY <1>1, <1>3
  <2>5. Total(map) \in Nat
    BY <1>2, <2>4, TotalNat
  <2>6. percent \in 0 .. Whole
    BY <1>2, <2>1, <2>3, <2>5
  <2>7. /\ bens = [y \in S \union {x} |-> IF y = x THEN percent ELSE map[y]]
        /\ DOMAIN bens = S \union {x}
        /\ bens[x] = percent /\ \A y \in S : bens[y] = map[y]
    BY <2>1, <2>4 DEF Put
  <2>8. Total(bens) = Total(map) + bens[x]
    <3>1. /\ IsFiniteSet(DOMAIN map) /\ x \notin DOMAIN map /\ DOMAIN bens = DOMAIN map \union {x}
          /\ bens[x] \in Int /\ \A y \in DOMAIN map : map[y] \in Int /\ bens[y] = map[y]
      BY <1>2, <2>1, <2>3, <2>4, <2>7
    <3> QED BY <3>1, TotalInsert
  <2>9. S \union {x} \in SUBSET Account
    BY <2>3
  <2>10. \A y \in S \union {x} : (IF y = x THEN percent ELSE map[y]) \in 0 .. Whole
    BY <2>4, <2>6
  <2>11. bens \in [S \union {x} -> 0 .. Whole]
    BY <2>7, <2>10
  <2>12. bens \in UNION {[T -> 0 .. Whole] : T \in SUBSET Account}
    BY <2>9, <2>11
  <2>13. Total(bens) <= Whole
    BY <1>2, <2>1, <2>3, <2>5, <2>7, <2>8
  <2> QED BY <2>12, <2>13
<1> QED BY <1>4, <1>5

\* What is charged for an act is a number.
LEMMA ChargedInt ==
  ASSUME Sides, NEW table, ChargesInt(table), NEW user, NEW act \in DOMAIN limits,
         limits[act].price >= 0 => Chg!can_calc(table, user, limits[act].charge_id)
  PROVE  ChargesInt(charged(table, user, act, limits[act].price))
<1> DEFINE price == limits[act].price
           id == limits[act].charge_id
<1>1. price \in Int
  BY DEF Sides
<1>2. CASE price < 0
  BY <1>2 DEF charged
<1>3. CASE ~(price < 0)
  <2>1. charged(table, user, act, price) = Chg!consume_charge(table, user, id, price)
    BY <1>3 DEF charged
  <2>2. Chg!can_calc(table, user, id)
    BY <1>1, <1>3
  <2> HIDE DEF price, id
  <2>3. ChargesInt(Chg!consume_charge(table, user, id, price))
    BY <1>1, <2>2, ConsumeInt
  <2> QED BY <2>1, <2>3 DEF price
<1> QED BY <1>2, <1>3

\* Everything that was due is closed first; then the new message joins the last
\* of the pools that are left.
LEMMA CreateBooks ==
  ASSUME BooksInv, IInv', NEW author \in Account, NEW link,
         NEW parent, NEW map \in Beneficiaries,
         NEW tokenprop \in TokenProps, NEW prcnt \in CuratorPrcnts, NEW payout \in MaxPayouts,
         createmssg(author, link, parent, map, tokenprop, prcnt, payout)
  PROVE  BooksInv'
<1> DEFINE c    == closemssgs(pools, deferred)
           ps   == c.pools
           ms   == c.messages
           d    == last_pool(ps)
           act  == IF parent = Root THEN "post" ELSE "comment"
           used == charged(charges, author, act, limits[act].price)
           id   == last_id + 1
           b    == balance + astray.funds
<1>1. /\ id <= MaxId /\ params # NoParams /\ c.ok /\ DOMAIN pools # {}
      /\ limit_ok(act) /\ can_charge(charges, author, act, limits[act].price)
      /\ parent = Root => can_postbw(used, author)
      /\ ps[d].msgs < CounterRange - 1
      /\ pools' = counted(ps, d)
      /\ charges' = IF parent = Root THEN postbw(used, author) ELSE used
      /\ UNCHANGED <<now, limits, votes, balance, restorers, referrals, astray>>
  BY DEF createmssg, settings, history
<1>2. PICK vested \in Vested : beneficiaries_ok(map, vested)
  BY DEF createmssg
<1> DEFINE row(bens) ==
             [date |-> now, pool_date |-> d, tokenprop |-> tokenprop,
              beneficiaries |-> bens,
              rewardweight |-> IF parent = Root THEN reward_weight(used, author) ELSE Whole,
              netshares |-> 0, voteshares |-> 0, sumcuratorsw |-> 0,
              curators_prcnt |-> prcnt, cashout_time |-> now + params.cashout_window.window,
              mssg_reward |-> 0, max_payout |-> payout, paid_amount |-> 0]
<1>3. PICK bens \in with_referrer(author, map) : messages' = Put(ms, id, row(bens))
  BY DEF createmssg
<1>4. /\ Books(ps, ms, astray, b, now) /\ DOMAIN ms = DOMAIN messages /\ DOMAIN ps # {}
  <2>1. Books(pools, messages, astray, b, now) /\ b \in Int
    BY FewMessages
  <2>2. closemssgs(pools, deferred).ok /\ DOMAIN pools # {}
    BY <1>1
  <2> HIDE DEF b
  <2>3. /\ Books(closemssgs(pools, deferred).pools, closemssgs(pools, deferred).messages,
                 astray, b, now)
        /\ DOMAIN closemssgs(pools, deferred).messages = DOMAIN messages
        /\ DOMAIN pools # {} => DOMAIN closemssgs(pools, deferred).pools # {}
    BY <2>1, <2>2, ClosingKeeps
  <2> QED BY <2>2, <2>3
<1>5. now \in Nat /\ Sides /\ IInv /\ IsFiniteSet(DOMAIN ms)
  BY <1>4, FewMessages
<1>6. last_id \in Nat /\ DOMAIN messages \subseteq 1 .. last_id /\ MaxId \in Nat
      /\ MaxId < CounterRange /\ CounterRange \in Nat
  BY <1>5, BoundsAssumption DEF IInv, Keys
<1>7. params.cashout_window.window \in Nat \ {0}
  BY <1>1, <1>5 DEF IInv, WindowSound
<1> HIDE DEF c, b
<1>8. d \in DOMAIN ps /\ d \in Nat
  <2>1. DOMAIN ps \subseteq 0 .. now
    BY <1>4 DEF Books
  <2> HIDE DEF ps
  <2>2. d \in DOMAIN ps
    BY <1>4, <1>5, <2>1, LastPool
  <2> QED BY <1>5, <2>1, <2>2
<1>9. id \notin DOMAIN ms
  BY <1>4, <1>6
<1>10. Cardinality(OpenIn(ms, d)) < CounterRange - 1
  <2>1. OpenIn(ms, d) \in SUBSET (1 .. last_id)
    BY <1>4, <1>6 DEF OpenIn
  <2>2. IsFiniteSet(1 .. last_id) /\ Cardinality(1 .. last_id) = last_id
    BY <1>6, FS_Interval
  <2> DEFINE S == OpenIn(ms, d)
  <2>3. S \subseteq 1 .. last_id
    BY <2>1
  <2> HIDE DEF S
  <2>4. Cardinality(S) <= last_id /\ Cardinality(S) \in Nat
    BY <2>2, <2>3, FS_Subset, FS_CardinalityType
  <2> QED BY <1>1, <1>6, <2>4 DEF S
<1>11. ChargesInt(charges')
  <2>1. limits[act].price >= 0 => Chg!can_calc(charges, author, limits[act].charge_id)
    BY <1>1 DEF limit_ok, can_charge, Chg!may_consume
  <2>2. ChargesInt(charges) /\ act \in DOMAIN limits
    BY <1>1, <1>5 DEF Sides, ChargesInt, limit_ok
  <2> HIDE DEF act
  <2>3. ChargesInt(used)
    BY <1>5, <2>1, <2>2, ChargedInt
  <2> HIDE DEF used
  <2>4. CASE parent = Root
    <3> DEFINE bw == "post bandwidth"
    <3>1. bw \in DOMAIN limits
          /\ (limits[bw].price >= 0 => Chg!can_calc(used, author, limits[bw].charge_id))
      BY <1>1, <2>4 DEF can_postbw, limit_ok
    <3>2. charges' = charged(used, author, bw, limits[bw].price)
      BY <1>1, <2>4 DEF postbw
    <3> HIDE DEF bw
    <3> QED BY <1>5, <2>3, <3>1, <3>2, ChargedInt
  <2>5. CASE parent # Root
    BY <1>1, <2>3, <2>5
  <2> QED BY <2>4, <2>5
<1> DEFINE n == row(bens)
<1>12. /\ bens \in UNION {[S -> 0 .. Whole] : S \in SUBSET Account}
       /\ Total(bens) <= Whole
  BY <1>2, <1>5, ReferrerFits
<1>13. /\ n \in MessageRow /\ n.beneficiaries = bens /\ n.paid_amount = 0 /\ n.pool_date = d
       /\ n.cashout_time > now /\ n.cashout_time \in Nat /\ n.netshares = 0
  <2> DEFINE w == IF parent = Root THEN reward_weight(used, author) ELSE Whole
             z == now + params.cashout_window.window
             B == UNION {[S -> 0 .. Whole] : S \in SUBSET Account}
  <2>1. /\ tokenprop \in Nat /\ prcnt \in Nat /\ payout \in Nat /\ Whole \in Nat
    BY AmountsAssumption
  <2>2. w \in 0 .. Whole
    <3> HIDE DEF used
    <3>1. parent = Root => can_postbw(used, author)
      BY <1>1 DEF used
    <3>2. parent = Root => reward_weight(used, author) \in 0 .. Whole
      BY <3>1, Zenon DEF can_postbw
    <3>3. Whole \in 0 .. Whole
      BY <2>1
    <3> QED BY <3>2, <3>3
  <2>3. z \in Nat /\ z > now
    <3> DEFINE k == params.cashout_window.window
    <3>1. k \in Nat \ {0} /\ now \in Nat /\ z = now + k
      BY <1>5, <1>7
    <3> HIDE DEF k, z
    <3> QED BY <3>1
  <2>4. bens \in B
    BY <1>12
  <2>5. MessageRow =
          [date : Nat, pool_date : Nat, tokenprop : Nat, beneficiaries : B,
           rewardweight : 0 .. Whole, netshares : Int, voteshares : Int, sumcuratorsw : Int,
           curators_prcnt : Nat, cashout_time : Int, mssg_reward : Int, max_payout : Nat,
           paid_amount : Int]
    BY DEF MessageRow
  <2>6. n = [date |-> now, pool_date |-> d, tokenprop |-> tokenprop,
             beneficiaries |-> bens, rewardweight |-> w,
             netshares |-> 0, voteshares |-> 0, sumcuratorsw |-> 0,
             curators_prcnt |-> prcnt, cashout_time |-> z,
             mssg_reward |-> 0, max_payout |-> payout, paid_amount |-> 0]
    OBVIOUS
  <2>7. d \in Nat /\ now \in Nat
    BY <1>5, <1>8
  <2> HIDE DEF w, z, B, n, d
  <2>8. n \in MessageRow
    BY <2>1, <2>2, <2>3, <2>4, <2>5, <2>6, <2>7
  <2> QED BY <2>3, <2>6, <2>8
<1> HIDE DEF n, row, d, ps, ms
<1>14. MessageRight(n) /\ ~closed(n)
  BY <1>12, <1>13 DEF MessageRight, closed, Never
<1>15. messages' = Put(ms, id, n)
  BY <1>3 DEF n
<1> HIDE DEF id
<1>16. Books(pools', messages', astray, b, now)
  <2>1. /\ \A p \in DOMAIN astray.msgs : astray.msgs[p] \in Int
        /\ \A p \in DOMAIN astray.shares : astray.shares[p] \in Int
    BY <1>5 DEF Sides
  <2>2. pools' = counted(ps, d) /\ ps[d].msgs < CounterRange - 1
    BY <1>1
  <2> QED BY <1>4, <1>5, <1>8, <1>9, <1>10, <1>13, <1>14, <1>15, <2>1, <2>2, MessageAdded
<1>17. Sides'
  BY <1>1, <1>5, <1>11 DEF Sides, ChargesInt
<1>18. Books(pools', messages', astray', balance' + astray'.funds, now')
  BY <1>1, <1>16 DEF b
<1> QED BY <1>17, <1>18, BooksNext

----------------------------------------------------------------------------
(* Deletions *)

\* A deleted message leaves its pool's count and stays in its sums; a closed one
\* leaves the count a second time.
LEMMA MessageDropped ==
  ASSUME NEW ps, NEW ms, NEW a, NEW b, NEW t \in Nat, Books(ps, ms, a, b, t),
         IsFiniteSet(DOMAIN ms),
         \A p \in DOMAIN a.msgs : a.msgs[p] \in Int, \A p \in DOMAIN a.shares : a.shares[p] \in Int,
         NEW id \in DOMAIN ms, NEW d \in DOMAIN ps, ms[id].pool_date = d,
         ms[id].netshares <= 0, closed(ms[id]) => ms[id].mssg_reward = 0,
         NEW ns, ns = Drop(ms, id),
         NEW qs, DOMAIN qs = DOMAIN ps, \A p \in DOMAIN ps \ {d} : qs[p] = ps[p],
         qs[d] = MsgsSet(ps[d], (ps[d].msgs - 1) % CounterRange),
         NEW e,
         e.msgs = IF closed(ms[id]) THEN Put(a.msgs, d, at(a.msgs, d) + 1) ELSE a.msgs,
         e.shares = IF closed(ms[id]) THEN a.shares
                    ELSE Put(a.shares, d, at(a.shares, d) + ms[id].netshares)
  PROVE  Books(qs, ns, e, b, t)
<1> DEFINE m == ms[id]
           N == CounterRange
           x == ps[d].msgs
           S == OpenIn(ms, d)
           u == at(a.msgs, d)
           v == at(a.shares, d)
<1>1. DOMAIN ns = DOMAIN ms \ {id} /\ \A o \in DOMAIN ms \ {id} : ns[o] = ms[o]
  BY DEF Drop
<1>2. N \in Nat \ {0}
  BY BoundsAssumption
<1>3. /\ IsPool(ps[d]) /\ IsRules(ps[d].rules) /\ x \in Int
      /\ ps[d].rshares \in Int /\ ps[d].rsharesfn \in Int
  BY PoolFields DEF Books
<1>4. u \in Int /\ v \in Int
  <2>1. u \in Int
    <3>1. CASE d \in DOMAIN a.msgs
      BY <3>1 DEF at
    <3>2. CASE d \notin DOMAIN a.msgs
      BY <3>2 DEF at
    <3> QED BY <3>1, <3>2
  <2>2. v \in Int
    <3>1. CASE d \in DOMAIN a.shares
      BY <3>1 DEF at
    <3>2. CASE d \notin DOMAIN a.shares
      BY <3>2 DEF at
    <3> QED BY <3>1, <3>2
  <2> QED BY <2>1, <2>2
<1>5. MessageRight(m) /\ m \in MessageRow /\ m.netshares \in Int
  BY DEF Books, MessageRight, MessageRow
<1>6. ((x - 1) % N) \in 0 .. N - 1
  <2> HIDE DEF N, x
  <2>1. x - 1 \in Int
    BY <1>3
  <2> QED BY <1>2, <2>1, Remainder
<1>7. /\ IsPool(qs[d]) /\ qs[d].rules = ps[d].rules /\ qs[d].msgs = (x - 1) % N
      /\ qs[d].funds = ps[d].funds /\ qs[d].rshares = ps[d].rshares
      /\ qs[d].rsharesfn = ps[d].rsharesfn
  <2> DEFINE p == ps[d]
             np == qs[d]
             k == (x - 1) % N
  <2>1. k \in 0 .. CounterRange - 1 /\ IsPool(p) /\ np = MsgsSet(p, k)
    BY <1>3, <1>6
  <2> HIDE DEF p, np, k
  <2>2. /\ IsPool(np) /\ np.rules = p.rules /\ np.msgs = k /\ np.funds = p.funds
        /\ np.rshares = p.rshares /\ np.rsharesfn = p.rsharesfn
    BY <2>1, PoolCounted
  <2> QED BY <2>2 DEF np, p, k
<1>8. /\ IsFiniteSet(S) /\ S \subseteq DOMAIN ms /\ Cardinality(S) \in Nat
  <2>1. S \in SUBSET DOMAIN ms
    BY DEF OpenIn
  <2> QED BY <2>1, FS_Subset, FS_CardinalityType
<1>9. /\ OpenIn(ns, d) = S \ {id} /\ \A p : p # d => OpenIn(ns, p) = OpenIn(ms, p)
      /\ ClosedOf(ns) = ClosedOf(ms) \ {id}
      /\ id \in S <=> ~closed(m)
  BY <1>1 DEF OpenIn, ClosedOf
<1>10. \A p : p # d => at(e.msgs, p) = at(a.msgs, p) /\ at(e.shares, p) = at(a.shares, p)
  BY DEF at, Put
<1>11. /\ at(e.msgs, d) = IF closed(m) THEN u + 1 ELSE u
       /\ at(e.shares, d) = IF closed(m) THEN v ELSE v + m.netshares
  BY DEF at, Put
<1>12. Counted(ps, ms, a) /\ Summed(ps, ms, a) /\ Young(ps, ms, a, t)
  BY DEF Books
<1>13. ((x + u) % N) = Cardinality(S)
  BY <1>12 DEF Counted
<1>14. /\ ps[d].rshares = Total([o \in S |-> ms[o].netshares]) + v
       /\ ps[d].rules.mainfunc[0] = 0 =>
            ps[d].rsharesfn = Total([o \in S |-> run(ps[d].rules.mainfunc, ms[o].netshares)])
  BY <1>12 DEF Summed
<1> HIDE DEF m, N, x, S, u, v
<1>15. (qs[d].msgs + at(e.msgs, d)) % N = Cardinality(OpenIn(ns, d))
  <2>1. CASE closed(m)
    <3>1. (((x - 1) % N) + (u + 1)) % N = ((x - 1) + (u + 1)) % N
      <4>1. x - 1 \in Int /\ u + 1 \in Int
        BY <1>3, <1>4
      <4> QED BY <1>2, <4>1, WrapsTwice
    <3>2. (x - 1) + (u + 1) = x + u
      BY <1>3, <1>4
    <3>3. OpenIn(ns, d) = S
      BY <1>9, <2>1
    <3> QED BY <1>7, <1>11, <1>13, <2>1, <3>1, <3>2, <3>3
  <2>2. CASE ~closed(m)
    <3>1. (((x - 1) % N) + u) % N = ((x - 1) + u) % N
      <4>1. x - 1 \in Int
        BY <1>3
      <4> QED BY <1>2, <1>4, <4>1, WrapsTwice
    <3>2. (x - 1) + u = (x + u) - 1 /\ x + u \in Int
      BY <1>3, <1>4
    <3>3. Cardinality(S \ {id}) = Cardinality(S) - 1 /\ Cardinality(S) > 0
      <4>1. id \in S
        BY <1>9, <2>2
      <4>2. Cardinality(S \ {id}) = Cardinality(S) - 1
        BY <1>8, <4>1, FS_RemoveElement
      <4>3. Cardinality(S) # 0
        BY <1>8, <4>1, FS_EmptySet
      <4> QED BY <1>8, <4>2, <4>3
    <3> DEFINE y == x + u
    <3>4. (y % N) > 0 /\ y \in Int
      BY <1>13, <3>2, <3>3
    <3> HIDE DEF y
    <3>5. ((y - 1) % N) = (y % N) - 1
      BY <1>2, <3>4, CountsDown
    <3>6. (((x + u) - 1) % N) = Cardinality(S) - 1
      BY <1>13, <3>5 DEF y
    <3> QED BY <1>7, <1>9, <1>11, <2>2, <3>1, <3>2, <3>3, <3>6
  <2> QED BY <2>1, <2>2
<1>16. Counted(qs, ns, e)
  <2>1. \A p \in DOMAIN qs \ {d} :
          (qs[p].msgs + at(e.msgs, p)) % CounterRange = Cardinality(OpenIn(ns, p))
    BY <1>9, <1>10, <1>12 DEF Counted
  <2> QED BY <1>15, <2>1 DEF Counted, N
<1>17. /\ qs[d].rshares = Total([o \in OpenIn(ns, d) |-> ns[o].netshares]) + at(e.shares, d)
       /\ qs[d].rules.mainfunc[0] = 0 =>
            qs[d].rsharesfn = Total([o \in OpenIn(ns, d) |->
                                run(qs[d].rules.mainfunc, ns[o].netshares)])
  <2> DEFINE f == ps[d].rules.mainfunc
             n == [o \in S |-> ms[o].netshares]
             n2 == [o \in OpenIn(ns, d) |-> ns[o].netshares]
             w == [o \in S |-> run(f, ms[o].netshares)]
             w2 == [o \in OpenIn(ns, d) |-> run(f, ns[o].netshares)]
  <2>1. \A o \in S : ms[o].netshares \in Int
    BY <1>8 DEF Books, MessageRight, MessageRow
  <2>2. \A z \in Int : run(f, z) \in Int
    BY <1>3, RunInt
  <2>3. run(f, m.netshares) = f[0]
    <3>1. maxarg(f) \in Nat
      BY <1>3 DEF IsRules
    <3>2. m.netshares < 0 \/ m.netshares = 0
      BY <1>5 DEF m
    <3> HIDE DEF f
    <3> QED BY <3>1, <3>2 DEF run
  <2>4. \A o \in S \ {id} : ns[o] = ms[o]
    BY <1>1, <1>8
  <2> HIDE DEF f
  <2>5. /\ DOMAIN n = S /\ DOMAIN n2 = S \ {id}
        /\ \A o \in S : n[o] = ms[o].netshares /\ n[o] \in Int
        /\ \A o \in S \ {id} : n2[o] = n[o]
    BY <1>9, <2>1, <2>4
  <2>6. /\ DOMAIN w = S /\ DOMAIN w2 = S \ {id}
        /\ \A o \in S : w[o] = run(f, ms[o].netshares) /\ w[o] \in Int
        /\ \A o \in S \ {id} : w2[o] = w[o]
    BY <1>9, <2>1, <2>2, <2>4
  <2>7. ps[d].rshares = Total(n) + v /\ (f[0] = 0 => ps[d].rsharesfn = Total(w))
    BY <1>14 DEF f
  <2>8. /\ n2 = [o \in OpenIn(ns, d) |-> ns[o].netshares]
        /\ w2 = [o \in OpenIn(ns, d) |-> run(qs[d].rules.mainfunc, ns[o].netshares)]
        /\ f = qs[d].rules.mainfunc
    BY <1>7 DEF f
  <2> HIDE DEF n, n2, w, w2
  <2>9. Total(n) \in Int /\ Total(w) \in Int
    BY <1>8, <2>5, <2>6, TotalInt
  <2>10. CASE closed(m)
    <3>1. S \ {id} = S
      BY <1>9, <2>10
    <3>2. DOMAIN n2 = DOMAIN n /\ \A o \in DOMAIN n : n[o] \in Int /\ n2[o] = n[o]
      BY <2>5, <3>1
    <3>3. Total(n2) = Total(n)
      BY <1>8, <2>5, <3>2, TotalSame
    <3>4. DOMAIN w2 = DOMAIN w /\ \A o \in DOMAIN w : w[o] \in Int /\ w2[o] = w[o]
      BY <2>6, <3>1
    <3>5. Total(w2) = Total(w)
      BY <1>8, <2>6, <3>4, TotalSame
    <3> QED BY <1>7, <1>11, <2>7, <2>8, <2>10, <3>3, <3>5
  <2>11. CASE ~closed(m)
    <3>1. id \in S
      BY <1>9, <2>11
    <3>2. Total(n2) = Total(n) - n[id]
      BY <1>8, <2>5, <3>1, TotalRemove
    <3>3. Total(w2) = Total(w) - w[id]
      BY <1>8, <2>6, <3>1, TotalRemove
    <3>4. n[id] = m.netshares /\ w[id] = f[0]
      BY <2>3, <2>5, <2>6, <3>1 DEF m
    <3>5. ps[d].rshares = Total(n2) + (v + m.netshares)
      BY <1>4, <1>5, <2>7, <2>9, <3>2, <3>4
    <3>6. f[0] = 0 => ps[d].rsharesfn = Total(w2)
      BY <2>7, <2>9, <3>3, <3>4
    <3> QED BY <1>7, <1>11, <2>8, <2>11, <3>5, <3>6
  <2> QED BY <2>10, <2>11
<1>18. Summed(qs, ns, e)
  <2>1. ASSUME NEW p \in DOMAIN ps, p # d
        PROVE  /\ qs[p].rshares = Total([o \in OpenIn(ns, p) |-> ns[o].netshares])
                                    + at(e.shares, p)
               /\ qs[p].rules.mainfunc[0] = 0 =>
                    qs[p].rsharesfn = Total([o \in OpenIn(ns, p) |->
                                        run(qs[p].rules.mainfunc, ns[o].netshares)])
    <3>1. \A o \in OpenIn(ms, p) : ns[o] = ms[o]
      BY <1>1, <2>1 DEF OpenIn
    <3>2. qs[p] = ps[p] /\ OpenIn(ns, p) = OpenIn(ms, p) /\ at(e.shares, p) = at(a.shares, p)
      BY <1>9, <1>10, <2>1
    <3>3. /\ [o \in OpenIn(ns, p) |-> ns[o].netshares] =
               [o \in OpenIn(ms, p) |-> ms[o].netshares]
          /\ [o \in OpenIn(ns, p) |-> run(qs[p].rules.mainfunc, ns[o].netshares)] =
               [o \in OpenIn(ms, p) |-> run(ps[p].rules.mainfunc, ms[o].netshares)]
      BY <3>1, <3>2
    <3> QED BY <1>12, <2>1, <3>2, <3>3 DEF Summed
  <2> QED BY <1>17, <2>1 DEF Summed
<1>19. Promised(ns) = Promised(ms)
  <2> DEFINE f == [o \in ClosedOf(ms) |-> ms[o].mssg_reward - ms[o].paid_amount]
             g == [o \in ClosedOf(ns) |-> ns[o].mssg_reward - ns[o].paid_amount]
  <2>1. \A o \in DOMAIN ms : ms[o].mssg_reward \in Int /\ ms[o].paid_amount \in Int
    BY DEF Books, MessageRight, MessageRow
  <2>2. ClosedOf(ms) \in SUBSET DOMAIN ms
    BY DEF ClosedOf
  <2>3. IsFiniteSet(ClosedOf(ms))
    BY <2>2, FS_Subset
  <2>4. id \in ClosedOf(ms) => ms[id].mssg_reward - ms[id].paid_amount = 0
    <3>1. id \in ClosedOf(ms) => ms[id].mssg_reward = 0
      BY DEF ClosedOf
    <3>2. ms[id].mssg_reward = 0 => ms[id].paid_amount = 0
      BY <1>5 DEF MessageRight, m
    <3> QED BY <3>1, <3>2
  <2>5. /\ DOMAIN f = ClosedOf(ms) /\ \A o \in DOMAIN f : f[o] \in Int
        /\ DOMAIN g = ClosedOf(ms) \ {id} /\ DOMAIN g \subseteq DOMAIN f
        /\ \A o \in DOMAIN g : g[o] = f[o]
        /\ \A o \in DOMAIN f \ DOMAIN g : f[o] = 0
    BY <1>1, <1>9, <2>1, <2>2, <2>4
  <2> HIDE DEF f, g
  <2>6. Total(g) = Total(f)
    BY <2>3, <2>5, TotalWithoutZeros
  <2> QED BY <2>6 DEF Promised, f, g
<1>20. funds_of(qs) = funds_of(ps)
  <2>1. [p \in DOMAIN qs |-> qs[p].funds] = [p \in DOMAIN ps |-> ps[p].funds]
    BY <1>7
  <2> QED BY <2>1 DEF funds_of
<1>21. Young(qs, ns, e, t)
  <2>1. d \in 0 .. t
    BY DEF Books
  <2>2. DOMAIN e.msgs \subseteq 0 .. t
    BY <1>12, <2>1 DEF Young, Put
  <2>3. closed(m) => d # t
    BY <1>12 DEF Young, closed, Never, m
  <2>4. at(e.msgs, t) = 0
    <3>1. at(a.msgs, t) = 0
      BY <1>12 DEF Young
    <3>2. CASE d = t
      BY <1>11, <2>3, <3>1, <3>2 DEF u
    <3>3. CASE d # t
      BY <1>10, <3>1, <3>3
    <3> QED BY <3>2, <3>3
  <2>5. t \in DOMAIN qs \/ OpenIn(ns, t) = {}
    BY <1>9, <1>12 DEF Young
  <2> QED BY <1>1, <1>12, <2>2, <2>4, <2>5 DEF Young
<1>22. DOMAIN qs \subseteq 0 .. t /\ \A p \in DOMAIN qs : IsPool(qs[p])
  BY <1>7 DEF Books
<1>23. \A o \in DOMAIN ns : MessageRight(ns[o])
  BY <1>1 DEF Books
<1> QED BY <1>16, <1>18, <1>19, <1>20, <1>21, <1>22, <1>23 DEF Books

\* deletemssg
LEMMA DeleteBooks ==
  ASSUME BooksInv, IInv', NEW id, deletemssg(id)
  PROVE  BooksInv'
<1> DEFINE m == messages[id]
           d == m.pool_date
           b == balance + astray.funds
<1>1. /\ messages' = Drop(messages, id)
      /\ UNCHANGED <<now, limits, votes, balance, charges, restorers, referrals>>
      /\ id \in DOMAIN messages =>
           /\ d \in DOMAIN pools /\ m.netshares <= 0
           /\ closed(m) => m.mssg_reward = 0
           /\ pools' = [pools EXCEPT ![d].msgs = (@ - 1) % CounterRange]
           /\ astray' = IF closed(m) THEN [astray EXCEPT !.msgs = Put(@, d, at(@, d) + 1)]
                        ELSE [astray EXCEPT !.shares = Put(@, d, at(@, d) + m.netshares)]
      /\ id \notin DOMAIN messages => pools' = pools /\ astray' = astray
  BY DEF deletemssg, may_delete, settings, contracts
<1>2. /\ now \in Nat /\ IsFiniteSet(DOMAIN messages) /\ Sides /\ IInv
      /\ Books(pools, messages, astray, b, now)
  BY FewMessages
<1>3. /\ \A p \in DOMAIN astray.msgs : astray.msgs[p] \in Int
      /\ \A p \in DOMAIN astray.shares : astray.shares[p] \in Int
  BY <1>2 DEF Sides
<1>4. CASE id \notin DOMAIN messages
  <2>1. DOMAIN messages' = DOMAIN messages /\ \A o \in DOMAIN messages : messages'[o] = messages[o]
    BY <1>1, <1>4 DEF Drop
  <2>2. \A o \in DOMAIN messages : MessageRight(messages'[o])
    BY <1>2, <2>1 DEF Books
  <2>3. Books(pools, messages', astray, b, now)
    BY <1>2, <2>1, <2>2, MessageTouched
  <2>4. Books(pools', messages', astray', balance' + astray'.funds, now')
    BY <1>1, <1>4, <2>3
  <2>5. Sides'
    BY <1>1, <1>2, <1>4 DEF Sides
  <2> QED BY <2>4, <2>5, BooksNext
<1>5. CASE id \in DOMAIN messages
  <2>1. /\ astray = [msgs |-> astray.msgs, shares |-> astray.shares,
                     funds |-> astray.funds, dealt |-> astray.dealt, tree |-> astray.tree]
    BY <1>2 DEF IInv, Rows
  <2>2. /\ astray'.msgs = IF closed(m) THEN Put(astray.msgs, d, at(astray.msgs, d) + 1)
                          ELSE astray.msgs
        /\ astray'.shares = IF closed(m) THEN astray.shares
                            ELSE Put(astray.shares, d, at(astray.shares, d) + m.netshares)
        /\ astray'.funds = astray.funds
    BY <1>1, <1>5, <2>1
  <2>3. m.netshares \in Int
    BY <1>2, <1>5 DEF Books, MessageRight, MessageRow
  <2>4. Sides'
    <3>1. \A p \in DOMAIN astray'.msgs : astray'.msgs[p] \in Int
      BY <1>3, <2>2 DEF Put, at
    <3>2. \A p \in DOMAIN astray'.shares : astray'.shares[p] \in Int
      BY <1>3, <2>2, <2>3 DEF Put, at
    <3> QED BY <1>1, <1>2, <2>2, <3>1, <3>2 DEF Sides
  <2>5. /\ DOMAIN pools' = DOMAIN pools /\ \A p \in DOMAIN pools \ {d} : pools'[p] = pools[p]
        /\ pools'[d] = MsgsSet(pools[d], (pools[d].msgs - 1) % CounterRange)
    BY <1>1, <1>5 DEF MsgsSet
  <2>6. Books(pools', messages', astray', b, now)
    BY <1>1, <1>2, <1>3, <1>5, <2>2, <2>5, MessageDropped
  <2>7. Books(pools', messages', astray', balance' + astray'.funds, now')
    BY <1>1, <2>2, <2>6
  <2> QED BY <2>4, <2>7, BooksNext
<1> QED BY <1>4, <1>5

----------------------------------------------------------------------------
(* Rules and dealing out *)

\* setrules: the new pool is empty, and nothing belongs to it yet.
LEMMA RulesBooks ==
  ASSUME BooksInv, IInv', NEW rules \in RuleSets, setrules(rules)
  PROVE  BooksInv'
<1> DEFINE kept == {p \in DOMAIN pools : pools[p].msgs # 0}
           f == [p \in kept |-> pools[p].funds]
           funds == Total(f)
           np == [rules |-> rules, msgs |-> 0, funds |-> balance - funds,
                  rshares |-> 0, rsharesfn |-> 0]
           ns == netshares_in(now)
           qs == pools'
<1>1. /\ now \notin kept
      /\ pools' = Put([p \in kept |-> pools[p]], now, np)
      /\ astray' = [astray EXCEPT !.msgs = Put(@, now, Cardinality(open_in(now))),
                                  !.shares = Put(@, now, -ns),
                                  !.funds = unpaid,
                                  !.dealt = @ \/ unpaid # 0]
      /\ UNCHANGED <<now, limits, messages, votes, balance, charges, restorers, referrals>>
  BY DEF setrules, settings, contracts
<1>2. /\ now \in Nat /\ IsFiniteSet(DOMAIN messages) /\ Sides /\ IInv /\ balance \in Int
      /\ Books(pools, messages, astray, balance + astray.funds, now)
  BY FewMessages
<1>3. /\ IsFiniteSet(DOMAIN pools) /\ Promised(messages) \in Int
      /\ \A p \in DOMAIN pools : pools[p].funds \in Int
  BY <1>2, BooksNumbers
<1>4. kept \subseteq DOMAIN pools /\ IsFiniteSet(kept)
  <2>1. kept \in SUBSET DOMAIN pools
    OBVIOUS
  <2> QED BY <1>3, <2>1, FS_Subset
<1>5. funds \in Int
  <2>1. DOMAIN f = kept /\ \A p \in DOMAIN f : f[p] \in Int
    BY <1>3
  <2> HIDE DEF f, kept
  <2> QED BY <1>4, <2>1, TotalInt
<1>6. \A p \in DOMAIN pools : IsPool(pools[p])
  BY <1>2 DEF Books
<1>7. /\ IsPool(np) /\ np.msgs = 0 /\ np.funds = balance - funds
      /\ np.rshares = 0 /\ np.rsharesfn = 0
  <2>1. IsRules(rules)
    BY RulesAssumption
  <2>2. 0 \in 0 .. CounterRange - 1
    BY BoundsAssumption
  <2> DEFINE x == balance - funds
  <2>3. x \in Int
    BY <1>2, <1>5
  <2> HIDE DEF x
  <2>4. IsPool([rules |-> rules, msgs |-> 0, funds |-> x, rshares |-> 0, rsharesfn |-> 0])
    BY <2>1, <2>2, <2>3 DEF IsPool
  <2> QED BY <2>4 DEF x
<1>8. /\ DOMAIN qs = kept \union {now} /\ qs[now] = np
      /\ \A p \in kept : qs[p] = pools[p] /\ p # now
  BY <1>1 DEF Put
<1>9. OpenIn(messages, now) = {} /\ open_in(now) = OpenIn(messages, now)
  <2>1. Young(pools, messages, astray, now) /\ Counted(pools, messages, astray)
    BY <1>2 DEF Books
  <2>2. CASE now \in DOMAIN pools
    <3>1. pools[now].msgs = 0 /\ at(astray.msgs, now) = 0
      BY <1>1, <2>1, <2>2 DEF Young
    <3>2. (0 + 0) % CounterRange = Cardinality(OpenIn(messages, now))
      BY <2>1, <2>2, <3>1 DEF Counted
    <3>3. (0 % CounterRange) = 0
      <4>1. CounterRange \in Nat \ {0}
        BY BoundsAssumption
      <4>2. 0 \in 0 .. CounterRange - 1
        BY <4>1
      <4> QED BY <4>1, <4>2, SmallRemainder
    <3>4. Cardinality(OpenIn(messages, now)) = 0
      BY <3>2, <3>3
    <3>5. OpenIn(messages, now) \in SUBSET DOMAIN messages
      BY DEF OpenIn
    <3> QED BY <1>2, <3>4, <3>5, FS_Subset, FS_EmptySet DEF open_in, OpenIn
  <2>3. CASE now \notin DOMAIN pools
    BY <2>1, <2>3 DEF Young, open_in, OpenIn
  <2> QED BY <2>2, <2>3
<1>10. Cardinality(open_in(now)) = 0 /\ ns = 0
  <2>1. Cardinality({}) = 0
    BY FS_EmptySet
  <2>2. DOMAIN [id \in open_in(now) |-> messages[id].netshares] = {}
    BY <1>9
  <2>3. ns = 0
    BY <2>2, TotalEmpty DEF netshares_in
  <2> QED BY <1>9, <2>1, <2>3
<1> HIDE DEF ns
<1>11. /\ astray'.msgs = Put(astray.msgs, now, 0)
       /\ astray'.shares = Put(astray.shares, now, 0)
       /\ astray'.funds = unpaid
  <2>1. /\ astray = [msgs |-> astray.msgs, shares |-> astray.shares,
                     funds |-> astray.funds, dealt |-> astray.dealt, tree |-> astray.tree]
    BY <1>2 DEF IInv, Rows
  <2>2. -ns = 0
    <3>1. \A x \in Int : -x = 0 - x
      OBVIOUS
    <3>2. ns \in Int /\ 0 - ns = 0
      BY <1>10
    <3>3. -ns = 0 - ns
      BY <3>1, <3>2, Zenon
    <3> QED BY <3>2, <3>3, Zenon
  <2>3. astray' = [astray EXCEPT !.msgs = Put(@, now, 0), !.shares = Put(@, now, 0),
                                 !.funds = unpaid, !.dealt = @ \/ unpaid # 0]
    BY <1>1, <1>10, <2>2
  <2> QED BY <2>1, <2>3
<1>12. unpaid = Promised(messages)
  BY DEF unpaid, Promised, ClosedOf
<1>13. Sides'
  <2>1. \A p \in DOMAIN astray'.msgs : astray'.msgs[p] \in Int
    BY <1>2, <1>11 DEF Put, Sides
  <2>2. \A p \in DOMAIN astray'.shares : astray'.shares[p] \in Int
    BY <1>2, <1>11 DEF Put, Sides
  <2>3. astray'.funds \in Int
    BY <1>3, <1>11, <1>12
  <2> QED BY <1>1, <1>2, <2>1, <2>2, <2>3 DEF Sides
<1>14. /\ at(astray'.msgs, now) = 0 /\ at(astray'.shares, now) = 0
       /\ \A p : p # now => /\ at(astray'.msgs, p) = at(astray.msgs, p)
                            /\ at(astray'.shares, p) = at(astray.shares, p)
  BY <1>11 DEF at, Put
<1> HIDE DEF np, kept, funds, qs
<1>15. Counted(qs, messages, astray')
  <2>1. \A p \in kept : (qs[p].msgs + at(astray'.msgs, p)) % CounterRange
                          = Cardinality(OpenIn(messages, p))
    <3>1. Counted(pools, messages, astray)
      BY <1>2 DEF Books
    <3> QED BY <1>4, <1>8, <1>14, <3>1 DEF Counted
  <2>2. (qs[now].msgs + at(astray'.msgs, now)) % CounterRange
           = Cardinality(OpenIn(messages, now))
    <3>1. CounterRange \in Nat \ {0}
      BY BoundsAssumption
    <3>2. 0 \in 0 .. CounterRange - 1
      BY <3>1
    <3>3. (0 % CounterRange) = 0
      BY <3>1, <3>2, SmallRemainder
    <3>4. qs[now].msgs + at(astray'.msgs, now) = 0
      BY <1>7, <1>8, <1>14
    <3> QED BY <1>9, <1>10, <3>3, <3>4
  <2> QED BY <1>8, <2>1, <2>2 DEF Counted
<1>16. Summed(qs, messages, astray')
  <2>1. Summed(pools, messages, astray)
    BY <1>2 DEF Books
  <2>2. \A p \in kept :
          /\ qs[p].rshares = Total([id \in OpenIn(messages, p) |-> messages[id].netshares])
                               + at(astray'.shares, p)
          /\ qs[p].rules.mainfunc[0] = 0 =>
               qs[p].rsharesfn = Total([id \in OpenIn(messages, p) |->
                                   run(qs[p].rules.mainfunc, messages[id].netshares)])
    BY <1>4, <1>8, <1>14, <2>1 DEF Summed
  <2>3. /\ Total([id \in OpenIn(messages, now) |-> messages[id].netshares]) = 0
        /\ Total([id \in OpenIn(messages, now) |->
                    run(qs[now].rules.mainfunc, messages[id].netshares)]) = 0
    <3> DEFINE g == [id \in OpenIn(messages, now) |-> messages[id].netshares]
               h == [id \in OpenIn(messages, now) |->
                       run(qs[now].rules.mainfunc, messages[id].netshares)]
    <3>1. DOMAIN g = {} /\ DOMAIN h = {}
      BY <1>9
    <3> HIDE DEF g, h
    <3>2. Total(g) = 0 /\ Total(h) = 0
      BY <3>1, TotalEmpty
    <3> QED BY <3>2 DEF g, h
  <2>4. qs[now].rshares = 0 /\ qs[now].rsharesfn = 0
    BY <1>7, <1>8
  <2>5. qs[now].rshares = Total([id \in OpenIn(messages, now) |-> messages[id].netshares])
                            + at(astray'.shares, now)
    BY <1>14, <2>3, <2>4
  <2>6. qs[now].rsharesfn = Total([id \in OpenIn(messages, now) |->
                              run(qs[now].rules.mainfunc, messages[id].netshares)])
    BY <2>3, <2>4
  <2>7. DOMAIN qs = kept \union {now}
    BY <1>8
  <2> HIDE DEF f
  <2> QED BY <2>2, <2>5, <2>6, <2>7, Zenon DEF Summed
<1>17. funds_of(qs) = balance
  <2> DEFINE g == [p \in DOMAIN qs |-> qs[p].funds]
  <2>1. /\ DOMAIN f = kept /\ DOMAIN g = kept \union {now}
        /\ g[now] = balance - funds /\ now \notin kept
        /\ \A p \in kept : f[p] \in Int /\ g[p] = f[p]
    BY <1>1, <1>3, <1>4, <1>7, <1>8
  <2>2. funds = Total(f)
    BY DEF funds
  <2> HIDE DEF f, g
  <2>3. balance - funds \in Int
    BY <1>2, <1>5
  <2>4. Total(g) = Total(f) + g[now]
    BY <1>4, <2>1, <2>3, TotalInsert
  <2>5. Total(g) = balance
    BY <1>2, <1>5, <2>1, <2>2, <2>4
  <2> QED BY <2>5 DEF g, funds_of
<1>18. funds_of(qs) + Promised(messages) <= balance + astray'.funds
  BY <1>2, <1>3, <1>11, <1>12, <1>17
<1>19. DOMAIN qs \subseteq 0 .. now /\ \A p \in DOMAIN qs : IsPool(qs[p])
  <2>1. DOMAIN pools \subseteq 0 .. now
    BY <1>2 DEF Books
  <2> QED BY <1>2, <1>4, <1>6, <1>7, <1>8, <2>1
<1>20. Young(qs, messages, astray', now)
  <2>1. Young(pools, messages, astray, now)
    BY <1>2 DEF Books
  <2>2. DOMAIN astray'.msgs \subseteq 0 .. now
    BY <1>2, <1>11, <2>1 DEF Young, Put
  <2> QED BY <1>8, <1>14, <2>1, <2>2 DEF Young
<1>21. Books(qs, messages, astray', balance + astray'.funds, now)
  <2>1. \A id \in DOMAIN messages : MessageRight(messages[id])
    BY <1>2 DEF Books
  <2> QED BY <1>15, <1>16, <1>18, <1>19, <1>20, <2>1 DEF Books
<1>22. Books(pools', messages', astray', balance' + astray'.funds, now')
  BY <1>1, <1>21 DEF qs
<1> QED BY <1>13, <1>22, BooksNext

\* syncpool: the pools that stay share the balance, to the last token.
LEMMA SyncBooks ==
  ASSUME BooksInv, IInv', syncpool
  PROVE  BooksInv'
<1> DEFINE oldest == CHOOSE id \in DOMAIN messages : \A o \in DOMAIN messages : id <= o
           last == last_pool(pools)
           from == IF DOMAIN messages = {} THEN last
                   ELSE Least(last, messages[oldest].pool_date)
           kept == {p \in DOMAIN pools : p >= from}
           first == CHOOSE p \in kept : \A q \in kept : p <= q
           sum == Total([p \in kept |-> pools[p].rshares])
           amount(p) == IF balance = 0 \/ pools[p].rshares = 0 THEN 0
                        ELSE quotient(balance * pools[p].rshares, sum)
           h == [p \in kept |-> amount(p)]
           left == balance - Total(h)
           x(p) == amount(p) + IF p = first THEN left ELSE 0
           qs == pools'
<1>1. /\ DOMAIN pools # {}
      /\ sum = 0 => balance = 0 \/ \A p \in kept : pools[p].rshares = 0
      /\ pools' = [p \in kept |-> [pools[p] EXCEPT !.funds = x(p)]]
      /\ \E d : astray' = [astray EXCEPT !.funds = unpaid, !.dealt = d]
      /\ UNCHANGED <<now, limits, messages, votes, balance, charges, restorers, referrals>>
  BY DEF syncpool, settings, contracts
<1>2. /\ now \in Nat /\ IsFiniteSet(DOMAIN messages) /\ Sides /\ IInv /\ balance \in Int
      /\ Books(pools, messages, astray, balance + astray.funds, now)
  BY FewMessages
<1>3. /\ IsFiniteSet(DOMAIN pools) /\ Promised(messages) \in Int
  BY <1>2, BooksNumbers
<1>4. DOMAIN pools \subseteq 0 .. now /\ \A p \in DOMAIN pools : IsPool(pools[p])
  BY <1>2 DEF Books
<1>5. last \in DOMAIN pools /\ \A q \in DOMAIN pools : q <= last
  BY <1>1, <1>2, <1>4, LastPool
<1> HIDE DEF last
<1>6. last \in Int /\ from \in Int /\ from <= last
  <2>1. last \in Int
    BY <1>2, <1>4, <1>5
  <2>2. CASE DOMAIN messages = {}
    BY <2>1, <2>2
  <2>3. CASE DOMAIN messages # {}
    <3>1. DOMAIN messages \subseteq Nat
      <4>1. DOMAIN messages \subseteq 1 .. last_id /\ last_id \in Nat
        BY <1>2 DEF IInv, Keys
      <4> QED BY <4>1
    <3>2. oldest \in DOMAIN messages
      BY <2>3, <3>1, SmallestNumber
    <3>3. messages[oldest].pool_date \in Nat
      BY <1>2, <3>2 DEF Books, MessageRight, MessageRow
    <3> HIDE DEF oldest
    <3> QED BY <2>1, <2>3, <3>3 DEF Least
  <2> QED BY <2>2, <2>3
<1> HIDE DEF from
<1>7. kept \subseteq DOMAIN pools /\ IsFiniteSet(kept) /\ last \in kept
  <2>1. kept \in SUBSET DOMAIN pools
    OBVIOUS
  <2>2. last \in kept
    BY <1>5, <1>6
  <2> QED BY <1>3, <2>1, <2>2, FS_Subset
<1>8. now \in DOMAIN pools => now \in kept
  BY <1>2, <1>4, <1>5, <1>6
<1> HIDE DEF kept
<1>9. first \in kept
  <2>1. kept \subseteq Nat
    BY <1>2, <1>4, <1>7
  <2> QED BY <1>7, <2>1, SmallestNumber
<1> HIDE DEF first
<1>10. \A p \in kept : pools[p].rshares \in Int
  BY <1>4, <1>7, PoolFields
<1>11. sum \in Int
  <2> DEFINE g == [p \in kept |-> pools[p].rshares]
  <2>1. DOMAIN g = kept /\ \A p \in DOMAIN g : g[p] \in Int
    BY <1>10
  <2> HIDE DEF g
  <2>2. Total(g) \in Int
    BY <1>7, <2>1, TotalInt
  <2> QED BY <2>2 DEF g
<1> HIDE DEF sum
<1>12. \A p \in kept : amount(p) \in Int
  <2> SUFFICES ASSUME NEW p \in kept PROVE amount(p) \in Int
    OBVIOUS
  <2>1. CASE balance = 0 \/ pools[p].rshares = 0
    BY <2>1
  <2>2. CASE ~(balance = 0 \/ pools[p].rshares = 0)
    <3>1. sum # 0
      BY <1>1, <2>2
    <3>2. balance * pools[p].rshares \in Int
      BY <1>2, <1>10, ProductInt
    <3>3. quotient(balance * pools[p].rshares, sum) \in Int
      BY <1>11, <3>1, <3>2, QuotientInt
    <3> QED BY <2>2, <3>3
  <2> QED BY <2>1, <2>2
<1> HIDE DEF amount
<1>13. DOMAIN h = kept /\ \A p \in kept : h[p] = amount(p) /\ h[p] \in Int
  BY <1>12
<1> HIDE DEF h
<1>14. Total(h) \in Int /\ left \in Int
  <2>1. Total(h) \in Int
    BY <1>7, <1>13, TotalInt
  <2> QED BY <1>2, <2>1
<1> HIDE DEF left
<1>15. \A p \in kept : x(p) \in Int
  BY <1>12, <1>14
<1>16. /\ DOMAIN qs = kept
       /\ \A p \in kept :
            /\ IsPool(qs[p]) /\ qs[p].rules = pools[p].rules /\ qs[p].msgs = pools[p].msgs
            /\ qs[p].rshares = pools[p].rshares /\ qs[p].rsharesfn = pools[p].rsharesfn
            /\ qs[p].funds = x(p)
  <2>1. DOMAIN qs = kept
    BY <1>1
  <2>2. ASSUME NEW p \in kept
        PROVE  /\ IsPool(qs[p]) /\ qs[p].rules = pools[p].rules /\ qs[p].msgs = pools[p].msgs
               /\ qs[p].rshares = pools[p].rshares /\ qs[p].rsharesfn = pools[p].rsharesfn
               /\ qs[p].funds = x(p)
    <3> DEFINE np == qs[p]
               y == x(p)
    <3>1. np = [pools[p] EXCEPT !.funds = y]
      BY <1>1
    <3>2. y \in Int /\ IsPool(pools[p])
      BY <1>4, <1>7, <1>15
    <3> HIDE DEF np, y
    <3>3. /\ IsPool(np) /\ np.rules = pools[p].rules /\ np.msgs = pools[p].msgs
          /\ np.rshares = pools[p].rshares /\ np.rsharesfn = pools[p].rsharesfn
          /\ np.funds = y
      BY <3>1, <3>2, PoolFunded
    <3> QED BY <3>3 DEF np, y
  <2> QED BY <2>1, <2>2
<1>17. funds_of(qs) = balance
  <2> DEFINE g == [p \in DOMAIN qs |-> qs[p].funds]
  <2>1. DOMAIN g = kept /\ \A p \in kept : g[p] = x(p) /\ g[p] \in Int
    BY <1>15, <1>16
  <2>2. \A p \in kept \ {first} : g[p] = h[p]
    <3>1. ASSUME NEW p \in kept, p # first PROVE g[p] = h[p]
      <4>1. x(p) = amount(p) + 0
        BY <3>1
      <4>2. amount(p) + 0 = amount(p)
        BY <1>12
      <4> QED BY <1>13, <2>1, <4>1, <4>2
    <3> QED BY <3>1
  <2>3. g[first] = h[first] + left
    BY <1>9, <1>13, <2>1
  <2> HIDE DEF g
  <2>4. Total(g) = Total(h) + g[first] - h[first]
    BY <1>7, <1>9, <1>13, <2>1, <2>2, TotalChange
  <2>5. Total(g) = Total(h) + left
    BY <1>9, <1>13, <1>14, <2>3, <2>4
  <2>6. Total(h) + left = balance
    BY <1>2, <1>14 DEF left
  <2> QED BY <2>5, <2>6 DEF g, funds_of
<1>18. /\ unpaid = Promised(messages)
       /\ astray'.msgs = astray.msgs /\ astray'.shares = astray.shares
       /\ astray'.funds = unpaid
  <2>1. /\ astray = [msgs |-> astray.msgs, shares |-> astray.shares,
                     funds |-> astray.funds, dealt |-> astray.dealt, tree |-> astray.tree]
    BY <1>2 DEF IInv, Rows
  <2>2. unpaid = Promised(messages)
    BY DEF unpaid, Promised, ClosedOf
  <2> QED BY <1>1, <2>1, <2>2
<1>19. Sides'
  BY <1>1, <1>2, <1>3, <1>18 DEF Sides
<1>20. funds_of(qs) + Promised(messages) <= balance + astray'.funds
  BY <1>2, <1>3, <1>17, <1>18
<1>21. Books(qs, messages, astray, balance + astray'.funds, now)
  <2> HIDE DEF qs, x
  <2> QED BY <1>2, <1>7, <1>8, <1>16, <1>20, FundsMove
<1>22. Books(qs, messages, astray', balance + astray'.funds, now)
  <2> HIDE DEF qs, x
  <2> QED BY <1>18, <1>21 DEF Books, Young, Counted, Summed
<1>23. Books(pools', messages', astray', balance' + astray'.funds, now')
  BY <1>1, <1>22 DEF qs
<1> QED BY <1>19, <1>23, BooksNext

----------------------------------------------------------------------------
(* What the loop over the votes of a message pays *)

\* The types of what the loop has come to; nothing was paid when there was
\* nothing to pay from.
PaySoFar(c, id, max_rewards) ==
  /\ c = [ok |-> c.ok, stop |-> c.stop, place |-> c.place, count |-> c.count,
          paid |-> c.paid, erased |-> c.erased, partial |-> c.partial]
  /\ c.paid \in Int
  /\ \A v \in DOMAIN c.partial : c.partial[v] \in VoteRow
  /\ messages[id].sumcuratorsw <= 0 \/ max_rewards <= 0 => c.stop /\ c.paid = 0

\* The row of a vote that was paid in part
RowLeft(v, k, x) == [v EXCEPT !.delegators = SubSeq(@, 1, k), !.paid_amount = @ + x]

\* It is of the type of votes.
LEMMA VoteLeft ==
  ASSUME NEW v \in VoteRow, NEW k \in Int, k <= Len(v.delegators), NEW x \in Int
  PROVE  RowLeft(v, k, x) \in VoteRow
<1> DEFINE D == [delegator : Account, interest_rate : Nat]
           S == Seq(D)
           ds == v.delegators
           ns == SubSeq(ds, 1, k)
           w == [v EXCEPT !.delegators = ns]
           y == w.paid_amount + x
<1>1. VoteRow = [weight : Int, count : Int, delegators : S, curatorsw : Int,
                 rshares : Int, paid_amount : Int]
  BY DEF VoteRow
<1>2. ds \in S
  <2> HIDE DEF S
  <2> QED BY <1>1
<1>3. ns \in S
  <2> HIDE DEF D
  <2>1. Len(ds) \in Nat
    BY <1>2, LenProperties
  <2>2. \A i \in 1 .. k : i \in 1 .. Len(ds)
    BY <2>1
  <2>3. \A i \in 1 .. k : ds[i] \in D
    BY <1>2, <2>2, ElementOfSeq
  <2> HIDE DEF ds
  <2>4. 1 \in Int
    OBVIOUS
  <2> QED BY <2>3, <2>4, SubSeqProperties
<1> HIDE DEF S, ns
<1>4. w \in VoteRow /\ w.paid_amount = v.paid_amount
  BY <1>1, <1>3
<1>5. RowLeft(v, k, x) = [w EXCEPT !.paid_amount = y]
  BY <1>1 DEF RowLeft, ns
<1> HIDE DEF w
<1>6. y \in Int
  BY <1>1, <1>4
<1> HIDE DEF y
<1> QED BY <1>1, <1>4, <1>5, <1>6

\* One vote more
LEMMA PaysVote ==
  ASSUME BooksInv, NEW id \in DOMAIN messages, NEW voter \in voters(id),
         NEW max_rewards \in Int, NEW c, PaySoFar(c, id, max_rewards)
  PROVE  PaySoFar(pay_vote(c, id, voter, max_rewards), id, max_rewards)
<1> DEFINE v          == votes[<<id, voter>>]
           scw        == messages[id].sumcuratorsw
           claim      == (max_rewards * v.curatorsw) \div scw
           dlg_payout(d) == (claim * v.delegators[d].interest_rate) \div Whole
           behind(d)  == {e \in DOMAIN v.delegators : e > d /\ dlg_payout(e) > 0}
           reached    == {d \in DOMAIN v.delegators :
                            c.count + Cardinality(behind(d)) < TargetPayments}
           f          == [d \in reached |-> dlg_payout(d)]
           now_paid   == Total(f)
           count      == c.count + Cardinality({d \in reached : dlg_payout(d) > 0})
           rest       == claim - (now_paid + v.paid_amount)
           room       == count < TargetPayments
           k          == Len(v.delegators) - Cardinality(reached)
           all_paid   == [ok |-> c.ok /\ rest >= 0, stop |-> FALSE,
                          place |-> c.count < TargetPayments,
                          count |-> IF rest = 0 THEN count ELSE count + 1,
                          paid |-> c.paid + now_paid + rest,
                          erased |-> c.erased \union {voter}, partial |-> c.partial]
           some_paid  == [ok |-> c.ok /\ rest >= 0, stop |-> FALSE, place |-> FALSE,
                          count |-> count, paid |-> c.paid + now_paid, erased |-> c.erased,
                          partial |-> Put(c.partial, voter, RowLeft(v, k, now_paid))]
           r          == pay_vote(c, id, voter, max_rewards)
<1>1. r = IF c.stop \/ ~c.place THEN c
          ELSE IF claim = 0 THEN [c EXCEPT !.stop = TRUE]
          ELSE IF room \/ rest = 0 THEN all_paid ELSE some_paid
  BY DEF pay_vote, to_pay, RowLeft
<1>2. /\ c = [ok |-> c.ok, stop |-> c.stop, place |-> c.place, count |-> c.count,
              paid |-> c.paid, erased |-> c.erased, partial |-> c.partial]
      /\ c.paid \in Int
      /\ \A o \in DOMAIN c.partial : c.partial[o] \in VoteRow
      /\ scw <= 0 \/ max_rewards <= 0 => c.stop /\ c.paid = 0
  BY DEF PaySoFar
<1>3. v \in VoteRow /\ scw \in Int /\ id \in DOMAIN messages
  <2>1. Sides /\ Books(pools, messages, astray, balance + astray.funds, now)
    BY FewMessages
  <2>2. <<id, voter>> \in DOMAIN votes
    BY DEF voters
  <2> QED BY <2>1, <2>2 DEF Sides, Books, MessageRight, MessageRow
<1> HIDE DEF r
<1>4. CASE c.stop \/ ~c.place
  <2>1. r = c
    BY <1>1, <1>4
  <2> QED BY <2>1 DEF r
<1>5. CASE ~(c.stop \/ ~c.place) /\ claim = 0
  <2>1. r = [c EXCEPT !.stop = TRUE]
    BY <1>1, <1>5
  <2>2. r = [ok |-> c.ok, stop |-> TRUE, place |-> c.place, count |-> c.count,
             paid |-> c.paid, erased |-> c.erased, partial |-> c.partial]
    BY <1>2, <2>1
  <2>3. /\ r.ok = c.ok /\ r.stop = TRUE /\ r.place = c.place /\ r.count = c.count
        /\ r.paid = c.paid /\ r.erased = c.erased /\ r.partial = c.partial
    BY <2>2
  <2>4. r = [ok |-> r.ok, stop |-> r.stop, place |-> r.place, count |-> r.count,
             paid |-> r.paid, erased |-> r.erased, partial |-> r.partial]
    BY <2>2, <2>3
  <2>5. scw <= 0 \/ max_rewards <= 0 => r.paid = 0
    BY <1>2, <2>3
  <2> HIDE DEF v, scw
  <2> QED BY <1>2, <2>3, <2>4, <2>5 DEF PaySoFar, scw, r
<1>6. CASE ~(c.stop \/ ~c.place) /\ claim # 0
  <2>1. scw > 0 /\ max_rewards > 0
    BY <1>2, <1>3, <1>6
  <2>2. claim \in Int
    <3>1. v.curatorsw \in Int
      BY <1>3 DEF VoteRow
    <3> HIDE DEF v, scw
    <3>2. max_rewards * v.curatorsw \in Int
      BY <3>1, ProductInt
    <3> QED BY <1>3, <2>1, <3>2
  <2> HIDE DEF claim
  <2>3. /\ DOMAIN v.delegators = 1 .. Len(v.delegators) /\ Len(v.delegators) \in Nat
        /\ \A d \in DOMAIN v.delegators : v.delegators[d].interest_rate \in Nat
    <3> DEFINE D == [delegator : Account, interest_rate : Nat]
               ds == v.delegators
    <3>1. ds \in Seq(D)
      BY <1>3 DEF VoteRow
    <3> HIDE DEF ds
    <3>2. DOMAIN ds = 1 .. Len(ds) /\ Len(ds) \in Nat /\ \A d \in 1 .. Len(ds) : ds[d] \in D
      <4> HIDE DEF D
      <4> QED BY <3>1, LenProperties, ElementOfSeq
    <3> QED BY <3>2 DEF ds
  <2> HIDE DEF v
  <2>4. reached \subseteq 1 .. Len(v.delegators)
    BY <2>3
  <2>5. IsFiniteSet(reached) /\ Cardinality(reached) \in Nat
    <3>1. Len(v.delegators) \in Int /\ 1 \in Int
      BY <2>3
    <3>2. IsFiniteSet(1 .. Len(v.delegators))
      BY <3>1, FS_Interval
    <3> HIDE DEF reached
    <3> QED BY <2>4, <3>2, FS_Subset, FS_CardinalityType
  <2>6. \A d \in reached : dlg_payout(d) \in Int
    <3> SUFFICES ASSUME NEW d \in reached PROVE dlg_payout(d) \in Int
      OBVIOUS
    <3>1. v.delegators[d].interest_rate \in Int
      BY <2>3
    <3>2. claim * v.delegators[d].interest_rate \in Int
      BY <2>2, <3>1, ProductInt
    <3>3. Whole \in Int /\ Whole > 0
      BY AmountsAssumption
    <3> QED BY <3>2, <3>3
  <2>7. now_paid \in Int
    <3>1. DOMAIN f = reached /\ \A d \in DOMAIN f : f[d] \in Int
      BY <2>6
    <3> HIDE DEF f
    <3> QED BY <2>5, <3>1, TotalInt
  <2> HIDE DEF dlg_payout, reached, now_paid
  <2>8. rest \in Int
    <3>1. v.paid_amount \in Int
      BY <1>3 DEF VoteRow
    <3> QED BY <2>2, <2>7, <3>1
  <2> HIDE DEF rest, room, count
  <2>9. CASE room \/ rest = 0
    <3>1. r = all_paid
      BY <1>1, <1>6, <2>9
    <3>2. /\ r = [ok |-> r.ok, stop |-> r.stop, place |-> r.place, count |-> r.count,
                  paid |-> r.paid, erased |-> r.erased, partial |-> r.partial]
          /\ r.paid = c.paid + now_paid + rest /\ r.partial = c.partial
      BY <3>1
    <3>3. r.paid \in Int
      BY <1>2, <2>7, <2>8, <3>2
    <3> QED BY <1>2, <2>1, <1>3, <3>2, <3>3 DEF PaySoFar, r, scw
  <2>10. CASE ~(room \/ rest = 0)
    <3>1. r = some_paid
      BY <1>1, <1>6, <2>10
    <3> DEFINE row == RowLeft(v, k, now_paid)
    <3>2. row \in VoteRow
      <4>1. k \in Int /\ k <= Len(v.delegators)
        BY <2>3, <2>5
      <4> HIDE DEF k
      <4> QED BY <1>3, <2>7, <4>1, VoteLeft DEF v
    <3> HIDE DEF row
    <3>3. /\ r = [ok |-> r.ok, stop |-> r.stop, place |-> r.place, count |-> r.count,
                  paid |-> r.paid, erased |-> r.erased, partial |-> r.partial]
          /\ r.paid = c.paid + now_paid /\ r.partial = Put(c.partial, voter, row)
      BY <3>1 DEF row
    <3>4. r.paid \in Int
      BY <1>2, <2>7, <3>3
    <3>5. \A o \in DOMAIN r.partial : r.partial[o] \in VoteRow
      BY <1>2, <3>2, <3>3 DEF Put
    <3> QED BY <2>1, <1>3, <3>3, <3>4, <3>5 DEF PaySoFar, r, scw
  <2> QED BY <2>9, <2>10
<1> QED BY <1>4, <1>5, <1>6 DEF r

----------------------------------------------------------------------------
(* The loop over the votes *)

pay_start(id, max_rewards) ==
  [ok |-> TRUE, stop |-> messages[id].sumcuratorsw <= 0 \/ max_rewards <= 0,
   place |-> TRUE, count |-> 0, paid |-> 0, erased |-> {}, partial |-> EmptyTable]

\* g is what the loop has reached after each vote, up to the n-th.
IsPayLoop(g, n, id, ord, max_rewards) ==
  g = [i \in 0 .. n |-> IF i = 0 THEN pay_start(id, max_rewards)
                       ELSE pay_vote(g[i - 1], id, ord[i], max_rewards)]

\* There is such a function: the recursion is well defined.
LEMMA PayLoopExists ==
  ASSUME NEW n \in Nat, NEW id, NEW ord, NEW max_rewards
  PROVE  \E g : IsPayLoop(g, n, id, ord, max_rewards)
<1> DEFINE Step(g, i) == IF i = 0 THEN pay_start(id, max_rewards)
                         ELSE pay_vote(g[i - 1], id, ord[i], max_rewards)
           S == {k \in 0 .. n : ~\E g : IsPayLoop(g, k, id, ord, max_rewards)}
<1> SUFFICES ASSUME ~\E g : IsPayLoop(g, n, id, ord, max_rewards) PROVE FALSE
  OBVIOUS
<1>1. S # {} /\ S \subseteq Nat
  <2>1. n \in S
    OBVIOUS
  <2> QED BY <2>1
<1>2. PICK k \in S : \A j \in S : k <= j
  <2> HIDE DEF S
  <2> QED BY <1>1, SmallestNumber
<1>3. CASE k = 0
  <2> DEFINE g == [i \in 0 .. 0 |-> pay_start(id, max_rewards)]
  <2>1. g = [i \in 0 .. 0 |-> Step(g, i)]
    OBVIOUS
  <2>2. IsPayLoop(g, 0, id, ord, max_rewards)
    BY <2>1 DEF IsPayLoop
  <2> QED BY <1>3, <2>2
<1>4. CASE k # 0
  <2>1. k - 1 \in 0 .. n /\ ~(k <= k - 1)
    BY <1>1, <1>4
  <2>2. k - 1 \notin S
    BY <1>2, <2>1
  <2>3. PICK g : IsPayLoop(g, k - 1, id, ord, max_rewards)
    BY <2>1, <2>2
  <2> DEFINE h == [i \in 0 .. k |-> Step(g, i)]
  <2>4. \A i \in 0 .. k - 1 : g[i] = Step(g, i)
    BY <2>3 DEF IsPayLoop
  <2>5. \A i \in 0 .. k - 1 : h[i] = g[i]
    <3>1. \A i \in 0 .. k - 1 : i \in 0 .. k
      BY <1>1
    <3> QED BY <2>4, <3>1
  <2>6. \A i \in 0 .. k : i # 0 => i - 1 \in 0 .. k - 1
    BY <1>1
  <2>7. h = [i \in 0 .. k |-> Step(h, i)]
    <3>1. \A i \in 0 .. k : i # 0 => h[i - 1] = g[i - 1]
      BY <2>5, <2>6
    <3> QED BY <3>1
  <2>8. IsPayLoop(h, k, id, ord, max_rewards)
    BY <2>7 DEF IsPayLoop
  <2> QED BY <2>8
<1> QED BY <1>3, <1>4

\* So what a transaction pays is a number, and nothing when there is nothing to
\* pay from; the votes it leaves are of their type.
LEMMA LoopPays ==
  ASSUME BooksInv, NEW id \in DOMAIN messages, NEW ord \in orders(id),
         NEW max_rewards \in Int
  PROVE  PaySoFar(fill_curator_payouts(id, ord, max_rewards), id, max_rewards)
<1> DEFINE n == Len(ord)
           V == voters(id)
<1>1. n \in Nat /\ \A i \in 1 .. n : ord[i] \in V
  <2>1. V \in SUBSET Account
    BY DEF voters
  <2>2. IsFiniteSet(Account)
    BY BoundsAssumption
  <2>3. IsFiniteSet(V)
    BY <2>1, <2>2, FS_Subset
  <2>4. Cardinality(V) \in Nat
    BY <2>3, FS_CardinalityType
  <2>5. ord \in [1 .. Cardinality(V) -> V]
    BY DEF orders
  <2> HIDE DEF V
  <2>6. ord \in Seq(V)
    BY <2>4, <2>5, SeqDef
  <2> QED BY <2>6, LenProperties, ElementOfSeq
<1> HIDE DEF n
<1> DEFINE g == CHOOSE f : IsPayLoop(f, n, id, ord, max_rewards)
<1>2. fill_curator_payouts(id, ord, max_rewards) = g[n]
  BY DEF fill_curator_payouts, IsPayLoop, pay_start, n
<1>3. IsPayLoop(g, n, id, ord, max_rewards)
  BY <1>1, PayLoopExists
<1> HIDE DEF g
<1>4. /\ g[0] = pay_start(id, max_rewards)
      /\ \A i \in 1 .. n : g[i] = pay_vote(g[i - 1], id, ord[i], max_rewards)
  <2>1. \A i \in 0 .. n : g[i] = IF i = 0 THEN pay_start(id, max_rewards)
                                 ELSE pay_vote(g[i - 1], id, ord[i], max_rewards)
    BY <1>3 DEF IsPayLoop
  <2>2. 0 \in 0 .. n /\ \A i \in 1 .. n : i \in 0 .. n /\ i # 0
    BY <1>1
  <2> QED BY <2>1, <2>2
<1> DEFINE S == {i \in 0 .. n : ~PaySoFar(g[i], id, max_rewards)}
<1>5. S = {}
  <2> SUFFICES ASSUME S # {} PROVE FALSE
    OBVIOUS
  <2>1. S \subseteq Nat
    OBVIOUS
  <2>2. PICK k \in S : \A j \in S : k <= j
    <3> HIDE DEF S
    <3> QED BY <2>1, SmallestNumber
  <2>3. k # 0
    <3>1. DOMAIN EmptyTable = {}
      BY DEF EmptyTable
    <3>2. PaySoFar(pay_start(id, max_rewards), id, max_rewards)
      <4> DEFINE c == pay_start(id, max_rewards)
      <4>1. /\ c = [ok |-> c.ok, stop |-> c.stop, place |-> c.place, count |-> c.count,
                    paid |-> c.paid, erased |-> c.erased, partial |-> c.partial]
            /\ c.paid = 0 /\ c.partial = EmptyTable
            /\ c.stop = (messages[id].sumcuratorsw <= 0 \/ max_rewards <= 0)
        BY DEF pay_start
      <4> HIDE DEF c
      <4>2. c.paid \in Int /\ \A v \in DOMAIN c.partial : c.partial[v] \in VoteRow
        BY <3>1, <4>1
      <4> QED BY <4>1, <4>2 DEF PaySoFar, c
    <3> QED BY <1>4, <2>2, <3>2
  <2>4. k \in 1 .. n /\ k - 1 \in 0 .. n /\ ~(k <= k - 1)
    BY <1>1, <2>3
  <2>5. PaySoFar(g[k - 1], id, max_rewards)
    BY <2>2, <2>4
  <2>6. g[k] = pay_vote(g[k - 1], id, ord[k], max_rewards) /\ ord[k] \in V
    BY <1>1, <1>4, <2>4
  <2>7. PaySoFar(g[k], id, max_rewards)
    <3> DEFINE c == g[k - 1]
               voter == ord[k]
    <3>1. PaySoFar(c, id, max_rewards) /\ voter \in voters(id)
      BY <2>5, <2>6
    <3>2. g[k] = pay_vote(c, id, voter, max_rewards)
      BY <2>6
    <3> HIDE DEF c, voter
    <3> QED BY <3>1, <3>2, PaysVote
  <2> QED BY <2>2, <2>7
<1>6. n \in 0 .. n
  BY <1>1
<1> QED BY <1>2, <1>5, <1>6

----------------------------------------------------------------------------
(* Paying a message *)

PaidRow(m, x) == [m EXCEPT !.paid_amount = @ + x]

\* It is right, as long as nothing is paid of a reward of zero.
LEMMA PaidFields ==
  ASSUME NEW m, MessageRight(m), closed(m), NEW x \in Int, m.mssg_reward = 0 => x = 0
  PROVE  /\ MessageRight(PaidRow(m, x)) /\ closed(PaidRow(m, x))
         /\ PaidRow(m, x).mssg_reward = m.mssg_reward
         /\ PaidRow(m, x).paid_amount = m.paid_amount + x
         /\ PaidRow(m, x).pool_date = m.pool_date
         /\ PaidRow(m, x).cashout_time = m.cashout_time
<1> DEFINE y == m.paid_amount + x
           n == PaidRow(m, x)
<1>1. m \in MessageRow /\ m.paid_amount \in Int
  BY DEF MessageRight, MessageRow
<1>2. y \in Int
  BY <1>1
<1>3. n = [m EXCEPT !.paid_amount = y]
  BY <1>1 DEF PaidRow, MessageRow
<1>4. m.mssg_reward = 0 => y = 0
  BY <1>1 DEF MessageRight
<1> HIDE DEF y, n
<1>5. /\ n \in MessageRow /\ n.mssg_reward = m.mssg_reward /\ n.paid_amount = y
      /\ n.pool_date = m.pool_date /\ n.cashout_time = m.cashout_time
      /\ n.beneficiaries = m.beneficiaries
  BY <1>1, <1>2, <1>3 DEF MessageRow
<1>6. closed(n)
  BY <1>5 DEF closed
<1>7. MessageRight(n)
  BY <1>4, <1>5, <1>6 DEF MessageRight
<1> QED BY <1>5, <1>6, <1>7 DEF n, y

\* What a transaction pays of a reward is promised no more.
LEMMA RewardPaid ==
  ASSUME NEW ps, NEW ms, NEW a, NEW b \in Int, NEW t \in Nat, Books(ps, ms, a, b, t),
         IsFiniteSet(DOMAIN ms), NEW id \in DOMAIN ms, closed(ms[id]),
         NEW x \in Int, ms[id].mssg_reward = 0 => x = 0,
         NEW ns, DOMAIN ns = DOMAIN ms, ns[id] = PaidRow(ms[id], x),
         \A o \in DOMAIN ms \ {id} : ns[o] = ms[o]
  PROVE  Books(ps, ns, a, b - x, t)
<1> DEFINE m == ms[id]
           n == ns[id]
<1>1. MessageRight(m)
  BY DEF Books
<1>2. /\ MessageRight(n) /\ closed(n) /\ n.mssg_reward = m.mssg_reward
      /\ n.paid_amount = m.paid_amount + x /\ n.pool_date = m.pool_date
      /\ n.cashout_time = m.cashout_time
  <2> HIDE DEF m
  <2>1. n = PaidRow(m, x) /\ closed(m) /\ (m.mssg_reward = 0 => x = 0)
    BY DEF m
  <2> HIDE DEF n
  <2> QED BY <1>1, <2>1, PaidFields
<1>3. /\ \A p : OpenIn(ns, p) = OpenIn(ms, p)
      /\ ClosedOf(ns) = ClosedOf(ms) /\ id \in ClosedOf(ms)
  BY <1>2 DEF OpenIn, ClosedOf
<1>4. \A p : \A o \in OpenIn(ms, p) : ns[o] = ms[o]
  BY DEF OpenIn
<1>5. Promised(ns) = Promised(ms) - x /\ Promised(ms) \in Int
  <2> DEFINE f == [o \in ClosedOf(ms) |-> ms[o].mssg_reward - ms[o].paid_amount]
             g == [o \in ClosedOf(ns) |-> ns[o].mssg_reward - ns[o].paid_amount]
  <2>1. \A o \in DOMAIN ms : /\ ms[o].mssg_reward \in Int /\ ms[o].paid_amount \in Int
                             /\ ns[o].mssg_reward \in Int /\ ns[o].paid_amount \in Int
    <3>1. \A o \in DOMAIN ms : MessageRight(ns[o])
      BY <1>2 DEF Books
    <3> QED BY <3>1 DEF Books, MessageRight, MessageRow
  <2>2. ClosedOf(ms) \in SUBSET DOMAIN ms
    BY DEF ClosedOf
  <2>3. IsFiniteSet(ClosedOf(ms))
    BY <2>2, FS_Subset
  <2>4. /\ DOMAIN f = ClosedOf(ms) /\ DOMAIN g = ClosedOf(ms)
        /\ \A o \in ClosedOf(ms) : f[o] \in Int /\ g[o] \in Int
    BY <1>3, <2>1, <2>2
  <2>5. \A o \in ClosedOf(ms) \ {id} : g[o] = f[o]
    BY <1>3, <2>2
  <2>6. f[id] = m.mssg_reward - m.paid_amount /\ g[id] = n.mssg_reward - n.paid_amount
    BY <1>3
  <2> HIDE DEF f, g
  <2>7. Total(g) = Total(f) + g[id] - f[id] /\ Total(f) \in Int
    BY <1>3, <2>3, <2>4, <2>5, TotalChange, TotalInt
  <2>8. m.mssg_reward \in Int /\ m.paid_amount \in Int
    BY <2>1
  <2>9. g[id] = f[id] - x /\ f[id] \in Int
    BY <1>2, <2>6, <2>8
  <2>10. Total(g) = Total(f) - x
    BY <2>7, <2>9
  <2> QED BY <2>7, <2>10 DEF Promised, f, g
<1>6. Counted(ps, ns, a)
  BY <1>3 DEF Books, Counted
<1>7. Summed(ps, ns, a)
  <2>1. Summed(ps, ms, a)
    BY DEF Books
  <2>2. \A p \in DOMAIN ps :
          /\ [o \in OpenIn(ns, p) |-> ns[o].netshares] =
               [o \in OpenIn(ms, p) |-> ms[o].netshares]
          /\ [o \in OpenIn(ns, p) |-> run(ps[p].rules.mainfunc, ns[o].netshares)] =
               [o \in OpenIn(ms, p) |-> run(ps[p].rules.mainfunc, ms[o].netshares)]
    BY <1>3, <1>4
  <2> QED BY <2>1, <2>2 DEF Summed
<1>8. Young(ps, ns, a, t)
  <2>1. Young(ps, ms, a, t)
    BY DEF Books
  <2>2. \A o \in DOMAIN ms : /\ ns[o].pool_date = ms[o].pool_date
                             /\ ns[o].cashout_time = ms[o].cashout_time
    BY <1>2
  <2> QED BY <1>3, <2>1, <2>2 DEF Young
<1>9. funds_of(ps) + Promised(ns) <= b - x
  <2>1. funds_of(ps) \in Int
    BY BooksNumbers
  <2>2. funds_of(ps) + Promised(ms) <= b
    BY DEF Books
  <2> QED BY <1>5, <2>1, <2>2
<1>10. \A o \in DOMAIN ns : MessageRight(ns[o])
  BY <1>2 DEF Books
<1> QED BY <1>6, <1>7, <1>8, <1>9, <1>10 DEF Books

\* With a closed message all that was promised for it goes.
LEMMA RewardGone ==
  ASSUME NEW ps, NEW ms, NEW a, NEW b \in Int, NEW t \in Nat, Books(ps, ms, a, b, t),
         IsFiniteSet(DOMAIN ms), NEW id \in DOMAIN ms, closed(ms[id]),
         NEW ns, ns = Drop(ms, id)
  PROVE  Books(ps, ns, a, b - (ms[id].mssg_reward - ms[id].paid_amount), t)
<1> DEFINE x == ms[id].mssg_reward - ms[id].paid_amount
<1>1. DOMAIN ns = DOMAIN ms \ {id} /\ \A o \in DOMAIN ns : ns[o] = ms[o]
  BY DEF Drop
<1>2. /\ \A p : OpenIn(ns, p) = OpenIn(ms, p)
      /\ ClosedOf(ns) = ClosedOf(ms) \ {id} /\ id \in ClosedOf(ms)
  BY <1>1 DEF OpenIn, ClosedOf
<1>3. \A p : \A o \in OpenIn(ms, p) : ns[o] = ms[o]
  BY <1>1 DEF OpenIn
<1>4. Promised(ns) = Promised(ms) - x /\ Promised(ms) \in Int /\ x \in Int
  <2> DEFINE f == [o \in ClosedOf(ms) |-> ms[o].mssg_reward - ms[o].paid_amount]
             g == [o \in ClosedOf(ns) |-> ns[o].mssg_reward - ns[o].paid_amount]
  <2>1. \A o \in DOMAIN ms : ms[o].mssg_reward \in Int /\ ms[o].paid_amount \in Int
    BY DEF Books, MessageRight, MessageRow
  <2>2. ClosedOf(ms) \in SUBSET DOMAIN ms
    BY DEF ClosedOf
  <2>3. IsFiniteSet(ClosedOf(ms))
    BY <2>2, FS_Subset
  <2>4. /\ DOMAIN f = ClosedOf(ms) /\ DOMAIN g = ClosedOf(ms) \ {id}
        /\ \A o \in ClosedOf(ms) : f[o] \in Int
        /\ f[id] = x /\ \A o \in DOMAIN g : g[o] = f[o]
    BY <1>1, <1>2, <2>1, <2>2
  <2> HIDE DEF f, g, x
  <2>5. Total(g) = Total(f) - x /\ Total(f) \in Int /\ x \in Int
    BY <1>2, <2>3, <2>4, TotalRemove, TotalInt
  <2> QED BY <2>5 DEF Promised, f, g
<1> HIDE DEF x
<1>5. Counted(ps, ns, a)
  BY <1>2 DEF Books, Counted
<1>6. Summed(ps, ns, a)
  <2>1. Summed(ps, ms, a)
    BY DEF Books
  <2>2. \A p \in DOMAIN ps :
          /\ [o \in OpenIn(ns, p) |-> ns[o].netshares] =
               [o \in OpenIn(ms, p) |-> ms[o].netshares]
          /\ [o \in OpenIn(ns, p) |-> run(ps[p].rules.mainfunc, ns[o].netshares)] =
               [o \in OpenIn(ms, p) |-> run(ps[p].rules.mainfunc, ms[o].netshares)]
    BY <1>2, <1>3
  <2> QED BY <2>1, <2>2 DEF Summed
<1>7. Young(ps, ns, a, t)
  BY <1>1, <1>2 DEF Books, Young
<1>8. funds_of(ps) + Promised(ns) <= b - x
  <2>1. funds_of(ps) \in Int
    BY BooksNumbers
  <2>2. funds_of(ps) + Promised(ms) <= b
    BY DEF Books
  <2> QED BY <1>4, <2>1, <2>2
<1>9. \A o \in DOMAIN ns : MessageRight(ns[o])
  BY <1>1 DEF Books
<1>10. Books(ps, ns, a, b - x, t)
  BY <1>5, <1>6, <1>7, <1>8, <1>9 DEF Books
<1> QED BY <1>10 DEF x

\* paymssgrwrd
LEMMA PayBooks ==
  ASSUME BooksInv, IInv', NEW id, NEW sent, paymssgrwrd(id, sent)
  PROVE  BooksInv'
<1> DEFINE m  == messages[id]
           cp == curation_payout(m)
           b  == balance + astray.funds
<1>1. /\ id \in DOMAIN messages /\ closed(m)
      /\ UNCHANGED <<now, limits, charges, restorers, referrals, astray>>
  BY DEF paymssgrwrd, settings, contracts
<1>2. PICK ord \in orders(id) :
        LET c == fill_curator_payouts(id, ord, curation_payout(messages[id])) IN
        /\ payment_sound(id, ord)
        /\ IF last_payment(id, c) THEN pay_last(id, c, sent) ELSE pay_some(id, c, sent)
        /\ votes' = votes_left(id, c)
  BY DEF paymssgrwrd
<1> DEFINE c == fill_curator_payouts(id, ord, cp)
<1>3. /\ now \in Nat /\ IsFiniteSet(DOMAIN messages) /\ Sides /\ IInv /\ balance \in Int
      /\ astray.funds \in Int /\ b \in Int /\ Books(pools, messages, astray, b, now)
  BY FewMessages
<1>4. /\ m.mssg_reward \in Int /\ m.paid_amount \in Int /\ m.curators_prcnt \in Int
  BY <1>1, <1>3 DEF Books, MessageRight, MessageRow
<1>5. cp \in Int /\ (m.mssg_reward = 0 => cp = 0)
  <2> HIDE DEF m
  <2> DEFINE q == m.curators_prcnt * m.mssg_reward
  <2>1. q \in Int
    BY <1>4, ProductInt
  <2>2. m.mssg_reward = 0 => q = 0
    BY <1>4
  <2>3. cp = q \div Whole
    BY DEF curation_payout
  <2> HIDE DEF q, cp
  <2>4. Whole \in Int /\ Whole > 0
    BY AmountsAssumption
  <2>5. q = 0 => q \div Whole = 0
    BY <2>4
  <2> QED BY <2>1, <2>2, <2>3, <2>4, <2>5
<1> HIDE DEF cp
<1>6. PaySoFar(c, id, cp)
  BY <1>1, <1>5, LoopPays
<1>7. /\ c.paid \in Int /\ \A v \in DOMAIN c.partial : c.partial[v] \in VoteRow
      /\ m.mssg_reward = 0 => c.paid = 0
  <2>1. cp = 0 => cp <= 0
    OBVIOUS
  <2> HIDE DEF c
  <2> QED BY <1>5, <1>6, <2>1 DEF PaySoFar
<1>8. /\ last_payment(id, c) => unclaimed(m, c) >= 0
      /\ IF last_payment(id, c) THEN pay_last(id, c, sent) ELSE pay_some(id, c, sent)
      /\ votes' = votes_left(id, c)
  BY <1>2 DEF payment_sound, cp
<1>9. unclaimed(m, c) = cp - (c.paid + m.paid_amount)
  BY DEF unclaimed, cp
<1> HIDE DEF c
<1>10. \A k \in DOMAIN votes' : votes'[k] \in VoteRow
  <2>1. \A k \in DOMAIN votes : votes[k] \in VoteRow
    BY <1>3 DEF Sides
  <2> QED BY <1>7, <1>8, <2>1 DEF votes_left
<1>11. CASE last_payment(id, c)
  <2> DEFINE paid == c.paid + (m.mssg_reward - cp)
             u == unclaimed(m, c)
             x == m.mssg_reward - m.paid_amount
             e == b - x
  <2>1. /\ balance' = balance - paid /\ messages' = Drop(messages, id)
        /\ pools' = fill_depleted_pool(pools, u)
    BY <1>8, <1>11 DEF pay_last, cp
  <2>2. u \in Nat /\ paid \in Int /\ x \in Int /\ x = paid + u /\ e \in Int
    <3> HIDE DEF m, b
    <3> QED BY <1>3, <1>4, <1>5, <1>7, <1>8, <1>9, <1>11
  <2>3. Books(pools, messages', astray, e, now)
    BY <1>1, <1>3, <2>1, RewardGone
  <2>4. IsFiniteSet(DOMAIN messages')
    <3>1. DOMAIN messages' \in SUBSET DOMAIN messages
      BY <2>1 DEF Drop
    <3> QED BY <1>3, <3>1, FS_Subset
  <2> HIDE DEF u, e
  <2>5. Books(pools', messages', astray, e + u, now)
    BY <1>3, <2>1, <2>2, <2>3, <2>4, FillKeeps
  <2>6. e + u = balance' + astray.funds
    <3> HIDE DEF paid, x
    <3> QED BY <1>3, <2>1, <2>2 DEF e
  <2>7. Books(pools', messages', astray', balance' + astray'.funds, now')
    BY <1>1, <2>5, <2>6
  <2>8. balance' \in Int
    BY <1>3, <2>1, <2>2
  <2>9. Sides'
    BY <1>1, <1>3, <1>10, <2>8 DEF Sides
  <2> QED BY <2>7, <2>9, BooksNext
<1>12. CASE ~last_payment(id, c)
  <2>1. /\ balance' = balance - c.paid /\ pools' = pools
        /\ messages' = [messages EXCEPT ![id].paid_amount = @ + c.paid]
    BY <1>8, <1>12 DEF pay_some
  <2>2. /\ DOMAIN messages' = DOMAIN messages
        /\ messages'[id] = PaidRow(messages[id], c.paid)
        /\ \A o \in DOMAIN messages \ {id} : messages'[o] = messages[o]
    BY <1>1, <2>1 DEF PaidRow
  <2> DEFINE x == c.paid
  <2>3. x \in Int /\ (messages[id].mssg_reward = 0 => x = 0)
    BY <1>7
  <2>4. Books(pools, messages', astray, b - x, now)
    <3>1. messages'[id] = PaidRow(messages[id], x)
      BY <2>2
    <3> HIDE DEF x
    <3> QED BY <1>1, <1>3, <2>2, <2>3, <3>1, RewardPaid
  <2>5. b - x = balance' + astray.funds /\ balance' \in Int
    <3> HIDE DEF x
    <3> QED BY <1>3, <2>1, <2>3 DEF x
  <2>6. Books(pools', messages', astray', balance' + astray'.funds, now')
    BY <1>1, <2>1, <2>4, <2>5
  <2>7. Sides'
    BY <1>1, <1>3, <1>10, <2>5 DEF Sides
  <2> QED BY <2>6, <2>7, BooksNext
<1> QED BY <1>11, <1>12

----------------------------------------------------------------------------
(* The theorems *)

\* A deferred transaction closes, pays or erases.
LEMMA RunBooks ==
  ASSUME BooksInv, IInv', NEW id, run_deferred(id)
  PROVE  BooksInv'
BY CloseBooks, PayBooks, EraseBooks DEF run_deferred

\* Every step keeps the books.
LEMMA StepBooks == BooksInv /\ [Next]_vars => BooksInv'
<1> SUFFICES ASSUME BooksInv, [Next]_vars PROVE BooksInv'
  OBVIOUS
<1>1. IInv'
  BY StepKeeps DEF BooksInv
<1>2. CASE Messages
  <2>1. ASSUME NEW author \in Account, NEW link \in Link,
               NEW parent \in DOMAIN permlinks \union {Root},
               NEW map \in Beneficiaries, NEW t \in TokenProps, NEW c \in CuratorPrcnts,
               NEW x \in MaxPayouts, createmssg(author, link, parent, map, t, c, x)
        PROVE  BooksInv'
    BY <1>1, <2>1, CreateBooks
  <2>2. ASSUME NEW author \in Account, NEW link \in Link,
               NEW parent \in DOMAIN permlinks \union {Root}, NEW import \in Imports,
               addpermlink(author, link, parent, import)
        PROVE  BooksInv'
    BY <1>1, <2>2, PermlinkBooks
  <2> QED BY <1>2, <2>1, <2>2 DEF Messages
<1>3. CASE Changes
  <2>1. ASSUME NEW id \in DOMAIN permlinks,
               \/ delpermlink(id)
               \/ deletemssg(id)
               \/ \E c \in CuratorPrcnts : setcurprcnt(id, c)
               \/ \E x \in MaxPayouts : setmaxpayout(id, x)
        PROVE  BooksInv'
    <3>1. CASE delpermlink(id)
      BY <1>1, <3>1, PermlinkBooks
    <3>2. CASE deletemssg(id)
      BY <1>1, <3>2, DeleteBooks
    <3>3. CASE \/ \E c \in CuratorPrcnts : setcurprcnt(id, c)
               \/ \E x \in MaxPayouts : setmaxpayout(id, x)
      BY <1>1, <3>3, ChangeBooks
    <3> QED BY <2>1, <3>1, <3>2, <3>3
  <2> QED BY <1>3, <2>1 DEF Changes
<1>4. CASE Voting
  BY <1>1, <1>4, VotingBooks
<1>5. CASE Paying
  <2>1. CASE \E id \in DOMAIN messages : paymssgrwrd(id, deferred)
    BY <1>1, <2>1, PayBooks
  <2>2. CASE \E id \in DOMAIN deferred : run_deferred(id) \/ lose_deferred(id)
    BY <1>1, <2>2, RunBooks, LoseBooks
  <2>3. CASE close(deferred)
    BY <1>1, <2>3, CloseBooks
  <2>4. CASE \E q \in Fund : on_transfer(q)
    BY <1>1, <2>4, TransferBooks
  <2> QED BY <1>5, <2>1, <2>2, <2>3, <2>4 DEF Paying
<1>6. CASE Settings
  <2>1. CASE \/ \E batch \in ParamBatches : setparams(batch)
             \/ \E act \in DOMAIN LimitRows : \E row \in LimitRows[act] : setlimit(act, row)
    BY <1>1, <2>1, ParamsBooks
  <2>2. CASE \E rules \in RuleSets : setrules(rules)
    BY <1>1, <2>2, RulesBooks
  <2>3. CASE syncpool
    BY <1>1, <2>3, SyncBooks
  <2> QED BY <1>6, <2>1, <2>2, <2>3 DEF Settings
<1>7. CASE Others \/ Tick \/ UNCHANGED vars
  BY <1>1, <1>7, OtherBooks, TickBooks, StutterBooks
<1> QED BY <1>2, <1>3, <1>4, <1>5, <1>6, <1>7 DEF Next

\* The books are right in the initial state and after every step, whatever is
\* written, voted, closed, paid, deleted and changed, in whatever order.
THEOREM BooksInductive == Spec => []BooksInv
<1>1. IInv /\ Init => BooksInv
  BY StartBooks
<1>2. Spec => IInv
  BY Inductive, PTL
<1>3. Spec => Init /\ [][Next]_vars
  BY PTL DEF Spec
<1> QED BY <1>1, <1>2, <1>3, StepBooks, PTL

\* A pool's count, which decides what closing gives a message and whether the
\* pool goes, is that of its open messages but for the closed ones that were
\* deleted, in any order of posts, closings, deletions and new rules.
THEOREM CountsStayExact == Spec => []CountsExact
<1>1. BooksInv => CountsExact
  BY DEF BooksInv
<1> QED BY <1>1, BooksInductive, PTL

\* The sums by which a pool divides its funds are those of its open messages,
\* but for the shares of deleted ones: votes, changed votes, votes taken back
\* and closing keep them in step whatever the functions of the rules.
THEOREM SharesStayExact == Spec => []SharesExact
<1>1. BooksInv => SharesExact
  BY DEF BooksInv
<1> QED BY <1>1, BooksInductive, PTL

\* The balance covers the funds of all pools and all rewards still to be paid,
\* until setrules or syncpool deals unpaid rewards out again.
THEOREM FundsStayCovered == Spec => []FundsCovered
<1>1. BooksInv => FundsCovered
  BY DEF BooksInv
<1> QED BY <1>1, BooksInductive, PTL

\* A message's beneficiaries, its author's referrer among them, never get more
\* than all of what is left for them.
THEOREM BeneficiariesStaySound == Spec => []BeneficiariesSound
<1>1. BooksInv => BeneficiariesSound
  BY DEF BooksInv
<1> QED BY <1>1, BooksInductive, PTL
=============================================================================
