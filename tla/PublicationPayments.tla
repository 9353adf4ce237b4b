------------------------ MODULE PublicationPayments ------------------------
(***************************************************************************)
(* Proofs about what golos.publication pays, for any accounts, votes,      *)
(* delegators and bounds: closing never aborts, no payment fails a check,  *)
(* every table keeps its type and rewards are paid as module Rewards says. *)
(* Where a theorem needs the functions of the rules never to fall, it says *)
(* so: check_positive_monotonic looks at a few points only.                *)
(***************************************************************************)
EXTENDS PublicationBooks

----------------------------------------------------------------------------
(* Rows, one by one *)

\* The rules of a pool passed load_func, and their functions never fall.
PoolKnown(p) ==
  /\ Rising(p.rules.mainfunc) /\ Rising(p.rules.curationfunc)
  /\ load_func(p.rules.mainfunc) /\ load_func(p.rules.curationfunc)
  /\ p.rules.maxtokenprop \in 0 .. Whole

\* Upvotes that were first votes are what gives curators weight.
MessageKnown(m) ==
  /\ m.tokenprop \in 0 .. Whole /\ m.curators_prcnt \in 0 .. Whole
  /\ m.max_payout \in 0 .. MaxAmount
  /\ m.cashout_time \in Nat \union {Never}
  /\ m.voteshares \in Nat /\ m.sumcuratorsw \in Nat
  /\ m.voteshares = 0 => m.sumcuratorsw = 0

VoteKnown(v) ==
  /\ v.weight \in -Whole .. Whole /\ v.count \in Nat
  /\ v.delegators \in Seq([delegator : Account, interest_rate : 1 .. Whole])
  /\ Total([d \in DOMAIN v.delegators |-> v.delegators[d].interest_rate]) <= Whole
  /\ v.curatorsw \in Nat /\ v.paid_amount \in Nat

PrcntsKnown ==
  params # NoParams =>
    /\ params.curators_prcnt.min \in Nat /\ params.curators_prcnt.max \in Nat
    /\ params.curators_prcnt.max <= Whole

RowsKnown(ps, ms, vs) ==
  /\ \A p \in DOMAIN ps : PoolKnown(ps[p])
  /\ \A id \in DOMAIN ms : MessageKnown(ms[id])
  /\ \A k \in DOMAIN vs : VoteKnown(vs[k])

----------------------------------------------------------------------------
(* What curators may claim *)

\* The voters of a message in the votes vs
VotersOf(vs, id) == {v \in Account : <<id, v>> \in DOMAIN vs}

\* What pay_vote finds a vote to be worth, and the most there is for curators
claim_of(m, v) ==
  IF m.sumcuratorsw <= 0 \/ curation_payout(m) <= 0 THEN 0
  ELSE (curation_payout(m) * v.curatorsw) \div m.sumcuratorsw

most(m) == IF curation_payout(m) > 0 THEN curation_payout(m) ELSE 0

\* What the delegators that are still listed get of a claim
delegated(claim, ds) ==
  Total([d \in DOMAIN ds |-> (claim * ds[d].interest_rate) \div Whole])

\* The weights of the votes are not more than their sum in the message.
WeightsRight(m, vs, id) ==
  Total([v \in VotersOf(vs, id) |-> vs[<<id, v>>].curatorsw]) <= m.sumcuratorsw

\* What was paid of a closed message and what its votes may still claim is not
\* more than there is for curators; what was paid for a vote and what its
\* delegators may still claim is not more than its claim.
ClaimsRight(m, vs, id) ==
  /\ m.paid_amount >= 0
  /\ m.sumcuratorsw = 0 => m.paid_amount = 0
  /\ m.paid_amount + Total([v \in VotersOf(vs, id) |->
                              claim_of(m, vs[<<id, v>>]) - vs[<<id, v>>].paid_amount])
       <= most(m)
  /\ \A v \in VotersOf(vs, id) :
       LET row == vs[<<id, v>>] IN
       row.paid_amount + delegated(claim_of(m, row), row.delegators) <= claim_of(m, row)

\* Nothing has been paid for the votes of an open message.
Untouched(vs, id) == \A v \in VotersOf(vs, id) : vs[<<id, v>>].paid_amount = 0

VotesRight(ms, vs) ==
  \A id \in DOMAIN ms :
    /\ WeightsRight(ms[id], vs, id)
    /\ IF closed(ms[id]) THEN ClaimsRight(ms[id], vs, id) ELSE Untouched(vs, id)

----------------------------------------------------------------------------
(* Funds, and where messages belong *)

\* Until tokens are dealt out twice, nothing is owed that is not there.
Solvent(ps, ms, w) ==
  ~w.dealt => /\ w.funds = 0
              /\ \A p \in DOMAIN ps : ps[p].funds >= 0
              /\ \A id \in DOMAIN ms : ms[id].mssg_reward >= 0

\* Later messages belong to later pools, of which there is always one left.
InOrder(ps, ms) ==
  /\ \A i, j \in DOMAIN ms : i <= j => ms[i].pool_date <= ms[j].pool_date
  /\ \A id \in DOMAIN ms : \E p \in DOMAIN ps : ms[id].pool_date <= p

\* An open message has its pool, unless deletions put the count of the pool out.
Pooled(ps, ms, w) ==
  \A id \in DOMAIN ms : ~closed(ms[id]) =>
    ms[id].pool_date \in DOMAIN ps \/ at(w.msgs, ms[id].pool_date) # 0

\* Nothing is sent for an open message, or for one still to come.
Unsent(ms, ds) ==
  /\ DOMAIN ds \subseteq 0 .. last_id
  /\ \A id \in DOMAIN ds \intersect DOMAIN ms : closed(ms[id])

Settlement ==
  DOMAIN given \subseteq 1 .. last_id /\ DOMAIN given \intersect DOMAIN messages = {}

----------------------------------------------------------------------------
(* Sums of parts *)

\* Parts of x, as the weights f are parts of n, are not more than x in sum.
LEMMA PartsFit ==
  ASSUME NEW S, IsFiniteSet(S), NEW f, NEW g, NEW x \in Nat, NEW n \in Nat \ {0},
         \A s \in S : f[s] \in Nat /\ g[s] = (x * f[s]) \div n,
         SumOver(f, S) <= n
  PROVE  (\A s \in S : g[s] \in Nat) /\ SumOver(g, S) <= x
<1> DEFINE h == [s \in S |-> x * f[s]]
           k == [s \in S |-> n * g[s]]
<1>1. ASSUME NEW s \in S PROVE /\ x * f[s] \in Nat /\ g[s] \in Nat
                               /\ n * g[s] \in Int /\ n * g[s] <= x * f[s]
  <2>1. f[s] \in Nat /\ g[s] = (x * f[s]) \div n
    OBVIOUS
  <2>2. \A a \in Nat : (a \div n) \in Nat /\ n * (a \div n) <= a
    OBVIOUS
  <2>3. x * f[s] \in Nat
    BY <2>1
  <2>4. \A a \in Nat : n * a \in Int
    OBVIOUS
  <2> QED BY <2>1, <2>2, <2>3, <2>4
<1>2. SumOver(f, S) \in Nat /\ SumOver(g, S) \in Nat
  BY <1>1, SumNat
<1>3. SumOver(h, S) = x * SumOver(f, S)
  BY SumScale
<1>4. SumOver(k, S) = n * SumOver(g, S)
  BY <1>1, SumScale
<1>5. SumOver(k, S) <= SumOver(h, S)
  <2>1. \A s \in S : k[s] \in Int /\ h[s] \in Int /\ k[s] <= h[s]
    BY <1>1
  <2> HIDE DEF h, k
  <2> QED BY <2>1, SumAtMost
<1> DEFINE F == SumOver(f, S)
           G == SumOver(g, S)
<1>6. n * G <= x * F /\ F \in Nat /\ G \in Nat /\ F <= n
  BY <1>2, <1>3, <1>4, <1>5
<1> HIDE DEF F, G
<1>7. x * F <= x * n
  BY <1>6
<1>8. G <= x
  BY <1>6, <1>7
<1> QED BY <1>1, <1>8 DEF G

----------------------------------------------------------------------------
(* Functions of the rules that never fall *)

\* A function given on 0 .. maxarg
Given(f) == /\ maxarg(f) \in Nat /\ DOMAIN f = 0 .. maxarg(f)
            /\ \A x \in DOMAIN f : f[x] \in Int

\* Such a function does not fall beyond its ends either.
LEMMA RunRises ==
  ASSUME NEW f, Given(f), Rising(f), NEW x \in Int, NEW y \in Int, x <= y
  PROVE  run(f, x) \in Int /\ run(f, y) \in Int /\ run(f, x) <= run(f, y) /\ f[0] <= run(f, x)
<1> DEFINE n == maxarg(f)
           cut(z) == IF z < 0 THEN 0 ELSE IF z > n THEN n ELSE z
<1>1. n \in Nat /\ DOMAIN f = 0 .. n /\ \A z \in 0 .. n : f[z] \in Int
  BY DEF Given
<1>2. run(f, x) = f[cut(x)] /\ run(f, y) = f[cut(y)]
  BY DEF run
<1> HIDE DEF n
<1>3. /\ cut(x) \in 0 .. n /\ cut(y) \in 0 .. n /\ cut(x) <= cut(y)
      /\ 0 \in 0 .. n /\ 0 <= cut(x)
  BY <1>1
<1> HIDE DEF cut
<1>4. f[cut(x)] <= f[cut(y)] /\ f[0] <= f[cut(x)]
  BY <1>1, <1>3 DEF Rising
<1> QED BY <1>1, <1>2, <1>3, <1>4

\* The functions that give shares and weights are of this kind, from zero up.
LEMMA KnownRun ==
  ASSUME NEW p, IsPool(p), PoolKnown(p), NEW x \in Int, NEW y \in Int, x <= y,
         NEW f \in {p.rules.mainfunc, p.rules.curationfunc}
  PROVE  run(f, x) \in Nat /\ run(f, y) \in Nat /\ run(f, x) <= run(f, y)
<1>1. Given(f)
  BY DEF IsPool, IsRules, Given
<1>2. Rising(f) /\ f[0] >= 0
  BY DEF PoolKnown, load_func, check_positive_monotonic
<1>3. f[0] \in Int
  <2>1. 0 \in DOMAIN f
    BY <1>1 DEF Given
  <2> QED BY <1>1, <2>1 DEF Given
<1> QED BY <1>1, <1>2, <1>3, RunRises

----------------------------------------------------------------------------
(* Shares of a pool *)

\* Machine division of what is not negative
LEMMA QuotientNat ==
  ASSUME NEW a \in Nat, NEW b \in Nat \ {0}
  PROVE  quotient(a, b) = a \div b /\ (a \div b) \in Nat /\ b * (a \div b) <= a
BY DEF quotient, abs_value

\* What a message gets of a pool's funds is not negative,
LEMMA ShareNat ==
  ASSUME NEW p, IsPool(p), p.funds >= 0, NEW m \in MessageRow, NEW fn \in Int,
         fn > 0 => p.rsharesfn > 0
  PROVE  share_of_pool(p, m, fn) \in Nat
<1> DEFINE a == m.rewardweight * p.funds * fn
           b == Whole * p.rsharesfn
<1>1. CASE fn <= 0
  BY <1>1 DEF share_of_pool
<1>2. CASE fn > 0
  <2>1. m.rewardweight \in Nat /\ m.max_payout \in Nat
    BY AmountsAssumption DEF MessageRow
  <2>2. p.funds \in Nat /\ p.rsharesfn \in Nat \ {0} /\ fn \in Nat
    BY <1>2 DEF IsPool
  <2>3. m.rewardweight * p.funds \in Nat
    BY <2>1, <2>2
  <2>4. a \in Nat
    BY <2>2, <2>3
  <2>5. b \in Nat \ {0}
    BY <2>2, AmountsAssumption
  <2>6. share_of_pool(p, m, fn) = Least(quotient(a, b), m.max_payout)
    BY <1>2 DEF share_of_pool
  <2> HIDE DEF a, b
  <2>7. quotient(a, b) \in Nat
    BY <2>4, <2>5, QuotientNat
  <2> QED BY <2>1, <2>6, <2>7 DEF Least
<1> QED BY <1>1, <1>2

\* nor more than they are, when the message is part of the sum.
LEMMA ShareFits ==
  ASSUME NEW p, IsPool(p), p.funds >= 0, NEW m \in MessageRow, NEW fn \in Int,
         fn > 0, fn <= p.rsharesfn
  PROVE  share_of_pool(p, m, fn) <= p.funds
<1> DEFINE w == m.rewardweight
           F == p.funds
           fns == p.rsharesfn
           a == w * F * fn
           b == Whole * fns
           q == a \div b
<1>1. w \in 0 .. Whole /\ m.max_payout \in Nat /\ Whole \in Nat \ {0}
  BY AmountsAssumption DEF MessageRow
<1>2. F \in Nat /\ fns \in Nat \ {0} /\ fn \in Nat /\ fn <= fns
  BY DEF IsPool
<1>3. share_of_pool(p, m, fn) = Least(quotient(a, b), m.max_payout)
  BY DEF share_of_pool
<1> HIDE DEF w, F, fns
<1>4. w * F \in Nat /\ w * F <= Whole * F /\ Whole * F \in Nat
  BY <1>1, <1>2
<1>5. a \in Nat /\ b \in Nat \ {0}
  BY <1>1, <1>2, <1>4
<1>6. a <= b * F
  <2> DEFINE x == w * F
             y == Whole * F
  <2>1. x \in Nat /\ y \in Nat /\ x <= y
    BY <1>4
  <2>2. a = x * fn /\ b * F = y * fns
    BY <1>1, <1>2
  <2> HIDE DEF x, y
  <2>3. x * fn <= y * fn /\ y * fn <= y * fns
    BY <1>2, <2>1
  <2>4. x * fn \in Int /\ y * fn \in Int /\ y * fns \in Int
    BY <1>2, <2>1
  <2> QED BY <2>2, <2>3, <2>4
<1> HIDE DEF a, b, q
<1>7. quotient(a, b) = q /\ q \in Nat /\ b * q <= a
  BY <1>5, QuotientNat DEF q
<1>8. q <= F
  <2>1. b * q <= b * F
    <3>1. b * q \in Int /\ b * F \in Int
      BY <1>2, <1>5, <1>7
    <3> QED BY <1>5, <1>6, <1>7, <3>1
  <2> QED BY <1>2, <1>5, <1>7, <2>1
<1>9. Least(q, m.max_payout) <= q
  BY <1>1, <1>7 DEF Least
<1>10. Least(q, m.max_payout) \in Int
  BY <1>1, <1>7 DEF Least
<1> QED BY <1>2, <1>3, <1>7, <1>8, <1>9, <1>10 DEF F

----------------------------------------------------------------------------
(* Closing *)

Funded(ps) == \A p \in DOMAIN ps : ps[p].funds >= 0

\* What closing needs of the pools ps: the messages due have them, nothing of
\* them is astray, and they weigh nothing as nothing.
Ready(ps) ==
  /\ Funded(ps)
  /\ \A id \in closing :
       LET p == messages[id].pool_date IN
       /\ p \in DOMAIN ps /\ PoolKnown(ps[p]) /\ ps[p].rules.mainfunc[0] = 0
       /\ at(astray.msgs, p) = 0 /\ at(astray.shares, p) = 0

\* What one pass does to the pools and rewards of c, when its checks held
PassDone(c, id, r) ==
  LET m      == messages[id]
      q      == m.pool_date
      p      == c.pools[q]
      fn     == run(p.rules.mainfunc, m.netshares)
      payout == IF p.msgs = 1 THEN p.funds ELSE share_of_pool(p, m, fn)
      x      == p.funds - payout IN
  /\ q \in DOMAIN c.pools /\ p.msgs # 0
  /\ p.msgs # 1 /\ fn > 0 => p.rsharesfn > 0
  /\ p.msgs = 1 \/ fn <= 0 \/ x >= 0
  /\ r.rewards = Put(c.rewards, id, payout)
  /\ r.pools = [c.pools EXCEPT ![q] =
                  [p EXCEPT !.msgs = @ - 1, !.funds = x,
                            !.rshares = @ - m.netshares, !.rsharesfn = @ - fn]]

LEMMA PassTakes ==
  ASSUME NEW c, NEW id, close_one(c, id).ok, c = [ok |-> c.ok, rewards |-> c.rewards, pools |-> c.pools]
  PROVE  PassDone(c, id, close_one(c, id))
<1> DEFINE m      == messages[id]
           q      == m.pool_date
           p      == c.pools[q]
           fn     == run(p.rules.mainfunc, m.netshares)
           payout == IF p.msgs = 1 THEN p.funds ELSE share_of_pool(p, m, fn)
           only   == p.msgs = 1
           sound  == /\ q \in DOMAIN c.pools
                     /\ p.msgs # 0
                     /\ IF only THEN p.rshares = m.netshares /\ p.rsharesfn = fn
                        ELSE /\ fn > 0 => p.rsharesfn > 0
                             /\ p.rsharesfn - fn >= 0
           fine   == only \/ fn <= 0 \/ taken(p, payout) >= 0
           nps    == [c.pools EXCEPT ![q] =
                        [p EXCEPT !.msgs = @ - 1, !.funds = taken(p, payout),
                                  !.rshares = @ - m.netshares, !.rsharesfn = @ - fn]]
           r      == close_one(c, id)
<1>1. r = IF ~c.ok \/ ~sound THEN [c EXCEPT !.ok = FALSE]
          ELSE [ok |-> fine, rewards |-> Put(c.rewards, id, payout), pools |-> nps]
  BY DEF close_one
<1>2. c.ok /\ sound
  <2> HIDE DEF sound, nps, fine, payout
  <2>1. [c EXCEPT !.ok = FALSE].ok = FALSE
    OBVIOUS
  <2> QED BY <1>1, <2>1
<1>3. fine /\ r.rewards = Put(c.rewards, id, payout) /\ r.pools = nps
  <2> DEFINE paidnow == Put(c.rewards, id, payout)
  <2> HIDE DEF sound, nps, fine, payout, paidnow
  <2>1. r = [ok |-> fine, rewards |-> paidnow, pools |-> nps]
    BY <1>1, <1>2 DEF paidnow
  <2>2. r.ok
    OBVIOUS
  <2> HIDE DEF r
  <2>3. fine /\ r.rewards = paidnow /\ r.pools = nps
    BY <2>1, <2>2
  <2> QED BY <2>3 DEF paidnow
<1>4. taken(p, payout) = p.funds - payout
  BY DEF taken
<1>5. p.msgs = 1 \/ fn <= 0 \/ p.funds - payout >= 0
  BY <1>3, <1>4
<1>6. r.pools = [c.pools EXCEPT ![q] =
                  [p EXCEPT !.msgs = @ - 1, !.funds = p.funds - payout,
                            !.rshares = @ - m.netshares, !.rsharesfn = @ - fn]]
  BY <1>3, <1>4
<1>7. q \in DOMAIN c.pools /\ p.msgs # 0 /\ (p.msgs # 1 /\ fn > 0 => p.rsharesfn > 0)
  BY <1>2
<1>8. r.rewards = Put(c.rewards, id, payout)
  BY <1>3
<1> HIDE DEF r
<1> QED BY <1>5, <1>6, <1>7, <1>8, Zenon DEF PassDone, r

\* No reward of a closing is negative, and no pool falls below zero.
LEMMA PassFunds ==
  ASSUME IInv, Shapes, NEW ps, NEW c, NEW D, ClosedSoFar(c, ps, D), Funded(c.pools),
         \A o \in D : c.rewards[o] >= 0, NEW id \in due, close_one(c, id).ok
  PROVE  /\ Funded(close_one(c, id).pools)
         /\ \A o \in D \union {id} : close_one(c, id).rewards[o] >= 0
<1> DEFINE m      == messages[id]
           q      == m.pool_date
           p      == c.pools[q]
           fn     == run(p.rules.mainfunc, m.netshares)
           payout == IF p.msgs = 1 THEN p.funds ELSE share_of_pool(p, m, fn)
           x      == p.funds - payout
           np     == [p EXCEPT !.msgs = @ - 1, !.funds = x,
                               !.rshares = @ - m.netshares, !.rsharesfn = @ - fn]
           r      == close_one(c, id)
<1>1. /\ c = [ok |-> c.ok, rewards |-> c.rewards, pools |-> c.pools]
      /\ DOMAIN c.pools = DOMAIN ps /\ DOMAIN c.rewards = D
      /\ \A k \in DOMAIN ps : IsPool(c.pools[k])
  BY DEF ClosedSoFar
<1>2. /\ q \in DOMAIN c.pools /\ p.msgs # 0
      /\ p.msgs # 1 /\ fn > 0 => p.rsharesfn > 0
      /\ p.msgs = 1 \/ fn <= 0 \/ x >= 0
      /\ r.rewards = Put(c.rewards, id, payout)
      /\ r.pools = [c.pools EXCEPT ![q] = np]
  <2>1. c = [ok |-> c.ok, rewards |-> c.rewards, pools |-> c.pools]
    BY <1>1
  <2>2. PassDone(c, id, close_one(c, id))
    BY <2>1, PassTakes
  <2> QED BY <2>2, Zenon DEF PassDone
<1>3. IsPool(p) /\ p.funds \in Int /\ p.funds >= 0
  <2>1. IsPool(p)
    BY <1>1, <1>2
  <2>2. p.funds >= 0
    BY <1>2 DEF Funded
  <2> HIDE DEF p
  <2> QED BY <2>1, <2>2, PoolFields
<1>4. m \in MessageRow /\ m.netshares \in Int
  BY DEF due, Shapes, MessageRow
<1>5. fn \in Int
  <2>1. IsRules(p.rules)
    BY <1>3 DEF IsPool
  <2> QED BY <1>4, <2>1, RunInt
<1> HIDE DEF m, p, fn, r
<1>6. payout \in Int /\ payout >= 0 /\ x >= 0 /\ x \in Int
  <2>1. CASE p.msgs = 1
    BY <1>3, <2>1
  <2>2. CASE p.msgs # 1
    <3>1. share_of_pool(p, m, fn) \in Nat
      BY <1>2, <1>3, <1>4, <1>5, <2>2, ShareNat
    <3>2. fn <= 0 => share_of_pool(p, m, fn) = 0
      BY DEF share_of_pool
    <3> QED BY <1>2, <1>3, <1>5, <2>2, <3>1, <3>2
  <2> QED BY <2>1, <2>2
<1> HIDE DEF payout, x
<1>7. np.funds = x
  <2> DEFINE n == m.netshares
  <2>0. np = [p EXCEPT !.msgs = @ - 1, !.funds = x, !.rshares = @ - n, !.rsharesfn = @ - fn]
    OBVIOUS
  <2> HIDE DEF np, n
  <2>1. np = [rules |-> p.rules, msgs |-> p.msgs - 1, funds |-> x,
              rshares |-> p.rshares - n, rsharesfn |-> p.rsharesfn - fn]
    BY <1>3, <2>0, PoolWritten
  <2> QED BY <2>1
<1> HIDE DEF np
<1>8. Funded(r.pools)
  <2>1. DOMAIN r.pools = DOMAIN c.pools /\ r.pools[q] = np
        /\ \A k \in DOMAIN c.pools \ {q} : r.pools[k] = c.pools[k]
    BY <1>2
  <2> QED BY <1>6, <1>7, <2>1 DEF Funded
<1>9. \A o \in D \union {id} : r.rewards[o] >= 0
  BY <1>1, <1>2, <1>6 DEF Put
<1> QED BY <1>8, <1>9 DEF r

\* Where nothing is astray no check of a pass fails.
LEMMA PassEndsWell ==
  ASSUME IInv, Shapes, NEW ps, NEW c, NEW D, D \subseteq due, ClosedSoFar(c, ps, D), c.ok,
         Funded(c.pools), Ready(ps), NEW id \in closing, id \notin D
  PROVE  close_one(c, id).ok
<1> DEFINE m      == messages[id]
           q      == m.pool_date
           p      == c.pools[q]
           fn     == run(p.rules.mainfunc, m.netshares)
           payout == IF p.msgs = 1 THEN p.funds ELSE share_of_pool(p, m, fn)
           A      == open_in(q) \ D
           f      == [o \in A |-> messages[o].netshares]
           g      == [o \in A |-> run(p.rules.mainfunc, messages[o].netshares)]
<1>1. /\ DOMAIN c.pools = DOMAIN ps
      /\ \A k \in DOMAIN ps : IsPool(c.pools[k]) /\ c.pools[k].rules = ps[k].rules
      /\ CountedBut(c.pools, D) /\ SharedBut(c.pools, D)
  BY DEF ClosedSoFar
<1>2. /\ q \in DOMAIN ps /\ PoolKnown(ps[q]) /\ ps[q].rules.mainfunc[0] = 0
      /\ at(astray.msgs, q) = 0 /\ at(astray.shares, q) = 0
  BY DEF Ready
<1>3. IsPool(p) /\ PoolKnown(p) /\ p.rules.mainfunc[0] = 0 /\ p.funds >= 0
  BY <1>1, <1>2 DEF PoolKnown, Funded
<1>4. /\ id \in A /\ A \subseteq DOMAIN messages /\ IsFiniteSet(A)
      /\ Cardinality(A) \in 0 .. last_id
  <2>1. /\ open_in(q) \subseteq DOMAIN messages /\ IsFiniteSet(open_in(q))
        /\ Cardinality(open_in(q)) \in 0 .. last_id
    BY MessagesFinite
  <2>2. id \in A
    BY DEF closing, due, open_in
  <2>3. A \subseteq open_in(q)
    OBVIOUS
  <2> HIDE DEF A, q
  <2>4. IsFiniteSet(A) /\ Cardinality(A) <= Cardinality(open_in(q))
    BY <2>1, <2>3, FS_Subset
  <2>5. Cardinality(A) \in Nat
    BY <2>4, FS_CardinalityType
  <2>6. last_id \in Int
    BY DEF IInv, Keys
  <2> QED BY <2>1, <2>2, <2>3, <2>4, <2>5, <2>6
<1>5. \A o \in A : messages[o].netshares \in Int
  BY <1>4 DEF Shapes, MessageRow
<1>6. \A o \in A : g[o] \in Nat
  <2> SUFFICES ASSUME NEW o \in A PROVE run(p.rules.mainfunc, messages[o].netshares) \in Nat
    OBVIOUS
  <2> DEFINE x == messages[o].netshares
           func == p.rules.mainfunc
  <2>1. x \in Int /\ x <= x
    BY <1>5
  <2>2. func \in {p.rules.mainfunc, p.rules.curationfunc}
    OBVIOUS
  <2> HIDE DEF x, p, func
  <2>3. run(func, x) \in Nat
    BY <1>3, <2>1, <2>2, KnownRun
  <2> QED BY <2>3 DEF func, x
<1>7. p.msgs = Cardinality(A)
  <2> DEFINE n == Cardinality(A)
             k == p.msgs
  <2>1. (k + 0) % CounterRange = n
    BY <1>1, <1>2 DEF CountedBut
  <2>2. k \in 0 .. CounterRange - 1 /\ CounterRange \in Nat \ {0}
    <3> HIDE DEF p
    <3>1. k \in 0 .. CounterRange - 1
      BY <1>3, PoolFields
    <3>2. CounterRange \in Nat \ {0}
      BY BoundsAssumption
    <3> QED BY <3>1, <3>2
  <2> HIDE DEF n, k
  <2>3. k + 0 = k /\ (k % CounterRange) = k
    BY <2>2, SmallRemainder
  <2> QED BY <2>1, <2>3 DEF n, k
<1>8. p.msgs # 0
  <2> HIDE DEF A
  <2>1. Cardinality(A) # 0
    BY <1>4, FS_EmptySet
  <2> QED BY <1>7, <2>1
<1>9. p.rshares = Total(f) /\ p.rsharesfn = Total(g)
  <2>1. p.rshares = Total(f) + at(astray.shares, q) /\ p.rsharesfn = Total(g)
    BY <1>1, <1>2, <1>3 DEF SharedBut
  <2>2. p.rshares \in Int /\ Total(f) \in Int
    <3>1. IsFiniteSet(DOMAIN f) /\ \A o \in DOMAIN f : f[o] \in Int
      BY <1>4, <1>5
    <3> HIDE DEF f
    <3>2. Total(f) \in Int
      BY <3>1, TotalInt
    <3> QED BY <1>3, <3>2 DEF IsPool
  <2> QED BY <1>2, <2>1, <2>2
<1>10. fn = g[id] /\ m.netshares = f[id] /\ fn \in Nat
  BY <1>4, <1>6
<1>11. fn <= p.rsharesfn
  <2>1. IsFiniteSet(DOMAIN g) /\ (\A o \in DOMAIN g : g[o] \in Nat) /\ id \in DOMAIN g
    BY <1>4, <1>6
  <2> HIDE DEF g
  <2>2. g[id] <= Total(g)
    BY <2>1, TotalPart
  <2> QED BY <1>9, <1>10, <2>2
<1>12. p.msgs = 1 => p.rshares = m.netshares /\ p.rsharesfn = fn
  <2> SUFFICES ASSUME p.msgs = 1 PROVE p.rshares = m.netshares /\ p.rsharesfn = fn
    OBVIOUS
  <2>1. A = {id}
    <3> HIDE DEF A, p
    <3>1. \E x : A = {x}
      BY <1>4, <1>7, FS_Singleton
    <3> QED BY <1>4, <3>1
  <2>2. /\ IsFiniteSet(DOMAIN f) /\ DOMAIN f = {id} /\ f[id] \in Int
        /\ IsFiniteSet(DOMAIN g) /\ DOMAIN g = {id} /\ g[id] \in Int
    BY <1>4, <1>5, <1>6, <2>1
  <2> HIDE DEF f, g
  <2>3. Total(f) = f[id] /\ Total(g) = g[id]
    <3>1. ASSUME NEW h, IsFiniteSet(DOMAIN h), DOMAIN h = {id}, h[id] \in Int
          PROVE  Total(h) = h[id]
      <4>1. SumOver(h, {id}) = h[id] + SumOver(h, {id} \ {id})
        BY <3>1, SumRemove
      <4>2. SumOver(h, {}) = 0 /\ {id} \ {id} = {}
        BY SumEmpty
      <4>3. Total(h) = SumOver(h, {id})
        BY <3>1 DEF Total
      <4>4. Total(h) = h[id] + 0
        BY <4>1, <4>2, <4>3, Zenon
      <4> QED BY <3>1, <4>4
    <3> QED BY <2>2, <3>1
  <2> QED BY <1>9, <1>10, <2>3
<1>13. p.msgs # 1 /\ fn > 0 => p.funds - payout >= 0
  <2> SUFFICES ASSUME p.msgs # 1, fn > 0 PROVE p.funds - payout >= 0
    OBVIOUS
  <2>1. m \in MessageRow
    BY DEF closing, due, Shapes
  <2>2. payout = share_of_pool(p, m, fn) /\ p.funds \in Int
    BY <1>3 DEF IsPool
  <2> HIDE DEF m, p, fn, payout
  <2>4. p.rsharesfn > 0
    BY <1>3, <1>10, <1>11 DEF IsPool
  <2>3. share_of_pool(p, m, fn) <= p.funds /\ share_of_pool(p, m, fn) \in Nat
    BY <1>3, <1>10, <1>11, <2>1, <2>4, ShareFits, ShareNat
  <2> QED BY <2>2, <2>3
<1>14. p.rsharesfn - fn >= 0 /\ (fn > 0 => p.rsharesfn > 0)
  <2> HIDE DEF p, fn
  <2> QED BY <1>3, <1>10, <1>11 DEF IsPool
<1> DEFINE np  == [p EXCEPT !.msgs = @ - 1, !.funds = taken(p, payout),
                            !.rshares = @ - m.netshares, !.rsharesfn = @ - fn]
           nps == [c.pools EXCEPT ![q] = np]
           sound == /\ q \in DOMAIN c.pools
                    /\ p.msgs # 0
                    /\ IF p.msgs = 1 THEN p.rshares = m.netshares /\ p.rsharesfn = fn
                       ELSE /\ fn > 0 => p.rsharesfn > 0
                            /\ p.rsharesfn - fn >= 0
           fine == p.msgs = 1 \/ fn <= 0 \/ taken(p, payout) >= 0
<1>15. close_one(c, id) = IF ~c.ok \/ ~sound THEN [c EXCEPT !.ok = FALSE]
                          ELSE [ok |-> fine, rewards |-> Put(c.rewards, id, payout), pools |-> nps]
  BY DEF close_one
<1>16. fine
  <2>1. taken(p, payout) = p.funds - payout
    BY DEF taken
  <2> HIDE DEF p, payout, fn
  <2> QED BY <1>10, <1>13, <2>1
<1>17. sound
  <2> HIDE DEF p, payout, fn, m
  <2> QED BY <1>1, <1>2, <1>8, <1>12, <1>14
<1> HIDE DEF sound, fine, nps, payout
<1> QED BY <1>15, <1>16, <1>17

\* What the loop has come to when it has closed D
LoopState(c, ps, D) ==
  /\ "ok" \in DOMAIN c
  /\ c.ok => ClosedSoFar(c, ps, D)
  /\ c.ok /\ Funded(ps) => Funded(c.pools) /\ \A o \in D : c.rewards[o] >= 0
  /\ Ready(ps) => c.ok

\* One pass more
LEMMA PassState ==
  ASSUME IInv, Shapes, NEW ps, IsFiniteSet(DOMAIN ps), NEW c, NEW D, D \subseteq closing,
         LoopState(c, ps, D), NEW id \in closing, id \notin D
  PROVE  LoopState(close_one(c, id), ps, D \union {id})
<1> DEFINE d == close_one(c, id)
<1>1. closing \subseteq due
  BY DEF closing
<1>2. "ok" \in DOMAIN d /\ (d.ok => c.ok)
  BY OkBefore DEF LoopState
<1>3. d.ok => ClosedSoFar(d, ps, D \union {id})
  <2> SUFFICES ASSUME d.ok PROVE ClosedSoFar(d, ps, D \union {id})
    OBVIOUS
  <2>1. ClosedSoFar(c, ps, D)
    BY <1>2 DEF LoopState
  <2>2. id \in due \ D /\ D \subseteq due
    BY <1>1
  <2> QED BY <2>1, <2>2, ClosesOne
<1>4. d.ok /\ Funded(ps) => Funded(d.pools) /\ \A o \in D \union {id} : d.rewards[o] >= 0
  <2> SUFFICES ASSUME d.ok, Funded(ps)
               PROVE  Funded(d.pools) /\ \A o \in D \union {id} : d.rewards[o] >= 0
    OBVIOUS
  <2>1. ClosedSoFar(c, ps, D) /\ Funded(c.pools) /\ \A o \in D : c.rewards[o] >= 0
    BY <1>2 DEF LoopState
  <2>2. id \in due
    BY <1>1
  <2> QED BY <2>1, <2>2, PassFunds
<1>5. Ready(ps) => d.ok
  <2> SUFFICES ASSUME Ready(ps) PROVE d.ok
    OBVIOUS
  <2>1. c.ok /\ ClosedSoFar(c, ps, D) /\ Funded(c.pools)
    BY DEF LoopState, Ready
  <2>2. D \subseteq due
    BY <1>1
  <2> QED BY <2>1, <2>2, PassEndsWell
<1> HIDE DEF d
<1> QED BY <1>2, <1>3, <1>4, <1>5 DEF LoopState, d

\* The whole loop
LEMMA LoopEnds ==
  ASSUME IInv, Shapes, NEW ps, PoolsRight(ps)
  PROVE  LoopState(close_all(ps), ps, closing)
<1> DEFINE n == Cardinality(closing)
           done(i) == {nth_due(j) : j \in 1 .. i}
<1>1. /\ n \in Nat /\ \A i \in 1 .. n : nth_due(i) \in closing
      /\ \A i, j \in 1 .. n : nth_due(i) = nth_due(j) => i = j
      /\ closing = done(n)
  BY ClosingInOrder
<1>2. IsFiniteSet(DOMAIN ps)
  <2>1. DOMAIN ps \subseteq 0 .. now /\ now \in Int /\ 0 \in Int
    BY DEF PoolsRight, IInv, Keys
  <2>2. IsFiniteSet(0 .. now)
    BY <2>1, FS_Interval
  <2> QED BY <2>1, <2>2, FS_Subset
<1> HIDE DEF n
<1> DEFINE g == CHOOSE f : IsLoop(f, n, ps)
<1>3. close_all(ps) = g[n]
  BY DEF close_all, IsLoop, start, n
<1>4. IsLoop(g, n, ps)
  BY <1>1, LoopExists
<1> HIDE DEF g
<1>5. /\ g[0] = start(ps)
      /\ \A i \in 1 .. n : g[i] = close_one(g[i - 1], nth_due(i))
  <2>1. \A i \in 0 .. n : g[i] = IF i = 0 THEN start(ps) ELSE close_one(g[i - 1], nth_due(i))
    BY <1>4 DEF IsLoop
  <2>2. 0 \in 0 .. n /\ \A i \in 1 .. n : i \in 0 .. n /\ i # 0
    BY <1>1
  <2> QED BY <2>1, <2>2
<1> DEFINE Fine(i) == LoopState(g[i], ps, done(i))
           S == {i \in 0 .. n : ~Fine(i)}
<1>6. S = {}
  <2> SUFFICES ASSUME S # {} PROVE FALSE
    OBVIOUS
  <2>1. S \subseteq Nat
    OBVIOUS
  <2>2. PICK k \in S : \A j \in S : k <= j
    <3> HIDE DEF S
    <3> QED BY <2>1, SmallestNumber
  <2>3. k # 0
    <3>1. done(0) = {}
      BY SMT
    <3>2. /\ "ok" \in DOMAIN start(ps) /\ start(ps).ok /\ start(ps).pools = ps
          /\ ClosedSoFar(start(ps), ps, {})
      BY StartsRight DEF start
    <3>3. Fine(0)
      <4> HIDE DEF done
      <4>1. LoopState(start(ps), ps, {})
        BY <3>2 DEF LoopState
      <4> QED BY <1>5, <3>1, <4>1
    <3> QED BY <2>2, <3>3
  <2>4. k \in 1 .. n /\ k - 1 \in 0 .. n /\ ~(k <= k - 1)
    BY <1>1, <2>3
  <2>5. Fine(k - 1)
    BY <2>2, <2>4
  <2> DEFINE c == g[k - 1]
             id == nth_due(k)
             D == done(k - 1)
  <2>6. g[k] = close_one(c, id)
    BY <1>5, <2>4
  <2>7. id \in closing /\ id \notin D /\ D \subseteq closing /\ done(k) = D \union {id}
    <3>1. \A j \in 1 .. k - 1 : j \in 1 .. n /\ j # k
      BY <1>1, <2>4
    <3>2. id \in closing
      BY <1>1, <2>4
    <3>3. id \notin D /\ D \subseteq closing
      BY <1>1, <2>4, <3>1
    <3>4. \A j : j \in 1 .. k <=> j \in 1 .. k - 1 \/ j = k
      BY <1>1, <2>4
    <3>5. done(k) = D \union {id}
      BY <3>4
    <3> QED BY <3>2, <3>3, <3>5
  <2>8. Fine(k)
    <3>1. LoopState(c, ps, D)
      BY <2>5
    <3> HIDE DEF c, id, D, done
    <3>2. LoopState(close_one(c, id), ps, D \union {id})
      BY <1>2, <2>7, <3>1, PassState
    <3> QED BY <2>6, <2>7, <3>2
  <2> QED BY <2>2, <2>8
<1>7. Fine(n)
  <2>1. n \in 0 .. n
    BY <1>1
  <2> QED BY <1>6, <2>1
<1> QED BY <1>1, <1>3, <1>7

\* What closing does to pools and messages, when no check of it fails
LEMMA ClosingDoes ==
  ASSUME BooksInv, NEW ps, NEW b \in Int, Books(ps, messages, astray, b, now),
         NEW sent, closemssgs(ps, sent).ok
  PROVE  LET ms == closemssgs(ps, sent).messages
             qs == closemssgs(ps, sent).pools
             ds == closemssgs(ps, sent).deferred IN
         /\ DOMAIN ms = DOMAIN messages /\ closing \subseteq due
         /\ \A id \in DOMAIN messages \ closing : ms[id] = messages[id]
         /\ \A id \in closing : \E r \in Int : ClosedRow(ms[id], messages[id], r)
         /\ Funded(ps) => /\ \A id \in closing : ms[id].mssg_reward >= 0
                          /\ Funded(qs)
         /\ DOMAIN qs \subseteq DOMAIN ps
         /\ \A p \in DOMAIN qs : IsPool(qs[p]) /\ qs[p].rules = ps[p].rules
         /\ \A p \in DOMAIN ps \ DOMAIN qs :
              /\ \E q \in DOMAIN qs : p <= q
              /\ at(astray.msgs, p) # 0 \/ open_in(p) \subseteq closing
         /\ DOMAIN ds \subseteq DOMAIN sent \union closing \union {CloseId}
         /\ closing \intersect DOMAIN sent = {}
<1> DEFINE c == close_all(ps)
           qs == c.pools
           r == c.rewards
           ms == closemssgs(ps, sent).messages
           ws == closemssgs(ps, sent).pools
           ds == closemssgs(ps, sent).deferred
<1>1. IInv /\ Shapes
  BY DEF BooksInv
<1>2. c.ok /\ ws = without_empty(qs) /\ closing \intersect DOMAIN sent = {}
  BY DEF closemssgs
<1>3. PoolsRight(ps)
  <2>1. \A p : OpenIn(messages, p) = open_in(p) \ {}
    BY DEF OpenIn, open_in
  <2> QED BY <2>1 DEF PoolsRight, Books, Counted, Summed, CountedBut, SharedBut
<1>4. LoopState(c, ps, closing)
  <2> HIDE DEF c
  <2> QED BY <1>1, <1>3, LoopEnds DEF c
<1> HIDE DEF c
<1>5. /\ DOMAIN qs = DOMAIN ps
      /\ \A p \in DOMAIN ps : IsPool(qs[p]) /\ qs[p].rules = ps[p].rules
      /\ DOMAIN r = closing /\ \A id \in closing : r[id] \in Int
      /\ CountedBut(qs, closing)
      /\ Funded(ps) => Funded(qs) /\ \A id \in closing : r[id] >= 0
  BY <1>2, <1>4 DEF LoopState, ClosedSoFar
<1>6. closing \subseteq due /\ closing \subseteq DOMAIN messages
  BY DEF closing, due
<1>7. /\ DOMAIN ms = DOMAIN messages
      /\ \A id \in DOMAIN messages \ closing : ms[id] = messages[id]
      /\ \A id \in closing : ClosedRow(ms[id], messages[id], r[id])
  <2> DEFINE rs == close_all(ps).rewards
  <2>1. ms = [id \in DOMAIN messages |->
                IF id \in closing
                THEN [messages[id] EXCEPT !.cashout_time = Never, !.mssg_reward = at(rs, id)]
                ELSE messages[id]]
    BY DEF closemssgs
  <2>2. rs = r
    BY DEF c
  <2> HIDE DEF ms, rs, r
  <2>3. \A id \in closing : at(rs, id) = r[id]
    BY <1>5, <2>2 DEF at
  <2>4. DOMAIN ms = DOMAIN messages /\ \A id \in DOMAIN messages \ closing : ms[id] = messages[id]
    BY <2>1
  <2>5. ASSUME NEW id \in closing PROVE ClosedRow(ms[id], messages[id], r[id])
    <3> DEFINE m == messages[id]
               n == ms[id]
               y == r[id]
    <3>1. n = [m EXCEPT !.cashout_time = Never, !.mssg_reward = at(rs, id)]
      BY <1>6, <2>1
    <3>2. at(rs, id) = y
      BY <2>3
    <3> HIDE DEF m, n, y
    <3>3. ClosedRow(n, m, y)
      BY <3>1, <3>2 DEF ClosedRow
    <3> QED BY <3>3 DEF m, n, y
  <2> QED BY <2>4, <2>5
<1>8. \A id \in closing : ms[id].mssg_reward = r[id]
  <2> SUFFICES ASSUME NEW id \in closing PROVE ms[id].mssg_reward = r[id]
    OBVIOUS
  <2> DEFINE m == messages[id]
             n == ms[id]
             y == r[id]
  <2>1. ClosedRow(n, m, y) /\ m \in MessageRow /\ y \in Int
    BY <1>1, <1>5, <1>6, <1>7 DEF Shapes
  <2> HIDE DEF m, n, y, ms, r
  <2>2. n.mssg_reward = y
    BY ONLY <2>1, MessageClosed
  <2> QED BY <2>2 DEF n, y
<1>9. /\ DOMAIN ws \subseteq DOMAIN qs
      /\ \A p \in DOMAIN ws : ws[p] = qs[p]
      /\ \A p \in DOMAIN qs \ DOMAIN ws : qs[p].msgs = 0
      /\ \A p \in DOMAIN qs : p = last_pool(qs) => p \in DOMAIN ws
  <2> HIDE DEF qs
  <2> QED BY <1>2 DEF without_empty
<1>10. ds = [id \in DOMAIN sent \union closing
                  \union DOMAIN (IF closing = due THEN EmptyTable
                                 ELSE [id \in {CloseId} |-> "closemssgs"]) |->
               IF id \in closing THEN "paymssgrwrd"
               ELSE IF id \in DOMAIN (IF closing = due THEN EmptyTable
                                      ELSE [id2 \in {CloseId} |-> "closemssgs"])
                    THEN (IF closing = due THEN EmptyTable
                          ELSE [id2 \in {CloseId} |-> "closemssgs"])[id]
                    ELSE sent[id]]
  BY DEF closemssgs
<1>11. DOMAIN ds \subseteq DOMAIN sent \union closing \union {CloseId}
  BY <1>10 DEF EmptyTable
<1> HIDE DEF qs, r, ms, ws, ds
<1>12. ASSUME NEW p \in DOMAIN ps \ DOMAIN ws
       PROVE  /\ \E q \in DOMAIN ws : p <= q
              /\ at(astray.msgs, p) # 0 \/ open_in(p) \subseteq closing
  <2>1. DOMAIN qs \subseteq 0 .. now /\ now \in Nat /\ DOMAIN qs # {} /\ p \in DOMAIN qs
    BY <1>1, <1>3, <1>5, <1>12 DEF PoolsRight, IInv, Keys
  <2>2. last_pool(qs) \in DOMAIN ws /\ p <= last_pool(qs)
    BY <1>9, <2>1, LastPool
  <2>3. ASSUME at(astray.msgs, p) = 0 PROVE open_in(p) \subseteq closing
    <3> DEFINE A == open_in(p) \ closing
               k == qs[p].msgs + at(astray.msgs, p)
    <3>1. k % CounterRange = Cardinality(A) /\ k = 0
      BY <1>5, <1>9, <2>1, <2>3 DEF CountedBut
    <3>2. CounterRange \in Nat \ {0} /\ 0 \in 0 .. CounterRange - 1
      BY BoundsAssumption
    <3>3. (0 % CounterRange) = 0
      BY <3>2, SmallRemainder
    <3>4. IsFiniteSet(A)
      <4>1. IsFiniteSet(open_in(p)) /\ A \subseteq open_in(p)
        BY <1>1, MessagesFinite
      <4> QED BY <4>1, FS_Subset
    <3> HIDE DEF A
    <3>5. A = {}
      BY <3>1, <3>3, <3>4, FS_EmptySet
    <3> QED BY <3>5 DEF A
  <2> QED BY <2>2, <2>3
<1>13. Funded(ps) => Funded(ws)
  BY <1>5, <1>9 DEF Funded
<1>14. \A p \in DOMAIN ws : IsPool(ws[p]) /\ ws[p].rules = ps[p].rules
  BY <1>5, <1>9
<1> QED BY <1>2, <1>5, <1>6, <1>7, <1>8, <1>9, <1>11, <1>12, <1>13, <1>14 DEF ms, ws, ds

----------------------------------------------------------------------------
(* Where messages belong, and what is there for them *)

Placed(ps, ms, w) ==
  /\ Solvent(ps, ms, w) /\ InOrder(ps, ms) /\ Pooled(ps, ms, w)
  /\ \A p \in DOMAIN w.msgs : w.msgs[p] \in Nat

Places == Placed(pools, messages, astray) /\ Unsent(messages, deferred) /\ Settlement

\* When messages and pools change in other respects, their places stay.
LEMMA PlacesMove ==
  ASSUME NEW ps, NEW ms, NEW w, Placed(ps, ms, w),
         NEW qs, DOMAIN qs = DOMAIN ps, \A p \in DOMAIN ps : qs[p].funds = ps[p].funds,
         NEW ns, DOMAIN ns = DOMAIN ms,
         \A id \in DOMAIN ms : /\ ns[id].pool_date = ms[id].pool_date
                               /\ ns[id].cashout_time = ms[id].cashout_time
                               /\ ns[id].mssg_reward = ms[id].mssg_reward
  PROVE  Placed(qs, ns, w)
<1>1. Solvent(qs, ns, w)
  BY DEF Placed, Solvent
<1>2. InOrder(qs, ns)
  BY DEF Placed, InOrder
<1>3. Pooled(qs, ns, w)
  BY DEF Placed, Pooled, closed
<1> QED BY <1>1, <1>2, <1>3 DEF Placed

\* Nor do they depend on anything else of astray.
LEMMA PlacesSame ==
  ASSUME NEW ps, NEW ms, NEW w, Placed(ps, ms, w),
         NEW e, e.msgs = w.msgs, e.funds = w.funds, e.dealt = w.dealt
  PROVE  Placed(ps, ms, e)
BY DEF Placed, Solvent, Pooled

\* Closing puts no message out of its place.
LEMMA ClosingPlaces ==
  ASSUME BooksInv, NEW ps, NEW b \in Int, Books(ps, messages, astray, b, now),
         Placed(ps, messages, astray), NEW sent, Unsent(messages, sent),
         closemssgs(ps, sent).ok
  PROVE  /\ Placed(closemssgs(ps, sent).pools, closemssgs(ps, sent).messages, astray)
         /\ Unsent(closemssgs(ps, sent).messages, closemssgs(ps, sent).deferred)
         /\ DOMAIN closemssgs(ps, sent).messages = DOMAIN messages
<1> DEFINE ms == closemssgs(ps, sent).messages
           qs == closemssgs(ps, sent).pools
           ds == closemssgs(ps, sent).deferred
<1>1. /\ DOMAIN ms = DOMAIN messages /\ closing \subseteq due
      /\ \A id \in DOMAIN messages \ closing : ms[id] = messages[id]
      /\ \A id \in closing : \E r \in Int : ClosedRow(ms[id], messages[id], r)
      /\ Funded(ps) => /\ \A id \in closing : ms[id].mssg_reward >= 0
                       /\ Funded(qs)
      /\ DOMAIN qs \subseteq DOMAIN ps
      /\ \A p \in DOMAIN qs : IsPool(qs[p]) /\ qs[p].rules = ps[p].rules
      /\ \A p \in DOMAIN ps \ DOMAIN qs :
           /\ \E q \in DOMAIN qs : p <= q
           /\ at(astray.msgs, p) # 0 \/ open_in(p) \subseteq closing
      /\ DOMAIN ds \subseteq DOMAIN sent \union closing \union {CloseId}
      /\ closing \intersect DOMAIN sent = {}
  BY ClosingDoes
<1> HIDE DEF ms, qs, ds
<1>2. /\ now \in Nat /\ DOMAIN ps \subseteq 0 .. now
      /\ \A id \in DOMAIN messages : messages[id] \in MessageRow /\ messages[id].pool_date \in Nat
      /\ DOMAIN messages \subseteq 1 .. last_id /\ last_id \in Nat
  BY FewMessages DEF Books, MessageRight, MessageRow, IInv, Keys
<1>3. \A id \in closing : closed(ms[id]) /\ ms[id].pool_date = messages[id].pool_date
  <2> SUFFICES ASSUME NEW id \in closing
               PROVE  closed(ms[id]) /\ ms[id].pool_date = messages[id].pool_date
    OBVIOUS
  <2>1. PICK r \in Int : ClosedRow(ms[id], messages[id], r)
    BY <1>1
  <2>2. messages[id] \in MessageRow
    BY <1>1, <1>2 DEF due
  <2> DEFINE n == ms[id]
             m == messages[id]
  <2>3. ClosedRow(n, m, r) /\ m \in MessageRow
    BY <2>1, <2>2
  <2> HIDE DEF n, m
  <2>4. closed(n) /\ n.pool_date = m.pool_date
    BY <2>3, MessageClosed
  <2> QED BY <2>4 DEF n, m
<1>4. \A id \in DOMAIN messages : ms[id].pool_date = messages[id].pool_date
  BY <1>1, <1>3
<1>5. \A id \in DOMAIN messages : ~closed(ms[id]) =>
        id \notin closing /\ ms[id] = messages[id] /\ ~closed(messages[id])
  BY <1>1, <1>3
<1>6. Solvent(qs, ms, astray)
  <2> SUFFICES ASSUME ~astray.dealt
               PROVE  /\ astray.funds = 0
                      /\ \A p \in DOMAIN qs : qs[p].funds >= 0
                      /\ \A id \in DOMAIN ms : ms[id].mssg_reward >= 0
    BY DEF Solvent
  <2>1. /\ astray.funds = 0 /\ Funded(ps)
        /\ \A id \in DOMAIN messages : messages[id].mssg_reward >= 0
    BY DEF Placed, Solvent, Funded
  <2> QED BY <1>1, <2>1 DEF Funded
<1>7. InOrder(qs, ms)
  <2>1. \A i, j \in DOMAIN ms : i <= j => ms[i].pool_date <= ms[j].pool_date
    BY <1>1, <1>4 DEF Placed, InOrder
  <2>2. ASSUME NEW id \in DOMAIN ms PROVE \E p \in DOMAIN qs : ms[id].pool_date <= p
    <3>1. PICK p \in DOMAIN ps : messages[id].pool_date <= p
      BY <1>1 DEF Placed, InOrder
    <3>2. PICK q \in DOMAIN qs : p <= q
      <4>1. CASE p \in DOMAIN qs
        BY <1>2, <4>1
      <4>2. CASE p \notin DOMAIN qs
        BY <1>1, <4>2
      <4> QED BY <4>1, <4>2
    <3>3. messages[id].pool_date \in Int /\ p \in Int /\ q \in Int
      BY <1>1, <1>2
    <3> QED BY <1>1, <1>4, <3>1, <3>2, <3>3
  <2> QED BY <2>1, <2>2 DEF InOrder
<1>8. Pooled(qs, ms, astray)
  <2> SUFFICES ASSUME NEW id \in DOMAIN ms, ~closed(ms[id])
               PROVE  \/ ms[id].pool_date \in DOMAIN qs
                      \/ at(astray.msgs, ms[id].pool_date) # 0
    BY DEF Pooled
  <2>1. id \in DOMAIN messages /\ ~closed(messages[id]) /\ ms[id] = messages[id] /\ id \notin closing
    BY <1>1, <1>5
  <2> DEFINE p == messages[id].pool_date
  <2>2. p \in DOMAIN ps \/ at(astray.msgs, p) # 0
    BY <2>1 DEF Placed, Pooled
  <2>3. id \in open_in(p)
    BY <2>1 DEF open_in
  <2> HIDE DEF p
  <2>4. p \in DOMAIN qs \/ at(astray.msgs, p) # 0
    BY <1>1, <2>1, <2>2, <2>3
  <2> QED BY <2>1, <2>4 DEF p
<1>9. Unsent(ms, ds)
  <2>1. DOMAIN ds \subseteq 0 .. last_id
    <3>1. DOMAIN sent \subseteq 0 .. last_id /\ closing \subseteq DOMAIN messages /\ CloseId = 0
      BY <1>1 DEF Unsent, due, CloseId
    <3> QED BY <1>1, <1>2, <3>1
  <2>2. ASSUME NEW id \in DOMAIN ds \intersect DOMAIN ms PROVE closed(ms[id])
    <3>1. id # CloseId /\ id \in DOMAIN messages
      BY <1>1, <1>2, <2>2 DEF CloseId
    <3>2. CASE id \in closing
      BY <1>3, <3>2
    <3>3. CASE id \notin closing
      <4>1. id \in DOMAIN sent
        BY <1>1, <3>1, <3>3
      <4> QED BY <1>1, <3>1, <3>3, <4>1 DEF Unsent
    <3> QED BY <3>2, <3>3
  <2> QED BY <2>1, <2>2 DEF Unsent
<1>10. \A p \in DOMAIN astray.msgs : astray.msgs[p] \in Nat
  BY DEF Placed
<1> QED BY <1>1, <1>6, <1>7, <1>8, <1>9, <1>10 DEF Placed, ms, qs, ds

\* Tokens that come in leave no pool with less.
LEMMA FillFunds ==
  ASSUME NEW ps, NEW x \in Nat, \A p \in DOMAIN ps : IsPool(ps[p]),
         NEW qs, qs = fill_depleted_pool(ps, x)
  PROVE  /\ DOMAIN qs = DOMAIN ps
         /\ \A p \in DOMAIN ps : /\ qs[p].rules = ps[p].rules
                                /\ qs[p].funds \in Int /\ qs[p].funds >= ps[p].funds
<1> DEFINE least  == {p \in DOMAIN ps : \A q \in DOMAIN ps : ratio_le(ps[p], ps[q])}
           choice == CHOOSE p \in least : \A q \in least : q <= p
<1>1. qs = IF x = 0 \/ least = {} THEN ps ELSE [ps EXCEPT ![choice].funds = @ + x]
  BY DEF fill_depleted_pool
<1> HIDE DEF least, choice
<1>2. \A p \in DOMAIN ps : ps[p].funds \in Int
  BY DEF IsPool
<1>3. CASE x = 0 \/ least = {}
  BY <1>1, <1>2, <1>3
<1>4. CASE ~(x = 0 \/ least = {})
  <2>1. qs = [ps EXCEPT ![choice].funds = @ + x]
    BY <1>1, <1>4
  <2>2. ASSUME NEW p \in DOMAIN ps
        PROVE  /\ qs[p].rules = ps[p].rules
               /\ qs[p].funds \in Int /\ qs[p].funds >= ps[p].funds
    <3>1. ps[p].funds \in Int /\ IsPool(ps[p])
      BY <1>2
    <3>2. CASE p # choice
      BY <2>1, <3>1, <3>2
    <3>3. CASE p = choice
      <4> DEFINE r == ps[p]
                 y == r.funds + x
                 n == [r EXCEPT !.funds = y]
      <4>1. qs[p] = n
        BY <2>1, <3>3
      <4>2. y \in Int /\ y >= r.funds
        BY <3>1
      <4>0. IsPool(r) /\ n = [r EXCEPT !.funds = y]
        BY <3>1
      <4> HIDE DEF r, y, n
      <4>3. n.rules = r.rules /\ n.funds = y
        BY <4>0, <4>2, PoolFunded
      <4> QED BY <4>1, <4>2, <4>3 DEF r
    <3> QED BY <3>2, <3>3
  <2> QED BY <2>1, <2>2
<1> QED BY <1>3, <1>4

\* So nothing is out of its place.
LEMMA FillPlaces ==
  ASSUME NEW ps, NEW ms, NEW w, Placed(ps, ms, w), NEW x \in Nat,
         \A p \in DOMAIN ps : IsPool(ps[p])
  PROVE  Placed(fill_depleted_pool(ps, x), ms, w)
<1> DEFINE qs == fill_depleted_pool(ps, x)
<1>0. qs = fill_depleted_pool(ps, x)
  OBVIOUS
<1> HIDE DEF qs
<1>1. DOMAIN qs = DOMAIN ps /\ \A p \in DOMAIN ps : qs[p].funds >= ps[p].funds
  BY <1>0, FillFunds
<1>2. \A p \in DOMAIN ps : ps[p].funds \in Int
  BY DEF IsPool
<1>3. Solvent(qs, ms, w)
  <2> SUFFICES ASSUME ~w.dealt, NEW p \in DOMAIN qs PROVE qs[p].funds >= 0
    BY DEF Placed, Solvent
  <2>1. ps[p].funds \in Int /\ ps[p].funds >= 0 /\ qs[p].funds >= ps[p].funds
    BY <1>1, <1>2 DEF Placed, Solvent
  <2>2. qs[p].funds \in Int
    BY <1>0, <1>1, FillFunds
  <2> QED BY <2>1, <2>2
<1>4. InOrder(qs, ms)
  BY <1>1 DEF Placed, InOrder
<1>5. Pooled(qs, ms, w)
  BY <1>1 DEF Placed, Pooled
<1> QED BY <1>0, <1>3, <1>4, <1>5 DEF Placed

----------------------------------------------------------------------------
(* What a vote writes *)

\* A vote changes these fields of a message and no other.
LEMMA VotedFields ==
  ASSUME NEW m, m \in MessageRow, NEW x \in Int, NEW y \in Int, NEW z \in Int, NEW n,
         n = VotedRow(m, x, y, z)
  PROVE  /\ n.netshares = x /\ n.voteshares = y /\ n.sumcuratorsw = z
         /\ n.pool_date = m.pool_date /\ n.cashout_time = m.cashout_time
         /\ n.mssg_reward = m.mssg_reward /\ n.max_payout = m.max_payout
         /\ n.curators_prcnt = m.curators_prcnt /\ n.tokenprop = m.tokenprop
         /\ n.paid_amount = m.paid_amount
<1>1. n = [date |-> m.date, pool_date |-> m.pool_date, tokenprop |-> m.tokenprop,
           beneficiaries |-> m.beneficiaries, rewardweight |-> m.rewardweight,
           netshares |-> x, voteshares |-> y, sumcuratorsw |-> z,
           curators_prcnt |-> m.curators_prcnt, cashout_time |-> m.cashout_time,
           mssg_reward |-> m.mssg_reward, max_payout |-> m.max_payout,
           paid_amount |-> m.paid_amount]
  BY DEF VotedRow, MessageRow
<1> QED BY <1>1

\* What closing leaves to a vote
LEMMA VoteBegins ==
  ASSUME BooksInv, NEW c, c = closemssgs(pools, deferred), c.ok,
         NEW id \in DOMAIN messages, ~closed(c.messages[id])
  PROVE  /\ c.messages[id] = messages[id] /\ ~closed(messages[id]) /\ MessageRight(messages[id])
         /\ DOMAIN c.messages = DOMAIN messages
         /\ \A p \in DOMAIN c.pools : IsPool(c.pools[p])
<1> DEFINE b == balance + astray.funds
<1>1. Books(pools, messages, astray, b, now) /\ b \in Int
  BY FewMessages
<1> HIDE DEF b
<1>2. /\ Books(c.pools, c.messages, astray, b, now)
      /\ DOMAIN c.messages = DOMAIN messages
      /\ \A o \in DOMAIN messages : ~closed(c.messages[o]) => c.messages[o] = messages[o]
  BY <1>1, ClosingKeeps
<1>3. c.messages[id] = messages[id]
  BY <1>2
<1> HIDE DEF closed
<1>4. ~closed(messages[id])
  BY <1>3
<1>5. MessageRight(messages[id])
  BY <1>1 DEF Books
<1> QED BY <1>2, <1>3, <1>4, <1>5 DEF Books

\* What a first vote leaves
FirstVoted(c, id, voter, weight, rshares, delegators, count) ==
  LET m     == messages[id]
      rules == c.pools[m.pool_date].rules
      vs    == upvoted(m, rshares)
      delta == get_delta(rules.curationfunc, m.voteshares, vs) IN
  /\ DOMAIN messages' = DOMAIN c.messages
  /\ \A o \in DOMAIN c.messages \ {id} : messages'[o] = c.messages[o]
  /\ vs \in Int /\ delta \in Int
  /\ messages'[id] = VotedRow(m, m.netshares + rshares, vs, m.sumcuratorsw + delta)
  /\ DOMAIN pools' = DOMAIN c.pools
  /\ \A p \in DOMAIN c.pools :
       pools'[p].rules = c.pools[p].rules /\ pools'[p].funds = c.pools[p].funds
  /\ votes' = Put(votes, <<id, voter>>,
       [weight |-> weight, count |-> count, delegators |-> delegators,
        curatorsw |-> curator_weight(delta, time_factor(rules, m)),
        rshares |-> rshares, paid_amount |-> 0])

\* A first vote adds to the message's sums; the pool's rules and funds stay.
LEMMA FirstVote ==
  ASSUME BooksInv, NEW c, c = closemssgs(pools, deferred), c.ok,
         NEW id \in DOMAIN messages, ~closed(c.messages[id]),
         messages[id].pool_date \in DOMAIN c.pools,
         NEW voter, NEW weight \in Int, NEW rshares \in Int, NEW delegators, NEW count,
         new_vote(c, id, voter, weight, rshares, delegators, count)
  PROVE  FirstVoted(c, id, voter, weight, rshares, delegators, count)
<1> DEFINE ps == c.pools
           ms == c.messages
           m  == messages[id]
           d  == m.pool_date
           rules == ps[d].rules
           voteshares == upvoted(m, rshares)
           delta == get_delta(rules.curationfunc, m.voteshares, voteshares)
           x == m.netshares + rshares
           z == m.sumcuratorsw + delta
           n == messages'[id]
           w == curator_weight(delta, time_factor(rules, m))
<1>1. /\ ms[id] = m /\ MessageRight(m) /\ DOMAIN ms = DOMAIN messages
      /\ \A p \in DOMAIN ps : IsPool(ps[p])
  BY VoteBegins
<1>2. /\ m.netshares \in Int /\ m.voteshares \in Int /\ m.sumcuratorsw \in Int
      /\ m \in MessageRow /\ IsPool(ps[d]) /\ IsRules(ps[d].rules)
  BY <1>1, PoolFields DEF MessageRight, MessageRow
<1>3. /\ pools' = shifted(ps, m, x)
      /\ messages' = [ms EXCEPT ![id].netshares = @ + rshares,
                                ![id].voteshares = voteshares,
                                ![id].sumcuratorsw = @ + delta]
      /\ votes' = Put(votes, <<id, voter>>,
           [weight |-> weight, count |-> count, delegators |-> delegators,
            curatorsw |-> w, rshares |-> rshares, paid_amount |-> 0])
  BY <1>1 DEF new_vote
<1>4. voteshares \in Int /\ x \in Int
  BY <1>2 DEF upvoted
<1>5. delta \in Int
  <2> HIDE DEF voteshares
  <2> DEFINE f == rules.curationfunc
  <2>1. \A y \in Int : run(f, y) \in Int
    BY <1>2, RunInt
  <2>2. delta = run(f, voteshares) - run(f, m.voteshares)
    BY DEF get_delta
  <2> HIDE DEF f, m, delta
  <2>3. run(f, voteshares) \in Int /\ run(f, m.voteshares) \in Int
    BY <1>2, <1>4, <2>1
  <2> QED BY <2>2, <2>3
<1>6. n = VotedRow(m, x, voteshares, z)
  <2>1. n = [m EXCEPT !.netshares = @ + rshares, !.voteshares = voteshares,
                      !.sumcuratorsw = @ + delta]
    <3>1. id \in DOMAIN ms
      BY <1>1
    <3> QED BY <1>1, <1>3, <3>1
  <2> HIDE DEF voteshares, delta, n, m
  <2> DEFINE m1 == [m EXCEPT !.netshares = x]
             m2 == [m1 EXCEPT !.voteshares = voteshares]
  <2>3. m1 \in MessageRow /\ m1.sumcuratorsw = m.sumcuratorsw
    BY <1>2, <1>4 DEF MessageRow
  <2>4. n = [m2 EXCEPT !.sumcuratorsw = m2.sumcuratorsw + delta]
    BY <2>1
  <2>5. VotedRow(m, x, voteshares, z) = [m2 EXCEPT !.sumcuratorsw = z]
    BY DEF VotedRow
  <2> HIDE DEF m1
  <2>6. m2.sumcuratorsw = m1.sumcuratorsw
    BY <2>3 DEF MessageRow
  <2> HIDE DEF m2
  <2> QED BY <2>3, <2>4, <2>5, <2>6
<1>7. DOMAIN messages' = DOMAIN ms /\ \A o \in DOMAIN ms \ {id} : messages'[o] = ms[o]
  BY <1>3
<1> HIDE DEF n, x, z, voteshares, delta, w
<1>8. /\ DOMAIN pools' = DOMAIN ps
      /\ \A p \in DOMAIN ps : pools'[p].rules = ps[p].rules /\ pools'[p].funds = ps[p].funds
  <2> HIDE DEF ps, m, d
  <2>1. m.pool_date = d /\ d \in DOMAIN ps
    BY DEF d, m, ps
  <2>2. /\ DOMAIN pools' = DOMAIN ps /\ \A p \in DOMAIN ps \ {d} : pools'[p] = ps[p]
        /\ pools'[d].rules = ps[d].rules /\ pools'[d].funds = ps[d].funds
    BY <1>2, <1>3, <1>4, <2>1, ShiftedPools
  <2> QED BY <2>2
<1> QED BY <1>3, <1>4, <1>5, <1>6, <1>7, <1>8 DEF n, x, z, voteshares, delta, w, FirstVoted

\* A row of a vote that changed
RevotedRow(v, weight, rshares) ==
  [v EXCEPT !.weight = weight, !.curatorsw = 0, !.rshares = rshares, !.count = (@ + 1) % 256]

\* The fields it keeps
LEMMA RevotedFields ==
  ASSUME NEW v \in VoteRow, NEW weight, NEW rshares, NEW n, n = RevotedRow(v, weight, rshares)
  PROVE  /\ n.weight = weight /\ n.curatorsw = 0 /\ n.rshares = rshares
         /\ n.count \in 0 .. 255
         /\ n.delegators = v.delegators /\ n.paid_amount = v.paid_amount
<1> DEFINE e == (v.count + 1) % 256
<1>0. v = [weight |-> v.weight, count |-> v.count, delegators |-> v.delegators,
           curatorsw |-> v.curatorsw, rshares |-> v.rshares, paid_amount |-> v.paid_amount]
      /\ v.count \in Int
  BY DEF VoteRow
<1>1. n = [weight |-> weight, count |-> e, delegators |-> v.delegators,
           curatorsw |-> 0, rshares |-> rshares, paid_amount |-> v.paid_amount]
  BY <1>0, Zenon DEF RevotedRow
<1>2. e \in 0 .. 255
  BY <1>0
<1> HIDE DEF e
<1> QED BY <1>1, <1>2

\* A changed vote takes its weight out of the message's sum.
LEMMA ChangedVote ==
  ASSUME BooksInv, NEW c, c = closemssgs(pools, deferred), c.ok,
         NEW id \in DOMAIN messages, ~closed(c.messages[id]),
         messages[id].pool_date \in DOMAIN c.pools,
         NEW voter, NEW weight \in Int, NEW rshares \in Int,
         revote(c, id, voter, weight, rshares), <<id, voter>> \in DOMAIN votes
  PROVE  LET m == messages[id]
             v == votes[<<id, voter>>] IN
         /\ DOMAIN messages' = DOMAIN c.messages
         /\ \A o \in DOMAIN c.messages \ {id} : messages'[o] = c.messages[o]
         /\ m.netshares - v.rshares + rshares \in Int
         /\ messages'[id] = VotedRow(m, m.netshares - v.rshares + rshares, m.voteshares,
                                     m.sumcuratorsw - v.curatorsw)
         /\ DOMAIN pools' = DOMAIN c.pools
         /\ \A p \in DOMAIN c.pools :
              pools'[p].rules = c.pools[p].rules /\ pools'[p].funds = c.pools[p].funds
         /\ votes' = [votes EXCEPT ![<<id, voter>>] = RevotedRow(v, weight, rshares)]
<1> DEFINE ps == c.pools
           ms == c.messages
           m  == messages[id]
           d  == m.pool_date
           v == votes[<<id, voter>>]
           x == m.netshares - v.rshares + rshares
           z == m.sumcuratorsw - v.curatorsw
           n == messages'[id]
           qs == shifted(ps, m, x)
           u == ps[d].rshares - v.rshares + rshares
<1>1. /\ ms[id] = m /\ MessageRight(m) /\ DOMAIN ms = DOMAIN messages
      /\ \A p \in DOMAIN ps : IsPool(ps[p])
  BY VoteBegins
<1>2. /\ m.netshares \in Int /\ m.voteshares \in Int /\ m.sumcuratorsw \in Int
      /\ m \in MessageRow /\ IsPool(ps[d]) /\ ps[d].rshares \in Int
  BY <1>1, PoolFields DEF MessageRight, MessageRow
<1>3. /\ pools' = [qs EXCEPT ![d].rshares = u]
      /\ messages' = [ms EXCEPT ![id].netshares = x, ![id].sumcuratorsw = @ - v.curatorsw]
      /\ votes' = [votes EXCEPT ![<<id, voter>>] = RevotedRow(v, weight, rshares)]
  BY <1>1 DEF revote, shares_after, RevotedRow
<1>4. v \in VoteRow
  BY FewMessages DEF Sides
<1>5. v.rshares \in Int /\ v.curatorsw \in Int
  BY <1>4 DEF VoteRow
<1>6. x \in Int /\ z \in Int
  <2> HIDE DEF m, v
  <2> QED BY <1>2, <1>5
<1>7. n = VotedRow(m, x, m.voteshares, z)
  <2>1. n = [m EXCEPT !.netshares = x, !.sumcuratorsw = @ - v.curatorsw]
    <3>1. id \in DOMAIN ms
      BY <1>1
    <3> QED BY <1>1, <1>3, <3>1
  <2> HIDE DEF n, m, v, x
  <2> DEFINE m1 == [m EXCEPT !.netshares = x]
  <2>3. m1 \in MessageRow /\ m1.sumcuratorsw = m.sumcuratorsw /\ m1.voteshares = m.voteshares
    BY <1>2, <1>6 DEF MessageRow
  <2>4. n = [m1 EXCEPT !.sumcuratorsw = m1.sumcuratorsw - v.curatorsw]
    BY <2>1
  <2>5. VotedRow(m, x, m.voteshares, z) =
          [[m1 EXCEPT !.voteshares = m.voteshares] EXCEPT !.sumcuratorsw = z]
    BY DEF VotedRow
  <2> HIDE DEF m1
  <2>6. [m1 EXCEPT !.voteshares = m.voteshares] = m1
    BY <2>3 DEF MessageRow
  <2> QED BY <2>3, <2>4, <2>5, <2>6
<1>8. DOMAIN messages' = DOMAIN ms /\ \A o \in DOMAIN ms \ {id} : messages'[o] = ms[o]
  BY <1>3
<1> HIDE DEF n, x, z, v, qs, u
<1>9. /\ DOMAIN qs = DOMAIN ps /\ \A p \in DOMAIN ps \ {d} : qs[p] = ps[p]
      /\ IsPool(qs[d]) /\ qs[d].rules = ps[d].rules /\ qs[d].funds = ps[d].funds
  <2> HIDE DEF ps, m, d
  <2>1. m.pool_date = d /\ qs = shifted(ps, m, x) /\ d \in DOMAIN ps
    BY DEF d, m, qs, ps
  <2> QED BY <1>2, <1>6, <2>1, ShiftedPools
<1>10. /\ DOMAIN pools' = DOMAIN ps
       /\ \A p \in DOMAIN ps : pools'[p].rules = ps[p].rules /\ pools'[p].funds = ps[p].funds
  <2> DEFINE q == qs[d]
  <2>1. pools'[d] = [q EXCEPT !.rshares = u]
    BY <1>3, <1>9
  <2>2. q = [rules |-> q.rules, msgs |-> q.msgs, funds |-> q.funds,
             rshares |-> q.rshares, rsharesfn |-> q.rsharesfn]
    BY <1>9 DEF IsPool
  <2>3. DOMAIN pools' = DOMAIN qs /\ \A p \in DOMAIN qs \ {d} : pools'[p] = qs[p]
    BY <1>3
  <2> HIDE DEF q
  <2>4. [q EXCEPT !.rshares = u].rules = q.rules /\ [q EXCEPT !.rshares = u].funds = q.funds
    BY <2>2
  <2>5. pools'[d].rules = ps[d].rules /\ pools'[d].funds = ps[d].funds
    BY <1>9, <2>1, <2>4 DEF q
  <2> QED BY <1>9, <2>3, <2>5
<1> QED BY <1>3, <1>6, <1>7, <1>8, <1>10 DEF n, x, z, v

----------------------------------------------------------------------------
(* Every step leaves messages in their places *)

\* Fewer transactions, and more keys, do no harm.
LEMMA UnsentLess ==
  ASSUME Unsent(messages, deferred), last_id \in Int,
         NEW id
  PROVE  Unsent(messages, Drop(deferred, id))
BY DEF Unsent, Drop

\* Steps that leave pools, messages and what is astray alone
LEMMA QuietPlaces ==
  ASSUME BooksInv, Places, UNCHANGED <<pools, messages, given>>,
         astray'.msgs = astray.msgs, astray'.funds = astray.funds,
         astray'.dealt = astray.dealt,
         last_id' \in Int, last_id' >= last_id, DOMAIN deferred' \subseteq DOMAIN deferred
  PROVE  Places'
<1>1. last_id \in Nat
  BY DEF BooksInv, IInv, Keys
<1>2. Placed(pools', messages', astray')
  <2>1. Placed(pools, messages, astray')
    BY PlacesSame DEF Places
  <2> QED BY <2>1
<1>3. Unsent(messages, deferred)'
  BY <1>1 DEF Places, Unsent
<1>4. Settlement'
  BY <1>1 DEF Places, Settlement
<1> QED BY <1>2, <1>3, <1>4 DEF Places

\* closemssgs by itself
LEMMA ClosePlaces ==
  ASSUME BooksInv, Places, NEW sent, Unsent(messages, sent), close(sent)
  PROVE  Places'
<1> DEFINE c == closemssgs(pools, sent)
           b == balance + astray.funds
<1>1. /\ c.ok /\ pools' = c.pools /\ messages' = c.messages /\ deferred' = c.deferred
      /\ UNCHANGED <<last_id, given, astray>>
  BY DEF close, history
<1>2. Books(pools, messages, astray, b, now) /\ b \in Int
  BY FewMessages
<1> HIDE DEF b
<1>3. /\ Placed(c.pools, c.messages, astray) /\ Unsent(c.messages, c.deferred)
      /\ DOMAIN c.messages = DOMAIN messages
  BY <1>1, <1>2, ClosingPlaces DEF Places
<1> HIDE DEF c
<1>4. Unsent(messages, deferred)'
  BY <1>1, <1>3 DEF Unsent
<1>5. Settlement'
  BY <1>1, <1>3 DEF Places, Settlement
<1> QED BY <1>1, <1>3, <1>4, <1>5 DEF Places

\* Tokens that come in
LEMMA TransferPlaces ==
  ASSUME BooksInv, Places, NEW quantity \in Fund, on_transfer(quantity)
  PROVE  Places'
<1> DEFINE ps == fill_depleted_pool(pools, quantity)
           c == closemssgs(ps, deferred)
           b == balance + astray.funds
           e == b + quantity
<1>1. /\ c.ok /\ pools' = c.pools /\ messages' = c.messages /\ deferred' = c.deferred
      /\ UNCHANGED <<last_id, given, astray>>
  BY DEF on_transfer, history
<1>2. quantity \in Nat
  BY AmountsAssumption
<1>3. /\ Books(pools, messages, astray, b, now) /\ b \in Int /\ now \in Nat
      /\ IsFiniteSet(DOMAIN messages) /\ \A p \in DOMAIN pools : IsPool(pools[p])
  BY FewMessages DEF Books
<1> HIDE DEF b
<1>4. Books(ps, messages, astray, e, now) /\ e \in Int
  BY <1>2, <1>3, FillKeeps
<1>5. Placed(ps, messages, astray)
  BY <1>2, <1>3, FillPlaces DEF Places
<1> HIDE DEF ps, e
<1>6. /\ Placed(c.pools, c.messages, astray) /\ Unsent(c.messages, c.deferred)
      /\ DOMAIN c.messages = DOMAIN messages
  BY <1>1, <1>4, <1>5, ClosingPlaces DEF Places
<1> HIDE DEF c
<1>7. Unsent(messages, deferred)'
  BY <1>1, <1>6 DEF Unsent
<1>8. Settlement'
  BY <1>1, <1>6 DEF Places, Settlement
<1> QED BY <1>1, <1>6, <1>7, <1>8 DEF Places

\* What closing before a vote or a post leaves
LEMMA ClosedPlaces ==
  ASSUME BooksInv, Places, NEW c, c = closemssgs(pools, deferred), c.ok
  PROVE  /\ Placed(c.pools, c.messages, astray) /\ Unsent(c.messages, c.deferred)
         /\ DOMAIN c.messages = DOMAIN messages
         /\ Books(c.pools, c.messages, astray, balance + astray.funds, now)
<1> DEFINE b == balance + astray.funds
<1>1. Books(pools, messages, astray, b, now) /\ b \in Int
  BY FewMessages
<1> HIDE DEF b
<1>2. /\ Placed(c.pools, c.messages, astray) /\ Unsent(c.messages, c.deferred)
      /\ DOMAIN c.messages = DOMAIN messages
  BY <1>1, ClosingPlaces DEF Places
<1>3. Books(c.pools, c.messages, astray, b, now)
  BY <1>1, ClosingKeeps
<1> QED BY <1>2, <1>3 DEF b

\* What a vote is: a first one or a changed one
LEMMA VoteForms ==
  ASSUME BooksInv, NEW voter \in Account, NEW id \in DOMAIN messages, NEW weight \in Int,
         set_vote(voter, id, weight),
         NEW c, c = closemssgs(pools, deferred)
  PROVE  /\ c.ok /\ ~closed(c.messages[id]) /\ messages[id].pool_date \in DOMAIN c.pools
         /\ deferred' = c.deferred /\ UNCHANGED <<now, params, last_id, balance, history>>
         /\ \E rshares \in Int :
              \/ \E delegators \in DelegatorLists, count \in VoteCounts :
                   /\ <<id, voter>> \notin DOMAIN votes
                   /\ new_vote(c, id, voter, weight, rshares, delegators, count)
              \/ revote(c, id, voter, weight, rshares) /\ <<id, voter>> \in DOMAIN votes
<1>1. /\ c.ok /\ ~closed(c.messages[id]) /\ messages[id].pool_date \in DOMAIN c.pools
      /\ can_vote(voter, abs_value(weight))
      /\ deferred' = c.deferred /\ UNCHANGED <<now, params, last_id, balance, history>>
  BY DEF set_vote, settings
<1>2. PICK vesting \in EffVesting :
        LET rshares == available_rshares(voter, weight, vesting) IN
        IF <<id, voter>> \in DOMAIN votes THEN revote(c, id, voter, weight, rshares)
        ELSE \E delegators \in DelegatorLists, count \in VoteCounts :
               new_vote(c, id, voter, weight, rshares, delegators, count)
  BY DEF set_vote
<1>3. available_rshares(voter, weight, vesting) \in Int
  BY <1>1, VoteNumbers, FewMessages
<1> QED BY <1>1, <1>2, <1>3

\* What set_vote writes: one message, and its pool's sums
LEMMA VoteLeaves ==
  ASSUME BooksInv, NEW voter \in Account, NEW id \in DOMAIN messages, NEW weight \in Int,
         set_vote(voter, id, weight), NEW c, c = closemssgs(pools, deferred)
  PROVE  /\ c.messages[id] = messages[id] /\ ~closed(messages[id])
         /\ DOMAIN messages' = DOMAIN c.messages
         /\ \A o \in DOMAIN c.messages \ {id} : messages'[o] = c.messages[o]
         /\ \E x, y, z \in Int : messages'[id] = VotedRow(messages[id], x, y, z)
         /\ DOMAIN pools' = DOMAIN c.pools
         /\ \A p \in DOMAIN c.pools : pools'[p].funds = c.pools[p].funds
<1>1. c = closemssgs(pools, deferred)
  OBVIOUS
<1>2. /\ c.ok /\ ~closed(c.messages[id]) /\ messages[id].pool_date \in DOMAIN c.pools
      /\ \E rshares \in Int :
           \/ \E delegators \in DelegatorLists, count \in VoteCounts :
                /\ <<id, voter>> \notin DOMAIN votes
                /\ new_vote(c, id, voter, weight, rshares, delegators, count)
           \/ revote(c, id, voter, weight, rshares) /\ <<id, voter>> \in DOMAIN votes
  BY <1>1, VoteForms
<1>3. /\ c.messages[id] = messages[id] /\ messages[id] \in MessageRow
      /\ ~closed(messages[id])
  BY <1>1, <1>2, VoteBegins DEF MessageRight
<1>4. PICK rshares \in Int :
         \/ \E delegators \in DelegatorLists, count \in VoteCounts :
              new_vote(c, id, voter, weight, rshares, delegators, count)
         \/ revote(c, id, voter, weight, rshares) /\ <<id, voter>> \in DOMAIN votes
  BY <1>2
<1> DEFINE m == messages[id]
           v == votes[<<id, voter>>]
<1>5. /\ m.netshares \in Int /\ m.voteshares \in Int /\ m.sumcuratorsw \in Int
  BY <1>3 DEF MessageRow
<1>6. CASE \E delegators \in DelegatorLists, count \in VoteCounts :
             new_vote(c, id, voter, weight, rshares, delegators, count)
  <2>1. PICK delegators \in DelegatorLists, count \in VoteCounts :
          new_vote(c, id, voter, weight, rshares, delegators, count)
    BY <1>6
  <2> DEFINE vs    == upvoted(m, rshares)
             delta == get_delta(c.pools[m.pool_date].rules.curationfunc, m.voteshares, vs)
             x == m.netshares + rshares
             z == m.sumcuratorsw + delta
  <2>2. /\ DOMAIN messages' = DOMAIN c.messages
        /\ \A o \in DOMAIN c.messages \ {id} : messages'[o] = c.messages[o]
        /\ vs \in Int /\ delta \in Int
        /\ messages'[id] = VotedRow(m, x, vs, z)
        /\ DOMAIN pools' = DOMAIN c.pools
        /\ \A p \in DOMAIN c.pools : pools'[p].funds = c.pools[p].funds
    <3>1. FirstVoted(c, id, voter, weight, rshares, delegators, count)
      <4> HIDE DEF m, vs, delta, x, z
      <4> QED BY <1>1, <1>2, <2>1, FirstVote
    <3> QED BY <3>1 DEF FirstVoted
  <2>3. x \in Int /\ z \in Int
    <3> HIDE DEF m, delta
    <3> QED BY <1>5, <2>2
  <2> HIDE DEF vs, x, z
  <2> QED BY <1>3, <2>2, <2>3
<1>7. CASE revote(c, id, voter, weight, rshares) /\ <<id, voter>> \in DOMAIN votes
  <2> DEFINE x == m.netshares - v.rshares + rshares
             z == m.sumcuratorsw - v.curatorsw
  <2>1. /\ DOMAIN messages' = DOMAIN c.messages
        /\ \A o \in DOMAIN c.messages \ {id} : messages'[o] = c.messages[o]
        /\ x \in Int
        /\ messages'[id] = VotedRow(m, x, m.voteshares, z)
        /\ DOMAIN pools' = DOMAIN c.pools
        /\ \A p \in DOMAIN c.pools : pools'[p].funds = c.pools[p].funds
    BY <1>1, <1>2, <1>7, ChangedVote
  <2>2. v \in VoteRow
    BY <1>7, FewMessages DEF Sides
  <2>3. z \in Int
    <3>1. v.curatorsw \in Int
      BY <2>2 DEF VoteRow
    <3> HIDE DEF m, v
    <3> QED BY <1>5, <3>1
  <2> HIDE DEF x, z
  <2> QED BY <1>3, <1>5, <2>1, <2>3
<1> QED BY <1>3, <1>4, <1>6, <1>7

\* set_vote
LEMMA VotePlaces ==
  ASSUME BooksInv, Places, NEW voter \in Account, NEW id \in DOMAIN messages,
         NEW weight \in Int, set_vote(voter, id, weight)
  PROVE  Places'
<1> DEFINE c == closemssgs(pools, deferred)
<1>0. c = closemssgs(pools, deferred)
  OBVIOUS
<1> HIDE DEF c
<1>1. /\ c.ok /\ ~closed(c.messages[id]) /\ messages[id].pool_date \in DOMAIN c.pools
      /\ deferred' = c.deferred /\ UNCHANGED <<now, params, last_id, balance, history>>
      /\ \E rshares \in Int :
           \/ \E delegators \in DelegatorLists, count \in VoteCounts :
                /\ <<id, voter>> \notin DOMAIN votes
                /\ new_vote(c, id, voter, weight, rshares, delegators, count)
           \/ revote(c, id, voter, weight, rshares) /\ <<id, voter>> \in DOMAIN votes
  BY <1>0, VoteForms
<1>2. /\ Placed(c.pools, c.messages, astray) /\ Unsent(c.messages, c.deferred)
      /\ DOMAIN c.messages = DOMAIN messages
  BY <1>0, <1>1, ClosedPlaces
<1>3. c.messages[id] = messages[id] /\ messages[id] \in MessageRow
  BY <1>0, <1>1, VoteBegins DEF MessageRight
<1>4. /\ DOMAIN messages' = DOMAIN c.messages
      /\ \A o \in DOMAIN c.messages \ {id} : messages'[o] = c.messages[o]
      /\ \E x, y, z \in Int : messages'[id] = VotedRow(messages[id], x, y, z)
      /\ DOMAIN pools' = DOMAIN c.pools
      /\ \A p \in DOMAIN c.pools : pools'[p].funds = c.pools[p].funds
  BY <1>0, VoteLeaves
<1>5. \A o \in DOMAIN c.messages : /\ messages'[o].pool_date = c.messages[o].pool_date
                                   /\ messages'[o].cashout_time = c.messages[o].cashout_time
                                   /\ messages'[o].mssg_reward = c.messages[o].mssg_reward
  <2> DEFINE m == messages[id]
             n == messages'[id]
  <2>1. PICK x \in Int, y \in Int, z \in Int : n = VotedRow(m, x, y, z)
    BY <1>4
  <2>2. m \in MessageRow /\ m = c.messages[id]
    BY <1>3
  <2> HIDE DEF m, n
  <2>3. n.pool_date = m.pool_date /\ n.cashout_time = m.cashout_time /\ n.mssg_reward = m.mssg_reward
    BY <2>1, <2>2, VotedFields
  <2> QED BY <1>4, <2>2, <2>3 DEF n
<1>6. Placed(pools', messages', astray)
  BY <1>2, <1>4, <1>5, PlacesMove
<1>7. Unsent(messages, deferred)'
  BY <1>1, <1>2, <1>4, <1>5 DEF Unsent, closed
<1>8. Settlement'
  BY <1>1, <1>2, <1>4 DEF Places, Settlement, history
<1> QED BY <1>1, <1>6, <1>7, <1>8 DEF Places, history

\* upvote, downvote and unvote
LEMMA VotingForms ==
  ASSUME Voting
  PROVE  \E voter \in Account, id \in DOMAIN messages, weight \in -Whole .. Whole :
           set_vote(voter, id, weight)
<1>1. PICK voter \in Account, id \in DOMAIN messages :
        \/ \E w \in Percents : upvote(voter, id, w) \/ downvote(voter, id, w)
        \/ unvote(voter, id)
  BY DEF Voting
<1>2. \E weight \in -Whole .. Whole : set_vote(voter, id, weight)
  <2>0. /\ \A x \in Int : -x = 0 - x
        /\ Whole \in Nat
    BY AmountsAssumption
  <2>1. CASE \E w \in Percents : upvote(voter, id, w) \/ downvote(voter, id, w)
    <3>1. PICK w \in Percents : upvote(voter, id, w) \/ downvote(voter, id, w)
      BY <2>1
    <3>2. w \in 0 .. Whole
      BY AmountsAssumption
    <3>3. w \in -Whole .. Whole /\ -w \in -Whole .. Whole
      BY <2>0, <3>2
    <3>4. set_vote(voter, id, w) \/ set_vote(voter, id, -w)
      BY <3>1 DEF upvote, downvote
    <3> QED BY <3>3, <3>4
  <2>2. CASE unvote(voter, id)
    <3>1. 0 \in -Whole .. Whole
      BY <2>0
    <3> QED BY <2>2, <3>1 DEF unvote
  <2> QED BY <1>1, <2>1, <2>2
<1> QED BY <1>2

\* A new message belongs to the last pool, and nothing was sent for it yet.
LEMMA CreatePlaces ==
  ASSUME BooksInv, Places, NEW author, NEW link, NEW parent, NEW map, NEW tokenprop,
         NEW prcnt, NEW payout,
         createmssg(author, link, parent, map, tokenprop, prcnt, payout)
  PROVE  Places'
<1> DEFINE c    == closemssgs(pools, deferred)
           ps   == c.pools
           ms   == c.messages
           d    == last_pool(ps)
           act  == IF parent = Root THEN "post" ELSE "comment"
           used == charged(charges, author, act, limits[act].price)
           id   == last_id + 1
           row(bens) ==
             [date |-> now, pool_date |-> d, tokenprop |-> tokenprop,
              beneficiaries |-> bens,
              rewardweight |-> IF parent = Root THEN reward_weight(used, author) ELSE Whole,
              netshares |-> 0, voteshares |-> 0, sumcuratorsw |-> 0,
              curators_prcnt |-> prcnt, cashout_time |-> now + params.cashout_window.window,
              mssg_reward |-> 0, max_payout |-> payout, paid_amount |-> 0]
<1>1. /\ params # NoParams /\ c.ok /\ DOMAIN pools # {}
      /\ pools' = counted(ps, d) /\ deferred' = c.deferred /\ last_id' = id
      /\ UNCHANGED <<given, astray>>
      /\ \E bens : messages' = Put(ms, id, row(bens))
  BY DEF createmssg, history
<1>2. PICK bens : messages' = Put(ms, id, row(bens))
  BY <1>1
<1>0. c = closemssgs(pools, deferred)
  OBVIOUS
<1> DEFINE n == row(bens)
<1>3. n.pool_date = d /\ n.mssg_reward = 0 /\ n.cashout_time = now + params.cashout_window.window
  OBVIOUS
<1>4. messages' = Put(ms, id, n)
  BY <1>2
<1> HIDE DEF c, n
<1>5. /\ Placed(ps, ms, astray) /\ Unsent(ms, c.deferred) /\ DOMAIN ms = DOMAIN messages
      /\ Books(ps, ms, astray, balance + astray.funds, now)
  BY <1>0, <1>1, ClosedPlaces
<1>6. now \in Nat /\ last_id \in Nat /\ DOMAIN messages \subseteq 1 .. last_id
  BY FewMessages DEF IInv, Keys
<1>7. d \in DOMAIN ps /\ DOMAIN ps \subseteq 0 .. now /\ \A q \in DOMAIN ps : q <= d
  <2>1. DOMAIN ps \subseteq 0 .. now
    BY <1>5 DEF Books
  <2>2. DOMAIN ps # {}
    <3> DEFINE b == balance + astray.funds
    <3>1. Books(pools, messages, astray, b, now) /\ b \in Int
      BY FewMessages
    <3> HIDE DEF b
    <3> QED BY <1>0, <1>1, <3>1, ClosingKeeps
  <2> HIDE DEF ps
  <2> QED BY <1>6, <2>1, <2>2, LastPool
<1>8. ~closed(n)
  <2>1. params.cashout_window.window \in Nat
    BY <1>1, FewMessages DEF IInv, WindowSound
  <2>2. \A x, y \in Nat : x + y # -1
    OBVIOUS
  <2> QED BY <1>3, <1>6, <2>1, <2>2 DEF closed, Never
<1> DEFINE ns == messages'
           qs == pools'
<1>9. /\ DOMAIN ns = DOMAIN ms \union {id} /\ id \notin DOMAIN ms /\ ns[id] = n
      /\ \A o \in DOMAIN ms : ns[o] = ms[o]
  BY <1>4, <1>5, <1>6 DEF Put
<1>10. DOMAIN qs = DOMAIN ps /\ \A p \in DOMAIN ps : qs[p].funds = ps[p].funds
  <2>1. /\ DOMAIN qs = DOMAIN ps /\ \A p \in DOMAIN ps \ {d} : qs[p] = ps[p]
        /\ qs[d] = [ps[d] EXCEPT !.msgs = @ + 1]
    BY <1>1, <1>7 DEF counted
  <2>2. IsPool(ps[d])
    BY <1>5, <1>7 DEF Books
  <2>3. qs[d].funds = ps[d].funds
    <3> DEFINE r == ps[d]
               k == r.msgs + 1
    <3>1. qs[d] = [r EXCEPT !.msgs = k]
      BY <2>1
    <3>2. r = [rules |-> r.rules, msgs |-> r.msgs, funds |-> r.funds,
               rshares |-> r.rshares, rsharesfn |-> r.rsharesfn]
      BY <2>2 DEF IsPool
    <3> HIDE DEF r, k
    <3>3. [r EXCEPT !.msgs = k].funds = r.funds
      BY <3>2
    <3> QED BY <3>1, <3>3 DEF r
  <2> QED BY <2>1, <2>3
<1> HIDE DEF ns, qs, id, ps, ms, d
<1>11. id = last_id + 1
  BY DEF id
<1>12. Solvent(qs, ns, astray)
  BY <1>3, <1>5, <1>9, <1>10 DEF Placed, Solvent
<1>13. InOrder(qs, ns)
  <2>1. \A o \in DOMAIN ms : ms[o].pool_date \in Int /\ ms[o].pool_date <= d
    <3> SUFFICES ASSUME NEW o \in DOMAIN ms PROVE ms[o].pool_date \in Int /\ ms[o].pool_date <= d
      OBVIOUS
    <3>1. PICK p \in DOMAIN ps : ms[o].pool_date <= p
      BY <1>5 DEF Placed, InOrder
    <3>2. ms[o].pool_date \in Nat
      BY <1>5 DEF Books, MessageRight, MessageRow
    <3> QED BY <1>6, <1>7, <3>1, <3>2
  <2>2. d \in Int /\ d <= d
    BY <1>6, <1>7
  <2>3. ASSUME NEW i \in DOMAIN ns, NEW j \in DOMAIN ns, i <= j
        PROVE  ns[i].pool_date <= ns[j].pool_date
    <3>1. CASE i \in DOMAIN ms /\ j \in DOMAIN ms
      BY <1>5, <1>9, <2>3, <3>1 DEF Placed, InOrder
    <3>2. CASE j = id
      BY <1>3, <1>9, <2>1, <2>2, <3>2
    <3>3. CASE i = id /\ j \in DOMAIN ms
      BY <1>5, <1>6, <1>11, <2>3, <3>3
    <3> QED BY <1>9, <3>1, <3>2, <3>3
  <2>4. \A o \in DOMAIN ns : \E p \in DOMAIN qs : ns[o].pool_date <= p
    BY <1>3, <1>7, <1>9, <1>10, <2>1, <2>2
  <2> QED BY <2>3, <2>4 DEF InOrder
<1>14. Pooled(qs, ns, astray)
  BY <1>3, <1>5, <1>7, <1>9, <1>10 DEF Placed, Pooled
<1>15. Unsent(messages, deferred)'
  <2>1. DOMAIN c.deferred \subseteq 0 .. last_id /\ id \notin DOMAIN c.deferred
    BY <1>5, <1>6, <1>11 DEF Unsent
  <2>2. DOMAIN deferred' \subseteq 0 .. last_id'
    BY <1>1, <1>6, <1>11, <2>1
  <2>3. \A o \in DOMAIN deferred' \intersect DOMAIN ns : closed(ns[o])
    BY <1>1, <1>5, <1>9, <2>1 DEF Unsent
  <2> QED BY <2>2, <2>3 DEF Unsent, ns
<1>16. Settlement'
  BY <1>1, <1>5, <1>6, <1>9, <1>11 DEF Places, Settlement, ns
<1> QED BY <1>1, <1>5, <1>12, <1>13, <1>14, <1>15, <1>16 DEF Places, Placed, ns, qs

\* A message that goes leaves the others where they are.
LEMMA DropPlaces ==
  ASSUME NEW ps, NEW ms, NEW w, Placed(ps, ms, w), NEW id, NEW ns, ns = Drop(ms, id)
  PROVE  Placed(ps, ns, w)
<1>1. DOMAIN ns \subseteq DOMAIN ms /\ \A o \in DOMAIN ns : ns[o] = ms[o]
  BY DEF Drop
<1>2. Solvent(ps, ns, w) /\ InOrder(ps, ns) /\ Pooled(ps, ns, w)
  BY <1>1 DEF Placed, Solvent, InOrder, Pooled
<1> QED BY <1>2 DEF Placed

\* deletemssg
LEMMA DeletePlaces ==
  ASSUME BooksInv, Places, NEW id, deletemssg(id)
  PROVE  Places'
<1> DEFINE m == messages[id]
           d == m.pool_date
           has == id \in DOMAIN messages
<1>1. /\ messages' = Drop(messages, id) /\ UNCHANGED <<last_id, given>>
      /\ deferred' = IF has THEN Put(deferred, id, "deletevotes") ELSE deferred
      /\ has => /\ d \in DOMAIN pools
                /\ pools' = [pools EXCEPT ![d].msgs = (@ - 1) % CounterRange]
                /\ astray' = IF closed(m) THEN [astray EXCEPT !.msgs = Put(@, d, at(@, d) + 1)]
                             ELSE [astray EXCEPT !.shares = Put(@, d, at(@, d) + m.netshares)]
      /\ ~has => pools' = pools /\ astray' = astray
  BY DEF deletemssg
<1>2. /\ \A p \in DOMAIN pools : IsPool(pools[p])
      /\ astray = [msgs |-> astray.msgs, shares |-> astray.shares,
                   funds |-> astray.funds, dealt |-> astray.dealt, tree |-> astray.tree]
      /\ last_id \in Nat /\ DOMAIN messages \subseteq 1 .. last_id
  BY DEF BooksInv, Shapes, IInv, Rows, Keys
<1>3. Placed(pools, messages', astray)
  BY <1>1, DropPlaces DEF Places
<1>4. DOMAIN pools' = DOMAIN pools /\ \A p \in DOMAIN pools : pools'[p].funds = pools[p].funds
  <2>1. CASE ~has
    BY <1>1, <2>1
  <2>2. CASE has
    <3> DEFINE r == pools[d]
               k == (r.msgs - 1) % CounterRange
    <3>1. /\ DOMAIN pools' = DOMAIN pools /\ \A p \in DOMAIN pools \ {d} : pools'[p] = pools[p]
          /\ pools'[d] = [r EXCEPT !.msgs = k]
      BY <1>1, <2>2
    <3>2. r = [rules |-> r.rules, msgs |-> r.msgs, funds |-> r.funds,
               rshares |-> r.rshares, rsharesfn |-> r.rsharesfn]
      BY <1>1, <1>2, <2>2 DEF IsPool
    <3> HIDE DEF r, k
    <3>3. [r EXCEPT !.msgs = k].funds = r.funds
      BY <3>2
    <3>4. pools'[d].funds = pools[d].funds
      BY <3>1, <3>3 DEF r
    <3> QED BY <3>1, <3>4
  <2> QED BY <2>1, <2>2
<1>5. Placed(pools', messages', astray)
  BY <1>3, <1>4, PlacesMove
<1>6. /\ astray'.funds = astray.funds /\ astray'.dealt = astray.dealt
      /\ \/ astray'.msgs = astray.msgs
         \/ astray'.msgs = Put(astray.msgs, d, at(astray.msgs, d) + 1)
  <2>1. CASE ~has
    BY <1>1, <2>1
  <2>2. CASE has
    BY <1>1, <1>2, <2>2
  <2> QED BY <2>1, <2>2
<1>7. /\ \A p : at(astray.msgs, p) \in Nat
      /\ \A p : at(astray.msgs, p) # 0 => at(astray'.msgs, p) # 0
      /\ \A p \in DOMAIN astray'.msgs : astray'.msgs[p] \in Nat
  <2>1. \A p : at(astray.msgs, p) \in Nat
    BY DEF Places, Placed, at
  <2>2. CASE astray'.msgs = astray.msgs
    BY <2>1, <2>2 DEF Places, Placed
  <2>3. CASE astray'.msgs = Put(astray.msgs, d, at(astray.msgs, d) + 1)
    <3> DEFINE t == astray.msgs
               u == astray'.msgs
               k == at(t, d) + 1
    <3>1. /\ DOMAIN u = DOMAIN t \union {d} /\ u[d] = k /\ \A p \in DOMAIN t \ {d} : u[p] = t[p]
      BY <2>3 DEF Put
    <3>2. at(t, d) \in Nat /\ \A p \in DOMAIN t : t[p] \in Nat
      BY <2>1 DEF Places, Placed
    <3> HIDE DEF t, u
    <3>3. k \in Nat /\ k # 0
      BY <3>2
    <3> HIDE DEF k
    <3>4. \A p \in DOMAIN u : u[p] \in Nat
      BY <3>1, <3>2, <3>3
    <3>5. \A p : at(t, p) # 0 => at(u, p) # 0
      BY <3>1, <3>3 DEF at
    <3> QED BY <2>1, <3>4, <3>5 DEF t, u
  <2> QED BY <1>6, <2>2, <2>3
<1>8. Placed(pools', messages', astray')
  <2>1. Solvent(pools', messages', astray')
    BY <1>5, <1>6 DEF Placed, Solvent
  <2>2. Pooled(pools', messages', astray')
    BY <1>5, <1>7 DEF Placed, Pooled
  <2> QED BY <1>5, <1>7, <2>1, <2>2 DEF Placed
<1>9. Unsent(messages, deferred)'
  <2>1. /\ DOMAIN messages' = DOMAIN messages \ {id}
        /\ \A o \in DOMAIN messages' : messages'[o] = messages[o]
    BY <1>1 DEF Drop
  <2>2. DOMAIN deferred' \subseteq DOMAIN deferred \union {id}
        /\ DOMAIN deferred' \subseteq 0 .. last_id
    BY <1>1, <1>2 DEF Put, Places, Unsent
  <2> QED BY <1>1, <2>1, <2>2 DEF Places, Unsent
<1>10. Settlement'
  BY <1>1 DEF Places, Settlement, Drop
<1> QED BY <1>8, <1>9, <1>10 DEF Places

\* setcurprcnt, setmaxpayout
LEMMA ChangePlaces ==
  ASSUME BooksInv, Places, NEW id,
         \/ \E c \in CuratorPrcnts : setcurprcnt(id, c)
         \/ \E x \in MaxPayouts : setmaxpayout(id, x)
  PROVE  Places'
<1>1. /\ UNCHANGED <<pools, last_id, deferred, history>> /\ id \in DOMAIN messages
      /\ \E x : \/ messages' = [messages EXCEPT ![id].curators_prcnt = x]
                \/ messages' = [messages EXCEPT ![id].max_payout = x]
  BY DEF setcurprcnt, setmaxpayout
<1>2. messages[id] \in MessageRow
  BY <1>1 DEF BooksInv, Shapes
<1>3. /\ DOMAIN messages' = DOMAIN messages
      /\ \A o \in DOMAIN messages : /\ messages'[o].pool_date = messages[o].pool_date
                                    /\ messages'[o].cashout_time = messages[o].cashout_time
                                    /\ messages'[o].mssg_reward = messages[o].mssg_reward
  BY <1>1, <1>2 DEF MessageRow
<1>4. Placed(pools, messages', astray)
  BY <1>3, PlacesMove DEF Places
<1>5. Unsent(messages, deferred)' /\ Settlement'
  BY <1>1, <1>3 DEF Places, Unsent, Settlement, history, closed
<1> QED BY <1>1, <1>4, <1>5 DEF Places, history

\* What a payment finds, and the numbers in it
LEMMA PayForms ==
  ASSUME BooksInv, NEW id, NEW sent, paymssgrwrd(id, sent)
  PROVE  /\ id \in DOMAIN messages /\ closed(messages[id])
         /\ UNCHANGED <<now, params, last_id, lost, astray>>
         /\ \E ord, c :
              /\ ord \in orders(id)
              /\ c = fill_curator_payouts(id, ord, curation_payout(messages[id]))
              /\ PaySoFar(c, id, curation_payout(messages[id]))
              /\ c.paid \in Int /\ unclaimed(messages[id], c) \in Int
              /\ curation_payout(messages[id]) \in Int
              /\ payment_sound(id, ord) /\ c.ok
              /\ votes' = votes_left(id, c)
              /\ \/ last_payment(id, c) /\ unclaimed(messages[id], c) >= 0 /\ pay_last(id, c, sent)
                 \/ ~last_payment(id, c) /\ pay_some(id, c, sent)
<1> DEFINE m  == messages[id]
           cp == curation_payout(m)
<1>1. /\ id \in DOMAIN messages /\ closed(m)
      /\ UNCHANGED <<now, params, last_id, lost, astray>>
  BY DEF paymssgrwrd, settings
<1>2. PICK ord \in orders(id) :
        LET c == fill_curator_payouts(id, ord, curation_payout(messages[id])) IN
        /\ payment_sound(id, ord)
        /\ IF last_payment(id, c) THEN pay_last(id, c, sent) ELSE pay_some(id, c, sent)
        /\ votes' = votes_left(id, c)
  BY DEF paymssgrwrd
<1> DEFINE c == fill_curator_payouts(id, ord, cp)
<1>3. m \in MessageRow
  BY <1>1 DEF BooksInv, Shapes
<1>4. m.mssg_reward \in Int /\ m.paid_amount \in Int /\ m.curators_prcnt \in Int
  BY <1>3 DEF MessageRow
<1>5. cp \in Int
  <2> HIDE DEF m
  <2> DEFINE q == m.curators_prcnt * m.mssg_reward
  <2>1. q \in Int
    BY <1>4, ProductInt
  <2>3. cp = q \div Whole
    BY DEF curation_payout
  <2> HIDE DEF q, cp
  <2>4. Whole \in Int /\ Whole > 0
    BY AmountsAssumption
  <2> QED BY <2>1, <2>3, <2>4
<1> HIDE DEF cp
<1>6. PaySoFar(c, id, cp)
  BY <1>1, <1>5, LoopPays
<1>7. c.paid \in Int
  <2> HIDE DEF c
  <2> QED BY <1>6 DEF PaySoFar
<1>8. /\ payment_sound(id, ord) /\ c.ok /\ (last_payment(id, c) => unclaimed(m, c) >= 0)
      /\ IF last_payment(id, c) THEN pay_last(id, c, sent) ELSE pay_some(id, c, sent)
      /\ votes' = votes_left(id, c)
  BY <1>2 DEF payment_sound, cp
<1>9. unclaimed(m, c) = cp - (c.paid + m.paid_amount)
  BY DEF unclaimed, cp
<1>10. c = fill_curator_payouts(id, ord, curation_payout(messages[id]))
  BY DEF cp
<1> HIDE DEF c
<1>11. unclaimed(m, c) \in Int
  <2> HIDE DEF m
  <2> QED BY <1>4, <1>5, <1>7, <1>9
<1> QED BY <1>1, <1>5, <1>6, <1>7, <1>8, <1>10, <1>11 DEF cp

\* paymssgrwrd
LEMMA PayPlaces ==
  ASSUME BooksInv, Places, NEW id, NEW sent, paymssgrwrd(id, sent),
         DOMAIN sent \subseteq DOMAIN deferred
  PROVE  Places'
<1> DEFINE m == messages[id]
<1>1. /\ id \in DOMAIN messages /\ closed(m) /\ UNCHANGED <<last_id, astray>>
  BY PayForms
<1>2. PICK ord, c :
        /\ ord \in orders(id)
        /\ c.paid \in Int /\ unclaimed(m, c) \in Int
        /\ \/ last_payment(id, c) /\ unclaimed(m, c) >= 0 /\ pay_last(id, c, sent)
           \/ ~last_payment(id, c) /\ pay_some(id, c, sent)
  BY PayForms
<1>3. /\ \A p \in DOMAIN pools : IsPool(pools[p])
      /\ last_id \in Nat /\ DOMAIN messages \subseteq 1 .. last_id
      /\ m \in MessageRow
  BY <1>1 DEF BooksInv, Shapes, IInv, Keys
<1>4. CASE last_payment(id, c) /\ unclaimed(m, c) >= 0 /\ pay_last(id, c, sent)
  <2> DEFINE u == unclaimed(m, c)
  <2>1. /\ messages' = Drop(messages, id) /\ pools' = fill_depleted_pool(pools, u)
        /\ deferred' = Put(sent, id, "deletevotes")
        /\ \E x : given' = Put(given, id, x)
    BY <1>4 DEF pay_last
  <2>2. u \in Nat
    BY <1>2, <1>4
  <2>3. Placed(pools, messages', astray)
    BY <2>1, DropPlaces DEF Places
  <2> HIDE DEF u
  <2>4. Placed(pools', messages', astray)
    BY <1>3, <2>1, <2>2, <2>3, FillPlaces
  <2>5. /\ DOMAIN messages' = DOMAIN messages \ {id}
        /\ \A o \in DOMAIN messages' : messages'[o] = messages[o]
        /\ DOMAIN deferred' = DOMAIN sent \union {id}
        /\ DOMAIN given' = DOMAIN given \union {id}
    BY <2>1 DEF Drop, Put
  <2>6. Unsent(messages, deferred)'
    BY <1>1, <1>3, <2>5 DEF Places, Unsent
  <2>7. Settlement'
    BY <1>1, <1>3, <2>5 DEF Places, Settlement
  <2> QED BY <1>1, <2>4, <2>6, <2>7 DEF Places
<1>5. CASE pay_some(id, c, sent)
  <2>1. /\ messages' = [messages EXCEPT ![id].paid_amount = @ + c.paid]
        /\ deferred' = Put(sent, id, "paymssgrwrd")
        /\ UNCHANGED <<pools, given>>
    BY <1>5 DEF pay_some, send_postreward_trx
  <2>2. /\ DOMAIN messages' = DOMAIN messages
        /\ \A o \in DOMAIN messages : /\ messages'[o].pool_date = messages[o].pool_date
                                      /\ messages'[o].cashout_time = messages[o].cashout_time
                                      /\ messages'[o].mssg_reward = messages[o].mssg_reward
    BY <1>1, <1>3, <2>1 DEF MessageRow
  <2>3. Placed(pools, messages', astray)
    BY <2>2, PlacesMove DEF Places
  <2>4. DOMAIN deferred' = DOMAIN sent \union {id}
    BY <2>1 DEF Put
  <2>5. Unsent(messages, deferred)' /\ Settlement'
    BY <1>1, <1>3, <2>1, <2>2, <2>4 DEF Places, Unsent, Settlement, closed
  <2> QED BY <1>1, <2>1, <2>3, <2>5 DEF Places
<1> QED BY <1>2, <1>4, <1>5

\* deletevotes, lose_deferred
LEMMA ErasePlaces ==
  ASSUME BooksInv, Places, NEW id \in DOMAIN deferred,
         deletevotes(id, Drop(deferred, id)) \/ lose_deferred(id)
  PROVE  Places'
<1>1. /\ UNCHANGED <<pools, messages, last_id, given, astray>>
      /\ \/ deferred' = Drop(deferred, id)
         \/ deferred' = Put(Drop(deferred, id), id, "deletevotes")
  BY DEF deletevotes, lose_deferred, history
<1>2. DOMAIN deferred' \subseteq DOMAIN deferred
  BY <1>1 DEF Drop, Put
<1>3. last_id' \in Int /\ last_id' >= last_id
  BY <1>1 DEF BooksInv, IInv, Keys
<1> QED BY <1>1, <1>2, <1>3, QuietPlaces

\* setrules: what the new pool gets is there, and what belongs to it waits.
LEMMA RulesPlaces ==
  ASSUME BooksInv, Places, NEW rules \in RuleSets, setrules(rules)
  PROVE  Places'
<1> DEFINE kept == {p \in DOMAIN pools : pools[p].msgs # 0}
           f == [p \in kept |-> pools[p].funds]
           g == [p \in DOMAIN pools |-> pools[p].funds]
           funds == Total(f)
           np == [rules |-> rules, msgs |-> 0, funds |-> balance - funds,
                  rshares |-> 0, rsharesfn |-> 0]
           ns == netshares_in(now)
           ms == messages
           e == astray'
           qs == pools'
<1>1. /\ now \notin kept
      /\ pools' = Put([p \in kept |-> pools[p]], now, np)
      /\ astray' = [astray EXCEPT !.msgs = Put(@, now, Cardinality(open_in(now))),
                                  !.shares = Put(@, now, -ns),
                                  !.funds = unpaid,
                                  !.dealt = @ \/ unpaid # 0]
      /\ UNCHANGED <<messages, last_id, deferred, given>>
  BY DEF setrules
<1>2. /\ now \in Nat /\ balance \in Int
      /\ DOMAIN pools \subseteq 0 .. now /\ \A p \in DOMAIN pools : IsPool(pools[p])
      /\ \A id \in DOMAIN messages : messages[id].pool_date \in Nat /\ messages[id].pool_date <= now
      /\ astray = [msgs |-> astray.msgs, shares |-> astray.shares,
                   funds |-> astray.funds, dealt |-> astray.dealt, tree |-> astray.tree]
  BY DEF BooksInv, Shapes, IInv, Rows, Keys, YoungPool, MessageRow
<1>3. /\ e.msgs = Put(astray.msgs, now, Cardinality(open_in(now)))
      /\ e.funds = unpaid /\ (~e.dealt => ~astray.dealt /\ unpaid = 0)
  BY <1>1, <1>2
<1>4. /\ DOMAIN qs = kept \union {now} /\ qs[now] = np /\ \A p \in kept : qs[p] = pools[p]
  BY <1>1 DEF Put
<1>5. np.funds = balance - funds
  OBVIOUS
<1> HIDE DEF np, e, qs
<1>6. Solvent(qs, ms, e)
  <2> SUFFICES ASSUME ~e.dealt
               PROVE  /\ e.funds = 0
                      /\ \A p \in DOMAIN qs : qs[p].funds >= 0
                      /\ \A id \in DOMAIN ms : ms[id].mssg_reward >= 0
    BY DEF Solvent
  <2>1. /\ unpaid = 0 /\ astray.funds = 0
        /\ \A p \in DOMAIN pools : pools[p].funds >= 0
        /\ \A id \in DOMAIN ms : ms[id].mssg_reward >= 0
    BY <1>3 DEF Places, Placed, Solvent
  <2>2. \A p \in DOMAIN pools : pools[p].funds \in Nat
    BY <1>2, <2>1 DEF IsPool
  <2>3. IsFiniteSet(DOMAIN pools)
    <3>1. IsFiniteSet(0 .. now)
      <4>1. now \in Int /\ 0 \in Int
        BY <1>2
      <4> QED BY <4>1, FS_Interval
    <3> QED BY <1>2, <3>1, FS_Subset
  <2>4. funds <= Total(g) /\ funds \in Int /\ Total(g) \in Int
    <3>1. kept \subseteq DOMAIN pools /\ DOMAIN f = kept /\ DOMAIN g = DOMAIN pools
          /\ (\A p \in kept : f[p] = g[p]) /\ \A p \in DOMAIN pools : g[p] \in Nat
      BY <2>2
    <3> DEFINE h == [p \in DOMAIN g |-> IF p \in kept THEN g[p] ELSE 0]
    <3>2. DOMAIN h = DOMAIN g /\ (\A p \in DOMAIN g : h[p] \in Int /\ g[p] \in Int /\ h[p] <= g[p])
          /\ (\A p \in kept : h[p] = f[p]) /\ \A p \in DOMAIN h \ kept : h[p] = 0
      BY <3>1
    <3> HIDE DEF f, g, h, kept
    <3>3. Total(h) <= Total(g)
      BY <2>3, <3>1, <3>2, TotalAtMost
    <3>4. Total(f) = Total(h)
      BY <2>3, <3>1, <3>2, TotalWithoutZeros
    <3>5. Total(h) \in Int /\ Total(g) \in Int
      BY <2>3, <3>1, <3>2, TotalInt
    <3> QED BY <3>3, <3>4, <3>5
  <2>5. Total(g) + unpaid <= balance + astray.funds
    BY DEF BooksInv, FundsCovered
  <2> HIDE DEF f, g, kept
  <2>6. balance - funds >= 0
    <3> HIDE DEF funds
    <3> QED BY <1>2, <2>1, <2>4, <2>5
  <2>7. \A p \in DOMAIN qs : qs[p].funds >= 0
    <3>1. \A p \in kept : qs[p].funds >= 0
      BY <1>4, <2>1 DEF kept
    <3> QED BY <1>4, <1>5, <2>6, <3>1
  <2> QED BY <1>3, <2>1, <2>7
<1>7. InOrder(qs, ms)
  BY <1>2, <1>4 DEF Places, Placed, InOrder
<1>8. Pooled(qs, ms, e)
  <2> SUFFICES ASSUME NEW id \in DOMAIN ms, ~closed(ms[id])
               PROVE  ms[id].pool_date \in DOMAIN qs \/ at(e.msgs, ms[id].pool_date) # 0
    BY DEF Pooled
  <2> DEFINE p == messages[id].pool_date
  <2>1. CASE p = now \/ p \in kept
    BY <1>4, <2>1
  <2>2. CASE p # now /\ p \notin kept
    <3>1. at(e.msgs, p) = at(astray.msgs, p)
      BY <1>3, <2>2 DEF at, Put
    <3>2. at(astray.msgs, p) # 0
      <4>1. CASE p \notin DOMAIN pools
        BY <4>1 DEF Places, Placed, Pooled
      <4>2. CASE p \in DOMAIN pools
        <5> SUFFICES ASSUME at(astray.msgs, p) = 0 PROVE FALSE
          OBVIOUS
        <5>1. pools[p].msgs = 0
          BY <2>2, <4>2
        <5>2. (0 + 0) % CounterRange = Cardinality(open_in(p))
          BY <4>2, <5>1 DEF BooksInv, CountsExact
        <5>3. (0 % CounterRange) = 0
          <6>1. CounterRange \in Nat \ {0} /\ 0 \in 0 .. CounterRange - 1
            BY BoundsAssumption
          <6> QED BY <6>1, SmallRemainder
        <5>4. id \in open_in(p)
          BY DEF open_in
        <5>5. IsFiniteSet(open_in(p))
          BY MessagesFinite DEF BooksInv
        <5> HIDE DEF p
        <5>6. open_in(p) = {}
          BY <5>2, <5>3, <5>5, FS_EmptySet
        <5> QED BY <5>4, <5>6
      <4> QED BY <4>1, <4>2
    <3> QED BY <3>1, <3>2
  <2> QED BY <2>1, <2>2
<1>9. \A p \in DOMAIN e.msgs : e.msgs[p] \in Nat
  <2>1. Cardinality(open_in(now)) \in Nat
    <3>1. IsFiniteSet(open_in(now))
      BY MessagesFinite DEF BooksInv
    <3> QED BY <3>1, FS_CardinalityType
  <2> QED BY <1>3, <2>1 DEF Put, Places, Placed
<1>10. Placed(pools', messages', astray')
  BY <1>1, <1>6, <1>7, <1>8, <1>9 DEF Placed, e, qs
<1>11. Unsent(messages, deferred)' /\ Settlement'
  BY <1>1 DEF Places, Unsent, Settlement
<1> QED BY <1>10, <1>11 DEF Places

\* syncpool: the pools it drops are older than all messages.
LEMMA SyncPlaces ==
  ASSUME BooksInv, Places, syncpool
  PROVE  Places'
<1> DEFINE oldest == CHOOSE id \in DOMAIN messages : \A o \in DOMAIN messages : id <= o
           last == last_pool(pools)
           from == IF DOMAIN messages = {} THEN last
                   ELSE Least(last, messages[oldest].pool_date)
           kept == {p \in DOMAIN pools : p >= from}
           first == CHOOSE p \in kept : \A q \in kept : p <= q
           sum == Total([p \in kept |-> pools[p].rshares])
           amount(p) == IF balance = 0 \/ pools[p].rshares = 0 THEN 0
                        ELSE quotient(balance * pools[p].rshares, sum)
           h == [p \in kept |-> amount(p)]
           left == balance - Total(h)
           x(p) == amount(p) + IF p = first THEN left ELSE 0
           qs == pools'
           ms == messages
           e == astray'
<1>1. /\ DOMAIN pools # {} /\ left >= 0
      /\ sum = 0 => balance = 0 \/ \A p \in kept : pools[p].rshares = 0
      /\ pools' = [p \in kept |-> [pools[p] EXCEPT !.funds = x(p)]]
      /\ astray' = [astray EXCEPT !.funds = unpaid,
                                  !.dealt = \/ @ \/ unpaid # 0
                                            \/ \E p \in kept : amount(p) < 0]
      /\ UNCHANGED <<messages, last_id, deferred, given>>
  BY DEF syncpool
<1>2. /\ now \in Nat /\ balance \in Int
      /\ DOMAIN pools \subseteq 0 .. now /\ \A p \in DOMAIN pools : IsPool(pools[p])
      /\ \A id \in DOMAIN messages : messages[id].pool_date \in Nat
      /\ DOMAIN messages \subseteq 1 .. last_id /\ last_id \in Nat
      /\ astray = [msgs |-> astray.msgs, shares |-> astray.shares,
                   funds |-> astray.funds, dealt |-> astray.dealt, tree |-> astray.tree]
  BY DEF BooksInv, Shapes, IInv, Rows, Keys, MessageRow
<1>3. IsFiniteSet(DOMAIN pools)
  <2>1. IsFiniteSet(0 .. now)
    <3>1. now \in Int /\ 0 \in Int
      BY <1>2
    <3> QED BY <3>1, FS_Interval
  <2> QED BY <1>2, <2>1, FS_Subset
<1>4. e.msgs = astray.msgs /\ e.funds = unpaid
      /\ (~e.dealt => ~astray.dealt /\ unpaid = 0 /\ \A p \in kept : ~(amount(p) < 0))
  <2> HIDE DEF kept, amount
  <2> QED BY <1>1, <1>2
<1>5. last \in DOMAIN pools /\ \A q \in DOMAIN pools : q <= last
  BY <1>1, <1>2, LastPool
<1> HIDE DEF last
<1>6. last \in Int /\ from \in Int /\ from <= last
      /\ \A id \in DOMAIN messages : from <= messages[id].pool_date
  <2>1. last \in Int
    BY <1>2, <1>5
  <2>2. CASE DOMAIN messages = {}
    BY <2>1, <2>2
  <2>3. CASE DOMAIN messages # {}
    <3>1. DOMAIN messages \subseteq Nat
      BY <1>2
    <3>2. oldest \in DOMAIN messages /\ \A o \in DOMAIN messages : oldest <= o
      BY <2>3, <3>1, SmallestNumber
    <3> HIDE DEF oldest
    <3>3. messages[oldest].pool_date \in Nat
          /\ \A o \in DOMAIN messages : messages[oldest].pool_date <= messages[o].pool_date
      BY <1>2, <3>2 DEF Places, Placed, InOrder
    <3>4. from = Least(last, messages[oldest].pool_date)
      BY <2>3
    <3> DEFINE y == messages[oldest].pool_date
    <3>5. from \in Int /\ from <= last /\ from <= y /\ y \in Int
      BY <2>1, <3>3, <3>4 DEF Least
    <3>6. \A o \in DOMAIN messages : messages[o].pool_date \in Int /\ y <= messages[o].pool_date
      BY <1>2, <3>3
    <3> HIDE DEF from, y
    <3> QED BY <2>1, <3>5, <3>6
  <2> QED BY <2>2, <2>3
<1> HIDE DEF from
<1>7. kept \subseteq DOMAIN pools /\ IsFiniteSet(kept) /\ last \in kept
      /\ \A p \in DOMAIN pools : p >= from => p \in kept
  <2>1. kept \in SUBSET DOMAIN pools
    OBVIOUS
  <2>2. last \in kept
    BY <1>5, <1>6
  <2> QED BY <1>3, <2>1, <2>2, FS_Subset
<1> HIDE DEF kept, first
<1>10. \A p \in kept : pools[p].rshares \in Int
  BY <1>2, <1>7, PoolFields
<1>11. sum \in Int
  <2> DEFINE g == [p \in kept |-> pools[p].rshares]
  <2>1. DOMAIN g = kept /\ \A p \in DOMAIN g : g[p] \in Int
    BY <1>10
  <2> HIDE DEF g
  <2>2. Total(g) \in Int
    BY <1>7, <2>1, TotalInt
  <2> QED BY <2>2 DEF g
<1> HIDE DEF sum
<1>12. \A p \in kept : amount(p) \in Int
  <2> SUFFICES ASSUME NEW p \in kept PROVE amount(p) \in Int
    OBVIOUS
  <2>1. CASE balance = 0 \/ pools[p].rshares = 0
    BY <2>1
  <2>2. CASE ~(balance = 0 \/ pools[p].rshares = 0)
    <3>1. sum # 0
      BY <1>1, <2>2
    <3>2. balance * pools[p].rshares \in Int
      BY <1>2, <1>10, ProductInt
    <3>3. quotient(balance * pools[p].rshares, sum) \in Int
      BY <1>11, <3>1, <3>2, QuotientInt
    <3> QED BY <2>2, <3>3
  <2> QED BY <2>1, <2>2
<1> HIDE DEF amount
<1>13. DOMAIN h = kept /\ \A p \in kept : h[p] \in Int
  BY <1>12
<1> HIDE DEF h
<1>14. left \in Int
  <2>1. Total(h) \in Int
    BY <1>7, <1>13, TotalInt
  <2> QED BY <1>2, <2>1
<1> HIDE DEF left
<1>15. DOMAIN qs = kept /\ \A p \in kept : qs[p].funds = x(p)
  <2>1. DOMAIN qs = kept
    BY <1>1
  <2>2. ASSUME NEW p \in kept PROVE qs[p].funds = x(p)
    <3> DEFINE r == pools[p]
               y == x(p)
    <3>1. qs[p] = [r EXCEPT !.funds = y]
      BY <1>1
    <3>2. r = [rules |-> r.rules, msgs |-> r.msgs, funds |-> r.funds,
               rshares |-> r.rshares, rsharesfn |-> r.rsharesfn]
      BY <1>2, <1>7 DEF IsPool
    <3> HIDE DEF r, y
    <3>3. [r EXCEPT !.funds = y].funds = y
      BY <3>2
    <3> QED BY <3>1, <3>3 DEF y
  <2> QED BY <2>1, <2>2
<1> HIDE DEF qs, e
<1>16. Solvent(qs, ms, e)
  <2> SUFFICES ASSUME ~e.dealt
               PROVE  /\ e.funds = 0
                      /\ \A p \in DOMAIN qs : qs[p].funds >= 0
                      /\ \A id \in DOMAIN ms : ms[id].mssg_reward >= 0
    BY DEF Solvent
  <2>1. \A p \in kept : amount(p) >= 0
    BY <1>4, <1>12
  <2>2. \A p \in kept : x(p) >= 0
    BY <1>1, <1>12, <1>14, <2>1
  <2> QED BY <1>4, <1>15, <2>2 DEF Places, Placed, Solvent
<1>17. InOrder(qs, ms)
  <2>1. ASSUME NEW id \in DOMAIN ms PROVE ms[id].pool_date <= last
    <3>1. PICK p \in DOMAIN pools : ms[id].pool_date <= p
      BY DEF Places, Placed, InOrder
    <3>2. p <= last /\ p \in Int /\ ms[id].pool_date \in Int
      BY <1>2, <1>5
    <3> QED BY <1>6, <3>1, <3>2
  <2> QED BY <1>7, <1>15, <2>1 DEF Places, Placed, InOrder
<1>18. Pooled(qs, ms, e)
  <2>1. \A id \in DOMAIN ms : ms[id].pool_date \in DOMAIN pools => ms[id].pool_date \in DOMAIN qs
    BY <1>2, <1>6, <1>7, <1>15
  <2> QED BY <1>4, <2>1 DEF Places, Placed, Pooled
<1>19. Placed(pools', messages', astray')
  BY <1>1, <1>4, <1>16, <1>17, <1>18 DEF Places, Placed, e, qs
<1>20. Unsent(messages, deferred)' /\ Settlement'
  BY <1>1 DEF Places, Unsent, Settlement
<1> QED BY <1>19, <1>20 DEF Places

\* Nothing is there at the start.
LEMMA StartPlaces ==
  ASSUME Init
  PROVE  Places
<1>1. /\ pools = EmptyTable /\ messages = EmptyTable /\ deferred = EmptyTable
      /\ given = EmptyTable /\ last_id = 0
      /\ astray = [msgs |-> EmptyTable, shares |-> EmptyTable, funds |-> 0,
                   dealt |-> FALSE, tree |-> {}]
  BY DEF Init
<1>2. DOMAIN EmptyTable = {}
  BY DEF EmptyTable
<1>3. astray.funds = 0
  BY <1>1
<1>4. Placed(pools, messages, astray)
  <2>1. DOMAIN astray.msgs = {} /\ \A p : at(astray.msgs, p) = 0
    BY <1>1, <1>2 DEF at
  <2> QED BY <1>1, <1>2, <1>3, <2>1 DEF Placed, Solvent, InOrder, Pooled
<1>5. Unsent(messages, deferred) /\ Settlement
  BY <1>1, <1>2 DEF Unsent, Settlement
<1> QED BY <1>4, <1>5 DEF Places

\* Permlinks touched by hand are all that addpermlink and delpermlink put astray.
LEMMA TreeTouched ==
  ASSUME BooksInv, NEW S, astray' = [astray EXCEPT !.tree = S]
  PROVE  /\ astray'.msgs = astray.msgs /\ astray'.funds = astray.funds
         /\ astray'.dealt = astray.dealt
<1>1. astray = [msgs |-> astray.msgs, shares |-> astray.shares,
                funds |-> astray.funds, dealt |-> astray.dealt, tree |-> astray.tree]
  BY FewMessages DEF IInv, Rows
<1> QED BY <1>1

\* Every step keeps messages in their places.
LEMMA StepPlaces == BooksInv /\ Places /\ [Next]_vars => Places'
<1> SUFFICES ASSUME BooksInv, Places, [Next]_vars PROVE Places'
  OBVIOUS
<1>1. last_id \in Nat
  BY DEF BooksInv, IInv, Keys
<1>2. CASE Messages
  <2>1. ASSUME NEW author \in Account, NEW link \in Link,
               NEW parent \in DOMAIN permlinks \union {Root},
               NEW map \in Beneficiaries, NEW t \in TokenProps, NEW c \in CuratorPrcnts,
               NEW x \in MaxPayouts, createmssg(author, link, parent, map, t, c, x)
        PROVE  Places'
    BY <2>1, CreatePlaces
  <2>2. ASSUME NEW author \in Account, NEW link \in Link,
               NEW parent \in DOMAIN permlinks \union {Root}, NEW import \in Imports,
               addpermlink(author, link, parent, import)
        PROVE  Places'
    <3>1. /\ UNCHANGED <<pools, messages, given, deferred>> /\ last_id' = last_id + 1
          /\ astray'.msgs = astray.msgs /\ astray'.funds = astray.funds
          /\ astray'.dealt = astray.dealt
      BY <2>2, TreeTouched DEF addpermlink
    <3> QED BY <1>1, <3>1, QuietPlaces
  <2> QED BY <1>2, <2>1, <2>2 DEF Messages
<1>3. CASE Changes
  <2>1. ASSUME NEW id \in DOMAIN permlinks,
               \/ delpermlink(id)
               \/ deletemssg(id)
               \/ \E c \in CuratorPrcnts : setcurprcnt(id, c)
               \/ \E x \in MaxPayouts : setmaxpayout(id, x)
        PROVE  Places'
    <3>1. CASE delpermlink(id)
      <4>1. /\ UNCHANGED <<pools, messages, given, deferred, last_id>>
            /\ astray'.msgs = astray.msgs /\ astray'.funds = astray.funds
            /\ astray'.dealt = astray.dealt
        BY <3>1, TreeTouched DEF delpermlink
      <4> QED BY <1>1, <4>1, QuietPlaces
    <3>2. CASE deletemssg(id)
      BY <3>2, DeletePlaces
    <3>3. CASE \/ \E c \in CuratorPrcnts : setcurprcnt(id, c)
               \/ \E x \in MaxPayouts : setmaxpayout(id, x)
      BY <3>3, ChangePlaces
    <3> QED BY <2>1, <3>1, <3>2, <3>3
  <2> QED BY <1>3, <2>1 DEF Changes
<1>4. CASE Voting
  <2>1. PICK voter \in Account, id \in DOMAIN messages, weight \in -Whole .. Whole :
          set_vote(voter, id, weight)
    BY <1>4, VotingForms
  <2>2. weight \in Int
    BY AmountsAssumption
  <2> QED BY <2>1, <2>2, VotePlaces
<1>5. CASE Paying
  <2>1. CASE \E id \in DOMAIN messages : paymssgrwrd(id, deferred)
    BY <2>1, PayPlaces
  <2>2. ASSUME NEW id \in DOMAIN deferred, run_deferred(id)
        PROVE  Places'
    <3> DEFINE sent == Drop(deferred, id)
    <3>1. DOMAIN sent \subseteq DOMAIN deferred
      BY DEF Drop
    <3>2. Unsent(messages, sent)
      BY <1>1, UnsentLess DEF Places
    <3>3. close(sent) \/ paymssgrwrd(id, sent) \/ deletevotes(id, sent)
      BY <2>2 DEF run_deferred
    <3>4. CASE close(sent)
      BY <3>2, <3>4, ClosePlaces
    <3>5. CASE paymssgrwrd(id, sent)
      BY <3>1, <3>5, PayPlaces
    <3>6. CASE deletevotes(id, sent)
      BY <3>6, ErasePlaces
    <3> QED BY <3>3, <3>4, <3>5, <3>6
  <2>3. CASE \E id \in DOMAIN deferred : lose_deferred(id)
    BY <2>3, ErasePlaces
  <2>4. CASE close(deferred)
    BY <2>4, ClosePlaces DEF Places
  <2>5. CASE \E q \in Fund : on_transfer(q)
    BY <2>5, TransferPlaces
  <2> QED BY <1>5, <2>1, <2>2, <2>3, <2>4, <2>5 DEF Paying
<1>6. CASE Settings
  <2>1. CASE \/ \E batch \in ParamBatches : setparams(batch)
             \/ \E act \in DOMAIN LimitRows : \E row \in LimitRows[act] : setlimit(act, row)
    <3>1. UNCHANGED <<pools, messages, given, deferred, last_id, astray>>
      BY <2>1 DEF setparams, setlimit, history
    <3> QED BY <1>1, <3>1, QuietPlaces
  <2>2. CASE \E rules \in RuleSets : setrules(rules)
    BY <2>2, RulesPlaces
  <2>3. CASE syncpool
    BY <2>3, SyncPlaces
  <2> QED BY <1>6, <2>1, <2>2, <2>3 DEF Settings
<1>7. CASE Others \/ Tick \/ UNCHANGED vars
  <2>1. UNCHANGED <<pools, messages, given, deferred, last_id, astray>>
    <3>1. CASE Others
      BY <3>1 DEF Others, posting, history
    <3>2. CASE Tick
      BY <3>2 DEF Tick, history
    <3>3. CASE UNCHANGED vars
      BY <3>3 DEF vars, history
    <3> QED BY <1>7, <3>1, <3>2, <3>3
  <2> QED BY <1>1, <2>1, QuietPlaces
<1> QED BY <1>2, <1>3, <1>4, <1>5, <1>6, <1>7 DEF Next

\* Messages keep to the order of their pools, which wait for them, nothing is
\* sent for a message before it is closed, and none is paid twice over.
THEOREM PlacesInductive == Spec => []Places
<1>1. Init => Places
  BY StartPlaces
<1>2. Spec => Init /\ [][Next]_vars
  BY PTL DEF Spec
<1> QED BY <1>1, <1>2, BooksInductive, StepPlaces, PTL

\* Until unpaid rewards are dealt out again no pool has funds below zero, so no
\* transfer fails the check in get_ratio.
THEOREM FundsStayThere == Spec => []FundsLast
<1>1. Places => FundsLast
  BY DEF Places, Placed, Solvent, FundsNotNegative, FundsLast
<1> QED BY <1>1, PlacesInductive, PTL

----------------------------------------------------------------------------
(* What votes may claim *)

\* A part of a set has a part of its sum, when nothing of it is negative.
LEMMA SumOfPart ==
  ASSUME NEW f, NEW S, IsFiniteSet(S), \A x \in S : f[x] \in Nat, NEW T, T \subseteq S
  PROVE  SumOver(f, T) <= SumOver(f, S) /\ SumOver(f, T) \in Nat
<1> DEFINE g == [x \in S |-> IF x \in T THEN f[x] ELSE 0]
<1>1. \A x \in S : g[x] \in Int /\ f[x] \in Int /\ g[x] <= f[x]
  OBVIOUS
<1>2. \A x \in S \ T : g[x] = 0
  OBVIOUS
<1>3. \A x \in T : g[x] \in Int /\ f[x] = g[x] /\ f[x] \in Nat
  OBVIOUS
<1> HIDE DEF g
<1>4. IsFiniteSet(T)
  BY FS_Subset
<1>5. SumOver(g, S) <= SumOver(f, S)
  BY <1>1, SumAtMost
<1>6. SumOver(g, S) = SumOver(g, T)
  BY <1>1, <1>2, SumWithoutZeros
<1>7. SumOver(f, T) = SumOver(g, T)
  BY <1>3, <1>4, SumSame
<1>8. SumOver(f, T) \in Nat
  BY <1>3, <1>4, SumNat
<1> QED BY <1>5, <1>6, <1>7, <1>8

\* The same of tables
LEMMA TotalOfPart ==
  ASSUME NEW f, IsFiniteSet(DOMAIN f), \A x \in DOMAIN f : f[x] \in Nat,
         NEW g, DOMAIN g \subseteq DOMAIN f, \A x \in DOMAIN g : g[x] = f[x]
  PROVE  Total(g) <= Total(f) /\ Total(g) \in Nat
<1>1. IsFiniteSet(DOMAIN g)
  BY FS_Subset
<1>2. \A x \in DOMAIN g : f[x] \in Int /\ g[x] = f[x]
  OBVIOUS
<1>3. SumOver(g, DOMAIN g) = SumOver(f, DOMAIN g)
  BY <1>1, <1>2, SumSame
<1>4. SumOver(f, DOMAIN g) <= SumOver(f, DOMAIN f) /\ SumOver(f, DOMAIN g) \in Nat
  BY SumOfPart
<1> QED BY <1>3, <1>4 DEF Total

\* Voters are finitely many,
LEMMA FewVoters ==
  ASSUME NEW vs, NEW id
  PROVE  IsFiniteSet(VotersOf(vs, id))
<1>1. VotersOf(vs, id) \subseteq Account
  BY DEF VotersOf
<1> QED BY <1>1, BoundsAssumption, FS_Subset

\* and so are the delegators of each.
LEMMA FewDelegators ==
  ASSUME NEW v, VoteKnown(v)
  PROVE  /\ DOMAIN v.delegators = 1 .. Len(v.delegators) /\ Len(v.delegators) \in Nat
         /\ IsFiniteSet(DOMAIN v.delegators)
         /\ \A d \in DOMAIN v.delegators :
              v.delegators[d] \in [delegator : Account, interest_rate : 1 .. Whole]
              /\ v.delegators[d].interest_rate \in Nat
<1> DEFINE D == [delegator : Account, interest_rate : 1 .. Whole]
           ds == v.delegators
<1>1. ds \in Seq(D)
  BY DEF VoteKnown
<1>2. \A x \in D : x.interest_rate \in Nat
  BY AmountsAssumption
<1> HIDE DEF D, ds
<1>3. DOMAIN ds = 1 .. Len(ds) /\ Len(ds) \in Nat /\ \A d \in 1 .. Len(ds) : ds[d] \in D
  BY <1>1, LenProperties, ElementOfSeq
<1>4. IsFiniteSet(DOMAIN ds)
  <2>1. 1 \in Int /\ Len(ds) \in Int
    BY <1>3
  <2> QED BY <1>3, <2>1, FS_Interval
<1> QED BY <1>2, <1>3, <1>4 DEF ds, D

\* What there is for curators
LEMMA MostNat ==
  ASSUME NEW m \in MessageRow
  PROVE  curation_payout(m) \in Int /\ most(m) \in Nat
<1> DEFINE cp == curation_payout(m)
           x  == m.curators_prcnt * m.mssg_reward
<1>1. m.curators_prcnt \in Int /\ m.mssg_reward \in Int
  BY DEF MessageRow
<1>2. x \in Int
  BY <1>1, ProductInt
<1>3. cp = x \div Whole
  BY DEF curation_payout
<1> HIDE DEF x, cp
<1>4. cp \in Int
  BY <1>2, <1>3, AmountsAssumption
<1>5. most(m) = IF cp > 0 THEN cp ELSE 0
  BY DEF most, cp
<1>6. most(m) \in Nat
  BY <1>4, <1>5
<1> QED BY <1>4, <1>6 DEF cp

\* A claim is not negative, nor is what there is for curators.
LEMMA ClaimNat ==
  ASSUME NEW m \in MessageRow, MessageKnown(m), NEW v, VoteKnown(v)
  PROVE  claim_of(m, v) \in Nat /\ most(m) \in Nat /\ curation_payout(m) \in Int
<1> DEFINE cp == curation_payout(m)
<1>1. m.sumcuratorsw \in Nat /\ v.curatorsw \in Nat
  BY DEF MessageKnown, VoteKnown
<1>4. cp \in Int
  BY MostNat
<1>5. most(m) \in Nat
  BY MostNat
<1> HIDE DEF cp
<1>6. CASE m.sumcuratorsw <= 0 \/ cp <= 0
  BY <1>4, <1>5, <1>6 DEF claim_of, cp
<1>7. CASE ~(m.sumcuratorsw <= 0 \/ cp <= 0)
  <2> DEFINE w == v.curatorsw
             s == m.sumcuratorsw
  <2>1. cp \in Nat /\ w \in Nat /\ s \in Nat \ {0}
    BY <1>1, <1>4, <1>7
  <2>2. claim_of(m, v) = (cp * w) \div s
    BY <1>7 DEF claim_of, cp
  <2> HIDE DEF w, s
  <2>3. cp * w \in Nat
    BY <2>1
  <2>4. (cp * w) \div s \in Nat
    <3> DEFINE z == cp * w
    <3> HIDE DEF z
    <3> QED BY <2>1, <2>3 DEF z
  <2> QED BY <1>4, <1>5, <2>2, <2>4 DEF cp
<1> QED BY <1>6, <1>7

\* The delegators get no more than the claim.
LEMMA DelegatedFits ==
  ASSUME NEW v, VoteKnown(v), NEW claim \in Nat
  PROVE  /\ delegated(claim, v.delegators) \in Nat /\ delegated(claim, v.delegators) <= claim
         /\ \A d \in DOMAIN v.delegators :
              (claim * v.delegators[d].interest_rate) \div Whole \in Nat
<1> DEFINE S == DOMAIN v.delegators
           f == [d \in S |-> v.delegators[d].interest_rate]
           g == [d \in S |-> (claim * v.delegators[d].interest_rate) \div Whole]
<1>1. IsFiniteSet(S) /\ \A d \in S : v.delegators[d].interest_rate \in Nat
  BY FewDelegators
<1>2. SumOver(f, S) <= Whole /\ Whole \in Nat \ {0}
  <2>1. Total(f) <= Whole
    BY DEF VoteKnown
  <2>2. DOMAIN f = S
    OBVIOUS
  <2> HIDE DEF f, S
  <2> QED BY <2>1, <2>2, AmountsAssumption DEF Total
<1>3. \A s \in S : f[s] \in Nat /\ g[s] = (claim * f[s]) \div Whole
  BY <1>1
<1>4. DOMAIN g = S /\ \A d \in S : g[d] = (claim * v.delegators[d].interest_rate) \div Whole
  OBVIOUS
<1>5. delegated(claim, v.delegators) = Total(g)
  BY DEF delegated
<1> HIDE DEF f, g, S
<1>6. (\A s \in S : g[s] \in Nat) /\ SumOver(g, S) <= claim
  BY <1>1, <1>2, <1>3, PartsFit
<1>7. Total(g) = SumOver(g, S)
  BY <1>4 DEF Total
<1>8. SumOver(g, S) \in Nat
  BY <1>1, <1>6, SumNat
<1> QED BY <1>4, <1>5, <1>6, <1>7, <1>8 DEF S

\* When votes go, the sums of the others are still right.
LEMMA FewerVotes ==
  ASSUME NEW ms, NEW vs, VotesRight(ms, vs), NEW ws, DOMAIN ws \subseteq DOMAIN vs,
         \A k \in DOMAIN ws : ws[k] = vs[k],
         \A id \in DOMAIN ms : ms[id] \in MessageRow /\ MessageKnown(ms[id]),
         \A k \in DOMAIN vs : VoteKnown(vs[k])
  PROVE  VotesRight(ms, ws)
<1> SUFFICES ASSUME NEW id \in DOMAIN ms
             PROVE  /\ WeightsRight(ms[id], ws, id)
                    /\ IF closed(ms[id]) THEN ClaimsRight(ms[id], ws, id)
                       ELSE Untouched(ws, id)
  BY DEF VotesRight
<1> DEFINE m == ms[id]
           S == VotersOf(vs, id)
           T == VotersOf(ws, id)
<1>1. /\ T \subseteq S /\ IsFiniteSet(S)
      /\ \A v \in T : ws[<<id, v>>] = vs[<<id, v>>]
      /\ \A v \in S : VoteKnown(vs[<<id, v>>])
  BY FewVoters DEF VotersOf
<1>2. WeightsRight(m, vs, id) /\ m \in MessageRow /\ MessageKnown(m)
  BY DEF VotesRight
<1>3. IF closed(m) THEN ClaimsRight(m, vs, id) ELSE Untouched(vs, id)
  BY DEF VotesRight
<1> HIDE DEF m
<1>4. WeightsRight(m, ws, id)
  <2> DEFINE f == [v \in S |-> vs[<<id, v>>].curatorsw]
             g == [v \in T |-> ws[<<id, v>>].curatorsw]
  <2>1. /\ DOMAIN f = S /\ DOMAIN g = T
        /\ \A v \in S : f[v] \in Nat
        /\ \A v \in T : g[v] = f[v]
    BY <1>1 DEF VoteKnown
  <2>2. Total(f) <= m.sumcuratorsw
    BY <1>2 DEF WeightsRight
  <2>3. m.sumcuratorsw \in Int
    BY <1>2 DEF MessageKnown
  <2> HIDE DEF f, g, S, T
  <2>4. Total(g) <= Total(f) /\ Total(g) \in Nat /\ Total(f) \in Nat
    BY <1>1, <2>1, TotalOfPart, TotalNat
  <2>5. Total(g) <= m.sumcuratorsw
    BY <2>2, <2>3, <2>4
  <2> QED BY <2>5 DEF WeightsRight, g, T
<1>5. CASE ~closed(m)
  <2>1. Untouched(ws, id)
    BY <1>1, <1>3, <1>5 DEF Untouched
  <2> QED BY <1>4, <1>5, <2>1 DEF m
<1>6. CASE closed(m)
  <2> DEFINE f == [v \in S |-> claim_of(m, vs[<<id, v>>]) - vs[<<id, v>>].paid_amount]
             g == [v \in T |-> claim_of(m, ws[<<id, v>>]) - ws[<<id, v>>].paid_amount]
  <2>1. /\ m.paid_amount >= 0 /\ (m.sumcuratorsw = 0 => m.paid_amount = 0)
        /\ m.paid_amount + Total(f) <= most(m)
        /\ \A v \in S :
             vs[<<id, v>>].paid_amount
               + delegated(claim_of(m, vs[<<id, v>>]), vs[<<id, v>>].delegators)
               <= claim_of(m, vs[<<id, v>>])
    BY <1>3, <1>6 DEF ClaimsRight
  <2>2. DOMAIN f = S /\ DOMAIN g = T /\ \A v \in T : g[v] = f[v]
    BY <1>1
  <2>3. ASSUME NEW v \in S PROVE f[v] \in Nat
    <3> DEFINE row == vs[<<id, v>>]
    <3>1. VoteKnown(row)
      BY <1>1
    <3>2. row.paid_amount + delegated(claim_of(m, row), row.delegators) <= claim_of(m, row)
      BY <2>1
    <3>3. f[v] = claim_of(m, row) - row.paid_amount
      OBVIOUS
    <3> HIDE DEF row, f
    <3>4. claim_of(m, row) \in Nat /\ row.paid_amount \in Nat
      BY <1>2, <3>1, ClaimNat DEF VoteKnown
    <3>5. delegated(claim_of(m, row), row.delegators) \in Nat
      BY <3>1, <3>4, DelegatedFits
    <3> QED BY <3>2, <3>3, <3>4, <3>5
  <2>4. m.paid_amount \in Int /\ most(m) \in Int
    <3>1. m.paid_amount \in Int /\ m.curators_prcnt \in Int /\ m.mssg_reward \in Int
      BY <1>2 DEF MessageRow
    <3> DEFINE x == m.curators_prcnt * m.mssg_reward
    <3>2. x \in Int
      BY <3>1, ProductInt
    <3>3. curation_payout(m) = x \div Whole
      BY DEF curation_payout
    <3> HIDE DEF x
    <3>4. curation_payout(m) \in Int
      BY <3>2, <3>3, AmountsAssumption
    <3> QED BY <3>1, <3>4 DEF most
  <2> HIDE DEF f, g, S, T
  <2>5. Total(g) <= Total(f) /\ Total(g) \in Nat /\ Total(f) \in Nat
    BY <1>1, <2>2, <2>3, TotalOfPart, TotalNat
  <2>6. m.paid_amount + Total(g) <= most(m)
    BY <2>1, <2>4, <2>5
  <2>7. \A v \in T :
             ws[<<id, v>>].paid_amount
               + delegated(claim_of(m, ws[<<id, v>>]), ws[<<id, v>>].delegators)
               <= claim_of(m, ws[<<id, v>>])
    BY <1>1, <2>1
  <2>8. ClaimsRight(m, ws, id)
    BY <2>1, <2>6, <2>7 DEF ClaimsRight, g, T
  <2> QED BY <1>4, <1>6, <2>8 DEF m
<1> QED BY <1>5, <1>6

\* A message that has just been closed: its votes may claim what their weights
\* are of the sum, and the delegators what their rates are of a claim.
LEMMA ClaimsBegin ==
  ASSUME NEW m \in MessageRow, MessageKnown(m), m.paid_amount = 0, NEW vs, NEW id,
         \A k \in DOMAIN vs : VoteKnown(vs[k]),
         WeightsRight(m, vs, id), Untouched(vs, id)
  PROVE  ClaimsRight(m, vs, id)
<1> DEFINE S == VotersOf(vs, id)
           f == [v \in S |-> vs[<<id, v>>].curatorsw]
           g == [v \in S |-> claim_of(m, vs[<<id, v>>]) - vs[<<id, v>>].paid_amount]
           cp == curation_payout(m)
           n == m.sumcuratorsw
<1>1. IsFiniteSet(S) /\ DOMAIN f = S /\ DOMAIN g = S
      /\ \A v \in S : VoteKnown(vs[<<id, v>>]) /\ vs[<<id, v>>].paid_amount = 0
  BY FewVoters DEF VotersOf, Untouched
<1>2. \A v \in S : claim_of(m, vs[<<id, v>>]) \in Nat
  BY <1>1, ClaimNat
<1>3. \A v \in S : f[v] \in Nat /\ g[v] \in Nat /\ g[v] = claim_of(m, vs[<<id, v>>])
  <2> SUFFICES ASSUME NEW v \in S
               PROVE  f[v] \in Nat /\ g[v] \in Nat /\ g[v] = claim_of(m, vs[<<id, v>>])
    OBVIOUS
  <2> DEFINE row == vs[<<id, v>>]
             x == claim_of(m, row)
  <2>1. row.curatorsw \in Nat /\ row.paid_amount = 0 /\ x \in Nat
    BY <1>1, <1>2 DEF VoteKnown
  <2>2. f[v] = row.curatorsw /\ g[v] = x - row.paid_amount
    OBVIOUS
  <2> HIDE DEF row, x, f, g
  <2>3. g[v] = x
    BY <2>1, <2>2
  <2> QED BY <2>1, <2>2, <2>3 DEF row, x
<1>4. Total(f) <= n /\ n \in Nat
  BY DEF WeightsRight, MessageKnown
<1>5. \A v \in S : vs[<<id, v>>].paid_amount
               + delegated(claim_of(m, vs[<<id, v>>]), vs[<<id, v>>].delegators)
               <= claim_of(m, vs[<<id, v>>])
  <2> SUFFICES ASSUME NEW v \in S
               PROVE  vs[<<id, v>>].paid_amount
               + delegated(claim_of(m, vs[<<id, v>>]), vs[<<id, v>>].delegators)
               <= claim_of(m, vs[<<id, v>>])
    OBVIOUS
  <2> DEFINE row == vs[<<id, v>>]
             x == claim_of(m, row)
  <2>1. VoteKnown(row) /\ row.paid_amount = 0 /\ x \in Nat
    BY <1>1, <1>2
  <2> HIDE DEF row, x
  <2>2. delegated(x, row.delegators) \in Nat /\ delegated(x, row.delegators) <= x
    BY <2>1, DelegatedFits
  <2> QED BY <2>1, <2>2 DEF row, x
<1>6. curation_payout(m) \in Int
  <2> DEFINE x == m.curators_prcnt * m.mssg_reward
  <2>1. m.curators_prcnt \in Int /\ m.mssg_reward \in Int
    BY DEF MessageRow
  <2>2. x \in Int
    BY <2>1, ProductInt
  <2>3. curation_payout(m) = x \div Whole
    BY DEF curation_payout
  <2> HIDE DEF x
  <2> QED BY <2>2, <2>3, AmountsAssumption
<1>7. Total(g) <= most(m)
  <2>1. CASE n <= 0 \/ cp <= 0
    <3>1. \A v \in S : g[v] = 0
      BY <1>3, <2>1 DEF claim_of
    <3>2. Total(g) = 0
      <4> HIDE DEF g, S
      <4> QED BY <1>1, <3>1, TotalZero
    <3> QED BY <1>6, <3>2 DEF most
  <2>2. CASE ~(n <= 0 \/ cp <= 0)
    <3>1. cp \in Nat /\ n \in Nat \ {0} /\ most(m) = cp
      BY <1>4, <1>6, <2>2 DEF most
    <3>2. \A v \in S : g[v] = (cp * f[v]) \div n
      <4> SUFFICES ASSUME NEW v \in S PROVE g[v] = (cp * f[v]) \div n
        OBVIOUS
      <4>1. claim_of(m, vs[<<id, v>>]) = (cp * vs[<<id, v>>].curatorsw) \div n
        BY <2>2 DEF claim_of
      <4>2. f[v] = vs[<<id, v>>].curatorsw
        OBVIOUS
      <4> HIDE DEF f, g, cp, n
      <4> QED BY <1>3, <4>1, <4>2
    <3> HIDE DEF f, g, S, cp, n
    <3>3. SumOver(f, S) <= n
      BY <1>1, <1>4 DEF Total
    <3>4. SumOver(g, S) <= cp
      BY <1>1, <1>3, <3>1, <3>2, <3>3, PartsFit
    <3> QED BY <1>1, <3>1, <3>4 DEF Total
  <2> QED BY <2>1, <2>2
<1>8. 0 + Total(g) <= most(m)
  <2>1. Total(g) \in Int
    <3>1. \A v \in S : g[v] \in Int
      BY <1>3
    <3> HIDE DEF f, g, S
    <3> QED BY <1>1, <3>1, TotalInt
  <2> HIDE DEF g
  <2> QED BY <1>7, <2>1
<1> QED BY <1>5, <1>8 DEF ClaimsRight

----------------------------------------------------------------------------
(* Closing, and rows that change in other respects *)

\* Closing a message leaves these fields of it.
LEMMA ClosedKept ==
  ASSUME NEW m \in MessageRow, NEW r \in Int, NEW n, ClosedRow(n, m, r)
  PROVE  /\ n.tokenprop = m.tokenprop /\ n.curators_prcnt = m.curators_prcnt
         /\ n.max_payout = m.max_payout /\ n.cashout_time = Never
         /\ n.voteshares = m.voteshares /\ n.sumcuratorsw = m.sumcuratorsw
<1> DEFINE k == [m EXCEPT !.cashout_time = Never]
<1>1. Never \in Int
  BY DEF Never
<1>2. /\ k \in MessageRow /\ k.cashout_time = Never /\ k.tokenprop = m.tokenprop
      /\ k.curators_prcnt = m.curators_prcnt /\ k.max_payout = m.max_payout
      /\ k.voteshares = m.voteshares /\ k.sumcuratorsw = m.sumcuratorsw
  BY <1>1 DEF MessageRow
<1>3. n = [k EXCEPT !.mssg_reward = r]
  BY DEF ClosedRow
<1> HIDE DEF k
<1>4. /\ n.tokenprop = k.tokenprop /\ n.curators_prcnt = k.curators_prcnt
      /\ n.max_payout = k.max_payout /\ n.cashout_time = k.cashout_time
      /\ n.voteshares = k.voteshares /\ n.sumcuratorsw = k.sumcuratorsw
  BY <1>2, <1>3 DEF MessageRow
<1> QED BY <1>2, <1>4

\* What a message is known by
LEMMA KnownSame ==
  ASSUME NEW m, MessageKnown(m), NEW n, n.tokenprop = m.tokenprop,
         n.curators_prcnt = m.curators_prcnt, n.max_payout = m.max_payout,
         n.cashout_time \in {m.cashout_time, Never},
         n.voteshares = m.voteshares, n.sumcuratorsw = m.sumcuratorsw
  PROVE  MessageKnown(n)
BY DEF MessageKnown

\* Messages that stay, or go, and keep what their votes may claim
LEMMA RightMoves ==
  ASSUME NEW ms, NEW vs, VotesRight(ms, vs), \A k \in DOMAIN vs : VoteKnown(vs[k]),
         NEW ns, DOMAIN ns \subseteq DOMAIN ms,
         \A id \in DOMAIN ns :
           /\ ns[id].sumcuratorsw = ms[id].sumcuratorsw
           /\ closed(ns[id]) = closed(ms[id])
           /\ ns[id].paid_amount = ms[id].paid_amount
           /\ \/ curation_payout(ns[id]) = curation_payout(ms[id])
              \/ ms[id].sumcuratorsw = 0 /\ curation_payout(ns[id]) \in Int
  PROVE  VotesRight(ns, vs)
<1> SUFFICES ASSUME NEW id \in DOMAIN ns
             PROVE  /\ WeightsRight(ns[id], vs, id)
                    /\ IF closed(ns[id]) THEN ClaimsRight(ns[id], vs, id)
                       ELSE Untouched(vs, id)
  BY DEF VotesRight
<1> DEFINE m == ms[id]
           n == ns[id]
<1>1. /\ WeightsRight(m, vs, id)
      /\ IF closed(m) THEN ClaimsRight(m, vs, id) ELSE Untouched(vs, id)
  BY DEF VotesRight
<1>2. /\ n.sumcuratorsw = m.sumcuratorsw /\ closed(n) = closed(m)
      /\ n.paid_amount = m.paid_amount
      /\ \/ curation_payout(n) = curation_payout(m)
         \/ m.sumcuratorsw = 0 /\ curation_payout(n) \in Int
  OBVIOUS
<1> HIDE DEF m, n
<1>3. WeightsRight(n, vs, id)
  BY <1>1, <1>2 DEF WeightsRight
<1>4. ASSUME ClaimsRight(m, vs, id) PROVE ClaimsRight(n, vs, id)
  <2> DEFINE S == VotersOf(vs, id)
             f == [v \in S |-> claim_of(m, vs[<<id, v>>]) - vs[<<id, v>>].paid_amount]
             g == [v \in S |-> claim_of(n, vs[<<id, v>>]) - vs[<<id, v>>].paid_amount]
  <2>1. /\ m.paid_amount >= 0 /\ (m.sumcuratorsw = 0 => m.paid_amount = 0)
        /\ m.paid_amount + Total(f) <= most(m)
        /\ \A v \in S :
             vs[<<id, v>>].paid_amount
               + delegated(claim_of(m, vs[<<id, v>>]), vs[<<id, v>>].delegators)
               <= claim_of(m, vs[<<id, v>>])
    BY <1>4 DEF ClaimsRight
  <2>2. \A v : claim_of(n, v) = claim_of(m, v)
    BY <1>2 DEF claim_of
  <2>3. f = g
    BY <2>2
  <2>4. m.paid_amount + Total(f) <= most(n)
    <3>1. CASE curation_payout(n) = curation_payout(m)
      BY <2>1, <3>1 DEF most
    <3>2. CASE m.sumcuratorsw = 0 /\ curation_payout(n) \in Int
      <4>1. \A v \in S : claim_of(m, vs[<<id, v>>]) = 0
        BY <3>2 DEF claim_of
      <4> DEFINE z == [v \in S |-> 0]
      <4>2. \A v \in S : f[v] \in Int /\ z[v] \in Int /\ f[v] <= z[v]
        <5> SUFFICES ASSUME NEW v \in S PROVE f[v] \in Int /\ z[v] \in Int /\ f[v] <= z[v]
          OBVIOUS
        <5>1. vs[<<id, v>>].paid_amount \in Nat
          BY DEF VotersOf, VoteKnown
        <5>2. f[v] = 0 - vs[<<id, v>>].paid_amount /\ z[v] = 0
          BY <4>1
        <5> HIDE DEF f, z
        <5> QED BY <5>1, <5>2
      <4>3. DOMAIN f = S /\ DOMAIN z = S /\ IsFiniteSet(S) /\ \A v \in S : z[v] = 0
        BY FewVoters
      <4> HIDE DEF f, z, S
      <4>4. Total(f) <= Total(z) /\ Total(z) = 0 /\ Total(f) \in Int
        BY <4>2, <4>3, TotalAtMost, TotalZero, TotalInt
      <4>5. m.paid_amount = 0
        BY <2>1, <3>2
      <4>6. 0 <= most(n)
        BY <3>2 DEF most
      <4>7. most(n) \in Int
        BY <3>2 DEF most
      <4> QED BY <4>4, <4>5, <4>6, <4>7
    <3> QED BY <1>2, <3>1, <3>2
  <2> QED BY <1>2, <2>1, <2>2, <2>3, <2>4 DEF ClaimsRight
<1> QED BY <1>1, <1>2, <1>3, <1>4 DEF n

\* After closing, the votes of the messages it closed may claim their parts.
LEMMA ClosingKnown ==
  ASSUME BooksInv, NEW ps, NEW b \in Int, Books(ps, messages, astray, b, now),
         RowsKnown(ps, messages, votes), VotesRight(messages, votes),
         NEW sent, closemssgs(ps, sent).ok
  PROVE  /\ RowsKnown(closemssgs(ps, sent).pools, closemssgs(ps, sent).messages, votes)
         /\ VotesRight(closemssgs(ps, sent).messages, votes)
<1> DEFINE ms == closemssgs(ps, sent).messages
           qs == closemssgs(ps, sent).pools
<1>1. /\ DOMAIN ms = DOMAIN messages /\ closing \subseteq due
      /\ \A id \in DOMAIN messages \ closing : ms[id] = messages[id]
      /\ \A id \in closing : \E r \in Int : ClosedRow(ms[id], messages[id], r)
      /\ DOMAIN qs \subseteq DOMAIN ps
      /\ \A p \in DOMAIN qs : qs[p].rules = ps[p].rules
  BY ClosingDoes
<1> HIDE DEF ms, qs
<1>2. closing \subseteq DOMAIN messages /\ \A id \in closing : ~closed(messages[id])
  BY <1>1 DEF due
<1>3. \A id \in DOMAIN messages : messages[id] \in MessageRow /\ MessageRight(messages[id])
  BY FewMessages DEF Books, MessageRight
<1>4. \A id \in DOMAIN messages : MessageKnown(messages[id])
  BY DEF RowsKnown
<1>5. \A k \in DOMAIN votes : VoteKnown(votes[k])
  BY DEF RowsKnown
<1>6. ASSUME NEW id \in closing
      PROVE  /\ MessageKnown(ms[id]) /\ ms[id] \in MessageRow /\ closed(ms[id])
             /\ ms[id].paid_amount = 0 /\ ms[id].sumcuratorsw = messages[id].sumcuratorsw
  <2> DEFINE m == messages[id]
             n == ms[id]
  <2>1. PICK r \in Int : ClosedRow(n, m, r)
    BY <1>1
  <2>2. m \in MessageRow /\ MessageRight(m) /\ MessageKnown(m) /\ ~closed(m)
    BY <1>2, <1>3, <1>4
  <2> HIDE DEF m, n
  <2>3. /\ n.tokenprop = m.tokenprop /\ n.curators_prcnt = m.curators_prcnt
        /\ n.max_payout = m.max_payout /\ n.cashout_time = Never
        /\ n.voteshares = m.voteshares /\ n.sumcuratorsw = m.sumcuratorsw
    BY <2>1, <2>2, ClosedKept
  <2>4. n \in MessageRow /\ closed(n) /\ n.paid_amount = m.paid_amount
    BY <2>1, <2>2, MessageClosed
  <2>5. m.paid_amount = 0
    BY <2>2 DEF MessageRight
  <2>6. MessageKnown(n)
    BY <2>2, <2>3, KnownSame
  <2> QED BY <2>3, <2>4, <2>5, <2>6 DEF m, n
<1>7. RowsKnown(qs, ms, votes)
  <2>1. \A p \in DOMAIN qs : PoolKnown(qs[p])
    BY <1>1 DEF RowsKnown, PoolKnown
  <2>2. \A id \in DOMAIN ms : MessageKnown(ms[id])
    BY <1>1, <1>4, <1>6
  <2> QED BY <1>5, <2>1, <2>2 DEF RowsKnown
<1>8. VotesRight(ms, votes)
  <2>1. ASSUME NEW id \in closing
        PROVE  WeightsRight(ms[id], votes, id) /\ ClaimsRight(ms[id], votes, id)
    <3>1. WeightsRight(messages[id], votes, id) /\ Untouched(votes, id)
      BY <1>2 DEF VotesRight
    <3>2. WeightsRight(ms[id], votes, id)
      BY <1>6, <3>1 DEF WeightsRight
    <3>3. /\ MessageKnown(ms[id]) /\ ms[id] \in MessageRow /\ ms[id].paid_amount = 0
      BY <1>6
    <3> DEFINE n == ms[id]
    <3> HIDE DEF n
    <3>4. ClaimsRight(n, votes, id)
      BY <1>5, <3>1, <3>2, <3>3, ClaimsBegin DEF n
    <3> QED BY <3>2, <3>4 DEF n
  <2>2. \A id \in DOMAIN messages \ closing :
          /\ WeightsRight(ms[id], votes, id)
          /\ IF closed(ms[id]) THEN ClaimsRight(ms[id], votes, id) ELSE Untouched(votes, id)
    BY <1>1 DEF VotesRight
  <2> QED BY <1>1, <1>6, <2>1, <2>2 DEF VotesRight
<1> QED BY <1>7, <1>8 DEF ms, qs

\* What closing before a vote or a post leaves
LEMMA ClosedKnown ==
  ASSUME BooksInv, RowsKnown(pools, messages, votes), VotesRight(messages, votes),
         NEW c, c = closemssgs(pools, deferred), c.ok
  PROVE  RowsKnown(c.pools, c.messages, votes) /\ VotesRight(c.messages, votes)
<1>1. balance + astray.funds \in Int /\ Books(pools, messages, astray, balance + astray.funds, now)
  BY FewMessages
<1> QED BY <1>1, ClosingKnown

----------------------------------------------------------------------------
(* Voting *)

\* One vote for the open message id is new in ws, or differs from vs, and the
\* message's sum follows it.
OneVote(ms, vs, ns, ws, id, voter) ==
  LET key == <<id, voter>> IN
  /\ ~closed(ms[id]) /\ ~closed(ns[id])
  /\ ms[id].sumcuratorsw \in Int /\ ns[id].sumcuratorsw \in Int
  /\ DOMAIN ns = DOMAIN ms /\ \A o \in DOMAIN ms \ {id} : ns[o] = ms[o]
  /\ DOMAIN ws = DOMAIN vs \union {key} /\ \A k \in DOMAIN vs \ {key} : ws[k] = vs[k]
  /\ ws[key].paid_amount = 0 /\ ws[key].curatorsw \in Nat
  /\ ws[key].curatorsw - (IF key \in DOMAIN vs THEN vs[key].curatorsw ELSE 0)
       <= ns[id].sumcuratorsw - ms[id].sumcuratorsw

\* That leaves the votes right.
LEMMA OneVoteMoves ==
  ASSUME NEW ms, NEW vs, VotesRight(ms, vs), \A k \in DOMAIN vs : VoteKnown(vs[k]),
         NEW id \in DOMAIN ms, NEW voter \in Account,
         NEW ns, NEW ws, OneVote(ms, vs, ns, ws, id, voter)
  PROVE  VotesRight(ns, ws)
<1>0. /\ ~closed(ms[id]) /\ ~closed(ns[id])
      /\ ms[id].sumcuratorsw \in Int /\ ns[id].sumcuratorsw \in Int
      /\ DOMAIN ns = DOMAIN ms /\ \A o \in DOMAIN ms \ {id} : ns[o] = ms[o]
      /\ DOMAIN ws = DOMAIN vs \union {<<id, voter>>}
      /\ \A k \in DOMAIN vs \ {<<id, voter>>} : ws[k] = vs[k]
      /\ ws[<<id, voter>>].paid_amount = 0 /\ ws[<<id, voter>>].curatorsw \in Nat
      /\ ws[<<id, voter>>].curatorsw
           - (IF <<id, voter>> \in DOMAIN vs THEN vs[<<id, voter>>].curatorsw ELSE 0)
           <= ns[id].sumcuratorsw - ms[id].sumcuratorsw
  BY DEF OneVote
<1> DEFINE key == <<id, voter>>
<1>1. ASSUME NEW o \in DOMAIN ms \ {id}
      PROVE  /\ VotersOf(ws, o) = VotersOf(vs, o)
             /\ \A v \in VotersOf(vs, o) : ws[<<o, v>>] = vs[<<o, v>>]
  <2>1. \A v : <<o, v>> # key
    OBVIOUS
  <2> HIDE DEF key
  <2> QED BY <1>0, <2>1 DEF VotersOf, key
<1>2. /\ VotersOf(ws, id) = VotersOf(vs, id) \union {voter}
      /\ \A v \in VotersOf(vs, id) \ {voter} : ws[<<id, v>>] = vs[<<id, v>>]
  <2>1. \A v : <<id, v>> = key <=> v = voter
    OBVIOUS
  <2> HIDE DEF key
  <2> QED BY <1>0, <2>1 DEF VotersOf, key
<1>3. ASSUME NEW o \in DOMAIN ms \ {id}
      PROVE  /\ WeightsRight(ns[o], ws, o)
             /\ IF closed(ns[o]) THEN ClaimsRight(ns[o], ws, o) ELSE Untouched(ws, o)
  <2> DEFINE S == VotersOf(vs, o)
  <2>1. ns[o] = ms[o] /\ VotersOf(ws, o) = S /\ \A v \in S : ws[<<o, v>>] = vs[<<o, v>>]
    BY <1>0, <1>1
  <2>2. /\ WeightsRight(ms[o], vs, o)
        /\ IF closed(ms[o]) THEN ClaimsRight(ms[o], vs, o) ELSE Untouched(vs, o)
    BY DEF VotesRight
  <2> HIDE DEF S
  <2>3. [v \in S |-> ws[<<o, v>>].curatorsw] = [v \in S |-> vs[<<o, v>>].curatorsw]
    BY <2>1
  <2>4. WeightsRight(ns[o], ws, o)
    BY <2>1, <2>2, <2>3 DEF WeightsRight, S
  <2>5. CASE closed(ms[o])
    <3>1. [v \in S |-> claim_of(ms[o], ws[<<o, v>>]) - ws[<<o, v>>].paid_amount]
            = [v \in S |-> claim_of(ms[o], vs[<<o, v>>]) - vs[<<o, v>>].paid_amount]
      BY <2>1
    <3>2. ClaimsRight(ms[o], vs, o)
      BY <2>2, <2>5
    <3>3. ClaimsRight(ms[o], ws, o)
      BY <2>1, <3>1, <3>2 DEF ClaimsRight, S
    <3> QED BY <2>1, <2>4, <2>5, <3>3
  <2>6. CASE ~closed(ms[o])
    <3>1. Untouched(ws, o)
      BY <2>1, <2>2, <2>6 DEF Untouched, S
    <3> QED BY <2>1, <2>4, <2>6, <3>1
  <2> QED BY <2>5, <2>6
<1>4. WeightsRight(ms[id], vs, id) /\ Untouched(vs, id)
  BY <1>0 DEF VotesRight
<1>5. Untouched(ws, id)
  BY <1>0, <1>2, <1>4 DEF Untouched
<1>6. WeightsRight(ns[id], ws, id)
  <2> DEFINE S == VotersOf(vs, id)
             T == VotersOf(ws, id)
             f == [v \in S |-> vs[<<id, v>>].curatorsw]
             g == [v \in T |-> ws[<<id, v>>].curatorsw]
             x == IF key \in DOMAIN vs THEN vs[key].curatorsw ELSE 0
  <2>1. /\ DOMAIN f = S /\ DOMAIN g = S \union {voter} /\ IsFiniteSet(S)
        /\ \A v \in S : f[v] \in Int
        /\ \A v \in S \ {voter} : g[v] = f[v]
        /\ g[voter] = ws[key].curatorsw /\ g[voter] \in Int
        /\ x = IF voter \in S THEN f[voter] ELSE 0
    <3>1. IsFiniteSet(S) /\ T = S \union {voter} /\ voter \in T
      BY <1>2, FewVoters
    <3>2. ASSUME NEW v \in S
          PROVE  <<id, v>> \in DOMAIN vs /\ vs[<<id, v>>].curatorsw \in Int
      <4>1. <<id, v>> \in DOMAIN vs
        BY DEF VotersOf
      <4>2. VoteKnown(vs[<<id, v>>])
        BY <4>1
      <4>3. \A n \in Nat : n \in Int
        OBVIOUS
      <4> QED BY <4>1, <4>2, <4>3 DEF VoteKnown
    <3>3. \A v \in S \ {voter} : ws[<<id, v>>] = vs[<<id, v>>]
      BY <1>2
    <3>4. key \in DOMAIN vs <=> voter \in S
      BY DEF VotersOf
    <3>6. /\ DOMAIN f = S /\ DOMAIN g = T
          /\ \A v \in S : f[v] = vs[<<id, v>>].curatorsw
          /\ \A v \in T : g[v] = ws[<<id, v>>].curatorsw
      OBVIOUS
    <3>7. ws[key].curatorsw \in Int
      BY <1>0
    <3> HIDE DEF f, g, S, T
    <3>8. g[voter] = ws[key].curatorsw
      BY <3>1, <3>6
    <3>9. x = IF voter \in S THEN f[voter] ELSE 0
      BY <3>4, <3>6
    <3>10. \A v \in S \ {voter} : g[v] = f[v]
      BY <3>1, <3>3, <3>6
    <3> QED BY <3>1, <3>2, <3>6, <3>7, <3>8, <3>9, <3>10
  <2>2. Total(f) <= ms[id].sumcuratorsw
    BY <1>4 DEF WeightsRight
  <2>3. g[voter] - x <= ns[id].sumcuratorsw - ms[id].sumcuratorsw
    BY <1>0, <2>1
  <2> HIDE DEF f, g, S, T, x
  <2>4. Total(f) \in Int /\ Total(g) = Total(f) + g[voter] - x
    BY <2>1, TotalPut
  <2>5. x \in Int
    BY <2>1
  <2>6. Total(g) <= ns[id].sumcuratorsw
    BY <1>0, <2>1, <2>2, <2>3, <2>4, <2>5
  <2> QED BY <2>6 DEF WeightsRight, g, T
<1> QED BY <1>0, <1>3, <1>5, <1>6 DEF VotesRight

\* Lists of delegators that a voter may have
LEMMA ListKnown ==
  ASSUME NEW ds \in DelegatorLists
  PROVE  /\ ds \in Seq([delegator : Account, interest_rate : 1 .. Whole])
         /\ Total([d \in DOMAIN ds |-> ds[d].interest_rate]) <= Whole
<1> DEFINE N == [delegator : Account, interest_rate : Nat]
           D == [delegator : Account, interest_rate : 1 .. Whole]
<1>1. /\ ds \in Seq(N)
      /\ \A d \in DOMAIN ds : ds[d].interest_rate \in 1 .. Whole
      /\ Total([d \in DOMAIN ds |-> ds[d].interest_rate]) <= Whole
  BY AmountsAssumption
<1>2. \A x \in N : x.interest_rate \in 1 .. Whole => x \in D
  OBVIOUS
<1> HIDE DEF N, D
<1>3. DOMAIN ds = 1 .. Len(ds) /\ Len(ds) \in Nat /\ \A d \in 1 .. Len(ds) : ds[d] \in N
  BY <1>1, LenProperties, ElementOfSeq
<1>4. \A d \in 1 .. Len(ds) : ds[d] \in D
  BY <1>1, <1>2, <1>3
<1>5. ds \in [1 .. Len(ds) -> D]
  <2>1. ds = [d \in 1 .. Len(ds) |-> ds[d]]
    BY <1>1, <1>3
  <2> QED BY <1>4, <2>1
<1>6. ds \in Seq(D)
  BY <1>3, <1>5, SeqDef
<1> QED BY <1>1, <1>6 DEF D

\* Early or late, the penalty leaves a part of the growth.
LEMMA WeightFits ==
  ASSUME NEW rules, IsRules(rules), NEW m \in MessageRow, now \in Int, NEW delta \in Nat
  PROVE  curator_weight(delta, time_factor(rules, m)) \in 0 .. delta
<1> DEFINE x == now - m.date
           factor == run(rules.timepenalty, x)
           t == time_factor(rules, m)
<1>1. m.date \in Int
  BY DEF MessageRow
<1>2. x \in Int
  BY <1>1
<1> HIDE DEF x
<1>3. factor \in Int
  BY <1>2, RunInt
<1>4. t = IF factor > Whole THEN Whole ELSE IF factor < 0 THEN 0 ELSE factor
  BY DEF time_factor, x
<1> HIDE DEF t, factor
<1>5. t \in 0 .. Whole /\ Whole \in Nat \ {0}
  BY <1>3, <1>4, AmountsAssumption
<1>6. delta * t \in Nat /\ delta * t <= delta * Whole
  BY <1>5
<1>7. curator_weight(delta, t) = (delta * t) \div Whole
  BY DEF curator_weight
<1> DEFINE y == delta * t
<1>8. y \in Nat /\ y <= delta * Whole
  BY <1>6
<1> HIDE DEF y
<1>9. y \div Whole \in 0 .. delta
  BY <1>5, <1>8
<1> QED BY <1>7, <1>9 DEF t, y

\* A first vote: the growth of the curation function is not negative, and no
\* more than that is added to the vote's weight.
LEMMA FirstKnown ==
  ASSUME BooksInv, NEW c, c = closemssgs(pools, deferred), c.ok,
         NEW id \in DOMAIN messages, ~closed(c.messages[id]),
         messages[id].pool_date \in DOMAIN c.pools,
         RowsKnown(c.pools, c.messages, votes),
         NEW voter \in Account, <<id, voter>> \notin DOMAIN votes,
         NEW weight \in -Whole .. Whole, NEW rshares \in Int,
         NEW delegators \in DelegatorLists, NEW count \in VoteCounts,
         FirstVoted(c, id, voter, weight, rshares, delegators, count)
  PROVE  /\ MessageKnown(messages'[id]) /\ ~closed(messages'[id])
         /\ VoteKnown(votes'[<<id, voter>>])
         /\ votes'[<<id, voter>>].paid_amount = 0
         /\ votes'[<<id, voter>>].curatorsw \in Nat
         /\ votes'[<<id, voter>>].curatorsw
              <= messages'[id].sumcuratorsw - messages[id].sumcuratorsw
         /\ messages'[id].sumcuratorsw \in Int
         /\ DOMAIN votes' = DOMAIN votes \union {<<id, voter>>}
         /\ \A k \in DOMAIN votes \ {<<id, voter>>} : votes'[k] = votes[k]
<1> DEFINE m  == messages[id]
           d  == m.pool_date
           p  == c.pools[d]
           rules == p.rules
           vs == upvoted(m, rshares)
           delta == get_delta(rules.curationfunc, m.voteshares, vs)
           x == m.netshares + rshares
           z == m.sumcuratorsw + delta
           n == messages'[id]
           w == curator_weight(delta, time_factor(rules, m))
           row == [weight |-> weight, count |-> count, delegators |-> delegators,
                   curatorsw |-> w, rshares |-> rshares, paid_amount |-> 0]
           key == <<id, voter>>
<1>1. /\ vs \in Int /\ delta \in Int
      /\ n = VotedRow(m, x, vs, z)
      /\ votes' = Put(votes, key, row)
  BY DEF FirstVoted
<1>2. /\ c.messages[id] = m /\ ~closed(m) /\ MessageRight(m)
      /\ DOMAIN c.messages = DOMAIN messages
      /\ IsPool(p) /\ now \in Int
  BY VoteBegins, FewMessages
<1>3. PoolKnown(p) /\ MessageKnown(m)
  BY <1>2 DEF RowsKnown
<1>4. m \in MessageRow /\ IsRules(rules)
  BY <1>2, PoolFields DEF MessageRight
<1>5. m.voteshares \in Nat /\ m.sumcuratorsw \in Nat /\ m.netshares \in Int
      /\ (m.voteshares = 0 => m.sumcuratorsw = 0)
  BY <1>3, <1>4 DEF MessageKnown, MessageRow
<1>6. vs = IF rshares > 0 THEN m.voteshares + rshares ELSE m.voteshares
  BY DEF upvoted
<1>7. delta = run(rules.curationfunc, vs) - run(rules.curationfunc, m.voteshares)
  BY DEF get_delta
<1> HIDE DEF m, p, vs, delta, n, w, rules
<1>8. m.voteshares <= vs /\ vs \in Nat
  BY <1>5, <1>6
<1>9. /\ run(rules.curationfunc, vs) \in Nat /\ run(rules.curationfunc, m.voteshares) \in Nat
      /\ run(rules.curationfunc, m.voteshares) <= run(rules.curationfunc, vs)
  <2>1. rules.curationfunc \in {p.rules.mainfunc, p.rules.curationfunc}
    BY DEF rules
  <2>2. m.voteshares \in Int /\ vs \in Int
    BY <1>5, <1>8
  <2> HIDE DEF rules
  <2> QED BY <1>2, <1>3, <1>8, <2>1, <2>2, KnownRun
<1>10. delta \in Nat /\ (vs = 0 => delta = 0 /\ m.sumcuratorsw = 0)
  BY <1>5, <1>6, <1>7, <1>8, <1>9
<1>11. x \in Int /\ z \in Nat /\ (vs = 0 => z = 0)
  BY <1>5, <1>10
<1> HIDE DEF x, z
<1>12. w \in 0 .. delta
  BY <1>2, <1>4, <1>10, WeightFits DEF w
<1>13. /\ n.netshares = x /\ n.voteshares = vs /\ n.sumcuratorsw = z
       /\ n.cashout_time = m.cashout_time /\ n.max_payout = m.max_payout
       /\ n.curators_prcnt = m.curators_prcnt /\ n.tokenprop = m.tokenprop
  BY <1>1, <1>4, <1>11, VotedFields
<1>14. MessageKnown(n) /\ ~closed(n) /\ n.sumcuratorsw \in Int
  BY <1>2, <1>3, <1>8, <1>11, <1>13 DEF MessageKnown, closed
<1> HIDE DEF row, key
<1>15. /\ votes'[key] = row /\ DOMAIN votes' = DOMAIN votes \union {key}
       /\ \A k \in DOMAIN votes \ {key} : votes'[k] = votes[k]
  BY <1>1 DEF Put
<1>16. VoteKnown(row) /\ row.paid_amount = 0 /\ row.curatorsw = w
  <2>1. /\ row.weight = weight /\ row.count = count /\ row.delegators = delegators
        /\ row.curatorsw = w /\ row.paid_amount = 0
    BY DEF row
  <2>2. count \in Nat
    BY AmountsAssumption
  <2>3. w \in Nat
    BY <1>10, <1>12
  <2>4. /\ delegators \in Seq([delegator : Account, interest_rate : 1 .. Whole])
        /\ Total([d1 \in DOMAIN delegators |-> delegators[d1].interest_rate]) <= Whole
    BY ListKnown
  <2> QED BY <2>1, <2>2, <2>3, <2>4 DEF VoteKnown
<1>17. w <= n.sumcuratorsw - m.sumcuratorsw
  <2>1. n.sumcuratorsw = m.sumcuratorsw + delta
    BY <1>13 DEF z
  <2> HIDE DEF z
  <2> QED BY <1>5, <1>10, <1>12, <2>1
<1>18. w \in Nat
  BY <1>10, <1>12
<1> QED BY <1>14, <1>15, <1>16, <1>17, <1>18 DEF key, n, m

\* A changed vote takes what weight it had, which is part of the sum.
LEMMA ChangedKnown ==
  ASSUME NEW m \in MessageRow, MessageKnown(m), ~closed(m), NEW id, NEW voter \in Account,
         <<id, voter>> \in DOMAIN votes, WeightsRight(m, votes, id), Untouched(votes, id),
         \A k \in DOMAIN votes : VoteKnown(votes[k]) /\ votes[k] \in VoteRow,
         NEW weight \in -Whole .. Whole, NEW rshares,
         NEW x \in Int, NEW n,
         n = VotedRow(m, x, m.voteshares, m.sumcuratorsw - votes[<<id, voter>>].curatorsw),
         NEW r, r = RevotedRow(votes[<<id, voter>>], weight, rshares)
  PROVE  /\ MessageKnown(n) /\ ~closed(n) /\ n.sumcuratorsw \in Int
         /\ VoteKnown(r) /\ r.paid_amount = 0 /\ r.curatorsw = 0
         /\ n.sumcuratorsw = m.sumcuratorsw - votes[<<id, voter>>].curatorsw
         /\ votes[<<id, voter>>].curatorsw \in Nat
<1> DEFINE key == <<id, voter>>
           v == votes[key]
           S == VotersOf(votes, id)
           f == [o \in S |-> votes[<<id, o>>].curatorsw]
           z == m.sumcuratorsw - v.curatorsw
<1>1. VoteKnown(v) /\ v \in VoteRow /\ v.paid_amount = 0
  BY DEF Untouched, VotersOf
<1>2. /\ v.curatorsw \in Nat /\ m.sumcuratorsw \in Nat /\ m.voteshares \in Int
      /\ (m.voteshares = 0 => m.sumcuratorsw = 0)
  BY <1>1 DEF VoteKnown, MessageKnown
<1>3. v.curatorsw <= m.sumcuratorsw
  <2>1. DOMAIN f = S /\ IsFiniteSet(S) /\ voter \in S /\ f[voter] = v.curatorsw
    BY FewVoters DEF VotersOf
  <2>2. \A o \in S : f[o] \in Nat
    <3> SUFFICES ASSUME NEW o \in S PROVE f[o] \in Nat
      OBVIOUS
    <3>1. VoteKnown(votes[<<id, o>>])
      BY DEF VotersOf
    <3> QED BY <3>1 DEF VoteKnown
  <2>3. Total(f) <= m.sumcuratorsw
    BY DEF WeightsRight
  <2> HIDE DEF f, S, v
  <2>4. f[voter] <= Total(f) /\ Total(f) \in Nat
    BY <2>1, <2>2, TotalPart, TotalNat
  <2> QED BY <1>2, <2>1, <2>3, <2>4
<1> HIDE DEF v
<1>4. z \in Nat /\ (m.voteshares = 0 => z = 0)
  BY <1>2, <1>3
<1>5. n = VotedRow(m, x, m.voteshares, z)
  BY DEF v
<1> HIDE DEF z
<1>6. /\ n.voteshares = m.voteshares /\ n.sumcuratorsw = z
      /\ n.cashout_time = m.cashout_time /\ n.max_payout = m.max_payout
      /\ n.curators_prcnt = m.curators_prcnt /\ n.tokenprop = m.tokenprop
  BY <1>2, <1>4, <1>5, VotedFields
<1>7. MessageKnown(n) /\ ~closed(n) /\ n.sumcuratorsw \in Int
  BY <1>2, <1>4, <1>6 DEF MessageKnown, closed
<1>8. /\ r.weight = weight /\ r.curatorsw = 0 /\ r.count \in 0 .. 255
      /\ r.delegators = v.delegators /\ r.paid_amount = v.paid_amount
  BY <1>1, RevotedFields DEF v
<1>9. VoteKnown(r) /\ r.paid_amount = 0
  <2> DEFINE ds == v.delegators
  <2>1. /\ ds \in Seq([delegator : Account, interest_rate : 1 .. Whole])
        /\ Total([d \in DOMAIN ds |-> ds[d].interest_rate]) <= Whole
        /\ v.paid_amount = 0 /\ r.delegators = ds
    BY <1>1, <1>8 DEF VoteKnown
  <2>2. r.count \in Nat /\ 0 \in Nat
    BY <1>8
  <2> HIDE DEF ds
  <2>3. r.weight \in -Whole .. Whole /\ r.curatorsw \in Nat /\ r.paid_amount \in Nat
    BY <1>8, <2>1, <2>2
  <2> QED BY <1>8, <2>1, <2>2, <2>3 DEF VoteKnown
<1> QED BY <1>2, <1>6, <1>7, <1>8, <1>9 DEF v, z

\* What of the rows is known, and what their votes may claim
Known ==
  PrcntsKnown /\ RowsKnown(pools, messages, votes) /\ VotesRight(messages, votes)

\* Steps that write votes and messages leave this, when each row they write is
\* known.
LEMMA RowsMove ==
  ASSUME NEW ps, NEW ms, NEW vs, RowsKnown(ps, ms, vs),
         NEW qs, \A p \in DOMAIN qs : p \in DOMAIN ps /\ qs[p].rules = ps[p].rules,
         NEW ns, NEW id, \A o \in DOMAIN ns \ {id} : o \in DOMAIN ms /\ ns[o] = ms[o],
         id \in DOMAIN ns => MessageKnown(ns[id]),
         NEW ws, NEW key, \A k \in DOMAIN ws \ {key} : k \in DOMAIN vs /\ ws[k] = vs[k],
         key \in DOMAIN ws => VoteKnown(ws[key])
  PROVE  RowsKnown(qs, ns, ws)
<1>1. \A p \in DOMAIN qs : PoolKnown(qs[p])
  BY DEF RowsKnown, PoolKnown
<1>2. \A o \in DOMAIN ns : MessageKnown(ns[o])
  BY DEF RowsKnown
<1>3. \A k \in DOMAIN ws : VoteKnown(ws[k])
  BY DEF RowsKnown
<1> QED BY <1>1, <1>2, <1>3 DEF RowsKnown

\* What a vote writes: a row that is known, and a sum that follows it
VoteWrites(c, id, voter) ==
  LET key == <<id, voter>> IN
  /\ DOMAIN messages' = DOMAIN c.messages
  /\ \A o \in DOMAIN c.messages \ {id} : messages'[o] = c.messages[o]
  /\ DOMAIN pools' = DOMAIN c.pools
  /\ \A p \in DOMAIN c.pools : pools'[p].rules = c.pools[p].rules
  /\ MessageKnown(messages'[id]) /\ ~closed(messages'[id])
  /\ messages'[id].sumcuratorsw \in Int
  /\ DOMAIN votes' = DOMAIN votes \union {key}
  /\ \A k \in DOMAIN votes \ {key} : votes'[k] = votes[k]
  /\ VoteKnown(votes'[key]) /\ votes'[key].paid_amount = 0 /\ votes'[key].curatorsw \in Nat
  /\ votes'[key].curatorsw - (IF key \in DOMAIN votes THEN votes[key].curatorsw ELSE 0)
       <= messages'[id].sumcuratorsw - messages[id].sumcuratorsw

\* set_vote
LEMMA VoteKeepsKnown ==
  ASSUME BooksInv, Known, NEW voter \in Account, NEW id \in DOMAIN messages,
         NEW weight \in -Whole .. Whole, set_vote(voter, id, weight)
  PROVE  Known'
<1> DEFINE c == closemssgs(pools, deferred)
           m == messages[id]
           key == <<id, voter>>
<1>0. c = closemssgs(pools, deferred) /\ weight \in Int
  BY AmountsAssumption
<1> HIDE DEF c
<1>1. /\ c.ok /\ ~closed(c.messages[id]) /\ messages[id].pool_date \in DOMAIN c.pools
      /\ UNCHANGED params
      /\ \E rshares \in Int :
           \/ \E delegators \in DelegatorLists, count \in VoteCounts :
                /\ <<id, voter>> \notin DOMAIN votes
                /\ new_vote(c, id, voter, weight, rshares, delegators, count)
           \/ revote(c, id, voter, weight, rshares) /\ <<id, voter>> \in DOMAIN votes
  BY <1>0, VoteForms
<1>2. RowsKnown(c.pools, c.messages, votes) /\ VotesRight(c.messages, votes)
  BY <1>0, <1>1, ClosedKnown DEF Known
<1>3. /\ c.messages[id] = m /\ m \in MessageRow /\ DOMAIN c.messages = DOMAIN messages
      /\ ~closed(m)
  BY <1>0, <1>1, VoteBegins DEF MessageRight
<1>4. /\ MessageKnown(m) /\ (\A k \in DOMAIN votes : VoteKnown(votes[k]) /\ votes[k] \in VoteRow)
      /\ m.sumcuratorsw \in Int
  <2>1. Sides
    BY FewMessages
  <2> QED BY <1>2, <1>3, <2>1 DEF RowsKnown, Sides, MessageRow
<1>5. WeightsRight(m, votes, id) /\ Untouched(votes, id)
  BY <1>2, <1>3 DEF VotesRight
<1>6. VoteWrites(c, id, voter)
  <2>1. PICK rshares \in Int :
           \/ \E delegators \in DelegatorLists, count \in VoteCounts :
                /\ <<id, voter>> \notin DOMAIN votes
                /\ new_vote(c, id, voter, weight, rshares, delegators, count)
           \/ revote(c, id, voter, weight, rshares) /\ <<id, voter>> \in DOMAIN votes
    BY <1>1
  <2>2. ASSUME NEW delegators \in DelegatorLists, NEW count \in VoteCounts,
               <<id, voter>> \notin DOMAIN votes,
               new_vote(c, id, voter, weight, rshares, delegators, count)
        PROVE  VoteWrites(c, id, voter)
    <3>1. FirstVoted(c, id, voter, weight, rshares, delegators, count)
      BY <1>0, <1>1, <2>2, FirstVote
    <3>2. /\ DOMAIN messages' = DOMAIN c.messages
          /\ \A o \in DOMAIN c.messages \ {id} : messages'[o] = c.messages[o]
          /\ DOMAIN pools' = DOMAIN c.pools
          /\ \A p \in DOMAIN c.pools : pools'[p].rules = c.pools[p].rules
      BY <3>1 DEF FirstVoted
    <3>3. /\ MessageKnown(messages'[id]) /\ ~closed(messages'[id])
          /\ VoteKnown(votes'[<<id, voter>>])
          /\ votes'[<<id, voter>>].paid_amount = 0
          /\ votes'[<<id, voter>>].curatorsw \in Nat
          /\ votes'[<<id, voter>>].curatorsw
               <= messages'[id].sumcuratorsw - messages[id].sumcuratorsw
          /\ messages'[id].sumcuratorsw \in Int
          /\ DOMAIN votes' = DOMAIN votes \union {<<id, voter>>}
          /\ \A k \in DOMAIN votes \ {<<id, voter>>} : votes'[k] = votes[k]
      BY <1>0, <1>1, <1>2, <2>2, <3>1, FirstKnown
    <3> QED BY <2>2, <3>2, <3>3 DEF VoteWrites
  <2>3. CASE revote(c, id, voter, weight, rshares) /\ <<id, voter>> \in DOMAIN votes
    <3> DEFINE v == votes[key]
               x == m.netshares - v.rshares + rshares
    <3>1. /\ DOMAIN messages' = DOMAIN c.messages
          /\ \A o \in DOMAIN c.messages \ {id} : messages'[o] = c.messages[o]
          /\ x \in Int
          /\ messages'[id] = VotedRow(m, x, m.voteshares, m.sumcuratorsw - v.curatorsw)
          /\ DOMAIN pools' = DOMAIN c.pools
          /\ \A p \in DOMAIN c.pools : pools'[p].rules = c.pools[p].rules
          /\ votes' = [votes EXCEPT ![key] = RevotedRow(v, weight, rshares)]
      BY <1>0, <1>1, <2>3, ChangedVote
    <3>2. votes'[key] = RevotedRow(v, weight, rshares) /\ DOMAIN votes' = DOMAIN votes
          /\ key \in DOMAIN votes /\ \A k \in DOMAIN votes \ {key} : votes'[k] = votes[k]
      BY <2>3, <3>1
    <3> DEFINE n == messages'[id]
               r == votes'[key]
    <3> HIDE DEF x, m, n, r
    <3>3. /\ MessageKnown(n) /\ ~closed(n) /\ n.sumcuratorsw \in Int
          /\ VoteKnown(r) /\ r.paid_amount = 0 /\ r.curatorsw = 0
          /\ n.sumcuratorsw = m.sumcuratorsw - votes[<<id, voter>>].curatorsw
          /\ votes[<<id, voter>>].curatorsw \in Nat
      BY <1>3, <1>4, <1>5, <2>3, <3>1, <3>2, ChangedKnown DEF n, r
    <3>4. r.curatorsw - votes[key].curatorsw <= n.sumcuratorsw - m.sumcuratorsw
      <4> DEFINE y == votes[key].curatorsw
      <4>1. r.curatorsw = 0 /\ n.sumcuratorsw = m.sumcuratorsw - y /\ y \in Nat
            /\ m.sumcuratorsw \in Int
        BY <1>4, <3>3
      <4> HIDE DEF y
      <4> QED BY <4>1 DEF y
    <3>5. DOMAIN votes' = DOMAIN votes \union {key}
      BY <3>2
    <3>6. r.curatorsw \in Nat
      BY <3>3
    <3> HIDE DEF key
    <3> QED BY <3>1, <3>2, <3>3, <3>4, <3>5, <3>6 DEF n, r, m, key, VoteWrites
  <2> QED BY <2>1, <2>2, <2>3
<1>7. RowsKnown(pools', messages', votes')
  <2>1. /\ \A p \in DOMAIN pools' : p \in DOMAIN c.pools /\ pools'[p].rules = c.pools[p].rules
        /\ \A o \in DOMAIN messages' \ {id} :
             o \in DOMAIN c.messages /\ messages'[o] = c.messages[o]
        /\ MessageKnown(messages'[id])
        /\ \A k \in DOMAIN votes' \ {key} : k \in DOMAIN votes /\ votes'[k] = votes[k]
        /\ VoteKnown(votes'[key])
    BY <1>6 DEF VoteWrites
  <2> HIDE DEF key
  <2> QED BY <1>2, <2>1, RowsMove
<1>8. VotesRight(messages', votes')
  <2> DEFINE ms == c.messages
             ns == messages'
             ws == votes'
  <2>1. /\ id \in DOMAIN ms /\ ~closed(ms[id]) /\ ms[id].sumcuratorsw \in Int
        /\ ms[id] = messages[id] /\ VotesRight(ms, votes)
        /\ \A k \in DOMAIN votes : VoteKnown(votes[k])
    BY <1>2, <1>3, <1>4
  <2>2. OneVote(ms, votes, ns, ws, id, voter)
    BY <1>6, <2>1 DEF VoteWrites, OneVote
  <2> HIDE DEF ms, ns, ws, key
  <2>3. VotesRight(ns, ws)
    BY <2>1, <2>2, OneVoteMoves
  <2> QED BY <2>3 DEF ns, ws
<1>9. PrcntsKnown'
  BY <1>1 DEF Known, PrcntsKnown
<1> QED BY <1>7, <1>8, <1>9 DEF Known

----------------------------------------------------------------------------
(* Every step keeps what is known *)

\* Steps that leave messages and rules alone, and at most take votes away
LEMMA QuietKnown ==
  ASSUME BooksInv, Known, UNCHANGED <<params, messages>>,
         \A p \in DOMAIN pools' : p \in DOMAIN pools /\ pools'[p].rules = pools[p].rules,
         DOMAIN votes' \subseteq DOMAIN votes, \A k \in DOMAIN votes' : votes'[k] = votes[k]
  PROVE  Known'
<1>1. /\ \A id \in DOMAIN messages : messages[id] \in MessageRow /\ MessageKnown(messages[id])
      /\ \A k \in DOMAIN votes : VoteKnown(votes[k])
  BY FewMessages DEF Books, MessageRight, Known, RowsKnown
<1> DEFINE ws == votes'
<1>2. DOMAIN ws \subseteq DOMAIN votes /\ \A k \in DOMAIN ws : ws[k] = votes[k]
  OBVIOUS
<1> HIDE DEF ws
<1>3. VotesRight(messages, ws)
  BY <1>1, <1>2, FewerVotes DEF Known
<1>4. RowsKnown(pools', messages, ws)
  BY <1>1, <1>2 DEF Known, RowsKnown, PoolKnown
<1>5. PrcntsKnown'
  BY DEF Known, PrcntsKnown
<1> QED BY <1>3, <1>4, <1>5 DEF Known, ws

\* setparams: what is stored of the curators' percents passed its validate.
LEMMA SetparamsKnown ==
  ASSUME BooksInv, Known, NEW batch \in ParamBatches, setparams(batch)
  PROVE  Known'
<1>1. Setter!validate_params(batch)
  BY DEF setparams, Setter!accepted, Setter!check_params
<1> DEFINE right(v) == v.min \in Nat /\ v.max \in Nat /\ v.max <= Whole
<1>2. \A i \in DOMAIN batch : batch[i].field = "curators_prcnt" => right(batch[i].value)
  BY <1>1, InputsAssumption DEF Setter!validate_params, valid
<1>3. WindowSound /\ WindowSound'
  BY SetparamsStep, FewMessages DEF IInv
<1>4. params' # NoParams => right(params'.curators_prcnt)
  <2> SUFFICES ASSUME params' # NoParams PROVE right(params'.curators_prcnt)
    OBVIOUS
  <2>1. "curators_prcnt" \in DOMAIN params'
    <3>1. PostFields[7] = "curators_prcnt" /\ 7 \in DOMAIN PostFields
      BY DEF PostFields
    <3> QED BY <1>3, <3>1 DEF WindowSound
  <2>2. CASE params # NoParams
    <3>1. params' = Setter!updated(params, batch)
      BY <2>2 DEF setparams, Setter!set_parameters
    <3>2. \/ params'["curators_prcnt"] = params["curators_prcnt"]
          \/ \E i \in DOMAIN batch : /\ batch[i].field = "curators_prcnt"
                                     /\ params'["curators_prcnt"] = batch[i].value
      BY <2>1, <3>1 DEF Setter!updated, Setter!changes
    <3> QED BY <1>2, <2>2, <3>2 DEF Known, PrcntsKnown
  <2>3. CASE params = NoParams
    <3>1. params' = Setter!as_state(batch)
      BY <2>3 DEF setparams, Setter!set_parameters
    <3>2. \A f \in DOMAIN params' : \E i \in DOMAIN batch :
            batch[i].field = f /\ params'[f] = batch[i].value
      BY <3>1 DEF Setter!as_state
    <3> QED BY <1>2, <2>1, <3>2
  <2> QED BY <2>2, <2>3
<1>5. PrcntsKnown'
  BY <1>4 DEF PrcntsKnown
<1>6. UNCHANGED <<pools, messages, votes>>
  BY DEF setparams
<1> QED BY <1>5, <1>6 DEF Known, RowsKnown, VotesRight

\* closemssgs by itself
LEMMA CloseKeepsKnown ==
  ASSUME BooksInv, Known, NEW sent, close(sent)
  PROVE  Known'
<1> DEFINE c == closemssgs(pools, sent)
           b == balance + astray.funds
<1>1. c.ok /\ pools' = c.pools /\ messages' = c.messages /\ UNCHANGED <<params, votes>>
  BY DEF close, settings
<1>2. Books(pools, messages, astray, b, now) /\ b \in Int
  BY FewMessages
<1> HIDE DEF b
<1>3. RowsKnown(c.pools, c.messages, votes) /\ VotesRight(c.messages, votes)
  BY <1>1, <1>2, ClosingKnown DEF Known
<1>4. PrcntsKnown'
  BY <1>1 DEF Known, PrcntsKnown
<1> QED BY <1>1, <1>3, <1>4 DEF Known

\* Tokens that come in
LEMMA TransferKnown ==
  ASSUME BooksInv, Known, NEW quantity \in Fund, on_transfer(quantity)
  PROVE  Known'
<1> DEFINE ps == fill_depleted_pool(pools, quantity)
           c == closemssgs(ps, deferred)
           b == balance + astray.funds
           e == b + quantity
<1>1. c.ok /\ pools' = c.pools /\ messages' = c.messages /\ UNCHANGED <<params, votes>>
  BY DEF on_transfer, settings
<1>2. quantity \in Nat
  BY AmountsAssumption
<1>3. /\ Books(pools, messages, astray, b, now) /\ b \in Int /\ now \in Nat
      /\ IsFiniteSet(DOMAIN messages) /\ \A p \in DOMAIN pools : IsPool(pools[p])
  BY FewMessages DEF Books
<1> HIDE DEF b
<1>4. Books(ps, messages, astray, e, now) /\ e \in Int
  BY <1>2, <1>3, FillKeeps
<1>5. DOMAIN ps = DOMAIN pools /\ \A p \in DOMAIN pools : ps[p].rules = pools[p].rules
  BY <1>2, <1>3, FillFunds
<1> HIDE DEF ps, e
<1>6. RowsKnown(ps, messages, votes)
  BY <1>5 DEF Known, RowsKnown, PoolKnown
<1>7. RowsKnown(c.pools, c.messages, votes) /\ VotesRight(c.messages, votes)
  BY <1>1, <1>4, <1>6, ClosingKnown DEF Known
<1>8. PrcntsKnown'
  BY <1>1 DEF Known, PrcntsKnown
<1> QED BY <1>1, <1>7, <1>8 DEF Known

\* A new message has no votes yet.
LEMMA CreateKnown ==
  ASSUME BooksInv, Known, NEW author \in Account, NEW link, NEW parent,
         NEW map \in Beneficiaries, NEW tokenprop \in TokenProps, NEW prcnt \in CuratorPrcnts,
         NEW payout \in MaxPayouts,
         createmssg(author, link, parent, map, tokenprop, prcnt, payout)
  PROVE  Known'
<1> DEFINE c    == closemssgs(pools, deferred)
           ps   == c.pools
           ms   == c.messages
           d    == last_pool(ps)
           act  == IF parent = Root THEN "post" ELSE "comment"
           used == charged(charges, author, act, limits[act].price)
           id   == last_id + 1
           row(bens) ==
             [date |-> now, pool_date |-> d, tokenprop |-> tokenprop,
              beneficiaries |-> bens,
              rewardweight |-> IF parent = Root THEN reward_weight(used, author) ELSE Whole,
              netshares |-> 0, voteshares |-> 0, sumcuratorsw |-> 0,
              curators_prcnt |-> prcnt, cashout_time |-> now + params.cashout_window.window,
              mssg_reward |-> 0, max_payout |-> payout, paid_amount |-> 0]
<1>1. /\ params # NoParams /\ c.ok /\ DOMAIN pools # {}
      /\ prcnt \in params.curators_prcnt.min .. params.curators_prcnt.max
      /\ tokenprop <= ps[d].rules.maxtokenprop
      /\ pools' = counted(ps, d) /\ UNCHANGED <<params, votes>>
      /\ \E bens : messages' = Put(ms, id, row(bens))
  BY DEF createmssg, settings
<1>2. PICK bens : messages' = Put(ms, id, row(bens))
  BY <1>1
<1>0. c = closemssgs(pools, deferred)
  OBVIOUS
<1> DEFINE n == row(bens)
<1>3. /\ n.cashout_time = now + params.cashout_window.window
      /\ n.tokenprop = tokenprop /\ n.curators_prcnt = prcnt /\ n.max_payout = payout
      /\ n.voteshares = 0 /\ n.sumcuratorsw = 0
  OBVIOUS
<1>4. messages' = Put(ms, id, n)
  BY <1>2
<1> HIDE DEF c, n
<1>5. RowsKnown(ps, ms, votes) /\ VotesRight(ms, votes)
  BY <1>0, <1>1, ClosedKnown DEF Known
<1>6. /\ now \in Nat /\ last_id \in Nat /\ DOMAIN messages \subseteq 1 .. last_id
      /\ DOMAIN votes \subseteq (1 .. last_id) \X Account
      /\ DOMAIN ms = DOMAIN messages
  <2>1. Books(pools, messages, astray, balance + astray.funds, now)
        /\ balance + astray.funds \in Int
    BY FewMessages
  <2> DEFINE b == balance + astray.funds
  <2> HIDE DEF b
  <2>2. DOMAIN ms = DOMAIN messages
    BY <1>0, <1>1, <2>1, ClosingKeeps DEF b
  <2> QED BY <2>2, FewMessages DEF IInv, Keys
<1>7. d \in DOMAIN ps
  <2> DEFINE b == balance + astray.funds
  <2>1. Books(pools, messages, astray, b, now) /\ b \in Int
    BY FewMessages
  <2> HIDE DEF b
  <2>2. Books(ps, ms, astray, b, now) /\ DOMAIN ps # {}
    BY <1>0, <1>1, <2>1, ClosingKeeps
  <2>3. DOMAIN ps \subseteq 0 .. now
    BY <2>2 DEF Books
  <2> HIDE DEF ps
  <2> QED BY <1>6, <2>2, <2>3, LastPool
<1>8. MessageKnown(n) /\ ~closed(n)
  <2>1. params.cashout_window.window \in Nat
    BY <1>1, FewMessages DEF IInv, WindowSound
  <2>2. n.cashout_time \in Nat /\ n.cashout_time # -1
    BY <1>3, <1>6, <2>1
  <2>3. prcnt \in 0 .. Whole
    <3> DEFINE lo == params.curators_prcnt.min
               hi == params.curators_prcnt.max
    <3>1. lo \in Nat /\ hi \in Nat /\ hi <= Whole
      BY <1>1 DEF Known, PrcntsKnown
    <3>2. prcnt \in lo .. hi
      BY <1>1
    <3> HIDE DEF lo, hi
    <3> QED BY <3>1, <3>2, AmountsAssumption
  <2>4. tokenprop \in 0 .. Whole
    <3> DEFINE hi == ps[d].rules.maxtokenprop
    <3>1. hi \in 0 .. Whole
      BY <1>5, <1>7 DEF RowsKnown, PoolKnown
    <3>2. tokenprop <= hi
      BY <1>1
    <3> HIDE DEF hi
    <3> QED BY <3>1, <3>2, AmountsAssumption
  <2>5. payout \in 0 .. MaxAmount
    BY AmountsAssumption
  <2>6. 0 \in Nat
    OBVIOUS
  <2> QED BY <1>3, <2>2, <2>3, <2>4, <2>5, <2>6 DEF MessageKnown, closed, Never
<1> HIDE DEF id
<1>9. /\ id \notin DOMAIN ms /\ VotersOf(votes, id) = {}
  BY <1>6 DEF VotersOf, id
<1>10. /\ DOMAIN messages' = DOMAIN ms \union {id} /\ messages'[id] = n
       /\ \A o \in DOMAIN ms : messages'[o] = ms[o]
  BY <1>4, <1>9 DEF Put
<1>11. \A p \in DOMAIN pools' : p \in DOMAIN ps /\ pools'[p].rules = ps[p].rules
  <2>1. IsPool(ps[d])
    <3> DEFINE b == balance + astray.funds
    <3>1. Books(pools, messages, astray, b, now) /\ b \in Int
      BY FewMessages
    <3> HIDE DEF b
    <3>2. Books(ps, ms, astray, b, now)
      BY <1>0, <1>1, <3>1, ClosingKeeps
    <3> QED BY <1>7, <3>2 DEF Books
  <2> DEFINE q == ps[d]
             k == [q EXCEPT !.msgs = @ + 1]
  <2>2. k.rules = q.rules
    BY <2>1 DEF IsPool
  <2>3. pools' = [ps EXCEPT ![d] = k]
    BY <1>1 DEF counted
  <2> HIDE DEF k, ps, d
  <2> QED BY <2>2, <2>3
<1>12. RowsKnown(pools', messages', votes)
  <2>1. \A p \in DOMAIN pools' : PoolKnown(pools'[p])
    BY <1>5, <1>11 DEF RowsKnown, PoolKnown
  <2>2. \A o \in DOMAIN messages' : MessageKnown(messages'[o])
    BY <1>5, <1>8, <1>10 DEF RowsKnown
  <2> QED BY <1>5, <2>1, <2>2 DEF RowsKnown
<1>13. VotesRight(messages', votes)
  <2> DEFINE f == [v \in VotersOf(votes, id) |-> votes[<<id, v>>].curatorsw]
  <2>1. DOMAIN f = {}
    BY <1>9
  <2>2. Total(f) = 0
    <3> HIDE DEF f
    <3> QED BY <2>1, TotalEmpty
  <2>3. WeightsRight(n, votes, id) /\ Untouched(votes, id)
    BY <1>3, <1>9, <2>2 DEF WeightsRight, Untouched
  <2> QED BY <1>5, <1>8, <1>9, <1>10, <2>3 DEF VotesRight
<1>14. PrcntsKnown'
  BY <1>1 DEF Known, PrcntsKnown
<1> QED BY <1>1, <1>12, <1>13, <1>14 DEF Known

\* setcurprcnt, setmaxpayout: only while no weight was given.
LEMMA ChangeKnown ==
  ASSUME BooksInv, Known, NEW id,
         \/ \E x \in CuratorPrcnts : setcurprcnt(id, x)
         \/ \E x \in MaxPayouts : setmaxpayout(id, x)
  PROVE  Known'
<1> DEFINE m == messages[id]
           n == messages'[id]
<1>1. /\ UNCHANGED <<params, pools, votes>> /\ id \in DOMAIN messages /\ m.voteshares = 0
      /\ DOMAIN messages' = DOMAIN messages
      /\ \A o \in DOMAIN messages \ {id} : messages'[o] = messages[o]
      /\ \/ \E x \in CuratorPrcnts : /\ n = [m EXCEPT !.curators_prcnt = x]
                                     /\ params # NoParams
                                     /\ x \in params.curators_prcnt.min .. params.curators_prcnt.max
         \/ \E x \in MaxPayouts : n = [m EXCEPT !.max_payout = x]
  BY DEF setcurprcnt, setmaxpayout, settings
<1>2. /\ m \in MessageRow /\ MessageKnown(m)
      /\ \A o \in DOMAIN messages : messages[o] \in MessageRow /\ MessageKnown(messages[o])
      /\ \A k \in DOMAIN votes : VoteKnown(votes[k])
  BY <1>1, FewMessages DEF Books, MessageRight, Known, RowsKnown
<1>3. /\ n.tokenprop = m.tokenprop /\ n.cashout_time = m.cashout_time
      /\ n.voteshares = m.voteshares /\ n.sumcuratorsw = m.sumcuratorsw
      /\ n.paid_amount = m.paid_amount /\ n.mssg_reward = m.mssg_reward
      /\ n.curators_prcnt \in 0 .. Whole /\ n.max_payout \in 0 .. MaxAmount
  <2> HIDE DEF m, n
  <2>1. CASE \E x \in MaxPayouts : n = [m EXCEPT !.max_payout = x]
    BY <1>2, <2>1, AmountsAssumption DEF MessageRow, MessageKnown
  <2>2. ASSUME NEW x \in CuratorPrcnts, n = [m EXCEPT !.curators_prcnt = x], params # NoParams,
               x \in params.curators_prcnt.min .. params.curators_prcnt.max
        PROVE  /\ n.tokenprop = m.tokenprop /\ n.cashout_time = m.cashout_time
               /\ n.voteshares = m.voteshares /\ n.sumcuratorsw = m.sumcuratorsw
               /\ n.paid_amount = m.paid_amount /\ n.mssg_reward = m.mssg_reward
               /\ n.curators_prcnt \in 0 .. Whole /\ n.max_payout \in 0 .. MaxAmount
    <3> DEFINE lo == params.curators_prcnt.min
               hi == params.curators_prcnt.max
    <3>1. lo \in Nat /\ hi \in Nat /\ hi <= Whole
      BY <2>2 DEF Known, PrcntsKnown
    <3>2. x \in lo .. hi
      BY <2>2
    <3> HIDE DEF lo, hi
    <3>3. x \in 0 .. Whole
      BY <3>1, <3>2, AmountsAssumption
    <3> QED BY <1>2, <2>2, <3>3 DEF MessageRow, MessageKnown
  <2> QED BY <1>1, <2>1, <2>2
<1>4. MessageKnown(n)
  <2> HIDE DEF m, n
  <2> QED BY <1>2, <1>3 DEF MessageKnown
<1>5. m.sumcuratorsw = 0
  BY <1>1, <1>2 DEF MessageKnown
<1>6. curation_payout(n) \in Int
  <2> DEFINE x == n.curators_prcnt
             y == n.mssg_reward
  <2>1. x \in Int /\ y \in Int
    <3>1. m.mssg_reward \in Int
      BY <1>2 DEF MessageRow
    <3> QED BY <1>3, <3>1, AmountsAssumption
  <2> HIDE DEF x, y
  <2>2. x * y \in Int
    BY <2>1, ProductInt
  <2>3. Whole \in Int /\ Whole > 0
    BY AmountsAssumption
  <2>4. (x * y) \div Whole \in Int
    BY <2>2, <2>3
  <2> QED BY <2>4 DEF curation_payout, x, y
<1>7. VotesRight(messages', votes)
  <2> DEFINE ns == messages'
  <2>1. DOMAIN ns \subseteq DOMAIN messages /\ ns[id] = n
        /\ \A o \in DOMAIN messages \ {id} : ns[o] = messages[o]
    BY <1>1
  <2> HIDE DEF ns, n
  <2>2. ASSUME NEW o \in DOMAIN ns
        PROVE  /\ ns[o].sumcuratorsw = messages[o].sumcuratorsw
               /\ closed(ns[o]) = closed(messages[o])
               /\ ns[o].paid_amount = messages[o].paid_amount
               /\ \/ curation_payout(ns[o]) = curation_payout(messages[o])
                  \/ messages[o].sumcuratorsw = 0 /\ curation_payout(ns[o]) \in Int
    <3>1. CASE o = id
      BY <1>3, <1>5, <1>6, <2>1, <3>1 DEF closed
    <3>2. CASE o # id
      BY <2>1, <3>2
    <3> QED BY <3>1, <3>2
  <2>3. VotesRight(messages, votes)
    BY DEF Known
  <2>4. VotesRight(ns, votes)
    BY <1>2, <2>1, <2>2, <2>3, RightMoves
  <2> QED BY <2>4 DEF ns
<1>8. RowsKnown(pools', messages', votes)
  BY <1>1, <1>2, <1>4 DEF Known, RowsKnown
<1>9. PrcntsKnown'
  BY <1>1 DEF Known, PrcntsKnown
<1> QED BY <1>1, <1>7, <1>8, <1>9 DEF Known

\* When a message goes the other votes stay right.
LEMMA DroppedKnown ==
  ASSUME NEW ps, NEW ms, NEW vs, RowsKnown(ps, ms, vs), VotesRight(ms, vs), NEW id
  PROVE  RowsKnown(ps, Drop(ms, id), vs) /\ VotesRight(Drop(ms, id), vs)
BY DEF RowsKnown, VotesRight, Drop

\* deletemssg
LEMMA DeleteKnown ==
  ASSUME BooksInv, Known, NEW id, deletemssg(id)
  PROVE  Known'
<1> DEFINE d == messages[id].pool_date
<1>1. /\ messages' = Drop(messages, id) /\ UNCHANGED <<params, votes>>
      /\ \/ pools' = pools
         \/ d \in DOMAIN pools /\ pools' = [pools EXCEPT ![d].msgs = (@ - 1) % CounterRange]
  BY DEF deletemssg, settings
<1>2. \A p \in DOMAIN pools' : p \in DOMAIN pools /\ pools'[p].rules = pools[p].rules
  <2>1. CASE pools' = pools
    BY <2>1
  <2>2. CASE d \in DOMAIN pools /\ pools' = [pools EXCEPT ![d].msgs = (@ - 1) % CounterRange]
    <3> DEFINE r == pools[d]
               k == (r.msgs - 1) % CounterRange
    <3>1. /\ DOMAIN pools' = DOMAIN pools /\ \A p \in DOMAIN pools \ {d} : pools'[p] = pools[p]
          /\ pools'[d] = [r EXCEPT !.msgs = k]
      BY <2>2
    <3>2. r = [rules |-> r.rules, msgs |-> r.msgs, funds |-> r.funds,
               rshares |-> r.rshares, rsharesfn |-> r.rsharesfn]
      BY <2>2 DEF BooksInv, Shapes, IsPool
    <3> HIDE DEF r, k
    <3>3. [r EXCEPT !.msgs = k].rules = r.rules
      BY <3>2
    <3>4. pools'[d].rules = pools[d].rules
      BY <3>1, <3>3 DEF r
    <3> QED BY <3>1, <3>4
  <2> QED BY <1>1, <2>1, <2>2
<1>3. RowsKnown(pools, messages', votes) /\ VotesRight(messages', votes)
  BY <1>1, DroppedKnown DEF Known
<1>4. RowsKnown(pools', messages', votes)
  BY <1>2, <1>3 DEF RowsKnown, PoolKnown
<1>5. PrcntsKnown'
  BY <1>1 DEF Known, PrcntsKnown
<1> QED BY <1>1, <1>3, <1>4, <1>5 DEF Known

\* setrules: the new pool's functions were checked, and never fall.
LEMMA RulesKnown ==
  ASSUME BooksInv, Known, RulesRise, NEW rules \in RuleSets, setrules(rules)
  PROVE  Known'
<1> DEFINE kept == {p \in DOMAIN pools : pools[p].msgs # 0}
           funds == balance - Total([p \in kept |-> pools[p].funds])
           np == [rules |-> rules, msgs |-> 0, funds |-> funds, rshares |-> 0, rsharesfn |-> 0]
<1>1. /\ pools' = Put([p \in kept |-> pools[p]], now, np)
      /\ rules.maxtokenprop \in 0 .. Whole
      /\ load_func(rules.mainfunc) /\ load_func(rules.curationfunc)
      /\ UNCHANGED <<params, messages, votes>>
  BY DEF setrules, settings
<1>2. np.rules = rules
  OBVIOUS
<1> HIDE DEF np
<1>3. PoolKnown(np)
  BY <1>1, <1>2 DEF PoolKnown, RulesRise
<1>4. RowsKnown(pools', messages, votes)
  BY <1>1, <1>3 DEF Known, RowsKnown, Put
<1>5. PrcntsKnown'
  BY <1>1 DEF Known, PrcntsKnown
<1> QED BY <1>1, <1>4, <1>5 DEF Known

\* syncpool: pools go, and the others get other funds.
LEMMA SyncKnown ==
  ASSUME BooksInv, Known, syncpool
  PROVE  Known'
<1>1. /\ \E x : DOMAIN pools' \subseteq DOMAIN pools
               /\ \A p \in DOMAIN pools' : pools'[p] = [pools[p] EXCEPT !.funds = x[p]]
      /\ UNCHANGED <<params, messages, votes>>
  <2> DEFINE oldest == CHOOSE id \in DOMAIN messages : \A o \in DOMAIN messages : id <= o
             last == last_pool(pools)
             from == IF DOMAIN messages = {} THEN last
                     ELSE Least(last, messages[oldest].pool_date)
             kept == {p \in DOMAIN pools : p >= from}
             first == CHOOSE p \in kept : \A q \in kept : p <= q
             sum == Total([p \in kept |-> pools[p].rshares])
             amount(p) == IF balance = 0 \/ pools[p].rshares = 0 THEN 0
                          ELSE quotient(balance * pools[p].rshares, sum)
             left == balance - Total([p \in kept |-> amount(p)])
             y(p) == amount(p) + IF p = first THEN left ELSE 0
             x == [p \in kept |-> y(p)]
  <2>1. /\ pools' = [p \in kept |-> [pools[p] EXCEPT !.funds = y(p)]]
        /\ UNCHANGED <<params, messages, votes>>
    BY DEF syncpool, settings
  <2>2. kept \subseteq DOMAIN pools
    OBVIOUS
  <2> HIDE DEF kept, y
  <2>3. /\ DOMAIN pools' \subseteq DOMAIN pools
        /\ \A p \in DOMAIN pools' : pools'[p] = [pools[p] EXCEPT !.funds = x[p]]
    BY <2>1, <2>2
  <2> QED BY <2>1, <2>3
<1>2. PICK x : /\ DOMAIN pools' \subseteq DOMAIN pools
               /\ \A p \in DOMAIN pools' : pools'[p] = [pools[p] EXCEPT !.funds = x[p]]
  BY <1>1
<1>3. ASSUME NEW p \in DOMAIN pools'
      PROVE  p \in DOMAIN pools /\ pools'[p].rules = pools[p].rules
  <2> DEFINE r == pools[p]
             y == x[p]
  <2>1. p \in DOMAIN pools /\ pools'[p] = [r EXCEPT !.funds = y]
    BY <1>2
  <2>2. r = [rules |-> r.rules, msgs |-> r.msgs, funds |-> r.funds,
             rshares |-> r.rshares, rsharesfn |-> r.rsharesfn]
    BY <2>1 DEF BooksInv, Shapes, IsPool
  <2> HIDE DEF r, y
  <2>3. [r EXCEPT !.funds = y].rules = r.rules
    BY <2>2
  <2> QED BY <2>1, <2>3 DEF r
<1> QED BY <1>1, <1>3, QuietKnown

\* Votes that deletevotes erases
LEMMA EraseKnown ==
  ASSUME BooksInv, Known, NEW id, NEW sent, deletevotes(id, sent)
  PROVE  Known'
<1>1. UNCHANGED <<params, messages, pools>>
  BY DEF deletevotes, settings
<1>2. DOMAIN votes' \subseteq DOMAIN votes /\ \A k \in DOMAIN votes' : votes'[k] = votes[k]
  <2>1. PICK S : votes' = [k \in DOMAIN votes \ S |-> votes[k]]
    BY DEF deletevotes
  <2> QED BY <2>1
<1> QED BY <1>1, <1>2, QuietKnown

----------------------------------------------------------------------------
(* The loop over the votes of a message, and what it leaves of them *)

\* Two parts of a table add up to it.
LEMMA TotalSplit ==
  ASSUME NEW f, IsFiniteSet(DOMAIN f), \A x \in DOMAIN f : f[x] \in Int,
         NEW g, NEW h, DOMAIN f = DOMAIN g \union DOMAIN h, DOMAIN g \intersect DOMAIN h = {},
         \A x \in DOMAIN g : g[x] = f[x], \A x \in DOMAIN h : h[x] = f[x]
  PROVE  Total(f) = Total(g) + Total(h)
<1> DEFINE u == [x \in DOMAIN f |-> IF x \in DOMAIN g THEN f[x] ELSE 0]
           w == [x \in DOMAIN f |-> IF x \in DOMAIN g THEN 0 ELSE f[x]]
<1>1. /\ DOMAIN u = DOMAIN f /\ DOMAIN w = DOMAIN f
      /\ \A x \in DOMAIN f : u[x] \in Int /\ w[x] \in Int /\ f[x] = u[x] + w[x]
      /\ (\A x \in DOMAIN g : g[x] = u[x]) /\ \A x \in DOMAIN u \ DOMAIN g : u[x] = 0
      /\ (\A x \in DOMAIN h : h[x] = w[x]) /\ \A x \in DOMAIN w \ DOMAIN h : w[x] = 0
  OBVIOUS
<1> HIDE DEF u, w
<1>2. Total(f) = Total(u) + Total(w)
  BY <1>1, TotalPlus
<1>3. Total(g) = Total(u)
  BY <1>1, TotalWithoutZeros
<1>4. Total(h) = Total(w)
  BY <1>1, TotalWithoutZeros
<1> QED BY <1>2, <1>3, <1>4

\* A set that contains everything above each of its members is the end of the
\* interval.
LEMMA UpperSet ==
  ASSUME NEW n \in Nat, NEW S, S \subseteq 1 .. n, \A d \in S, e \in 1 .. n : e > d => e \in S
  PROVE  /\ Cardinality(S) \in 0 .. n
         /\ S = (n - Cardinality(S) + 1) .. n
<1>1. CASE S = {}
  <2>1. Cardinality(S) = 0
    BY <1>1, FS_EmptySet
  <2>2. (n - 0 + 1) .. n = {}
    OBVIOUS
  <2> QED BY <1>1, <2>1, <2>2
<1>2. CASE S # {}
  <2>1. S \subseteq Nat
    OBVIOUS
  <2>2. PICK d \in S : \A e \in S : d <= e
    BY <1>2, <2>1, SmallestNumber
  <2>3. d \in 1 .. n /\ S = d .. n
    <3>1. d \in 1 .. n
      OBVIOUS
    <3>2. ASSUME NEW e \in d .. n PROVE e \in S
      <4>1. CASE e = d
        BY <4>1
      <4>2. CASE e # d
        <5>1. e > d /\ e \in 1 .. n
          BY <3>1, <4>2
        <5> QED BY <5>1
      <4> QED BY <4>1, <4>2
    <3>3. ASSUME NEW e \in S PROVE e \in d .. n
      BY <2>2, <3>1
    <3> QED BY <3>1, <3>2, <3>3
  <2>4. Cardinality(S) = n - d + 1
    <3>1. d \in Int /\ n \in Int /\ ~(d > n)
      BY <2>3
    <3>2. Cardinality(d .. n) = IF d > n THEN 0 ELSE n - d + 1
      BY <3>1, FS_Interval
    <3> QED BY <2>3, <3>1, <3>2
  <2>5. n - (n - d + 1) + 1 = d /\ n - d + 1 \in 0 .. n
    BY <2>3
  <2> QED BY <2>3, <2>4, <2>5
<1> QED BY <1>1, <1>2

\* What pay_vote finds a delegator to get of a claim; the delegators whose turn
\* comes when n payments were made before; and what they get
payout_of(claim, ds, d) == (claim * ds[d].interest_rate) \div Whole

reached_from(n, claim, ds) ==
  {d \in DOMAIN ds :
     n + Cardinality({e \in DOMAIN ds : e > d /\ payout_of(claim, ds, e) > 0}) < TargetPayments}

paid_from(n, claim, ds) ==
  Total([d \in reached_from(n, claim, ds) |-> payout_of(claim, ds, d)])

\* The delegators reached are the last ones: they are paid from the end on.
LEMMA ReachedLast ==
  ASSUME NEW v, VoteKnown(v), NEW claim, NEW n \in Int
  PROVE  LET ds == v.delegators
             got == reached_from(n, claim, ds)
             k == Len(ds) - Cardinality(got) IN
         /\ Cardinality(got) \in Nat /\ k \in 0 .. Len(ds) /\ got = (k + 1) .. Len(ds)
         /\ \A S \in SUBSET got : Cardinality(S) \in Nat
<1> DEFINE ds == v.delegators
           len == Len(ds)
           behind(d) == {e \in DOMAIN ds : e > d /\ payout_of(claim, ds, e) > 0}
           got == reached_from(n, claim, ds)
<1>1. DOMAIN ds = 1 .. len /\ len \in Nat /\ IsFiniteSet(DOMAIN ds)
  BY FewDelegators
<1>2. got = {d \in DOMAIN ds : n + Cardinality(behind(d)) < TargetPayments}
  BY DEF reached_from
<1>3. \A d \in DOMAIN ds : Cardinality(behind(d)) \in Nat /\ IsFiniteSet(behind(d))
  <2> SUFFICES ASSUME NEW d \in DOMAIN ds
               PROVE  Cardinality(behind(d)) \in Nat /\ IsFiniteSet(behind(d))
    OBVIOUS
  <2>1. behind(d) \in SUBSET DOMAIN ds
    OBVIOUS
  <2> HIDE DEF behind, ds
  <2> QED BY <1>1, <2>1, FS_Subset, FS_CardinalityType
<1>4. ASSUME NEW d \in got, NEW e \in 1 .. len, e > d PROVE e \in got
  <2>1. d \in DOMAIN ds /\ e \in DOMAIN ds /\ n + Cardinality(behind(d)) < TargetPayments
    BY <1>1, <1>2
  <2>2. behind(e) \subseteq behind(d)
    <3>1. \A x \in DOMAIN ds : x > e => x > d
      BY <1>1, <1>4, <2>1
    <3> QED BY <3>1
  <2> HIDE DEF behind, got, ds
  <2>3. Cardinality(behind(e)) <= Cardinality(behind(d))
    BY <1>3, <2>1, <2>2, FS_Subset
  <2>4. TargetPayments \in Int
    BY AmountsAssumption
  <2> DEFINE x == Cardinality(behind(e))
             y == Cardinality(behind(d))
  <2>5. x \in Nat /\ y \in Nat /\ x <= y /\ n + y < TargetPayments
    BY <1>3, <2>1, <2>3
  <2> HIDE DEF x, y
  <2>6. n + x < TargetPayments
    BY <2>4, <2>5
  <2> QED BY <1>2, <2>1, <2>6 DEF x
<1>5. got \subseteq 1 .. len
  BY <1>1, <1>2
<1> HIDE DEF got, len
<1>6. Cardinality(got) \in 0 .. len /\ got = (len - Cardinality(got) + 1) .. len
  BY <1>1, <1>4, <1>5, UpperSet
<1>7. \A S \in SUBSET got : Cardinality(S) \in Nat
  BY <1>1, <1>5, FS_Subset, FS_CardinalityType
<1>8. Cardinality(got) \in Nat /\ len - Cardinality(got) \in 0 .. len
  BY <1>1, <1>6
<1> QED BY <1>6, <1>7, <1>8 DEF got, len

\* What is left of a vote whose claim was not paid in full: the first of its
\* delegators, and with what they may still claim no more than the claim
PartLeft(v, r, claim) ==
  /\ VoteKnown(r) /\ r.curatorsw = v.curatorsw
  /\ r.paid_amount + delegated(claim, r.delegators) <= claim

\* Delegators that were reached are not paid again, nor more than the claim.
LEMMA PaidPart ==
  ASSUME NEW v \in VoteRow, VoteKnown(v), NEW claim \in Nat, NEW n \in Int,
         v.paid_amount + delegated(claim, v.delegators) <= claim
  PROVE  LET x == paid_from(n, claim, v.delegators)
             k == Len(v.delegators) - Cardinality(reached_from(n, claim, v.delegators)) IN
         /\ x \in Nat /\ v.paid_amount \in Nat /\ claim - (x + v.paid_amount) \in Nat
         /\ PartLeft(v, RowLeft(v, k, x), claim)
         /\ RowLeft(v, k, x).paid_amount = v.paid_amount + x
<1> DEFINE ds == v.delegators
           len == Len(ds)
           got == reached_from(n, claim, ds)
           k == len - Cardinality(got)
           x == paid_from(n, claim, ds)
           es == SubSeq(ds, 1, k)
           r == RowLeft(v, k, x)
           f == [d \in DOMAIN ds |-> payout_of(claim, ds, d)]
           g == [d \in DOMAIN es |-> payout_of(claim, es, d)]
           h == [d \in got |-> payout_of(claim, ds, d)]
           D == [delegator : Account, interest_rate : 1 .. Whole]
<1>1. /\ DOMAIN ds = 1 .. len /\ len \in Nat /\ IsFiniteSet(DOMAIN ds) /\ ds \in Seq(D)
      /\ \A d \in DOMAIN ds : ds[d].interest_rate \in Nat
  BY FewDelegators DEF VoteKnown
<1>2. Cardinality(got) \in Nat /\ k \in 0 .. len /\ got = (k + 1) .. len
  BY ReachedLast
<1>3. es \in Seq(D) /\ DOMAIN es = 1 .. k /\ \A d \in 1 .. k : es[d] = ds[d]
  <2> HIDE DEF ds, k, D, got
  <2>1. \A i \in 1 .. k : i \in 1 .. len
    BY <1>1, <1>2
  <2>2. \A i \in 1 .. k : ds[i] \in D
    BY <1>1, <2>1, ElementOfSeq
  <2>3. 1 \in Int /\ k \in Int
    BY <1>2
  <2>4. es \in Seq(D) /\ Len(es) = (IF 1 <= k THEN k - 1 + 1 ELSE 0)
        /\ \A i \in 1 .. k - 1 + 1 : es[i] = ds[1 + i - 1]
    BY <2>2, <2>3, SubSeqProperties
  <2>5. Len(es) = k
    BY <1>2, <2>4
  <2>6. DOMAIN es = 1 .. k
    BY <2>4, <2>5, LenProperties
  <2>7. \A d \in 1 .. k : d \in 1 .. k - 1 + 1 /\ 1 + d - 1 = d
    BY <1>2
  <2> QED BY <2>4, <2>6, <2>7
<1>4. /\ delegated(claim, ds) \in Nat /\ \A d \in DOMAIN ds : payout_of(claim, ds, d) \in Nat
      /\ delegated(claim, ds) = Total(f) /\ delegated(claim, es) = Total(g) /\ x = Total(h)
  <2>1. /\ delegated(claim, ds) \in Nat /\ \A d \in DOMAIN ds : payout_of(claim, ds, d) \in Nat
    BY DelegatedFits DEF payout_of
  <2>2. delegated(claim, ds) = Total(f)
    BY DEF delegated, payout_of
  <2>3. delegated(claim, es) = Total(g)
    BY DEF delegated, payout_of
  <2>4. x = Total(h)
    BY DEF paid_from
  <2> QED BY <2>1, <2>2, <2>3, <2>4
<1>5. Total(f) = Total(g) + Total(h) /\ Total(g) \in Nat /\ Total(h) \in Nat
  <2>1. /\ DOMAIN f = DOMAIN ds /\ DOMAIN g = 1 .. k /\ DOMAIN h = got
        /\ \A d \in DOMAIN f : f[d] \in Nat
        /\ (\A d \in DOMAIN g : g[d] = f[d]) /\ \A d \in DOMAIN h : h[d] = f[d]
    <3>1. \A d \in DOMAIN f : f[d] \in Nat
      BY <1>4
    <3> HIDE DEF ds, es, k, got, len
    <3>2. (\A d \in 1 .. k : d \in DOMAIN ds) /\ \A d \in got : d \in DOMAIN ds
      BY <1>1, <1>2
    <3>3. \A d \in 1 .. k : payout_of(claim, es, d) = payout_of(claim, ds, d)
      <4> SUFFICES ASSUME NEW d \in 1 .. k PROVE payout_of(claim, es, d) = payout_of(claim, ds, d)
        OBVIOUS
      <4>1. es[d] = ds[d]
        BY <1>3
      <4> QED BY <4>1 DEF payout_of
    <3>4. DOMAIN g = 1 .. k /\ \A d \in DOMAIN g : g[d] = f[d]
      BY <1>3, <3>2, <3>3
    <3> QED BY <3>1, <3>2, <3>4
  <2>2. DOMAIN f = DOMAIN g \union DOMAIN h /\ DOMAIN g \intersect DOMAIN h = {}
    <3>1. 1 .. len = 1 .. k \union ((k + 1) .. len) /\ 1 .. k \intersect ((k + 1) .. len) = {}
      BY <1>1, <1>2
    <3> QED BY <1>1, <1>2, <2>1, <3>1
  <2>3. IsFiniteSet(DOMAIN f) /\ DOMAIN g \subseteq DOMAIN f /\ DOMAIN h \subseteq DOMAIN f
    BY <1>1, <2>1, <2>2
  <2> HIDE DEF f, g, h
  <2>4. Total(f) = Total(g) + Total(h)
    <3>1. \A d \in DOMAIN f : f[d] \in Int
      BY <2>1
    <3>2. /\ IsFiniteSet(DOMAIN f) /\ \A d \in DOMAIN g : g[d] = f[d]
          /\ \A d \in DOMAIN h : h[d] = f[d]
      BY <2>1, <2>3
    <3> QED BY <2>2, <3>1, <3>2, TotalSplit
  <2>5. Total(g) \in Nat
    BY <2>1, <2>3, TotalOfPart
  <2>6. Total(h) \in Nat
    BY <2>1, <2>3, TotalOfPart
  <2> QED BY <2>4, <2>5, <2>6
<1>6. r.paid_amount = v.paid_amount + x /\ r.delegators = es /\ r.curatorsw = v.curatorsw
      /\ r.weight = v.weight /\ r.count = v.count
  <2> HIDE DEF x, k
  <2> QED BY DEF RowLeft, VoteRow
<1>7. v.paid_amount \in Nat /\ v.paid_amount + Total(f) <= claim
  BY <1>4 DEF VoteKnown
<1>8. Total([d \in DOMAIN es |-> es[d].interest_rate]) <= Whole
  <2> DEFINE u == [d \in DOMAIN ds |-> ds[d].interest_rate]
             w == [d \in DOMAIN es |-> es[d].interest_rate]
  <2>1. \A d \in 1 .. k : d \in DOMAIN ds
    BY <1>1, <1>2
  <2>2. /\ DOMAIN u = DOMAIN ds /\ DOMAIN w \subseteq DOMAIN u
        /\ (\A d \in DOMAIN u : u[d] \in Nat) /\ \A d \in DOMAIN w : w[d] = u[d]
    BY <1>1, <1>3, <2>1
  <2>3. Total(u) <= Whole
    BY DEF VoteKnown
  <2> HIDE DEF u, w
  <2>4. Total(w) <= Total(u) /\ Total(w) \in Nat /\ Total(u) \in Nat
    BY <1>1, <2>2, TotalOfPart, TotalNat
  <2>5. Total(w) <= Whole
    BY <2>3, <2>4, AmountsAssumption
  <2> QED BY <2>5 DEF w
<1> HIDE DEF f, g, h, x, es, ds
<1>9. x \in Nat /\ claim - (x + v.paid_amount) \in Nat
      /\ v.paid_amount + x + delegated(claim, es) <= claim
  BY <1>4, <1>5, <1>7
<1>10. VoteKnown(r)
  <2>1. r.paid_amount \in Nat
    BY <1>6, <1>7, <1>9
  <2> HIDE DEF r
  <2> QED BY <1>3, <1>6, <1>8, <2>1 DEF VoteKnown
<1>11. PartLeft(v, r, claim)
  <2> HIDE DEF r
  <2> QED BY <1>6, <1>9, <1>10 DEF PartLeft
<1> QED BY <1>6, <1>7, <1>9, <1>11 DEF x, ds

\* The row that a vote has after the loop has come to c, and what it may still
\* claim
left_of(c, id, v) ==
  IF v \in DOMAIN c.partial THEN c.partial[v] ELSE votes[<<id, v>>]

open_claim(c, id, v) ==
  IF v \in c.erased THEN 0
  ELSE claim_of(messages[id], votes[<<id, v>>]) - left_of(c, id, v).paid_amount

\* What the loop has come to when it has passed the voters D: what it paid, and
\* what may still be claimed, is what could be claimed before.
PayGood(c, id, D) ==
  LET m == messages[id] IN
  /\ c = [ok |-> c.ok, stop |-> c.stop, place |-> c.place, count |-> c.count,
          paid |-> c.paid, erased |-> c.erased, partial |-> c.partial]
  /\ c.ok /\ c.count \in Int /\ c.paid \in Nat
  /\ m.sumcuratorsw <= 0 \/ curation_payout(m) <= 0 => c.stop /\ c.paid = 0
  /\ c.erased \subseteq D /\ DOMAIN c.partial \subseteq D \ c.erased
  /\ \A v \in DOMAIN c.partial :
       PartLeft(votes[<<id, v>>], c.partial[v], claim_of(m, votes[<<id, v>>]))
  /\ c.paid + Total([v \in voters(id) |-> open_claim(c, id, v)])
       = Total([v \in voters(id) |->
                  claim_of(m, votes[<<id, v>>]) - votes[<<id, v>>].paid_amount])

\* One vote more
LEMMA PaysGood ==
  ASSUME BooksInv, Known, NEW id \in DOMAIN messages, closed(messages[id]),
         NEW c, NEW D, D \subseteq voters(id), PayGood(c, id, D),
         NEW voter \in voters(id), voter \notin D
  PROVE  PayGood(pay_vote(c, id, voter, curation_payout(messages[id])), id, D \union {voter})
<1> DEFINE m     == messages[id]
           cp    == curation_payout(m)
           v     == votes[<<id, voter>>]
           ds    == v.delegators
           scw   == m.sumcuratorsw
           claim == (cp * v.curatorsw) \div scw
           got   == reached_from(c.count, claim, ds)
           x     == paid_from(c.count, claim, ds)
           n     == c.count + Cardinality({d \in got : payout_of(claim, ds, d) > 0})
           rest  == claim - (x + v.paid_amount)
           k     == Len(ds) - Cardinality(got)
           all_paid  == [ok |-> c.ok /\ rest >= 0, stop |-> FALSE,
                         place |-> c.count < TargetPayments,
                         count |-> IF rest = 0 THEN n ELSE n + 1,
                         paid |-> c.paid + x + rest,
                         erased |-> c.erased \union {voter}, partial |-> c.partial]
           some_paid == [ok |-> c.ok /\ rest >= 0, stop |-> FALSE, place |-> FALSE,
                         count |-> n, paid |-> c.paid + x, erased |-> c.erased,
                         partial |-> Put(c.partial, voter, RowLeft(v, k, x))]
           r     == pay_vote(c, id, voter, cp)
<1>1. r = IF c.stop \/ ~c.place THEN c
          ELSE IF claim = 0 THEN [c EXCEPT !.stop = TRUE]
          ELSE IF n < TargetPayments \/ rest = 0 THEN all_paid ELSE some_paid
  BY DEF pay_vote, to_pay, RowLeft, payout_of, reached_from, paid_from
<1>2. /\ c = [ok |-> c.ok, stop |-> c.stop, place |-> c.place, count |-> c.count,
              paid |-> c.paid, erased |-> c.erased, partial |-> c.partial]
      /\ c.ok /\ c.count \in Int /\ c.paid \in Nat
      /\ scw <= 0 \/ cp <= 0 => c.stop /\ c.paid = 0
      /\ c.erased \subseteq D /\ DOMAIN c.partial \subseteq D \ c.erased
      /\ \A o \in DOMAIN c.partial :
           PartLeft(votes[<<id, o>>], c.partial[o], claim_of(m, votes[<<id, o>>]))
  BY DEF PayGood
<1>3. /\ v \in VoteRow /\ VoteKnown(v) /\ m \in MessageRow /\ MessageKnown(m)
      /\ v.paid_amount + delegated(claim_of(m, v), ds) <= claim_of(m, v)
  <2>1. Sides /\ Books(pools, messages, astray, balance + astray.funds, now)
    BY FewMessages
  <2>2. <<id, voter>> \in DOMAIN votes /\ voter \in VotersOf(votes, id)
    BY DEF voters, VotersOf
  <2>3. ClaimsRight(m, votes, id)
    BY DEF Known, VotesRight
  <2>4. v.paid_amount + delegated(claim_of(m, v), ds) <= claim_of(m, v)
    BY <2>2, <2>3 DEF ClaimsRight
  <2> QED BY <2>1, <2>2, <2>4 DEF Sides, Books, MessageRight, Known, RowsKnown
<1>4. scw \in Int /\ cp \in Int /\ claim_of(m, v) \in Nat
  <2>1. claim_of(m, v) \in Nat /\ cp \in Int
    BY <1>3, ClaimNat
  <2> QED BY <1>3, <2>1 DEF MessageRow
<1> DEFINE earlier == [o \in voters(id) |-> open_claim(c, id, o)]
           after  == [o \in voters(id) |-> open_claim(r, id, o)]
           first  == Total([o \in voters(id) |->
                        claim_of(m, votes[<<id, o>>]) - votes[<<id, o>>].paid_amount])
<1>5. c.paid + Total(earlier) = first
  BY DEF PayGood
<1>6. open_claim(c, id, voter) = claim_of(m, v) - v.paid_amount
  <2>1. voter \notin c.erased /\ voter \notin DOMAIN c.partial
    BY <1>2
  <2> QED BY <2>1 DEF open_claim, left_of
<1>7. IsFiniteSet(voters(id)) /\ \A o \in voters(id) : open_claim(c, id, o) \in Int
  <2>1. IsFiniteSet(voters(id))
    BY FewVoters DEF voters, VotersOf
  <2> SUFFICES ASSUME NEW o \in voters(id) PROVE open_claim(c, id, o) \in Int
    BY <2>1
  <2>2. <<id, o>> \in DOMAIN votes
    BY DEF voters
  <2> DEFINE w == votes[<<id, o>>]
  <2>3. VoteKnown(w)
    BY <2>2 DEF Known, RowsKnown
  <2>4. claim_of(m, w) \in Nat
    BY <1>3, <2>3, ClaimNat
  <2>5. left_of(c, id, o).paid_amount \in Nat
    <3>1. CASE o \in DOMAIN c.partial
      BY <1>2, <3>1 DEF left_of, PartLeft, VoteKnown
    <3>2. CASE o \notin DOMAIN c.partial
      BY <2>3, <3>2 DEF left_of, VoteKnown
    <3> QED BY <3>1, <3>2
  <2> DEFINE y == claim_of(m, w)
             z == left_of(c, id, o).paid_amount
  <2>6. open_claim(c, id, o) = IF o \in c.erased THEN 0 ELSE y - z
    BY DEF open_claim
  <2>7. y \in Int /\ z \in Int
    BY <2>4, <2>5
  <2> HIDE DEF y, z
  <2> QED BY <2>6, <2>7
<1> HIDE DEF r
<1>8. CASE c.stop \/ ~c.place
  <2>1. r = c
    BY <1>1, <1>8
  <2> HIDE DEF m, cp
  <2> QED BY <1>2, <1>5, <2>1 DEF PayGood, r, m, cp
<1>9. CASE ~(c.stop \/ ~c.place) /\ claim = 0
  <2>1. r = [c EXCEPT !.stop = TRUE]
    BY <1>1, <1>9
  <2>2. /\ r = [ok |-> r.ok, stop |-> r.stop, place |-> r.place, count |-> r.count,
                paid |-> r.paid, erased |-> r.erased, partial |-> r.partial]
        /\ r.ok = c.ok /\ r.stop /\ r.count = c.count /\ r.paid = c.paid
        /\ r.erased = c.erased /\ r.partial = c.partial
    BY <1>2, <2>1
  <2>3. \A o : open_claim(r, id, o) = open_claim(c, id, o)
    BY <2>2 DEF open_claim, left_of
  <2>4. r.paid + Total(after) = first
    BY <1>5, <2>2, <2>3
  <2>5. /\ r.ok /\ r.count \in Int /\ r.paid \in Nat
        /\ scw <= 0 \/ cp <= 0 => r.stop /\ r.paid = 0
        /\ r.erased \subseteq D \union {voter}
        /\ DOMAIN r.partial \subseteq (D \union {voter}) \ r.erased
        /\ \A o \in DOMAIN r.partial :
             PartLeft(votes[<<id, o>>], r.partial[o], claim_of(m, votes[<<id, o>>]))
    <3>1. voter \notin DOMAIN c.partial /\ voter \notin c.erased
      BY <1>2
    <3> HIDE DEF m, cp, v, scw
    <3>2. /\ r.ok /\ r.count \in Int /\ r.paid \in Nat
          /\ scw <= 0 \/ cp <= 0 => r.stop /\ r.paid = 0
      BY <1>2, <2>2
    <3>3. /\ r.erased \subseteq D \union {voter}
          /\ DOMAIN r.partial \subseteq (D \union {voter}) \ r.erased
      BY <1>2, <2>2, <3>1
    <3>4. \A o \in DOMAIN r.partial :
            PartLeft(votes[<<id, o>>], r.partial[o], claim_of(m, votes[<<id, o>>]))
      BY <1>2, <2>2
    <3> QED BY <3>2, <3>3, <3>4
  <2> QED BY <2>2, <2>4, <2>5 DEF PayGood, r
<1>10. CASE ~(c.stop \/ ~c.place) /\ claim # 0
  <2>1. scw > 0 /\ cp > 0 /\ claim = claim_of(m, v)
    <3>1. scw > 0 /\ cp > 0
      BY <1>2, <1>4, <1>10
    <3> QED BY <1>4, <3>1 DEF claim_of
  <2>2. claim \in Nat /\ v.paid_amount + delegated(claim, ds) <= claim
    BY <1>3, <1>4, <2>1
  <2> HIDE DEF claim
  <2>3. /\ x \in Nat /\ v.paid_amount \in Nat /\ rest \in Nat
        /\ PartLeft(v, RowLeft(v, k, x), claim)
        /\ RowLeft(v, k, x).paid_amount = v.paid_amount + x
    <3>1. c.count \in Int /\ v \in VoteRow /\ VoteKnown(v)
      BY <1>2, <1>3
    <3> HIDE DEF v
    <3> QED BY <2>2, <3>1, PaidPart
  <2>4. n \in Int
    <3> DEFINE S == {d \in got : payout_of(claim, ds, d) > 0}
    <3>1. S \in SUBSET got
      OBVIOUS
    <3>2. \A T \in SUBSET got : Cardinality(T) \in Nat
      BY <1>2, <1>3, ReachedLast
    <3>3. Cardinality(S) \in Nat
      BY <3>1, <3>2
    <3> HIDE DEF S
    <3> QED BY <1>2, <3>3 DEF S
  <2>5. /\ voter \notin c.erased /\ voter \notin DOMAIN c.partial
        /\ open_claim(c, id, voter) = claim - v.paid_amount
    BY <1>2, <1>6, <2>1
  <2> DEFINE row == RowLeft(v, k, x)
  <2> HIDE DEF n, x, k, rest, got
  <2>6. CASE n < TargetPayments \/ rest = 0
    <3>1. r = all_paid
      BY <1>1, <1>10, <2>6
    <3>2. /\ r = [ok |-> r.ok, stop |-> r.stop, place |-> r.place, count |-> r.count,
                  paid |-> r.paid, erased |-> r.erased, partial |-> r.partial]
          /\ r.ok = (c.ok /\ rest >= 0) /\ r.count \in {n, n + 1}
          /\ r.paid = c.paid + x + rest
          /\ r.erased = c.erased \union {voter} /\ r.partial = c.partial
      BY <3>1
    <3>3. /\ \A o \in voters(id) \ {voter} : open_claim(r, id, o) = open_claim(c, id, o)
          /\ open_claim(r, id, voter) = 0
      BY <3>2 DEF open_claim, left_of
    <3>4. Total(after) = Total(earlier) + 0 - (claim - v.paid_amount)
      <4>1. /\ DOMAIN earlier = voters(id) /\ DOMAIN after = voters(id)
            /\ (\A o \in voters(id) : earlier[o] \in Int /\ after[o] \in Int)
            /\ (\A o \in voters(id) \ {voter} : after[o] = earlier[o])
            /\ after[voter] = 0 /\ earlier[voter] = claim - v.paid_amount
        BY <1>7, <2>5, <3>3
      <4> HIDE DEF earlier, after, v
      <4>2. Total(after) = Total(earlier) + after[voter] - earlier[voter]
        BY <1>7, <4>1, TotalChange
      <4> QED BY <4>1, <4>2
    <3>5. Total(earlier) \in Int
      <4>1. DOMAIN earlier = voters(id) /\ \A o \in voters(id) : earlier[o] \in Int
        BY <1>7
      <4> HIDE DEF earlier
      <4> QED BY <1>7, <4>1, TotalInt
    <3>6. r.paid = c.paid + claim - v.paid_amount /\ r.paid \in Nat
      <4>1. rest = claim - (x + v.paid_amount)
        BY DEF rest
      <4> HIDE DEF v
      <4> QED BY <1>2, <2>2, <2>3, <3>2, <4>1
    <3>7. r.paid + Total(after) = first
      <4> HIDE DEF earlier, after, first, v
      <4> QED BY <1>2, <1>5, <2>2, <2>3, <3>4, <3>5, <3>6
    <3>8. /\ r.ok /\ r.count \in Int
          /\ scw <= 0 \/ cp <= 0 => r.stop /\ r.paid = 0
          /\ r.erased \subseteq D \union {voter}
          /\ DOMAIN r.partial \subseteq (D \union {voter}) \ r.erased
          /\ \A o \in DOMAIN r.partial :
               PartLeft(votes[<<id, o>>], r.partial[o], claim_of(m, votes[<<id, o>>]))
      <4> HIDE DEF m, cp, v
      <4>1. ~(scw <= 0 \/ cp <= 0)
        BY <1>4, <2>1
      <4>2. r.ok /\ r.count \in Int
        <5>1. rest >= 0
          BY <2>3
        <5>2. r.ok
          BY <1>2, <3>2, <5>1, Zenon
        <5>3. r.count \in Int
          BY <2>4, <3>2
        <5> QED BY <5>2, <5>3
      <4> QED BY <1>2, <2>5, <3>2, <4>1, <4>2
    <3> QED BY <3>2, <3>6, <3>7, <3>8 DEF PayGood, r
  <2>7. CASE ~(n < TargetPayments \/ rest = 0)
    <3>1. r = some_paid
      BY <1>1, <1>10, <2>7
    <3>2. /\ r = [ok |-> r.ok, stop |-> r.stop, place |-> r.place, count |-> r.count,
                  paid |-> r.paid, erased |-> r.erased, partial |-> r.partial]
          /\ r.ok = (c.ok /\ rest >= 0) /\ r.count = n
          /\ r.paid = c.paid + x
          /\ r.erased = c.erased /\ r.partial = Put(c.partial, voter, row)
      BY <3>1
    <3> HIDE DEF row
    <3>3. /\ DOMAIN r.partial = DOMAIN c.partial \union {voter} /\ r.partial[voter] = row
          /\ \A o \in DOMAIN c.partial : r.partial[o] = c.partial[o]
      BY <2>5, <3>2 DEF Put
    <3>4. /\ \A o \in voters(id) \ {voter} : open_claim(r, id, o) = open_claim(c, id, o)
          /\ open_claim(r, id, voter) = claim - row.paid_amount
      BY <2>1, <2>5, <3>2, <3>3 DEF open_claim, left_of
    <3>5. Total(after) = Total(earlier) + (claim - row.paid_amount) - (claim - v.paid_amount)
      <4>0. claim - row.paid_amount \in Int
        <5>1. row.paid_amount = v.paid_amount + x
          BY <2>3 DEF row
        <5> HIDE DEF v
        <5> QED BY <2>2, <2>3, <5>1
      <4>1. /\ DOMAIN earlier = voters(id) /\ DOMAIN after = voters(id)
            /\ (\A o \in voters(id) : earlier[o] \in Int /\ after[o] \in Int)
            /\ (\A o \in voters(id) \ {voter} : after[o] = earlier[o])
            /\ after[voter] = claim - row.paid_amount /\ earlier[voter] = claim - v.paid_amount
        BY <1>7, <2>5, <3>4, <4>0
      <4> HIDE DEF earlier, after, v
      <4>2. Total(after) = Total(earlier) + after[voter] - earlier[voter]
        BY <1>7, <4>1, TotalChange
      <4> QED BY <4>1, <4>2
    <3>6. Total(earlier) \in Int
      <4>1. DOMAIN earlier = voters(id) /\ \A o \in voters(id) : earlier[o] \in Int
        BY <1>7
      <4> HIDE DEF earlier
      <4> QED BY <1>7, <4>1, TotalInt
    <3>7. r.paid + Total(after) = first
      <4>1. row.paid_amount = v.paid_amount + x
        BY <2>3 DEF row
      <4> HIDE DEF earlier, after, first, v
      <4> QED BY <1>2, <1>5, <2>2, <2>3, <3>2, <3>5, <3>6, <4>1
    <3>8. /\ r.ok /\ r.count \in Int /\ r.paid \in Nat
          /\ scw <= 0 \/ cp <= 0 => r.stop /\ r.paid = 0
          /\ r.erased \subseteq D \union {voter}
          /\ DOMAIN r.partial \subseteq (D \union {voter}) \ r.erased
          /\ \A o \in DOMAIN r.partial :
               PartLeft(votes[<<id, o>>], r.partial[o], claim_of(m, votes[<<id, o>>]))
      <4>0. PartLeft(v, row, claim_of(m, v))
        BY <2>1, <2>3 DEF row
      <4>5. PartLeft(votes[<<id, voter>>], r.partial[voter], claim_of(m, votes[<<id, voter>>]))
        BY <3>3, <4>0
      <4> HIDE DEF m, cp, v
      <4>1. ~(scw <= 0 \/ cp <= 0)
        BY <1>4, <2>1
      <4>2. r.ok /\ r.count \in Int /\ r.paid \in Nat
        <5>1. rest >= 0
          BY <2>3
        <5>2. r.ok
          BY <1>2, <3>2, <5>1, Zenon
        <5>3. r.count \in Int
          BY <2>4, <3>2
        <5>4. r.paid \in Nat
          BY <1>2, <2>3, <3>2
        <5> QED BY <5>2, <5>3, <5>4
      <4>3. \A o \in DOMAIN r.partial :
              PartLeft(votes[<<id, o>>], r.partial[o], claim_of(m, votes[<<id, o>>]))
        BY <1>2, <3>3, <4>5
      <4>4. DOMAIN r.partial \subseteq (D \union {voter}) \ r.erased
        BY <1>2, <2>5, <3>2, <3>3
      <4> QED BY <1>2, <3>2, <4>1, <4>2, <4>3, <4>4
    <3> QED BY <3>2, <3>7, <3>8 DEF PayGood, r
  <2> QED BY <2>6, <2>7
<1> QED BY <1>8, <1>9, <1>10 DEF r

\* The whole loop, in whatever order the votes come
LEMMA LoopGood ==
  ASSUME BooksInv, Known, NEW id \in DOMAIN messages, closed(messages[id]),
         NEW ord \in orders(id), NEW c,
         c = fill_curator_payouts(id, ord, curation_payout(messages[id]))
  PROVE  PayGood(c, id, voters(id))
<1> DEFINE n == Len(ord)
           V == voters(id)
           m == messages[id]
           cp == curation_payout(m)
           done(i) == {ord[j] : j \in 1 .. i}
<1>1. /\ n \in Nat /\ \A i \in 1 .. n : ord[i] \in V
      /\ \A i, j \in 1 .. n : i < j => ord[i] # ord[j]
  <2>1. V \in SUBSET Account
    BY DEF voters
  <2>2. IsFiniteSet(Account)
    BY BoundsAssumption
  <2>3. IsFiniteSet(V)
    BY <2>1, <2>2, FS_Subset
  <2>4. Cardinality(V) \in Nat
    BY <2>3, FS_CardinalityType
  <2>5. ord \in [1 .. Cardinality(V) -> V] /\ \A i, j \in DOMAIN ord : i < j => ord[i] # ord[j]
    BY DEF orders
  <2> HIDE DEF V
  <2>6. ord \in Seq(V)
    BY <2>4, <2>5, SeqDef
  <2>7. DOMAIN ord = 1 .. n
    BY <2>6, LenProperties
  <2> QED BY <2>5, <2>6, <2>7, LenProperties, ElementOfSeq
<1> HIDE DEF n
<1> DEFINE g == CHOOSE f : IsPayLoop(f, n, id, ord, cp)
<1>2. c = g[n]
  BY DEF fill_curator_payouts, IsPayLoop, pay_start, n
<1>3. IsPayLoop(g, n, id, ord, cp)
  BY <1>1, PayLoopExists
<1> HIDE DEF g
<1>4. /\ g[0] = pay_start(id, cp)
      /\ \A i \in 1 .. n : g[i] = pay_vote(g[i - 1], id, ord[i], cp)
  <2> HIDE DEF cp
  <2>1. \A i \in 0 .. n : g[i] = IF i = 0 THEN pay_start(id, cp)
                                 ELSE pay_vote(g[i - 1], id, ord[i], cp)
    BY <1>3 DEF IsPayLoop
  <2>2. 0 \in 0 .. n /\ \A i \in 1 .. n : i \in 0 .. n /\ i # 0
    BY <1>1
  <2> QED BY <2>1, <2>2
<1>5. PayGood(g[0], id, done(0))
  <2> DEFINE b == pay_start(id, cp)
  <2>1. /\ b = [ok |-> b.ok, stop |-> b.stop, place |-> b.place, count |-> b.count,
                paid |-> b.paid, erased |-> b.erased, partial |-> b.partial]
        /\ b.ok /\ b.count = 0 /\ b.paid = 0 /\ b.erased = {} /\ b.partial = EmptyTable
        /\ (m.sumcuratorsw <= 0 \/ cp <= 0 => b.stop)
    BY DEF pay_start
  <2> HIDE DEF b
  <2>2. DOMAIN b.partial = {}
    BY <2>1 DEF EmptyTable
  <2>3. \A v : open_claim(b, id, v) =
                 claim_of(m, votes[<<id, v>>]) - votes[<<id, v>>].paid_amount
    BY <2>1, <2>2 DEF open_claim, left_of
  <2> DEFINE f == [v \in voters(id) |-> open_claim(b, id, v)]
             h == [v \in voters(id) |->
                     claim_of(m, votes[<<id, v>>]) - votes[<<id, v>>].paid_amount]
  <2>4. f = h
    BY <2>3
  <2>5. Total(h) \in Int
    <3>1. IsFiniteSet(voters(id))
      BY FewVoters DEF voters, VotersOf
    <3>2. ASSUME NEW v \in voters(id)
          PROVE  claim_of(m, votes[<<id, v>>]) - votes[<<id, v>>].paid_amount \in Int
      <4> DEFINE w == votes[<<id, v>>]
      <4>1. VoteKnown(w) /\ m \in MessageRow /\ MessageKnown(m)
        BY FewMessages DEF Books, MessageRight, Known, RowsKnown, voters
      <4>2. claim_of(m, w) \in Nat /\ w.paid_amount \in Nat
        BY <4>1, ClaimNat DEF VoteKnown
      <4> DEFINE x == claim_of(m, w)
                 y == w.paid_amount
      <4>3. x \in Int /\ y \in Int
        BY <4>2
      <4> HIDE DEF x, y
      <4>4. x - y \in Int
        BY <4>3
      <4> QED BY <4>4 DEF x, y
    <3>3. DOMAIN h = voters(id) /\ \A v \in DOMAIN h : h[v] \in Int
      BY <3>2
    <3> HIDE DEF h
    <3> QED BY <3>1, <3>3, TotalInt
  <2>6. b.paid + Total(f) = Total(h)
    <3> HIDE DEF f, h
    <3> QED BY <2>1, <2>4, <2>5
  <2>7. PayGood(b, id, done(0))
    <3> HIDE DEF done
    <3> QED BY <2>1, <2>2, <2>6 DEF PayGood
  <2> QED BY <1>4, <2>7 DEF b
<1> DEFINE S == {i \in 0 .. n : ~PayGood(g[i], id, done(i))}
<1>6. S = {}
  <2> SUFFICES ASSUME S # {} PROVE FALSE
    OBVIOUS
  <2>1. S \subseteq Nat
    OBVIOUS
  <2>2. PICK k \in S : \A j \in S : k <= j
    <3> HIDE DEF S
    <3> QED BY <2>1, SmallestNumber
  <2>3. k # 0
    BY <1>5, <2>2
  <2>4. k \in 1 .. n /\ k - 1 \in 0 .. n /\ ~(k <= k - 1)
    BY <1>1, <2>3
  <2>5. PayGood(g[k - 1], id, done(k - 1))
    BY <2>2, <2>4
  <2> DEFINE b == g[k - 1]
             voter == ord[k]
             D == done(k - 1)
  <2>6. g[k] = pay_vote(b, id, voter, cp) /\ voter \in voters(id)
    BY <1>1, <1>4, <2>4
  <2>7. D \subseteq voters(id) /\ voter \notin D /\ done(k) = D \union {voter}
    <3>1. \A j \in 1 .. k - 1 : j \in 1 .. n /\ j < k
      BY <1>1, <2>4
    <3>2. 1 .. k = 1 .. k - 1 \union {k}
      BY <2>4
    <3>3. D \subseteq voters(id)
      BY <1>1, <3>1
    <3>4. voter \notin D
      BY <1>1, <2>4, <3>1
    <3>5. done(k) = D \union {voter}
      BY <3>2
    <3> QED BY <3>3, <3>4, <3>5
  <2>8. PayGood(b, id, D)
    BY <2>5
  <2> HIDE DEF b, voter, D
  <2>9. PayGood(pay_vote(b, id, voter, cp), id, D \union {voter})
    BY <2>6, <2>7, <2>8, PaysGood
  <2> QED BY <2>2, <2>6, <2>7, <2>9
<1>7. PayGood(c, id, done(n))
  <2>1. n \in 0 .. n
    BY <1>1
  <2> QED BY <1>2, <1>6, <2>1
<1>8. done(n) \subseteq V
  BY <1>1
<1> HIDE DEF done
<1> QED BY <1>7, <1>8 DEF PayGood

\* What the curators got of a reward is at most what there is for them, and
\* what is left of their votes may claim no more than the rest.
LEMMA LoopLeaves ==
  ASSUME BooksInv, Known, NEW id \in DOMAIN messages, closed(messages[id]),
         NEW c, PayGood(c, id, voters(id)), NEW ws, ws = votes_left(id, c),
         NEW n, n = PaidRow(messages[id], c.paid)
  PROVE  /\ messages[id].paid_amount \in Nat
         /\ messages[id].paid_amount + c.paid <= most(messages[id])
         /\ MessageKnown(n) /\ WeightsRight(n, ws, id) /\ ClaimsRight(n, ws, id)
         /\ \A k \in DOMAIN ws : k \in DOMAIN votes /\ VoteKnown(ws[k])
         /\ \A o, v : o # id => /\ <<o, v>> \in DOMAIN ws <=> <<o, v>> \in DOMAIN votes
                                /\ <<o, v>> \in DOMAIN ws => ws[<<o, v>>] = votes[<<o, v>>]
<1> DEFINE m == messages[id]
           V == voters(id)
           W == VotersOf(ws, id)
           claim(v) == claim_of(m, votes[<<id, v>>])
           row(v) == left_of(c, id, v)
<1>1. /\ m \in MessageRow /\ MessageKnown(m) /\ \A k \in DOMAIN votes : VoteKnown(votes[k])
      /\ IsFiniteSet(V) /\ V = VotersOf(votes, id)
      /\ \A v \in V : <<id, v>> \in DOMAIN votes /\ VoteKnown(votes[<<id, v>>])
  BY FewMessages, FewVoters DEF Books, MessageRight, Known, RowsKnown, voters, VotersOf
<1>2. WeightsRight(m, votes, id) /\ ClaimsRight(m, votes, id)
  BY DEF Known, VotesRight
<1>3. /\ c.paid \in Nat /\ c.erased \subseteq V /\ DOMAIN c.partial \subseteq V \ c.erased
      /\ (m.sumcuratorsw <= 0 \/ curation_payout(m) <= 0 => c.paid = 0)
      /\ \A v \in DOMAIN c.partial : PartLeft(votes[<<id, v>>], c.partial[v], claim(v))
      /\ c.paid + Total([v \in V |-> open_claim(c, id, v)])
           = Total([v \in V |-> claim(v) - votes[<<id, v>>].paid_amount])
  BY DEF PayGood
<1>4. \A v \in V : /\ PartLeft(votes[<<id, v>>], row(v), claim(v))
                   /\ claim(v) \in Nat
  <2> SUFFICES ASSUME NEW v \in V
               PROVE  PartLeft(votes[<<id, v>>], row(v), claim(v)) /\ claim(v) \in Nat
    OBVIOUS
  <2>1. claim(v) \in Nat
    BY <1>1, ClaimNat
  <2>2. CASE v \in DOMAIN c.partial
    BY <1>3, <2>1, <2>2 DEF left_of
  <2>3. CASE v \notin DOMAIN c.partial
    <3>1. row(v) = votes[<<id, v>>]
      BY <2>3 DEF left_of
    <3>2. PartLeft(votes[<<id, v>>], votes[<<id, v>>], claim(v))
      BY <1>1, <1>2 DEF PartLeft, ClaimsRight
    <3> QED BY <2>1, <3>1, <3>2
  <2> QED BY <2>2, <2>3
<1>5. /\ W = V \ c.erased /\ \A v \in W : ws[<<id, v>>] = row(v)
      /\ \A k \in DOMAIN ws : k \in DOMAIN votes
      /\ \A o, v : o # id => /\ <<o, v>> \in DOMAIN ws <=> <<o, v>> \in DOMAIN votes
                             /\ <<o, v>> \in DOMAIN ws => ws[<<o, v>>] = votes[<<o, v>>]
  <2>1. DOMAIN ws = DOMAIN votes \ ({id} \X c.erased)
    BY DEF votes_left
  <2>2. \A k \in DOMAIN ws : ws[k] = IF k[1] = id /\ k[2] \in DOMAIN c.partial
                                     THEN c.partial[k[2]] ELSE votes[k]
    BY DEF votes_left
  <2>3. ASSUME NEW v \in Account
        PROVE  <<id, v>> \in DOMAIN ws <=> <<id, v>> \in DOMAIN votes /\ v \notin c.erased
    BY <2>1
  <2>4. ASSUME NEW v, <<id, v>> \in DOMAIN ws PROVE ws[<<id, v>>] = row(v)
    <3>1. <<id, v>>[1] = id /\ <<id, v>>[2] = v
      OBVIOUS
    <3> QED BY <2>2, <2>4, <3>1 DEF left_of
  <2>5. ASSUME NEW o, NEW v, o # id
        PROVE  /\ <<o, v>> \in DOMAIN ws <=> <<o, v>> \in DOMAIN votes
               /\ <<o, v>> \in DOMAIN ws => ws[<<o, v>>] = votes[<<o, v>>]
    <3>1. <<o, v>>[1] = o
      OBVIOUS
    <3>2. <<o, v>> \notin {id} \X c.erased
      BY <2>5
    <3> QED BY <2>1, <2>2, <2>5, <3>1, <3>2
  <2>6. W = V \ c.erased
    BY <2>3 DEF VotersOf, voters
  <2>7. \A v \in W : ws[<<id, v>>] = row(v)
    BY <2>4 DEF VotersOf
  <2> QED BY <2>1, <2>5, <2>6, <2>7
<1>6. \A k \in DOMAIN ws : VoteKnown(ws[k])
  <2> SUFFICES ASSUME NEW k \in DOMAIN ws PROVE VoteKnown(ws[k])
    OBVIOUS
  <2>1. PICK o, v : k = <<o, v>> /\ v \in Account
    <3>1. DOMAIN votes \subseteq (1 .. last_id) \X Account
      BY DEF BooksInv, IInv, Keys
    <3> QED BY <1>5, <3>1
  <2>2. CASE o = id
    <3>1. v \in W
      BY <2>1, <2>2 DEF VotersOf
    <3> QED BY <1>4, <1>5, <2>1, <2>2, <3>1 DEF PartLeft
  <2>3. CASE o # id
    BY <1>1, <1>5, <2>1, <2>3
  <2> QED BY <2>2, <2>3
<1> DEFINE f == [v \in V |-> open_claim(c, id, v)]
           f0 == [v \in V |-> claim(v) - votes[<<id, v>>].paid_amount]
           h == [v \in W |-> claim_of(n, ws[<<id, v>>]) - ws[<<id, v>>].paid_amount]
<1>7. \A v \in V : /\ row(v).paid_amount \in Nat /\ row(v).paid_amount <= claim(v)
                   /\ row(v).curatorsw = votes[<<id, v>>].curatorsw
                   /\ row(v).paid_amount + delegated(claim(v), row(v).delegators) <= claim(v)
  <2> SUFFICES ASSUME NEW v \in V
               PROVE  /\ row(v).paid_amount \in Nat /\ row(v).paid_amount <= claim(v)
                      /\ row(v).curatorsw = votes[<<id, v>>].curatorsw
                      /\ row(v).paid_amount + delegated(claim(v), row(v).delegators) <= claim(v)
    OBVIOUS
  <2> DEFINE r == row(v)
             k == claim(v)
  <2>1. VoteKnown(r) /\ k \in Nat /\ r.curatorsw = votes[<<id, v>>].curatorsw
        /\ r.paid_amount + delegated(k, r.delegators) <= k
    BY <1>4 DEF PartLeft
  <2> HIDE DEF r, k
  <2>2. delegated(k, r.delegators) \in Nat
    BY <2>1, DelegatedFits
  <2>3. r.paid_amount \in Nat
    BY <2>1 DEF VoteKnown
  <2>4. r.paid_amount <= k
    BY <2>1, <2>2, <2>3
  <2> QED BY <2>1, <2>3, <2>4 DEF r, k
<1>8. /\ n.paid_amount = m.paid_amount + c.paid /\ n.sumcuratorsw = m.sumcuratorsw
      /\ curation_payout(n) = curation_payout(m)
      /\ \A v : claim_of(n, v) = claim_of(m, v)
      /\ most(n) = most(m) /\ MessageKnown(n)
  <2>1. /\ n.paid_amount = m.paid_amount + c.paid /\ n.sumcuratorsw = m.sumcuratorsw
        /\ n.mssg_reward = m.mssg_reward /\ n.curators_prcnt = m.curators_prcnt
        /\ n.tokenprop = m.tokenprop /\ n.max_payout = m.max_payout
        /\ n.cashout_time = m.cashout_time /\ n.voteshares = m.voteshares
    <3> DEFINE x == c.paid
    <3> HIDE DEF m, x
    <3>1. n = PaidRow(m, x)
      BY DEF m, x
    <3>2. m \in MessageRow
      BY <1>1
    <3>3. n = [m EXCEPT !.paid_amount = @ + x]
      BY <3>1 DEF PaidRow
    <3> QED BY <3>2, <3>3 DEF MessageRow, x
  <2> HIDE DEF m
  <2>2. curation_payout(n) = curation_payout(m)
    BY <2>1 DEF curation_payout
  <2>3. MessageKnown(n)
    BY <1>1, <2>1, KnownSame
  <2> QED BY <2>1, <2>2, <2>3 DEF claim_of, most
<1>9. /\ \A v \in V : open_claim(c, id, v) \in Nat
      /\ \A v \in V \ W : open_claim(c, id, v) = 0
      /\ \A v \in W : /\ v \in V /\ h[v] = open_claim(c, id, v)
                      /\ claim_of(n, ws[<<id, v>>]) = claim(v)
  <2>1. ASSUME NEW v \in V PROVE open_claim(c, id, v) \in Nat
    <3> DEFINE y == claim(v)
               z == row(v).paid_amount
    <3>1. open_claim(c, id, v) = IF v \in c.erased THEN 0 ELSE y - z
      BY DEF open_claim
    <3>2. y \in Nat /\ z \in Nat /\ z <= y
      BY <1>4, <1>7
    <3> HIDE DEF y, z
    <3> QED BY <3>1, <3>2
  <2>2. \A v \in V \ W : open_claim(c, id, v) = 0
    BY <1>5 DEF open_claim
  <2>3. ASSUME NEW v \in W
        PROVE  v \in V /\ h[v] = open_claim(c, id, v) /\ claim_of(n, ws[<<id, v>>]) = claim(v)
    <3>1. v \in V /\ v \notin c.erased /\ ws[<<id, v>>] = row(v)
      BY <1>5
    <3>2. row(v).curatorsw = votes[<<id, v>>].curatorsw
      BY <1>7, <3>1
    <3>3. claim_of(n, row(v)) = claim(v)
      <4> DEFINE r == row(v)
      <4> HIDE DEF m, r
      <4>1. claim_of(n, r) = claim_of(m, r)
        BY <1>8
      <4>2. claim_of(m, r) = claim_of(m, votes[<<id, v>>])
        BY <3>2 DEF claim_of, r
      <4> QED BY <4>1, <4>2 DEF r
    <3>4. h[v] = claim_of(n, ws[<<id, v>>]) - ws[<<id, v>>].paid_amount
      OBVIOUS
    <3>5. open_claim(c, id, v) = claim(v) - row(v).paid_amount
      BY <3>1 DEF open_claim
    <3> QED BY <3>1, <3>3, <3>4, <3>5
  <2> QED BY <2>1, <2>2, <2>3
<1>10. Total(h) = Total(f) /\ Total(f) \in Nat
  <2>1. /\ DOMAIN f = V /\ DOMAIN h = W /\ DOMAIN h \subseteq DOMAIN f
        /\ \A v \in DOMAIN f : f[v] \in Nat
        /\ \A v \in DOMAIN h : h[v] = f[v]
        /\ \A v \in DOMAIN f \ DOMAIN h : f[v] = 0
    BY <1>5, <1>9
  <2> HIDE DEF f, h
  <2>2. \A v \in DOMAIN f : f[v] \in Int
    BY <2>1
  <2>3. IsFiniteSet(DOMAIN f)
    BY <1>1, <2>1
  <2>4. Total(f) \in Nat
    BY <2>1, <2>3, TotalNat
  <2> QED BY <2>1, <2>2, <2>3, <2>4, TotalWithoutZeros
<1>11. m.paid_amount \in Nat /\ m.paid_amount + Total(f0) <= most(m)
  <2>1. m.paid_amount \in Int
    BY <1>1 DEF MessageRow
  <2>2. m.paid_amount >= 0
    BY <1>2 DEF ClaimsRight
  <2>3. m.paid_amount + Total(f0) <= most(m)
    BY <1>1, <1>2 DEF ClaimsRight
  <2> QED BY <2>1, <2>2, <2>3
<1>12. c.paid + Total(f) = Total(f0)
  BY <1>3
<1>13. most(m) \in Nat
  BY <1>1, MostNat
<1>14. m.paid_amount + c.paid + Total(h) <= most(m) /\ m.paid_amount + c.paid <= most(m)
  <2> HIDE DEF f, f0, h, m
  <2> QED BY <1>3, <1>10, <1>11, <1>12, <1>13
<1>15. ClaimsRight(n, ws, id)
  <2>1. n.paid_amount >= 0
    <3> HIDE DEF m
    <3> QED BY <1>3, <1>8, <1>11
  <2>2. n.sumcuratorsw = 0 => n.paid_amount = 0
    <3>1. ASSUME m.sumcuratorsw = 0 PROVE m.paid_amount = 0 /\ c.paid = 0
      BY <1>2, <1>3, <3>1 DEF ClaimsRight
    <3> HIDE DEF m
    <3> QED BY <1>8, <3>1
  <2>3. n.paid_amount + Total(h) <= most(n)
    <3> HIDE DEF m, h
    <3> QED BY <1>8, <1>14
  <2>4. \A v \in W : ws[<<id, v>>].paid_amount
                       + delegated(claim_of(n, ws[<<id, v>>]), ws[<<id, v>>].delegators)
                       <= claim_of(n, ws[<<id, v>>])
    <3> SUFFICES ASSUME NEW v \in W
                 PROVE  ws[<<id, v>>].paid_amount
                         + delegated(claim_of(n, ws[<<id, v>>]), ws[<<id, v>>].delegators)
                         <= claim_of(n, ws[<<id, v>>])
      OBVIOUS
    <3>1. ws[<<id, v>>] = row(v) /\ claim_of(n, ws[<<id, v>>]) = claim(v) /\ v \in V
      BY <1>5, <1>9
    <3>2. row(v).paid_amount + delegated(claim(v), row(v).delegators) <= claim(v)
      BY <1>7, <3>1
    <3> QED BY <3>1, <3>2
  <2> QED BY <2>1, <2>2, <2>3, <2>4 DEF ClaimsRight
<1>16. WeightsRight(n, ws, id)
  <2> DEFINE u == [v \in V |-> votes[<<id, v>>].curatorsw]
             w == [v \in W |-> ws[<<id, v>>].curatorsw]
  <2>1. \A v \in V : votes[<<id, v>>].curatorsw \in Nat
    BY <1>1 DEF VoteKnown
  <2>2. /\ DOMAIN u = V /\ DOMAIN w = W /\ DOMAIN w \subseteq DOMAIN u
        /\ (\A v \in DOMAIN u : u[v] \in Nat) /\ \A v \in DOMAIN w : w[v] = u[v]
    BY <1>5, <1>7, <2>1
  <2>3. Total(u) <= m.sumcuratorsw
    BY <1>1, <1>2 DEF WeightsRight
  <2>4. m.sumcuratorsw \in Int
    BY <1>1 DEF MessageRow
  <2> HIDE DEF u, w, m
  <2>5. Total(w) <= Total(u) /\ Total(w) \in Nat /\ Total(u) \in Nat
    BY <1>1, <2>2, TotalOfPart, TotalNat
  <2>6. Total(w) <= n.sumcuratorsw
    BY <1>8, <2>3, <2>4, <2>5
  <2> QED BY <2>6 DEF WeightsRight, w
<1> QED BY <1>5, <1>6, <1>8, <1>11, <1>14, <1>15, <1>16

----------------------------------------------------------------------------
(* A payment leaves what may be claimed *)

\* The votes ws differ from vs at most in those for one message.
SameBut(vs, ws, id) ==
  \A o, v : o # id => /\ <<o, v>> \in DOMAIN ws <=> <<o, v>> \in DOMAIN vs
                      /\ <<o, v>> \in DOMAIN ws => ws[<<o, v>>] = vs[<<o, v>>]

\* Votes that are written for one closed message leave those of the others
\* right.
LEMMA OthersRight ==
  ASSUME NEW ms, NEW vs, VotesRight(ms, vs), NEW id, NEW ns, NEW ws,
         \A o \in DOMAIN ns \ {id} : o \in DOMAIN ms /\ ns[o] = ms[o],
         SameBut(vs, ws, id),
         id \in DOMAIN ns => /\ closed(ns[id]) /\ WeightsRight(ns[id], ws, id)
                             /\ ClaimsRight(ns[id], ws, id)
  PROVE  VotesRight(ns, ws)
<1>1. ASSUME NEW o \in DOMAIN ns \ {id}
      PROVE  /\ WeightsRight(ns[o], ws, o)
             /\ IF closed(ns[o]) THEN ClaimsRight(ns[o], ws, o) ELSE Untouched(ws, o)
  <2> DEFINE S == VotersOf(vs, o)
  <2>1. ns[o] = ms[o] /\ VotersOf(ws, o) = S /\ \A v \in S : ws[<<o, v>>] = vs[<<o, v>>]
    BY DEF VotersOf, SameBut
  <2>2. /\ WeightsRight(ms[o], vs, o)
        /\ IF closed(ms[o]) THEN ClaimsRight(ms[o], vs, o) ELSE Untouched(vs, o)
    BY DEF VotesRight
  <2> HIDE DEF S
  <2>3. [v \in S |-> ws[<<o, v>>].curatorsw] = [v \in S |-> vs[<<o, v>>].curatorsw]
    BY <2>1
  <2>4. WeightsRight(ns[o], ws, o)
    BY <2>1, <2>2, <2>3 DEF WeightsRight, S
  <2>5. CASE closed(ms[o])
    <3>1. [v \in S |-> claim_of(ms[o], ws[<<o, v>>]) - ws[<<o, v>>].paid_amount]
            = [v \in S |-> claim_of(ms[o], vs[<<o, v>>]) - vs[<<o, v>>].paid_amount]
      BY <2>1
    <3>2. ClaimsRight(ms[o], vs, o)
      BY <2>2, <2>5
    <3>3. ClaimsRight(ms[o], ws, o)
      BY <2>1, <3>1, <3>2 DEF ClaimsRight, S
    <3> QED BY <2>1, <2>4, <2>5, <3>3
  <2>6. CASE ~closed(ms[o])
    <3>1. Untouched(ws, o)
      BY <2>1, <2>2, <2>6 DEF Untouched, S
    <3> QED BY <2>1, <2>4, <2>6, <3>1
  <2> QED BY <2>5, <2>6
<1> QED BY <1>1 DEF VotesRight

\* paymssgrwrd
LEMMA PayKnown ==
  ASSUME BooksInv, Known, NEW id, NEW sent, paymssgrwrd(id, sent)
  PROVE  Known'
<1> DEFINE m == messages[id]
<1>1. /\ id \in DOMAIN messages /\ closed(m) /\ UNCHANGED params
  BY PayForms
<1>2. PICK ord, c :
        /\ ord \in orders(id)
        /\ c = fill_curator_payouts(id, ord, curation_payout(m))
        /\ c.paid \in Int /\ unclaimed(m, c) \in Int
        /\ votes' = votes_left(id, c)
        /\ \/ last_payment(id, c) /\ unclaimed(m, c) >= 0 /\ pay_last(id, c, sent)
           \/ ~last_payment(id, c) /\ pay_some(id, c, sent)
  BY PayForms
<1>3. PayGood(c, id, voters(id))
  BY <1>1, <1>2, LoopGood
<1> DEFINE n == PaidRow(m, c.paid)
           ws == votes_left(id, c)
<1>4. /\ MessageKnown(n) /\ WeightsRight(n, ws, id) /\ ClaimsRight(n, ws, id)
      /\ \A k \in DOMAIN ws : k \in DOMAIN votes /\ VoteKnown(ws[k])
      /\ \A o, v : o # id => /\ <<o, v>> \in DOMAIN ws <=> <<o, v>> \in DOMAIN votes
                             /\ <<o, v>> \in DOMAIN ws => ws[<<o, v>>] = votes[<<o, v>>]
  BY <1>1, <1>3, LoopLeaves
<1>5. MessageRight(m) /\ closed(n)
  <2>1. MessageRight(m)
    BY <1>1, FewMessages DEF Books
  <2>2. m \in MessageRow
    BY <2>1 DEF MessageRight
  <2> HIDE DEF m
  <2>3. closed(n)
    BY <1>1, <2>2 DEF closed, PaidRow, MessageRow, m
  <2> QED BY <2>1, <2>3
<1> HIDE DEF ws
<1>6. /\ \A o \in DOMAIN messages' \ {id} : o \in DOMAIN messages /\ messages'[o] = messages[o]
      /\ id \in DOMAIN messages' => messages'[id] = n
      /\ \A p \in DOMAIN pools' : p \in DOMAIN pools /\ pools'[p].rules = pools[p].rules
  <2>1. CASE unclaimed(m, c) >= 0 /\ pay_last(id, c, sent)
    <3> DEFINE u == unclaimed(m, c)
    <3>1. messages' = Drop(messages, id) /\ pools' = fill_depleted_pool(pools, u)
      BY <2>1 DEF pay_last
    <3>2. u \in Nat
      BY <1>2, <2>1
    <3> HIDE DEF u
    <3>3. /\ DOMAIN pools' = DOMAIN pools
          /\ \A p \in DOMAIN pools : pools'[p].rules = pools[p].rules
      <4>1. \A p \in DOMAIN pools : IsPool(pools[p])
        BY DEF BooksInv, Shapes
      <4> QED BY <3>1, <3>2, <4>1, FillFunds
    <3> QED BY <3>1, <3>3 DEF Drop
  <2>2. CASE pay_some(id, c, sent)
    <3>1. messages' = [messages EXCEPT ![id].paid_amount = @ + c.paid] /\ UNCHANGED pools
      BY <2>2 DEF pay_some
    <3> QED BY <1>1, <3>1 DEF PaidRow
  <2> QED BY <1>2, <2>1, <2>2
<1> HIDE DEF n
<1>7. VotesRight(messages', votes')
  <2>1. id \in DOMAIN messages' => /\ closed(messages'[id])
                                   /\ WeightsRight(messages'[id], ws, id)
                                   /\ ClaimsRight(messages'[id], ws, id)
    BY <1>4, <1>5, <1>6
  <2>2. VotesRight(messages, votes)
    BY DEF Known
  <2> DEFINE ns == messages'
  <2>3. \A o \in DOMAIN ns \ {id} : o \in DOMAIN messages /\ ns[o] = messages[o]
    BY <1>6
  <2>4. id \in DOMAIN ns => /\ closed(ns[id]) /\ WeightsRight(ns[id], ws, id)
                            /\ ClaimsRight(ns[id], ws, id)
    BY <2>1
  <2>5. SameBut(votes, ws, id)
    BY <1>4 DEF SameBut
  <2> HIDE DEF ns
  <2>6. VotesRight(ns, ws)
    BY <2>2, <2>3, <2>4, <2>5, OthersRight
  <2> QED BY <1>2, <2>6 DEF ws, ns
<1>8. RowsKnown(pools', messages', votes')
  <2>1. \A k \in DOMAIN votes' : VoteKnown(votes'[k])
    BY <1>2, <1>4 DEF ws
  <2>2. \A o \in DOMAIN messages' : MessageKnown(messages'[o])
    BY <1>4, <1>6 DEF Known, RowsKnown
  <2>3. \A p \in DOMAIN pools' : PoolKnown(pools'[p])
    BY <1>6 DEF Known, RowsKnown, PoolKnown
  <2> QED BY <2>1, <2>2, <2>3 DEF RowsKnown
<1>9. PrcntsKnown'
  BY <1>1 DEF Known, PrcntsKnown
<1> QED BY <1>7, <1>8, <1>9 DEF Known

\* Nothing is there at the start.
LEMMA StartKnown ==
  ASSUME Init
  PROVE  Known
<1>1. pools = EmptyTable /\ messages = EmptyTable /\ votes = EmptyTable /\ params = NoParams
  BY DEF Init
<1>2. DOMAIN EmptyTable = {}
  BY DEF EmptyTable
<1> QED BY <1>1, <1>2 DEF Known, PrcntsKnown, RowsKnown, VotesRight

\* Every step keeps what is known of the rows and what votes may claim.
LEMMA StepKnown == RulesRise /\ BooksInv /\ Known /\ [Next]_vars => Known'
<1> SUFFICES ASSUME RulesRise, BooksInv, Known, [Next]_vars PROVE Known'
  OBVIOUS
<1>1. ASSUME UNCHANGED <<params, pools, messages, votes>>
      PROVE  Known'
  BY <1>1, QuietKnown
<1>2. CASE Messages
  <2>1. ASSUME NEW author \in Account, NEW link \in Link,
               NEW parent \in DOMAIN permlinks \union {Root},
               NEW map \in Beneficiaries, NEW t \in TokenProps, NEW c \in CuratorPrcnts,
               NEW x \in MaxPayouts, createmssg(author, link, parent, map, t, c, x)
        PROVE  Known'
    BY <2>1, CreateKnown
  <2>2. ASSUME NEW author \in Account, NEW link \in Link,
               NEW parent \in DOMAIN permlinks \union {Root}, NEW import \in Imports,
               addpermlink(author, link, parent, import)
        PROVE  Known'
    BY <1>1, <2>2 DEF addpermlink, settings
  <2> QED BY <1>2, <2>1, <2>2 DEF Messages
<1>3. CASE Changes
  <2>1. ASSUME NEW id \in DOMAIN permlinks,
               \/ delpermlink(id)
               \/ deletemssg(id)
               \/ \E c \in CuratorPrcnts : setcurprcnt(id, c)
               \/ \E x \in MaxPayouts : setmaxpayout(id, x)
        PROVE  Known'
    <3>1. CASE delpermlink(id)
      BY <1>1, <3>1 DEF delpermlink, settings
    <3>2. CASE deletemssg(id)
      BY <3>2, DeleteKnown
    <3>3. CASE \/ \E c \in CuratorPrcnts : setcurprcnt(id, c)
               \/ \E x \in MaxPayouts : setmaxpayout(id, x)
      BY <3>3, ChangeKnown
    <3> QED BY <2>1, <3>1, <3>2, <3>3
  <2> QED BY <1>3, <2>1 DEF Changes
<1>4. CASE Voting
  <2>1. PICK voter \in Account, id \in DOMAIN messages, weight \in -Whole .. Whole :
          set_vote(voter, id, weight)
    BY <1>4, VotingForms
  <2> QED BY <2>1, VoteKeepsKnown
<1>5. CASE Paying
  <2>1. CASE \E id \in DOMAIN messages : paymssgrwrd(id, deferred)
    BY <2>1, PayKnown
  <2>2. ASSUME NEW id \in DOMAIN deferred, run_deferred(id)
        PROVE  Known'
    <3> DEFINE sent == Drop(deferred, id)
    <3>1. close(sent) \/ paymssgrwrd(id, sent) \/ deletevotes(id, sent)
      BY <2>2 DEF run_deferred
    <3> HIDE DEF sent
    <3> QED BY <3>1, CloseKeepsKnown, PayKnown, EraseKnown
  <2>3. CASE \E id \in DOMAIN deferred : lose_deferred(id)
    BY <1>1, <2>3 DEF lose_deferred, settings
  <2>4. CASE close(deferred)
    BY <2>4, CloseKeepsKnown
  <2>5. CASE \E q \in Fund : on_transfer(q)
    BY <2>5, TransferKnown
  <2> QED BY <1>5, <2>1, <2>2, <2>3, <2>4, <2>5 DEF Paying
<1>6. CASE Settings
  <2>1. CASE \E batch \in ParamBatches : setparams(batch)
    BY <2>1, SetparamsKnown
  <2>2. CASE \E act \in DOMAIN LimitRows : \E row \in LimitRows[act] : setlimit(act, row)
    BY <1>1, <2>2 DEF setlimit
  <2>3. CASE \E rules \in RuleSets : setrules(rules)
    BY <2>3, RulesKnown
  <2>4. CASE syncpool
    BY <2>4, SyncKnown
  <2> QED BY <1>6, <2>1, <2>2, <2>3, <2>4 DEF Settings
<1>7. CASE Others \/ Tick \/ UNCHANGED vars
  <2>1. UNCHANGED <<params, pools, messages, votes>>
    <3>1. CASE Others
      BY <3>1 DEF Others, posting
    <3>2. CASE Tick
      BY <3>2 DEF Tick, settings
    <3>3. CASE UNCHANGED vars
      BY <3>3 DEF vars, settings
    <3> QED BY <1>7, <3>1, <3>2, <3>3
  <2> QED BY <1>1, <2>1
<1> QED BY <1>2, <1>3, <1>4, <1>5, <1>6, <1>7 DEF Next

\* Where the functions of the rules never fall, the rows are known, and what the
\* votes for a message may still claim is there, whatever was voted, closed and
\* paid, in whatever order.
THEOREM KnownInductive ==
  ASSUME RulesRise
  PROVE  Spec => []Known
<1>1. Init => Known
  BY StartKnown
<1>2. Spec => Init /\ [][Next]_vars
  BY PTL DEF Spec
<1>3. BooksInv /\ Known /\ [Next]_vars => Known'
  BY StepKnown
<1> QED BY <1>1, <1>2, <1>3, BooksInductive, PTL

----------------------------------------------------------------------------
(* No payment fails a check *)

\* A part of a number, in parts of Whole, is not more than the number.
LEMMA PartOfWhole ==
  ASSUME NEW x \in Nat, NEW p \in 0 .. Whole
  PROVE  (p * x) \div Whole \in 0 .. x
<1>1. Whole \in Nat \ {0}
  BY AmountsAssumption
<1> DEFINE y == p * x
           q == y \div Whole
<1>2. y \in Nat /\ y <= Whole * x
  BY <1>1
<1> HIDE DEF y
<1>3. q \in Nat /\ Whole * q <= y
  BY <1>1, <1>2
<1> HIDE DEF q
<1>4. q <= x
  <2> SUFFICES ASSUME q > x PROVE FALSE
    BY <1>3
  <2>1. q >= x + 1
    BY <1>3
  <2>2. Whole * q >= Whole * (x + 1)
    BY <1>1, <1>3, <2>1
  <2>3. Whole * (x + 1) = Whole * x + Whole
    BY <1>1
  <2> QED BY <1>1, <1>2, <1>3, <2>2, <2>3
<1> QED BY <1>3, <1>4 DEF q, y

\* The beneficiaries of a message take no more than there is for them.
LEMMA BeneficiariesFit ==
  ASSUME NEW m \in MessageRow, Total(m.beneficiaries) <= Whole,
         m.mssg_reward - curation_payout(m) \in Nat
  PROVE  beneficiaries_fit(m)
<1> DEFINE map == m.beneficiaries
           S == DOMAIN map
           rest == m.mssg_reward - curation_payout(m)
           g == [a \in S |-> (rest * map[a]) \div Whole]
<1>1. \E T \in SUBSET Account : map \in [T -> 0 .. Whole]
  BY DEF MessageRow
<1>2. IsFiniteSet(S) /\ \A a \in S : map[a] \in Nat
  <2>1. PICK T \in SUBSET Account : map \in [T -> 0 .. Whole]
    BY <1>1
  <2>2. S = T /\ \A a \in S : map[a] \in 0 .. Whole
    BY <2>1
  <2>3. IsFiniteSet(Account) /\ S \subseteq Account
    BY <2>2, BoundsAssumption
  <2>4. IsFiniteSet(S)
    BY <2>3, FS_Subset
  <2> QED BY <2>2, <2>4, AmountsAssumption
<1>3. SumOver(map, S) <= Whole
  BY DEF Total
<1>4. \A a \in S : map[a] \in Nat /\ g[a] = (rest * map[a]) \div Whole
  BY <1>2
<1>5. rest \in Nat /\ Whole \in Nat \ {0}
  BY AmountsAssumption
<1>6. beneficiaries_fit(m) <=> SumOver(g, S) <= rest
  BY DEF beneficiaries_fit, Total
<1> HIDE DEF map, S, rest, g
<1>7. SumOver(g, S) <= rest
  BY <1>2, <1>3, <1>4, <1>5, PartsFit
<1> QED BY <1>6, <1>7

\* paymssgrwrd on a message that is closed
LEMMA PaymentSound ==
  ASSUME BooksInv, Known, Places, NEW id \in DOMAIN messages, closed(messages[id]),
         ~astray.dealt, NEW ord \in orders(id)
  PROVE  payment_sound(id, ord)
<1> DEFINE m == messages[id]
           cp == curation_payout(m)
           c == fill_curator_payouts(id, ord, cp)
<1>1. /\ m \in MessageRow /\ MessageKnown(m) /\ Total(m.beneficiaries) <= Whole
      /\ m.mssg_reward \in Int /\ m.mssg_reward >= 0
  <2>1. m \in MessageRow /\ Total(m.beneficiaries) <= Whole
    BY DEF BooksInv, Shapes, BeneficiariesSound
  <2>2. m.mssg_reward >= 0
    BY DEF Places, Placed, Solvent
  <2>3. m.mssg_reward \in Int
    BY <2>1 DEF MessageRow
  <2> QED BY <2>1, <2>2, <2>3 DEF Known, RowsKnown
<1>2. cp \in 0 .. m.mssg_reward
  <2> DEFINE x == m.mssg_reward
             p == m.curators_prcnt
  <2>1. x \in Nat /\ p \in 0 .. Whole
    BY <1>1 DEF MessageKnown
  <2>2. cp = (p * x) \div Whole
    BY DEF curation_payout
  <2> HIDE DEF x, p, cp
  <2>3. cp \in 0 .. x
    BY <2>1, <2>2, PartOfWhole
  <2> QED BY <2>3 DEF x
<1>3. PayGood(c, id, voters(id))
  BY LoopGood
<1>4. /\ m.paid_amount \in Nat /\ m.paid_amount + c.paid <= most(m)
  <2> HIDE DEF c
  <2> DEFINE n == PaidRow(m, c.paid)
             ws == votes_left(id, c)
  <2>1. n = PaidRow(messages[id], c.paid) /\ ws = votes_left(id, c)
    OBVIOUS
  <2> HIDE DEF n, ws
  <2> QED BY <1>3, <2>1, LoopLeaves
<1>5. c.ok /\ c.paid \in Nat
  <2> HIDE DEF c
  <2> QED BY <1>3 DEF PayGood
<1>6. most(m) = cp
  BY <1>1, <1>2 DEF most
<1>7. unclaimed(m, c) = cp - (c.paid + m.paid_amount)
  BY DEF unclaimed
<1>8. m.mssg_reward - cp \in Nat
  <2> HIDE DEF m, cp
  <2> QED BY <1>1, <1>2
<1>9. beneficiaries_fit(m)
  <2> HIDE DEF m
  <2> QED BY <1>1, <1>8, BeneficiariesFit DEF cp
<1>10. payment_sound(id, ord) <=>
         /\ cp >= 0 /\ cp <= m.mssg_reward /\ c.ok
         /\ last_payment(id, c) => unclaimed(m, c) >= 0 /\ beneficiaries_fit(m)
  BY DEF payment_sound
<1> HIDE DEF m, c, cp
<1>11. unclaimed(m, c) >= 0
  BY <1>1, <1>2, <1>4, <1>5, <1>6, <1>7
<1>12. cp >= 0 /\ cp <= m.mssg_reward
  BY <1>1, <1>2
<1> QED BY <1>5, <1>9, <1>10, <1>11, <1>12

\* However many transactions a payment takes, and whatever curators and their
\* delegators claim, no check of paymssgrwrd fails until unpaid rewards are dealt
\* out again, where the functions of the rules never fall.
THEOREM PaymentsStayComplete ==
  ASSUME RulesRise
  PROVE  Spec => []PaymentsComplete
<1>1. BooksInv /\ Known /\ Places => PaymentsComplete
  BY PaymentSound DEF PaymentsComplete
<1>2. Spec => []Known
  BY KnownInductive
<1> QED BY <1>1, <1>2, BooksInductive, PlacesInductive, PTL

----------------------------------------------------------------------------
(* Closing never aborts *)

\* Where nothing is astray and nothing weighs as nothing, every message due has
\* its pool, which knows its rules.
LEMMA AllReady ==
  ASSUME BooksInv, Known, Places, nothing_astray, \A p \in DOMAIN pools : grounded(p)
  PROVE  Ready(pools)
<1>1. Placed(pools, messages, astray) /\ RowsKnown(pools, messages, votes)
  BY DEF Places, Known
<1>2. Funded(pools)
  BY <1>1 DEF Placed, Solvent, Funded, nothing_astray
<1>3. ASSUME NEW id \in closing
      PROVE  LET p == messages[id].pool_date IN
             /\ p \in DOMAIN pools /\ PoolKnown(pools[p]) /\ pools[p].rules.mainfunc[0] = 0
             /\ at(astray.msgs, p) = 0 /\ at(astray.shares, p) = 0
  <2> DEFINE p == messages[id].pool_date
  <2>1. id \in DOMAIN messages /\ ~closed(messages[id])
    BY DEF closing, due
  <2>2. at(astray.msgs, p) = 0 /\ at(astray.shares, p) = 0
    BY <2>1 DEF nothing_astray
  <2>3. p \in DOMAIN pools
    BY <1>1, <2>1, <2>2 DEF Placed, Pooled
  <2>4. PoolKnown(pools[p]) /\ pools[p].rules.mainfunc[0] = 0
    BY <1>1, <2>3 DEF RowsKnown, grounded
  <2> QED BY <2>2, <2>3, <2>4
<1> QED BY <1>2, <1>3 DEF Ready

\* Then no check of closemssgs fails, and every payment has a free sender id.
LEMMA ClosingSound ==
  ASSUME BooksInv, Known, Places, params # NoParams, nothing_astray,
         \A p \in DOMAIN pools : grounded(p)
  PROVE  closemssgs(pools, deferred).ok
<1>1. Ready(pools)
  BY AllReady
<1>2. PoolsRight(pools)
  <2> DEFINE b == balance + astray.funds
  <2>1. Books(pools, messages, astray, b, now)
    BY FewMessages
  <2> HIDE DEF b
  <2>2. \A p : OpenIn(messages, p) = open_in(p) \ {}
    BY DEF OpenIn, open_in
  <2> QED BY <2>1, <2>2 DEF PoolsRight, Books, Counted, Summed, CountedBut, SharedBut
<1>3. LoopState(close_all(pools), pools, closing)
  BY <1>2, LoopEnds DEF BooksInv
<1>4. close_all(pools).ok
  BY <1>1, <1>3 DEF LoopState
<1>5. closing \intersect DOMAIN deferred = {}
  <2>1. \A id \in closing : id \in DOMAIN messages /\ ~closed(messages[id])
    BY DEF closing, due
  <2> QED BY <2>1 DEF Places, Unsent
<1>6. closemssgs(pools, deferred).ok =
        (params # NoParams /\ close_all(pools).ok /\ closing \intersect DOMAIN deferred = {})
  BY DEF closemssgs
<1> QED BY <1>4, <1>5, <1>6

\* Votes, posts and transfers, which close what is due first, never fail in that,
\* until a message with shares or a closed one was deleted or unpaid rewards were
\* dealt out again, where the functions of the rules never fall and give nothing
\* for nothing.
THEOREM ClosingStaysSound ==
  ASSUME RulesRise
  PROVE  Spec => []ClosingNeverAborts
<1>1. BooksInv /\ Known /\ Places => ClosingNeverAborts
  BY ClosingSound DEF ClosingNeverAborts
<1>2. Spec => []Known
  BY KnownInductive
<1> QED BY <1>1, <1>2, BooksInductive, PlacesInductive, PTL

----------------------------------------------------------------------------
(* Rewards are paid as module Rewards says *)

\* Of the messages ms and what they became, those that are closed: their rewards
\* and what was paid of them stay; nothing was paid of one that is newly closed.
RewardsKept(ms, ns) ==
  /\ \A id \in DOMAIN ms :
       closed(ms[id]) => /\ id \in DOMAIN ns /\ closed(ns[id])
                         /\ ns[id].mssg_reward = ms[id].mssg_reward
                         /\ ns[id].paid_amount = ms[id].paid_amount
  /\ \A id \in DOMAIN ns :
       closed(ns[id]) => /\ id \in DOMAIN ms
                         /\ ~closed(ms[id]) => ns[id].paid_amount = 0

\* No id is given up, at most one is new.
IdsKept(ms, ns, l, k) ==
  \/ DOMAIN ns = DOMAIN ms /\ k = l
  \/ DOMAIN ns = DOMAIN ms \union {l + 1} /\ k = l + 1

\* What is due by id
LEMMA DueRows ==
  /\ DOMAIN rewards_due = {id \in DOMAIN messages : closed(messages[id])}
  /\ \A id \in DOMAIN rewards_due :
       /\ rewards_due[id] = [reward |-> messages[id].mssg_reward, paid |-> messages[id].paid_amount]
       /\ rewards_due[id].reward = messages[id].mssg_reward
       /\ rewards_due[id].paid = messages[id].paid_amount
BY DEF rewards_due

\* A step that pays nothing may only fix rewards.
LEMMA PromiseStep ==
  ASSUME IInv, Settlement, RewardsKept(messages, messages'),
         IdsKept(messages, messages', last_id, last_id'), given' = given, balance' >= balance
  PROVE  R!Promise
<1>1. /\ last_id \in Nat /\ DOMAIN messages \subseteq 1 .. last_id
      /\ DOMAIN given \subseteq 1 .. last_id /\ DOMAIN given \intersect DOMAIN messages = {}
  BY DEF IInv, Keys, Settlement
<1>2. given_up' = given_up
  <2>1. CASE DOMAIN messages' = DOMAIN messages /\ last_id' = last_id
    BY <2>1 DEF given_up
  <2>2. CASE DOMAIN messages' = DOMAIN messages \union {last_id + 1} /\ last_id' = last_id + 1
    <3> DEFINE l == last_id + 1
               I == 1 .. last_id
    <3>1. 1 .. last_id' = I \union {l} /\ l \notin I
      BY <1>1, <2>2
    <3>2. DOMAIN messages' = DOMAIN messages \union {l}
      BY <2>2
    <3> HIDE DEF l, I
    <3>3. \A id : id \in given_up' <=> id \in given_up
      BY <3>1, <3>2 DEF given_up, I
    <3> QED BY <3>3 DEF given_up
  <2> QED BY <2>1, <2>2 DEF IdsKept
<1>3. /\ DOMAIN rewards_due' = {id \in DOMAIN messages' : closed(messages'[id])}
      /\ \A id \in DOMAIN rewards_due' :
           /\ rewards_due'[id] = [reward |-> messages'[id].mssg_reward,
                                  paid |-> messages'[id].paid_amount]
           /\ rewards_due'[id].paid = messages'[id].paid_amount
  BY DEF rewards_due
<1>4. DOMAIN rewards_due \subseteq DOMAIN rewards_due'
  BY <1>3, DueRows DEF RewardsKept
<1>5. \A id \in DOMAIN rewards_due : rewards_due'[id] = rewards_due[id]
  BY <1>3, <1>4, DueRows DEF RewardsKept
<1>6. \A id \in DOMAIN rewards_due' \ DOMAIN rewards_due :
        id \notin DOMAIN given \union given_up /\ rewards_due'[id].paid = 0
  <2> SUFFICES ASSUME NEW id \in DOMAIN rewards_due' \ DOMAIN rewards_due
               PROVE  id \notin DOMAIN given \union given_up /\ rewards_due'[id].paid = 0
    OBVIOUS
  <2>1. id \in DOMAIN messages /\ ~closed(messages[id]) /\ rewards_due'[id].paid = 0
    BY <1>3, DueRows DEF RewardsKept
  <2> QED BY <1>1, <2>1 DEF given_up
<1> QED BY <1>2, <1>4, <1>5, <1>6 DEF R!Promise

\* Closing fixes rewards, of messages that were paid nothing.
LEMMA ClosingRewards ==
  ASSUME BooksInv, NEW ps, NEW b \in Int, Books(ps, messages, astray, b, now),
         NEW sent, NEW c, c = closemssgs(ps, sent), c.ok
  PROVE  RewardsKept(messages, c.messages) /\ DOMAIN c.messages = DOMAIN messages
<1> DEFINE ms == c.messages
<1>1. /\ DOMAIN ms = DOMAIN messages /\ closing \subseteq due
      /\ \A id \in DOMAIN messages \ closing : ms[id] = messages[id]
      /\ \A id \in closing : \E r \in Int : ClosedRow(ms[id], messages[id], r)
  BY ClosingDoes
<1> HIDE DEF ms
<1>2. \A id \in closing : id \in DOMAIN messages /\ ~closed(messages[id])
  BY <1>1 DEF due, closed
<1>3. ASSUME NEW id \in closing
      PROVE  ms[id].paid_amount = 0
  <2>1. PICK r \in Int : ClosedRow(ms[id], messages[id], r)
    BY <1>1
  <2>2. messages[id] \in MessageRow /\ messages[id].paid_amount = 0
    BY <1>2 DEF BooksInv, Shapes, NothingPaid
  <2> DEFINE m == messages[id]
             n == ms[id]
  <2>3. m \in MessageRow /\ ClosedRow(n, m, r) /\ m.paid_amount = 0
    BY <2>1, <2>2
  <2> HIDE DEF m, n
  <2>4. n.paid_amount = m.paid_amount
    BY <2>3, MessageClosed
  <2> QED BY <2>3, <2>4 DEF n
<1>4. RewardsKept(messages, ms)
  <2>1. ASSUME NEW id \in DOMAIN messages, closed(messages[id])
        PROVE  id \in DOMAIN ms /\ ms[id] = messages[id]
    BY <1>1, <1>2, <2>1
  <2>2. ASSUME NEW id \in DOMAIN ms, ~closed(messages[id]), closed(ms[id])
        PROVE  ms[id].paid_amount = 0
    BY <1>1, <1>3, <2>2
  <2> QED BY <1>1, <2>1, <2>2 DEF RewardsKept
<1> QED BY <1>1, <1>4 DEF ms

\* closemssgs, and closing before a vote or a post
LEMMA ClosedRewards ==
  ASSUME BooksInv, NEW sent, NEW c, c = closemssgs(pools, sent), c.ok
  PROVE  RewardsKept(messages, c.messages) /\ DOMAIN c.messages = DOMAIN messages
<1> DEFINE b == balance + astray.funds
<1>1. Books(pools, messages, astray, b, now) /\ b \in Int
  BY FewMessages
<1> HIDE DEF b
<1> QED BY <1>1, ClosingRewards

\* Steps after which the messages have the rewards they had
LEMMA QuietRewards ==
  ASSUME BooksInv, Settlement, DOMAIN messages' = DOMAIN messages,
         \A id \in DOMAIN messages :
           /\ messages'[id].cashout_time = messages[id].cashout_time
           /\ messages'[id].mssg_reward = messages[id].mssg_reward
           /\ messages'[id].paid_amount = messages[id].paid_amount,
         UNCHANGED <<last_id, given>>, balance' = balance
  PROVE  R!Promise
<1>1. RewardsKept(messages, messages')
  BY DEF RewardsKept, closed
<1>2. balance' >= balance
  BY FewMessages
<1>3. IdsKept(messages, messages', last_id, last_id')
  BY DEF IdsKept
<1> QED BY <1>1, <1>2, <1>3, PromiseStep DEF BooksInv

\* closemssgs by itself
LEMMA CloseRewards ==
  ASSUME BooksInv, Settlement, NEW sent, close(sent)
  PROVE  R!Promise
<1> DEFINE c == closemssgs(pools, sent)
<1>1. /\ c.ok /\ messages' = c.messages /\ UNCHANGED <<last_id, given, balance>>
  BY DEF close, history
<1>2. c = closemssgs(pools, sent)
  OBVIOUS
<1> HIDE DEF c
<1>3. RewardsKept(messages, messages') /\ DOMAIN messages' = DOMAIN messages
  BY <1>1, <1>2, ClosedRewards
<1>4. balance' >= balance
  BY <1>1, FewMessages
<1>5. IdsKept(messages, messages', last_id, last_id')
  BY <1>1, <1>3 DEF IdsKept
<1> QED BY <1>1, <1>3, <1>4, <1>5, PromiseStep DEF BooksInv

\* Tokens that come in
LEMMA TransferRewards ==
  ASSUME BooksInv, Settlement, NEW quantity \in Fund, on_transfer(quantity)
  PROVE  R!Promise
<1> DEFINE ps == fill_depleted_pool(pools, quantity)
           c == closemssgs(ps, deferred)
           b == balance + astray.funds
           e == b + quantity
<1>1. /\ c.ok /\ messages' = c.messages /\ balance' = balance + quantity
      /\ UNCHANGED <<last_id, given>>
  BY DEF on_transfer, history
<1>2. quantity \in Nat
  BY AmountsAssumption
<1>3. /\ Books(pools, messages, astray, b, now) /\ b \in Int /\ now \in Nat
      /\ IsFiniteSet(DOMAIN messages)
  BY FewMessages
<1> HIDE DEF b
<1>4. Books(ps, messages, astray, e, now) /\ e \in Int
  BY <1>2, <1>3, FillKeeps
<1>5. c = closemssgs(ps, deferred)
  OBVIOUS
<1> HIDE DEF ps, e, c
<1>6. RewardsKept(messages, messages') /\ DOMAIN messages' = DOMAIN messages
  BY <1>1, <1>4, <1>5, ClosingRewards
<1>7. balance' >= balance
  BY <1>1, <1>2, FewMessages
<1>8. IdsKept(messages, messages', last_id, last_id')
  BY <1>1, <1>6 DEF IdsKept
<1> QED BY <1>1, <1>6, <1>7, <1>8, PromiseStep DEF BooksInv

\* set_vote
LEMMA VoteRewards ==
  ASSUME BooksInv, Settlement, NEW voter \in Account, NEW id \in DOMAIN messages,
         NEW weight \in Int, set_vote(voter, id, weight)
  PROVE  R!Promise
<1> DEFINE c == closemssgs(pools, deferred)
<1>0. c = closemssgs(pools, deferred)
  OBVIOUS
<1> HIDE DEF c
<1>1. c.ok /\ UNCHANGED <<last_id, balance, given>>
  BY <1>0, VoteForms DEF history
<1>2. /\ c.messages[id] = messages[id] /\ ~closed(messages[id])
      /\ DOMAIN messages' = DOMAIN c.messages
      /\ \A o \in DOMAIN c.messages \ {id} : messages'[o] = c.messages[o]
      /\ \E x, y, z \in Int : messages'[id] = VotedRow(messages[id], x, y, z)
  BY <1>0, VoteLeaves
<1>3. RewardsKept(messages, c.messages) /\ DOMAIN c.messages = DOMAIN messages
  BY <1>0, <1>1, ClosedRewards
<1>4. ~closed(messages'[id])
  <2> DEFINE m == messages[id]
             n == messages'[id]
  <2>1. PICK x \in Int, y \in Int, z \in Int : n = VotedRow(m, x, y, z)
    BY <1>2
  <2>2. m \in MessageRow /\ ~closed(m)
    BY <1>2 DEF BooksInv, Shapes
  <2> HIDE DEF m, n
  <2>3. n.cashout_time = m.cashout_time
    BY <2>1, <2>2, VotedFields
  <2> QED BY <2>2, <2>3 DEF n, closed
<1>5. RewardsKept(messages, messages')
  BY <1>2, <1>3, <1>4 DEF RewardsKept
<1>6. balance' >= balance
  BY <1>1, FewMessages
<1>7. IdsKept(messages, messages', last_id, last_id')
  BY <1>1, <1>2, <1>3 DEF IdsKept
<1> QED BY <1>1, <1>5, <1>6, <1>7, PromiseStep DEF BooksInv

\* A new message has a new id, and no reward.
LEMMA CreateRewards ==
  ASSUME BooksInv, Settlement, NEW author, NEW link, NEW parent, NEW map, NEW tokenprop,
         NEW prcnt, NEW payout,
         createmssg(author, link, parent, map, tokenprop, prcnt, payout)
  PROVE  R!Promise
<1> DEFINE c    == closemssgs(pools, deferred)
           act  == IF parent = Root THEN "post" ELSE "comment"
           used == charged(charges, author, act, limits[act].price)
           id   == last_id + 1
           row(bens) ==
             [date |-> now, pool_date |-> last_pool(c.pools), tokenprop |-> tokenprop,
              beneficiaries |-> bens,
              rewardweight |-> IF parent = Root THEN reward_weight(used, author) ELSE Whole,
              netshares |-> 0, voteshares |-> 0, sumcuratorsw |-> 0,
              curators_prcnt |-> prcnt, cashout_time |-> now + params.cashout_window.window,
              mssg_reward |-> 0, max_payout |-> payout, paid_amount |-> 0]
<1>1. /\ params # NoParams /\ c.ok /\ last_id' = id /\ UNCHANGED <<given, balance>>
      /\ \E bens : messages' = Put(c.messages, id, row(bens))
  BY DEF createmssg, history
<1>2. PICK bens : messages' = Put(c.messages, id, row(bens))
  BY <1>1
<1> DEFINE n == row(bens)
<1>3. messages' = Put(c.messages, id, n) /\ n.cashout_time = now + params.cashout_window.window
  BY <1>2
<1>4. c = closemssgs(pools, deferred)
  OBVIOUS
<1> HIDE DEF c, n
<1>5. RewardsKept(messages, c.messages) /\ DOMAIN c.messages = DOMAIN messages
  BY <1>1, <1>4, ClosedRewards
<1>6. ~closed(n)
  <2>1. params.cashout_window.window \in Nat /\ now \in Nat
    BY <1>1, FewMessages DEF IInv, WindowSound
  <2>2. \A x, y \in Nat : x + y # -1
    OBVIOUS
  <2> QED BY <1>3, <2>1, <2>2 DEF closed, Never
<1>7. id \notin DOMAIN messages
  BY FewMessages DEF IInv, Keys
<1> DEFINE ns == messages'
<1>8. /\ DOMAIN ns = DOMAIN messages \union {id} /\ ns[id] = n
      /\ \A o \in DOMAIN messages : ns[o] = c.messages[o]
  BY <1>3, <1>5, <1>7 DEF Put
<1>9. IdsKept(messages, ns, last_id, last_id')
  BY <1>1, <1>8 DEF IdsKept
<1> HIDE DEF id, ns
<1>10. RewardsKept(messages, ns)
  BY <1>5, <1>6, <1>7, <1>8 DEF RewardsKept
<1>11. balance' >= balance
  BY <1>1, FewMessages
<1> QED BY <1>1, <1>9, <1>10, <1>11, PromiseStep DEF BooksInv, ns

\* setcurprcnt, setmaxpayout
LEMMA ChangeRewards ==
  ASSUME BooksInv, Settlement, NEW id,
         \/ \E c \in CuratorPrcnts : setcurprcnt(id, c)
         \/ \E x \in MaxPayouts : setmaxpayout(id, x)
  PROVE  R!Promise
<1>1. /\ id \in DOMAIN messages /\ UNCHANGED <<last_id, given, balance>>
      /\ \/ \E c : messages' = [messages EXCEPT ![id].curators_prcnt = c]
         \/ \E x : messages' = [messages EXCEPT ![id].max_payout = x]
  BY DEF setcurprcnt, setmaxpayout, history
<1>2. \A o \in DOMAIN messages : messages[o] \in MessageRow
  BY DEF BooksInv, Shapes
<1>3. /\ DOMAIN messages' = DOMAIN messages
      /\ \A o \in DOMAIN messages :
           /\ messages'[o].cashout_time = messages[o].cashout_time
           /\ messages'[o].mssg_reward = messages[o].mssg_reward
           /\ messages'[o].paid_amount = messages[o].paid_amount
  BY <1>1, <1>2 DEF MessageRow
<1> QED BY <1>1, <1>3, QuietRewards

\* Without a message there is nothing due for it.
LEMMA DueDropped ==
  ASSUME NEW id, DOMAIN messages' = DOMAIN messages \ {id},
         \A o \in DOMAIN messages' : messages'[o] = messages[o]
  PROVE  rewards_due' = R!Drop(rewards_due, id)
<1> DEFINE S == {o \in DOMAIN messages : closed(messages[o])}
           T == {o \in DOMAIN messages' : closed(messages'[o])}
           row(o) == [reward |-> messages[o].mssg_reward, paid |-> messages[o].paid_amount]
           next(o) == [reward |-> messages'[o].mssg_reward, paid |-> messages'[o].paid_amount]
<1>1. T = S \ {id}
  OBVIOUS
<1>2. \A o \in T : next(o) = row(o)
  OBVIOUS
<1>3. rewards_due = [o \in S |-> row(o)] /\ rewards_due' = [o \in T |-> next(o)]
  BY DEF rewards_due
<1> HIDE DEF S, T, row, next
<1>4. rewards_due' = [o \in S \ {id} |-> row(o)]
  BY <1>1, <1>2, <1>3
<1> QED BY <1>3, <1>4 DEF R!Drop

\* A message that goes with its permlink is given up, as is a permlink that comes
\* without a message.
LEMMA GiveUpStep ==
  ASSUME IInv, Settlement, NEW id \in 1 .. MaxId,
         \/ /\ id \in DOMAIN messages /\ (closed(messages[id]) => messages[id].mssg_reward = 0)
            /\ messages' = Drop(messages, id) /\ last_id' = last_id
         \/ id = last_id + 1 /\ messages' = messages /\ last_id' = last_id + 1,
         UNCHANGED <<given, balance>>
  PROVE  R!GiveUp(id)
<1>1. /\ last_id \in Nat /\ DOMAIN messages \subseteq 1 .. last_id /\ id \in Nat
      /\ DOMAIN given \subseteq 1 .. last_id /\ DOMAIN given \intersect DOMAIN messages = {}
  BY DEF IInv, Keys, Settlement
<1>2. id \notin DOMAIN given \union given_up
  BY <1>1 DEF given_up
<1>3. id \in DOMAIN rewards_due => rewards_due[id].reward = 0
  BY <1>1, DueRows
<1>4. /\ DOMAIN messages' = DOMAIN messages \ {id}
      /\ \A o \in DOMAIN messages' : messages'[o] = messages[o]
  <2>1. CASE messages' = Drop(messages, id)
    BY <2>1 DEF Drop
  <2>2. CASE id = last_id + 1 /\ messages' = messages
    <3>1. id \notin DOMAIN messages
      BY <1>1, <2>2
    <3> QED BY <2>2, <3>1
  <2> QED BY <2>1, <2>2
<1>5. rewards_due' = R!Drop(rewards_due, id)
  BY <1>4, DueDropped
<1>6. given_up' = given_up \union {id}
  <2> DEFINE I == 1 .. last_id
  <2>1. 1 .. last_id' = I \union {id}
    BY <1>1
  <2> HIDE DEF I
  <2>2. \A o : o \in given_up' <=> o \in given_up \union {id}
    BY <1>2, <1>4, <2>1 DEF given_up, I
  <2> QED BY <2>2
<1> QED BY <1>2, <1>3, <1>5, <1>6 DEF R!GiveUp

\* deletemssg
LEMMA DeleteRewards ==
  ASSUME BooksInv, Settlement, NEW id, deletemssg(id)
  PROVE  R!Promise \/ \E m \in 1 .. MaxId : R!GiveUp(m)
<1>1. /\ id \in DOMAIN permlinks /\ messages' = Drop(messages, id)
      /\ id \in DOMAIN messages /\ closed(messages[id]) => messages[id].mssg_reward = 0
      /\ UNCHANGED <<last_id, given, balance>>
  BY DEF deletemssg, may_delete
<1>2. CASE id \in DOMAIN messages
  <2>1. id \in 1 .. MaxId
    <3>1. last_id \in 0 .. MaxId /\ id \in 1 .. last_id
      BY <1>2 DEF BooksInv, IInv, Keys
    <3> QED BY <3>1, BoundsAssumption
  <2>2. R!GiveUp(id)
    BY <1>1, <1>2, <2>1, GiveUpStep DEF BooksInv
  <2> QED BY <2>1, <2>2
<1>3. CASE id \notin DOMAIN messages
  <2>1. DOMAIN messages' = DOMAIN messages /\ \A o \in DOMAIN messages : messages'[o] = messages[o]
    BY <1>1, <1>3 DEF Drop
  <2>2. \A o \in DOMAIN messages :
           /\ messages'[o].cashout_time = messages[o].cashout_time
           /\ messages'[o].mssg_reward = messages[o].mssg_reward
           /\ messages'[o].paid_amount = messages[o].paid_amount
    BY <2>1
  <2> QED BY <1>1, <2>1, <2>2, QuietRewards
<1> QED BY <1>2, <1>3

\* addpermlink
LEMMA PermlinkRewards ==
  ASSUME BooksInv, Settlement, NEW author, NEW link, NEW parent, NEW import,
         addpermlink(author, link, parent, import)
  PROVE  \E m \in 1 .. MaxId : R!GiveUp(m)
<1> DEFINE id == last_id + 1
<1>1. id <= MaxId /\ messages' = messages /\ last_id' = id /\ UNCHANGED <<given, balance>>
  BY DEF addpermlink
<1>2. id \in 1 .. MaxId
  BY <1>1, BoundsAssumption DEF BooksInv, IInv, Keys
<1>3. R!GiveUp(id)
  BY <1>1, <1>2, GiveUpStep DEF BooksInv
<1> QED BY <1>2, <1>3

\* A transaction pays at most what is left of the reward: curators first, and in
\* the last one everything.
LEMMA PayRewards ==
  ASSUME BooksInv, Known, Settlement, NEW id, NEW sent, paymssgrwrd(id, sent)
  PROVE  R!Pay(id) \/ R!Settle(id)
<1> DEFINE m == messages[id]
           cp == curation_payout(m)
<1>1. id \in DOMAIN messages /\ closed(m) /\ UNCHANGED last_id
  BY PayForms
<1>2. PICK ord, c :
        /\ ord \in orders(id)
        /\ c = fill_curator_payouts(id, ord, cp)
        /\ c.paid \in Int /\ unclaimed(m, c) \in Int /\ cp \in Int
        /\ payment_sound(id, ord)
        /\ \/ last_payment(id, c) /\ unclaimed(m, c) >= 0 /\ pay_last(id, c, sent)
           \/ ~last_payment(id, c) /\ pay_some(id, c, sent)
  BY PayForms
<1>3. PayGood(c, id, voters(id)) /\ c.paid \in Nat
  <2>1. PayGood(c, id, voters(id))
    BY <1>1, <1>2, LoopGood
  <2> QED BY <2>1 DEF PayGood
<1>4. m.paid_amount \in Nat /\ m.paid_amount + c.paid <= most(m)
  BY <1>1, <1>3, LoopLeaves
<1>5. /\ m \in MessageRow /\ m.mssg_reward \in Int
      /\ cp \in Int /\ cp >= 0 /\ cp <= m.mssg_reward
      /\ balance \in Int
  BY <1>1, <1>2 DEF BooksInv, Shapes, MessageRow, payment_sound
<1>6. m.paid_amount + c.paid <= cp
  BY <1>2, <1>4, <1>5 DEF most
<1>7. id \in DOMAIN rewards_due /\ rewards_due[id] = [reward |-> m.mssg_reward, paid |-> m.paid_amount]
  BY <1>1, DueRows
<1>8. last_id \in Nat /\ DOMAIN messages \subseteq 1 .. last_id /\ id \notin DOMAIN given
  BY <1>1 DEF BooksInv, IInv, Keys, Settlement
<1>9. CASE pay_some(id, c, sent)
  <2>1. /\ messages' = [messages EXCEPT ![id].paid_amount = @ + c.paid]
        /\ given' = given /\ balance' = balance - c.paid
    BY <1>9 DEF pay_some
  <2> DEFINE n == PaidRow(m, c.paid)
  <2>2. n.cashout_time = m.cashout_time /\ n.mssg_reward = m.mssg_reward
        /\ n.paid_amount = m.paid_amount + c.paid
    <3> HIDE DEF m
    <3> QED BY <1>5 DEF PaidRow, MessageRow
  <2>3. /\ DOMAIN messages' = DOMAIN messages /\ messages'[id] = n
        /\ \A o \in DOMAIN messages \ {id} : messages'[o] = messages[o]
    BY <1>1, <2>1 DEF PaidRow
  <2> HIDE DEF n
  <2>4. \A o \in DOMAIN messages : closed(messages'[o]) <=> closed(messages[o])
    BY <1>1, <2>2, <2>3 DEF closed
  <2>5. /\ DOMAIN rewards_due' = {o \in DOMAIN messages' : closed(messages'[o])}
        /\ \A o \in DOMAIN rewards_due' :
             rewards_due'[o] = [reward |-> messages'[o].mssg_reward,
                                paid |-> messages'[o].paid_amount]
    BY DEF rewards_due
  <2>6. DOMAIN rewards_due' = DOMAIN rewards_due
    BY <2>3, <2>4, <2>5, DueRows
  <2>7. \A o \in DOMAIN rewards_due \ {id} : rewards_due'[o] = rewards_due[o]
    BY <2>3, <2>5, <2>6, DueRows
  <2>8. rewards_due'[id] = [reward |-> m.mssg_reward, paid |-> m.paid_amount + c.paid]
    BY <1>7, <2>2, <2>3, <2>5, <2>6
  <2>9. given_up' = given_up
    BY <1>1, <2>1, <2>3 DEF given_up
  <2> DEFINE d == rewards_due[id]
             e == rewards_due'[id]
  <2>10. /\ d.reward = m.mssg_reward /\ d.paid = m.paid_amount
         /\ e.reward = m.mssg_reward /\ e.paid = m.paid_amount + c.paid
    BY <1>7, <2>8
  <2> HIDE DEF d, e, m, cp
  <2>11. e.paid \in d.paid .. d.reward /\ balance - balance' = e.paid - d.paid
    BY <1>3, <1>4, <1>5, <1>6, <2>1, <2>10
  <2>12. R!Pay(id)
    BY <1>7, <2>1, <2>6, <2>7, <2>9, <2>10, <2>11 DEF R!Pay, d, e
  <2> QED BY <2>12
<1>10. CASE unclaimed(m, c) >= 0 /\ pay_last(id, c, sent)
  <2> DEFINE paid == c.paid + (m.mssg_reward - cp)
             g == [reward |-> m.mssg_reward, paid |-> m.paid_amount + paid,
                   returned |-> unclaimed(m, c)]
  <2>1. messages' = Drop(messages, id) /\ given' = Put(given, id, g) /\ balance' = balance - paid
    BY <1>10 DEF pay_last
  <2>2. /\ DOMAIN messages' = DOMAIN messages \ {id}
        /\ \A o \in DOMAIN messages' : messages'[o] = messages[o]
    BY <2>1 DEF Drop
  <2>3. /\ DOMAIN given' = DOMAIN given \union {id} /\ given'[id] = g
        /\ \A o \in DOMAIN given : given'[o] = given[o]
    BY <1>8, <2>1 DEF Put
  <2>4. rewards_due' = R!Drop(rewards_due, id)
    BY <2>2, DueDropped
  <2>5. given_up' = given_up
    <3> DEFINE I == 1 .. last_id
    <3>1. 1 .. last_id' = I
      BY <1>1
    <3> HIDE DEF I
    <3>2. \A o : o \in given_up' <=> o \in given_up
      BY <1>1, <2>2, <2>3, <3>1 DEF given_up, I
    <3> QED BY <3>2
  <2> DEFINE d == rewards_due[id]
             s == given'[id]
  <2>6. d.reward = m.mssg_reward /\ d.paid = m.paid_amount
    BY <1>7
  <2>7. s.reward = m.mssg_reward /\ s.paid = m.paid_amount + paid /\ s.returned = unclaimed(m, c)
    BY <2>3
  <2>8. unclaimed(m, c) = cp - (c.paid + m.paid_amount)
    BY DEF unclaimed
  <2> HIDE DEF d, s, m, cp
  <2>9. /\ s.paid >= d.paid /\ s.returned >= 0
        /\ s.paid + s.returned = d.reward
        /\ balance - balance' = s.paid - d.paid
    BY <1>2, <1>3, <1>4, <1>5, <1>10, <2>1, <2>6, <2>7, <2>8
  <2>10. R!Settle(id)
    BY <1>7, <2>3, <2>4, <2>5, <2>6, <2>7, <2>9 DEF R!Settle, d, s
  <2> QED BY <2>10
<1> QED BY <1>2, <1>9, <1>10

\* Every step that is not a stutter is one of those that Rewards allows.
LEMMA RewardsStep ==
  BooksInv /\ Known /\ Places /\ [Next]_vars
    => [R!Next]_(<<rewards_due, given, given_up, balance>>)
<1> SUFFICES ASSUME BooksInv, Known, Settlement, [Next]_vars
             PROVE  R!Next
  BY DEF Places
<1>0. ASSUME \/ R!Promise
             \/ \E m \in 1 .. MaxId : R!Pay(m) \/ R!Settle(m) \/ R!GiveUp(m)
      PROVE  R!Next
  BY <1>0 DEF R!Next
<1>1. ASSUME UNCHANGED <<messages, last_id, given, balance>>
      PROVE  R!Promise
  BY <1>1, QuietRewards
<1>2. ASSUME NEW id, NEW sent, paymssgrwrd(id, sent)
      PROVE  R!Next
  <2>1. id \in 1 .. MaxId
    <3>1. id \in DOMAIN messages
      BY <1>2, PayForms
    <3>2. last_id \in 0 .. MaxId /\ id \in 1 .. last_id
      BY <3>1 DEF BooksInv, IInv, Keys
    <3> QED BY <3>2, BoundsAssumption
  <2> QED BY <1>0, <1>2, <2>1, PayRewards
<1>3. CASE Messages
  <2>1. ASSUME NEW author \in Account, NEW link \in Link,
               NEW parent \in DOMAIN permlinks \union {Root},
               NEW map \in Beneficiaries, NEW t \in TokenProps, NEW c \in CuratorPrcnts,
               NEW x \in MaxPayouts, createmssg(author, link, parent, map, t, c, x)
        PROVE  R!Next
    BY <1>0, <2>1, CreateRewards
  <2>2. ASSUME NEW author \in Account, NEW link \in Link,
               NEW parent \in DOMAIN permlinks \union {Root}, NEW import \in Imports,
               addpermlink(author, link, parent, import)
        PROVE  R!Next
    BY <1>0, <2>2, PermlinkRewards
  <2> QED BY <1>3, <2>1, <2>2 DEF Messages
<1>4. CASE Changes
  <2>1. ASSUME NEW id \in DOMAIN permlinks,
               \/ delpermlink(id)
               \/ deletemssg(id)
               \/ \E c \in CuratorPrcnts : setcurprcnt(id, c)
               \/ \E x \in MaxPayouts : setmaxpayout(id, x)
        PROVE  R!Next
    <3>1. CASE delpermlink(id)
      BY <1>0, <1>1, <3>1 DEF delpermlink
    <3>2. CASE deletemssg(id)
      BY <1>0, <3>2, DeleteRewards
    <3>3. CASE \/ \E c \in CuratorPrcnts : setcurprcnt(id, c)
               \/ \E x \in MaxPayouts : setmaxpayout(id, x)
      BY <1>0, <3>3, ChangeRewards
    <3> QED BY <2>1, <3>1, <3>2, <3>3
  <2> QED BY <1>4, <2>1 DEF Changes
<1>5. CASE Voting
  <2>1. PICK voter \in Account, id \in DOMAIN messages, weight \in -Whole .. Whole :
          set_vote(voter, id, weight)
    BY <1>5, VotingForms
  <2>2. weight \in Int
    BY AmountsAssumption
  <2> QED BY <1>0, <2>1, <2>2, VoteRewards
<1>6. CASE Paying
  <2>1. CASE \E id \in DOMAIN messages : paymssgrwrd(id, deferred)
    BY <1>2, <2>1
  <2>2. ASSUME NEW id \in DOMAIN deferred, run_deferred(id)
        PROVE  R!Next
    <3> DEFINE sent == Drop(deferred, id)
    <3>1. close(sent) \/ paymssgrwrd(id, sent) \/ deletevotes(id, sent)
      BY <2>2 DEF run_deferred
    <3> HIDE DEF sent
    <3>2. CASE close(sent)
      BY <1>0, <3>2, CloseRewards
    <3>3. CASE paymssgrwrd(id, sent)
      BY <1>2, <3>3
    <3>4. CASE deletevotes(id, sent)
      BY <1>0, <1>1, <3>4 DEF deletevotes, history
    <3> QED BY <3>1, <3>2, <3>3, <3>4
  <2>3. CASE \E id \in DOMAIN deferred : lose_deferred(id)
    BY <1>0, <1>1, <2>3 DEF lose_deferred
  <2>4. CASE close(deferred)
    BY <1>0, <2>4, CloseRewards
  <2>5. CASE \E q \in Fund : on_transfer(q)
    BY <1>0, <2>5, TransferRewards
  <2> QED BY <1>6, <2>1, <2>2, <2>3, <2>4, <2>5 DEF Paying
<1>7. CASE Settings
  <2>1. CASE \E batch \in ParamBatches : setparams(batch)
    BY <1>0, <1>1, <2>1 DEF setparams, history
  <2>2. CASE \E act \in DOMAIN LimitRows : \E row \in LimitRows[act] : setlimit(act, row)
    BY <1>0, <1>1, <2>2 DEF setlimit, history
  <2>3. CASE \E rules \in RuleSets : setrules(rules)
    BY <1>0, <1>1, <2>3 DEF setrules
  <2>4. CASE syncpool
    BY <1>0, <1>1, <2>4 DEF syncpool
  <2> QED BY <1>7, <2>1, <2>2, <2>3, <2>4 DEF Settings
<1>8. CASE Others \/ Tick \/ UNCHANGED vars
  <2>1. UNCHANGED <<messages, last_id, given, balance>>
    <3>1. CASE Others
      BY <3>1 DEF Others, posting, history
    <3>2. CASE Tick
      BY <3>2 DEF Tick, history
    <3>3. CASE UNCHANGED vars
      BY <3>3 DEF vars, history
    <3> QED BY <1>8, <3>1, <3>2, <3>3
  <2> QED BY <1>0, <1>1, <2>1
<1> QED BY <1>3, <1>4, <1>5, <1>6, <1>7, <1>8 DEF Next

\* Where the functions of the rules never fall, golos.publication implements
\* Rewards: whatever is voted, closed, deleted and paid, in however many
\* transactions, rewards are fixed once, and what is paid and what goes back to
\* the pools adds up to them.
THEOREM PublicationPaysRewards ==
  ASSUME RulesRise
  PROVE  Spec => ImplementsRewards
<1>1. Init => R!Init
  BY DEF Init, R!Init, R!EmptyTable, EmptyTable, rewards_due, given_up
<1>2. BooksInv /\ Known /\ Places /\ [Next]_vars
        => [R!Next]_(<<rewards_due, given, given_up, balance>>)
  BY RewardsStep
<1>3. Spec => []Known
  BY KnownInductive
<1>4. Spec => Init /\ [][Next]_vars
  BY PTL DEF Spec
<1>5. Spec => R!Init /\ [][R!Next]_(<<rewards_due, given, given_up, balance>>)
  BY <1>1, <1>2, <1>3, <1>4, BooksInductive, PlacesInductive, PTL
<1> QED BY <1>5 DEF ImplementsRewards, R!Spec, R!vars

----------------------------------------------------------------------------
(* Types *)

IsMap(f) == f = [x \in DOMAIN f |-> f[x]]

\* A table with one row more,
LEMMA PutMap ==
  ASSUME NEW f, NEW k, NEW v, NEW g, g = Put(f, k, v)
  PROVE  IsMap(g)
BY DEF IsMap, Put

\* and with one row less
LEMMA DropMap ==
  ASSUME NEW f, NEW k, NEW g, g = Drop(f, k)
  PROVE  IsMap(g)
BY DEF IsMap, Drop

Transactions == {"closemssgs", "paymssgrwrd", "deletevotes"}

\* Every table is one, and what is sent is one of three transactions.
Tabular ==
  /\ IsMap(permlinks) /\ IsMap(messages) /\ IsMap(votes) /\ IsMap(deferred)
  /\ \A id \in DOMAIN deferred : deferred[id] \in Transactions

\* What closing leaves
LEMMA ClosingTables ==
  ASSUME NEW ps, NEW sent, IsMap(sent), \A id \in DOMAIN sent : sent[id] \in Transactions
  PROVE  LET c == closemssgs(ps, sent) IN
         /\ IsMap(c.messages) /\ IsMap(c.deferred)
         /\ \A id \in DOMAIN c.deferred : c.deferred[id] \in Transactions
<1> DEFINE c == close_all(ps)
           again == IF closing = due THEN EmptyTable
                    ELSE [id \in {CloseId} |-> "closemssgs"]
           ms == [id \in DOMAIN messages |->
                    IF id \in closing
                    THEN [messages[id] EXCEPT !.cashout_time = Never,
                                              !.mssg_reward = at(c.rewards, id)]
                    ELSE messages[id]]
           ds == [id \in DOMAIN sent \union closing \union DOMAIN again |->
                    IF id \in closing THEN "paymssgrwrd"
                    ELSE IF id \in DOMAIN again THEN again[id] ELSE sent[id]]
<1>1. closemssgs(ps, sent).messages = ms /\ closemssgs(ps, sent).deferred = ds
  BY DEF closemssgs
<1>2. \A id \in DOMAIN again : again[id] = "closemssgs"
  BY DEF EmptyTable
<1> HIDE DEF c, again
<1>3. IsMap(ms) /\ IsMap(ds)
  BY DEF IsMap
<1>4. \A id \in DOMAIN ds : ds[id] \in Transactions
  BY <1>2 DEF Transactions
<1> HIDE DEF ms, ds
<1> QED BY <1>1, <1>3, <1>4

\* A vote, of whatever form
LEMMA VoteTables ==
  ASSUME Tabular, NEW voter, NEW id, NEW weight, set_vote(voter, id, weight)
  PROVE  Tabular'
<1> DEFINE c == closemssgs(pools, deferred)
<1>1. /\ IsMap(c.messages) /\ IsMap(c.deferred)
      /\ \A o \in DOMAIN c.deferred : c.deferred[o] \in Transactions
  BY ClosingTables DEF Tabular
<1>2. /\ deferred' = c.deferred /\ permlinks' = permlinks
      /\ \E rshares :
           \/ \E delegators, count :
                new_vote(c, id, voter, weight, rshares, delegators, count)
           \/ revote(c, id, voter, weight, rshares)
  BY DEF set_vote
<1> HIDE DEF c
<1>3. PICK rshares :
        \/ \E delegators, count : new_vote(c, id, voter, weight, rshares, delegators, count)
        \/ revote(c, id, voter, weight, rshares)
  BY <1>2
<1>4. CASE \E delegators, count :
             new_vote(c, id, voter, weight, rshares, delegators, count)
  <2>1. PICK delegators, count :
          new_vote(c, id, voter, weight, rshares, delegators, count)
    BY <1>4
  <2>2. /\ \E x, y, z : messages' = [c.messages EXCEPT ![id].netshares = x,
                               ![id].voteshares = y, ![id].sumcuratorsw = z]
        /\ \E v : votes' = Put(votes, <<id, voter>>, v)
    BY <2>1 DEF new_vote
  <2>3. IsMap(messages')
    BY <2>2 DEF IsMap
  <2>4. IsMap(votes')
    BY <2>2, PutMap, DropMap
  <2> QED BY <1>1, <1>2, <2>3, <2>4 DEF Tabular
<1>5. CASE revote(c, id, voter, weight, rshares)
  <2>1. /\ \E x, z : messages' = [c.messages EXCEPT ![id].netshares = x, ![id].sumcuratorsw = z]
        /\ \E v : votes' = [votes EXCEPT ![<<id, voter>>] = v]
    BY <1>5 DEF revote
  <2>2. IsMap(messages') /\ IsMap(votes')
    <3>1. IsMap(messages')
      BY <2>1 DEF IsMap
    <3>2. IsMap(votes')
      BY <2>1 DEF IsMap
    <3> QED BY <3>1, <3>2
  <2> QED BY <1>1, <1>2, <2>2 DEF Tabular
<1> QED BY <1>3, <1>4, <1>5

\* Paying, and erasing votes, out of the transactions sent
LEMMA PayTables ==
  ASSUME Tabular, NEW id, NEW sent, IsMap(sent), \A o \in DOMAIN sent : sent[o] \in Transactions,
         paymssgrwrd(id, sent) \/ deletevotes(id, sent)
  PROVE  Tabular'
<1>1. ASSUME NEW s \in {"paymssgrwrd", "deletevotes"}
      PROVE  /\ IsMap(Put(sent, id, s))
             /\ \A o \in DOMAIN Put(sent, id, s) : Put(sent, id, s)[o] \in Transactions
  <2>1. s \in Transactions
    BY DEF Transactions
  <2>2. \A o \in DOMAIN Put(sent, id, s) : Put(sent, id, s)[o] \in Transactions
    BY <2>1 DEF Put
  <2> QED BY <2>2, PutMap
<1>2. permlinks' = permlinks
  BY DEF paymssgrwrd, deletevotes
<1>3. deferred' = sent \/ \E s \in {"paymssgrwrd", "deletevotes"} : deferred' = Put(sent, id, s)
  BY DEF paymssgrwrd, pay_last, pay_some, send_postreward_trx, deletevotes
<1>4. IsMap(deferred') /\ \A o \in DOMAIN deferred' : deferred'[o] \in Transactions
  BY <1>1, <1>3
<1>5. IsMap(votes')
  <2>1. CASE paymssgrwrd(id, sent)
    <3>1. PICK c : votes' = votes_left(id, c)
      BY <2>1 DEF paymssgrwrd
    <3> QED BY <3>1 DEF IsMap, votes_left
  <2>2. CASE deletevotes(id, sent)
    <3>1. \E S : votes' = [k \in DOMAIN votes \ S |-> votes[k]]
      BY <2>2 DEF deletevotes
    <3> QED BY <3>1 DEF IsMap
  <2> QED BY <2>1, <2>2
<1>6. IsMap(messages')
  <2>1. CASE paymssgrwrd(id, sent)
    <3>1. \/ messages' = Drop(messages, id)
          \/ \E x : messages' = [messages EXCEPT ![id].paid_amount = x]
      BY <2>1 DEF paymssgrwrd, pay_last, pay_some
    <3>2. CASE messages' = Drop(messages, id)
      BY <3>2, PutMap, DropMap
    <3>3. CASE \E x : messages' = [messages EXCEPT ![id].paid_amount = x]
      BY <3>3 DEF IsMap
    <3> QED BY <3>1, <3>2, <3>3
  <2>2. CASE deletevotes(id, sent)
    BY <2>2 DEF deletevotes, Tabular
  <2> QED BY <2>1, <2>2
<1> QED BY <1>2, <1>4, <1>5, <1>6 DEF Tabular

\* closemssgs, and the transfer that begins with it
LEMMA CloseTables ==
  ASSUME Tabular,
         \/ \E sent : /\ IsMap(sent) /\ \A o \in DOMAIN sent : sent[o] \in Transactions
                      /\ close(sent)
         \/ \E q : on_transfer(q)
  PROVE  Tabular'
<1>1. /\ UNCHANGED <<permlinks, votes>>
      /\ \E ps, sent : LET c == closemssgs(ps, sent) IN
           /\ IsMap(sent) /\ \A o \in DOMAIN sent : sent[o] \in Transactions
           /\ messages' = c.messages /\ deferred' = c.deferred
  BY DEF close, on_transfer, Tabular
<1> QED BY <1>1, ClosingTables DEF Tabular

\* createmssg
LEMMA CreateTables ==
  ASSUME Tabular, NEW author, NEW link, NEW parent, NEW map, NEW tokenprop,
         NEW prcnt, NEW payout,
         createmssg(author, link, parent, map, tokenprop, prcnt, payout)
  PROVE  Tabular'
<1> DEFINE c == closemssgs(pools, deferred)
<1>1. /\ deferred' = c.deferred /\ votes' = votes
      /\ \E f, k, r : permlinks' = Put(f, k, r)
      /\ \E f, k, r : messages' = Put(f, k, r)
  BY DEF createmssg
<1>2. /\ IsMap(c.deferred)
      /\ \A o \in DOMAIN c.deferred : c.deferred[o] \in Transactions
  BY ClosingTables DEF Tabular
<1> HIDE DEF c
<1>3. IsMap(permlinks') /\ IsMap(messages')
  BY <1>1, PutMap, DropMap
<1> QED BY <1>1, <1>2, <1>3 DEF Tabular

\* deletemssg
LEMMA DeleteTables ==
  ASSUME Tabular, NEW id, deletemssg(id)
  PROVE  Tabular'
<1>1. /\ messages' = Drop(messages, id) /\ votes' = votes
      /\ permlinks' = without_child(id)
      /\ deferred' = Put(deferred, id, "deletevotes") \/ deferred' = deferred
  BY DEF deletemssg
<1>2. \E f : permlinks' = Drop(f, id)
  BY <1>1 DEF without_child
<1>3. IsMap(messages') /\ IsMap(permlinks') /\ IsMap(deferred')
  BY <1>1, <1>2, PutMap, DropMap DEF Tabular
<1>4. \A o \in DOMAIN deferred' : deferred'[o] \in Transactions
  BY <1>1 DEF Put, Tabular, Transactions
<1> QED BY <1>1, <1>3, <1>4 DEF Tabular

\* Every step leaves tables.
LEMMA StepTables == Tabular /\ [Next]_vars => Tabular'
<1> SUFFICES ASSUME Tabular, [Next]_vars PROVE Tabular'
  OBVIOUS
<1>1. ASSUME UNCHANGED <<permlinks, messages, votes, deferred>>
      PROVE  Tabular'
  BY <1>1 DEF Tabular
<1>2. ASSUME NEW id, NEW sent, sent = Drop(deferred, id)
      PROVE  IsMap(sent) /\ \A o \in DOMAIN sent : sent[o] \in Transactions
  <2>1. IsMap(sent)
    BY <1>2, DropMap
  <2> QED BY <1>2, <2>1 DEF Tabular, Drop
<1>3. CASE Messages
  <2>1. ASSUME NEW author \in Account, NEW link \in Link,
               NEW parent \in DOMAIN permlinks \union {Root},
               NEW map \in Beneficiaries, NEW t \in TokenProps, NEW c \in CuratorPrcnts,
               NEW x \in MaxPayouts, createmssg(author, link, parent, map, t, c, x)
        PROVE  Tabular'
    BY <2>1, CreateTables
  <2>2. ASSUME NEW author \in Account, NEW link \in Link,
               NEW parent \in DOMAIN permlinks \union {Root}, NEW import \in Imports,
               addpermlink(author, link, parent, import)
        PROVE  Tabular'
    <3>1. /\ UNCHANGED <<messages, votes, deferred>>
          /\ \E k, r : permlinks' = Put(permlinks, k, r)
      BY <2>2 DEF addpermlink
    <3>2. IsMap(permlinks')
      BY <3>1, PutMap
    <3> QED BY <3>1, <3>2 DEF Tabular
  <2> QED BY <1>3, <2>1, <2>2 DEF Messages
<1>4. CASE Changes
  <2>1. ASSUME NEW id \in DOMAIN permlinks,
               \/ delpermlink(id)
               \/ deletemssg(id)
               \/ \E c \in CuratorPrcnts : setcurprcnt(id, c)
               \/ \E x \in MaxPayouts : setmaxpayout(id, x)
        PROVE  Tabular'
    <3>1. CASE delpermlink(id)
      <4>1. UNCHANGED <<messages, votes, deferred>> /\ permlinks' = Drop(permlinks, id)
        BY <3>1 DEF delpermlink
      <4>2. IsMap(permlinks')
        BY <4>1, DropMap
      <4> QED BY <4>1, <4>2 DEF Tabular
    <3>2. CASE deletemssg(id)
      BY <3>2, DeleteTables
    <3>3. CASE \/ \E c \in CuratorPrcnts : setcurprcnt(id, c)
               \/ \E x \in MaxPayouts : setmaxpayout(id, x)
      <4>1. /\ UNCHANGED <<permlinks, votes, deferred>>
            /\ \/ \E c : messages' = [messages EXCEPT ![id].curators_prcnt = c]
               \/ \E x : messages' = [messages EXCEPT ![id].max_payout = x]
        BY <3>3 DEF setcurprcnt, setmaxpayout
      <4>2. IsMap(messages')
        BY <4>1 DEF IsMap
      <4> QED BY <4>1, <4>2 DEF Tabular
    <3> QED BY <2>1, <3>1, <3>2, <3>3
  <2> QED BY <1>4, <2>1 DEF Changes
<1>5. CASE Voting
  BY <1>5, VotingForms, VoteTables
<1>6. CASE Paying
  <2>1. ASSUME NEW id, paymssgrwrd(id, deferred)
        PROVE  Tabular'
    BY <2>1, PayTables DEF Tabular
  <2>2. ASSUME NEW id \in DOMAIN deferred, run_deferred(id)
        PROVE  Tabular'
    <3> DEFINE sent == Drop(deferred, id)
    <3>1. close(sent) \/ paymssgrwrd(id, sent) \/ deletevotes(id, sent)
      BY <2>2 DEF run_deferred
    <3>2. IsMap(sent) /\ \A o \in DOMAIN sent : sent[o] \in Transactions
      BY <1>2
    <3> HIDE DEF sent
    <3> QED BY <3>1, <3>2, CloseTables, PayTables
  <2>3. ASSUME NEW id \in DOMAIN deferred, lose_deferred(id)
        PROVE  Tabular'
    <3>1. UNCHANGED <<permlinks, messages, votes>> /\ deferred' = Drop(deferred, id)
      BY <2>3 DEF lose_deferred
    <3>2. IsMap(deferred') /\ \A o \in DOMAIN deferred' : deferred'[o] \in Transactions
      BY <1>2, <3>1
    <3> QED BY <3>1, <3>2 DEF Tabular
  <2>4. CASE close(deferred) \/ \E q \in Fund : on_transfer(q)
    BY <2>4, CloseTables DEF Tabular
  <2> QED BY <1>6, <2>1, <2>2, <2>3, <2>4 DEF Paying
<1>7. CASE Settings
  <2>1. UNCHANGED <<permlinks, messages, votes, deferred>>
    BY <1>7 DEF Settings, setparams, setlimit, setrules, syncpool
  <2> QED BY <1>1, <2>1
<1>8. CASE Others \/ Tick \/ UNCHANGED vars
  <2>1. UNCHANGED <<permlinks, messages, votes, deferred>>
    <3>1. CASE Others
      BY <3>1 DEF Others, posting
    <3>2. CASE Tick
      BY <3>2 DEF Tick
    <3>3. CASE UNCHANGED vars
      BY <3>3 DEF vars
    <3> QED BY <1>8, <3>1, <3>2, <3>3
  <2> QED BY <1>1, <2>1
<1> QED BY <1>3, <1>4, <1>5, <1>6, <1>7, <1>8 DEF Next

\* The contract holds what came in and was not paid out.
LEMMA StepBalance ==
  BooksInv /\ Known /\ balance \in 0 .. MaxBalance /\ [Next]_vars => balance' \in 0 .. MaxBalance
<1> SUFFICES ASSUME BooksInv, Known, balance \in 0 .. MaxBalance, [Next]_vars
             PROVE  balance' \in 0 .. MaxBalance
  OBVIOUS
<1>1. ASSUME NEW id, NEW sent, paymssgrwrd(id, sent)
      PROVE  balance' \in 0 .. MaxBalance
  <2> DEFINE m == messages[id]
             cp == curation_payout(m)
  <2>1. id \in DOMAIN messages /\ closed(m)
    BY <1>1, PayForms
  <2>2. PICK ord, c :
          /\ ord \in orders(id)
          /\ c = fill_curator_payouts(id, ord, cp)
          /\ cp \in Int /\ payment_sound(id, ord)
          /\ pay_last(id, c, sent) \/ pay_some(id, c, sent)
    BY <1>1, PayForms
  <2>3. c.paid \in Nat
    <3>1. PayGood(c, id, voters(id))
      BY <2>1, <2>2, LoopGood
    <3> QED BY <3>1 DEF PayGood
  <2>4. m.mssg_reward \in Int /\ cp <= m.mssg_reward
    BY <2>1, <2>2 DEF BooksInv, Shapes, MessageRow, payment_sound
  <2> DEFINE all == c.paid + (m.mssg_reward - cp)
  <2>5. \/ c.paid <= balance /\ balance' = balance - c.paid
        \/ all <= balance /\ balance' = balance - all
    BY <2>2 DEF pay_some, pay_last
  <2> HIDE DEF m, cp
  <2> QED BY <2>2, <2>3, <2>4, <2>5, AmountsAssumption
<1>2. CASE Messages \/ Changes \/ Settings \/ Tick \/ UNCHANGED vars
  <2>1. balance' = balance
    <3>1. CASE Messages
      <4>1. ASSUME NEW author, NEW link, NEW parent, NEW map, NEW t, NEW c, NEW x,
                   createmssg(author, link, parent, map, t, c, x)
            PROVE  balance' = balance
        BY <4>1 DEF createmssg
      <4>2. ASSUME NEW author, NEW link, NEW parent, NEW import,
                   addpermlink(author, link, parent, import)
            PROVE  balance' = balance
        BY <4>2 DEF addpermlink
      <4> QED BY <3>1, <4>1, <4>2 DEF Messages
    <3>2. CASE Changes
      BY <3>2 DEF Changes, delpermlink, deletemssg, setcurprcnt, setmaxpayout
    <3>3. CASE Settings
      BY <3>3 DEF Settings, setparams, setlimit, setrules, syncpool
    <3>4. CASE Tick
      BY <3>4 DEF Tick
    <3>5. CASE UNCHANGED vars
      BY <3>5 DEF vars
    <3> QED BY <1>2, <3>1, <3>2, <3>3, <3>4, <3>5
  <2> QED BY <2>1
<1>3. CASE Voting
  <2>1. balance' = balance
    BY <1>3, VotingForms DEF set_vote
  <2> QED BY <2>1
<1>4. CASE Others
  <2>1. balance' = balance
    BY <1>4 DEF Others, posting
  <2> QED BY <2>1
<1>5. CASE Paying
  <2>1. CASE \E q \in Fund : on_transfer(q)
    <3>1. PICK q \in Fund : balance + q <= MaxBalance /\ balance' = balance + q
      BY <2>1 DEF on_transfer
    <3> QED BY <3>1, AmountsAssumption
  <2>2. CASE \E id \in DOMAIN deferred : run_deferred(id)
    <3>1. PICK id \in DOMAIN deferred :
            LET sent == Drop(deferred, id) IN
            close(sent) \/ paymssgrwrd(id, sent) \/ deletevotes(id, sent)
      BY <2>2 DEF run_deferred
    <3>2. balance' = balance \/ \E sent : paymssgrwrd(id, sent)
      BY <3>1 DEF close, deletevotes
    <3> QED BY <1>1, <3>2
  <2>3. CASE \/ \E id \in DOMAIN deferred : lose_deferred(id)
             \/ close(deferred)
    <3>1. balance' = balance
      BY <2>3 DEF lose_deferred, close
    <3> QED BY <3>1
  <2> QED BY <1>1, <1>5, <2>1, <2>2, <2>3 DEF Paying
<1> QED BY <1>2, <1>3, <1>4, <1>5 DEF Next

\* A table of rows in T takes another one, and loses some.
LEMMA TablePut ==
  ASSUME NEW f, NEW S, NEW T, IsTable(f, S, T), NEW k \in S, NEW v \in T, NEW g, g = Put(f, k, v)
  PROVE  IsTable(g, S, T)
BY DEF IsTable, Put

\* It stays one when some rows go.
LEMMA TableLess ==
  ASSUME NEW f, NEW S, NEW T, IsTable(f, S, T), NEW X, NEW g, g = [k \in DOMAIN f \ X |-> f[k]]
  PROVE  IsTable(g, S, T)
BY DEF IsTable

\* golos.social
LEMMA SocialTyped ==
  ASSUME IsTable(pinblock, Account \X Account, Soc!PinBlockType), Soc!Next
  PROVE  IsTable(pinblock', Account \X Account, Soc!PinBlockType)
<1>1. PICK pair \in Pairs :
        \/ Soc!pin(pair[1], pair[2]) \/ Soc!addpin(pair[1], pair[2])
        \/ Soc!unpin(pair[1], pair[2]) \/ Soc!block(pair[1], pair[2])
        \/ Soc!addblock(pair[1], pair[2]) \/ Soc!unblock(pair[1], pair[2])
  BY DEF Soc!Next
<1> DEFINE k == <<pair[1], pair[2]>>
<1>2. k \in Account \X Account
  BY InputsAssumption
<1>3. Soc!Pinned \in Soc!PinBlockType /\ Soc!Blocked \in Soc!PinBlockType
  BY DEF Soc!Pinned, Soc!Blocked, Soc!PinBlockType
<1>4. \/ \E v \in Soc!PinBlockType : pinblock' = Put(pinblock, k, v)
      \/ pinblock' = Drop(pinblock, k)
  <2>1. \/ pinblock' = Put(pinblock, k, Soc!Pinned)
        \/ pinblock' = Put(pinblock, k, Soc!Blocked)
        \/ pinblock' = Drop(pinblock, k)
    <3>1. \A v : Soc!Put(pinblock, k, v) = Put(pinblock, k, v)
      BY DEF Soc!Put, Put
    <3>2. Soc!Drop(pinblock, k) = Drop(pinblock, k)
      BY DEF Soc!Drop, Drop
    <3> HIDE DEF k
    <3>3. CASE Soc!pin(pair[1], pair[2]) \/ Soc!addpin(pair[1], pair[2])
      BY <3>1, <3>3 DEF Soc!pin, Soc!addpin, k
    <3>4. CASE Soc!unpin(pair[1], pair[2])
      BY <3>2, <3>4 DEF Soc!unpin, k
    <3>5. CASE Soc!block(pair[1], pair[2]) \/ Soc!addblock(pair[1], pair[2])
      BY <3>1, <3>5 DEF Soc!block, Soc!addblock, k
    <3>6. CASE Soc!unblock(pair[1], pair[2])
      BY <3>2, <3>6 DEF Soc!unblock, k
    <3> QED BY <1>1, <3>3, <3>4, <3>5, <3>6
  <2> HIDE DEF k
  <2> QED BY <1>3, <2>1
<1> HIDE DEF k
<1>5. CASE pinblock' = Drop(pinblock, k)
  <2>1. pinblock' = [o \in DOMAIN pinblock \ {k} |-> pinblock[o]]
    BY <1>5 DEF Drop
  <2> QED BY <2>1, TableLess
<1>6. CASE \E v \in Soc!PinBlockType : pinblock' = Put(pinblock, k, v)
  BY <1>2, <1>6, TablePut
<1> QED BY <1>4, <1>5, <1>6

\* The parameters of golos.referral passed their validate.
RefParamsSound ==
  ref_params # NoParams =>
    /\ DOMAIN ref_params = {"breakout", "expire", "percent"}
    /\ ref_params.percent \in 0 .. Whole
    /\ ref_params.breakout.min \in Nat /\ ref_params.breakout.max \in Int

\* golos.referral's setparams
LEMMA RefParamsStep ==
  ASSUME RefParamsSound, NEW batch \in RefBatches, Ref!setparams(batch)
  PROVE  RefParamsSound'
<1>1. /\ Ref!Setter!validate_params(batch) /\ Ref!Setter!check_duplicates(batch)
      /\ Ref!Setter!complete(ref_params # NoParams, batch)
  BY DEF Ref!setparams, Ref!Setter!accepted, Ref!Setter!check_params
<1> DEFINE right(f, v) ==
             /\ f = "percent" => v \in 0 .. Whole
             /\ f = "breakout" => v.min \in Nat /\ v.max \in Int
<1>2. \A i \in DOMAIN batch : right(batch[i].field, batch[i].value)
  <2> SUFFICES ASSUME NEW i \in DOMAIN batch
               PROVE  right(batch[i].field, batch[i].value)
    OBVIOUS
  <2> DEFINE f == batch[i].field
             v == batch[i].value
  <2>1. Ref!valid(f, v)
    BY <1>1 DEF Ref!Setter!validate_params
  <2>2. /\ f = "percent" => v \in Nat
        /\ f = "breakout" => v.min \in Int /\ v.max \in Int
    BY InputsAssumption
  <2>3. Whole \in Nat
    BY AmountsAssumption
  <2> HIDE DEF f, v
  <2>4. ASSUME f = "percent"
        PROVE  v <= Whole
    BY <2>1, <2>4 DEF Ref!valid
  <2>5. ASSUME f = "breakout"
        PROVE  v.min <= v.max /\ v.min >= 0
    BY <2>1, <2>5 DEF Ref!valid
  <2>6. f = "percent" => v \in 0 .. Whole
    BY <2>2, <2>3, <2>4
  <2>7. f = "breakout" => v.min \in Nat /\ v.max \in Int
    BY <2>2, <2>5
  <2> QED BY <2>6, <2>7 DEF f, v
<1>3. CASE ref_params # NoParams
  <2>1. ref_params' = Ref!Setter!updated(ref_params, batch)
    BY <1>3 DEF Ref!setparams, Ref!Setter!set_parameters
  <2>2. DOMAIN ref_params' = {"breakout", "expire", "percent"}
    BY <1>3, <2>1 DEF RefParamsSound, Ref!Setter!updated
  <2>3. \A f \in DOMAIN ref_params' :
          \/ ref_params'[f] = ref_params[f]
          \/ \E i \in DOMAIN batch : batch[i].field = f /\ ref_params'[f] = batch[i].value
    BY <2>1 DEF Ref!Setter!updated, Ref!Setter!changes
  <2> QED BY <1>2, <1>3, <2>2, <2>3 DEF RefParamsSound
<1>4. CASE ref_params = NoParams
  <2>1. ref_params' = Ref!Setter!as_state(batch)
    BY <1>4 DEF Ref!setparams, Ref!Setter!set_parameters
  <2>2. /\ DOMAIN ref_params' = {batch[i].field : i \in DOMAIN batch}
        /\ \A f \in DOMAIN ref_params' : \E i \in DOMAIN batch :
             batch[i].field = f /\ ref_params'[f] = batch[i].value
    BY <2>1 DEF Ref!Setter!as_state
  <2>3. DOMAIN batch = 1 .. 3 /\ Len(batch) = 3
    BY <1>1, <1>4, InputsAssumption DEF Ref!Setter!complete, Ref!Fields
  <2> DEFINE ix(i) == Ref!Setter!index(batch[i])
  <2>4. /\ DOMAIN Ref!Fields = 1 .. 3
        /\ Ref!Fields[1] = "breakout" /\ Ref!Fields[2] = "expire" /\ Ref!Fields[3] = "percent"
    BY DEF Ref!Fields
  <2>5. \A i \in 1 .. 3 : ix(i) \in 1 .. 3 /\ Ref!Fields[ix(i)] = batch[i].field
    <3> SUFFICES ASSUME NEW i \in 1 .. 3
                 PROVE  ix(i) \in 1 .. 3 /\ Ref!Fields[ix(i)] = batch[i].field
      OBVIOUS
    <3>1. \E j \in 1 .. 3 : Ref!Fields[j] = batch[i].field
      <4>1. batch[i].field \in {"breakout", "expire", "percent"}
        BY <2>3, InputsAssumption
      <4>2. 1 \in 1 .. 3 /\ 2 \in 1 .. 3 /\ 3 \in 1 .. 3
        OBVIOUS
      <4> QED BY <2>4, <4>1, <4>2
    <3> QED BY <2>4, <3>1 DEF Ref!Setter!index
  <2>6. ix(1) < ix(2) /\ ix(2) < ix(3)
    BY <1>1, <2>3 DEF Ref!Setter!check_duplicates
  <2> HIDE DEF ix
  <2>7. ix(1) = 1 /\ ix(2) = 2 /\ ix(3) = 3
    <3>1. ix(1) \in 1 .. 3 /\ ix(2) \in 1 .. 3 /\ ix(3) \in 1 .. 3
      BY <2>5
    <3> QED BY <2>6, <3>1
  <2>8. batch[1].field = "breakout" /\ batch[2].field = "expire" /\ batch[3].field = "percent"
    BY <2>4, <2>5, <2>7
  <2>9. DOMAIN ref_params' = {"breakout", "expire", "percent"}
    BY <2>2, <2>3, <2>8
  <2> QED BY <1>2, <2>2, <2>9 DEF RefParamsSound
<1> QED BY <1>3, <1>4

\* golos.referral: who is referred is an account, with a share of at most all.
LEMMA ReferralTyped ==
  ASSUME now \in Nat, RefParamsSound, IsTable(referrals, Account, Ref!ReferralType), Ref!Next
  PROVE  RefParamsSound' /\ IsTable(referrals', Account, Ref!ReferralType)
<1>1. \/ Ref!closeoldref
      \/ \E batch \in RefBatches : Ref!setparams(batch)
      \/ \E referral \in Account :
           \/ \E q \in Breakout : Ref!on_transfer(referral, q)
           \/ \E referrer \in Account, p \in Percent, e \in Expire, b \in Breakout :
                Ref!add_referral(referrer, referral, p, e, b)
  BY DEF Ref!Next
<1>2. ASSUME NEW S
      PROVE  IsTable(Ref!without(S), Account, Ref!ReferralType)
  BY TableLess DEF Ref!without
<1>3. ASSUME ref_params' = ref_params
      PROVE  RefParamsSound'
  BY <1>3 DEF RefParamsSound
<1>4. CASE Ref!closeoldref
  BY <1>2, <1>3, <1>4 DEF Ref!closeoldref
<1>5. CASE \E batch \in RefBatches : Ref!setparams(batch)
  BY <1>5, RefParamsStep DEF Ref!setparams
<1>6. CASE \E referral \in Account, q \in Breakout : Ref!on_transfer(referral, q)
  BY <1>2, <1>3, <1>6 DEF Ref!on_transfer
<1>7. ASSUME NEW referral \in Account, NEW referrer \in Account, NEW p \in Percent,
             NEW e \in Expire, NEW b \in Breakout,
             Ref!add_referral(referrer, referral, p, e, b)
      PROVE  RefParamsSound' /\ IsTable(referrals', Account, Ref!ReferralType)
  <2> DEFINE row == [referrer |-> referrer, percent |-> p, expire |-> e, breakout |-> b]
  <2>1. /\ ref_params # NoParams /\ ref_params' = ref_params
        /\ p <= ref_params.percent
        /\ b \in ref_params.breakout.min .. ref_params.breakout.max
        /\ \E S : referrals' = Put(Ref!without(S), referral, row)
    BY <1>7 DEF Ref!add_referral, Ref!Put, Put
  <2>2. p \in 0 .. Whole
    BY <2>1, AmountsAssumption DEF RefParamsSound
  <2>3. b \in Nat
    BY <2>1, InputsAssumption DEF RefParamsSound
  <2>4. e \in Nat
    BY InputsAssumption
  <2>5. row \in Ref!ReferralType
    BY <2>2, <2>3, <2>4 DEF Ref!ReferralType
  <2> HIDE DEF row
  <2>6. IsTable(referrals', Account, Ref!ReferralType)
    BY <1>2, <2>1, <2>5, TablePut
  <2> QED BY <1>3, <2>1, <2>6
<1> QED BY <1>1, <1>4, <1>5, <1>6, <1>7

----------------------------------------------------------------------------
(* Charges *)

ChargesTyped(table) == IsTable(table, Account \X ChargeId, Chg!ChargeType)

\* An act that costs something is charged as some restorer says.
LimitsSound ==
  /\ DOMAIN restorers \subseteq ChargeId
  /\ \A act \in DOMAIN limits : limits[act].price >= 0 => limits[act].charge_id \in DOMAIN restorers

\* A use of a charge keeps rows of their type, and none of nothing.
LEMMA ConsumeTyped ==
  ASSUME Sides, NEW table, ChargesTyped(table), NEW user \in Account, NEW id \in ChargeId,
         NEW price \in Int, Chg!can_calc(table, user, id)
  PROVE  ChargesTyped(Chg!consume_charge(table, user, id, price))
<1> DEFINE value == Chg!new_value(table, user, id, price)
           row == [value |-> value, last_update |-> now]
           key == <<user, id>>
<1>1. value \in Int
  <2>1. \A k \in DOMAIN table : table[k] \in Chg!ChargeType
    BY DEF ChargesTyped, IsTable
  <2>2. ChargesInt(table)
    BY <2>1 DEF ChargesInt, Chg!ChargeType
  <2> QED BY <2>2, NewValueInt
<1>2. key \in Account \X ChargeId
  OBVIOUS
<1>3. CASE value > 0
  <2>1. Chg!consume_charge(table, user, id, price) = Put(table, key, row)
    BY <1>3 DEF Chg!consume_charge, Chg!Put, Put
  <2>2. now \in Nat
    BY BoundsAssumption DEF Sides
  <2> HIDE DEF value
  <2>3. row \in Chg!ChargeType
    BY <1>1, <1>3, <2>2 DEF Chg!ChargeType
  <2> HIDE DEF key, row
  <2> QED BY <1>2, <2>1, <2>3, TablePut DEF ChargesTyped
<1>4. CASE ~(value > 0)
  <2>1. Chg!consume_charge(table, user, id, price) = [k \in DOMAIN table \ {key} |-> table[k]]
    BY <1>4 DEF Chg!consume_charge, Chg!Drop
  <2> HIDE DEF key
  <2> QED BY <2>1, TableLess DEF ChargesTyped
<1> QED BY <1>3, <1>4

\* So does an act that has a limit.
LEMMA ChargedTyped ==
  ASSUME Sides, LimitsSound, NEW table, ChargesTyped(table), NEW user \in Account,
         NEW act \in DOMAIN limits, NEW price \in Int,
         limits[act].price >= 0 => Chg!can_calc(table, user, limits[act].charge_id)
  PROVE  ChargesTyped(charged(table, user, act, price))
<1> DEFINE id == limits[act].charge_id
<1>1. limits[act].price \in Int
  BY DEF Sides
<1>2. CASE limits[act].price < 0
  BY <1>2 DEF charged
<1>3. CASE ~(limits[act].price < 0)
  <2>1. charged(table, user, act, price) = Chg!consume_charge(table, user, id, price)
    BY <1>3 DEF charged
  <2>2. Chg!can_calc(table, user, id) /\ id \in ChargeId
    BY <1>1, <1>3 DEF LimitsSound
  <2> HIDE DEF id
  <2> QED BY <2>1, <2>2, ConsumeTyped
<1> QED BY <1>2, <1>3

\* set_vote
LEMMA VoteCharges ==
  ASSUME Sides, LimitsSound, ChargesTyped(charges), NEW voter \in Account, NEW id,
         NEW weight \in Int, set_vote(voter, id, weight)
  PROVE  ChargesTyped(charges')
<1> DEFINE price == vote_price(voter, abs_value(weight))
<1>1. /\ can_vote(voter, abs_value(weight)) /\ EffVesting # {}
      /\ charges' = charged(charges, voter, "vote", price)
  BY DEF set_vote
<1>2. PICK vesting \in EffVesting : TRUE
  BY <1>1
<1>3. price \in Int
  BY <1>1, VoteNumbers
<1>4. "vote" \in DOMAIN limits /\ Chg!can_calc(charges, voter, limits["vote"].charge_id)
  BY <1>1 DEF can_vote, limit_ok
<1> HIDE DEF price
<1> QED BY <1>1, <1>3, <1>4, ChargedTyped

\* createmssg, which charges a post twice
LEMMA CreateCharges ==
  ASSUME Sides, LimitsSound, ChargesTyped(charges), NEW author \in Account, NEW link,
         NEW parent, NEW map, NEW tokenprop, NEW prcnt, NEW payout,
         createmssg(author, link, parent, map, tokenprop, prcnt, payout)
  PROVE  ChargesTyped(charges')
<1> DEFINE act == IF parent = Root THEN "post" ELSE "comment"
           used == charged(charges, author, act, limits[act].price)
           bw == "post bandwidth"
<1>1. /\ limit_ok(act) /\ can_charge(charges, author, act, limits[act].price)
      /\ parent = Root => can_postbw(used, author)
      /\ charges' = IF parent = Root THEN postbw(used, author) ELSE used
  BY DEF createmssg
<1>2. ChargesTyped(used)
  <2>1. act \in DOMAIN limits
    BY <1>1 DEF limit_ok
  <2>2. limits[act].price >= 0 => Chg!can_calc(charges, author, limits[act].charge_id)
    BY <1>1 DEF can_charge, Chg!may_consume
  <2>3. limits[act].price \in Int
    BY <2>1 DEF Sides
  <2> HIDE DEF act
  <2> QED BY <2>1, <2>2, <2>3, ChargedTyped
<1> HIDE DEF used
<1>3. CASE parent = Root
  <2>1. /\ bw \in DOMAIN limits
        /\ limits[bw].price >= 0 => Chg!can_calc(used, author, limits[bw].charge_id)
    BY <1>1, <1>3 DEF can_postbw, limit_ok
  <2>2. charges' = charged(used, author, bw, limits[bw].price)
    BY <1>1, <1>3 DEF postbw
  <2>3. limits[bw].price \in Int
    BY <2>1 DEF Sides
  <2> HIDE DEF bw
  <2> QED BY <1>2, <2>1, <2>2, <2>3, ChargedTyped
<1>4. CASE parent # Root
  BY <1>1, <1>2, <1>4
<1> QED BY <1>3, <1>4

\* golos.charge
LEMMA ChargeStep ==
  ASSUME Sides, LimitsSound, ChargesTyped(charges), Chg!Next, UNCHANGED limits
  PROVE  ChargesTyped(charges') /\ LimitsSound'
<1>1. PICK id \in ChargeId :
        \/ \E user \in Account, price \in UsePrices :
             \/ Chg!usenotify(user, id, price)
             \/ \E cutoff \in Cutoffs : Chg!use(user, id, price, cutoff)
        \/ \E func \in RestorerFuncs : Chg!setrestorer(id, func)
  BY DEF Chg!Next
<1>2. CASE \E user \in Account, price \in UsePrices, cutoff \in Cutoffs \union {-1} :
             Chg!use(user, id, price, cutoff)
  <2>1. PICK user \in Account, price \in UsePrices, cutoff \in Cutoffs \union {-1} :
          Chg!use(user, id, price, cutoff)
    BY <1>2
  <2>2. /\ Chg!can_calc(charges, user, id) /\ UNCHANGED restorers
        /\ charges' = Chg!consume_charge(charges, user, id, price)
    BY <2>1 DEF Chg!use, Chg!may_consume
  <2>3. price \in Int
    BY AmountsAssumption
  <2>4. ChargesTyped(charges')
    BY <2>2, <2>3, ConsumeTyped
  <2> QED BY <2>2, <2>4 DEF LimitsSound
<1>3. CASE \E func \in RestorerFuncs : Chg!setrestorer(id, func)
  <2>1. charges' = charges /\ DOMAIN restorers' = DOMAIN restorers \union {id}
    BY <1>3 DEF Chg!setrestorer, Chg!Put
  <2> QED BY <2>1 DEF LimitsSound
<1> QED BY <1>1, <1>2, <1>3 DEF Chg!usenotify

----------------------------------------------------------------------------
(* The type invariant *)

OthersTyped ==
  /\ IsTable(pinblock, Account \X Account, Soc!PinBlockType)
  /\ IsTable(referrals, Account, Ref!ReferralType) /\ RefParamsSound
  /\ ChargesTyped(charges) /\ LimitsSound

\* Every step leaves the tables of the other contracts with rows of their type.
LEMMA StepOthers == BooksInv /\ OthersTyped /\ [Next]_vars => OthersTyped'
<1> SUFFICES ASSUME BooksInv, OthersTyped, [Next]_vars
             PROVE  OthersTyped'
  OBVIOUS
<1>1. Sides /\ now \in Nat
  BY FewMessages
<1>2. ASSUME UNCHANGED <<contracts, limits>>
      PROVE  OthersTyped'
  BY <1>2 DEF contracts, OthersTyped, RefParamsSound, ChargesTyped, LimitsSound
<1>3. ASSUME UNCHANGED <<pinblock, referrals, ref_params, restorers, limits>>,
             ChargesTyped(charges')
      PROVE  OthersTyped'
  BY <1>3 DEF OthersTyped, RefParamsSound, ChargesTyped, LimitsSound
<1>4. CASE Messages
  <2>1. ASSUME NEW author \in Account, NEW link \in Link,
               NEW parent \in DOMAIN permlinks \union {Root},
               NEW map \in Beneficiaries, NEW t \in TokenProps, NEW c \in CuratorPrcnts,
               NEW x \in MaxPayouts, createmssg(author, link, parent, map, t, c, x)
        PROVE  OthersTyped'
    <3>1. UNCHANGED <<pinblock, referrals, ref_params, restorers, limits>>
      BY <2>1 DEF createmssg, settings
    <3>2. ChargesTyped(charges')
      BY <1>1, <2>1, CreateCharges DEF OthersTyped
    <3> QED BY <1>3, <3>1, <3>2
  <2>2. ASSUME NEW author \in Account, NEW link \in Link,
               NEW parent \in DOMAIN permlinks \union {Root}, NEW import \in Imports,
               addpermlink(author, link, parent, import)
        PROVE  OthersTyped'
    <3>1. UNCHANGED <<contracts, limits>>
      BY <2>2 DEF addpermlink, settings
    <3> QED BY <1>2, <3>1
  <2> QED BY <1>4, <2>1, <2>2 DEF Messages
<1>5. CASE Changes
  <2>1. UNCHANGED <<contracts, limits>>
    BY <1>5 DEF Changes, delpermlink, deletemssg, setcurprcnt, setmaxpayout, settings
  <2> QED BY <1>2, <2>1
<1>6. CASE Voting
  <2>1. PICK voter \in Account, id \in DOMAIN messages, weight \in -Whole .. Whole :
          set_vote(voter, id, weight)
    BY <1>6, VotingForms
  <2>2. UNCHANGED <<pinblock, referrals, ref_params, restorers, limits>>
    BY <2>1 DEF set_vote, settings
  <2>3. weight \in Int
    BY AmountsAssumption
  <2>4. ChargesTyped(charges')
    BY <1>1, <2>1, <2>3, VoteCharges DEF OthersTyped
  <2> QED BY <1>3, <2>2, <2>4
<1>7. CASE Paying
  <2>1. ASSUME NEW id, NEW sent, paymssgrwrd(id, sent) \/ deletevotes(id, sent) \/ close(sent)
        PROVE  UNCHANGED <<contracts, limits>>
    BY <2>1 DEF paymssgrwrd, deletevotes, close, settings
  <2>2. ASSUME NEW id \in DOMAIN deferred, run_deferred(id)
        PROVE  UNCHANGED <<contracts, limits>>
    <3> DEFINE sent == Drop(deferred, id)
    <3>1. close(sent) \/ paymssgrwrd(id, sent) \/ deletevotes(id, sent)
      BY <2>2 DEF run_deferred
    <3> HIDE DEF sent
    <3> QED BY <2>1, <3>1
  <2>3. ASSUME NEW id \in DOMAIN deferred, lose_deferred(id)
        PROVE  UNCHANGED <<contracts, limits>>
    BY <2>3 DEF lose_deferred, settings
  <2>4. ASSUME NEW q \in Fund, on_transfer(q)
        PROVE  UNCHANGED <<contracts, limits>>
    BY <2>4 DEF on_transfer, settings
  <2>5. UNCHANGED <<contracts, limits>>
    BY <1>7, <2>1, <2>2, <2>3, <2>4 DEF Paying
  <2> QED BY <1>2, <2>5
<1>8. CASE Settings
  <2>1. ASSUME NEW act \in DOMAIN LimitRows, NEW row \in LimitRows[act], setlimit(act, row)
        PROVE  OthersTyped'
    <3>1. /\ limits' = Put(limits, act, row) /\ UNCHANGED contracts
          /\ row.price < 0 \/ row.charge_id \in DOMAIN restorers
      BY <2>1 DEF setlimit, Chg!exist
    <3>2. row.price \in Int
      BY AmountsAssumption
    <3>3. LimitsSound'
      <4>1. DOMAIN limits' = DOMAIN limits \union {act} /\ limits'[act] = row
            /\ \A o \in DOMAIN limits \ {act} : limits'[o] = limits[o]
        BY <3>1 DEF Put
      <4>2. restorers' = restorers
        BY <3>1 DEF contracts
      <4> QED BY <3>1, <3>2, <4>1, <4>2 DEF OthersTyped, LimitsSound
    <3> QED BY <3>1, <3>3 DEF contracts, OthersTyped, RefParamsSound, ChargesTyped
  <2>2. ASSUME \/ \E batch \in ParamBatches : setparams(batch)
               \/ \E rules \in RuleSets : setrules(rules)
               \/ syncpool
        PROVE  UNCHANGED <<contracts, limits>>
    BY <2>2 DEF setparams, setrules, syncpool, settings
  <2> QED BY <1>2, <1>8, <2>1, <2>2 DEF Settings
<1>9. CASE Others
  <2>1. limits' = limits
    BY <1>9 DEF Others, posting
  <2>2. CASE Soc!Next /\ UNCHANGED <<referrals, ref_params, charges, restorers>>
    <3>1. IsTable(pinblock', Account \X Account, Soc!PinBlockType)
      BY <2>2, SocialTyped DEF OthersTyped
    <3> QED BY <2>1, <2>2, <3>1 DEF OthersTyped, RefParamsSound, ChargesTyped, LimitsSound
  <2>3. CASE Ref!Next /\ UNCHANGED <<pinblock, charges, restorers>>
    <3>1. RefParamsSound' /\ IsTable(referrals', Account, Ref!ReferralType)
      BY <1>1, <2>3, ReferralTyped DEF OthersTyped
    <3> QED BY <2>1, <2>3, <3>1 DEF OthersTyped, ChargesTyped, LimitsSound
  <2>4. CASE Chg!Next /\ UNCHANGED <<pinblock, referrals, ref_params>>
    <3>1. ChargesTyped(charges') /\ LimitsSound'
      BY <1>1, <2>1, <2>4, ChargeStep DEF OthersTyped
    <3> QED BY <2>4, <3>1 DEF OthersTyped, RefParamsSound, ChargesTyped
  <2> QED BY <1>9, <2>2, <2>3, <2>4 DEF Others
<1>10. CASE Tick \/ UNCHANGED vars
  <2>1. UNCHANGED <<contracts, limits>>
    BY <1>10 DEF Tick, vars, settings
  <2> QED BY <1>2, <2>1
<1> QED BY <1>4, <1>5, <1>6, <1>7, <1>8, <1>9, <1>10 DEF Next

Typed == Tabular /\ balance \in 0 .. MaxBalance /\ OthersTyped

\* Tables are empty at first.
LEMMA StartTyped == Init => Typed
<1> SUFFICES ASSUME Init PROVE Typed
  OBVIOUS
<1>1. DOMAIN EmptyTable = {} /\ IsMap(EmptyTable)
  BY DEF EmptyTable, IsMap
<1>2. ASSUME NEW S, NEW T
      PROVE  IsTable(EmptyTable, S, T)
  BY DEF EmptyTable, IsTable
<1>3. /\ permlinks = EmptyTable /\ messages = EmptyTable /\ votes = EmptyTable
      /\ deferred = EmptyTable /\ balance = 0 /\ limits = EmptyTable
      /\ pinblock = EmptyTable /\ referrals = EmptyTable /\ ref_params = NoParams
      /\ charges = EmptyTable /\ restorers = EmptyTable
  BY DEF Init, Soc!Init, Ref!Init, Chg!Init, Soc!EmptyTable, Ref!EmptyTable, Chg!EmptyTable,
     EmptyTable
<1>4. Tabular
  BY <1>1, <1>3 DEF Tabular
<1>5. 0 \in 0 .. MaxBalance
  BY AmountsAssumption
<1>6. OthersTyped
  BY <1>1, <1>2, <1>3 DEF OthersTyped, RefParamsSound, ChargesTyped, LimitsSound
<1> QED BY <1>3, <1>4, <1>5, <1>6 DEF Typed

\* Rows of their type, in a table, make TypeOK.
LEMMA TypesFollow ==
  ASSUME BooksInv, Places, Known, Typed
  PROVE  TypeOK
<1>1. /\ now \in 0 .. MaxTime /\ last_id \in 0 .. MaxId /\ MaxId \in Nat /\ MaxTime \in Nat
      /\ DOMAIN permlinks \subseteq 1 .. last_id /\ DOMAIN messages \subseteq 1 .. last_id
      /\ DOMAIN votes \subseteq (1 .. last_id) \X Account
      /\ DOMAIN pools \subseteq 0 .. now
  BY BoundsAssumption DEF BooksInv, IInv, Keys, Shapes
<1>2. 1 .. last_id \subseteq 1 .. MaxId /\ 0 .. last_id \subseteq 0 .. MaxId
      /\ 0 .. now \subseteq 0 .. MaxTime
  BY <1>1
<1>3. IsTable(permlinks, 1 .. MaxId, PermlinkType)
  <2>1. \A id \in DOMAIN permlinks : permlinks[id] \in PermlinkType
    BY DEF BooksInv, IInv, Rows
  <2> QED BY <1>1, <1>2, <2>1 DEF Typed, Tabular, IsMap, IsTable
<1>4. IsTable(messages, 1 .. MaxId, MessageType)
  <2>1. ASSUME NEW id \in DOMAIN messages
        PROVE  messages[id] \in MessageType
    <3> DEFINE m == messages[id]
    <3>1. m \in MessageRow
      BY DEF BooksInv, Shapes
    <3>2. MessageKnown(m)
      BY DEF Known, RowsKnown
    <3>3. m.paid_amount \in Int
      BY <3>1 DEF MessageRow
    <3>4. m.paid_amount \in Nat
      <4>1. CASE closed(m)
        <5>1. m.paid_amount >= 0
          BY <4>1 DEF Known, VotesRight, ClaimsRight
        <5> QED BY <3>3, <5>1
      <4>2. CASE ~closed(m)
        <5>1. m.paid_amount = 0
          BY <4>2 DEF BooksInv, NothingPaid
        <5> QED BY <5>1
      <4> QED BY <4>1, <4>2
    <3> HIDE DEF m
    <3>5. m \in MessageType
      BY <3>1, <3>2, <3>4 DEF MessageRow, MessageKnown, MessageType
    <3> QED BY <3>5 DEF m
  <2> QED BY <1>1, <1>2, <2>1 DEF Typed, Tabular, IsMap, IsTable
<1>5. IsTable(votes, (1 .. MaxId) \X Account, VoteType)
  <2>1. ASSUME NEW k \in DOMAIN votes
        PROVE  votes[k] \in VoteType
    <3> DEFINE v == votes[k]
    <3>1. v \in VoteRow
      BY DEF BooksInv, Shapes
    <3>2. VoteKnown(v)
      BY DEF Known, RowsKnown
    <3> HIDE DEF v
    <3>3. v \in VoteType
      BY <3>1, <3>2 DEF VoteRow, VoteKnown, VoteType
    <3> QED BY <3>3 DEF v
  <2>2. DOMAIN votes \subseteq (1 .. MaxId) \X Account
    BY <1>1, <1>2
  <2> QED BY <2>1, <2>2 DEF Typed, Tabular, IsMap, IsTable
<1>6. ASSUME NEW p \in DOMAIN pools
      PROVE  [f \in {"msgs", "funds", "rshares", "rsharesfn"} |-> pools[p][f]] \in PoolStateType
  <2>1. IsPool(pools[p])
    BY DEF BooksInv, Shapes
  <2> QED BY <2>1 DEF IsPool, PoolStateType
<1>7. IsTable(deferred, 0 .. MaxId, {"closemssgs", "paymssgrwrd", "deletevotes"})
  <2>1. DOMAIN deferred \subseteq 0 .. last_id
    BY DEF Places, Unsent
  <2> QED BY <1>2, <2>1 DEF Typed, Tabular, IsMap, IsTable, Transactions
<1> QED BY <1>1, <1>2, <1>3, <1>4, <1>5, <1>6, <1>7 DEF TypeOK, Typed, OthersTyped, ChargesTyped

\* golos.publication and the contracts over its state: every row that any step
\* writes in any table is of its type, so counters stay within their width,
\* percentages below 100% and payments above nothing.
THEOREM PublicationTyped ==
  ASSUME RulesRise
  PROVE  Spec => []TypeOK
<1>1. Spec => Init /\ [][Next]_vars
  BY PTL DEF Spec
<1>2. BooksInv /\ Known /\ Typed /\ [Next]_vars => Typed'
  BY StepTables, StepBalance, StepOthers DEF Typed
<1>3. Init => Typed
  BY StartTyped
<1>4. Spec => [](BooksInv /\ Places /\ Known)
  BY BooksInductive, PlacesInductive, KnownInductive, PTL
<1>5. Spec => []Typed
  BY <1>1, <1>2, <1>3, <1>4, PTL
<1>6. BooksInv /\ Places /\ Known /\ Typed => TypeOK
  BY TypesFollow
<1> QED BY <1>4, <1>5, <1>6, PTL
=============================================================================
