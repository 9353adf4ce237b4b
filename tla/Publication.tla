---------------------------- MODULE Publication ----------------------------
(***************************************************************************)
(* golos.publication: posts and comments, votes for them, and the rewards  *)
(* that reward pools pay for them.                                         *)
(*                                                                         *)
(* A post or comment has a permlink, which stays, and until it is paid a   *)
(* message.  Both have the same primary key.  A message belongs to the     *)
(* pool that was last when it was written, and to nothing else of it: the  *)
(* pool keeps only counts and sums.  At its cashout time a message is      *)
(* closed, its reward is taken from the pool, and deferred transactions    *)
(* pay it out: deferred holds them by sender id, which is that of the      *)
(* message.                                                                *)
(*                                                                         *)
(* golos.social, golos.referral and golos.charge, which createmssg and the *)
(* votes read and charge, are modules of their own over the same state.    *)
(* What is read of golos.vesting, golos.ctrl and cyber.token is an input.  *)
(***************************************************************************)
EXTENDS Tables, Sequences

CONSTANTS
  Account, Nobody,  \* Nobody is the empty name
  Banned,           \* accounts that golos.ctrl has banned
  Link,             \* permlinks, as an author names them
  ParamBatches,     \* batches setparams may be called with
  NoParams,         \* the parameters singleton does not exist
  LimitRows,        \* rows setlimit may be called with
  RuleSets,         \* rules setrules may be called with
  Vested,           \* sets of accounts that may have a vesting balance
  EffVesting,       \* effective vesting a voter may have
  DelegatorLists,   \* delegators of a voter and their interest rates
  VoteCounts,       \* what the uninitialised count of a vote starts from
  Percents,         \* weights to vote with, in parts of Whole
  Beneficiaries,    \* maps from accounts to weights
  TokenProps, CuratorPrcnts, MaxPayouts,
  Imports,          \* [level, childcount] given to addpermlink
  Fund,             \* amounts transferred to the contract
  Whole,            \* 100%
  OnePercent,
  DefaultK,         \* use_charge's divisor where a vote has no price
  MaxAmount,        \* the largest asset amount
  CounterRange,     \* counters wrap around here: 2^64 and 2^32 in the code
  MaxClosed,        \* max_closed_posts_per_action
  TargetPayments, MaxPayments, MaxDeletions,  \* ..._per_trx
  MaxTime, MaxId, MaxBalance, MaxLost,  \* bounds
  Administration,   \* whether permlinks are deleted and pools synced by hand
  \* of the other contracts
  Pairs, RefBatches, Expire, Breakout, Percent, MaxRefDeletions,
  ChargeId, RestorerFuncs, UsePrices, Cutoffs

\* Fewer permlinks than a counter can count; identifiers of blockchain accounts
\* are finitely many.
ASSUME BoundsAssumption ==
  /\ MaxId \in Nat /\ CounterRange \in Nat /\ MaxId < CounterRange
  /\ MaxTime \in Nat /\ MaxDeletions \in Nat /\ MaxClosed \in Nat
  /\ Nobody \notin Account /\ IsFiniteSet(Account)

\* Batches are vectors of the variant; times are unsigned.
ASSUME InputsAssumption ==
  /\ Expire \subseteq Nat /\ Breakout \subseteq Int /\ Pairs \subseteq Account \X Account
  /\ \A i \in Imports : i.level \in Nat /\ i.childcount \in 0 .. CounterRange - 1
  /\ \A b \in ParamBatches :
       /\ Len(b) \in Nat /\ DOMAIN b = 1 .. Len(b)
       /\ \A i \in DOMAIN b :
            /\ b[i].field \in {"max_vote_changes", "cashout_window", "max_beneficiaries",
                               "max_comment_depth", "social_acc", "referral_acc",
                               "curators_prcnt", "bwprovider", "min_abs_rshares"}
            /\ b[i].field = "cashout_window" => b[i].value.window \in Int
            /\ b[i].field = "curators_prcnt" =>
                 b[i].value.min \in Nat /\ b[i].value.max \in Nat
  /\ \A b \in RefBatches :
       /\ Len(b) \in Nat /\ DOMAIN b = 1 .. Len(b)
       /\ \A i \in DOMAIN b :
            /\ b[i].field \in {"breakout", "expire", "percent"}
            /\ b[i].field = "percent" => b[i].value \in Nat
            /\ b[i].field = "breakout" => b[i].value.min \in Int /\ b[i].value.max \in Int

\* Amounts, prices and weights are integers, of their sign.  What is delegated
\* to a voter is part of the vesting that votes, so the delegators' parts of it,
\* none of which is zero, are not more than all; with their interest they are
\* less (lines 928 to 940).  Restorers are defined up to a largest argument, to
\* which larger ones are cut.
IsLookup(f) == \E m \in DOMAIN f : \A x \in DOMAIN f : x <= m

IsRestorer(f) ==
  /\ IsLookup(f)
  /\ \A x \in DOMAIN f : IsLookup(f[x]) /\ \A y \in DOMAIN f[x] : f[x][y] \in Int

ASSUME AmountsAssumption ==
  /\ Whole \in Nat \ {0} /\ DefaultK \in Nat \ {0} /\ MaxBalance \in Nat
  /\ EffVesting \subseteq Nat /\ Percents \subseteq 0 .. Whole /\ VoteCounts \subseteq Nat
  /\ TokenProps \subseteq Nat /\ CuratorPrcnts \subseteq Nat
  /\ TargetPayments \in Nat /\ MaxPayments \in Nat
  /\ MaxAmount \in Nat /\ MaxPayouts \subseteq 0 .. MaxAmount
  /\ Fund \subseteq Nat /\ Percent \subseteq Nat /\ UsePrices \subseteq Int
  /\ DelegatorLists \subseteq Seq([delegator : Account, interest_rate : Nat])
  /\ \A list \in DelegatorLists :
       /\ \A d \in DOMAIN list : list[d].interest_rate \in 1 .. Whole
       /\ Total([d \in DOMAIN list |-> list[d].interest_rate]) <= Whole
  /\ \A map \in Beneficiaries : \E S \in SUBSET Account : map \in [S -> Nat]
  /\ \A act \in DOMAIN LimitRows : \A row \in LimitRows[act] :
       row.price \in Int /\ row.cutoff \in Int
  /\ \A f \in RestorerFuncs : IsRestorer(f)

VARIABLES
  now,
  params,       \* pstngparams singleton
  limits,       \* limit table: act -> row
  pools,        \* rewardpools table: time created -> pool
  permlinks,    \* permlink tables of all authors: primary key -> row
  messages,     \* message table: primary key -> row
  votes,        \* vote tables: <<message, voter>> -> row
  last_id,      \* external: the last primary key given out
  deferred,     \* external: deferred transactions, sender id -> what they do
  balance,      \* external: tokens the contract holds
  pinblock,               \* golos.social
  referrals, ref_params,  \* golos.referral
  charges, restorers,     \* golos.charge
  \* history
  given,        \* paid messages: reward, tokens paid, and returned to the pools
  lost,         \* messages of which a deferred transaction did not run
  astray        \* by how much counts, shares and funds were put out of step, whether
                \* tokens were dealt out twice, and permlinks touched by hand

contracts == <<pinblock, referrals, ref_params, charges, restorers>>
settings == <<params, limits>>
history == <<given, lost, astray>>
vars == <<now, settings, pools, permlinks, messages, votes, last_id, deferred,
          balance, contracts, history>>

PostFields ==
  <<"max_vote_changes", "cashout_window", "max_beneficiaries", "max_comment_depth",
    "social_acc", "referral_acc", "curators_prcnt", "bwprovider", "min_abs_rshares">>

\* The accounts of other contracts are modelled by whether they are set.
valid(field, value) ==
  CASE field = "cashout_window" -> value.window > 0 /\ value.window > value.upvote_lockout
    [] field = "max_comment_depth" -> value > 0
    [] field = "curators_prcnt" -> value.min <= value.max /\ value.max <= Whole
    [] field = "bwprovider" -> value.actor = value.permission
    [] OTHER -> TRUE

differs(field, old, new) == old # new

Setter == INSTANCE Params WITH Fields <- PostFields, Immutable <- {}

Soc == INSTANCE Social
Ref == INSTANCE Referral
Chg == INSTANCE Charge

Never == -1     \* microseconds::maximum, the cashout time of a closed message
CloseId == 0    \* sender id of the deferred closemssgs
Root == 0       \* primary key of the parent of a post

closed(m) == m.cashout_time = Never

at(table, key) == IF key \in DOMAIN table THEN table[key] ELSE 0

abs_value(x) == IF x < 0 THEN -x ELSE x

PermlinkType ==
  [author : Account, parentacc : Account \union {Nobody}, parent_id : Nat,
   value : Link, level : Nat, childcount : 0 .. CounterRange - 1]

\* The shares and weights of a message are sums over its votes.
MessageType ==
  [date : Nat, pool_date : Nat, tokenprop : 0 .. Whole,
   beneficiaries : UNION {[S -> 0 .. Whole] : S \in SUBSET Account},
   rewardweight : 0 .. Whole, netshares : Int, voteshares : Nat,
   sumcuratorsw : Nat, curators_prcnt : 0 .. Whole, cashout_time : Nat \union {Never},
   mssg_reward : Int, max_payout : 0 .. MaxAmount, paid_amount : Nat]

VoteType ==
  [weight : -Whole .. Whole, count : Nat,
   delegators : Seq([delegator : Account, interest_rate : 1 .. Whole]),
   curatorsw : Nat, rshares : Int, paid_amount : Nat]

PoolStateType == [msgs : 0 .. CounterRange - 1, funds : Int, rshares : Int, rsharesfn : Int]

Init ==
  /\ now = 0
  /\ params = NoParams /\ limits = EmptyTable
  /\ pools = EmptyTable /\ permlinks = EmptyTable
  /\ messages = EmptyTable /\ votes = EmptyTable
  /\ last_id = 0
  /\ deferred = EmptyTable
  /\ balance = 0
  /\ Soc!Init /\ Ref!Init /\ Chg!Init
  /\ given = EmptyTable /\ lost = {}
  /\ astray = [msgs |-> EmptyTable, shares |-> EmptyTable, funds |-> 0, dealt |-> FALSE,
                tree |-> {}]

----------------------------------------------------------------------------
(* Functions of the rules; they are given on 0 .. maxarg. *)

maxarg(f) == CHOOSE m \in DOMAIN f : \A x \in DOMAIN f : x <= m

\* set_args takes an argument outside the domain to its end.
run(f, x) == f[IF x < 0 THEN 0 ELSE IF x > maxarg(f) THEN maxarg(f) ELSE x]

\* The functions of the rules give a number for every argument.
IsRules(rules) ==
  \A f \in {rules.mainfunc, rules.curationfunc, rules.timepenalty} :
    /\ maxarg(f) \in Nat /\ DOMAIN f = 0 .. maxarg(f)
    /\ \A x \in DOMAIN f : f[x] \in Int

ASSUME RulesAssumption == \A rules \in RuleSets : IsRules(rules)

get_delta(f, old_val, new_val) == run(f, new_val) - run(f, old_val)

\* Only at maxarg, its halves and zero
check_positive_monotonic(f) ==
  LET points == {maxarg(f) \div 2^i : i \in 0 .. 10} \union {0} IN
  /\ f[0] >= 0
  /\ \A x, y \in points : x <= y => f[x] <= f[y]

load_func(f) == maxarg(f) > 0 /\ check_positive_monotonic(f)

\* What those points stand for: that the function never falls
Rising(f) == \A x, y \in DOMAIN f : x <= y => f[x] <= f[y]

RulesRise == \A rules \in RuleSets : Rising(rules.mainfunc) /\ Rising(rules.curationfunc)

----------------------------------------------------------------------------
(* Reward pools *)

last_pool(ps) == CHOOSE p \in DOMAIN ps : \A q \in DOMAIN ps : q <= p

\* get_ratio of one pool is not larger than that of another; without shares it
\* is the largest there is.
ratio_le(p, q) ==
  \/ q.rshares <= 0
  \/ p.rshares > 0 /\ p.funds * q.rshares <= q.funds * p.rshares

\* get_ratio aborts on negative funds; the last of the pools with the least
\* ratio gets the tokens, and without pools nobody does.
can_fill(ps, quantity) ==
  quantity # 0 => \A p \in DOMAIN ps : ps[p].funds >= 0

fill_depleted_pool(ps, quantity) ==
  LET least  == {p \in DOMAIN ps : \A q \in DOMAIN ps : ratio_le(ps[p], ps[q])}
      choice == CHOOSE p \in least : \A q \in least : q <= p IN
  IF quantity = 0 \/ least = {} THEN ps
  ELSE [ps EXCEPT ![choice].funds = @ + quantity]

----------------------------------------------------------------------------
(* Closing: closemssgs *)

\* Mutant of taken: leaves the pool's funds as they were.
taken_none(p, payout) == p.funds

\* Mutant of taken: takes it once more.
taken_twice(p, payout) == p.funds - 2 * payout

\* What is left of the pool's funds
taken(p, payout) == p.funds - payout

\* Division as the machine does it, towards zero
quotient(a, b) ==
  LET q == abs_value(a) \div abs_value(b) IN IF (a < 0) = (b < 0) THEN q ELSE -q

\* The part of a message in the pool, at most what its author asked for
share_of_pool(p, m, sharesfn) ==
  IF sharesfn <= 0 THEN 0
  ELSE Least(quotient(m.rewardweight * p.funds * sharesfn, Whole * p.rsharesfn),
             m.max_payout)

\* One pass of the loop over messages due; c holds the pools it works on, the
\* rewards it gave and whether every check so far has held.
close_one(c, id) ==
  LET m        == messages[id]
      p        == c.pools[m.pool_date]
      sharesfn == run(p.rules.mainfunc, m.netshares)
      only     == p.msgs = 1
      sound    == /\ m.pool_date \in DOMAIN c.pools
                  /\ p.msgs # 0
                  /\ IF only THEN p.rshares = m.netshares /\ p.rsharesfn = sharesfn
                     ELSE /\ sharesfn > 0 => p.rsharesfn > 0
                          /\ p.rsharesfn - sharesfn >= 0
      payout   == IF only THEN p.funds ELSE share_of_pool(p, m, sharesfn)
  IN IF ~c.ok \/ ~sound THEN [c EXCEPT !.ok = FALSE]
     ELSE [ok      |-> only \/ sharesfn <= 0 \/ taken(p, payout) >= 0,
           rewards |-> Put(c.rewards, id, payout),
           pools   |-> [c.pools EXCEPT ![m.pool_date] =
                          [p EXCEPT !.msgs = @ - 1,
                                    !.funds = taken(p, payout),
                                    !.rshares = @ - m.netshares,
                                    !.rsharesfn = @ - sharesfn]]]

due == {id \in DOMAIN messages : ~closed(messages[id]) /\ messages[id].cashout_time <= now}

before(id) ==
  {o \in due : \/ messages[o].cashout_time < messages[id].cashout_time
               \/ messages[o].cashout_time = messages[id].cashout_time /\ o < id}

\* The messages one call closes: the first by cashout time
closing == {id \in due : Cardinality(before(id)) < MaxClosed}

nth_due(i) == CHOOSE id \in due : Cardinality(before(id)) = i - 1

close_all(ps) ==
  LET after[i \in 0 .. Cardinality(closing)] ==
        IF i = 0 THEN [ok |-> TRUE, rewards |-> EmptyTable, pools |-> ps]
        ELSE close_one(after[i - 1], nth_due(i))
  IN after[Cardinality(closing)]

\* Pools left without messages go, except the last.
without_empty(ps) ==
  LET touched == {messages[id].pool_date : id \in closing}
      kept == {p \in DOMAIN ps : \/ p \notin touched
                                 \/ ps[p].msgs # 0
                                 \/ p = last_pool(ps)} IN
  [p \in kept |-> ps[p]]

\* closemssgs on pools ps, with the deferred transactions sent: what it leaves.
\* A payment is sent for each message, without replace; the messages beyond
\* MaxClosed are left to a deferred closemssgs, which replaces one waiting.
closemssgs(ps, sent) ==
  LET c == close_all(ps)
      again == IF closing = due THEN EmptyTable
               ELSE [id \in {CloseId} |-> "closemssgs"]
      table == [id \in DOMAIN sent \union closing \union DOMAIN again |->
                  IF id \in closing THEN "paymssgrwrd"
                  ELSE IF id \in DOMAIN again THEN again[id] ELSE sent[id]] IN
  [ok       |-> params # NoParams /\ c.ok /\ closing \intersect DOMAIN sent = {},
   pools    |-> without_empty(c.pools),
   messages |-> [id \in DOMAIN messages |->
                   IF id \in closing
                   THEN [messages[id] EXCEPT !.cashout_time = Never,
                                             !.mssg_reward = at(c.rewards, id)]
                   ELSE messages[id]],
   deferred |-> table]

\* closemssgs itself, which anyone may call
close(sent) ==
  LET c == closemssgs(pools, sent) IN
  /\ c.ok
  /\ pools' = c.pools /\ messages' = c.messages /\ deferred' = c.deferred
  /\ UNCHANGED <<now, settings, permlinks, votes, last_id, balance, contracts, history>>

\* Tokens from emission or from anyone
on_transfer(quantity) ==
  /\ balance + quantity <= MaxBalance
  /\ can_fill(pools, quantity)
  /\ LET c == closemssgs(fill_depleted_pool(pools, quantity), deferred) IN
     /\ c.ok
     /\ pools' = c.pools /\ messages' = c.messages /\ deferred' = c.deferred
  /\ balance' = balance + quantity
  /\ UNCHANGED <<now, settings, permlinks, votes, last_id, contracts, history>>

----------------------------------------------------------------------------
(* Charges *)

limit_ok(act) == act \in DOMAIN limits

\* What a use of act costs at this price; a negative price is never charged.
can_charge(table, user, act, price) ==
  limits[act].price >= 0 =>
    Chg!may_consume(table, user, limits[act].charge_id, price, limits[act].cutoff)

charged(table, user, act, price) ==
  IF limits[act].price < 0 THEN table
  ELSE Chg!consume_charge(table, user, limits[act].charge_id, price)

\* use_charge of a vote: the power left scales the weight, in steps of k.
vote_k ==
  IF limits["vote"].price > 0 THEN Whole \div limits["vote"].price ELSE DefaultK

voting_power(voter) ==
  Whole - Chg!get_current_value(voter, limits["vote"].charge_id)

used_power(voter, size) ==
  ((size * voting_power(voter)) \div Whole + vote_k - 1) \div vote_k

vote_price(voter, size) ==
  (limits["vote"].price * used_power(voter, size) * vote_k) \div Whole

\* A price above 100% makes k zero, by which the code divides.
can_vote(voter, size) ==
  /\ limit_ok("vote") /\ vote_k # 0
  /\ Chg!can_calc(charges, voter, limits["vote"].charge_id)
  /\ voting_power(voter) >= OnePercent
  /\ can_charge(charges, voter, "vote", vote_price(voter, size))

\* calc_available_rshares, of a voter with this effective vesting
available_rshares(voter, weight, vesting) ==
  LET abs_rshares == (vesting * used_power(voter, abs_value(weight))) \div Whole IN
  IF weight < 0 THEN -abs_rshares ELSE abs_rshares

\* use_postbw_charge and calcrwrdwt: the charge of a post has no cutoff; beyond
\* the limit's it lowers the weight of the reward.
reward_weight(table, author) ==
  LET row == limits["post bandwidth"]
      charge == Chg!new_value(table, author, row.charge_id, row.price) IN
  IF row.price >= 0 /\ charge > row.cutoff
  THEN (Whole * row.cutoff * row.cutoff) \div (charge * charge)
  ELSE Whole

\* A weight above 100%, which a negative limit can bring about, aborts.
can_postbw(table, author) ==
  LET row == limits["post bandwidth"]
      charge == Chg!new_value(table, author, row.charge_id, row.price) IN
  /\ limit_ok("post bandwidth")
  /\ row.price >= 0 => /\ Chg!can_calc(table, author, row.charge_id)
                       /\ charge > row.cutoff => charge # 0
  /\ reward_weight(table, author) \in 0 .. Whole

postbw(table, author) ==
  charged(table, author, "post bandwidth", limits["post bandwidth"].price)

----------------------------------------------------------------------------
(* Posts and comments *)

permlink_of(author, value) ==
  {id \in DOMAIN permlinks : permlinks[id].author = author /\ permlinks[id].value = value}

is_open(id) == id \in DOMAIN messages /\ ~closed(messages[id])

added_child(table, parent) ==
  IF parent = Root THEN table
  ELSE [table EXCEPT ![parent].childcount = (@ + 1) % CounterRange]

\* Mutant of counted: adds the message to the pools as they were before closing.
counted_before(ps, pool) == [pools EXCEPT ![pool].msgs = @ + 1]

counted(ps, pool) == [ps EXCEPT ![pool].msgs = @ + 1]

level_below(parent) == IF parent = Root THEN 0 ELSE permlinks[parent].level + 1

author_of(id) == IF id = Root THEN Nobody ELSE permlinks[id].author

\* Mutant of with_referrer: adds the referrer without looking at the sum.
referrer_unchecked(author, map) ==
  LET r == IF params.referral_acc THEN Ref!account_referrer(author) ELSE {} IN
  IF r = {} THEN {map}
  ELSE {Put(map, referrals[author].referrer, referrals[author].percent)}

\* The beneficiaries with the author's referrer among them, if there is one;
\* none where it is named already or the weights exceed 100%.
with_referrer(author, map) ==
  LET r == IF params.referral_acc THEN Ref!account_referrer(author) ELSE {}
      percent == referrals[author].percent IN
  IF r = {} THEN {map}
  ELSE IF \/ referrals[author].referrer \in DOMAIN map
          \/ Total(map) + percent > Whole THEN {}
  ELSE {Put(map, referrals[author].referrer, percent)}

beneficiaries_ok(map, vested) ==
  /\ \A a \in DOMAIN map : map[a] \in 1 .. Whole /\ a \in vested
  /\ Total(map) <= Whole

\* A post, or a comment when parent is the key of a permlink
createmssg(author, link, parent, map, tokenprop, curators_prcnt, max_payout) ==
  LET c    == closemssgs(pools, deferred)
      pool == last_pool(c.pools)
      act  == IF parent = Root THEN "post" ELSE "comment"
      used == charged(charges, author, act, limits[act].price)
      id   == last_id + 1 IN
  /\ id <= MaxId
  /\ params # NoParams /\ author \notin Banned
  /\ parent = Root \/ parent \in DOMAIN permlinks
  /\ params.social_acc /\ parent # Root => ~Soc!is_blocking(author_of(parent), author)
  /\ curators_prcnt \in params.curators_prcnt.min .. params.curators_prcnt.max
  /\ c.ok /\ DOMAIN pools # {}
  /\ \E vested \in Vested : author \in vested /\ beneficiaries_ok(map, vested)
  /\ limit_ok(act) /\ can_charge(charges, author, act, limits[act].price)
  /\ parent = Root => can_postbw(used, author)
  /\ c.pools[pool].msgs < CounterRange - 1
  /\ permlink_of(author, link) = {}
  /\ level_below(parent) <= params.max_comment_depth
  /\ tokenprop <= c.pools[pool].rules.maxtokenprop
  /\ \E bens \in with_referrer(author, map) :
       /\ Cardinality(DOMAIN bens) <= params.max_beneficiaries
       /\ messages' = Put(c.messages, id,
            [date |-> now, pool_date |-> pool, tokenprop |-> tokenprop,
             beneficiaries |-> bens,
             rewardweight |-> IF parent = Root THEN reward_weight(used, author) ELSE Whole,
             netshares |-> 0, voteshares |-> 0, sumcuratorsw |-> 0,
             curators_prcnt |-> curators_prcnt,
             cashout_time |-> now + params.cashout_window.window, mssg_reward |-> 0,
             max_payout |-> max_payout, paid_amount |-> 0])
  /\ permlinks' = Put(added_child(permlinks, parent), id,
       [author |-> author, parentacc |-> author_of(parent), parent_id |-> parent,
        value |-> link, level |-> level_below(parent), childcount |-> 0])
  /\ pools' = counted(c.pools, pool)
  /\ charges' = IF parent = Root THEN postbw(used, author) ELSE used
  /\ last_id' = id
  /\ deferred' = c.deferred
  /\ UNCHANGED <<now, settings, votes, balance, pinblock, referrals, ref_params,
                 restorers, history>>

\* A permlink without a message, of a post written before the contract was.
\* addpermlinks is a series of these in one transaction.
addpermlink(author, link, parent, import) ==
  LET id == last_id + 1 IN
  /\ id <= MaxId
  /\ IF parent = Root THEN import.level = 0
     ELSE /\ parent \in DOMAIN permlinks
          /\ permlinks[parent].level + 1 = import.level
          /\ permlinks[parent].childcount > 0
  /\ permlink_of(author, link) = {}
  /\ permlinks' = Put(permlinks, id,
       [author |-> author, parentacc |-> author_of(parent), parent_id |-> parent,
        value |-> link, level |-> import.level, childcount |-> import.childcount])
  /\ last_id' = id
  /\ astray' = [astray EXCEPT !.tree = @ \union {id, parent}]
  /\ UNCHANGED <<now, settings, pools, messages, votes, deferred, balance, contracts,
                 given, lost>>

\* Leaves the parent's count as it is, and the children their parent's key.
delpermlink(id) ==
  /\ id \in DOMAIN permlinks
  /\ id \notin DOMAIN messages
  /\ permlinks' = Drop(permlinks, id)
  /\ astray' = [astray EXCEPT !.tree = @ \union {id, permlinks[id].parent_id}]
  /\ UNCHANGED <<now, settings, pools, messages, votes, last_id, deferred, balance,
                 contracts, given, lost>>

may_delete(id) ==
  /\ permlinks[id].childcount = 0
  /\ id \in DOMAIN messages =>
       /\ messages[id].netshares <= 0
       /\ closed(messages[id]) => messages[id].mssg_reward = 0

\* Mutant of without_child: forgets the parent.
without_child_kept(id) == Drop(permlinks, id)

without_child(id) ==
  LET parent == permlinks[id].parent_id IN
  Drop(IF parent = Root THEN permlinks
       ELSE [permlinks EXCEPT ![parent].childcount = (@ - 1) % CounterRange], id)

\* deletemssg takes a message out of its pool's count, also when closemssgs has
\* done so already, and leaves the pool the shares it took from it.
deletemssg(id) ==
  LET m == messages[id]
      p == m.pool_date
      has == id \in DOMAIN messages IN
  /\ id \in DOMAIN permlinks
  /\ may_delete(id)
  /\ permlinks[id].parent_id # Root => permlinks[id].parent_id \in DOMAIN permlinks
  /\ permlinks' = without_child(id)
  /\ has => p \in DOMAIN pools
  /\ messages' = Drop(messages, id)
  /\ pools' = IF has THEN [pools EXCEPT ![p].msgs = (@ - 1) % CounterRange] ELSE pools
  /\ deferred' = IF has THEN Put(deferred, id, "deletevotes") ELSE deferred
  /\ astray' =
       IF ~has THEN astray
       ELSE IF closed(m) THEN [astray EXCEPT !.msgs = Put(@, p, at(@, p) + 1)]
       ELSE [astray EXCEPT !.shares = Put(@, p, at(@, p) + m.netshares)]
  /\ UNCHANGED <<now, settings, votes, last_id, balance, contracts, given, lost>>

----------------------------------------------------------------------------
(* Votes *)

\* No upvotes shortly before the end; after it a message is closed, unless more
\* were due than one call closes.
upvote_time(m) ==
  now > m.date + params.cashout_window.window - params.cashout_window.upvote_lockout
    => now > m.date + params.cashout_window.window

\* Mutant of shifted: forgets the sum that the function weighs.
shifted_only(ps, m, netshares) ==
  [ps EXCEPT ![m.pool_date].rshares = @ - m.netshares + netshares]

\* The pool's sums follow one message from these net shares to those.
shifted(ps, m, netshares) ==
  [ps EXCEPT ![m.pool_date].rshares = @ - m.netshares + netshares,
             ![m.pool_date].rsharesfn =
                @ + get_delta(ps[m.pool_date].rules.mainfunc, m.netshares, netshares)]

\* Mutant of curator_weight: adds the penalised growth to all of it.
curator_weight_doubled(delta, factor) == delta + (delta * factor) \div Whole

\* The curator's weight is the growth of the curation function, less a penalty
\* for being early.
curator_weight(delta, factor) == (delta * factor) \div Whole

\* Mutant of upvoted: takes downvotes off.
up_and_down(m, rshares) == m.voteshares + rshares

\* The sum of upvotes that were first votes
upvoted(m, rshares) == IF rshares > 0 THEN m.voteshares + rshares ELSE m.voteshares

time_factor(rules, m) ==
  LET factor == run(rules.timepenalty, now - m.date) IN
  IF factor > Whole THEN Whole ELSE IF factor < 0 THEN 0 ELSE factor

new_vote(c, id, voter, weight, rshares, delegators, count) ==
  LET m     == c.messages[id]
      rules == c.pools[m.pool_date].rules
      voteshares == upvoted(m, rshares)
      delta == get_delta(rules.curationfunc, m.voteshares, voteshares)
      ps    == shifted(c.pools, m, m.netshares + rshares) IN
  /\ rshares > 0 => upvote_time(m)
  /\ ps[m.pool_date].rsharesfn >= 0
  /\ pools' = ps
  /\ messages' = [c.messages EXCEPT ![id].netshares = @ + rshares,
                                    ![id].voteshares = voteshares,
                                    ![id].sumcuratorsw = @ + delta]
  /\ votes' = Put(votes, <<id, voter>>,
       [weight |-> weight, count |-> count, delegators |-> delegators,
        curatorsw |-> curator_weight(delta, time_factor(rules, m)),
        rshares |-> rshares, paid_amount |-> 0])

\* Mutant of shares_after: forgets what the vote was before.
shares_added(m, v, rshares) == m.netshares + rshares

shares_after(m, v, rshares) == m.netshares - v.rshares + rshares

\* A changed vote gives up its weight as a curator's; voteshares stays.
revote(c, id, voter, weight, rshares) ==
  LET m == c.messages[id]
      v == votes[<<id, voter>>]
      netshares == shares_after(m, v, rshares) IN
  /\ weight # v.weight
  /\ v.count # params.max_vote_changes
  /\ rshares > v.rshares => upvote_time(m)
  /\ pools' = [shifted(c.pools, m, netshares) EXCEPT
                 ![m.pool_date].rshares =
                    c.pools[m.pool_date].rshares - v.rshares + rshares]
  /\ messages' = [c.messages EXCEPT ![id].netshares = netshares,
                                    ![id].sumcuratorsw = @ - v.curatorsw]
  /\ votes' = [votes EXCEPT ![<<id, voter>>] =
       [v EXCEPT !.weight = weight, !.curatorsw = 0, !.rshares = rshares,
                 !.count = (@ + 1) % 256]]

set_vote(voter, id, weight) ==
  LET c == closemssgs(pools, deferred) IN
  /\ c.ok
  /\ id \in DOMAIN permlinks
  /\ id \in DOMAIN messages /\ ~closed(c.messages[id])
  /\ messages[id].pool_date \in DOMAIN c.pools
  /\ \E vested \in Vested : voter \in vested
  /\ can_vote(voter, abs_value(weight))
  /\ \E vesting \in EffVesting :
       LET rshares == available_rshares(voter, weight, vesting) IN
       /\ weight # 0 => abs_value(rshares) >= params.min_abs_rshares
       /\ IF <<id, voter>> \in DOMAIN votes THEN revote(c, id, voter, weight, rshares)
          ELSE \E delegators \in DelegatorLists, count \in VoteCounts :
                 new_vote(c, id, voter, weight, rshares, delegators, count)
  /\ charges' = charged(charges, voter, "vote", vote_price(voter, abs_value(weight)))
  /\ deferred' = c.deferred
  /\ UNCHANGED <<now, settings, permlinks, last_id, balance, pinblock, referrals,
                 ref_params, restorers, history>>

upvote(voter, id, percent) == voter \notin Banned /\ set_vote(voter, id, percent)

downvote(voter, id, percent) == voter \notin Banned /\ set_vote(voter, id, -percent)

\* A banned account may still take a vote back; where there is none this makes
\* one of no weight.
unvote(voter, id) == set_vote(voter, id, 0)

\* The author changes these only while nobody has voted for the message, closed
\* or not: voteshares counts first votes that were upvotes.
setcurprcnt(id, curators_prcnt) ==
  /\ params # NoParams
  /\ curators_prcnt \in params.curators_prcnt.min .. params.curators_prcnt.max
  /\ id \in DOMAIN permlinks \intersect DOMAIN messages
  /\ messages[id].voteshares = 0
  /\ messages[id].curators_prcnt # curators_prcnt
  /\ messages' = [messages EXCEPT ![id].curators_prcnt = curators_prcnt]
  /\ UNCHANGED <<now, settings, pools, permlinks, votes, last_id, deferred, balance,
                 contracts, history>>

setmaxpayout(id, max_payout) ==
  /\ id \in DOMAIN permlinks \intersect DOMAIN messages
  /\ messages[id].voteshares = 0
  /\ max_payout < messages[id].max_payout
  /\ messages' = [messages EXCEPT ![id].max_payout = max_payout]
  /\ UNCHANGED <<now, settings, pools, permlinks, votes, last_id, deferred, balance,
                 contracts, history>>

----------------------------------------------------------------------------
(* Paying: paymssgrwrd *)

voters(id) == {v \in Account : <<id, v>> \in DOMAIN votes}

\* The votes of a message as the index has them, the largest weight first
orders(id) ==
  {ord \in [1 .. Cardinality(voters(id)) -> voters(id)] :
     \A i, j \in DOMAIN ord :
       i < j => /\ ord[i] # ord[j]
                /\ votes[<<id, ord[i]>>].curatorsw >= votes[<<id, ord[j]>>].curatorsw}

\* Mutant of to_pay: forgets what earlier transactions paid for the vote.
to_pay_again(claim, v, now_paid) == claim - now_paid

\* What is left for the voter
to_pay(claim, v, now_paid) == claim - (now_paid + v.paid_amount)

\* One vote of the loop.  Its delegators are paid from the last one on while
\* there is room in the transaction, then the voter; c has the number of
\* payments, their sum, the voters paid in full and the row of one that is not.
pay_vote(c, id, voter, max_rewards) ==
  LET v          == votes[<<id, voter>>]
      claim      == (max_rewards * v.curatorsw) \div messages[id].sumcuratorsw
      dlg_payout(d) == (claim * v.delegators[d].interest_rate) \div Whole
      behind(d)  == {e \in DOMAIN v.delegators : e > d /\ dlg_payout(e) > 0}
      reached    == {d \in DOMAIN v.delegators :
                       c.count + Cardinality(behind(d)) < TargetPayments}
      now_paid   == Total([d \in reached |-> dlg_payout(d)])
      count      == c.count + Cardinality({d \in reached : dlg_payout(d) > 0})
      rest       == to_pay(claim, v, now_paid)
      room       == count < TargetPayments
  IN IF c.stop \/ ~c.place THEN c
     ELSE IF claim = 0 THEN [c EXCEPT !.stop = TRUE]
     ELSE IF room \/ rest = 0
     THEN [ok |-> c.ok /\ rest >= 0, stop |-> FALSE,
           place |-> c.count < TargetPayments,
           count |-> IF rest = 0 THEN count ELSE count + 1,
           paid |-> c.paid + now_paid + rest,
           erased |-> c.erased \union {voter}, partial |-> c.partial]
     ELSE [ok |-> c.ok /\ rest >= 0, stop |-> FALSE, place |-> FALSE, count |-> count,
           paid |-> c.paid + now_paid, erased |-> c.erased,
           partial |-> Put(c.partial, voter,
             [v EXCEPT !.delegators = SubSeq(@, 1, Len(@) - Cardinality(reached)),
                       !.paid_amount = @ + now_paid])]

fill_curator_payouts(id, ord, max_rewards) ==
  LET after[i \in 0 .. Len(ord)] ==
        IF i = 0 THEN [ok |-> TRUE, stop |-> messages[id].sumcuratorsw <= 0 \/ max_rewards <= 0,
                       place |-> TRUE, count |-> 0, paid |-> 0,
                       erased |-> {}, partial |-> EmptyTable]
        ELSE pay_vote(after[i - 1], id, ord[i], max_rewards)
  IN after[Len(ord)]

\* The votes after a transaction that paid c
votes_left(id, c) ==
  [k \in DOMAIN votes \ ({id} \X c.erased) |->
     IF k[1] = id /\ k[2] \in DOMAIN c.partial THEN c.partial[k[2]] ELSE votes[k]]

curation_payout(m) == (m.curators_prcnt * m.mssg_reward) \div Whole

\* The beneficiaries and the author take two payments more than there are
\* beneficiaries.
last_payment(id, c) ==
  /\ c.place
  /\ \/ c.count + Cardinality(DOMAIN messages[id].beneficiaries) + 2 <= MaxPayments
     \/ c.count = 0

unclaimed(m, c) == curation_payout(m) - (c.paid + m.paid_amount)

\* What the beneficiaries take is not more than there is.
beneficiaries_fit(m) ==
  LET rest == m.mssg_reward - curation_payout(m)
      ben_payout(weight) == (rest * weight) \div Whole IN
  Total([a \in DOMAIN m.beneficiaries |-> ben_payout(m.beneficiaries[a])]) <= rest

\* The LOGIC ERROR checks of a payment, and those like them
payment_sound(id, ord) ==
  LET m == messages[id]
      c == fill_curator_payouts(id, ord, curation_payout(m)) IN
  /\ curation_payout(m) >= 0 /\ curation_payout(m) <= m.mssg_reward
  /\ c.ok
  /\ last_payment(id, c) => unclaimed(m, c) >= 0 /\ beneficiaries_fit(m)

\* The rest goes to beneficiaries and author, in tokens and vesting, and what
\* no curator claimed goes back to the pools.  Tokens for an account without a
\* balance leave the contract's balance too: they become its own payments.
pay_last(id, c, sent) ==
  LET m    == messages[id]
      paid == c.paid + (m.mssg_reward - curation_payout(m)) IN
  /\ can_fill(pools, unclaimed(m, c))
  /\ paid <= balance
  /\ id \notin DOMAIN sent
  /\ balance' = balance - paid
  /\ messages' = Drop(messages, id)
  /\ pools' = fill_depleted_pool(pools, unclaimed(m, c))
  /\ deferred' = Put(sent, id, "deletevotes")
  /\ given' = Put(given, id, [reward |-> m.mssg_reward, paid |-> m.paid_amount + paid,
                          returned |-> unclaimed(m, c)])

\* Mutant of send_postreward_trx: sends nothing.
send_no_postreward(sent, id) == sent

send_postreward_trx(sent, id) == Put(sent, id, "paymssgrwrd")

\* More curators than one transaction pays
pay_some(id, c, sent) ==
  /\ c.paid <= balance
  /\ id \notin DOMAIN sent
  /\ balance' = balance - c.paid
  /\ messages' = [messages EXCEPT ![id].paid_amount = @ + c.paid]
  /\ deferred' = send_postreward_trx(sent, id)
  /\ UNCHANGED <<pools, given>>

paymssgrwrd(id, sent) ==
  /\ id \in DOMAIN permlinks \intersect DOMAIN messages
  /\ closed(messages[id])
  /\ \E ord \in orders(id) :
       LET c == fill_curator_payouts(id, ord, curation_payout(messages[id])) IN
       /\ payment_sound(id, ord)
       /\ IF last_payment(id, c) THEN pay_last(id, c, sent) ELSE pay_some(id, c, sent)
       /\ votes' = votes_left(id, c)
  /\ UNCHANGED <<now, settings, permlinks, last_id, contracts, lost, astray>>

\* Mutant of more_votes: never sends another transaction.
no_more_votes(n) == {FALSE}

\* Whether another transaction follows.  With just as many votes as one erases,
\* it does if the index goes on with votes for other messages of the author.
more_votes(n) == IF n = MaxDeletions THEN BOOLEAN ELSE {n > MaxDeletions}

\* Erases votes of a message that is gone, those of the largest weight first.
deletevotes(id, sent) ==
  LET n == Cardinality(voters(id)) IN
  /\ \E ord \in orders(id) :
       votes' = [k \in DOMAIN votes \ {<<id, ord[i]>> : i \in 1 .. Least(n, MaxDeletions)}
                   |-> votes[k]]
  /\ \E more \in more_votes(n) :
       deferred' = IF more THEN Put(sent, id, "deletevotes") ELSE sent
  /\ UNCHANGED <<now, settings, pools, permlinks, messages, last_id, balance, contracts,
                 history>>

----------------------------------------------------------------------------
(* Deferred transactions *)

\* A transaction has left the table when it runs.
run_deferred(id) ==
  LET sent == Drop(deferred, id) IN
  /\ id \in DOMAIN deferred
  /\ \/ deferred[id] = "closemssgs" /\ close(sent)
     \/ deferred[id] = "paymssgrwrd" /\ paymssgrwrd(id, sent)
     \/ deferred[id] = "deletevotes" /\ deletevotes(id, sent)

\* External: it failed, or expired, and nothing of it is left.
lose_deferred(id) ==
  /\ id \in DOMAIN deferred
  /\ Cardinality(lost \union {id}) <= MaxLost
  /\ deferred' = Drop(deferred, id)
  /\ lost' = lost \union {id}
  /\ UNCHANGED <<now, settings, pools, permlinks, messages, votes, last_id, balance,
                 contracts, given, astray>>

----------------------------------------------------------------------------
(* Settings *)

\* Rewards of closed messages that are still to be paid
unpaid ==
  Total([id \in {i \in DOMAIN messages : closed(messages[i])} |->
           messages[id].mssg_reward - messages[id].paid_amount])

open_in(p) == {id \in DOMAIN messages : ~closed(messages[id]) /\ messages[id].pool_date = p}

netshares_in(p) == Total([id \in open_in(p) |-> messages[id].netshares])

sharesfn_in(p, f) == Total([id \in open_in(p) |-> run(f, messages[id].netshares)])

\* A new message adds nothing to rsharesfn, so its reward is to be none either;
\* check_positive_monotonic lets other functions in.
grounded(p) == pools[p].rules.mainfunc[0] = 0

\* New rules make a new pool.  It gets what the balance has beyond the funds of
\* the pools that have messages, unpaid rewards included.
setrules(rules) ==
  LET kept == {p \in DOMAIN pools : pools[p].msgs # 0}
      funds == Total([p \in kept |-> pools[p].funds]) IN
  /\ rules.maxtokenprop \in 0 .. Whole
  /\ load_func(rules.mainfunc) /\ load_func(rules.curationfunc) /\ load_func(rules.timepenalty)
  /\ now \notin kept
  /\ pools' = Put([p \in kept |-> pools[p]], now,
                  [rules |-> rules, msgs |-> 0, funds |-> balance - funds,
                   rshares |-> 0, rsharesfn |-> 0])
  /\ astray' = [astray EXCEPT !.msgs = Put(@, now, Cardinality(open_in(now))),
                              !.shares = Put(@, now, -netshares_in(now)),
                              !.funds = unpaid,
                              !.dealt = @ \/ unpaid # 0]
  /\ UNCHANGED <<now, settings, permlinks, messages, votes, last_id, deferred, balance,
                 contracts, given, lost>>

\* Drops the pools before that of the oldest message and deals the balance out
\* anew, unpaid rewards included, as the shares in the pools are.
syncpool ==
  LET oldest == CHOOSE id \in DOMAIN messages : \A o \in DOMAIN messages : id <= o
      from   == IF DOMAIN messages = {} THEN last_pool(pools)
                ELSE Least(last_pool(pools), messages[oldest].pool_date)
      kept   == {p \in DOMAIN pools : p >= from}
      first  == CHOOSE p \in kept : \A q \in kept : p <= q
      sum    == Total([p \in kept |-> pools[p].rshares])
      amount(p) == IF balance = 0 \/ pools[p].rshares = 0 THEN 0
                   ELSE quotient(balance * pools[p].rshares, sum)
      left   == balance - Total([p \in kept |-> amount(p)]) IN
  /\ DOMAIN pools # {}
  /\ sum = 0 => balance = 0 \/ \A p \in kept : pools[p].rshares = 0
  /\ left >= 0
  /\ pools' = [p \in kept |->
                 [pools[p] EXCEPT !.funds = amount(p) + IF p = first THEN left ELSE 0]]
  /\ astray' = [astray EXCEPT !.funds = unpaid,
                              !.dealt = \/ @ \/ unpaid # 0
                                        \/ \E p \in kept : amount(p) < 0]
  /\ UNCHANGED <<now, settings, permlinks, messages, votes, last_id, deferred, balance,
                 contracts, given, lost>>

setparams(batch) ==
  /\ Setter!accepted(params # NoParams, params, batch)
  /\ params' = Setter!set_parameters(params # NoParams, params, batch)
  /\ UNCHANGED <<now, limits, pools, permlinks, messages, votes, last_id, deferred,
                 balance, contracts, history>>

\* A price below zero is none.
setlimit(act, row) ==
  /\ row.price < 0 \/ Chg!exist(row.charge_id)
  /\ act = "vote" => row.charge_id = 0
  /\ limits' = Put(limits, act, row)
  /\ UNCHANGED <<now, params, pools, permlinks, messages, votes, last_id, deferred,
                 balance, contracts, history>>

Tick ==
  /\ now < MaxTime
  /\ now' = now + 1
  /\ UNCHANGED <<settings, pools, permlinks, messages, votes, last_id, deferred, balance,
                 contracts, history>>

posting == <<params, limits, pools, permlinks, messages, votes, last_id, deferred, balance,
             history>>

----------------------------------------------------------------------------
(* reblog, erasereblog, updatemssg check their arguments and keep no state. *)

Messages ==
  \E author \in Account, link \in Link, parent \in DOMAIN permlinks \union {Root} :
    \/ \E map \in Beneficiaries, t \in TokenProps, c \in CuratorPrcnts, x \in MaxPayouts :
         createmssg(author, link, parent, map, t, c, x)
    \/ \E import \in Imports : addpermlink(author, link, parent, import)

Changes ==
  \E id \in DOMAIN permlinks :
    \/ Administration /\ delpermlink(id)
    \/ deletemssg(id)
    \/ \E c \in CuratorPrcnts : setcurprcnt(id, c)
    \/ \E x \in MaxPayouts : setmaxpayout(id, x)

Voting ==
  \E voter \in Account, id \in DOMAIN messages :
    \/ \E w \in Percents : upvote(voter, id, w) \/ downvote(voter, id, w)
    \/ unvote(voter, id)

Paying ==
  \/ \E id \in DOMAIN messages : paymssgrwrd(id, deferred)
  \/ \E id \in DOMAIN deferred : run_deferred(id) \/ lose_deferred(id)
  \/ close(deferred)
  \/ \E q \in Fund : on_transfer(q)

Settings ==
  \/ \E batch \in ParamBatches : setparams(batch)
  \/ \E act \in DOMAIN LimitRows : \E row \in LimitRows[act] : setlimit(act, row)
  \/ \E rules \in RuleSets : setrules(rules)
  \/ Administration /\ syncpool

Others ==
  \/ Soc!Next /\ UNCHANGED <<now, posting, referrals, ref_params, charges, restorers>>
  \/ Ref!Next /\ UNCHANGED <<now, posting, pinblock, charges, restorers>>
  \/ Chg!Next /\ UNCHANGED <<now, posting, pinblock, referrals, ref_params>>

Next == Messages \/ Changes \/ Voting \/ Paying \/ Settings \/ Others \/ Tick

\* The chain runs what is sent, until it is lost.
Fairness == \A id \in 0 .. MaxId : WF_vars(run_deferred(id))

Spec == Init /\ [][Next]_vars /\ Fairness

----------------------------------------------------------------------------
(* Properties *)

\* Every table holds rows of its type.
TypeOK ==
  /\ now \in 0 .. MaxTime /\ last_id \in 0 .. MaxId /\ balance \in 0 .. MaxBalance
  /\ IsTable(permlinks, 1 .. MaxId, PermlinkType)
  /\ IsTable(messages, 1 .. MaxId, MessageType)
  /\ IsTable(votes, (1 .. MaxId) \X Account, VoteType)
  /\ DOMAIN pools \subseteq 0 .. MaxTime
  /\ \A p \in DOMAIN pools :
       [f \in {"msgs", "funds", "rshares", "rsharesfn"} |-> pools[p][f]] \in PoolStateType
  /\ IsTable(deferred, 0 .. MaxId, {"closemssgs", "paymssgrwrd", "deletevotes"})
  /\ IsTable(pinblock, Account \X Account, Soc!PinBlockType)
  /\ IsTable(referrals, Account, Ref!ReferralType)
  /\ IsTable(charges, Account \X ChargeId, Chg!ChargeType)

\* A pool's count is that of its open messages, but for closed ones that were
\* deleted: closemssgs counted them off, and deletemssg does so again (line
\* 349).  Nothing else that creates, closes or deletes messages, in whatever
\* order, or that replaces pools, makes them differ.
CountsExact ==
  \A p \in DOMAIN pools :
    (pools[p].msgs + at(astray.msgs, p)) % CounterRange = Cardinality(open_in(p))

\* A pool's sums are those of its open messages, but for the shares of deleted
\* ones, which deletemssg leaves in the pool.  Votes, changed votes, votes taken
\* back and closing keep both sums in step, if the main function is 0 at 0.
SharesExact ==
  \A p \in DOMAIN pools :
    /\ pools[p].rshares = netshares_in(p) + at(astray.shares, p)
    /\ grounded(p) => pools[p].rsharesfn = sharesfn_in(p, pools[p].rules.mainfunc)

\* The balance covers the funds of all pools and the rewards still to be paid,
\* until setrules or syncpool counts such rewards as free.
FundsCovered ==
  Total([p \in DOMAIN pools |-> pools[p].funds]) + unpaid <= balance + astray.funds

nothing_astray ==
  /\ \A p \in DOMAIN pools \union {messages[id].pool_date : id \in DOMAIN messages} :
       at(astray.msgs, p) = 0 /\ at(astray.shares, p) = 0
  /\ ~astray.dealt

\* None of closemssgs' LOGIC ERROR checks fails, and every payment it sends has
\* a free sender id, so that votes, posts and transfers, which close first, are
\* never blocked: unless a deletion, a double count or a main function above 0
\* at 0 came before.
ClosingNeverAborts ==
  params # NoParams /\ nothing_astray /\ (\A p \in DOMAIN pools : grounded(p))
    => closemssgs(pools, deferred).ok

\* objects.hpp:153 refuses to compare pools when one has funds below zero, which
\* every transfer does.  A reward that setrules dealt out again leaves the next
\* setrules with less than nothing for its pool.
FundsNotNegative == \A p \in DOMAIN pools : pools[p].funds >= 0

\* That takes such a deal: closing alone, and deletions, never take more from a
\* pool than it has, so until then no transfer fails.
FundsLast == ~astray.dealt => FundsNotNegative

\* golos.publication.cpp:588 calls it a LOGIC ERROR that a message is due in a
\* pool that counts none, and lines 600 to 603 that the last message of a pool
\* does not have all its shares.  Deletions bring both about.
ClosingChecksHold == params # NoParams => closemssgs(pools, deferred).ok

\* Whatever the curators, their delegators and how many transactions it takes,
\* no check of a payment fails: no vote is paid more than its claim, nor all of
\* them and the beneficiaries more than the reward.
PaymentsComplete ==
  \A id \in DOMAIN messages :
    closed(messages[id]) /\ ~astray.dealt => \A ord \in orders(id) : payment_sound(id, ord)

\* A reward waits for a transaction that pays it, and votes for a message that
\* is gone for one that erases them, unless one was lost.
NothingForgotten ==
  /\ \A id \in DOMAIN messages : closed(messages[id]) =>
       \/ id \in lost
       \/ id \in DOMAIN deferred /\ deferred[id] = "paymssgrwrd"
  /\ \A k \in DOMAIN votes :
       \/ k[1] \in DOMAIN messages \union lost
       \/ k[1] \in DOMAIN deferred /\ deferred[k[1]] = "deletevotes"

\* A message never outlives its permlink, which closemssgs dereferences without
\* a check (line 648).  A comment's parent is there and one level above it, and
\* counts its comments: so no message with comments is ever deleted.
\* addpermlink and delpermlink may break this for the permlinks they touch.
TreeSound ==
  /\ DOMAIN messages \subseteq DOMAIN permlinks
  /\ \A id \in DOMAIN permlinks :
       LET parent == permlinks[id].parent_id IN
       /\ id \notin astray.tree =>
            permlinks[id].childcount =
              Cardinality({c \in DOMAIN permlinks : permlinks[c].parent_id = id})
       /\ parent \notin astray.tree \union {Root} =>
            /\ parent \in DOMAIN permlinks
            /\ permlinks[parent].level + 1 = permlinks[id].level
            /\ permlinks[parent].author = permlinks[id].parentacc

\* With the referrer among them, beneficiaries never get more than all of it.
BeneficiariesSound ==
  \A id \in DOMAIN messages :
    Total(messages[id].beneficiaries) <= Whole

\* A referral record that still counts goes only alone and for its breakout;
\* records that others add, or that expire, take none with them that is good for
\* another moment.
ReferralKept ==
  [][LET gone == {r \in DOMAIN referrals \ DOMAIN referrals' : referrals[r].expire >= now} IN
     gone # {} => /\ Cardinality(gone) = 1
                  /\ DOMAIN referrals' \subseteq DOMAIN referrals
                  /\ UNCHANGED <<posting, charges>>]_vars

\* A closed message is paid and its votes are erased, through as many deferred
\* transactions as that takes, unless one of them is lost.
Settled ==
  \A id \in 1 .. MaxId :
    (id \in DOMAIN messages /\ closed(messages[id]))
      ~> \/ id \notin DOMAIN messages /\ voters(id) = {}
         \/ id \in lost
         \/ astray.dealt

\* To the accounts that are paid, rewards are fixed, paid and settled; messages
\* given up are those that have an id and neither a row nor a payment.
rewards_due ==
  [id \in {i \in DOMAIN messages : closed(messages[i])} |->
     [reward |-> messages[id].mssg_reward, paid |-> messages[id].paid_amount]]

given_up == {id \in 1 .. last_id : id \notin DOMAIN messages \union DOMAIN given}

R == INSTANCE Rewards WITH
  Message <- 1 .. MaxId, due <- rewards_due, settled <- given, gone <- given_up,
  tokens <- balance

\* Rewards are fixed once, and paid out and settled as Rewards says.
ImplementsRewards == R!Spec
=============================================================================
