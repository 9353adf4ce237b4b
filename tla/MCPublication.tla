--------------------------- MODULE MCPublication ---------------------------
(* Small instances of Publication, set up in one block of the chain. *)
EXTENDS Publication, TLC

CONSTANTS a, b

Set(f, v) == [field |-> f, value |-> v]

MCParams ==
  [max_vote_changes |-> 2, cashout_window |-> [window |-> 1, upvote_lockout |-> 0],
   max_beneficiaries |-> 2, max_comment_depth |-> 1, social_acc |-> TRUE,
   referral_acc |-> TRUE, curators_prcnt |-> [min |-> 0, max |-> Whole],
   bwprovider |-> [actor |-> FALSE, permission |-> FALSE], min_abs_rshares |-> 0]

Linear == [x \in 0 .. 4 |-> x]
NoPenalty == [x \in 0 .. 1 |-> Whole]
EarlyPenalty == [x \in 0 .. 1 |-> IF x = 0 THEN Whole \div 2 ELSE Whole]

Rules(m, c, p) ==
  [mainfunc |-> m, curationfunc |-> c, timepenalty |-> p, maxtokenprop |-> Whole]

Raised == [x \in 0 .. 4 |-> x + 1]     \* not 0 at 0, but allowed

MCPlain == {Rules(Linear, Linear, NoPenalty), Rules(Raised, Linear, NoPenalty)}

\* What the theorems about payments assume
ASSUME RulesOfRuns == RulesRise

\* Permlinks are told apart and nothing more.
AnyLink == Permutations(Link)

NoBeneficiaries == {EmptyTable}
NoDelegators == {<< >>}

Free(id) == [charge_id |-> id, price |-> -1, cutoff |-> 0]

FreeLimits == [act \in {"post", "comment", "vote", "post bandwidth"} |-> Free(0)]

NoRows == [act \in DOMAIN FreeLimits |-> {}]

\* Parameters, limits and rules have been set.
Configured(parameters, rows, rules, used) ==
  /\ now = 0
  /\ params = parameters /\ limits = rows
  /\ pools = [t \in {0} |-> [rules |-> rules, msgs |-> 0, funds |-> 0,
                             rshares |-> 0, rsharesfn |-> 0]]
  /\ permlinks = EmptyTable
  /\ messages = EmptyTable /\ votes = EmptyTable
  /\ last_id = 0
  /\ deferred = EmptyTable
  /\ balance = 0
  /\ Soc!Init
  /\ referrals = EmptyTable
  /\ charges = used
  /\ given = EmptyTable /\ lost = {}
  /\ astray = [msgs |-> EmptyTable, shares |-> EmptyTable, funds |-> 0, dealt |-> FALSE,
               tree |-> {}]

----------------------------------------------------------------------------
\* Pools and posts: several messages of one author, who votes for them once.
OneVote == [MCParams EXCEPT !.max_vote_changes = 1]

PoolsInit ==
  /\ Configured(OneVote, FreeLimits, Rules(Linear, Linear, NoPenalty), EmptyTable)
  /\ ref_params = NoParams /\ restorers = EmptyTable

PoolsSpec == PoolsInit /\ [][Next]_vars

----------------------------------------------------------------------------
\* Curves: a curation function that load_func lets in, although it falls between
\* the points at which it looks.  The rules may set it, so the pool has it.
Falling == [x \in 0 .. 4 |-> IF x = 3 THEN 9 ELSE x]

CurvesInit ==
  /\ load_func(Falling)
  /\ Configured(OneVote, FreeLimits, Rules(Linear, Falling, NoPenalty), EmptyTable)
  /\ ref_params = NoParams /\ restorers = EmptyTable

CurvesSpec == CurvesInit /\ [][Next]_vars

----------------------------------------------------------------------------
\* Rewards: one message, but voters with delegators, charges and a beneficiary.
\* Votes cost a quarter of the power, and a post more than its limit; b has used
\* up the power to post.
Priced ==
  [act \in DOMAIN FreeLimits |->
     CASE act = "post" -> [charge_id |-> 1, price |-> 0, cutoff |-> 3]
       [] act = "vote" -> [charge_id |-> 0, price |-> 1, cutoff |-> 4]
       [] act = "post bandwidth" -> [charge_id |-> 1, price |-> 2, cutoff |-> 1]
       [] OTHER -> Free(1)]

MCDelegators ==
  {<<[delegator |-> b, interest_rate |-> 1], [delegator |-> a, interest_rate |-> 2]>>}

MCBeneficiaries == {[x \in {a} |-> 3]}

Restore(n) == [prev \in 0 .. 4 |-> [elapsed \in 0 .. 1 |-> n * elapsed]]

TwoSeconds == [MCParams EXCEPT !.cashout_window.window = 2]

Wide == [x \in 0 .. 8 |-> x]

Tired == [k \in {<<b, 1>>} |-> [value |-> 6, last_update |-> 0]]

RewardsInit ==
  /\ Configured(TwoSeconds, Priced, Rules(Wide, Wide, EarlyPenalty), Tired)
  /\ ref_params = NoParams
  /\ restorers = [id \in ChargeId |-> Restore(1)]

RewardsSpec == RewardsInit /\ [][Next]_vars /\ Fairness

----------------------------------------------------------------------------
\* Community: who may write what, and who shares in it.  Nothing has been set
\* but the limits of posts, and nobody votes.
MCBatches ==
  {[i \in DOMAIN PostFields |-> Set(PostFields[i], MCParams[PostFields[i]])],
   <<Set("max_comment_depth", 0)>>}     \* refused

\* A post of before, with a comment still to be added
MCImports == {[level |-> 0, childcount |-> 1]}

MCRows ==
  [act \in DOMAIN FreeLimits |->
     CASE act = "comment" -> {[charge_id |-> 1, price |-> 1, cutoff |-> 1]}
       [] act = "vote" -> {}
       [] OTHER -> {Free(0)}]

MCRestorers == {Restore(1)}

MCRefBatches ==
  {<<Set("breakout", [min |-> 1, max |-> 1]), Set("expire", 1), Set("percent", 2)>>}

MCBeneficiariesOfTwo == {EmptyTable, [x \in {a} |-> 3]}

MCPairs == {<<a, b>>}

CommunitySpec == Init /\ [][Next]_vars
=============================================================================
