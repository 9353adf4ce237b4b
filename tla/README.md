# Specifications of the Golos contracts

TLA+ models of the `golos.*` smart contracts, the TLC configurations that check
them on small instances and proofs that TLAPS checks for all instances.

## The system

The contracts run on an EOSIO-like chain. An *action* runs to its end alone;
when any `check` in it fails, the whole transaction is undone, with the inline
actions it sent. Inline actions run after the body of the action that sent them,
in the same transaction. *Deferred* transactions run later and apart, under a
sender id that is unique unless sent with `replace`; they may be cancelled,
expire or fail. So the hard parts are not threads but sequences of transactions
in any order, state read before an inline action has been carried out, loops
with a limit per transaction that continue in a deferred one, and checks which,
when they fail, block everybody else's progress.

| Component | State | Operations | Talks to |
|---|---|---|---|
| `golos.vesting` | supply, accounts, delegations, returns, withdrawals, parameters | create, setparams, open, close, retire, unlocklimit, withdraw, stopwithdraw, delegate, undelegate, procwaiting, token transfers received | token (balance, payments), control (`changevest` inline), charge (reads), itself deferred |
| `golos.ctrl` | witnesses with weight and votes, votes per voter, stored authority, bans, parameters | register, unregister, stop, start, vote, unvote, changevest, ban, unban, setparams, token transfers received | vesting (reads a voter's vesting), token (bulk payment), cyber (`updateauth`) |
| `golos.publication` | messages, permlinks, votes, reward pools, limits, parameters | create, update, delete message, import and delete permlinks, vote, change share and payout, close, pay rewards, delete votes, rules, limits, parameters, sync pools | token, vesting, charge, referral, social; itself deferred |
| `golos.emit` | last emission, start time, active flag, parameters | start, stop, emit, setparams | token (issue, transfer to pools); itself deferred |
| `golos.charge` | charge per user and kind, restorer functions | use, usenotifygt, usenotifylt, setrestorer | publication (charges through it) |
| `golos.referral` | referral records, parameters | addreferral, closeoldref, token transfers received | publication (reads), token |
| `golos.social` | pins and blocks, metadata | pin, unpin, block, unblock, updatemeta, deletemeta | publication (reads blocks) |
| parameter helper (`common/parameter.hpp`) | – | validation, immutability, change of a parameter set | all contracts |
| `golos.config`, `golos.memo`, calclib, scripts | – | unfinished, a helper without state, vendored arithmetic, tooling | – |

What makes each one correct, in a sentence:

* **vesting**: shares are claims on the contract's tokens. Shares are owned and
  backed, their price never falls through rounding or order, what is delegated
  and what is being withdrawn overlap at most by what negative returns have added,
  every delegated share comes back, and the payout loop, on which emission
  depends, forgets no record and aborts for no other reason than such returns.
* **control**: the weight of a witness is the vesting of those who vote for it;
  votes, counters and registrations agree; the authority of the community
  account follows the top witnesses; a reward is split without loss.
* **publication**: a pool is the sum of its open messages; what it pays out never
  exceeds its funds; every closed message is paid exactly once, over however
  many transactions; closing never blocks.
* **emission**: one pending emission while active; the pools get exactly what is
  issued; time is not paid for twice.
* **charge**, **referral**, **social**: a charge never exceeds its cutoff and
  restores with time; a referral ends once, by expiry or by payment; a relation
  is a pin or a block, never both.

## Modules

| Module | Content |
|---|---|
| `Tables` | A contract table as a function from primary keys to rows: emplace, erase, typing, sums. |
| `Params` | `common/parameter.hpp`: how a batch of parameters is checked and stored. |
| `Merging` | The same file: how the choices of several witnesses would be merged, by majority or by median. |
| `Vesting` | `golos.vesting` for one symbol, with the part of `cyber.token` and of the deferred scheduler it sees, and its properties. |
| `Shares` | The ledger that `golos.vesting` is to the contracts that read it: who holds how many shares. |
| `Control` | `golos.ctrl` over the ledger `Shares`, with the delivery of `changevest`, and its properties. |
| `Emission` | `golos.emit` with its chain of deferred transactions, and its properties. |
| `Social`, `Referral`, `Charge` | The contracts of these names, one transition per action, over state that `Publication` shares. |
| `Publication` | `golos.publication` for one token, with its deferred transactions, composed with the three, and its properties. |
| `Rewards` | What `golos.publication` promises of rewards, whatever transactions they are paid in. |
| `MCVesting`, `MCControl`, `MCEmission`, `MCPublication` | Parameter sets, inputs, symmetry and initial states for TLC. |
| `SumTheorems` | What sums over finite sets and tables are: the lemmas about `SumOver` and `Total` of `Tables` that the books rest on. |
| `VestingProofs`, `ControlProofs`, `EmissionProofs`, `MergingProofs`, `PublicationProofs` | Inductive invariants and the theorems that follow. |
| `PublicationBooks` | The same for what the pools of `Publication` add up to. |
| `PublicationPayments` | Proofs about what `Publication` pays, and that it implements `Rewards`. |

`Vesting` and `Control` meet in `Shares`. `Vesting` instantiates it over
`vestings`, the vesting of every account row, and `ImplementsLedger` says that
every step of the contract is a step of the ledger or leaves it alone. `Control`
takes the ledger's actions as those of its environment and adds what
`notify_balance_change` does after each: a report. So `Control` covers every
history of balances `Vesting` can produce, and some it cannot, without the detail
of how they come about.

`Publication` instantiates `Social`, `Referral` and `Charge` over its own
variables: what it reads of them (a block, a referrer, a power used up) is their
state at that moment, what it charges is `Charge`'s own operator, and their
actions are steps of `Publication` that leave the rest alone. `Emission`,
`Publication` and `Referral` instantiate `Params` with their fields, validators
and comparisons. What a contract reads of another whose history does not matter
(effective vesting, a token supply, who is banned) is an input. `Publication`
implements `Rewards` (`ImplementsRewards`). `Emission` sends tokens with which
`on_transfer` of `Vesting`, `Control` and `Publication` begins; those take any
amount, so emission is not part of their state.

### Vesting

| Variable | Code |
|---|---|
| `created`, `supply` | row of table `stat` |
| `accounts` | table `accounts`; `limit_symbol` says whether `unlocked_limit` has a symbol |
| `delegation`, `rdelegation`, `withdrawal` | the tables of the same names |
| `params` | singleton `vestparams`, or `NoParams` |
| `balance`, `tokenRows` | external: the contract's balance in `cyber.token`, and who has an open balance there |
| `deferred` | external: a deferred `procwaiting` is scheduled |
| `run` | locals of `procwaiting` while it runs |
| `saved` | what `procwaiting` may change, as its transaction found it |
| `now` | external: block time |
| `orphaned` | history: shares added to the supply and to no account |
| `grown` | history: by how much matured negative returns have raised `delegated`, per account |

One action per contract action, named as in the code; the guard is the
conjunction of the `check`s in their order. Authorisation decides *who* may call,
not what happens, and any user may be the one who calls, so it is left out.
`issuer_transfer` and `issuer_bulk_transfer` are the branches of the transfer
handlers for a transfer of the issuer without a recipient in its memo (that is
how emission arrives).

`procwaiting` is the only action that is not one step. Each iteration of its two
loops reads what the one before wrote, so each is a step (`pay_withdrawal`,
`drop_withdrawal`, `return_delegation`) between `StartRun` and `end_run`, and
while `run.phase` is not idle nothing else is enabled. A failing check in the
loop (`overdraws`, `return_fails`) undoes the transaction: `saved` holds the tables
as it found them, and `abort_run` puts them back, the tokens of the transfer that
started it included; a deferred transaction that fails is gone, and so is the
continuation it would have sent. The loop visits the records that
were due when it started, each once, in index order: `modify` moves a record in
the index it iterates over, and the contract's tests expect the iteration to go
on as if it had not. Payments leave when the transaction's inline actions run,
so the balance falls in `end_run`; until then `run.paid` is the correction that
the code passes to `vesting_to_token`.

After `procwaiting` returns, `on_bulk_transfer` updates the supply through the
table object it read the row with. Whether that object sees the payouts made in
between depends on the caching of `multi_index`, which is not in this repository,
so `end_run` allows both.

Amounts are `int64`, the parameters they are compared with `uint64`, and C++
compares the two as unsigned words; `unsigned` is that conversion, with `WordRange`
for 2^64. Where the amount is known to be positive it changes nothing. `undelegate`
has no other check of the sign of its quantity (line 308; `withdraw`, `retire` and
`delegate` have one): a quantity below zero passes the minimum and the comparison
with the record, adds to the delegation and to what the recipient holds, and leaves a
return with a negative quantity. When that matures, `delegated` rises. So `undelegate`
takes any quantity from `-MaxAmount` to `MaxAmount`, a sum past `MaxAmount`
(`asset::max_amount`) aborts, and the properties name what a negative return breaks and
what it does not. Returns of the same date are visited by their ids
(`available_primary_key`: one above the largest in use), which decides whether a
negative return comes before the one that needs it.

Abstracted: several symbols (one here; the step limit shared among symbols is
therefore per symbol), RAM payers, memo texts (only whether a recipient is
named), events, `interest_rate` (stored, used by publication), the charge of a
delegator (any value of `ChargeLevel`), bulk transfers with more than two entries
for the contract or which mix entries with and without recipient, and the widths of
what is bought and paid (a supply and a balance stay below `asset::max_amount`, as the
tokens behind them do, and products are 128 bits in the code). The widths that a
quantity given by a user can reach are modelled: delegations, returns and what they
add to.

### Control

| Variable | Code |
|---|---|
| `params` | the parameters singleton, or `NoParams` |
| `witness`, `votes`, `banned` | tables `witness`, `witnessvote`, `banaccount` |
| `msig` | singleton `msigauths`; `age` is the time since `last_update`, up to `MaxAge` |
| `shares` | external: balances in `golos.vesting` (`Shares`) |
| `inline` | the `changevest` actions of the current transaction that have not run |
| `authority` | external: accounts and thresholds last sent by `updateauth` |
| `treasury` | external: tokens that `on_transfer` received and did not pass on |
| `resized` | history: `max_witnesses` changed since an authority was sent |

The reports are the hard part. A bulk transfer, or a `procwaiting` with several
payouts, changes several balances in its body and each report runs as an inline
action later. In between, the weight of a witness is stale and each report may
refresh the authority from weights of which some are still stale. `inline` is that
queue, in order, and while it is not empty no other action is enabled, as all
of it is one transaction. Two balances per transaction are enough for one report
to be delivered while another is not.

A step in which `update_auths` would abort (no parameters) is not a step. The
witnesses of equal weight in the `byweight` index may come in any order: the code
leaves it to the order of primary keys, the model leaves it open. A new row of
`witness` does not set its weight and counter in the code; contract memory is
zero and not reused, so they are zero in the model.

Abstracted: the url of a witness and the refusal of a registration that repeats
it, `last_update` of a witness (it decides who may stop a witness, not what
happens), events, the name of the community account, the token and its symbol,
the permission names, and the widths of weights (`TypeOK` says that they do not
go below zero; above, they are bounded by the supply).

### Emission

| Variable | Code |
|---|---|
| `params` | singleton `emitparams`, or `NoParams` |
| `state` | singleton `state`, with the time since `start_time` and `prev_emit` in place of these |
| `pending` | external: deferred `emit` transactions by sender id, which is the token's symbol, and the seconds each still waits |
| `issued` | history: the last emission, its pools and what each got |
| `owed` | history: seconds since the first start that were not yet emitted for |
| `strained` | history: the chain lost a link, or was sent one that will fail |

`emit` is one transition, called by hand (`manual_emit`) or by the scheduler
(`deferred_emit`, which leaves `pending` first and stays gone when `emit` aborts).
`emit_aborts` collects the checks, the division by `narrowing` and the sender id
in use. Times are relative, so that the runs have finitely many states: the idle
time stops at `MaxIdle`, the age at `MaxAge`, where the rate no longer changes
(`BatchesAssumption`). The rate of a year becomes a rate of a moment by
`get_continuous_rate`, a logarithm in floating point: here the table
`ContinuousRate`. A block takes a second and not three, and the bandwidth
provider, who pays for the deferred transaction, is left out.

### Publication

| Variable | Code |
|---|---|
| `params`, `limits`, `pools` | singleton `pstngparams`, tables `limit` and `rewardpools`; a pool's key is the time it was created |
| `permlinks` | the permlink tables of all authors, by primary key |
| `messages` | table `message`, same keys; a closed message has cashout time `Never` |
| `votes` | the vote tables, by message and voter |
| `last_id` | external: primary keys come from the chain database and are never given twice |
| `deferred` | external: what was sent under each sender id, which is the message's key; `CloseId` is that of `closemssgs` |
| `balance` | external: tokens of the contract |
| `pinblock`, `referrals`, `ref_params`, `charges`, `restorers` | tables of the three other contracts |
| `given` | history: for each paid message its reward, what was paid and what went back to the pools |
| `lost` | history: messages of which a deferred transaction was lost |
| `astray` | history: by how much pools and tree were put out of step by the actions known to do so (below) |

`closemssgs` is an operator on the pools and the deferred transactions: posts,
votes and transfers run it first and work on what it leaves, `close` is the action
of that name. It closes at most `MaxClosed` messages in order of their cashout time
and leaves the others, open though due, to a deferred call. Its checks commented
"LOGIC ERROR" become `ok`, and so does the sending of a payment under a sender id
in use: if one fails, no post, vote or transfer can succeed.

`paymssgrwrd` pays voters in the order of the index (equal weights in any order),
each with their delegators from the last one on, while there is room for payments;
the row of a voter whose delegators do not all fit is cut and kept. Then it either
sends itself again or pays beneficiaries and author, returns what nobody claimed,
erases the message and sends `deletevotes`. Anyone may call it between two
deferred ones. `run_deferred` takes a transaction out of the table and runs it; one
that aborts is not a step and stays due. `lose_deferred` is the loss of one.

Four actions are known to put counts and sums out of step, and `astray` records
by how much, so that the properties say that nothing else does: deleting an open
message leaves its shares in the pool, deleting a closed one counts it off again,
`setrules` and `syncpool` count unpaid rewards as free, and `addpermlink` and
`delpermlink` touch the tree without its counts. `astray.funds` is by how much the last
of those exceeded what is free; `astray.dealt` remembers that it happened at all, after
which a pool may be short for ever.

Abstracted: one token; texts, tags and metadata (`updatemssg`, `reblog`,
`erasereblog` check and keep no state); memos and events; fixed-point rounding and
the saturation of shares (`add_cut`); what is paid in vesting and what in tokens
(both leave the balance; tokens for an account without a balance become a row of
the token's own payments); who may call, except for bans, blocks and vesting.
`addpermlinks` and `delpermlinks` are series of single ones. The count of a vote is
not initialised when the row is created (objects.hpp:118), so it starts from any
of `VoteCounts`. `setlimit` must have set every row: the row of the post bandwidth
is dereferenced without a look, here it is a guard. In `golos.charge` paying with
vesting and stored charges are compiled out and left out here, and so are the checks
that an argument fits the fixed-point range. In `golos.social`
metadata is not kept on the chain, and taking back a pin or block that is not there
is no step.

## Runs

| Run | Shows | Bounds |
|---|---|---|
| `vesting_safety` | All safety properties, `PriceNeverFalls` and the refinement of `Shares` for every order of all actions. | 2 interchangeable accounts (`SYMMETRY`), supply up to 2, balance up to 3, 2 parameter sets, time 0..2, deposits of 1 and 2, quantities of `undelegate` from -2 to 2, words modulo 16, 2 withdrawals and 1 return per loop, 2 return records, so that a loop can leave one over |
| `vesting_backlog` | `BacklogIsReached` under fairness. | 1 record per loop, 2 accounts, 2 returns, vesting worth half a token, quantities of `undelegate` from -4 to 4 |
| `control_safety` | All safety properties of `Control`. | 2 voters and 2 candidates, one account both; it alone can be banned; up to 2 shares each, changed by 1; 1 or 2 witnesses, automatic and given thresholds, 1 or 2 votes each; a period of one tick; rewards of 1 and 3 |
| `emission` | All properties of `Emission`, safety and liveness; and the merging of parameters. | 14 batches, of which 5 are refused; 2 or 3 pools; supplies 0, 5 and 8; intervals 1 to 3, up to 4 seconds late, ages up to 2; lists of up to 5 values of 3, every threshold |
| `publication_pools` | Pools stay the sum of their messages, funded, their funds not below zero, and closing never aborts. | 2 messages, 1 author who votes, 2 permlinks, 2 seconds, one message closed per call, 2 sets of rules, a transfer of 3 |
| `publication_rewards` | Payment over several transactions, its liveness and the refinement of `Rewards`. | 1 message, 2 voters with 2 delegators each, a beneficiary, 2 payments per transaction, 1 vote erased per transaction, 1 loss |
| `publication_community` | The tree of permlinks, beneficiaries and referrals. | 2 posts or comments, 2 accounts that may bring in, block and charge each other, 2 seconds, imports |
| `vesting_unlock` | A violation: see Findings. | supply and balance up to 3, 1 return record |
| `vesting_returns` | A violation: see Findings. | supply and balance up to 3, quantities from -3 to 3, 2 return records |
| `control_authority` | A violation: see Findings. | as `control_safety`, without rewards |
| `publication_deletion` | A violation: see Findings. | as `publication_pools` |
| `publication_overdealt` | A violation: see Findings. | as `publication_pools`, a transfer of 1, one set of rules without a function above 0 at 0 |

The bounds (`MaxBalance`, `MaxSupply`, `MaxTime`) stand in guards of the actions
that raise the bounded quantity and nowhere else. Two accounts suffice for the
interactions between an owner and a recipient or two payouts in one loop; a
supply of two lets one account delegate, withdraw and retire parts of one
balance, in prices other than 1:1 (donations by the issuer raise the price,
retirement too); delegating one share, taking back minus one and the two shares that
are then on record is enough for every way in which a negative return makes a loop
abort. `WordRange` only has to be more than twice `MaxAmount` (`WidthAssumption`), as it
is in the code. Two parameter sets let records made under one set be processed
under the other. Time 2 spans a withdrawal in two instalments and its arrears.
Two accounts can delegate to each other; what a third would add to that, `BooksStayBalanced`
covers, for any number of accounts.

In `Control` two voters make a weight a sum, and one that votes for itself and
is banned makes the roles meet. With two candidates there are lists shorter than
`max_witnesses`, full ones, changes of the order and ties. The parameter sets
differ in the number of witnesses, in the thresholds and in the number of votes;
one of them (two signatures of one witness) must be refused, and another may
replace none of the others. A reward of 1 does not reach both witnesses and 3
does not divide. `MaxShares`, `MaxTreasury` and `MaxAge` stand in guards of the
actions that raise them. `MaxTreasury` is zero: a transfer that finds nobody to
pay only stays with the contract, which nothing else depends on, and it is left
out; every transfer that is split is in.

In `Emission` the batches change every field alone and together, to valid and to
refused values; the narrowing of zero, which `validate` asks for, is among them.
Two tokens let an old emission wait while another is started. Percentages
are parts of `Whole` = 4, so that 5 and 8 divide with and without a rest among two
pools and three. The lists to be merged are collected before there are parameters, in
states of their own, as no contract merges them yet.

The runs of `Publication` start where parameters, limits and the first pool are
set, but for `publication_community`, which starts from nothing and sets them.
In `publication_pools` two messages with `MaxClosed` = 1 let one be closed, paid
and deleted while the other waits beyond its time, with pools replaced in between;
one author suffices, as a pool knows nothing of authors, a maximal payout of 1 is below
the share of a message that has all votes of its pool, and rules with and
without a function above 0 at 0 replace each other. The permlinks are
interchangeable (`SYMMETRY AnyLink`). In
`publication_rewards` four payments to delegators and two to voters, with two per
transaction, break off after a delegator, between voters and before the last payment; a
penalty for early votes leaves part of the curators' share unclaimed, which has two
values. One loss suffices to leave each kind of
transaction unrun. `publication_community` has nobody vote; a second comment,
an import with a child to come and deletions of permlinks disturb the tree, and a
post may have a beneficiary of its own besides the referrer.
`MaxTime`, `MaxId`, `MaxBalance` and `MaxLost` stand in guards of the actions that
raise them. `Administration` says whether permlinks are deleted and pools synced by
hand. `Whole` is 2 or 4 in place of 10000, and counters wrap at `CounterRange` = 4
in place of 2^64, so that an underflow is seen as a large count.

What the properties mean:

* `TypeOK` – also says that nothing a row subtracts from goes below zero.
* `LockedWithinVesting` – delegated plus withdrawing is within the balance, up to
  what negative returns have added (`grown`); withdrawing alone is within it always.
* `WithdrawalsSound` – a withdrawal can pay each of its instalments, and its owner has
  a row.
* `AbortsNeedNegativeReturns` – the branches commented "must not happen" are dead, a
  payout overdraws by no more than `grown`, and a check of a return fails only for an
  account with a negative return under way. Without negative quantities, no loop aborts.
* `SupplyIsOwned` – the supply is the sum of the balances, up to `orphaned`.
* `SharesAreBacked`, `PriceNeverFalls` – one loop never promises more tokens than
  there are, shares never lose their backing, and no step lowers the price of a
  share, but for an abort, which restores the one its transaction found. Both except
  states with orphaned shares, which dilute the others.
* `DelegationBooks` – `delegated` is what is delegated plus what is returning,
  `received` and `delegators` agree with the delegation records. The returns are summed
  with their sign: negative quantities leave the books equal, not the parts positive.
* `ImplementsLedger` – every step opens or closes an empty row, changes at most
  two balances, or none; a payout loop takes from any number of accounts when it ends,
  and from nobody when it aborts; nothing is owed.
* `BacklogIsReached` – what one `procwaiting` leaves behind is reached without
  further calls, unless a record that can abort the loop comes up: a withdrawal that
  would overdraw, or a negative return.
* `VotesCounted` – the counter of a witness is the number of lists it is on; no
  list names an unregistered witness or is longer than allowed.
* `WeightIsVesting` – a weight is the vesting of the voters, less what is not yet
  reported.
* `BannedInactive` – no banned account is an active witness.
* `AuthorityFollows` – if the stored list is full, the community account is in
  its hands, unless `max_witnesses` changed since an authority was sent.
* `AuthorityReachable` – the thresholds that were sent are ordered and within
  reach; otherwise `updateauth` would fail and undo what caused the refresh.
* `RewardsSplit` – a reward is handed out whole and without empty payments.
* `ChainAlive`, `EmissionContinues` – while emission is active its next link is on
  the way, and it does emit again. Both except chains that were strained.
* `EverySecondOnce` – the time an emission is for is the time since the last one,
  stops included.
* `SplitFair` – a pool gets its percent, to less than a token, and all is handed out.
* `MajorityFound`, `MedianInMiddle` – `have_majority`, which leaves its loop when no
  value has a chance any more, finds what counting finds, and the value it returns is it;
  `get_median` finds the middle.
* `CountsExact`, `SharesExact` – a pool counts its open messages and is the sum of
  their shares, up to `astray`.
* `FundsCovered` – the balance covers funds and unpaid rewards, until `setrules` or
  `syncpool` spends some twice.
* `FundsLast` – no pool has funds below zero, at which `get_ratio` aborts every transfer,
  until `setrules` or `syncpool` spends some twice. `FundsNotNegative` is the same
  without that exception.
* `ClosingNeverAborts` – no "LOGIC ERROR" of `closemssgs` and no sender id in use,
  unless something went astray or a function is above 0 at 0.
* `PaymentsComplete` – no check of a payment fails, so no claim is exceeded.
* `NothingForgotten`, `Settled` – a closed message has a payment on the way, and is
  paid and its votes erased in the end, losses excepted.
* `ImplementsRewards` – a reward is fixed once, and what is paid and returned in all
  transactions together is the reward.
* `TreeSound` – no message without permlink, no comment without parent; the count of
  children is right.
* `BeneficiariesSound` – the referrer included, they get no more than all.
* `ReferralKept` – a referral that counts is removed only by its own breakout.

### Fairness

`BacklogIsReached` assumes weak fairness of the steps inside a transaction
(`RunStep`: a transaction does not stop half-way) and of `deferred_procwaiting` (the
scheduler executes what is scheduled), and that no deferred transaction is lost
(`FairSpec` takes the steps of `Step`, which are those of `Next` without `DeferredLost`;
with it the property fails, as the code keeps no other reminder; the next transfer of
the issuer starts the loop again). That a deferred `procwaiting` which aborts is gone is
in the model: `abort_run` does not schedule it again.

`EmissionContinues` assumes that time passes (`Tick`) and that a deferred emit whose
delay is over is executed, `Settled` that a deferred transaction of a message is
(`run_deferred`). Both hold with losses in the model: a message of which one was
lost, or a strained chain, is excepted by name. No user action is fair anywhere,
and stopping the emission is allowed at any time.

## Findings

* `EveryBalanceCanBeUnlocked` is violated: `add_balance` creates a row without
  the symbol of `unlocked_limit`. Such a row refuses `unlocklimit` for ever, and
  nothing of it can be retired, until it is emptied, closed and opened again.
* `ReturnChecksHold` is violated: `return_delegations` says of its checks that they "can
  only fail on broken system". An account delegates some shares, takes back a quantity
  below zero, which adds to the delegation on record but not yet to what the account has
  delegated, and then takes back all that is on record. If the second return is due
  before the first (the return time was shortened in between), `delegated` is less than
  it, and the whole `procwaiting` is undone, with everybody's payouts; and again by the
  next one, until the first is due too. A check of the sign at line 308 restores what the comment
  says. `AbortsNeedNegativeReturns` and `LockedWithinVesting` are what remains true.
* `FullListIsSent` is violated: `update_auths` stores a list that is too short to
  be sent and later compares with what is stored. Once `max_witnesses` is lowered
  to the length of that list it is full, but as it is unchanged it is never sent.
  `AuthorityFollows` is what remains true.

* `ClosingChecksHold` is violated: `deletemssg` counts a closed message with a reward
  of zero off its pool, which `closemssgs` has done before. Create a message, let the
  creation of a second one close it, delete it: its pool counts no message while the
  second is open. When that is due, `closemssgs` aborts with "LOGIC ERROR", and
  every post, vote and transfer to the contract with it. `ClosingNeverAborts` is
  what remains true.
* `FundsNotNegative` is violated: `setrules` and `syncpool` take the contract's balance less
  the funds of the pools for free tokens, although the rewards of closed messages are still
  in it. Dealt out again, they are paid and missing, so the next `setrules` creates a pool
  with negative funds; `get_ratio` refuses to compare such a pool, and every transfer to
  the contract aborts. `FundsLast` and `FundsCovered` are what remains true.

Not disagreements with a document, but visible in the models:

* A negative return that has matured leaves an account with more delegated than it has,
  by up to `grown`; an instalment of its withdrawal then overdraws, and the loop aborts
  at every run until the withdrawal is stopped or the account buys more. `golos.publication` reads the same
  figures (see `AmountsAssumption` under Proofs).
* `delegate` compares with the minimum for withdrawals (line 234 reads
  `min_amount.min_amount`), `undelegate` with the one for delegations, of which
  docs/en-US/golos.vesting_contract.md:69 says that less may not be specified. A smaller
  delegation is accepted and cannot be taken back until it is enlarged. The parameter
  sets of `MCVesting` include the case.
* A bulk transfer of the issuer without recipient mints shares that belong to nobody
  (`orphaned`).
* A raised interval makes the deferred emit that waits fail as too early, and a
  narrowing of zero, which `validate` demands of a constant rate, divides by zero;
  emission stops until somebody calls `emit`, in the second case after a change of the
  rate (`strained`).
* `check_positive_monotonic` looks at twelve points. It allows functions above 0 at 0, with
  which the last message of a pool cannot be closed, and curation functions that fall
  between the points: a vote then weighs less than nothing, the others may claim more than
  all curators are to get, and `paymssgrwrd` aborts at "unclaimed_rewards < 0", again at
  every retry. `PublicationCurves.cfg` with `MCPublication` shows the latter, for a function
  with the values 0, 1, 2, 9, 4; it is not among the runs.
* Deleting a message with downvotes leaves its shares in the pool
  (`astray.shares`).
* The comparison of breakout parameters in `golos.referral` looks at `min` twice,
  so that a change of `max` alone is refused as no change (parameters.hpp:27).
* The count of changes of a new vote is not initialised.

## Proofs

The proofs hold for all accounts, pools, rules and amounts, and for all parameters
that the contracts' validation lets in. What they assume of the constants is named
in the module that declares them, and TLC evaluates it in every run:

* `ParamsAssumption` (`Vesting`, `Control`): parameters are what `validate` lets in.
* `BoundsAssumption` (all): bounds and amounts are numbers of their sign, scales and
  percentages have a positive denominator, accounts of `Publication` are finitely
  many, and its counters hold more than there are keys.
* `BatchesAssumption` (`Emission`), `InputsAssumption` (`Publication`): a batch is a
  vector of known fields, its numbers in range, as the variant of the code has it.
  Nothing is assumed of its validity: that is checked in the model.
* `MergingAssumption` (`Merging`): the values to be merged are numbers; what the code
  compares by `operator<` is compared as numbers.
* `RatesAssumption` (`Emission`): the rate of a moment is a number between the rates
  that were validated.
* `AmountsAssumption` (`Publication`): weights, prices, payouts and percentages are
  numbers of their sign, percentages of votes are within 100%, and a restorer is defined up
  to a largest argument. The delegators listed with a vote have parts of it that add up to no
  more than all, as what they delegated is part of the vesting that votes
  (golos.publication.cpp:928 to 940). That rests on two facts of `Vesting`: what an account
  has received is the sum of the delegations to it (`DelegationBooks`), and what it has
  delegated is within its vesting (`LockedWithinVesting`). The second holds while
  `grown` is 0 only: after a negative quantity in `undelegate` has matured, the effective
  vesting may be less than what was received, and the parts of the delegators more than
  all. `Publication` says nothing of votes cast by such an account.
* `RulesAssumption` (`Publication`): the functions of a rule give a number for every
  argument. That they are monotone, or 0 at 0, is not assumed.

Four theorems have a hypothesis besides, `RulesRise`: that no function of a rule falls
anywhere. It is what `check_positive_monotonic` is for and more than it checks, and payments do abort
without it (`PublicationCurves.cfg`, see Findings), so it cannot be dropped.
The rules of the runs meet it (`RulesOfRuns` of `MCPublication`), and so do, but for
rounding, the linear and the saturating functions the contract's tests use.

| Module | Theorem | Statement |
|---|---|---|
| `VestingProofs` | `TypeCorrect` | `Spec => []TypeOK` |
| | `LockedStaysWithinVesting` | `Spec => []LockedWithinVesting` |
| | `WithdrawalsStaySound` | `Spec => []WithdrawalsSound` |
| | `OnlyNegativeReturnsAbort` | `Spec => []AbortsNeedNegativeReturns` |
| | `VestingIsALedger` | `Spec => ImplementsLedger` |
| | `SupplyStaysOwned` | `Spec => []SupplyIsOwned` |
| | `SharesStayBacked` | `Spec => []SharesAreBacked` |
| | `PriceOnlyRises` | `Spec => PriceNeverFalls` |
| | `BooksStayBalanced` | `Spec => []DelegationBooks` |
| `ControlProofs` | `BansHold` | `Spec => []BannedInactive` |
| | `AuthorityStaysInStep` | `Spec => []AuthorityFollows` |
| | `AuthorityStaysReachable` | `Spec => []AuthorityReachable` |
| | `VotesStayCounted` | `Spec => []VotesCounted` |
| | `WeightsStayTrue` | `Spec => []WeightIsVesting` |
| | `ControlTyped` | `Spec => []TypeOK` |
| | `RewardsStaySplit` | `Spec => []RewardsSplit` |
| `EmissionProofs` | `ParametersStayValid` | `Spec => []TypeOK` |
| | `ChainStaysAlive` | `Spec => []ChainAlive` |
| | `SecondsCountOnce` | `Spec => []EverySecondOnce` |
| | `EmissionsStayFair` | `Spec => []SplitFair` |
| `MergingProofs` | `MajorityIsFound` | `SpecMerging => []MajorityFound` |
| | `MedianIsInMiddle` | `SpecMerging => []MedianInMiddle` |
| `PublicationProofs` | `NothingIsForgotten` | `Spec => []NothingForgotten` |
| | `TreeStaysSound` | `Spec => []TreeSound` |
| | `ReferralsAreKept` | `Spec => ReferralKept` |
| `PublicationBooks` | `CountsStayExact` | `Spec => []CountsExact` |
| | `SharesStayExact` | `Spec => []SharesExact` |
| | `FundsStayCovered` | `Spec => []FundsCovered` |
| | `BeneficiariesStaySound` | `Spec => []BeneficiariesSound` |
| `PublicationPayments` | `FundsStayThere` | `Spec => []FundsLast` |
| | `PaymentsStayComplete` | `RulesRise` implies `Spec => []PaymentsComplete` |
| | `ClosingStaysSound` | `RulesRise` implies `Spec => []ClosingNeverAborts` |
| | `PublicationPaysRewards` | `RulesRise` implies `Spec => ImplementsRewards` |
| | `PublicationTyped` | `RulesRise` implies `Spec => []TypeOK` |

**Sums.** Most of what these contracts promise is a sum: a supply, a weight, a pool, a
reward handed out. `SumOver` takes elements out of a finite set one by one, by a recursive
function, and facts about it want an induction. The library states induction with a
predicate as a parameter, which the provers cannot instantiate, so `SumTheorems` looks
at a smallest counterexample instead: the strict subsets of a finite set are well
founded, hence a collection of finite sets that is not empty has a smallest member
(`SmallestSet`), and the members that fail some fact are such a collection. That the
recursion defines a function at all is shown the same way (`SumExists`, `SumUnique`). From
there on come what a caller needs: an element more or less, a value changed
(`SumChange`), monotony, scaling, parts, renaming, zeros. Loops of the code that
are recursive functions (the ones of `closemssgs` and of `paymssgrwrd`) are
treated likewise: a function that does what the recursion says exists
(`SmallestNumber`), and what each pass keeps the whole loop keeps.

**Vesting.** None of the invariants is inductive alone. Types need the locks
(retiring subtracts from the balance what is not locked), the locks need sound
withdrawals (a payout takes the same from the balance and from the lock only if
an instalment fits in what is left), sound withdrawals need the locks (only a
locked, hence positive balance keeps `close` from removing the owner's row), and
payouts need all three and that the loop's records exist. With negative returns two
things have to be said apart: what is delegated is covered by the vesting and `grown`,
what is being withdrawn by the vesting alone. An abort puts back tables of an earlier
state, so they must have been sound then. The invariant `IInv` is the conjunction of
`TypeOK`, `LockedWithinVesting`, `WithdrawalsSound`, `RunSound` (the records the loop
still has to visit) and `SavedSound` (the same of the tables in `saved`); there is one
lemma per action or group of actions, and lemmas for the table operations, the
conversions and the instalments. `Phases` sorts the steps into those that leave a
transaction idle, start one, are inside one or end it, so that what is said of `saved` is
shown once per kind.

For the books, `SupplyInv` adds to it that the supply is owned, that shares are minted to
nobody and burnt only in whole numbers, and that shares have tokens behind
them (`Backed`), and `SavedSupply` the same of what was saved. Then each conversion
rounds down at a price which the entries before it cannot have lowered, which is
`PriceKept` of the step. `DelegationInv` and `SavedBooks` do so for the delegations. No
delegation record is empty or negative, as their type says: a negative quantity only adds,
and one that takes all erases the record. So an account without received power counts
no delegator, it leaves no record behind when it is closed, and a row opened anew may
start at zero. That a failing return needs a negative one (`ReturnHolds`) then is a
sum: what is delegated is what is on record, which is positive, and what is returning,
and were all returns of the account positive, none could be more than their sum. That
both checks of the loop fail for nothing else is `OnlyNegativeReturnsAbort`.

**The ledger.** A step refines the ledger if it changes one balance (`OneBalance`),
two (`TwoBalances`) or none. Other contracts see what transactions have committed
(`committed`), so a payout loop is one step, `pay_out`, when it ends, and none when it aborts. That the new balances are not below zero is `TypeOK`
of the next state, so the proof rests on the inductive invariant before and
after the step.

**Control.** `IInv` is the conjunction of `RowsSound` (what of the types the rest
needs), `ParamsSound` (the installed parameters passed `check_msig_perms`, although
`setparams` checks only what changed), `MsigSound` (no list is stored before there are parameters),
`BannedInactive`, `AuthorityFollows` and `AuthorityReachable`. The thresholds need
`ParamsSound` at the moment an authority is sent and the number of its accounts
being `max_witnesses` then; later changes of the parameters do not touch what was
sent.

`VotesCounted` has an invariant of its own, `VotesInv`: the counter of a witness is
the cardinality of the set of its voters, so that set has to be finite (nobody has
voted in the initial state, and a vote adds one) and the rows rows. A witness that is not
registered is on no list, which is why a new row may start at zero.

`WeightInv` sums what each voter is *known* to hold (`told`): its shares less the
reports under way. A report moves an amount from one to the other without changing the
weight that is true (a transaction reports each account once, `InlineSound`), and as no
report takes more than there was, the weights, which are unsigned, stay natural:
that is why `TypeOK` follows from `WeightIsVesting` and not the reverse. For
`RewardsSplit` the winner's part is the total less the equal parts of the others, which
the sum then adds up again (`PaymentsSplit`).

**Emission.** `ChainAlive` needs `ChainSound`: some emit that waits will not be too
early, as its delay and the time since the last emission make up the interval. A tick
moves a second from one to the other; a stop cancels only the emit of the present
token, but then nothing is active; a change of the token leaves the old emit waiting,
which is good for the chain still. `FromBatches` and `NarrowingKnown` say where the
parameters come from and that a narrowing of zero has strained the chain.
Types and `EverySecondOnce` complete `IInv`. `SplitFair` needs that pools which passed
`validate` have different names and just one of 0% (`NamesDiffer`, `HandedOut`), so
that the table of shares sums up as the list of pools does.

**Publication.** `IInv` is the conjunction of `Keys` (which keys each table may have),
`Rows` (the fields the proof looks into), `WindowSound` (the cashout window passed
`validate`, so that no message is born with the cashout time of a closed one),
`NothingForgotten` and `TreeSound`. For `NothingIsForgotten`, whatever
closes a message sends its payment (`ClosingSends`, used by five actions), a payment
sends the next one or `deletevotes`, and the latter sends itself while votes are left.
For the tree, counting children needs the set of accounts' permlinks to be finite
and fewer than a counter holds. `ReferralKept` follows from each action of
`Referral` alone, as `closeoldref`, which every one of them runs, erases only
expired records.

The books of a pool are `BooksInv`. Besides `IInv`, the shapes of the rows and the
four properties it has two parts nobody would look for first:

* `YoungPool`: what belongs to a pool made this very second is open and not due, and the
  pool is still there. The key of a pool is the second it was made in, so rules set
  twice in one second replace the row; without this part, messages could be
  left whose shares the new row lacks.
* `NothingPaid`: a message that is open, or has a reward of zero, has been paid nothing.
  Otherwise closing or deleting one would drop tokens from what is promised.

Nearly every action closes what is due first, so the invariant is stated once more
over any pools and messages (`Books`), and `closemssgs` keeps it: the messages it closes
are those of the first ranks (`rank`), each pass takes one from its pool and adds its
reward to what is promised, and if no check failed at the end none failed before.
Counters that wrap are compared modulo `CounterRange`: a pool has fewer open
messages than that, so equal remainders are equal counts. For `FundsCovered`, tokens
that come in fill pools by at most what they are (`FillKeeps`), a partial payment
takes from the promise what leaves the balance (`RewardPaid`), and with the
message goes all that was promised for it, part of it back into pools
(`RewardGone`).

**Payments.** Added to `BooksInv` are two invariants, and a third for types:

* `Places` says where things stand. Later messages belong to later pools, of which there is
  always one left; an open message has its pool, unless deletions put the count out;
  nothing is sent for an open message; what was settled has no row. And until tokens are
  dealt out twice, no funds and no reward are below zero (`Solvent`), which is `FundsLast`.
* `Known` says what rows have been since they were made: rules that passed `load_func` and
  never fall, percentages within 100%, delegators whose interest rates add up to no more
  than all. Above all, the weights of a message's votes add up to at most `sumcuratorsw`
  (`WeightsRight`), as each is the difference that its vote made to the curation
  function, and once it is closed what was paid and what the votes left may still claim
  is at most the curators' part (`ClaimsRight`): one payment takes from the claims what
  it adds to what was paid. The same holds one level down, of a vote and its delegators.
* `Typed` is what types need besides: that every table is a map and holds nothing else.
  Most numbers that a contract subtracts from are natural only because claims are
  covered, so `TypeOK` follows from `Known` and not the reverse.

`paymssgrwrd` is two nested loops, over voters and over their delegators, cut off when the
room for payments is used up. The loops are recursive functions, treated like those of
`closemssgs`: what each pass keeps the whole keeps, wherever it breaks off. For
`ClosingNeverAborts`, a pool with messages due has at least their shares, as `BooksInv` says, so
the subtraction and the division in the loop are defined; and `Places` says that the
sender ids of open messages are free. For the refinement every action leaves `rewards_due`, `given`
and `given_up` alone but three: closing fixes the rewards of all it closes in one step, a
payment raises what was paid by what leaves the balance or settles the rest, and a deletion
gives a message up.

**Merging.** `Scanned` is what the loop of `have_majority` knows after some values: no value
occurred more often than `max_count`, what was found occurs often enough, and where the loop
gave up no value can, since each position that is left adds at most one (`TimesRest`). For the
median, every list can be sorted (`SortingExists`, again from a smallest counterexample), so
`nth_element` has something to find, and what stands below the median comes from positions
before it, what is above from positions behind (`FilledFrom`).

Only model-checked are the liveness properties: `BacklogIsReached`, `EmissionContinues` and
`Settled`. The provers know no fairness and no ENABLED.

## Not modelled

* `golos.config` is unfinished: `updateparamse` is not dispatched, `notifytop` is empty
  and the list of top witnesses is always empty, so nothing is ever merged; what is left
  stores thresholds nobody reads. The merging itself is in `Merging`.
* `golos.memo` and `calclib` keep no state. The functions of the reward rules, parsed
  and evaluated by calclib, are tables over small arguments.
* `cyber.token`, `cyber.bios`, the chain database and the scheduler are not in the
  repository; they are modelled where a contract uses them.
* Scripts that build, deploy and migrate.

## Plan

Done: all contracts that keep state, their composition where they interact, the
refinements `Shares` and `Rewards`, and theorems about every contract with deferred
transactions.

Every invariant that a run checks of a contract's state is a theorem, and so is every
refinement and action property.

Left: several tokens and symbols at once, which share limits per transaction in
`procwaiting`.
