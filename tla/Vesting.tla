------------------------------- MODULE Vesting -------------------------------
(***************************************************************************)
(* golos.vesting for one symbol: the price of a vesting share, delegation, *)
(* withdrawal by instalments and the procwaiting loop that pays them.      *)
(*                                                                         *)
(* Every action is one transaction, with one exception.  procwaiting pays  *)
(* up to MaxSteps withdrawals and returns up to MaxReturns delegations in  *)
(* two loops whose every iteration reads what the one before it wrote, so  *)
(* an iteration is a step of its own and variable run holds the locals of  *)
(* the loops.  While run.phase # "idle" no other action is enabled, as     *)
(* nothing interleaves with a transaction.  A check that fails in a loop   *)
(* aborts the whole transaction: saved holds the tables as the transaction *)
(* found them, and abort_run puts them back.                               *)
(*                                                                         *)
(* Amounts are int64 and parameters uint64, so a comparison of the two     *)
(* takes the amount for an unsigned word (unsigned).  undelegate has no    *)
(* other check of its quantity's sign: negative quantities pass.           *)
(***************************************************************************)
EXTENDS Tables

CONSTANTS
  Account,      \* user names
  ParamSets,    \* values setparams may install
  NoParams,     \* the parameters singleton does not exist
  ReturnId,     \* primary keys of the rdelegation table
  ScaleUp,      \* 10^(vesting precision - min precision), in fix_precision
  ScaleDown,    \* 10^(token precision - min precision)
  MaxSteps,     \* max_steps of process_withdraws (16 in the code)
  MaxReturns,   \* max_steps of return_delegations (16 in the code)
  ChargeLevel,  \* values charge::get_current_value may return to delegate
  Deposit,      \* token amounts transferred to the contract
  Limit,        \* amounts given to unlocklimit
  Fickle,       \* accounts that may open and close their token balance
  WordRange,    \* 2^64
  MaxAmount,    \* asset::max_amount, 2^62 - 1 in the code
  MaxBalance,   \* bound on the contract's token balance
  MaxSupply,    \* bound on the shares one conversion may lead to
  MaxTime       \* bound on the clock

ParamType == [intervals : Nat \ {0}, interval_seconds : Nat \ {0},
              min_amount : Nat, deleg_min_amount : Nat \ {0},
              min_remainder : Nat \ {0}, return_time : Nat \ {0},
              min_time : Nat, max_delegators : Nat]

\* What vesting_withdraw_t::validate and vesting_delegation_t::validate let in.
ASSUME ParamsAssumption == /\ ParamSets \subseteq ParamType
                           /\ NoParams \notin ParamSets

ASSUME BoundsAssumption == /\ ScaleUp \in Nat \ {0} /\ ScaleDown \in Nat \ {0}
                           /\ MaxSteps \in Nat \ {0} /\ MaxReturns \in Nat \ {0}
                           /\ ChargeLevel \subseteq Nat
                           /\ Deposit \subseteq Nat \ {0}
                           /\ Limit \subseteq Nat
                           /\ Fickle \subseteq Account
                           /\ MaxBalance \in Nat /\ MaxSupply \in Nat
                           /\ MaxTime \in Nat

\* Ids count up.  A negative int64 is a larger word than any asset amount.
ASSUME WidthAssumption == /\ ReturnId \subseteq Nat
                          /\ MaxAmount \in Nat /\ WordRange \in Nat
                          /\ WordRange > 2 * MaxAmount

VARIABLES
  created,      \* the stat row exists
  supply,       \* vesting_stats.supply
  accounts,     \* account table: name -> row
  delegation,   \* <<delegator, delegatee>> -> row
  rdelegation,  \* return_delegation table: id -> row
  withdrawal,   \* owner -> row
  params,       \* parameters singleton
  balance,      \* external: tokens of the contract in cyber.token
  tokenRows,    \* external: accounts with an opened token balance
  now,          \* external: block time
  deferred,     \* a deferred procwaiting is scheduled
  run,          \* the procwaiting in progress
  saved,        \* what it may change, as its transaction found it
  orphaned,     \* history: shares minted to the supply and to no account
  grown         \* history: by how much returns have raised delegated

tables == <<supply, accounts, delegation, rdelegation, withdrawal>>
transaction == <<run, saved>>
history == <<orphaned, grown>>
vars == <<created, tables, params, balance, tokenRows, now, deferred,
          transaction, history>>

_100percent == 10000

\* Amounts are signed in the code; a row keeps those it checks above zero.
\* A return may be negative, but not zero.
AccountType == [vesting : Nat, delegated : 0..MaxAmount, received : Int,
                unlocked_limit : Nat, limit_symbol : BOOLEAN,
                delegators : Int]
DelegationType == [quantity : 1..MaxAmount, min_delegation_time : Nat]
ReturnType == [delegator : Account, quantity : Int \ {0}, date : Nat]
WithdrawalType == [to : Account, interval_seconds : Nat,
                   remaining_payments : Nat, next_payout : Nat,
                   withdraw_rate : Nat, to_withdraw : Nat]

Idle == [phase |-> "idle", todo |-> {}, steps |-> 0, remain |-> FALSE,
         paid |-> 0, burnt |-> 0, bulk |-> FALSE, mint |-> 0]

RunType == [phase : {"idle", "withdraws", "returns"},
            todo : SUBSET (Account \union ReturnId), steps : Nat,
            remain : BOOLEAN, paid : Int, burnt : Int,
            bulk : BOOLEAN, mint : Int]

\* No transaction is running
Unsaved == [supply |-> 0, accounts |-> EmptyTable, rdelegation |-> EmptyTable,
            withdrawal |-> EmptyTable, balance |-> 0,
            grown |-> [o \in Account |-> 0]]

Init ==
  /\ created = FALSE
  /\ supply = 0
  /\ accounts = EmptyTable
  /\ delegation = EmptyTable
  /\ rdelegation = EmptyTable
  /\ withdrawal = EmptyTable
  /\ params = NoParams
  /\ balance = 0
  /\ tokenRows = Account
  /\ now = 0
  /\ deferred = FALSE
  /\ run = Idle
  /\ saved = Unsaved
  /\ orphaned = 0
  /\ grown = [o \in Account |-> 0]

----------------------------------------------------------------------------
(* Helpers *)

\* An int64 converted to uint64
unsigned(n) == IF n < 0 THEN n + WordRange ELSE n

available_vesting(row) == row.vesting - row.delegated

\* Mutant of get_withdrawing_vesting: counts the next instalment only.
next_instalment(o) ==
  IF o \in DOMAIN withdrawal THEN withdrawal[o].withdraw_rate ELSE 0

get_withdrawing_vesting(o) ==
  IF o \in DOMAIN withdrawal THEN withdrawal[o].to_withdraw ELSE 0

\* An emplace by add_balance leaves unlocked_limit without its symbol; open
\* sets it.
NewRow(amount, symbolSet) ==
  [vesting |-> amount, delegated |-> 0, received |-> 0, unlocked_limit |-> 0,
   limit_symbol |-> symbolSet, delegators |-> 0]

\* Mutant of add_balance: overwrites a balance that exists.
set_balance(rows, o, amount) ==
  IF amount = 0 THEN rows
  ELSE IF o \in DOMAIN rows
       THEN [rows EXCEPT ![o].vesting = amount]
       ELSE Put(rows, o, NewRow(amount, FALSE))

add_balance(rows, o, amount) ==
  IF amount = 0 THEN rows
  ELSE IF o \in DOMAIN rows
       THEN [rows EXCEPT ![o].vesting = @ + amount]
       ELSE Put(rows, o, NewRow(amount, FALSE))

\* The checks of sub_balance are guards of retire and pay_withdrawal.
sub_balance(rows, o, amount, retire_mode) ==
  [rows EXCEPT ![o].vesting = @ - amount,
               ![o].unlocked_limit = IF retire_mode THEN @ - amount ELSE @]

\* Mutant of token_to_vesting: rounds in favour of the depositor.
round_up_vesting(q, bal) ==
  IF supply > 0 /\ bal > 0 THEN (q * supply + bal - 1) \div bal
                           ELSE (q * ScaleUp) \div ScaleDown

\* bal is the balance before the transfer being converted.  Neither it nor the
\* supply is ever negative (SharesAreBacked, SupplyIsOwned), so > 0 is the
\* code's test for zero.
token_to_vesting(q, bal) ==
  IF supply > 0 /\ bal > 0 THEN (q * supply) \div bal
                           ELSE (q * ScaleUp) \div ScaleDown

vesting_to_token(v, bal) ==
  IF supply > 0 /\ bal > 0 THEN (v * bal) \div supply
                           ELSE (v * ScaleDown) \div ScaleUp

\* The rows of the nextpayout and date indexes that are due
DueWithdrawals == {o \in DOMAIN withdrawal : withdrawal[o].next_payout <= now}
DueReturns == {r \in DOMAIN rdelegation : rdelegation[r].date <= now}

\* procwaiting begins: the loop will visit what is due now, in index order.
\* bulk and mint tell what on_bulk_transfer does when the loop returns.
StartRun(bulk, mint) ==
  [phase |-> "withdraws", todo |-> DueWithdrawals, steps |-> MaxSteps,
   remain |-> FALSE, paid |-> 0, burnt |-> 0, bulk |-> bulk, mint |-> mint]

\* What an abort of the transaction puts back
Snapshot == [supply |-> supply, accounts |-> accounts,
             rdelegation |-> rdelegation, withdrawal |-> withdrawal,
             balance |-> balance, grown |-> grown]

Calm == run.phase = "idle"

----------------------------------------------------------------------------
(* Set-up *)

create ==
  /\ Calm /\ ~created
  /\ created' = TRUE
  /\ UNCHANGED <<tables, params, balance, tokenRows, now, deferred, transaction, history>>

\* A call changes at least one parameter (param_helper).
setparams(p) ==
  /\ Calm /\ p # params
  /\ params' = p
  /\ UNCHANGED <<created, tables, balance, tokenRows, now, deferred, transaction, history>>

open(o) ==
  /\ Calm /\ created
  /\ o \notin DOMAIN accounts
  /\ accounts' = Put(accounts, o, NewRow(0, TRUE))
  /\ UNCHANGED <<created, supply, delegation, rdelegation, withdrawal, params,
                 balance, tokenRows, now, deferred, transaction, history>>

close(o) ==
  /\ Calm /\ o \in DOMAIN accounts
  /\ accounts[o].vesting = 0
  /\ accounts[o].delegated = 0
  /\ accounts[o].received = 0
  /\ accounts' = Drop(accounts, o)
  /\ UNCHANGED <<created, supply, delegation, rdelegation, withdrawal, params,
                 balance, tokenRows, now, deferred, transaction, history>>

----------------------------------------------------------------------------
(* Tokens arriving *)

\* A transfer by a user, or by anyone with "send to: o" in the memo
on_transfer(o, q) ==
  LET converted == token_to_vesting(q, balance) IN
  /\ Calm /\ created
  /\ balance + q <= MaxBalance /\ supply + converted <= MaxSupply
  /\ balance' = balance + q
  /\ supply' = supply + converted
  /\ accounts' = add_balance(accounts, o, converted)
  /\ UNCHANGED <<created, delegation, rdelegation, withdrawal, params,
                 tokenRows, now, deferred, transaction, history>>

\* A bulk transfer with two entries for the contract: both are converted at
\* the price before the transfer, and the supply is updated once.
on_bulk_transfer(o1, q1, o2, q2) ==
  LET c1 == token_to_vesting(q1, balance)
      c2 == token_to_vesting(q2, balance) IN
  /\ Calm /\ created
  /\ balance + q1 + q2 <= MaxBalance /\ supply + c1 + c2 <= MaxSupply
  /\ balance' = balance + q1 + q2
  /\ accounts' = add_balance(add_balance(accounts, o1, c1), o2, c2)
  /\ supply' = supply + c1 + c2
  /\ UNCHANGED <<created, delegation, rdelegation, withdrawal, params,
                 tokenRows, now, deferred, transaction, history>>

\* A transfer by the issuer that names no recipient only wakes procwaiting:
\* the tokens raise the price of every share.
issuer_transfer(q) ==
  /\ Calm /\ created
  /\ balance + q <= MaxBalance
  /\ balance' = balance + q
  /\ run' = StartRun(FALSE, 0)
  /\ saved' = Snapshot
  /\ UNCHANGED <<created, tables, params, tokenRows, now, deferred, history>>

\* The same in a bulk transfer: do_transfer_vesting credits nobody, and the
\* converted amount is nevertheless added to the supply at the end.
issuer_bulk_transfer(q) ==
  LET converted == token_to_vesting(q, balance) IN
  /\ Calm /\ created
  /\ balance + q <= MaxBalance /\ supply + converted <= MaxSupply
  /\ balance' = balance + q
  /\ run' = StartRun(TRUE, converted)
  /\ saved' = Snapshot
  /\ UNCHANGED <<created, tables, params, tokenRows, now, deferred, history>>

----------------------------------------------------------------------------
(* Withdrawal and retirement *)

\* Mutant of rate_of: rounds up, so that instalments exceed the withdrawal.
rate_rounded_up(q) == (q + params.intervals - 1) \div params.intervals

rate_of(q) == q \div params.intervals

withdraw(o, to, q) ==
  LET rate == rate_of(q) IN
  /\ Calm /\ params # NoParams
  /\ q > 0 /\ rate > 0
  /\ o \in DOMAIN accounts
  /\ available_vesting(accounts[o]) >= q
  /\ unsigned(accounts[o].vesting) >= params.min_amount
  /\ to \in tokenRows
  /\ withdrawal' = Put(withdrawal, o,
       [to |-> to, interval_seconds |-> params.interval_seconds,
        remaining_payments |-> params.intervals,
        next_payout |-> now + params.interval_seconds,
        withdraw_rate |-> rate, to_withdraw |-> q])
  /\ UNCHANGED <<created, supply, accounts, delegation, rdelegation, params,
                 balance, tokenRows, now, deferred, transaction, history>>

stopwithdraw(o) ==
  /\ Calm /\ o \in DOMAIN withdrawal
  /\ withdrawal' = Drop(withdrawal, o)
  /\ UNCHANGED <<created, supply, accounts, delegation, rdelegation, params,
                 balance, tokenRows, now, deferred, transaction, history>>

unlocklimit(o, q) ==
  /\ Calm /\ o \in DOMAIN accounts
  /\ accounts[o].limit_symbol
  /\ accounts' = [accounts EXCEPT ![o].unlocked_limit = q]
  /\ UNCHANGED <<created, supply, delegation, rdelegation, withdrawal, params,
                 balance, tokenRows, now, deferred, transaction, history>>

\* Mutants of can_retire_vesting: the first check without the second, and the
\* limit alone.
can_retire_withdrawing(o, q) ==
  /\ accounts[o].limit_symbol
  /\ Least(available_vesting(accounts[o]), accounts[o].unlocked_limit) >= q

can_retire_limit(o, q) ==
  accounts[o].limit_symbol /\ accounts[o].unlocked_limit >= q

\* Comparing the limit with a balance aborts when the limit has no symbol.
can_retire_vesting(o, q) ==
  LET row == accounts[o] IN
  /\ row.limit_symbol
  /\ Least(available_vesting(row), row.unlocked_limit) >= q
  /\ Least(available_vesting(row) - get_withdrawing_vesting(o),
           row.unlocked_limit) >= q

retire(o, q) ==
  /\ Calm /\ created
  /\ q > 0 /\ q <= supply
  /\ o \in DOMAIN accounts
  /\ can_retire_vesting(o, q)
  /\ accounts' = sub_balance(accounts, o, q, TRUE)
  /\ supply' = supply - q
  /\ UNCHANGED <<created, delegation, rdelegation, withdrawal, params,
                 balance, tokenRows, now, deferred, transaction, history>>

----------------------------------------------------------------------------
(* Delegation *)

\* charge is what charge::get_current_value reports for the delegator
delegate(from, to, q, charge) ==
  LET row    == accounts[from]
      avail  == row.vesting - get_withdrawing_vesting(from)
      after  == q + row.delegated
      exists == <<from, to>> \in DOMAIN delegation IN
  /\ Calm /\ params # NoParams
  /\ from # to
  /\ q > 0 /\ unsigned(q) >= params.min_amount
  /\ from \in DOMAIN accounts
  /\ avail >= after /\ after <= MaxAmount
  /\ charge <= _100percent - (after * _100percent) \div avail
  /\ to \in DOMAIN accounts
  /\ accounts[to].delegators < params.max_delegators
  /\ exists => delegation[<<from, to>>].quantity + q <= MaxAmount
  /\ accounts[to].received + q <= MaxAmount
  /\ unsigned(accounts[to].received + q) >= params.min_remainder
  /\ accounts' = [accounts EXCEPT
       ![from].delegated = @ + q,
       ![to].received = @ + q,
       ![to].delegators = IF exists THEN @ ELSE @ + 1]
  /\ delegation' =
       IF exists THEN [delegation EXCEPT ![<<from, to>>].quantity = @ + q]
       ELSE Put(delegation, <<from, to>>,
                [quantity |-> q,
                 min_delegation_time |-> now + params.min_time])
  /\ UNCHANGED <<created, supply, rdelegation, withdrawal, params, balance,
                 tokenRows, now, deferred, transaction, history>>

\* Mutant of take_back: the last return does not free the delegator's slot.
take_back_quantity(rows, to, q, erasing) ==
  [rows EXCEPT ![to].received = @ - q]

take_back(rows, to, q, erasing) ==
  [rows EXCEPT ![to].received = @ - q,
               ![to].delegators = IF erasing THEN @ - 1 ELSE @]

\* available_primary_key: one above the largest id in use
NextId(id) ==
  /\ \A r \in DOMAIN rdelegation : r < id
  /\ id = 0 \/ id - 1 \in DOMAIN rdelegation

\* The recipient loses the power now; the delegator gets it back when the
\* return record matures.  q is any int64: a negative one passes the test of
\* the minimum, adds to the delegation and to what the recipient holds, and
\* leaves a negative return.  Amounts past MaxAmount abort.
undelegate(from, to, q, id) ==
  LET erasing   == delegation[<<from, to>>].quantity = q
      remaining == accounts[to].received - q IN
  /\ Calm /\ params # NoParams
  /\ <<from, to>> \in DOMAIN delegation
  /\ unsigned(q) >= params.deleg_min_amount
  /\ delegation[<<from, to>>].min_delegation_time <= now
  /\ delegation[<<from, to>>].quantity >= q
  /\ delegation[<<from, to>>].quantity - q <= MaxAmount
  /\ NextId(id)
  /\ to \in DOMAIN accounts
  /\ remaining <= MaxAmount
  /\ remaining = 0 \/ unsigned(remaining) >= params.min_remainder
  /\ delegation' =
       IF erasing THEN Drop(delegation, <<from, to>>)
       ELSE [delegation EXCEPT ![<<from, to>>].quantity = @ - q]
  /\ rdelegation' = Put(rdelegation, id,
       [delegator |-> from, quantity |-> q,
        date |-> now + params.return_time])
  /\ accounts' = take_back(accounts, to, q, erasing)
  /\ UNCHANGED <<created, supply, withdrawal, params, balance, tokenRows, now,
                 deferred, transaction, history>>

----------------------------------------------------------------------------
(* procwaiting *)

\* Anyone may call it: the action checks no authority.
procwaiting ==
  /\ Calm /\ created
  /\ run' = StartRun(FALSE, 0)
  /\ saved' = Snapshot
  /\ UNCHANGED <<created, tables, params, balance, tokenRows, now, deferred,
                 history>>

deferred_procwaiting ==
  /\ Calm /\ deferred
  /\ deferred' = FALSE
  /\ run' = StartRun(FALSE, 0)
  /\ saved' = Snapshot
  /\ UNCHANGED <<created, tables, params, balance, tokenRows, now, history>>

\* An inline payment leaves the contract after the action: until then the
\* balance read is stale and paid corrects it.
to_send(o) ==
  IF withdrawal[o].remaining_payments = 1 THEN withdrawal[o].to_withdraw
                                          ELSE withdrawal[o].withdraw_rate

\* Mutant of converted_payout: forgets the payments still on their way.
payout_of_balance(o) == vesting_to_token(to_send(o), balance)

converted_payout(o) == vesting_to_token(to_send(o), balance - run.paid)

must_not_happen(o) ==
  \/ withdrawal[o].remaining_payments = 0
  \/ withdrawal[o].to_withdraw < withdrawal[o].withdraw_rate
  \/ o \notin DOMAIN accounts
  \/ accounts[o].vesting < to_send(o)
  \/ to_send(o) <= 0

payout_fails(o) ==
  \/ must_not_happen(o)
  \/ converted_payout(o) = 0
  \/ withdrawal[o].to \notin tokenRows

\* The next row of the nextpayout index; rows with equal keys come in any order
NextWithdrawal(o) ==
  /\ run.phase = "withdraws" /\ run.steps > 0 /\ o \in run.todo
  /\ \A p \in run.todo :
       withdrawal[o].next_payout <= withdrawal[p].next_payout

Visited(x) == [run EXCEPT !.todo = @ \ {x}, !.steps = @ - 1]

drop_withdrawal(o) ==
  /\ NextWithdrawal(o)
  /\ payout_fails(o)
  /\ withdrawal' = Drop(withdrawal, o)
  /\ run' = Visited(o)
  /\ UNCHANGED <<created, supply, accounts, delegation, rdelegation, params,
                 balance, tokenRows, now, deferred, saved, history>>

\* sub_balance's check comes last: if it fails, everything is undone.
overdraws(o) ==
  /\ NextWithdrawal(o)
  /\ ~payout_fails(o)
  /\ available_vesting(accounts[o]) < to_send(o)

\* to_send and converted_payout read the tables as they were before it.
pay_withdrawal(o) ==
  LET w    == withdrawal[o]
      last == w.remaining_payments = 1 IN
  /\ NextWithdrawal(o)
  /\ ~payout_fails(o)
  /\ ~overdraws(o)
  /\ withdrawal' =
       IF last THEN Drop(withdrawal, o)
       ELSE [withdrawal EXCEPT
               ![o].next_payout = @ + w.interval_seconds,
               ![o].to_withdraw = @ - w.withdraw_rate,
               ![o].remaining_payments = @ - 1]
  /\ accounts' = sub_balance(accounts, o, to_send(o), FALSE)
  /\ supply' = supply - to_send(o)
  /\ run' = [Visited(o) EXCEPT !.paid = @ + converted_payout(o),
                                !.burnt = @ + to_send(o)]
  /\ UNCHANGED <<created, delegation, rdelegation, params, balance, tokenRows,
                 now, deferred, saved, history>>

begin_returns ==
  /\ run.phase = "withdraws"
  /\ run.todo = {} \/ run.steps = 0
  /\ run' = [run EXCEPT !.phase = "returns", !.todo = DueReturns,
                        !.steps = MaxReturns, !.remain = run.todo # {}]
  /\ UNCHANGED <<created, tables, params, balance, tokenRows, now, deferred,
                 saved, history>>

\* The next row of the date index; rows with equal dates come by their ids.
NextReturn(id) ==
  /\ run.phase = "returns" /\ run.steps > 0 /\ id \in run.todo
  /\ \A p \in run.todo :
       \/ rdelegation[id].date < rdelegation[p].date
       \/ rdelegation[id].date = rdelegation[p].date /\ id <= p

\* The two checks commented "impossible", and the one of asset's subtraction
return_fails(id) ==
  LET r == rdelegation[id] IN
  r.delegator \in DOMAIN accounts =>
    \/ accounts[r.delegator].delegated < r.quantity
    \/ accounts[r.delegator].delegated - r.quantity > MaxAmount

\* A negative return raises what is delegated, which nothing checks here.
return_delegation(id) ==
  LET r == rdelegation[id] IN
  /\ NextReturn(id)
  /\ ~return_fails(id)
  /\ accounts' = [accounts EXCEPT ![r.delegator].delegated = @ - r.quantity]
  /\ rdelegation' = Drop(rdelegation, id)
  /\ grown' = IF r.quantity < 0
              THEN [grown EXCEPT ![r.delegator] = @ - r.quantity] ELSE grown
  /\ run' = Visited(id)
  /\ UNCHANGED <<created, supply, delegation, withdrawal, params, balance,
                 tokenRows, now, deferred, saved, orphaned>>

\* A check of the loop fails and the transaction is undone, with the transfer
\* that started it.  A deferred transaction that fails is gone.
abort_run ==
  /\ \/ \E o \in Account : overdraws(o)
     \/ \E id \in ReturnId : NextReturn(id) /\ return_fails(id)
  /\ supply' = saved.supply
  /\ accounts' = saved.accounts
  /\ rdelegation' = saved.rdelegation
  /\ withdrawal' = saved.withdrawal
  /\ balance' = saved.balance
  /\ grown' = saved.grown
  /\ run' = Idle
  /\ saved' = Unsaved
  /\ UNCHANGED <<created, delegation, params, tokenRows, now, deferred,
                 orphaned>>

\* Mutant of remains: what return_delegations reports hides what
\* process_withdraws reported.
remain_returns == run.todo # {}

remains == run.remain \/ run.todo # {}

\* The inline payments run, what is left over is rescheduled, and a bulk
\* transfer by the issuer resumes with its update of the supply.  It updates
\* the row it found before the loop: whether that row shows the payouts made
\* since through another multi_index object is up to the table's cache, so a
\* bulk run may give the shares just burnt back to the supply.
end_run ==
  \E revived \in IF run.bulk THEN {0, run.burnt} ELSE {0} :
    /\ run.phase = "returns"
    /\ run.todo = {} \/ run.steps = 0
    /\ balance' = balance - run.paid
    /\ deferred' = (deferred \/ remains)
    /\ supply' = supply + run.mint + revived
    /\ orphaned' = orphaned + run.mint + revived
    /\ run' = Idle
    /\ saved' = Unsaved
    /\ UNCHANGED <<created, accounts, delegation, rdelegation, withdrawal,
                   params, tokenRows, now, grown>>

RunStep ==
  \/ \E o \in Account : drop_withdrawal(o) \/ pay_withdrawal(o)
  \/ \E id \in ReturnId : return_delegation(id)
  \/ begin_returns
  \/ end_run
  \/ abort_run

----------------------------------------------------------------------------
(* What surrounds the contract *)

Tick ==
  /\ Calm /\ now < MaxTime
  /\ now' = now + 1
  /\ UNCHANGED <<created, tables, params, balance, tokenRows, deferred, transaction, history>>

\* cyber.token open and close
ToggleTokenRow(a) ==
  /\ Calm
  /\ tokenRows' = IF a \in tokenRows THEN tokenRows \ {a}
                                     ELSE tokenRows \union {a}
  /\ UNCHANGED <<created, tables, params, balance, now, deferred, transaction, history>>

\* A deferred transaction can fail or expire without having run.
DeferredLost ==
  /\ Calm /\ deferred
  /\ deferred' = FALSE
  /\ UNCHANGED <<created, tables, params, balance, tokenRows, now, transaction, history>>

Step ==
  \/ create
  \/ \E p \in ParamSets : setparams(p)
  \/ \E o \in Account : open(o) \/ close(o) \/ stopwithdraw(o)
  \/ \E o \in Account, q \in Deposit : on_transfer(o, q)
  \/ \E o1, o2 \in Account, q1, q2 \in Deposit :
       on_bulk_transfer(o1, q1, o2, q2)
  \/ \E q \in Deposit : issuer_transfer(q) \/ issuer_bulk_transfer(q)
  \/ \E o, to \in Account, q \in 1..MaxSupply : withdraw(o, to, q)
  \/ \E o \in Account, q \in Limit : unlocklimit(o, q)
  \/ \E o \in Account, q \in 1..MaxSupply : retire(o, q)
  \/ \E from, to \in Account, q \in 1..MaxSupply, c \in ChargeLevel :
       delegate(from, to, q, c)
  \/ \E from, to \in Account, q \in (-MaxAmount)..MaxAmount, id \in ReturnId :
       undelegate(from, to, q, id)
  \/ procwaiting
  \/ deferred_procwaiting
  \/ RunStep
  \/ Tick
  \/ \E a \in Fickle : ToggleTokenRow(a)

Next == Step \/ DeferredLost

Spec == Init /\ [][Next]_vars

\* A transaction runs to its end, and the scheduler executes every deferred
\* transaction; users owe nobody a step.
Fairness == WF_vars(RunStep) /\ WF_vars(deferred_procwaiting)

FairSpec == Init /\ [][Step]_vars /\ Fairness

----------------------------------------------------------------------------
(* Properties *)

\* Every table has its type, also those an abort would put back; what a user
\* holds, has delegated or may burn is never negative although payouts, returns
\* and retirements subtract from it, and a delegation stays positive and within
\* asset's range although undelegate takes negative quantities.
TypeOK ==
  /\ created \in BOOLEAN
  /\ supply \in Int
  /\ IsTable(accounts, Account, AccountType)
  /\ IsTable(delegation, Account \X Account, DelegationType)
  /\ IsTable(rdelegation, ReturnId, ReturnType)
  /\ IsTable(withdrawal, Account, WithdrawalType)
  /\ params \in ParamSets \union {NoParams}
  /\ balance \in Int
  /\ tokenRows \subseteq Account
  /\ now \in Nat
  /\ deferred \in BOOLEAN
  /\ run \in RunType
  /\ saved.supply \in Int /\ saved.balance \in Int
  /\ IsTable(saved.accounts, Account, AccountType)
  /\ IsTable(saved.rdelegation, ReturnId, ReturnType)
  /\ IsTable(saved.withdrawal, Account, WithdrawalType)
  /\ saved.grown \in [Account -> Nat]
  /\ orphaned \in Int
  /\ grown \in [Account -> Nat]

\* What is delegated and what is being withdrawn never overlap: withdraw,
\* delegate and retire check three different expressions, and payouts and
\* returns move both sides.  Only negative returns can lock an account beyond
\* its vesting, and by no more than their sum; what is being withdrawn stays
\* within the vesting even then.
LockedWithinVesting ==
  \A o \in DOMAIN accounts :
    /\ accounts[o].delegated + get_withdrawing_vesting(o)
         <= accounts[o].vesting + grown[o]
    /\ get_withdrawing_vesting(o) <= accounts[o].vesting

\* A withdrawal always has payments left and enough to pay each in full, and
\* its owner cannot have closed the account in the meantime, although close
\* does not look at the withdrawal table.
WithdrawalsSound ==
  \A o \in DOMAIN withdrawal :
    /\ withdrawal[o].remaining_payments > 0
    /\ withdrawal[o].withdraw_rate > 0
    /\ withdrawal[o].withdraw_rate * withdrawal[o].remaining_payments
         <= withdrawal[o].to_withdraw
    /\ o \in DOMAIN accounts

DelegatedBy(o) ==
  Total([d \in DOMAIN delegation |->
           IF d[1] = o THEN delegation[d].quantity ELSE 0])
ReturningTo(o) ==
  Total([r \in DOMAIN rdelegation |->
           IF rdelegation[r].delegator = o THEN rdelegation[r].quantity ELSE 0])
DelegatedTo(o) ==
  Total([d \in DOMAIN delegation |->
           IF d[2] = o THEN delegation[d].quantity ELSE 0])

\* The balances and the delegation records tell one story: what a delegator
\* has given is what recipients hold plus what is on its way back, and a
\* recipient counts its delegators.  A negative return counts as it stands: it
\* has added to a record what delegated will only show when it matures.
DelegationBooks ==
  \A o \in Account :
    LET row == IF o \in DOMAIN accounts THEN accounts[o]
                                        ELSE NewRow(0, TRUE) IN
    /\ row.delegated = DelegatedBy(o) + ReturningTo(o)
    /\ row.received = DelegatedTo(o)
    /\ row.delegators = Cardinality({d \in DOMAIN delegation : d[2] = o})

\* The branches of process_withdraws commented "must not happen" are dead.  Its
\* payout overdraws, and aborts the loop for everybody behind it, only where
\* negative returns have raised what the account has delegated; the checks of
\* return_delegations commented "impossible" fail only for a delegator that has
\* a negative return pending.
AbortsNeedNegativeReturns ==
  /\ run.phase = "withdraws" =>
       \A o \in run.todo :
         /\ o \in DOMAIN withdrawal
         /\ ~must_not_happen(o)
         /\ available_vesting(accounts[o]) + grown[o] >= to_send(o)
  /\ run.phase = "returns" =>
       \A id \in run.todo :
         /\ id \in DOMAIN rdelegation
         /\ return_fails(id) =>
              \E r \in DOMAIN rdelegation :
                /\ rdelegation[r].delegator = rdelegation[id].delegator
                /\ rdelegation[r].quantity < 0

VestingHeld == Total([o \in DOMAIN accounts |-> accounts[o].vesting])

\* Shares of the supply are owned by accounts, but for those that bulk
\* transfers of the issuer mint to nobody.
SupplyIsOwned == supply = VestingHeld + orphaned

NothingOrphaned == orphaned = 0 /\ ~run.bulk

\* The token balance with the payouts that are still to leave it
BackingTokens == balance - run.paid

\* Payouts computed in one loop never exceed the tokens there are, and shares
\* are never left without tokens behind them: the 1:1 fallbacks of the
\* conversions are for the first deposit only.
SharesAreBacked ==
  /\ run.paid <= balance
  /\ NothingOrphaned /\ supply > 0 => BackingTokens > 0

\* No deposit, payout, retirement or donation lowers the price of a share for
\* those who hold one: every conversion rounds in their favour, also within
\* one loop whose payments have not left the balance yet.  An abort goes back
\* to the price its transaction found.
PriceNeverFalls ==
  [][NothingOrphaned' /\ supply > 0 /\ supply' > 0
       => BackingTokens' * supply >= BackingTokens * supply' \/ abort_run]_vars

\* A payout would overdraw, or a negative return is pending or due
Overdrawn ==
  \E o \in DOMAIN withdrawal : available_vesting(accounts[o]) < to_send(o)
NegativeReturn == \E r \in DOMAIN rdelegation : rdelegation[r].quantity < 0

\* A loop that stops at MaxSteps schedules its own continuation: a withdrawal
\* or a return that it left behind is reached although nobody calls
\* procwaiting again, however many are due (as long as no deferred transaction
\* is lost), unless one that aborts the loop comes up.
WithdrawalDue(o, t) ==
  o \in DOMAIN withdrawal /\ withdrawal[o].next_payout = t /\ t <= now

ReturnDue(id, t) ==
  id \in DOMAIN rdelegation /\ rdelegation[id].date = t /\ t <= now

ReturnsLeft == run.phase = "returns" /\ run.steps = 0 /\ run.todo # {}

BacklogIsReached ==
  /\ \A o \in Account, t \in 0..MaxTime :
       (run.remain /\ WithdrawalDue(o, t))
         ~> (~WithdrawalDue(o, t) \/ Overdrawn \/ NegativeReturn)
  /\ \A id \in ReturnId, t \in 0..MaxTime :
       (ReturnsLeft /\ ReturnDue(id, t))
         ~> (~ReturnDue(id, t) \/ Overdrawn \/ NegativeReturn)

\* To the contracts that read it, vesting is a ledger: rows open and close
\* empty, nobody holds less than nothing, a transaction changes what at most
\* two accounts hold, and the payout loop only takes, all at once or not at all.
\* They see what transactions have committed, not what one is doing.
committed == IF Calm THEN accounts ELSE saved.accounts

vestings == [o \in DOMAIN committed |-> committed[o].vesting]

Ledger == INSTANCE Shares WITH shares <- vestings

ImplementsLedger == Ledger!Spec

----------------------------------------------------------------------------
(* What the documents say and the code does not do *)

\* golos.vesting_contract.md: "The user can allow the smart contract to
\* withdraw (i.e. burn) a certain part of the vesting from its balance sheet".
\* A row emplaced by add_balance refuses every unlocklimit for ever.
EveryBalanceCanBeUnlocked ==
  \A o \in DOMAIN accounts : accounts[o].limit_symbol

\* golos.vesting.cpp on the checks of return_delegations: "The following checks
\* can only fail on broken system", and both are marked "impossible".  A return
\* made larger than delegated by a negative one, and maturing before it, fails
\* the second.
ReturnChecksHold ==
  run.phase = "returns" =>
    \A id \in run.todo : NextReturn(id) => ~return_fails(id)
=============================================================================
