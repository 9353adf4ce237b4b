------------------------------ MODULE Referral ------------------------------
(***************************************************************************)
(* golos.referral: an account that was brought in owes a share of its post *)
(* rewards to who brought it in, until the record expires or the account   *)
(* buys itself free.                                                       *)
(***************************************************************************)
EXTENDS Tables, Sequences

CONSTANTS
  Account,
  RefBatches,     \* batches setparams may be called with
  NoParams,       \* the parameters singleton does not exist
  Expire,         \* expiration times to try
  Breakout,       \* amounts to be free for, and to be sent
  Percent,        \* shares to try
  Whole,          \* 100%
  MaxRefDeletions \* records closeoldref erases at most

Fields == <<"breakout", "expire", "percent">>

valid(field, value) ==
  CASE field = "breakout" -> value.min <= value.max /\ value.min >= 0
    [] field = "expire"   -> TRUE
    [] field = "percent"  -> value <= Whole

\* not_equal of breakout_parametrs looks at the minimum twice.
differs(field, old, new) ==
  IF field = "breakout" THEN old.min # new.min ELSE old # new

Setter == INSTANCE Params WITH Immutable <- {}

VARIABLES
  now,
  referrals,      \* referrals table: referral -> record
  ref_params      \* refparams singleton

ReferralType ==
  [referrer : Account, percent : 0 .. Whole, expire : Nat, breakout : Nat]

Init ==
  /\ referrals = EmptyTable
  /\ ref_params = NoParams

setparams(batch) ==
  /\ Setter!accepted(ref_params # NoParams, ref_params, batch)
  /\ ref_params' = Setter!set_parameters(ref_params # NoParams, ref_params, batch)
  /\ UNCHANGED referrals

\* Mutant of Expired: closes a record in the second in which it still counts.
expired_now == {r \in DOMAIN referrals : referrals[r].expire <= now}

Expired == {r \in DOMAIN referrals : referrals[r].expire < now}

\* The first of the expirekey index, of equal times in any order
closed ==
  {S \in SUBSET Expired :
     /\ Cardinality(S) = Least(Cardinality(Expired), MaxRefDeletions)
     /\ \A r \in S, x \in Expired \ S : referrals[r].expire <= referrals[x].expire}

without(S) == [r \in DOMAIN referrals \ S |-> referrals[r]]

closeoldref ==
  /\ ref_params # NoParams
  /\ \E S \in closed : referrals' = without(S)
  /\ UNCHANGED ref_params

add_referral(referrer, referral, percent, expire, breakout) ==
  /\ ref_params # NoParams
  /\ referrer # referral
  /\ now < expire /\ expire <= now + ref_params.expire
  /\ breakout \in ref_params.breakout.min .. ref_params.breakout.max
  /\ percent <= ref_params.percent
  /\ \E S \in closed :
       /\ referral \notin DOMAIN without(S)
       /\ referrals' = Put(without(S), referral,
                           [referrer |-> referrer, percent |-> percent,
                            expire |-> expire, breakout |-> breakout])
  /\ UNCHANGED ref_params

\* What comes in goes to the referrer at once.
on_transfer(from, quantity) ==
  /\ ref_params # NoParams
  /\ \E S \in closed :
       /\ from \in DOMAIN without(S)
       /\ referrals[from].breakout = quantity
       /\ referrals' = without(S \union {from})
  /\ UNCHANGED ref_params

\* The record that counts for a post written now, if any
account_referrer(referral) ==
  {r \in DOMAIN referrals : r = referral /\ referrals[r].expire >= now}

Next ==
  \/ closeoldref
  \/ \E batch \in RefBatches : setparams(batch)
  \/ \E referral \in Account :
       \/ \E q \in Breakout : on_transfer(referral, q)
       \/ \E referrer \in Account, p \in Percent, e \in Expire, b \in Breakout :
            add_referral(referrer, referral, p, e, b)
=============================================================================
