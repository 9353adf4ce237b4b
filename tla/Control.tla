------------------------------- MODULE Control -------------------------------
(***************************************************************************)
(* golos.ctrl: witnesses, the votes for them, and the authority of the     *)
(* community account that follows the heaviest ones.                       *)
(*                                                                         *)
(* A vote weighs what its voter holds in golos.vesting (module Shares).    *)
(* Vesting reports every change by an inline changevest, which runs when   *)
(* the action that sent it has ended: until then the shares have changed   *)
(* and the weights have not.  Variable inline holds the reports on their   *)
(* way; while there are any the transaction goes on and no other action is *)
(* enabled.                                                                *)
(***************************************************************************)
EXTENDS Tables, Sequences

CONSTANTS
  Voter, Candidate,   \* account names; an account may be both
  Bannable,           \* accounts the contract's owner may ban
  ParamSets,          \* values setparams may be called with
  NoParams,           \* the parameters singleton does not exist
  MaxAge,             \* seconds are counted up to here: no period is longer
  Amount,             \* changes of an account's shares
  Reward,             \* token amounts transferred to the contract
  MaxShares,          \* bound on what an account holds
  MaxTreasury         \* bound on the tokens the contract keeps

ThresholdType == [super_majority : Nat, majority : Nat, minority : Nat]

ParamType == [max_witnesses : Nat \ {0}, msig_perms : ThresholdType,
              max_witness_votes : Nat \ {0}, period : Nat \ {0}]

\* What the validate functions let in; check_msig_perms is up to setparams.
ASSUME ParamsAssumption ==
  /\ ParamSets \subseteq ParamType
  /\ NoParams \notin ParamSets
  /\ \A p \in ParamSets : p.period <= MaxAge

ASSUME BoundsAssumption ==
  /\ MaxAge \in Nat
  /\ Amount \subseteq Int
  /\ Reward \subseteq Nat \ {0}
  /\ MaxShares \in Nat /\ MaxTreasury \in Nat
  /\ Bannable \subseteq Voter \union Candidate

VARIABLES
  params,     \* parameters singleton
  witness,    \* witness table: candidate -> row
  votes,      \* witnessvote table: voter -> the candidates voted for
  banned,     \* banaccount table
  msig,       \* msigauths singleton: the stored top and the time since
  shares,     \* external: what golos.vesting holds
  inline,     \* reports of changed shares that are still to be delivered
  authority,  \* external: the authority last sent to cyber
  resized,    \* history: max_witnesses changed since an authority was sent
  treasury    \* external: tokens the contract was sent and did not pass on

vars == <<params, witness, votes, banned, msig, shares, inline, authority,
          resized, treasury>>
auths == <<msig, authority, resized>>

Ledger == INSTANCE Shares WITH Account <- Voter

WitnessType == [active : BOOLEAN, total_weight : Nat, counter_votes : Nat]

ReportType == [who : Voter, diff : Amount]

AuthorityType == [accounts : SUBSET Candidate, threshold : ThresholdType]

NoAuthority ==
  [accounts |-> {},
   threshold |-> [super_majority |-> 0, majority |-> 0, minority |-> 0]]

\* An absent msigauths row reads as an empty list, updated long ago.
Init ==
  /\ params = NoParams
  /\ witness = EmptyTable
  /\ votes = EmptyTable
  /\ banned = {}
  /\ msig = [witnesses |-> {}, age |-> MaxAge]
  /\ Ledger!Init
  /\ inline = <<>>
  /\ authority = NoAuthority
  /\ resized = FALSE
  /\ treasury = 0

started == params # NoParams
Between == inline = <<>>

----------------------------------------------------------------------------
(* The top witnesses and the authority *)

electable(table) ==
  {w \in DOMAIN table : table[w].active /\ table[w].total_weight > 0}

\* The first rows of the byweight index; rows of equal weight in any order
top_witnesses(table) ==
  {top \in SUBSET electable(table) :
     /\ Cardinality(top) =
          Least(Cardinality(electable(table)), params.max_witnesses)
     /\ \A w \in top, x \in electable(table) \ top :
          table[w].total_weight >= table[x].total_weight}

calc_thrs(val, top, num, denom) ==
  IF val = 0 THEN (top * num) \div denom + 1 ELSE val

thresholds(p) ==
  LET thrs == p.msig_perms
      max  == p.max_witnesses IN
  [super_majority |-> calc_thrs(thrs.super_majority, max, 2, 3),
   majority       |-> calc_thrs(thrs.majority, max, 1, 2),
   minority       |-> calc_thrs(thrs.minority, max, 1, 3)]

check_msig_perms(p) ==
  LET t == thresholds(p) IN
  /\ t.super_majority <= p.max_witnesses
  /\ t.majority <= t.super_majority
  /\ t.minority <= t.majority

\* Mutant of unchanged_top: compares the sizes and not the names.
same_size(top) ==
  msig.witnesses # {} /\ Cardinality(top) = Cardinality(msig.witnesses)

unchanged_top(top) == msig.witnesses # {} /\ top = msig.witnesses

\* table is the witness table as the calling action leaves it.  At most once
\* per period the list is stored, unless it is empty, and when it is new and
\* full the authority is sent.  Reading the parameters aborts if there are none.
update_auths(table) ==
  \/ started /\ msig.age < params.period /\ UNCHANGED auths
  \/ /\ started /\ msig.age >= params.period
     /\ \E top \in top_witnesses(table) :
          LET full == Cardinality(top) = params.max_witnesses
              send == full /\ ~unchanged_top(top) IN
          /\ msig' = [age |-> 0, witnesses |->
                        IF top = {} THEN msig.witnesses ELSE top]
          /\ authority' = IF send THEN [accounts |-> top,
                                        threshold |-> thresholds(params)]
                                  ELSE authority
          /\ resized' = (resized /\ ~send)

----------------------------------------------------------------------------
(* Parameters *)

\* Mutant of must_recheck: only new permissions are checked.
recheck_perms(p) == ~started \/ p.msig_perms # params.msig_perms

must_recheck(p) ==
  \/ ~started
  \/ p.msig_perms # params.msig_perms
  \/ p.max_witnesses # params.max_witnesses

\* Mutant of immutables_kept: max_witness_votes is like any other.
none_immutable(p) == p \in ParamSets

immutables_kept(p) ==
  started => p.max_witness_votes = params.max_witness_votes

\* The defaults, which an initial set may repeat without a check, pass the
\* check.
setparams(p) ==
  /\ Between /\ p # params
  /\ immutables_kept(p)
  /\ must_recheck(p) => check_msig_perms(p)
  /\ params' = p
  /\ resized' = (resized \/ (started /\ p.max_witnesses # params.max_witnesses))
  /\ UNCHANGED <<witness, votes, banned, msig, shares, inline, authority,
                 treasury>>

----------------------------------------------------------------------------
(* Witnesses *)

\* The candidate can always give another url, so that registering an active
\* witness again is possible; it only refreshes the authority.  A new row
\* leaves its numbers uninitialised in memory that the allocator never
\* reuses: they are zero.
regwitness(w) ==
  /\ Between /\ started /\ w \notin banned
  /\ witness' =
       IF w \in DOMAIN witness THEN [witness EXCEPT ![w].active = TRUE]
       ELSE Put(witness, w, [active |-> TRUE, total_weight |-> 0,
                             counter_votes |-> 0])
  /\ update_auths(witness')
  /\ UNCHANGED <<params, votes, banned, shares, inline, treasury>>

\* Mutant of removable: nobody with weight votes for the witness.
weightless(w) == witness[w].total_weight = 0

removable(w) == witness[w].counter_votes = 0

unregwitness(w) ==
  /\ Between /\ started /\ w \in DOMAIN witness
  /\ removable(w)
  /\ witness' = Drop(witness, w)
  /\ update_auths(witness')
  /\ UNCHANGED <<params, votes, banned, shares, inline, treasury>>

\* The witness itself may always stop; others only after a long silence.
stopwitness(w) ==
  /\ Between /\ started /\ w \in DOMAIN witness
  /\ witness[w].active
  /\ witness' = [witness EXCEPT ![w].active = FALSE]
  /\ update_auths(witness')
  /\ UNCHANGED <<params, votes, banned, shares, inline, treasury>>

\* Mutant of may_start: startwitness does not ask for the ban.
may_start_again(w) == w \in DOMAIN witness

may_start(w) == w \in DOMAIN witness /\ w \notin banned

startwitness(w) ==
  /\ Between /\ started /\ may_start(w)
  /\ witness' = [witness EXCEPT ![w].active = TRUE]
  /\ update_auths(witness')
  /\ UNCHANGED <<params, votes, banned, shares, inline, treasury>>

ban(a) ==
  LET deactivated == a \in DOMAIN witness /\ witness[a].active IN
  /\ Between /\ a \notin banned
  /\ banned' = banned \union {a}
  /\ IF deactivated
     THEN /\ witness' = [witness EXCEPT ![a].active = FALSE]
          /\ update_auths(witness')
     ELSE UNCHANGED <<witness, auths>>
  /\ UNCHANGED <<params, votes, shares, inline, treasury>>

unban(a) ==
  /\ Between /\ a \in banned
  /\ banned' = banned \ {a}
  /\ UNCHANGED <<params, witness, votes, auths, shares, inline, treasury>>

----------------------------------------------------------------------------
(* Votes *)

\* Mutant of weighted: an inactive witness is passed over.
weighted_active(table, ws, diff) ==
  [w \in DOMAIN table |->
     IF w \in ws /\ table[w].active
     THEN [table[w] EXCEPT !.total_weight = @ + diff] ELSE table[w]]

\* update_witnesses_weights: a name that is not registered is passed over
weighted(table, ws, diff) ==
  [w \in DOMAIN table |->
     IF w \in ws THEN [table[w] EXCEPT !.total_weight = @ + diff]
                 ELSE table[w]]

\* With no power there is nothing to update, not even the authority.
apply_vote_weight(table, voter, w, add) ==
  LET power == shares[voter] IN
  /\ voter \in DOMAIN shares
  /\ IF power > 0
     THEN /\ witness' = weighted(table, {w}, IF add THEN power ELSE -power)
          /\ update_auths(witness')
     ELSE witness' = table /\ UNCHANGED auths

votewitness(v, w) ==
  /\ Between /\ started /\ v \notin banned
  /\ w \in DOMAIN witness /\ witness[w].active
  /\ v \in DOMAIN votes =>
       /\ w \notin votes[v]
       /\ Cardinality(votes[v]) < params.max_witness_votes
  /\ votes' = IF v \in DOMAIN votes THEN [votes EXCEPT ![v] = @ \union {w}]
                                    ELSE Put(votes, v, {w})
  /\ apply_vote_weight([witness EXCEPT ![w].counter_votes = @ + 1], v, w, TRUE)
  /\ UNCHANGED <<params, banned, shares, inline, treasury>>

\* The row of a voter stays when its last vote is withdrawn.
unvotewitn(v, w) ==
  /\ Between /\ started
  /\ w \in DOMAIN witness
  /\ v \in DOMAIN votes /\ w \in votes[v]
  /\ votes' = [votes EXCEPT ![v] = @ \ {w}]
  /\ apply_vote_weight([witness EXCEPT ![w].counter_votes = @ - 1], v, w,
                       FALSE)
  /\ UNCHANGED <<params, banned, shares, inline, treasury>>

----------------------------------------------------------------------------
(* Vesting and its reports *)

report(who, diff) == [who |-> who, diff |-> diff]

change_shares(o, n) ==
  /\ Between /\ n # 0
  /\ Ledger!change(o, n) /\ shares'[o] <= MaxShares
  /\ inline' = <<report(o, n)>>
  /\ UNCHANGED <<params, witness, votes, banned, auths, treasury>>

\* A bulk transfer for two accounts, or two payouts in one procwaiting
change_two_shares(o1, n1, o2, n2) ==
  /\ Between /\ o1 # o2 /\ n1 # 0 /\ n2 # 0
  /\ Ledger!change_two(o1, n1, o2, n2)
  /\ shares'[o1] <= MaxShares /\ shares'[o2] <= MaxShares
  /\ inline' = <<report(o1, n1), report(o2, n2)>>
  /\ UNCHANGED <<params, witness, votes, banned, auths, treasury>>

open_or_close(o) ==
  /\ Between
  /\ Ledger!open(o) \/ Ledger!close(o)
  /\ UNCHANGED <<params, witness, votes, banned, auths, inline, treasury>>

VotedBy(v) == IF v \in DOMAIN votes THEN votes[v] ELSE {}

\* The next report is delivered.  Before there are parameters it is ignored.
changevest ==
  LET r == Head(inline) IN
  /\ ~Between
  /\ inline' = Tail(inline)
  /\ IF started /\ VotedBy(r.who) # {}
     THEN /\ witness' = weighted(witness, VotedBy(r.who), r.diff)
          /\ update_auths(witness')
     ELSE UNCHANGED <<witness, auths>>
  /\ UNCHANGED <<params, votes, banned, shares, treasury>>

----------------------------------------------------------------------------
(* Rewards *)

share_of(total, n) == total \div n

\* Mutant of payments: the winner is paid like the others.
equal_payments(top, winner, total) ==
  [w \in {x \in top : x = winner \/ share_of(total, Cardinality(top)) > 0} |->
     share_of(total, Cardinality(top))]

\* Each gets an equal part if there is one, and the winner gets what is left.
payments(top, winner, total) ==
  LET reward == share_of(total, Cardinality(top))
      others == IF reward > 0 THEN top \ {winner} ELSE {} IN
  [w \in others \union {winner} |->
     IF w = winner THEN total - Cardinality(others) * reward ELSE reward]

Paid(p) == Total(p)

\* The winner is drawn from the block: any of the top.
on_transfer(total) ==
  /\ Between
  /\ treasury' \in
       IF ~started \/ electable(witness) = {} THEN {treasury + total}
       ELSE UNION {{treasury + total - Paid(payments(top, w, total)) :
                      w \in top} : top \in top_witnesses(witness)}
  /\ treasury' <= MaxTreasury
  /\ UNCHANGED <<params, witness, votes, banned, auths, shares, inline>>

----------------------------------------------------------------------------

Tick ==
  /\ Between /\ msig.age < MaxAge
  /\ msig' = [msig EXCEPT !.age = @ + 1]
  /\ UNCHANGED <<params, witness, votes, banned, authority, resized, shares,
                 inline, treasury>>

Next ==
  \/ \E p \in ParamSets : setparams(p)
  \/ \E w \in Candidate :
       regwitness(w) \/ unregwitness(w) \/ stopwitness(w) \/ startwitness(w)
  \/ \E a \in Bannable : ban(a) \/ unban(a)
  \/ \E v \in Voter, w \in Candidate : votewitness(v, w) \/ unvotewitn(v, w)
  \/ \E o \in Voter, n \in Amount : change_shares(o, n)
  \/ \E o1, o2 \in Voter, n1, n2 \in Amount : change_two_shares(o1, n1, o2, n2)
  \/ \E o \in Voter : open_or_close(o)
  \/ changevest
  \/ \E total \in Reward : on_transfer(total)
  \/ Tick

Spec == Init /\ [][Next]_vars

----------------------------------------------------------------------------
(* Properties *)

\* Every table has its type.  Weights and counters are unsigned in the code and
\* are subtracted from without a check: they never go below zero, where they
\* would wrap around and lead the index.
TypeOK ==
  /\ params \in ParamSets \union {NoParams}
  /\ IsTable(witness, Candidate, WitnessType)
  /\ IsTable(votes, Voter, SUBSET Candidate)
  /\ banned \subseteq Bannable
  /\ msig \in [witnesses : SUBSET Candidate, age : 0..MaxAge]
  /\ IsTable(shares, Voter, Nat)
  /\ inline \in Seq(ReportType)
  /\ authority \in AuthorityType
  /\ resized \in BOOLEAN
  /\ treasury \in Nat

Voters(w) == {v \in DOMAIN votes : w \in votes[v]}

\* A counter and the lists of votes agree, and no list names a witness that is
\* not registered: a row removed and registered again would start with counters
\* that forget the votes for it.  Nobody has more votes than may be cast.
VotesCounted ==
  /\ \A w \in DOMAIN witness :
       witness[w].counter_votes = Cardinality(Voters(w))
  /\ \A v \in DOMAIN votes :
       /\ votes[v] \subseteq DOMAIN witness
       /\ Cardinality(votes[v]) <= params.max_witness_votes

\* What is held but not yet reported
Unreported(v) ==
  Total([i \in DOMAIN inline |->
           IF inline[i].who = v THEN inline[i].diff ELSE 0])

\* The weight of a witness is what its voters hold, through every order of
\* votes, stops, bans, purchases and payouts, up to the reports that are still
\* under way inside one transaction.
WeightIsVesting ==
  \A w \in DOMAIN witness :
    witness[w].total_weight =
      Total([v \in Voters(w) |-> Ledger!Held(shares, v) - Unreported(v)])

\* However a ban and the actions of the witness follow each other, a banned
\* account is never an active witness.
BannedInactive ==
  \A w \in DOMAIN witness : w \in banned => ~witness[w].active

\* The community account is in the hands of the full list of witnesses stored
\* last, although a list is stored without sending it when it is short.  Only a
\* change of max_witnesses makes the two differ.
AuthorityFollows ==
  started /\ ~resized /\ Cardinality(msig.witnesses) = params.max_witnesses
    => authority.accounts = msig.witnesses

\* The authority that was sent can be satisfied by its accounts, and the levels
\* are ordered: a threshold out of reach would lock the community account, and
\* cyber would refuse it and undo the vote or transfer that caused it.
AuthorityReachable ==
  LET t == authority.threshold IN
  authority # NoAuthority =>
    /\ 0 < t.minority
    /\ t.minority <= t.majority
    /\ t.majority <= t.super_majority
    /\ t.super_majority <= Cardinality(authority.accounts)

\* A reward is split without a rest and without empty payments, which the token
\* contract refuses, however it divides by the number of top witnesses.
RewardsSplit ==
  started =>
    \A top \in top_witnesses(witness), total \in Reward :
      \A winner \in top :
        LET p == payments(top, winner, total) IN
        /\ Paid(p) = total
        /\ \A w \in DOMAIN p : p[w] > 0

----------------------------------------------------------------------------
(* What the documents say and the code does not do *)

\* golos.ctrl_contract.md: "In case a list of the most rated witnesses is
\* changed, multisig_acc authorization will automatically be changed too."  A
\* list that was too short when it was stored is not sent after max_witnesses
\* was lowered to its size, although the list is full when computed again.
FullListIsSent ==
  [][LET refreshed == msig.age > 0 /\ msig'.age = 0 IN
     refreshed /\ Cardinality(msig'.witnesses) = params.max_witnesses
       => authority'.accounts = msig'.witnesses]_vars
=============================================================================
