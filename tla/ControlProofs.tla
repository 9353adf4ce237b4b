---------------------------- MODULE ControlProofs ----------------------------
(***************************************************************************)
(* Proofs about golos.ctrl for every set of voters, candidates and         *)
(* parameters: a banned account is never an active witness, the community  *)
(* account is in the hands of the list stored last, what it demands can be *)
(* met, and the counters of witnesses agree with the lists of votes.       *)
(* Then what the contract adds up: the weight of a witness is what its     *)
(* voters hold, weights and counters never go below zero, and a reward is  *)
(* split without a rest.                                                   *)
(***************************************************************************)
EXTENDS Control, SumTheorems

\* The fields of a row, without the ranges that need sums over the votes
IsRow(r) == r = [active |-> r.active, total_weight |-> r.total_weight,
                 counter_votes |-> r.counter_votes]

RowsSound == \A w \in DOMAIN witness : IsRow(witness[w])

\* Whatever was installed last passed the check of its thresholds.
ParamsSound ==
  /\ params \in ParamSets \union {NoParams}
  /\ started => check_msig_perms(params)

\* No list is stored before there are parameters.
MsigSound ==
  /\ msig = [witnesses |-> msig.witnesses, age |-> msig.age]
  /\ ~started => msig.witnesses = {}

IInv == /\ RowsSound /\ BannedInactive
        /\ ParamsSound /\ MsigSound
        /\ AuthorityFollows /\ AuthorityReachable

----------------------------------------------------------------------------
(* Lemmas on thresholds and rows *)

\* A threshold that is not given is computed, and at least one.
LEMMA ThresholdPositive ==
  ASSUME NEW val \in Nat, NEW top \in Nat, NEW num \in Nat,
         NEW denom \in Nat \ {0}
  PROVE  calc_thrs(val, top, num, denom) \in Nat \ {0}
<1>1. top * num \in Nat
  OBVIOUS
<1> DEFINE product == top * num
<1> HIDE DEF product
<1>2. product \in Nat => product \div denom \in Nat
  OBVIOUS
<1> QED BY <1>1, <1>2 DEF calc_thrs, product

\* Thresholds that pass the check are ordered and within the list.
LEMMA ThresholdsSound ==
  ASSUME NEW p \in ParamSets, check_msig_perms(p)
  PROVE  LET t == thresholds(p) IN
         /\ 0 < t.minority
         /\ t.minority <= t.majority
         /\ t.majority <= t.super_majority
         /\ t.super_majority <= p.max_witnesses
<1>1. /\ p.max_witnesses \in Nat /\ p.msig_perms.minority \in Nat
  BY ParamsAssumption DEF ParamType, ThresholdType
<1>2. calc_thrs(p.msig_perms.minority, p.max_witnesses, 1, 3) \in Nat \ {0}
  <2>1. 1 \in Nat /\ 3 \in Nat \ {0}
    OBVIOUS
  <2> QED BY <1>1, <2>1, ThresholdPositive, Zenon
<1>3. 0 < thresholds(p).minority
  BY <1>2 DEF thresholds
<1> QED BY <1>3 DEF check_msig_perms

\* Changing weights touches nothing else of a row.
LEMMA WeightedRows ==
  ASSUME NEW table, \A w \in DOMAIN table : IsRow(table[w]), NEW ws, NEW diff
  PROVE  /\ DOMAIN weighted(table, ws, diff) = DOMAIN table
         /\ \A w \in DOMAIN table :
              /\ IsRow(weighted(table, ws, diff)[w])
              /\ weighted(table, ws, diff)[w].active = table[w].active
BY DEF weighted, IsRow

----------------------------------------------------------------------------
(* The authority *)

\* Refreshing keeps the authority in step with the list, whatever the witness
\* table has become.
LEMMA UpdateAuths ==
  ASSUME IInv, NEW table, update_auths(table), UNCHANGED params
  PROVE  MsigSound' /\ AuthorityFollows' /\ AuthorityReachable'
<1> started
  BY DEF update_auths
<1>1. CASE UNCHANGED auths
  BY <1>1 DEF auths, IInv, MsigSound, AuthorityFollows, AuthorityReachable,
              started
<1>2. CASE ~UNCHANGED auths
  <2> PICK top \in top_witnesses(table) :
        LET full == Cardinality(top) = params.max_witnesses
            send == full /\ ~unchanged_top(top) IN
        /\ msig' = [age |-> 0, witnesses |->
                      IF top = {} THEN msig.witnesses ELSE top]
        /\ authority' = IF send THEN [accounts |-> top,
                                      threshold |-> thresholds(params)]
                                ELSE authority
        /\ resized' = (resized /\ ~send)
    BY <1>2 DEF update_auths
  <2>1. MsigSound'
    BY DEF MsigSound, started
  <2>2. CASE Cardinality(top) = params.max_witnesses /\ ~unchanged_top(top)
    <3>1. /\ authority'.accounts = top
          /\ authority'.threshold = thresholds(params)
      BY <2>2
    <3>2. params \in ParamSets /\ check_msig_perms(params)
      BY DEF IInv, ParamsSound, started
    <3>3. AuthorityReachable'
      BY <2>2, <3>1, <3>2, ThresholdsSound DEF AuthorityReachable
    <3>4. AuthorityFollows'
      <4>1. top # {}
        BY <2>2, <3>2, ParamsAssumption, FS_EmptySet DEF ParamType
      <4> QED BY <3>1, <4>1 DEF AuthorityFollows
    <3> QED BY <2>1, <3>3, <3>4
  <2>3. CASE ~(Cardinality(top) = params.max_witnesses /\ ~unchanged_top(top))
    <3>1. authority' = authority /\ (resized' <=> resized)
      BY <2>3
    <3>2. AuthorityReachable'
      BY <3>1 DEF IInv, AuthorityReachable
    <3>3. AuthorityFollows'
      <4>1. CASE top = {} \/ unchanged_top(top)
        <5>1. msig'.witnesses = msig.witnesses
          BY <4>1 DEF unchanged_top
        <5> QED BY <3>1, <5>1 DEF IInv, AuthorityFollows, started
      <4>2. CASE top # {} /\ ~unchanged_top(top)
        <5>1. Cardinality(msig'.witnesses) # params'.max_witnesses
          BY <2>3, <4>2
        <5> QED BY <5>1 DEF AuthorityFollows
      <4> QED BY <4>1, <4>2
    <3> QED BY <2>1, <3>2, <3>3
  <2> QED BY <2>2, <2>3
<1> QED BY <1>1, <1>2

----------------------------------------------------------------------------
(* IInv is inductive. *)

\* Before there are parameters nothing is stored or sent.
LEMMA InitIInv == Init => IInv
<1> SUFFICES ASSUME Init PROVE IInv
  OBVIOUS
<1>1. ~started /\ DOMAIN witness = {}
  BY DEF Init, started, EmptyTable
<1>2. MsigSound /\ AuthorityReachable
  BY <1>1 DEF Init, MsigSound, AuthorityReachable
<1>3. RowsSound /\ BannedInactive /\ AuthorityFollows
  BY <1>1 DEF RowsSound, BannedInactive, AuthorityFollows
<1>4. ParamsSound
  BY <1>1 DEF Init, ParamsSound
<1> QED BY <1>2, <1>3, <1>4 DEF IInv

\* Actions that change the witness table and refresh the authority: the rows
\* stay rows and activate nobody who is banned.
LEMMA RefreshStep ==
  ASSUME IInv, UNCHANGED params, update_auths(witness'),
         \A w \in DOMAIN witness' : IsRow(witness'[w]),
         \A w \in DOMAIN witness' : w \in banned' => ~witness'[w].active
  PROVE  IInv'
<1>1. MsigSound' /\ AuthorityFollows' /\ AuthorityReachable'
  BY UpdateAuths
<1>2. RowsSound' /\ BannedInactive'
  BY DEF RowsSound, BannedInactive
<1>3. ParamsSound'
  BY DEF IInv, ParamsSound, started, check_msig_perms, thresholds, calc_thrs
<1> QED BY <1>1, <1>2, <1>3 DEF IInv

\* Actions that leave parameters, list and authority alone
LEMMA QuietStep ==
  ASSUME IInv, UNCHANGED <<params, auths>>,
         \A w \in DOMAIN witness' : IsRow(witness'[w]),
         \A w \in DOMAIN witness' : w \in banned' => ~witness'[w].active
  PROVE  IInv'
<1>1. /\ MsigSound' /\ AuthorityFollows' /\ AuthorityReachable'
      /\ RowsSound' /\ BannedInactive'
  BY DEF IInv, auths, MsigSound, AuthorityFollows, AuthorityReachable,
         RowsSound, BannedInactive, started
<1>2. ParamsSound'
  BY DEF IInv, ParamsSound, started, check_msig_perms, thresholds, calc_thrs
<1> QED BY <1>1, <1>2 DEF IInv

\* Nothing changes but what no property is about.
LEMMA UntouchedStep ==
  ASSUME IInv, UNCHANGED <<params, witness, auths>>, banned' \subseteq banned
  PROVE  IInv'
BY QuietStep DEF IInv, RowsSound, BannedInactive

\* New parameters are checked when the thresholds or the size of the list
\* change, and otherwise pass because the old ones did.
LEMMA SetParamsStep ==
  ASSUME IInv, NEW p \in ParamSets, setparams(p)
  PROVE  IInv'
<1>1. check_msig_perms(p)
  <2>1. CASE must_recheck(p)
    BY <2>1 DEF setparams
  <2>2. CASE ~must_recheck(p)
    <3>1. /\ started /\ p.msig_perms = params.msig_perms
          /\ p.max_witnesses = params.max_witnesses
      BY <2>2 DEF must_recheck
    <3>2. check_msig_perms(params)
      BY <3>1 DEF IInv, ParamsSound
    <3> QED BY <3>1, <3>2 DEF check_msig_perms, thresholds
  <2> QED BY <2>1, <2>2
<1>2. ParamsSound'
  BY <1>1 DEF setparams, ParamsSound, started, check_msig_perms, thresholds,
              calc_thrs
<1>3. MsigSound' /\ RowsSound' /\ BannedInactive' /\ AuthorityReachable'
  BY <1>2, ParamsAssumption
  DEF setparams, IInv, MsigSound, RowsSound, BannedInactive,
      AuthorityReachable, started
<1>4. AuthorityFollows'
  <2>1. CASE started /\ p.max_witnesses = params.max_witnesses
    BY <2>1 DEF setparams, IInv, AuthorityFollows, started
  <2>2. CASE started /\ p.max_witnesses # params.max_witnesses
    BY <2>2 DEF setparams, AuthorityFollows
  <2>3. CASE ~started
    <3>1. msig'.witnesses = {} /\ params' \in ParamSets
      BY <2>3 DEF setparams, IInv, MsigSound
    <3>2. Cardinality(msig'.witnesses) # params'.max_witnesses
      BY <3>1, ParamsAssumption, FS_EmptySet DEF ParamType
    <3> QED BY <3>2 DEF AuthorityFollows
  <2> QED BY <2>1, <2>2, <2>3
<1> QED BY <1>2, <1>3, <1>4 DEF IInv

\* What IInv says of one witness
LEMMA WitnessFacts ==
  ASSUME IInv, NEW x \in DOMAIN witness
  PROVE  IsRow(witness[x]) /\ (x \in banned => ~witness[x].active)
BY DEF IInv, RowsSound, BannedInactive

\* Registered, stopped and removed witnesses may change the top.
LEMMA WitnessStep ==
  ASSUME IInv, NEW w \in Candidate,
         regwitness(w) \/ unregwitness(w) \/ stopwitness(w) \/ startwitness(w)
  PROVE  IInv'
<1>1. CASE regwitness(w)
  <2>1. \A x \in DOMAIN witness' :
          IsRow(witness'[x]) /\ (x \in banned => ~witness'[x].active)
    BY <1>1, WitnessFacts DEF regwitness, Put, IsRow
  <2> QED BY <1>1, <2>1, RefreshStep DEF regwitness
<1>2. CASE unregwitness(w)
  <2>1. \A x \in DOMAIN witness' :
          IsRow(witness'[x]) /\ (x \in banned => ~witness'[x].active)
    BY <1>2, WitnessFacts DEF unregwitness, Drop
  <2> QED BY <1>2, <2>1, RefreshStep DEF unregwitness
<1>3. CASE stopwitness(w)
  <2>1. \A x \in DOMAIN witness' :
          IsRow(witness'[x]) /\ (x \in banned => ~witness'[x].active)
    BY <1>3, WitnessFacts DEF stopwitness, IsRow
  <2> QED BY <1>3, <2>1, RefreshStep DEF stopwitness
<1>4. CASE startwitness(w)
  <2>1. \A x \in DOMAIN witness' :
          IsRow(witness'[x]) /\ (x \in banned => ~witness'[x].active)
    BY <1>4, WitnessFacts DEF startwitness, may_start, IsRow
  <2> QED BY <1>4, <2>1, RefreshStep DEF startwitness
<1> QED BY <1>1, <1>2, <1>3, <1>4

\* A ban stops the witness before the authority is looked at.
LEMMA BanStep ==
  ASSUME IInv, NEW a \in Bannable, ban(a) \/ unban(a)
  PROVE  IInv'
<1>1. CASE unban(a)
  BY <1>1, UntouchedStep DEF unban
<1>2. CASE ban(a) /\ a \in DOMAIN witness /\ witness[a].active
  <2>1. \A x \in DOMAIN witness' :
          IsRow(witness'[x]) /\ (x \in banned' => ~witness'[x].active)
    BY <1>2, WitnessFacts DEF ban, IsRow
  <2> QED BY <1>2, <2>1, RefreshStep DEF ban
<1>3. CASE ban(a) /\ ~(a \in DOMAIN witness /\ witness[a].active)
  <2>1. \A x \in DOMAIN witness' :
          IsRow(witness'[x]) /\ (x \in banned' => ~witness'[x].active)
    BY <1>3, WitnessFacts DEF ban
  <2> QED BY <1>3, <2>1, QuietStep DEF ban
<1> QED BY <1>1, <1>2, <1>3

\* A vote changes a counter and perhaps a weight.
LEMMA VoteStep ==
  ASSUME IInv, NEW v \in Voter, NEW w \in Candidate,
         votewitness(v, w) \/ unvotewitn(v, w)
  PROVE  IInv'
<1>1. PICK n : \E add \in BOOLEAN :
        apply_vote_weight([witness EXCEPT ![w].counter_votes = n], v, w, add)
  <2>1. CASE votewitness(v, w)
    <3> WITNESS witness[w].counter_votes + 1
    <3> WITNESS TRUE \in BOOLEAN
    <3> QED BY <2>1 DEF votewitness
  <2>2. CASE unvotewitn(v, w)
    <3> WITNESS witness[w].counter_votes - 1
    <3> WITNESS FALSE \in BOOLEAN
    <3> QED BY <2>2 DEF unvotewitn
  <2> QED BY <2>1, <2>2
<1> DEFINE table == [witness EXCEPT ![w].counter_votes = n]
<1>2. \A x \in DOMAIN table :
        IsRow(table[x]) /\ (x \in banned => ~table[x].active)
  <2> SUFFICES ASSUME NEW x \in DOMAIN witness
               PROVE  IsRow(table[x]) /\ (x \in banned => ~table[x].active)
    OBVIOUS
  <2>1. IsRow(witness[x]) /\ (x \in banned => ~witness[x].active)
    BY WitnessFacts
  <2>2. \/ table[x] = witness[x]
        \/ table[x] = [witness[x] EXCEPT !.counter_votes = n]
    OBVIOUS
  <2> HIDE DEF table
  <2> QED BY <2>1, <2>2 DEF IsRow
<1>3. \A x \in DOMAIN witness' :
        IsRow(witness'[x]) /\ (x \in banned => ~witness'[x].active)
  <2>1. \/ witness' = table
        \/ \E diff : witness' = weighted(table, {w}, diff)
    <3> PICK add \in BOOLEAN : apply_vote_weight(table, v, w, add)
      BY <1>1
    <3> HIDE DEF table
    <3> QED BY DEF apply_vote_weight
  <2> HIDE DEF table
  <2>2. CASE witness' = table
    BY <1>2, <2>2
  <2>3. CASE \E diff : witness' = weighted(table, {w}, diff)
    <3> PICK diff : witness' = weighted(table, {w}, diff)
      BY <2>3
    <3>1. /\ DOMAIN witness' = DOMAIN table
          /\ \A x \in DOMAIN table :
               IsRow(witness'[x]) /\ witness'[x].active = table[x].active
      BY <1>2, WeightedRows
    <3> QED BY <1>2, <3>1
  <2> QED BY <2>1, <2>2, <2>3
<1>4. UNCHANGED <<params, banned>>
  BY DEF votewitness, unvotewitn
<1>5. update_auths(witness') \/ UNCHANGED auths
  BY <1>1 DEF apply_vote_weight
<1> QED BY <1>3, <1>4, <1>5, RefreshStep, QuietStep

\* A report changes weights, and with them the top.
LEMMA ChangeVestStep ==
  ASSUME IInv, changevest
  PROVE  IInv'
<1>1. UNCHANGED <<params, banned>>
  BY DEF changevest
<1>2. CASE UNCHANGED <<witness, auths>>
  BY <1>1, <1>2, UntouchedStep
<1>3. CASE /\ update_auths(witness')
           /\ \E ws, diff : witness' = weighted(witness, ws, diff)
  <2>1. \A x \in DOMAIN witness' :
          IsRow(witness'[x]) /\ (x \in banned => ~witness'[x].active)
    BY <1>3, WitnessFacts, WeightedRows
  <2> QED BY <1>1, <1>3, <2>1, RefreshStep
<1> QED BY <1>2, <1>3 DEF changevest

\* Time only makes the list older.
LEMMA TickStep ==
  ASSUME IInv, Tick
  PROVE  IInv'
BY DEF Tick, IInv, RowsSound, BannedInactive, ParamsSound, MsigSound,
       AuthorityFollows, AuthorityReachable, started, check_msig_perms,
       thresholds, calc_thrs

----------------------------------------------------------------------------
(* Counters of votes *)

\* VotesCounted with what it needs: rows are rows, the sets that are counted
\* are finite, and nobody has voted before there are parameters.
VotesInv ==
  /\ RowsSound /\ VotesCounted
  /\ params \in ParamSets \union {NoParams}
  /\ started \/ DOMAIN votes = {}
  /\ IsFiniteSet(DOMAIN votes)
  /\ \A v \in DOMAIN votes : IsFiniteSet(votes[v])

\* Steps that keep the votes, the registered witnesses and their counters
LEMMA SameVotes ==
  ASSUME VotesInv, UNCHANGED <<params, votes>>,
         DOMAIN witness' = DOMAIN witness,
         \A w \in DOMAIN witness :
           /\ IsRow(witness'[w])
           /\ witness'[w].counter_votes = witness[w].counter_votes
  PROVE  VotesInv'
BY DEF VotesInv, RowsSound, VotesCounted, Voters, started

\* Changing weights leaves the counters.
LEMMA WeightedCounters ==
  ASSUME NEW table, \A w \in DOMAIN table : IsRow(table[w]), NEW ws, NEW diff
  PROVE  \A w \in DOMAIN table :
           weighted(table, ws, diff)[w].counter_votes = table[w].counter_votes
BY DEF weighted, IsRow

\* Whoever is not registered has no votes, and is registered without any;
\* whoever is removed has none either.
LEMMA RegistryVotes ==
  ASSUME VotesInv, NEW w \in Candidate, regwitness(w) \/ unregwitness(w)
  PROVE  VotesInv'
<1>1. UNCHANGED <<params, votes>>
  BY DEF regwitness, unregwitness
<1>2. \A x : IsFiniteSet(Voters(x))
  BY FS_Subset DEF VotesInv, Voters
<1>3. CASE regwitness(w) /\ w \in DOMAIN witness
  <2>1. \A x \in DOMAIN witness :
          /\ IsRow(witness'[x])
          /\ witness'[x].counter_votes = witness[x].counter_votes
    <3>1. witness' = [witness EXCEPT ![w].active = TRUE]
      BY <1>3 DEF regwitness
    <3>2. \A x \in DOMAIN witness : IsRow(witness[x])
      BY DEF VotesInv, RowsSound
    <3>3. IsRow(witness'[w]) /\ witness'[w].counter_votes = witness[w].counter_votes
      <4> DEFINE r == witness[w]
      <4>1. witness'[w] = [r EXCEPT !.active = TRUE] /\ IsRow(r)
        BY <1>3, <3>1, <3>2
      <4> HIDE DEF r
      <4>2. witness'[w] = [active |-> TRUE, total_weight |-> r.total_weight,
                           counter_votes |-> r.counter_votes]
        BY <4>1 DEF IsRow
      <4>3. IsRow(witness'[w]) /\ witness'[w].counter_votes = r.counter_votes
        BY <4>2 DEF IsRow
      <4> QED BY <4>3 DEF r
    <3>4. \A x \in DOMAIN witness \ {w} : witness'[x] = witness[x]
      BY <3>1
    <3> QED BY <3>2, <3>3, <3>4
  <2>2. DOMAIN witness' = DOMAIN witness
    BY <1>3 DEF regwitness
  <2> QED BY <1>1, <2>1, <2>2, SameVotes
<1>4. CASE regwitness(w) /\ w \notin DOMAIN witness
  <2>1. witness' = Put(witness, w, [active |-> TRUE, total_weight |-> 0,
                                    counter_votes |-> 0])
    BY <1>4 DEF regwitness
  <2>2. Voters(w) = {}
    BY <1>4 DEF VotesInv, VotesCounted, Voters
  <2>3. RowsSound'
    BY <2>1 DEF VotesInv, RowsSound, IsRow, Put
  <2>4. VotesCounted'
    <3>1. \A x : Voters(x)' = Voters(x)
      BY <1>1 DEF Voters
    <3>2. \A x \in DOMAIN witness' : witness'[x].counter_votes = Cardinality(Voters(x)')
      BY <1>4, <2>1, <2>2, <3>1, FS_EmptySet DEF VotesInv, VotesCounted, Put
    <3>3. DOMAIN witness \subseteq DOMAIN witness'
      BY <2>1 DEF Put
    <3>4. \A v \in DOMAIN votes' : /\ votes'[v] \subseteq DOMAIN witness'
                                   /\ Cardinality(votes'[v]) <= params'.max_witness_votes
      BY <1>1, <3>3 DEF VotesInv, VotesCounted
    <3> QED BY <3>2, <3>4 DEF VotesCounted, Voters
  <2> QED BY <1>1, <2>3, <2>4 DEF VotesInv, started
<1>5. CASE unregwitness(w)
  <2>1. witness' = Drop(witness, w) /\ w \in DOMAIN witness
    BY <1>5 DEF unregwitness
  <2>2. Cardinality(Voters(w)) = 0
    BY <1>5 DEF unregwitness, removable, VotesInv, VotesCounted
  <2>3. Voters(w) = {}
    BY <1>2, <2>2, FS_EmptySet
  <2>4. \A v \in DOMAIN votes : w \notin votes[v]
    BY <2>3 DEF Voters
  <2>5. RowsSound'
    BY <2>1 DEF VotesInv, RowsSound, Drop
  <2>6. VotesCounted'
    BY <1>1, <2>1, <2>4 DEF VotesInv, VotesCounted, Voters, Drop
  <2> QED BY <1>1, <2>5, <2>6 DEF VotesInv, started
<1> QED BY <1>3, <1>4, <1>5

\* A vote that is given or taken back moves the counter of its witness, and the
\* length of the voter's list, by one.
LEMMA CountedVote ==
  ASSUME VotesInv, NEW v \in Voter, NEW w \in Candidate,
         votewitness(v, w) \/ unvotewitn(v, w)
  PROVE  VotesInv'
<1>1. started /\ UNCHANGED params /\ w \in DOMAIN witness
  BY DEF votewitness, unvotewitn
<1>2. \A x : IsFiniteSet(Voters(x))
  BY FS_Subset DEF VotesInv, Voters
<1>3. IsFiniteSet(VotedBy(v)) /\ \A x : VotedBy(x) \subseteq DOMAIN witness
  BY FS_EmptySet DEF VotesInv, VotesCounted, VotedBy
<1>4. params.max_witness_votes \in Nat \ {0}
  BY <1>1, ParamsAssumption DEF VotesInv, started, ParamType
<1>n. Cardinality(Voters(w)) \in Nat /\ Cardinality(VotedBy(v)) \in Nat
  BY <1>2, <1>3, FS_CardinalityType
<1>5. PICK n, list :
        /\ DOMAIN votes' = DOMAIN votes \union {v}
        /\ \A x \in DOMAIN votes' : votes'[x] = IF x = v THEN list ELSE votes[x]
        /\ IsFiniteSet(list) /\ list \subseteq DOMAIN witness
        /\ Cardinality(list) <= params.max_witness_votes
        /\ \A x \in DOMAIN witness \ {w} : x \in list <=> x \in VotedBy(v)
        /\ n = Cardinality(Voters(w)')
        /\ \E add \in BOOLEAN :
             apply_vote_weight([witness EXCEPT ![w].counter_votes = n], v, w, add)
  <2>1. CASE votewitness(v, w)
    <3> DEFINE list == VotedBy(v) \union {w}
    <3>1. /\ DOMAIN votes' = DOMAIN votes \union {v}
          /\ \A x \in DOMAIN votes' : votes'[x] = IF x = v THEN list ELSE votes[x]
      BY <2>1 DEF votewitness, VotedBy, Put
    <3>2. w \notin VotedBy(v) /\ Cardinality(VotedBy(v)) < params.max_witness_votes
      BY <1>4, <2>1, FS_EmptySet DEF votewitness, VotedBy
    <3>3. IsFiniteSet(list) /\ Cardinality(list) = Cardinality(VotedBy(v)) + 1
      BY <1>3, <3>2, FS_AddElement
    <3>4. Voters(w)' = Voters(w) \union {v} /\ v \notin Voters(w)
      BY <3>1, <3>2 DEF Voters, VotedBy
    <3>5. Cardinality(Voters(w)') = Cardinality(Voters(w)) + 1
      BY <1>2, <3>4, FS_AddElement
    <3>6. witness[w].counter_votes = Cardinality(Voters(w))
      BY <1>1 DEF VotesInv, VotesCounted
    <3>7. apply_vote_weight([witness EXCEPT ![w].counter_votes = Cardinality(Voters(w)')], v, w, TRUE)
      <4>1. [witness EXCEPT ![w].counter_votes = @ + 1]
              = [witness EXCEPT ![w].counter_votes = Cardinality(Voters(w)')]
        BY <3>5, <3>6
      <4> QED BY <2>1, <4>1 DEF votewitness
    <3>8. Cardinality(list) <= params.max_witness_votes
      BY <1>4, <1>n, <3>2, <3>3
    <3>9. list \subseteq DOMAIN witness
      BY <1>1, <1>3
    <3>10. \A x \in DOMAIN witness \ {w} : x \in list <=> x \in VotedBy(v)
      OBVIOUS
    <3> QED BY <3>1, <3>3, <3>7, <3>8, <3>9, <3>10
  <2>2. CASE unvotewitn(v, w)
    <3> DEFINE list == VotedBy(v) \ {w}
    <3>1. /\ v \in DOMAIN votes /\ w \in VotedBy(v)
          /\ DOMAIN votes' = DOMAIN votes \union {v}
          /\ \A x \in DOMAIN votes' : votes'[x] = IF x = v THEN list ELSE votes[x]
      BY <2>2 DEF unvotewitn, VotedBy
    <3>2. Cardinality(VotedBy(v)) <= params.max_witness_votes
      BY <3>1 DEF VotesInv, VotesCounted, VotedBy
    <3>3. IsFiniteSet(list) /\ Cardinality(list) = Cardinality(VotedBy(v)) - 1
      BY <1>3, <3>1, FS_RemoveElement
    <3>4. Voters(w)' = Voters(w) \ {v} /\ v \in Voters(w)
      BY <3>1 DEF Voters, VotedBy
    <3>5. Cardinality(Voters(w)') = Cardinality(Voters(w)) - 1
      BY <1>2, <3>4, FS_RemoveElement
    <3>6. witness[w].counter_votes = Cardinality(Voters(w))
      BY <1>1 DEF VotesInv, VotesCounted
    <3>7. apply_vote_weight([witness EXCEPT ![w].counter_votes = Cardinality(Voters(w)')], v, w, FALSE)
      <4>1. [witness EXCEPT ![w].counter_votes = @ - 1]
              = [witness EXCEPT ![w].counter_votes = Cardinality(Voters(w)')]
        BY <3>5, <3>6
      <4> QED BY <2>2, <4>1 DEF unvotewitn
    <3>8. Cardinality(list) <= params.max_witness_votes
      BY <1>4, <1>n, <3>2, <3>3
    <3>9. list \subseteq DOMAIN witness
      BY <1>3
    <3>10. \A x \in DOMAIN witness \ {w} : x \in list <=> x \in VotedBy(v)
      OBVIOUS
    <3> QED BY <3>1, <3>3, <3>7, <3>8, <3>9, <3>10
  <2> QED BY <2>1, <2>2
<1> DEFINE table == [witness EXCEPT ![w].counter_votes = n]
<1>6. /\ DOMAIN table = DOMAIN witness
      /\ \A x \in DOMAIN table :
           /\ IsRow(table[x])
           /\ table[x].counter_votes = IF x = w THEN n ELSE witness[x].counter_votes
  BY DEF VotesInv, RowsSound, IsRow
<1> HIDE DEF table
<1>7. /\ DOMAIN witness' = DOMAIN witness
      /\ \A x \in DOMAIN witness :
           /\ IsRow(witness'[x])
           /\ witness'[x].counter_votes = IF x = w THEN n ELSE witness[x].counter_votes
  <2>1. CASE witness' = table
    BY <1>6, <2>1
  <2>2. CASE \E diff : witness' = weighted(table, {w}, diff)
    BY <1>6, <2>2, WeightedRows, WeightedCounters
  <2> QED BY <1>5, <2>1, <2>2 DEF apply_vote_weight, table
<1>8. \A x \in DOMAIN witness \ {w} : Voters(x)' = Voters(x)
  BY <1>5 DEF Voters, VotedBy
<1>9. VotesCounted'
  <2>1. \A x \in DOMAIN witness' : witness'[x].counter_votes = Cardinality(Voters(x)')
    BY <1>5, <1>7, <1>8 DEF VotesInv, VotesCounted
  <2>2. \A x \in DOMAIN votes' : /\ votes'[x] \subseteq DOMAIN witness'
                                 /\ Cardinality(votes'[x]) <= params'.max_witness_votes
    BY <1>1, <1>5, <1>7 DEF VotesInv, VotesCounted
  <2> QED BY <2>1, <2>2 DEF VotesCounted, Voters
<1>10. /\ IsFiniteSet(DOMAIN votes')
       /\ \A x \in DOMAIN votes' : IsFiniteSet(votes'[x])
  BY <1>5, FS_AddElement DEF VotesInv
<1> QED BY <1>1, <1>7, <1>9, <1>10 DEF VotesInv, RowsSound, started

\* Every step keeps the counters right.
LEMMA VotesStep == VotesInv /\ [Next]_vars => VotesInv'
<1> SUFFICES ASSUME VotesInv, [Next]_vars PROVE VotesInv'
  OBVIOUS
<1>1. CASE \E p \in ParamSets : setparams(p)
  <2>1. /\ UNCHANGED <<witness, votes>> /\ params' \in ParamSets
        /\ started => params'.max_witness_votes = params.max_witness_votes
    BY <1>1 DEF setparams, immutables_kept
  <2>2. RowsSound' /\ started' /\ \A x : Voters(x)' = Voters(x)
    BY <2>1, ParamsAssumption DEF VotesInv, RowsSound, Voters, started
  <2>3. VotesCounted'
    <3>1. \A x \in DOMAIN witness' : witness'[x].counter_votes = Cardinality(Voters(x)')
      BY <2>1, <2>2 DEF VotesInv, VotesCounted
    <3>2. \A v \in DOMAIN votes' : /\ votes'[v] \subseteq DOMAIN witness'
                                   /\ Cardinality(votes'[v]) <= params'.max_witness_votes
      BY <2>1 DEF VotesInv, VotesCounted
    <3> QED BY <3>1, <3>2 DEF VotesCounted, Voters
  <2> QED BY <2>1, <2>2, <2>3 DEF VotesInv
<1>2. CASE \E w \in Candidate : regwitness(w) \/ unregwitness(w)
  BY <1>2, RegistryVotes
<1>3. CASE \/ \E w \in Candidate : stopwitness(w) \/ startwitness(w)
           \/ \E a \in Bannable : ban(a) \/ unban(a)
  <2>1. UNCHANGED <<params, votes>>
    BY <1>3 DEF stopwitness, startwitness, ban, unban
  <2>2. /\ DOMAIN witness' = DOMAIN witness
        /\ \A x \in DOMAIN witness :
             /\ IsRow(witness'[x])
             /\ witness'[x].counter_votes = witness[x].counter_votes
    BY <1>3 DEF stopwitness, startwitness, ban, unban, VotesInv, RowsSound, IsRow
  <2> QED BY <2>1, <2>2, SameVotes
<1>4. CASE \E v \in Voter, w \in Candidate : votewitness(v, w) \/ unvotewitn(v, w)
  BY <1>4, CountedVote
<1>5. CASE changevest
  <2>1. UNCHANGED <<params, votes>>
    BY <1>5 DEF changevest
  <2>2. \/ witness' = witness
        \/ \E ws, diff : witness' = weighted(witness, ws, diff)
    BY <1>5 DEF changevest
  <2>3. /\ DOMAIN witness' = DOMAIN witness
        /\ \A x \in DOMAIN witness :
             /\ IsRow(witness'[x])
             /\ witness'[x].counter_votes = witness[x].counter_votes
    BY <2>2, WeightedRows, WeightedCounters DEF VotesInv, RowsSound
  <2> QED BY <2>1, <2>3, SameVotes
<1>6. CASE \/ \E o \in Voter, n \in Amount : change_shares(o, n)
           \/ \E o1, o2 \in Voter, n1, n2 \in Amount :
                change_two_shares(o1, n1, o2, n2)
           \/ \E o \in Voter : open_or_close(o)
           \/ \E total \in Reward : on_transfer(total)
           \/ Tick \/ UNCHANGED vars
  <2>1. UNCHANGED <<params, votes, witness>>
    BY <1>6 DEF change_shares, change_two_shares, open_or_close, on_transfer, Tick, vars
  <2> QED BY <2>1, SameVotes DEF VotesInv, RowsSound
<1> QED BY <1>1, <1>2, <1>3, <1>4, <1>5, <1>6 DEF Next

----------------------------------------------------------------------------
(* Results *)

\* Every step of the contract, of vesting and of time keeps the invariant.
LEMMA IInvStep == IInv /\ [Next]_vars => IInv'
<1> SUFFICES ASSUME IInv, [Next]_vars PROVE IInv'
  OBVIOUS
<1>1. CASE \E p \in ParamSets : setparams(p)
  BY <1>1, SetParamsStep
<1>2. CASE \E w \in Candidate : regwitness(w) \/ unregwitness(w)
                                \/ stopwitness(w) \/ startwitness(w)
  BY <1>2, WitnessStep
<1>3. CASE \E a \in Bannable : ban(a) \/ unban(a)
  BY <1>3, BanStep
<1>4. CASE \E v \in Voter, w \in Candidate :
             votewitness(v, w) \/ unvotewitn(v, w)
  BY <1>4, VoteStep
<1>5. CASE \/ \E o \in Voter, n \in Amount : change_shares(o, n)
           \/ \E o1, o2 \in Voter, n1, n2 \in Amount :
                change_two_shares(o1, n1, o2, n2)
           \/ \E o \in Voter : open_or_close(o)
           \/ \E total \in Reward : on_transfer(total)
           \/ UNCHANGED vars
  BY <1>5, UntouchedStep DEF change_shares, change_two_shares, open_or_close,
     on_transfer, vars, auths
<1>6. CASE changevest
  BY <1>6, ChangeVestStep
<1>7. CASE Tick
  BY <1>7, TickStep
<1> QED BY <1>1, <1>2, <1>3, <1>4, <1>5, <1>6, <1>7 DEF Next

\* The three properties hold with what they need in every reachable state.
LEMMA Invariance == Spec => []IInv
BY InitIInv, IInvStep, PTL DEF Spec

\* No order of bans, registrations, stops and starts leaves a banned account an
\* active witness.
THEOREM BansHold == Spec => []BannedInactive
<1>1. IInv => BannedInactive
  BY DEF IInv
<1> QED BY <1>1, Invariance, PTL

\* When the list stored last is full, the community account is in its hands,
\* unless max_witnesses changed since an authority was sent.
THEOREM AuthorityStaysInStep == Spec => []AuthorityFollows
<1>1. IInv => AuthorityFollows
  BY DEF IInv
<1> QED BY <1>1, Invariance, PTL

\* No parameters that setparams accepts, in any order, lead to an authority
\* whose thresholds are out of order or out of reach of its accounts.
THEOREM AuthorityStaysReachable == Spec => []AuthorityReachable
<1>1. IInv => AuthorityReachable
  BY DEF IInv
<1> QED BY <1>1, Invariance, PTL

\* Counters and lists of votes agree for any number of voters and witnesses, no
\* list names an unregistered witness and none is longer than allowed.
THEOREM VotesStayCounted == Spec => []VotesCounted
<1>1. Init => VotesInv
  BY FS_EmptySet DEF Init, EmptyTable, VotesInv, VotesCounted, Voters, RowsSound
<1>2. VotesInv => VotesCounted
  BY DEF VotesInv
<1> QED BY <1>1, <1>2, VotesStep, PTL DEF Spec

----------------------------------------------------------------------------
(* The weights of witnesses *)

\* What each voter is known to hold: its shares without the reports that are
\* still under way
told == [v \in Voter |-> Ledger!Held(shares, v) - Unreported(v)]

\* WeightIsVesting, with the sum taken of one function
Weighed == \A w \in DOMAIN witness :
             witness[w].total_weight = SumOver(told, Voters(w))

\* One transaction of vesting reports at most two accounts, once each.
InlineSound ==
  \/ inline = <<>>
  \/ \E r \in ReportType : inline = <<r>>
  \/ \E r, s \in ReportType : inline = <<r, s>> /\ r.who # s.who

TablesSound == /\ IsFiniteSet(DOMAIN witness)
               /\ DOMAIN witness \subseteq Candidate
               /\ DOMAIN votes \subseteq Voter
               /\ IsTable(shares, Voter, Nat)

\* A report that is still under way never takes more than there was.
WeightInv == /\ VotesInv /\ TablesSound /\ InlineSound
             /\ told \in [Voter -> Nat] /\ Weighed

----------------------------------------------------------------------------
(* Reports on their way *)

\* Unreported, for any list of reports
Outstanding(list, v) ==
  Total([i \in DOMAIN list |-> IF list[i].who = v THEN list[i].diff ELSE 0])

\* What a report says of v
Says(r, v) == IF r.who = v THEN r.diff ELSE 0

\* With no report on its way nothing is outstanding.
LEMMA OutstandingNone == \A v : Outstanding(<<>>, v) = 0
<1> TAKE v
<1> DEFINE f == [i \in DOMAIN <<>> |-> IF <<>>[i].who = v THEN <<>>[i].diff ELSE 0]
<1>1. DOMAIN f = {}
  OBVIOUS
<1> HIDE DEF f
<1>2. Total(f) = 0
  BY <1>1, TotalEmpty
<1> QED BY <1>2 DEF Outstanding, f

\* A report says a number.
LEMMA SaysInt == ASSUME NEW r \in ReportType, NEW v PROVE Says(r, v) \in Int
<1>1. r.diff \in Amount
  BY DEF ReportType
<1>2. Amount \subseteq Int
  BY BoundsAssumption, Zenon
<1>3. r.diff \in Int
  BY <1>1, <1>2
<1> QED BY <1>3 DEF Says

\* Of one or two reports, what they say is outstanding.
LEMMA OutstandingOne ==
  ASSUME NEW r \in ReportType, NEW v
  PROVE  Outstanding(<<r>>, v) = Says(r, v) /\ Says(r, v) \in Int
<1> DEFINE f == [i \in DOMAIN <<r>> |-> IF <<r>>[i].who = v THEN <<r>>[i].diff ELSE 0]
<1>1. DOMAIN f = {1} /\ f[1] = Says(r, v)
  BY DEF Says
<1>2. Says(r, v) \in Int
  BY SaysInt
<1> HIDE DEF f
<1>3. Total(f) = SumOver(f, {} \union {1})
  BY <1>1 DEF Total
<1>4. SumOver(f, {} \union {1}) = SumOver(f, {}) + f[1]
  BY <1>1, <1>2, FS_EmptySet, SumInsert
<1>5. SumOver(f, {}) = 0
  BY SumEmpty
<1>6. Total(f) = Says(r, v)
  BY <1>1, <1>2, <1>3, <1>4, <1>5
<1> QED BY <1>2, <1>6 DEF Outstanding, f

\* The same for two
LEMMA OutstandingTwo ==
  ASSUME NEW r \in ReportType, NEW s \in ReportType, NEW v
  PROVE  /\ Outstanding(<<r, s>>, v) = Says(r, v) + Says(s, v)
         /\ Says(r, v) \in Int /\ Says(s, v) \in Int
<1> DEFINE f == [i \in DOMAIN <<r, s>> |->
                   IF <<r, s>>[i].who = v THEN <<r, s>>[i].diff ELSE 0]
<1>1. DOMAIN f = {1, 2} /\ f[1] = Says(r, v) /\ f[2] = Says(s, v)
  BY DEF Says
<1>2. Says(r, v) \in Int /\ Says(s, v) \in Int
  BY SaysInt
<1> HIDE DEF f
<1>3. IsFiniteSet({1, 2})
  <2>1. IsFiniteSet({1}) /\ {1, 2} = {1} \union {2}
    BY FS_Singleton
  <2> QED BY <2>1, FS_AddElement
<1>4. SumOver(f, {1, 2}) = f[1] + SumOver(f, {1, 2} \ {1})
  BY <1>1, <1>2, <1>3, SumRemove
<1>5. {1, 2} \ {1} = {} \union {2}
  OBVIOUS
<1>6. SumOver(f, {} \union {2}) = SumOver(f, {}) + f[2]
  BY <1>1, <1>2, FS_EmptySet, SumInsert
<1>7. SumOver(f, {}) = 0
  BY SumEmpty
<1>8. Total(f) = f[1] + f[2]
  BY <1>1, <1>2, <1>4, <1>5, <1>6, <1>7 DEF Total
<1> QED BY <1>1, <1>2, <1>8 DEF Outstanding, f

----------------------------------------------------------------------------
(* What is known of each voter *)

\* The function, entry by entry, before and after a step
LEMMA ToldIs ==
  /\ told = [v \in Voter |-> Ledger!Held(shares, v) - Outstanding(inline, v)]
  /\ told' = [v \in Voter |-> Ledger!Held(shares', v) - Outstanding(inline', v)]
BY DEF told, Unreported, Outstanding

\* Between two transactions everything is known.
LEMMA ToldIsHeld ==
  ASSUME Between, TablesSound, NEW v \in Voter
  PROVE  told[v] = Ledger!Held(shares, v) /\ Ledger!Held(shares, v) \in Nat
<1>1. Ledger!Held(shares, v) \in Nat
  BY DEF Ledger!Held, TablesSound, IsTable
<1>2. Outstanding(inline, v) = 0
  BY OutstandingNone DEF Between
<1>3. told[v] = Ledger!Held(shares, v) - Outstanding(inline, v)
  BY ToldIs
<1> QED BY <1>1, <1>2, <1>3

\* A change that is reported is not known yet.
LEMMA ToldUnchanged ==
  ASSUME Between, TablesSound,
         \A v \in Voter :
           /\ Outstanding(inline', v) \in Int
           /\ Ledger!Held(shares', v)
                = Ledger!Held(shares, v) + Outstanding(inline', v)
  PROVE  told' = told
<1>1. ASSUME NEW v \in Voter PROVE told'[v] = told[v]
  <2>1. told'[v] = Ledger!Held(shares', v) - Outstanding(inline', v)
    BY ToldIs
  <2>2. told[v] = Ledger!Held(shares, v) /\ Ledger!Held(shares, v) \in Nat
    BY ToldIsHeld
  <2>3. /\ Outstanding(inline', v) \in Int
        /\ Ledger!Held(shares', v)
             = Ledger!Held(shares, v) + Outstanding(inline', v)
    OBVIOUS
  <2> QED BY <2>1, <2>2, <2>3
<1>2. /\ told = [v \in Voter |-> told[v]]
      /\ told' = [v \in Voter |-> told'[v]]
  BY DEF told
<1>3. [v \in Voter |-> told'[v]] = [v \in Voter |-> told[v]]
  BY <1>1
<1> QED BY <1>2, <1>3

\* One account's shares change.
LEMMA MovedShares ==
  ASSUME NEW table, IsTable(table, Voter, Nat), NEW o \in Voter, NEW n \in Int,
         Ledger!Held(table, o) + n >= 0
  PROVE  /\ IsTable(Ledger!moved(table, o, n), Voter, Nat)
         /\ \A v \in Voter : Ledger!Held(Ledger!moved(table, o, n), v)
                               = Ledger!Held(table, v) + (IF v = o THEN n ELSE 0)
         /\ \A v \in Voter : Ledger!Held(table, v) \in Nat
<1> DEFINE new == Ledger!moved(table, o, n)
<1>1. \A v \in Voter : Ledger!Held(table, v) \in Nat
  BY DEF Ledger!Held, IsTable
<1>2. /\ DOMAIN new = DOMAIN table \union {o}
      /\ \A k \in DOMAIN new :
           new[k] = IF k = o THEN Ledger!Held(table, o) + n ELSE table[k]
      /\ new = [k \in DOMAIN new |-> new[k]]
  BY DEF Ledger!moved, Ledger!Put
<1> HIDE DEF new
<1>3. Ledger!Held(table, o) + n \in Nat
  BY <1>1
<1>4. \A k \in DOMAIN table : table[k] \in Nat
  BY DEF IsTable
<1>5. \A k \in DOMAIN new : new[k] \in Nat
  BY <1>2, <1>3, <1>4
<1>6. new \in [DOMAIN new -> Nat] /\ DOMAIN new \subseteq Voter
  BY <1>2, <1>5 DEF IsTable
<1>7. \A v \in Voter : Ledger!Held(new, v)
                         = Ledger!Held(table, v) + (IF v = o THEN n ELSE 0)
  BY <1>1, <1>2, <1>3 DEF Ledger!Held
<1> QED BY <1>1, <1>6, <1>7 DEF new, IsTable

\* What a step of vesting reports is what it changes.
LEMMA ChangeReported ==
  ASSUME WeightInv, NEW o \in Voter, NEW n \in Amount, change_shares(o, n)
  PROVE  told' = told /\ TablesSound' /\ InlineSound'
<1> DEFINE r == report(o, n)
<1>1. r \in ReportType /\ r.who = o /\ r.diff = n
  BY DEF report, ReportType
<1>2. /\ inline' = <<r>> /\ shares' = Ledger!moved(shares, o, n)
      /\ Between /\ Ledger!Held(shares, o) + n >= 0
      /\ UNCHANGED <<witness, votes>>
  BY DEF change_shares, Ledger!change
<1> HIDE DEF r
<1>3. n \in Int /\ TablesSound /\ IsTable(shares, Voter, Nat)
  <2>1. Amount \subseteq Int
    BY BoundsAssumption, Zenon
  <2> QED BY <2>1 DEF WeightInv, TablesSound
<1>4. /\ IsTable(shares', Voter, Nat)
      /\ \A v \in Voter : Ledger!Held(shares', v)
                            = Ledger!Held(shares, v) + (IF v = o THEN n ELSE 0)
  BY <1>2, <1>3, MovedShares
<1>5. \A v \in Voter : Outstanding(inline', v) = IF v = o THEN n ELSE 0
  <2> TAKE v \in Voter
  <2>1. Outstanding(inline', v) = Says(r, v)
    BY <1>1, <1>2, OutstandingOne
  <2> QED BY <1>1, <2>1 DEF Says
<1>6. told' = told
  BY <1>2, <1>3, <1>4, <1>5, ToldUnchanged
<1>7. TablesSound'
  BY <1>2, <1>3, <1>4 DEF TablesSound
<1>8. InlineSound'
  BY <1>1, <1>2 DEF InlineSound
<1> QED BY <1>6, <1>7, <1>8

\* The same for two accounts at once
LEMMA ChangesReported ==
  ASSUME WeightInv, NEW o1 \in Voter, NEW o2 \in Voter,
         NEW n1 \in Amount, NEW n2 \in Amount, change_two_shares(o1, n1, o2, n2)
  PROVE  told' = told /\ TablesSound' /\ InlineSound'
<1> DEFINE r == report(o1, n1)
           s == report(o2, n2)
           middle == Ledger!moved(shares, o1, n1)
<1>1. /\ r \in ReportType /\ r.who = o1 /\ r.diff = n1
      /\ s \in ReportType /\ s.who = o2 /\ s.diff = n2
  BY DEF report, ReportType
<1>2. /\ inline' = <<r, s>> /\ shares' = Ledger!moved(middle, o2, n2)
      /\ Between /\ Ledger!Held(shares, o1) + n1 >= 0
      /\ Ledger!Held(middle, o2) + n2 >= 0
      /\ o1 # o2 /\ UNCHANGED <<witness, votes>>
  BY DEF change_two_shares, Ledger!change_two
<1>3. n1 \in Int /\ n2 \in Int /\ TablesSound /\ IsTable(shares, Voter, Nat)
  <2>1. Amount \subseteq Int
    BY BoundsAssumption, Zenon
  <2> QED BY <2>1 DEF WeightInv, TablesSound
<1>4. /\ IsTable(middle, Voter, Nat)
      /\ \A v \in Voter : Ledger!Held(middle, v)
                            = Ledger!Held(shares, v) + (IF v = o1 THEN n1 ELSE 0)
      /\ \A v \in Voter : Ledger!Held(shares, v) \in Nat
  BY <1>2, <1>3, MovedShares
<1> HIDE DEF r, s, middle
<1>5. /\ IsTable(shares', Voter, Nat)
      /\ \A v \in Voter : Ledger!Held(shares', v)
                            = Ledger!Held(middle, v) + (IF v = o2 THEN n2 ELSE 0)
  BY <1>2, <1>3, <1>4, MovedShares
<1>6. \A v \in Voter : Outstanding(inline', v)
                         = (IF v = o1 THEN n1 ELSE 0) + (IF v = o2 THEN n2 ELSE 0)
  <2> TAKE v \in Voter
  <2>1. Outstanding(inline', v) = Says(r, v) + Says(s, v)
    BY <1>1, <1>2, OutstandingTwo
  <2> QED BY <1>1, <2>1 DEF Says
<1>7. ASSUME NEW v \in Voter
      PROVE  /\ Outstanding(inline', v) \in Int
             /\ Ledger!Held(shares', v)
                  = Ledger!Held(shares, v) + Outstanding(inline', v)
  BY <1>3, <1>4, <1>5, <1>6
<1>8. told' = told
  BY <1>2, <1>3, <1>7, ToldUnchanged
<1>9. TablesSound'
  BY <1>2, <1>3, <1>5 DEF TablesSound
<1>10. InlineSound'
  BY <1>1, <1>2 DEF InlineSound
<1> QED BY <1>8, <1>9, <1>10

\* An empty row comes or goes.
LEMMA RowsReported ==
  ASSUME WeightInv, NEW o \in Voter, open_or_close(o)
  PROVE  told' = told /\ TablesSound' /\ InlineSound'
<1>1. Between /\ UNCHANGED <<witness, votes, inline>> /\ TablesSound /\ InlineSound
  BY DEF open_or_close, WeightInv
<1>2. /\ \A v \in Voter : Ledger!Held(shares', v) = Ledger!Held(shares, v)
      /\ IsTable(shares', Voter, Nat)
  <2>1. CASE Ledger!open(o)
    BY <1>1, <2>1 DEF Ledger!open, Ledger!Held, Ledger!Put, TablesSound, IsTable
  <2>2. CASE Ledger!close(o)
    BY <1>1, <2>2 DEF Ledger!close, Ledger!Held, Ledger!Drop, TablesSound, IsTable
  <2> QED BY <2>1, <2>2 DEF open_or_close
<1>3. \A v \in Voter : Outstanding(inline', v) = 0
  BY <1>1, OutstandingNone DEF Between
<1>4. \A v \in Voter : Ledger!Held(shares, v) \in Nat
  BY <1>1, ToldIsHeld
<1>5. told' = told
  BY <1>1, <1>2, <1>3, <1>4, ToldUnchanged
<1>6. TablesSound' /\ InlineSound'
  BY <1>1, <1>2 DEF TablesSound, InlineSound
<1> QED BY <1>5, <1>6

\* A report is delivered: what is known of its account changes by what it says,
\* and nobody is known to hold less than nothing.
LEMMA ReportDelivered ==
  ASSUME WeightInv, changevest
  PROVE  /\ Head(inline) \in ReportType /\ told' \in [Voter -> Nat]
         /\ \A v \in Voter : told'[v] = told[v] + Says(Head(inline), v)
         /\ InlineSound'
<1>1. /\ inline' = Tail(inline) /\ shares' = shares /\ ~Between /\ InlineSound
      /\ told \in [Voter -> Nat]
      /\ \A v \in Voter : Ledger!Held(shares, v) \in Nat
  BY DEF changevest, WeightInv, TablesSound, IsTable, Ledger!Held
<1>2. CASE \E r \in ReportType : inline = <<r>>
  <2> PICK r \in ReportType : inline = <<r>>
    BY <1>2
  <2>1. Head(inline) = r /\ inline' = <<>>
    BY <1>1
  <2>2. ASSUME NEW v \in Voter
        PROVE  told'[v] \in Nat /\ told'[v] = told[v] + Says(r, v)
    <3>1. told[v] = Ledger!Held(shares, v) - Outstanding(<<r>>, v)
      BY ToldIs
    <3>2. told'[v] = Ledger!Held(shares, v) - Outstanding(<<>>, v)
      BY <1>1, <2>1, ToldIs
    <3>3. Outstanding(<<>>, v) = 0
      BY OutstandingNone
    <3>4. Outstanding(<<r>>, v) = Says(r, v) /\ Says(r, v) \in Int
      BY OutstandingOne
    <3> QED BY <1>1, <3>1, <3>2, <3>3, <3>4
  <2>3. told' \in [Voter -> Nat]
    BY <2>2 DEF told
  <2> QED BY <2>1, <2>2, <2>3 DEF InlineSound
<1>3. CASE \E r, s \in ReportType : inline = <<r, s>> /\ r.who # s.who
  <2> PICK r \in ReportType, s \in ReportType : inline = <<r, s>> /\ r.who # s.who
    BY <1>3
  <2>1. Head(inline) = r /\ inline' = <<s>>
    BY <1>1
  <2>2. ASSUME NEW v \in Voter
        PROVE  told'[v] \in Nat /\ told'[v] = told[v] + Says(r, v)
    <3>1. told[v] = Ledger!Held(shares, v) - Outstanding(<<r, s>>, v)
      BY ToldIs
    <3>2. told'[v] = Ledger!Held(shares, v) - Outstanding(<<s>>, v)
      BY <1>1, <2>1, ToldIs
    <3>3. Outstanding(<<s>>, v) = Says(s, v)
      BY OutstandingOne
    <3>4. /\ Outstanding(<<r, s>>, v) = Says(r, v) + Says(s, v)
          /\ Says(r, v) \in Int /\ Says(s, v) \in Int
      BY OutstandingTwo
    <3>5. told'[v] = told[v] + Says(r, v)
      BY <1>1, <3>1, <3>2, <3>3, <3>4
    <3>6. told[v] \in Nat /\ Ledger!Held(shares, v) \in Nat
      BY <1>1
    <3>7. Says(r, v) = 0 \/ Says(s, v) = 0
      BY DEF Says
    <3> QED BY <3>2, <3>3, <3>4, <3>5, <3>6, <3>7
  <2>3. told' \in [Voter -> Nat]
    BY <2>2 DEF told
  <2> QED BY <2>1, <2>2, <2>3 DEF InlineSound
<1> QED BY <1>1, <1>2, <1>3 DEF InlineSound, Between

----------------------------------------------------------------------------
(* Weights *)

\* Voters are few, and each has something known.
LEMMA VotersCounted ==
  ASSUME WeightInv, NEW w
  PROVE  /\ IsFiniteSet(Voters(w)) /\ Voters(w) \subseteq Voter
         /\ \A v \in Voters(w) : told[v] \in Int
         /\ SumOver(told, Voters(w)) \in Int
<1>1. /\ IsFiniteSet(Voters(w)) /\ Voters(w) \subseteq Voter
      /\ \A v \in Voters(w) : told[v] \in Int
  BY FS_Subset DEF WeightInv, VotesInv, TablesSound, Voters
<1> QED BY <1>1, SumInt

\* Neither votes nor holdings nor weights change.
LEMMA SameWeights ==
  ASSUME WeightInv, told' = told, UNCHANGED votes,
         DOMAIN witness' = DOMAIN witness,
         \A w \in DOMAIN witness :
           witness'[w].total_weight = witness[w].total_weight
  PROVE  Weighed'
BY DEF WeightInv, Weighed, Voters

\* What update_witnesses_weights does to one row
LEMMA WeightedWeights ==
  ASSUME NEW table, \A w \in DOMAIN table : IsRow(table[w]), NEW ws, NEW diff
  PROVE  \A w \in DOMAIN table :
           weighted(table, ws, diff)[w].total_weight =
             IF w \in ws THEN table[w].total_weight + diff
             ELSE table[w].total_weight
BY DEF weighted, IsRow

\* The weights that a delivered report changes are those of the witnesses that
\* its account votes for, by what it says.
LEMMA ReportWeighs ==
  ASSUME WeightInv, changevest
  PROVE  Weighed'
<1> DEFINE r == Head(inline)
<1>1. r \in ReportType /\ \A v \in Voter : told'[v] = told[v] + Says(r, v)
  BY ReportDelivered
<1> HIDE DEF r
<1>2. /\ r.who \in Voter /\ votes' = votes
      /\ \A w \in DOMAIN witness : IsRow(witness[w])
      /\ \A v \in Voter : Says(r, v) \in Int /\ told[v] \in Int
  BY <1>1, SaysInt DEF ReportType, changevest, WeightInv, VotesInv, RowsSound
<1>3. \A w \in DOMAIN witness : w \in VotedBy(r.who) <=> r.who \in Voters(w)
  BY DEF VotedBy, Voters
<1>4. /\ DOMAIN witness' = DOMAIN witness
      /\ \A w \in DOMAIN witness :
           witness'[w].total_weight =
             IF r.who \in Voters(w) THEN witness[w].total_weight + r.diff
             ELSE witness[w].total_weight
  <2>1. CASE started /\ VotedBy(r.who) # {}
    <3>1. witness' = weighted(witness, VotedBy(r.who), r.diff)
      BY <2>1 DEF changevest, r
    <3>2. DOMAIN witness' = DOMAIN witness
      BY <3>1 DEF weighted
    <3> QED BY <1>2, <1>3, <3>1, <3>2, WeightedWeights
  <2>2. CASE ~started \/ VotedBy(r.who) = {}
    <3>1. witness' = witness
      BY <2>2 DEF changevest, r
    <3>2. VotedBy(r.who) = {}
      BY <2>2 DEF WeightInv, VotesInv, VotedBy
    <3> QED BY <1>3, <3>1, <3>2
  <2> QED BY <2>1, <2>2
<1>5. ASSUME NEW w \in DOMAIN witness
      PROVE  witness'[w].total_weight = SumOver(told', Voters(w))
  <2>1. /\ IsFiniteSet(Voters(w)) /\ Voters(w) \subseteq Voter
        /\ SumOver(told, Voters(w)) \in Int
        /\ witness[w].total_weight = SumOver(told, Voters(w))
    BY VotersCounted DEF WeightInv, Weighed
  <2>2. \A v \in Voters(w) : told[v] \in Int /\ told'[v] \in Int
    BY <1>1, <1>2, <2>1
  <2>3. CASE r.who \in Voters(w)
    <3>1. \A v \in Voters(w) \ {r.who} : told'[v] = told[v]
      BY <1>1, <2>1, <2>2 DEF Says
    <3>2. SumOver(told', Voters(w))
            = SumOver(told, Voters(w)) + told'[r.who] - told[r.who]
      BY <2>1, <2>2, <2>3, <3>1, SumChange
    <3>3. told'[r.who] = told[r.who] + r.diff /\ r.diff \in Int
      BY <1>1, <1>2 DEF Says
    <3> QED BY <1>2, <1>4, <2>1, <2>3, <3>2, <3>3
  <2>4. CASE r.who \notin Voters(w)
    <3>1. \A v \in Voters(w) : told'[v] = told[v]
      BY <1>1, <2>1, <2>2, <2>4 DEF Says
    <3>2. SumOver(told', Voters(w)) = SumOver(told, Voters(w))
      BY <2>1, <2>2, <3>1, SumSame
    <3> QED BY <1>4, <2>1, <2>4, <3>2
  <2> QED BY <2>3, <2>4
<1>6. \A w : Voters(w)' = Voters(w)
  BY <1>2 DEF Voters
<1> QED BY <1>4, <1>5, <1>6 DEF Weighed

\* A vote moves what its voter holds to the weight of its witness, or off it.
LEMMA VoteWeighs ==
  ASSUME WeightInv, NEW v \in Voter, NEW w \in Candidate,
         votewitness(v, w) \/ unvotewitn(v, w), told' = told
  PROVE  Weighed'
<1>1. PICK n, diff :
        /\ diff \in {1, -1}
        /\ v \in DOMAIN shares
        /\ IF shares[v] > 0
           THEN witness' = weighted([witness EXCEPT ![w].counter_votes = n], {w},
                                    IF diff = 1 THEN shares[v] ELSE -shares[v])
           ELSE witness' = [witness EXCEPT ![w].counter_votes = n]
        /\ Voters(w)' = IF diff = 1 THEN Voters(w) \union {v}
                        ELSE Voters(w) \ {v}
        /\ v \in Voters(w) <=> diff = -1
        /\ \A x \in DOMAIN witness \ {w} : Voters(x)' = Voters(x)
  <2>1. CASE votewitness(v, w)
    <3>1. /\ apply_vote_weight([witness EXCEPT ![w].counter_votes = @ + 1],
                               v, w, TRUE)
          /\ v \in DOMAIN votes => w \notin votes[v]
          /\ votes' = IF v \in DOMAIN votes
                      THEN [votes EXCEPT ![v] = @ \union {w}]
                      ELSE Put(votes, v, {w})
      BY <2>1 DEF votewitness
    <3>2. /\ Voters(w)' = Voters(w) \union {v} /\ v \notin Voters(w)
          /\ \A x \in DOMAIN witness \ {w} : Voters(x)' = Voters(x)
      BY <3>1 DEF Voters, Put
    <3> DEFINE k == witness[w].counter_votes + 1
    <3>3. [witness EXCEPT ![w].counter_votes = @ + 1]
            = [witness EXCEPT ![w].counter_votes = k]
      OBVIOUS
    <3> HIDE DEF k
    <3>4. /\ v \in DOMAIN shares
          /\ IF shares[v] > 0
             THEN witness' = weighted([witness EXCEPT ![w].counter_votes = k],
                                      {w}, IF 1 = 1 THEN shares[v] ELSE -shares[v])
             ELSE witness' = [witness EXCEPT ![w].counter_votes = k]
      BY <3>1, <3>3 DEF apply_vote_weight
    <3> WITNESS k, 1
    <3> QED BY <3>2, <3>4
  <2>2. CASE unvotewitn(v, w)
    <3>1. /\ apply_vote_weight([witness EXCEPT ![w].counter_votes = @ - 1],
                               v, w, FALSE)
          /\ v \in DOMAIN votes /\ w \in votes[v]
          /\ votes' = [votes EXCEPT ![v] = @ \ {w}]
      BY <2>2 DEF unvotewitn
    <3>2. /\ Voters(w)' = Voters(w) \ {v} /\ v \in Voters(w)
          /\ \A x \in DOMAIN witness \ {w} : Voters(x)' = Voters(x)
      BY <3>1 DEF Voters
    <3> DEFINE k == witness[w].counter_votes - 1
    <3>3. [witness EXCEPT ![w].counter_votes = @ - 1]
            = [witness EXCEPT ![w].counter_votes = k]
      OBVIOUS
    <3> HIDE DEF k
    <3>4. /\ v \in DOMAIN shares
          /\ IF shares[v] > 0
             THEN witness' = weighted([witness EXCEPT ![w].counter_votes = k],
                                      {w}, IF -1 = 1 THEN shares[v] ELSE -shares[v])
             ELSE witness' = [witness EXCEPT ![w].counter_votes = k]
      BY <3>1, <3>3 DEF apply_vote_weight
    <3> WITNESS k, -1
    <3> QED BY <3>2, <3>4
  <2> QED BY <2>1, <2>2
<1>2. /\ w \in DOMAIN witness /\ Between /\ v \in DOMAIN shares
      /\ \A x \in DOMAIN witness : IsRow(witness[x])
  BY <1>1 DEF votewitness, unvotewitn, apply_vote_weight, WeightInv, VotesInv,
              RowsSound
<1>3. told[v] = shares[v] /\ shares[v] \in Nat
  BY <1>2, ToldIsHeld DEF WeightInv, Ledger!Held
<1> DEFINE table == [witness EXCEPT ![w].counter_votes = n]
<1>4. /\ DOMAIN table = DOMAIN witness
      /\ \A x \in DOMAIN table :
           IsRow(table[x]) /\ table[x].total_weight = witness[x].total_weight
  BY <1>2 DEF IsRow
<1>5. IF shares[v] > 0
      THEN witness' = weighted(table, {w}, IF diff = 1 THEN shares[v]
                                                       ELSE -shares[v])
      ELSE witness' = table
  BY <1>1
<1> HIDE DEF table
<1>6. \A x \in DOMAIN witness : witness[x].total_weight \in Int
  BY VotersCounted DEF WeightInv, Weighed
<1>7. /\ DOMAIN witness' = DOMAIN witness
      /\ \A x \in DOMAIN witness \ {w} :
           witness'[x].total_weight = witness[x].total_weight
      /\ witness'[w].total_weight =
           witness[w].total_weight + (IF diff = 1 THEN told[v] ELSE -told[v])
  <2>1. CASE shares[v] > 0
    <3> DEFINE d == IF diff = 1 THEN shares[v] ELSE -shares[v]
    <3>1. DOMAIN witness' = DOMAIN witness /\ witness' = weighted(table, {w}, d)
      BY <1>4, <1>5, <2>1 DEF weighted
    <3>2. \A x \in DOMAIN table :
            weighted(table, {w}, d)[x].total_weight =
              IF x \in {w} THEN table[x].total_weight + d
              ELSE table[x].total_weight
      BY <1>4, WeightedWeights
    <3> QED BY <1>2, <1>3, <1>4, <3>1, <3>2
  <2>2. CASE ~(shares[v] > 0)
    <3>1. told[v] = 0 /\ witness' = table
      BY <1>3, <1>5, <2>2
    <3> QED BY <1>2, <1>4, <1>6, <3>1
  <2> QED BY <2>1, <2>2
<1>8. /\ IsFiniteSet(Voters(w)) /\ \A x \in Voters(w) : told[x] \in Int
      /\ SumOver(told, Voters(w)) \in Int
      /\ \A x \in DOMAIN witness :
           witness[x].total_weight = SumOver(told, Voters(x))
  BY VotersCounted DEF WeightInv, Weighed
<1>9. SumOver(told, Voters(w)')
        = SumOver(told, Voters(w)) + (IF diff = 1 THEN told[v] ELSE -told[v])
  <2>1. CASE diff = 1
    <3>1. SumOver(told, Voters(w) \union {v}) = SumOver(told, Voters(w)) + told[v]
      BY <1>1, <1>3, <1>8, <2>1, SumInsert
    <3> QED BY <1>1, <2>1, <3>1
  <2>2. CASE diff = -1
    <3>1. SumOver(told, Voters(w)) = told[v] + SumOver(told, Voters(w) \ {v})
      BY <1>1, <1>8, <2>2, SumRemove
    <3>2. SumOver(told, Voters(w) \ {v}) \in Int
      BY <1>8, FS_RemoveElement, SumInt
    <3> QED BY <1>1, <1>3, <2>2, <3>1, <3>2
  <2> QED BY <1>1, <2>1, <2>2
<1>10. \A x \in DOMAIN witness' :
         witness'[x].total_weight = SumOver(told, Voters(x)')
  BY <1>1, <1>2, <1>7, <1>8, <1>9
<1> QED BY <1>10 DEF Weighed

\* The table of witnesses gains or loses one without votes, and a row that is
\* registered again keeps its weight.
LEMMA RegistryWeighs ==
  ASSUME WeightInv, NEW w \in Candidate, regwitness(w) \/ unregwitness(w),
         told' = told
  PROVE  Weighed'
<1>1. /\ votes' = votes /\ \A x : Voters(x)' = Voters(x)
      /\ \A x \in DOMAIN witness : IsRow(witness[x])
      /\ \A x \in DOMAIN witness :
           witness[x].total_weight = SumOver(told, Voters(x))
  BY DEF regwitness, unregwitness, Voters, WeightInv, VotesInv, RowsSound, Weighed
<1>2. CASE regwitness(w) /\ w \in DOMAIN witness
  <2>1. witness' = [witness EXCEPT ![w].active = TRUE]
    BY <1>2 DEF regwitness
  <2>2. /\ DOMAIN witness' = DOMAIN witness
        /\ \A x \in DOMAIN witness :
             witness'[x].total_weight = witness[x].total_weight
    BY <1>1, <2>1 DEF IsRow
  <2> QED BY <1>1, <2>2, SameWeights
<1>3. CASE regwitness(w) /\ w \notin DOMAIN witness
  <2>1. /\ DOMAIN witness' = DOMAIN witness \union {w}
        /\ witness'[w].total_weight = 0
        /\ \A x \in DOMAIN witness : witness'[x] = witness[x]
    BY <1>3 DEF regwitness, Put
  <2>2. Voters(w) = {}
    BY <1>3 DEF WeightInv, VotesInv, VotesCounted, Voters
  <2>3. SumOver(told, {}) = 0
    BY SumEmpty
  <2> QED BY <1>1, <2>1, <2>2, <2>3 DEF Weighed
<1>4. CASE unregwitness(w)
  BY <1>1, <1>4 DEF unregwitness, Drop, Weighed
<1> QED BY <1>2, <1>3, <1>4

----------------------------------------------------------------------------
(* WeightInv is inductive. *)

\* Nothing happened yet.
LEMMA InitWeight == Init => WeightInv
<1> SUFFICES ASSUME Init PROVE WeightInv
  OBVIOUS
<1>1. VotesInv
  BY FS_EmptySet
  DEF Init, EmptyTable, VotesInv, VotesCounted, Voters, RowsSound
<1>2. TablesSound /\ InlineSound /\ Between
  BY FS_EmptySet
  DEF Init, EmptyTable, TablesSound, InlineSound, Between, IsTable, Ledger!Init,
      Ledger!EmptyTable
<1>3. told \in [Voter -> Nat]
  <2>1. \A v \in Voter : told[v] \in Nat
    BY <1>2, ToldIsHeld
  <2> QED BY <2>1 DEF told
<1>4. Weighed
  BY DEF Init, EmptyTable, Weighed
<1> QED BY <1>1, <1>2, <1>3, <1>4 DEF WeightInv

\* Actions of the contract itself leave holdings and reports alone.
LEMMA SameBooks ==
  ASSUME UNCHANGED <<shares, inline>>
  PROVE  told' = told /\ InlineSound' = InlineSound
BY DEF told, Unreported, InlineSound

\* Every step keeps the weights right.
LEMMA WeightStep == WeightInv /\ [Next]_vars => WeightInv'
<1> SUFFICES ASSUME WeightInv, [Next]_vars PROVE WeightInv'
  OBVIOUS
<1>1. VotesInv'
  BY VotesStep DEF WeightInv
<1>2. \A w \in DOMAIN witness : IsRow(witness[w])
  BY DEF WeightInv, VotesInv, RowsSound
<1>3. CASE \E w \in Candidate : regwitness(w) \/ unregwitness(w)
  <2> PICK w \in Candidate : regwitness(w) \/ unregwitness(w)
    BY <1>3
  <2>1. UNCHANGED <<votes, shares, inline>>
    BY DEF regwitness, unregwitness
  <2>2. told' = told /\ InlineSound' = InlineSound
    BY <2>1, SameBooks
  <2>3. /\ IsFiniteSet(DOMAIN witness') /\ DOMAIN witness' \subseteq Candidate
    <3>1. IsFiniteSet(DOMAIN witness) /\ DOMAIN witness \subseteq Candidate
      BY DEF WeightInv, TablesSound
    <3>2. \/ DOMAIN witness' = DOMAIN witness
          \/ DOMAIN witness' = DOMAIN witness \union {w}
          \/ DOMAIN witness' = DOMAIN witness \ {w}
      BY DEF regwitness, unregwitness, Put, Drop
    <3> QED BY <3>1, <3>2, FS_AddElement, FS_RemoveElement
  <2>4. Weighed'
    BY <2>2, RegistryWeighs
  <2> QED BY <1>1, <2>1, <2>2, <2>3, <2>4 DEF WeightInv, TablesSound
<1>4. CASE \/ \E p \in ParamSets : setparams(p)
           \/ \E w \in Candidate : stopwitness(w) \/ startwitness(w)
           \/ \E a \in Bannable : ban(a) \/ unban(a)
           \/ \E total \in Reward : on_transfer(total)
           \/ Tick \/ UNCHANGED vars
  <2>1. UNCHANGED <<votes, shares, inline>>
    BY <1>4 DEF setparams, stopwitness, startwitness, ban, unban, on_transfer,
                Tick, vars
  <2>2. /\ DOMAIN witness' = DOMAIN witness
        /\ \A x \in DOMAIN witness :
             witness'[x].total_weight = witness[x].total_weight
    <3>1. \/ witness' = witness
          \/ \E w \in DOMAIN witness, b \in BOOLEAN :
               witness' = [witness EXCEPT ![w].active = b]
      BY <1>4 DEF setparams, stopwitness, startwitness, may_start, ban, unban,
                  on_transfer, Tick, vars
    <3> QED BY <1>2, <3>1 DEF IsRow
  <2>3. told' = told /\ InlineSound' = InlineSound
    BY <2>1, SameBooks
  <2>4. Weighed'
    BY <2>1, <2>2, <2>3, SameWeights
  <2> QED BY <1>1, <2>1, <2>2, <2>3, <2>4 DEF WeightInv, TablesSound
<1>5. CASE \E v \in Voter, w \in Candidate : votewitness(v, w) \/ unvotewitn(v, w)
  <2> PICK v \in Voter, w \in Candidate : votewitness(v, w) \/ unvotewitn(v, w)
    BY <1>5
  <2>1. UNCHANGED <<shares, inline>>
    BY DEF votewitness, unvotewitn
  <2>2. told' = told /\ InlineSound' = InlineSound
    BY <2>1, SameBooks
  <2>3. DOMAIN votes' \subseteq DOMAIN votes \union {v}
    BY DEF votewitness, unvotewitn, Put
  <2>4. DOMAIN witness' = DOMAIN witness
    BY DEF votewitness, unvotewitn, apply_vote_weight, weighted
  <2>5. Weighed'
    BY <2>2, VoteWeighs
  <2> QED BY <1>1, <2>1, <2>2, <2>3, <2>4, <2>5 DEF WeightInv, TablesSound
<1>6. CASE \/ \E o \in Voter, n \in Amount : change_shares(o, n)
           \/ \E o1, o2 \in Voter, n1, n2 \in Amount :
                change_two_shares(o1, n1, o2, n2)
           \/ \E o \in Voter : open_or_close(o)
  <2>1. told' = told /\ TablesSound' /\ InlineSound'
    BY <1>6, ChangeReported, ChangesReported, RowsReported
  <2>2. UNCHANGED <<witness, votes>>
    BY <1>6 DEF change_shares, change_two_shares, open_or_close
  <2>3. Weighed'
    BY <2>1, <2>2, SameWeights
  <2> QED BY <1>1, <2>1, <2>3 DEF WeightInv
<1>7. CASE changevest
  <2>1. /\ told' \in [Voter -> Nat] /\ InlineSound' /\ Weighed'
    BY <1>7, ReportDelivered, ReportWeighs
  <2>2. DOMAIN witness' = DOMAIN witness /\ UNCHANGED <<votes, shares>>
    BY <1>7 DEF changevest, weighted
  <2> QED BY <1>1, <2>1, <2>2 DEF WeightInv, TablesSound
<1> QED BY <1>3, <1>4, <1>5, <1>6, <1>7 DEF Next

\* It says what the property says.
LEMMA WeightFromInv == WeightInv => WeightIsVesting
<1> SUFFICES ASSUME WeightInv, NEW w \in DOMAIN witness
             PROVE  witness[w].total_weight =
                      Total([v \in Voters(w) |-> Ledger!Held(shares, v) - Unreported(v)])
  BY DEF WeightIsVesting
<1> DEFINE f == [v \in Voters(w) |-> Ledger!Held(shares, v) - Unreported(v)]
<1>1. /\ IsFiniteSet(Voters(w)) /\ \A v \in Voters(w) : told[v] \in Int
      /\ Voters(w) \subseteq Voter
      /\ witness[w].total_weight = SumOver(told, Voters(w))
  BY VotersCounted DEF WeightInv, Weighed
<1>2. DOMAIN f = Voters(w) /\ \A v \in Voters(w) : f[v] = told[v]
  BY <1>1 DEF told
<1> HIDE DEF f
<1>3. SumOver(f, Voters(w)) = SumOver(told, Voters(w))
  BY <1>1, <1>2, SumSame
<1> QED BY <1>1, <1>2, <1>3 DEF Total, f

----------------------------------------------------------------------------
(* Rewards *)

\* n equal parts of a total fit into it.
LEMMA EqualParts ==
  ASSUME NEW total \in Nat, NEW n \in Nat, n > 0
  PROVE  share_of(total, n) \in Nat /\ share_of(total, n) * n <= total
BY DEF share_of

\* One part less leaves something for the winner.
LEMMA OnePartLess ==
  ASSUME NEW c \in Nat, NEW n \in Nat, NEW total \in Nat,
         c > 0, n > 0, c * n <= total
  PROVE  c * (n - 1) \in Nat /\ total - (n - 1) * c > 0 /\ (n - 1) * c = c * (n - 1)
<1>1. c * n = c * (n - 1) + c
  OBVIOUS
<1>2. c * (n - 1) \in Nat /\ (n - 1) * c = c * (n - 1)
  OBVIOUS
<1> DEFINE a == c * n
           b == c * (n - 1)
<1>3. a = b + c /\ a <= total /\ b \in Nat
  BY <1>1, <1>2
<1> HIDE DEF a, b
<1>4. total - b > 0
  BY <1>3
<1> QED BY <1>2, <1>4 DEF b

\* The payments to any number of witnesses add up to the reward, and none is
\* empty.
LEMMA PaymentsSplit ==
  ASSUME NEW top, IsFiniteSet(top), NEW winner \in top,
         NEW total \in Nat \ {0}
  PROVE  LET p == payments(top, winner, total) IN
         /\ Paid(p) = total
         /\ \A w \in DOMAIN p : p[w] > 0
<1> DEFINE n == Cardinality(top)
           c == share_of(total, n)
           others == IF c > 0 THEN top \ {winner} ELSE {}
           k == Cardinality(others)
           p == payments(top, winner, total)
<1>1. n \in Nat /\ n > 0
  BY FS_CardinalityType, FS_EmptySet
<1>2. c \in Nat /\ c * n <= total
  BY <1>1, EqualParts
<1>3. IsFiniteSet(others) /\ winner \notin others
  BY FS_EmptySet, FS_RemoveElement
<1>4. /\ DOMAIN p = others \union {winner}
      /\ p[winner] = total - k * c
      /\ \A w \in others : p[w] = c
  BY <1>3 DEF payments
<1> HIDE DEF p
<1>5. /\ k \in Nat /\ k * c = c * k /\ c * k \in Nat /\ total - k * c > 0
      /\ \A w \in others : c > 0
  <2>1. CASE c > 0
    <3>1. k = n - 1
      BY <2>1, FS_RemoveElement
    <3> HIDE DEF k, c, n
    <3>2. c * (n - 1) \in Nat /\ total - (n - 1) * c > 0 /\ (n - 1) * c = c * (n - 1)
      BY <1>1, <1>2, <2>1, OnePartLess
    <3> QED BY <1>1, <2>1, <3>1, <3>2
  <2>2. CASE ~(c > 0)
    <3>1. k = 0 /\ others = {} /\ c = 0
      BY <1>2, <2>2, FS_EmptySet
    <3> HIDE DEF k, c, others
    <3> QED BY <3>1
  <2> QED BY <2>1, <2>2
<1> HIDE DEF k, c, n, others
<1>6. \A w \in others \union {winner} : p[w] \in Int
  BY <1>2, <1>4, <1>5
<1>7. SumOver(p, others \union {winner}) = SumOver(p, others) + p[winner]
  BY <1>3, <1>6, SumInsert
<1>8. SumOver(p, others) = c * k
  BY <1>2, <1>3, <1>4, SumConstant DEF k
<1>9. Paid(p) = total
  BY <1>4, <1>5, <1>7, <1>8 DEF Paid, Total
<1>10. \A w \in DOMAIN p : p[w] > 0
  BY <1>4, <1>5
<1> QED BY <1>9, <1>10 DEF p

\* The top is part of the table.
LEMMA TopInTable ==
  ASSUME NEW table, NEW top \in top_witnesses(table)
  PROVE  top \subseteq DOMAIN table
BY DEF top_witnesses, electable

\* A finite table is all a split needs.
LEMMA SplitFromInv == WeightInv => RewardsSplit
<1> SUFFICES ASSUME WeightInv, NEW top \in top_witnesses(witness),
                    NEW total \in Reward, NEW winner \in top
             PROVE  LET p == payments(top, winner, total) IN
                    /\ Paid(p) = total
                    /\ \A w \in DOMAIN p : p[w] > 0
  BY DEF RewardsSplit
<1>1. IsFiniteSet(top)
  BY TopInTable, FS_Subset DEF WeightInv, TablesSound
<1>2. total \in Nat \ {0}
  BY BoundsAssumption, Zenon
<1> QED BY <1>1, <1>2, PaymentsSplit

----------------------------------------------------------------------------
(* Types *)

\* What WeightInv leaves open
ShapesSound ==
  /\ \A w \in DOMAIN witness : witness[w].active \in BOOLEAN
  /\ witness = [w \in DOMAIN witness |-> witness[w]]
  /\ votes = [v \in DOMAIN votes |-> votes[v]]
  /\ banned \subseteq Bannable
  /\ msig \in [witnesses : SUBSET Candidate, age : 0..MaxAge]
  /\ authority \in AuthorityType
  /\ resized \in BOOLEAN
  /\ treasury \in Nat

TypeInv == WeightInv /\ ShapesSound

\* What the two invariants say together
LEMMA TypeFromInv == TypeInv => TypeOK
<1> SUFFICES ASSUME TypeInv PROVE TypeOK
  OBVIOUS
<1>1. WeightInv /\ ShapesSound /\ VotesInv /\ TablesSound /\ InlineSound
  BY DEF TypeInv, WeightInv
<1>2. ASSUME NEW w \in DOMAIN witness PROVE witness[w] \in WitnessType
  <2>1. /\ IsRow(witness[w]) /\ witness[w].active \in BOOLEAN
        /\ witness[w].counter_votes = Cardinality(Voters(w))
        /\ witness[w].total_weight = SumOver(told, Voters(w))
    BY <1>1 DEF WeightInv, VotesInv, RowsSound, VotesCounted, Weighed, ShapesSound
  <2>2. IsFiniteSet(Voters(w)) /\ Voters(w) \subseteq Voter
    BY <1>1, VotersCounted
  <2>3. Cardinality(Voters(w)) \in Nat
    BY <2>2, FS_CardinalityType
  <2>4. \A v \in Voters(w) : told[v] \in Nat
    BY <1>1, <2>2 DEF WeightInv
  <2>5. SumOver(told, Voters(w)) \in Nat
    BY <2>2, <2>4, SumNat
  <2> QED BY <2>1, <2>3, <2>5 DEF IsRow, WitnessType
<1>3. IsTable(witness, Candidate, WitnessType)
  BY <1>1, <1>2 DEF ShapesSound, TablesSound, IsTable
<1>4. IsTable(votes, Voter, SUBSET Candidate)
  <2>1. \A v \in DOMAIN votes : votes[v] \in SUBSET Candidate
    BY <1>1 DEF VotesInv, VotesCounted, TablesSound
  <2> QED BY <1>1, <2>1 DEF ShapesSound, TablesSound, IsTable
<1>5. inline \in Seq(ReportType)
  <2>1. ASSUME NEW T PROVE /\ <<>> \in Seq(T) /\ \A r \in T : <<r>> \in Seq(T)
                           /\ \A r, s \in T : <<r, s>> \in Seq(T)
    OBVIOUS
  <2> QED BY <1>1, <2>1 DEF InlineSound
<1>6. /\ params \in ParamSets \union {NoParams} /\ IsTable(shares, Voter, Nat)
      /\ banned \subseteq Bannable
      /\ msig \in [witnesses : SUBSET Candidate, age : 0..MaxAge]
      /\ authority \in AuthorityType /\ resized \in BOOLEAN /\ treasury \in Nat
  BY <1>1 DEF ShapesSound, VotesInv, TablesSound
<1> QED BY <1>3, <1>4, <1>5, <1>6 DEF TypeOK

\* What refreshing the authority stores has its type.
LEMMA AuthsTyped ==
  ASSUME TypeInv, NEW table, DOMAIN table \subseteq Candidate,
         update_auths(table)
  PROVE  /\ msig' \in [witnesses : SUBSET Candidate, age : 0..MaxAge]
         /\ authority' \in AuthorityType /\ resized' \in BOOLEAN
<1>1. /\ msig \in [witnesses : SUBSET Candidate, age : 0..MaxAge]
      /\ authority \in AuthorityType /\ resized \in BOOLEAN
  BY DEF TypeInv, ShapesSound
<1>2. CASE UNCHANGED auths
  BY <1>1, <1>2 DEF auths
<1>3. CASE ~UNCHANGED auths
  <2> PICK top \in top_witnesses(table) :
        LET full == Cardinality(top) = params.max_witnesses
            send == full /\ ~unchanged_top(top) IN
        /\ msig' = [age |-> 0, witnesses |->
                      IF top = {} THEN msig.witnesses ELSE top]
        /\ authority' = IF send THEN [accounts |-> top,
                                      threshold |-> thresholds(params)]
                                ELSE authority
        /\ resized' = (resized /\ ~send)
    BY <1>3 DEF update_auths
  <2>1. top \subseteq Candidate
    BY TopInTable
  <2>2. MaxAge \in Nat
    BY BoundsAssumption, Zenon
  <2>3. msig' \in [witnesses : SUBSET Candidate, age : 0..MaxAge]
    BY <1>1, <2>1, <2>2
  <2>4. params \in ParamType
    <3>1. started /\ params \in ParamSets \union {NoParams}
      BY <1>3 DEF update_auths, TypeInv, WeightInv, VotesInv
    <3> QED BY <3>1, ParamsAssumption DEF started
  <2>5. thresholds(params) \in ThresholdType
    <3>1. /\ params.max_witnesses \in Nat /\ params.msig_perms \in ThresholdType
      BY <2>4 DEF ParamType
    <3>2. /\ params.msig_perms.super_majority \in Nat
          /\ params.msig_perms.majority \in Nat
          /\ params.msig_perms.minority \in Nat
      BY <3>1 DEF ThresholdType
    <3>3. \A val, num \in Nat, denom \in Nat \ {0} :
            calc_thrs(val, params.max_witnesses, num, denom) \in Nat
      BY <3>1, ThresholdPositive
    <3>4. /\ 1 \in Nat /\ 2 \in Nat /\ 2 \in Nat \ {0} /\ 3 \in Nat \ {0}
      OBVIOUS
    <3>5. /\ calc_thrs(params.msig_perms.super_majority, params.max_witnesses, 2, 3) \in Nat
          /\ calc_thrs(params.msig_perms.majority, params.max_witnesses, 1, 2) \in Nat
          /\ calc_thrs(params.msig_perms.minority, params.max_witnesses, 1, 3) \in Nat
      BY <3>2, <3>3, <3>4, Zenon
    <3> QED BY <3>5 DEF thresholds, ThresholdType
  <2>6. authority' \in AuthorityType
    BY <1>1, <2>1, <2>5 DEF AuthorityType
  <2>7. resized' \in BOOLEAN
    BY <1>1
  <2> QED BY <2>3, <2>6, <2>7
<1> QED BY <1>2, <1>3

\* Every step keeps the types, and with them the tokens of the contract: what a
\* transfer brings is paid out to the last token or kept whole.
LEMMA TypeStep == TypeInv /\ [Next]_vars => TypeInv'
<1> SUFFICES ASSUME TypeInv, [Next]_vars PROVE TypeInv'
  OBVIOUS
<1>1. WeightInv'
  BY WeightStep DEF TypeInv
<1>2. /\ ShapesSound /\ \A w \in DOMAIN witness : IsRow(witness[w])
      /\ DOMAIN witness' \subseteq Candidate
  BY <1>1 DEF TypeInv, WeightInv, VotesInv, RowsSound, TablesSound
<1>3. ASSUME UNCHANGED auths \/ update_auths(witness')
      PROVE  /\ msig' \in [witnesses : SUBSET Candidate, age : 0..MaxAge]
             /\ authority' \in AuthorityType /\ resized' \in BOOLEAN
  <2>1. CASE UNCHANGED auths
    BY <1>2, <2>1 DEF ShapesSound, auths
  <2>2. CASE update_auths(witness')
    BY <1>2, <2>2, AuthsTyped
  <2> QED BY <1>3, <2>1, <2>2
<1>4. CASE \E w \in Candidate : regwitness(w) \/ unregwitness(w)
                                \/ stopwitness(w) \/ startwitness(w)
  <2> PICK w \in Candidate : regwitness(w) \/ unregwitness(w)
                             \/ stopwitness(w) \/ startwitness(w)
    BY <1>4
  <2>1. /\ UNCHANGED <<votes, banned, treasury>> /\ update_auths(witness')
    BY DEF regwitness, unregwitness, stopwitness, startwitness
  <2>2. /\ \A x \in DOMAIN witness' : witness'[x].active \in BOOLEAN
        /\ witness' = [x \in DOMAIN witness' |-> witness'[x]]
    <3>1. CASE \E b \in BOOLEAN : witness' = [witness EXCEPT ![w].active = b]
      BY <1>2, <3>1 DEF ShapesSound, IsRow
    <3>2. CASE witness' = Put(witness, w, [active |-> TRUE, total_weight |-> 0,
                                           counter_votes |-> 0])
      BY <1>2, <3>2 DEF ShapesSound, Put
    <3>3. CASE witness' = Drop(witness, w)
      BY <1>2, <3>3 DEF ShapesSound, Drop
    <3> QED BY <3>1, <3>2, <3>3 DEF regwitness, unregwitness, stopwitness, startwitness
  <2>3. ShapesSound'
    BY <1>2, <1>3, <2>1, <2>2 DEF ShapesSound
  <2> QED BY <1>1, <2>3 DEF TypeInv
<1>5. CASE \E a \in Bannable : ban(a) \/ unban(a)
  <2> PICK a \in Bannable : ban(a) \/ unban(a)
    BY <1>5
  <2>1. /\ UNCHANGED <<votes, treasury>> /\ banned' \subseteq Bannable
        /\ UNCHANGED auths \/ update_auths(witness')
    BY <1>2 DEF ban, unban, ShapesSound
  <2>2. /\ \A x \in DOMAIN witness' : witness'[x].active \in BOOLEAN
        /\ witness' = [x \in DOMAIN witness' |-> witness'[x]]
    <3>1. witness' = witness \/ witness' = [witness EXCEPT ![a].active = FALSE]
      BY DEF ban, unban
    <3> QED BY <1>2, <3>1 DEF ShapesSound, IsRow
  <2>3. ShapesSound'
    BY <1>2, <1>3, <2>1, <2>2 DEF ShapesSound
  <2> QED BY <1>1, <2>3 DEF TypeInv
<1>6. ASSUME NEW table,
             \/ table = witness
             \/ \E x, n : table = [witness EXCEPT ![x].counter_votes = n],
             witness' = table \/ \E ws, d : witness' = weighted(table, ws, d)
      PROVE  /\ \A x \in DOMAIN witness' : witness'[x].active \in BOOLEAN
             /\ witness' = [x \in DOMAIN witness' |-> witness'[x]]
  <2>1. /\ \A x \in DOMAIN table : IsRow(table[x]) /\ table[x].active \in BOOLEAN
        /\ table = [x \in DOMAIN table |-> table[x]]
    BY <1>2, <1>6 DEF ShapesSound, IsRow
  <2>2. CASE witness' = table
    BY <2>1, <2>2
  <2>3. CASE \E ws, d : witness' = weighted(table, ws, d)
    <3> PICK ws, d : witness' = weighted(table, ws, d)
      BY <2>3
    <3>1. /\ DOMAIN witness' = DOMAIN table
          /\ \A x \in DOMAIN table : witness'[x].active = table[x].active
      BY <2>1, WeightedRows
    <3>2. witness' = [x \in DOMAIN witness' |-> witness'[x]]
      BY DEF weighted
    <3> QED BY <2>1, <3>1, <3>2
  <2> QED BY <1>6, <2>2, <2>3
<1>7. CASE \E v \in Voter, w \in Candidate : votewitness(v, w) \/ unvotewitn(v, w)
  <2> PICK v \in Voter, w \in Candidate : votewitness(v, w) \/ unvotewitn(v, w)
    BY <1>7
  <2>1. /\ UNCHANGED <<banned, treasury>>
        /\ UNCHANGED auths \/ update_auths(witness')
    BY DEF votewitness, unvotewitn, apply_vote_weight
  <2>2. votes' = [x \in DOMAIN votes' |-> votes'[x]]
    BY <1>2 DEF votewitness, unvotewitn, Put, ShapesSound
  <2>3. \E n : LET table == [witness EXCEPT ![w].counter_votes = n] IN
          witness' = table \/ \E ws, d : witness' = weighted(table, ws, d)
    <3>1. CASE votewitness(v, w)
      <4> WITNESS witness[w].counter_votes + 1
      <4> QED BY <3>1 DEF votewitness, apply_vote_weight
    <3>2. CASE unvotewitn(v, w)
      <4> WITNESS witness[w].counter_votes - 1
      <4> QED BY <3>2 DEF unvotewitn, apply_vote_weight
    <3> QED BY <3>1, <3>2
  <2>4. /\ \A x \in DOMAIN witness' : witness'[x].active \in BOOLEAN
        /\ witness' = [x \in DOMAIN witness' |-> witness'[x]]
    BY <1>6, <2>3
  <2>5. ShapesSound'
    BY <1>2, <1>3, <2>1, <2>2, <2>4 DEF ShapesSound
  <2> QED BY <1>1, <2>5 DEF TypeInv
<1>8. CASE changevest
  <2>1. /\ UNCHANGED <<votes, banned, treasury>>
        /\ UNCHANGED auths \/ update_auths(witness')
        /\ witness' = witness \/ \E ws, d : witness' = weighted(witness, ws, d)
    BY <1>8 DEF changevest
  <2>2. /\ \A x \in DOMAIN witness' : witness'[x].active \in BOOLEAN
        /\ witness' = [x \in DOMAIN witness' |-> witness'[x]]
    BY <1>6, <2>1
  <2>3. ShapesSound'
    BY <1>2, <1>3, <2>1, <2>2 DEF ShapesSound
  <2> QED BY <1>1, <2>3 DEF TypeInv
<1>9. CASE \E total \in Reward : on_transfer(total)
  <2> PICK total \in Reward : on_transfer(total)
    BY <1>9
  <2>1. UNCHANGED <<witness, votes, banned, auths>>
    BY DEF on_transfer
  <2>2. treasury \in Nat /\ total \in Nat \ {0}
    BY <1>2, BoundsAssumption, Zenon DEF ShapesSound
  <2>3. RewardsSplit
    BY SplitFromInv DEF TypeInv
  <2>4. \/ treasury' = treasury + total
        \/ /\ started
           /\ \E top \in top_witnesses(witness) : \E w \in top :
                treasury' = treasury + total - Paid(payments(top, w, total))
    BY DEF on_transfer
  <2>5. treasury' = treasury + total \/ treasury' = treasury + total - total
    BY <2>3, <2>4 DEF RewardsSplit
  <2>6. treasury' \in Nat
    BY <2>2, <2>5
  <2>7. ShapesSound'
    BY <1>2, <2>1, <2>6 DEF ShapesSound, auths
  <2> QED BY <1>1, <2>7 DEF TypeInv
<1>10. CASE \/ \E p \in ParamSets : setparams(p)
            \/ \E o \in Voter, n \in Amount : change_shares(o, n)
            \/ \E o1, o2 \in Voter, n1, n2 \in Amount :
                 change_two_shares(o1, n1, o2, n2)
            \/ \E o \in Voter : open_or_close(o)
            \/ UNCHANGED vars
  <2>1. /\ UNCHANGED <<witness, votes, banned, msig, authority, treasury>>
        /\ resized' \in BOOLEAN
    BY <1>2, <1>10 DEF setparams, change_shares, change_two_shares, open_or_close,
                       vars, auths, ShapesSound
  <2>2. ShapesSound'
    BY <1>2, <2>1 DEF ShapesSound
  <2> QED BY <1>1, <2>2 DEF TypeInv
<1>11. CASE Tick
  <2>1. UNCHANGED <<witness, votes, banned, authority, resized, treasury>>
    BY <1>11 DEF Tick
  <2>2. msig' \in [witnesses : SUBSET Candidate, age : 0..MaxAge]
    <3>1. MaxAge \in Nat
      BY BoundsAssumption, Zenon
    <3>2. msig \in [witnesses : SUBSET Candidate, age : 0..MaxAge]
      BY <1>2 DEF ShapesSound
    <3> QED BY <1>11, <3>1, <3>2 DEF Tick
  <2>3. ShapesSound'
    BY <1>2, <2>1, <2>2 DEF ShapesSound
  <2> QED BY <1>1, <2>3 DEF TypeInv
<1> QED BY <1>4, <1>5, <1>7, <1>8, <1>9, <1>10, <1>11 DEF Next

\* The tables start empty.
LEMMA InitType == Init => TypeInv
<1> SUFFICES ASSUME Init PROVE TypeInv
  OBVIOUS
<1>1. WeightInv
  BY InitWeight
<1>2. MaxAge \in Nat
  BY BoundsAssumption, Zenon
<1>3. authority \in AuthorityType
  BY DEF Init, NoAuthority, AuthorityType, ThresholdType
<1>4. msig \in [witnesses : SUBSET Candidate, age : 0..MaxAge]
  BY <1>2 DEF Init
<1>5. /\ \A w \in DOMAIN witness : witness[w].active \in BOOLEAN
      /\ witness = [w \in DOMAIN witness |-> witness[w]]
      /\ votes = [v \in DOMAIN votes |-> votes[v]]
  BY DEF Init, EmptyTable
<1>6. banned \subseteq Bannable /\ resized \in BOOLEAN /\ treasury \in Nat
  BY DEF Init
<1> QED BY <1>1, <1>3, <1>4, <1>5, <1>6 DEF TypeInv, ShapesSound

----------------------------------------------------------------------------
(* Results *)

\* Both invariants hold in every reachable state.
LEMMA BooksInvariance == Spec => []TypeInv
BY InitType, TypeStep, PTL DEF Spec

\* No order of votes, stops, bans, purchases and payouts makes a weight differ
\* from what the voters hold, up to the reports that are under way.
THEOREM WeightsStayTrue == Spec => []WeightIsVesting
<1>1. TypeInv => WeightIsVesting
  BY WeightFromInv DEF TypeInv
<1> QED BY <1>1, BooksInvariance, PTL

\* Weights and counters, unsigned in the code and subtracted from without a
\* check, never go below zero, and every table keeps its type.
THEOREM ControlTyped == Spec => []TypeOK
BY TypeFromInv, BooksInvariance, PTL

\* A reward is split among any number of witnesses without a rest and without
\* an empty payment.
THEOREM RewardsStaySplit == Spec => []RewardsSplit
<1>1. TypeInv => RewardsSplit
  BY SplitFromInv DEF TypeInv
<1> QED BY <1>1, BooksInvariance, PTL
=============================================================================
