-------------------------- MODULE PublicationProofs --------------------------
(***************************************************************************)
(* Proofs about golos.publication for any accounts, rules and bounds: no   *)
(* reward and no vote is forgotten, and the tree of permlinks stays sound. *)
(***************************************************************************)
EXTENDS Publication, FiniteSetTheorems, TLAPS

Keys ==
  /\ now \in Nat /\ last_id \in 0 .. MaxId
  /\ DOMAIN permlinks \subseteq 1 .. last_id
  /\ DOMAIN messages \subseteq DOMAIN permlinks
  /\ DOMAIN votes \subseteq (1 .. last_id) \X Account
  /\ \A id \in DOMAIN deferred : deferred[id] = "closemssgs" => id = CloseId

\* The fields that the proofs look into
Rows ==
  /\ \A id \in DOMAIN messages : "cashout_time" \in DOMAIN messages[id]
  /\ \A id \in DOMAIN permlinks :
       permlinks[id] \in PermlinkType /\ permlinks[id].parent_id <= last_id
  /\ astray = [msgs |-> astray.msgs, shares |-> astray.shares,
               funds |-> astray.funds, dealt |-> astray.dealt, tree |-> astray.tree]

\* A message is never created closed or due, as the cashout window is positive.
WindowSound ==
  params # NoParams => /\ DOMAIN params = {PostFields[i] : i \in DOMAIN PostFields}
                       /\ params.cashout_window.window \in Nat \ {0}

IInv == Keys /\ Rows /\ WindowSound /\ NothingForgotten /\ TreeSound

----------------------------------------------------------------------------
(* Steps that leave all of this alone *)

\* Pools, charges, settings and time are not part of the invariant.
LEMMA QuietStep ==
  ASSUME IInv, UNCHANGED <<permlinks, messages, votes, last_id, deferred, lost>>,
         astray' = [msgs |-> astray'.msgs, shares |-> astray'.shares,
                    funds |-> astray'.funds, dealt |-> astray'.dealt, tree |-> astray.tree],
         now' \in Nat, WindowSound'
  PROVE  IInv'
<1>1. astray'.tree = astray.tree
  OBVIOUS
<1>2. Keys' /\ Rows'
  BY <1>1 DEF IInv, Keys, Rows
<1>3. NothingForgotten'
  BY DEF IInv, NothingForgotten
<1>4. TreeSound'
  BY <1>1 DEF IInv, TreeSound
<1> QED BY <1>2, <1>3, <1>4 DEF IInv

\* What is stored of the cashout window passed its validate.
LEMMA SetparamsStep ==
  ASSUME IInv, NEW batch \in ParamBatches, setparams(batch)
  PROVE  IInv'
<1>1. /\ Setter!validate_params(batch) /\ Setter!check_duplicates(batch)
      /\ Setter!complete(params # NoParams, batch)
  BY DEF setparams, Setter!accepted, Setter!check_params
<1>2. \A i \in DOMAIN batch :
        batch[i].field = "cashout_window" => batch[i].value.window \in Nat \ {0}
  BY <1>1, InputsAssumption DEF Setter!validate_params, valid
<1>3. WindowSound'
  <2>1. CASE params # NoParams
    <3>1. params' = Setter!updated(params, batch)
      BY <2>1 DEF setparams, Setter!set_parameters
    <3>2. "cashout_window" \in DOMAIN params
      BY <2>1 DEF IInv, WindowSound, PostFields
    <3>3. \/ params'["cashout_window"] = params["cashout_window"]
          \/ \E i \in DOMAIN batch : /\ batch[i].field = "cashout_window"
                                     /\ params'["cashout_window"] = batch[i].value
      BY <3>1, <3>2 DEF Setter!updated, Setter!changes
    <3>4. DOMAIN params' = DOMAIN params
      BY <3>1 DEF Setter!updated
    <3> QED BY <1>2, <2>1, <3>3, <3>4 DEF IInv, WindowSound
  <2>2. CASE params = NoParams
    <3>1. params' = Setter!as_state(batch)
      BY <2>2 DEF setparams, Setter!set_parameters
    <3>2. /\ DOMAIN params' = {batch[i].field : i \in DOMAIN batch}
          /\ \A f \in DOMAIN params' : \E i \in DOMAIN batch :
               batch[i].field = f /\ params'[f] = batch[i].value
      BY <3>1 DEF Setter!as_state
    <3>3. DOMAIN batch = 1 .. 9 /\ Len(batch) = 9
      BY <1>1, <2>2, InputsAssumption DEF Setter!complete, PostFields
    <3>4. \A i \in 1 .. 9 : /\ Setter!index(batch[i]) \in 1 .. 9
                            /\ PostFields[Setter!index(batch[i])] = batch[i].field
      <4> SUFFICES ASSUME NEW i \in 1 .. 9
                   PROVE  /\ Setter!index(batch[i]) \in 1 .. 9
                          /\ PostFields[Setter!index(batch[i])] = batch[i].field
        OBVIOUS
      <4>1. \E j \in 1 .. 9 : PostFields[j] = batch[i].field
        <5>1. batch[i].field \in {"max_vote_changes", "cashout_window", "max_beneficiaries",
                                 "max_comment_depth", "social_acc", "referral_acc",
                                 "curators_prcnt", "bwprovider", "min_abs_rshares"}
          BY <3>3, InputsAssumption
        <5>2. /\ PostFields[1] = "max_vote_changes" /\ PostFields[2] = "cashout_window"
              /\ PostFields[3] = "max_beneficiaries" /\ PostFields[4] = "max_comment_depth"
              /\ PostFields[5] = "social_acc" /\ PostFields[6] = "referral_acc"
              /\ PostFields[7] = "curators_prcnt" /\ PostFields[8] = "bwprovider"
              /\ PostFields[9] = "min_abs_rshares"
          BY DEF PostFields
        <5>3. \A j \in {1, 2, 3, 4, 5, 6, 7, 8, 9} : j \in 1 .. 9
          OBVIOUS
        <5> QED BY <5>1, <5>2, <5>3
      <4>2. DOMAIN PostFields = 1 .. 9
        BY DEF PostFields
      <4> QED BY <4>1, <4>2 DEF Setter!index
    <3>5. \A i \in 1 .. 8 : Setter!index(batch[i]) < Setter!index(batch[i + 1])
      BY <1>1, <3>3 DEF Setter!check_duplicates
    <3>6. \A i \in 1 .. 9 : Setter!index(batch[i]) = i
      <4> DEFINE ix(i) == Setter!index(batch[i])
      <4>1. /\ ix(1) \in 1 .. 9 /\ ix(2) \in 1 .. 9 /\ ix(3) \in 1 .. 9 /\ ix(4) \in 1 .. 9
            /\ ix(5) \in 1 .. 9 /\ ix(6) \in 1 .. 9 /\ ix(7) \in 1 .. 9 /\ ix(8) \in 1 .. 9
            /\ ix(9) \in 1 .. 9
        BY <3>4
      <4>2. /\ ix(1) < ix(2) /\ ix(2) < ix(3) /\ ix(3) < ix(4) /\ ix(4) < ix(5)
            /\ ix(5) < ix(6) /\ ix(6) < ix(7) /\ ix(7) < ix(8) /\ ix(8) < ix(9)
        BY <3>5
      <4> HIDE DEF ix
      <4>3. /\ ix(1) = 1 /\ ix(2) = 2 /\ ix(3) = 3 /\ ix(4) = 4 /\ ix(5) = 5
            /\ ix(6) = 6 /\ ix(7) = 7 /\ ix(8) = 8 /\ ix(9) = 9
        BY <4>1, <4>2
      <4>4. \A i \in 1 .. 9 : ix(i) = i
        BY <4>3
      <4> QED BY <4>4 DEF ix
    <3>7. DOMAIN params' = {PostFields[i] : i \in DOMAIN PostFields}
      BY <3>2, <3>3, <3>4, <3>6 DEF PostFields
    <3>8. "cashout_window" \in DOMAIN params'
      BY <3>7 DEF PostFields
    <3> QED BY <1>2, <3>2, <3>7, <3>8 DEF WindowSound
  <2> QED BY <2>1, <2>2
<1> QED BY <1>3, QuietStep DEF setparams, contracts, history, IInv, Keys, Rows

----------------------------------------------------------------------------
(* Closing *)

\* What closing makes of messages and of the transactions sent
AfterClosing(ms, ds, sent) ==
  /\ DOMAIN ms = DOMAIN messages
  /\ \A id \in DOMAIN ms :
       /\ "cashout_time" \in DOMAIN ms[id]
       /\ closed(ms[id]) =>
            closed(messages[id]) \/ (id \in DOMAIN ds /\ ds[id] = "paymssgrwrd")
  /\ \A id \in DOMAIN sent \ {CloseId} :
       /\ id \in DOMAIN ds
       /\ ds[id] = sent[id] \/ (id \in DOMAIN messages /\ ds[id] = "paymssgrwrd")
  /\ \A id \in DOMAIN ds : ds[id] = "closemssgs" => id = CloseId

\* closemssgs sends a payment for every message it closes, and may send itself on.
LEMMA ClosingSends ==
  ASSUME IInv, NEW ps, NEW sent,
         \A id \in DOMAIN sent : sent[id] = "closemssgs" => id = CloseId
  PROVE  AfterClosing(closemssgs(ps, sent).messages, closemssgs(ps, sent).deferred, sent)
<1> DEFINE r == close_all(ps).rewards
           again == IF closing = due THEN EmptyTable
                    ELSE [id \in {CloseId} |-> "closemssgs"]
           ds == [id \in DOMAIN sent \union closing \union DOMAIN again |->
                    IF id \in closing THEN "paymssgrwrd"
                    ELSE IF id \in DOMAIN again THEN again[id] ELSE sent[id]]
           ms == [id \in DOMAIN messages |->
                    IF id \in closing
                    THEN [messages[id] EXCEPT !.cashout_time = Never,
                                              !.mssg_reward = at(r, id)]
                    ELSE messages[id]]
<1>1. closemssgs(ps, sent).messages = ms /\ closemssgs(ps, sent).deferred = ds
  BY DEF closemssgs
<1>2. closing \subseteq DOMAIN messages
  BY DEF closing, due
<1>3. /\ DOMAIN again \subseteq {CloseId}
      /\ \A id \in DOMAIN again : again[id] = "closemssgs"
  BY DEF EmptyTable
<1> HIDE DEF again, r
<1>4. \A id \in DOMAIN ms : "cashout_time" \in DOMAIN ms[id]
  BY DEF IInv, Rows
<1>5. \A id \in DOMAIN ms : closed(ms[id]) =>
        closed(messages[id]) \/ (id \in DOMAIN ds /\ ds[id] = "paymssgrwrd")
  BY <1>2
<1>6. \A id \in DOMAIN sent \ {CloseId} :
        /\ id \in DOMAIN ds
        /\ ds[id] = sent[id] \/ (id \in DOMAIN messages /\ ds[id] = "paymssgrwrd")
  BY <1>2, <1>3
<1>7. \A id \in DOMAIN ds : ds[id] = "closemssgs" => id = CloseId
  BY <1>3
<1>8. DOMAIN ms = DOMAIN messages
  OBVIOUS
<1> HIDE DEF ms, ds
<1> QED BY <1>1, <1>4, <1>5, <1>6, <1>7, <1>8 DEF AfterClosing

\* After closing nothing is forgotten either.
LEMMA ClosingForgetsNothing ==
  ASSUME IInv, NEW ms, NEW ds, AfterClosing(ms, ds, deferred)
  PROVE  /\ \A id \in DOMAIN ms : closed(ms[id]) =>
              id \in lost \/ (id \in DOMAIN ds /\ ds[id] = "paymssgrwrd")
         /\ \A k \in DOMAIN votes :
              \/ k[1] \in DOMAIN ms \union lost
              \/ k[1] \in DOMAIN ds /\ ds[k[1]] = "deletevotes"
<1>1. \A id \in DOMAIN messages : id # CloseId
  BY DEF IInv, Keys, CloseId
<1>2. \A k \in DOMAIN votes : k[1] # CloseId
  BY DEF IInv, Keys, CloseId
<1> QED BY <1>1, <1>2 DEF AfterClosing, IInv, NothingForgotten

\* Whatever else a step does, when it closes messages, changes open ones and
\* leaves the permlinks alone, nothing here is disturbed.
LEMMA ClosingStep ==
  ASSUME IInv, NEW ms, AfterClosing(ms, deferred', deferred),
         DOMAIN messages' = DOMAIN ms,
         \A id \in DOMAIN ms : /\ "cashout_time" \in DOMAIN messages'[id]
                               /\ messages'[id].cashout_time = ms[id].cashout_time,
         \A k \in DOMAIN votes' \ DOMAIN votes : k \in (DOMAIN messages) \X Account,
         UNCHANGED <<now, params, permlinks, last_id, lost, astray>>
  PROVE  IInv'
<1>1. Keys'
  BY DEF IInv, Keys, AfterClosing
<1>2. Rows'
  BY DEF IInv, Rows, AfterClosing
<1>3. WindowSound'
  BY DEF IInv, WindowSound
<1>4. NothingForgotten'
  <2>1. \A id \in DOMAIN messages' : closed(messages'[id]) <=> closed(ms[id])
    BY DEF closed
  <2>2. DOMAIN ms = DOMAIN messages
    BY DEF AfterClosing
  <2>3. \A k \in DOMAIN votes' \ DOMAIN votes : k[1] \in DOMAIN messages'
    BY <2>2
  <2> QED BY <2>1, <2>2, <2>3, ClosingForgetsNothing DEF NothingForgotten
<1>5. TreeSound'
  BY DEF IInv, TreeSound, AfterClosing
<1> QED BY <1>1, <1>2, <1>3, <1>4, <1>5 DEF IInv

\* closemssgs by itself
LEMMA CloseStep ==
  ASSUME IInv,
         \/ close(deferred)
         \/ CloseId \in DOMAIN deferred /\ close(Drop(deferred, CloseId))
  PROVE  IInv'
<1>1. PICK sent \in {deferred, Drop(deferred, CloseId)} : close(sent)
  OBVIOUS
<1> DEFINE c == closemssgs(pools, sent)
<1>2. \A id \in DOMAIN sent : sent[id] = "closemssgs" => id = CloseId
  BY DEF IInv, Keys, Drop
<1>3. messages' = c.messages /\ deferred' = c.deferred
  BY <1>1 DEF close
<1> HIDE DEF c
<1>4. AfterClosing(messages', deferred', sent)
  BY <1>2, <1>3, ClosingSends DEF c
<1>5. AfterClosing(messages', deferred', deferred)
  BY <1>4 DEF AfterClosing, Drop
<1>6. UNCHANGED <<now, params, permlinks, votes, last_id, lost, astray>>
  BY <1>1 DEF close, settings, history
<1>7. \A id \in DOMAIN messages' : "cashout_time" \in DOMAIN messages'[id]
  BY <1>5 DEF AfterClosing
<1> QED BY <1>5, <1>6, <1>7, ClosingStep

\* Tokens that come in close messages too.
LEMMA TransferStep ==
  ASSUME IInv, NEW quantity, on_transfer(quantity)
  PROVE  IInv'
<1> DEFINE c == closemssgs(fill_depleted_pool(pools, quantity), deferred)
<1>1. /\ messages' = c.messages /\ deferred' = c.deferred
      /\ UNCHANGED <<now, params, permlinks, votes, last_id, lost, astray>>
  BY DEF on_transfer, settings, history
<1>2. AfterClosing(c.messages, c.deferred, deferred)
  BY ClosingSends DEF IInv, Keys
<1> HIDE DEF c
<1>3. \A id \in DOMAIN messages' : "cashout_time" \in DOMAIN messages'[id]
  BY <1>1, <1>2 DEF AfterClosing
<1> QED BY <1>1, <1>2, <1>3, ClosingStep

----------------------------------------------------------------------------
(* Votes and settings of a message *)

\* A vote is for a message that is there.
LEMMA VoteStep ==
  ASSUME IInv, NEW voter \in Account, NEW id, NEW weight, set_vote(voter, id, weight)
  PROVE  IInv'
<1> DEFINE c == closemssgs(pools, deferred)
<1>1. /\ id \in DOMAIN messages /\ deferred' = c.deferred
      /\ UNCHANGED <<now, params, permlinks, last_id, lost, astray>>
  BY DEF set_vote, settings, history
<1>2. AfterClosing(c.messages, deferred', deferred)
  BY <1>1, ClosingSends DEF IInv, Keys
<1>3. PICK rshares, delegators, count :
        \/ revote(c, id, voter, weight, rshares) /\ <<id, voter>> \in DOMAIN votes
        \/ new_vote(c, id, voter, weight, rshares, delegators, count)
  BY DEF set_vote
<1> HIDE DEF c
<1> DEFINE ms == c.messages
<1> HIDE DEF ms
<1>rows. \A o \in DOMAIN ms : "cashout_time" \in DOMAIN ms[o]
  BY <1>2 DEF AfterClosing, ms
<1>4. /\ DOMAIN messages' = DOMAIN ms
      /\ \A o \in DOMAIN ms :
           /\ DOMAIN messages'[o] = DOMAIN ms[o]
           /\ messages'[o].cashout_time = ms[o].cashout_time
  <2>1. CASE revote(c, id, voter, weight, rshares)
    <3>1. PICK x, y : messages' = [ms EXCEPT ![id].netshares = x, ![id].sumcuratorsw = y]
      BY <2>1, Zenon DEF revote, ms
    <3> QED BY <1>rows, <3>1
  <2>2. CASE new_vote(c, id, voter, weight, rshares, delegators, count)
    <3>1. PICK x, y, z : messages' = [ms EXCEPT ![id].netshares = x,
                                               ![id].voteshares = y, ![id].sumcuratorsw = z]
      BY <2>2, Zenon DEF new_vote, ms
    <3> QED BY <1>rows, <3>1
  <2> QED BY <1>3, <2>1, <2>2
<1>5. \A k \in DOMAIN votes' \ DOMAIN votes : k = <<id, voter>>
  BY <1>3 DEF revote, new_vote, Put
<1> QED BY <1>1, <1>2, <1>rows, <1>4, <1>5, ClosingStep DEF ms

\* Changing an open or closed message leaves its cashout time alone.
LEMMA ChangeStep ==
  ASSUME IInv, NEW id, NEW x, setcurprcnt(id, x) \/ setmaxpayout(id, x)
  PROVE  IInv'
<1>1. /\ DOMAIN messages' = DOMAIN messages
      /\ \A o \in DOMAIN messages :
           /\ DOMAIN messages'[o] = DOMAIN messages[o]
           /\ messages'[o].cashout_time = messages[o].cashout_time
  BY DEF setcurprcnt, setmaxpayout, IInv, Rows
<1>2. UNCHANGED <<now, params, permlinks, votes, last_id, deferred, lost, astray>>
  BY DEF setcurprcnt, setmaxpayout, settings, history
<1>3. Keys'
  BY <1>1, <1>2 DEF IInv, Keys
<1>4. Rows'
  BY <1>1, <1>2 DEF IInv, Rows
<1>5. NothingForgotten'
  BY <1>1, <1>2 DEF IInv, NothingForgotten, closed
<1>6. TreeSound' /\ WindowSound'
  BY <1>1, <1>2 DEF IInv, TreeSound, WindowSound
<1> QED BY <1>3, <1>4, <1>5, <1>6 DEF IInv

----------------------------------------------------------------------------
(* Paying and erasing votes *)

\* A payment, by hand or by its transaction: it ends with the message gone and
\* the erasing of its votes sent, or with another payment sent.
LEMMA PayStep ==
  ASSUME IInv, NEW id, NEW sent, paymssgrwrd(id, sent),
         \/ sent = deferred
         \/ id \in DOMAIN deferred /\ sent = Drop(deferred, id)
  PROVE  IInv'
<1>1. PICK ord, c :
        /\ IF last_payment(id, c) THEN pay_last(id, c, sent) ELSE pay_some(id, c, sent)
        /\ votes' = votes_left(id, c)
  BY DEF paymssgrwrd
<1>2. /\ id \in DOMAIN messages /\ id # CloseId
      /\ UNCHANGED <<now, params, permlinks, last_id, lost, astray>>
  BY DEF paymssgrwrd, settings, IInv, Keys, CloseId
<1>3. DOMAIN votes' \subseteq DOMAIN votes
  BY <1>1 DEF votes_left
<1>4. \A o \in DOMAIN deferred \ {id} : o \in DOMAIN sent /\ sent[o] = deferred[o]
  BY DEF Drop
<1>5. \A o \in DOMAIN sent : o \in DOMAIN deferred /\ sent[o] = deferred[o]
  BY DEF Drop
<1>6. CASE pay_last(id, c, sent)
  <2>1. messages' = Drop(messages, id) /\ deferred' = Put(sent, id, "deletevotes")
    BY <1>6 DEF pay_last
  <2>2. /\ DOMAIN messages' = DOMAIN messages \ {id}
        /\ \A o \in DOMAIN messages' : messages'[o] = messages[o]
    BY <2>1 DEF Drop
  <2>3. /\ id \in DOMAIN deferred' /\ deferred'[id] = "deletevotes"
        /\ \A o \in DOMAIN deferred \ {id} : o \in DOMAIN deferred' /\ deferred'[o] = deferred[o]
        /\ \A o \in DOMAIN deferred' \ {id} : deferred'[o] = deferred[o] /\ o \in DOMAIN deferred
    BY <1>4, <1>5, <2>1 DEF Put
  <2>4. Keys' /\ Rows'
    BY <1>2, <1>3, <2>2, <2>3 DEF IInv, Keys, Rows
  <2>5. NothingForgotten'
    BY <1>2, <1>3, <2>2, <2>3 DEF IInv, NothingForgotten
  <2>6. TreeSound'
    BY <1>2, <2>2 DEF IInv, TreeSound
  <2> QED BY <1>2, <2>4, <2>5, <2>6 DEF IInv, WindowSound
<1>7. CASE pay_some(id, c, sent)
  <2>1. /\ messages' = [messages EXCEPT ![id].paid_amount = @ + c.paid]
        /\ deferred' = Put(sent, id, "paymssgrwrd")
    BY <1>7 DEF pay_some, send_postreward_trx
  <2>2. /\ DOMAIN messages' = DOMAIN messages
        /\ \A o \in DOMAIN messages : /\ "cashout_time" \in DOMAIN messages'[o]
                                      /\ messages'[o].cashout_time = messages[o].cashout_time
    BY <2>1 DEF IInv, Rows
  <2>3. /\ id \in DOMAIN deferred' /\ deferred'[id] = "paymssgrwrd"
        /\ \A o \in DOMAIN deferred \ {id} : o \in DOMAIN deferred' /\ deferred'[o] = deferred[o]
        /\ \A o \in DOMAIN deferred' \ {id} : deferred'[o] = deferred[o] /\ o \in DOMAIN deferred
    BY <1>4, <1>5, <2>1 DEF Put
  <2>4. Keys' /\ Rows'
    BY <1>2, <1>3, <2>2, <2>3 DEF IInv, Keys, Rows
  <2>5. NothingForgotten'
    BY <1>2, <1>3, <2>2, <2>3 DEF IInv, NothingForgotten, closed
  <2> QED BY <1>2, <2>2, <2>4, <2>5 DEF IInv, WindowSound, TreeSound
<1> QED BY <1>1, <1>6, <1>7

\* An order of the votes of a message names them all.
LEMMA OrderIsComplete ==
  ASSUME IInv, NEW id, NEW ord \in orders(id)
  PROVE  /\ Cardinality(voters(id)) \in Nat
         /\ voters(id) = {ord[i] : i \in 1 .. Cardinality(voters(id))}
<1> DEFINE V == voters(id)
           n == Cardinality(V)
<1>1. IsFiniteSet(V)
  <2>1. V \in SUBSET Account
    BY DEF voters
  <2> QED BY <2>1, FS_Subset, BoundsAssumption
<1>2. n \in Nat
  BY <1>1, FS_CardinalityType
<1>3. IsFiniteSet(1 .. n) /\ Cardinality(1 .. n) = n
  BY <1>2, FS_Interval
<1>4. /\ ord \in [1 .. n -> V]
      /\ \A i, j \in 1 .. n : i < j => ord[i] # ord[j]
  BY DEF orders
<1> HIDE DEF n
<1>5. ord \in Injection(1 .. n, V)
  <2>1. \A i, j \in 1 .. n : ord[i] = ord[j] => i = j
    <3> SUFFICES ASSUME NEW i \in 1 .. n, NEW j \in 1 .. n, ord[i] = ord[j] PROVE i = j
      OBVIOUS
    <3>1. ~(i < j) /\ ~(j < i)
      BY <1>4
    <3> QED BY <1>2, <3>1
  <2> QED BY <1>4, <2>1 DEF Injection, IsInjective
<1>6. ord \in Surjection(1 .. n, V)
  BY <1>1, <1>3, <1>5, FS_Injection DEF n
<1>7. \A v \in V : \E i \in 1 .. n : ord[i] = v
  BY <1>6 DEF Surjection
<1> QED BY <1>2, <1>4, <1>7 DEF n

\* Votes of a message that is gone are erased, and as long as some are left
\* another transaction is sent.
LEMMA EraseStep ==
  ASSUME IInv, NEW id \in DOMAIN deferred, deferred[id] = "deletevotes",
         deletevotes(id, Drop(deferred, id))
  PROVE  IInv'
<1> DEFINE n == Cardinality(voters(id))
           sent == Drop(deferred, id)
<1>1. UNCHANGED <<now, params, permlinks, messages, last_id, lost, astray>>
  BY DEF deletevotes, settings, history
<1>2. PICK ord \in orders(id) :
        votes' = [k \in DOMAIN votes \ {<<id, ord[i]>> : i \in 1 .. Least(n, MaxDeletions)}
                    |-> votes[k]]
  BY DEF deletevotes
<1>3. PICK more \in more_votes(n) :
        deferred' = IF more THEN Put(sent, id, "deletevotes") ELSE sent
  BY DEF deletevotes
<1>4. n \in Nat /\ voters(id) = {ord[i] : i \in 1 .. n}
  BY OrderIsComplete
<1> HIDE DEF n
<1>5. ~more => \A k \in DOMAIN votes' : k[1] # id
  <2> SUFFICES ASSUME ~more, NEW k \in DOMAIN votes', k[1] = id PROVE FALSE
    OBVIOUS
  <2>1. Least(n, MaxDeletions) = n
    <3>1. CASE n = MaxDeletions
      BY <3>1 DEF Least
    <3>2. CASE n # MaxDeletions
      <4>1. ~(n > MaxDeletions)
        BY <1>3, <3>2, Zenon DEF more_votes
      <4> QED BY <1>4, <4>1, BoundsAssumption DEF Least
    <3> QED BY <3>1, <3>2
  <2>2. k \in DOMAIN votes /\ k = <<id, k[2]>> /\ k[2] \in voters(id)
    BY <1>2 DEF IInv, Keys, voters
  <2> QED BY <1>2, <1>4, <2>1, <2>2
<1>6. DOMAIN votes' \subseteq DOMAIN votes
  BY <1>2
<1>7. /\ \A o \in DOMAIN deferred \ {id} : o \in DOMAIN deferred' /\ deferred'[o] = deferred[o]
      /\ \A o \in DOMAIN deferred' : o \in DOMAIN deferred /\ deferred'[o] = deferred[o]
      /\ more => id \in DOMAIN deferred'
  BY <1>3 DEF Drop, Put
<1>8. Keys' /\ Rows'
  BY <1>1, <1>6, <1>7 DEF IInv, Keys, Rows
<1>9. NothingForgotten'
  BY <1>1, <1>5, <1>6, <1>7 DEF IInv, NothingForgotten
<1> QED BY <1>1, <1>8, <1>9 DEF IInv, WindowSound, TreeSound

\* A lost transaction is remembered as lost.
LEMMA LoseStep ==
  ASSUME IInv, NEW id, lose_deferred(id)
  PROVE  IInv'
<1>1. /\ deferred' = Drop(deferred, id) /\ lost' = lost \union {id}
      /\ UNCHANGED <<now, params, permlinks, messages, votes, last_id, astray>>
  BY DEF lose_deferred, settings
<1>2. /\ \A o \in DOMAIN deferred \ {id} : o \in DOMAIN deferred' /\ deferred'[o] = deferred[o]
      /\ \A o \in DOMAIN deferred' : o \in DOMAIN deferred /\ deferred'[o] = deferred[o]
  BY <1>1 DEF Drop
<1>3. Keys' /\ Rows'
  BY <1>1, <1>2 DEF IInv, Keys, Rows
<1>4. NothingForgotten'
  BY <1>1, <1>2 DEF IInv, NothingForgotten
<1> QED BY <1>1, <1>3, <1>4 DEF IInv, WindowSound, TreeSound

\* A deferred transaction that ran has sent the next, or left nothing to do.
LEMMA RunStep ==
  ASSUME IInv, NEW id, run_deferred(id)
  PROVE  IInv'
<1>1. id \in DOMAIN deferred
  BY DEF run_deferred
<1>2. \/ deferred[id] = "closemssgs" /\ close(Drop(deferred, id))
      \/ deferred[id] = "paymssgrwrd" /\ paymssgrwrd(id, Drop(deferred, id))
      \/ deferred[id] = "deletevotes" /\ deletevotes(id, Drop(deferred, id))
  BY DEF run_deferred
<1>3. CASE deferred[id] = "closemssgs" /\ close(Drop(deferred, id))
  BY <1>1, <1>3, CloseStep DEF IInv, Keys
<1>4. CASE deferred[id] = "paymssgrwrd" /\ paymssgrwrd(id, Drop(deferred, id))
  BY <1>1, <1>4, PayStep
<1>5. CASE deferred[id] = "deletevotes" /\ deletevotes(id, Drop(deferred, id))
  BY <1>1, <1>5, EraseStep
<1> QED BY <1>2, <1>3, <1>4, <1>5

----------------------------------------------------------------------------
(* The tree of permlinks *)

children(id) == {c \in DOMAIN permlinks : permlinks[c].parent_id = id}

\* There are fewer children than a counter can count, also with one more.
LEMMA FewChildren ==
  ASSUME Keys, NEW id
  PROVE  /\ IsFiniteSet(children(id))
         /\ Cardinality(children(id)) \in 0 .. last_id
<1>1. children(id) \in SUBSET (1 .. last_id)
  BY DEF Keys, children
<1>2. last_id \in Nat
  BY BoundsAssumption DEF Keys
<1>3. IsFiniteSet(1 .. last_id) /\ Cardinality(1 .. last_id) = last_id
  BY <1>2, FS_Interval
<1>4. /\ IsFiniteSet(children(id)) /\ Cardinality(children(id)) <= last_id
  BY <1>1, <1>3, FS_Subset
<1>5. Cardinality(children(id)) \in Nat
  BY <1>4, FS_CardinalityType
<1> QED BY <1>2, <1>4, <1>5

\* What a new leaf below parent does to the tree; the parent's count goes up
\* unless permlinks are imported.
LEMMA LeafAdded ==
  ASSUME IInv, NEW parent \in DOMAIN permlinks \union {Root}, NEW row \in PermlinkType,
         row.parent_id = parent, row.parentacc = author_of(parent),
         row.level = level_below(parent), row.childcount = 0,
         last_id' = last_id + 1, last_id' <= MaxId,
         permlinks' = Put(added_child(permlinks, parent), last_id', row),
         astray' = astray
  PROVE  /\ DOMAIN permlinks' = DOMAIN permlinks \union {last_id'}
         /\ last_id' \in 0 .. MaxId
         /\ \A id \in DOMAIN permlinks' :
              permlinks'[id] \in PermlinkType /\ permlinks'[id].parent_id <= last_id'
         /\ \A id \in DOMAIN permlinks' :
              LET up == permlinks'[id].parent_id IN
              /\ id \notin astray.tree => permlinks'[id].childcount = Cardinality(children(id)')
              /\ up \notin astray.tree \union {Root} =>
                   /\ up \in DOMAIN permlinks'
                   /\ permlinks'[up].level + 1 = permlinks'[id].level
                   /\ permlinks'[up].author = permlinks'[id].parentacc
<1> DEFINE new == last_id'
           old == DOMAIN permlinks
<1>1. /\ last_id \in Nat /\ new \in 1 .. MaxId /\ new \notin old /\ Root \notin old
      /\ new = last_id + 1
  BY BoundsAssumption DEF IInv, Keys, Root
<1>2. parent # new
  BY <1>1 DEF Root
<1>3. DOMAIN permlinks' = old \union {new} /\ permlinks'[new] = row
  BY DEF Put, added_child
<1> DEFINE more(id) == IF id = parent THEN [permlinks[id] EXCEPT !.childcount = (@ + 1) % CounterRange]
                       ELSE permlinks[id]
<1>4. \A id \in old : permlinks'[id] = more(id)
  BY <1>1 DEF Put, added_child
<1>5. \A id \in old : /\ more(id).parent_id = permlinks[id].parent_id
                      /\ more(id).level = permlinks[id].level
                      /\ more(id).author = permlinks[id].author
                      /\ more(id).parentacc = permlinks[id].parentacc
                      /\ more(id) \in PermlinkType
                      /\ id # parent => more(id) = permlinks[id]
                      /\ id = parent => more(id).childcount = (permlinks[id].childcount + 1) % CounterRange
  <2> SUFFICES ASSUME NEW id \in old
               PROVE  /\ more(id).parent_id = permlinks[id].parent_id
                      /\ more(id).level = permlinks[id].level
                      /\ more(id).author = permlinks[id].author
                      /\ more(id).parentacc = permlinks[id].parentacc
                      /\ more(id) \in PermlinkType
                      /\ id # parent => more(id) = permlinks[id]
                      /\ id = parent => more(id).childcount = (permlinks[id].childcount + 1) % CounterRange
    OBVIOUS
  <2>1. permlinks[id] \in PermlinkType
    BY DEF IInv, Rows
  <2>2. (permlinks[id].childcount + 1) % CounterRange \in 0 .. CounterRange - 1
    BY <2>1, BoundsAssumption DEF PermlinkType
  <2> QED BY <2>1, <2>2 DEF PermlinkType
<1> HIDE DEF more
<1>6. \A id \in old : permlinks[id].parent_id \in Nat /\ permlinks[id].parent_id <= last_id
  BY DEF IInv, Rows, PermlinkType
<1>7. \A id \in DOMAIN permlinks' :
        children(id)' = IF id = parent THEN children(id) \union {new} ELSE children(id)
  BY <1>1, <1>2, <1>3, <1>4, <1>5, <1>6 DEF children
<1>8. children(new) = {}
  BY <1>1, <1>6 DEF children
<1>9. \A id \in DOMAIN permlinks' : id \notin astray.tree =>
        permlinks'[id].childcount = Cardinality(children(id)')
  <2> SUFFICES ASSUME NEW id \in DOMAIN permlinks', id \notin astray.tree
               PROVE  permlinks'[id].childcount = Cardinality(children(id)')
    OBVIOUS
  <2>1. CASE id = new
    BY <1>2, <1>3, <1>7, <1>8, <2>1, FS_EmptySet
  <2>2. CASE id \in old /\ id # parent
    BY <1>4, <1>5, <1>7, <2>2 DEF IInv, TreeSound, children
  <2>3. CASE id \in old /\ id = parent
    <3>1. /\ IsFiniteSet(children(id)) /\ Cardinality(children(id)) \in 0 .. last_id
      BY FewChildren DEF IInv
    <3>2. permlinks[id].childcount = Cardinality(children(id))
      BY <2>3 DEF IInv, TreeSound, children
    <3>3. new \notin children(id)
      BY <1>1 DEF children
    <3>4. Cardinality(children(id) \union {new}) = Cardinality(children(id)) + 1
      BY <3>1, <3>3, FS_AddElement
    <3>5. children(id)' = children(id) \union {new}
      BY <1>3, <1>7, <2>3
    <3>6. permlinks'[id].childcount = (Cardinality(children(id)) + 1) % CounterRange
      BY <1>4, <1>5, <2>3, <3>2
    <3>7. Cardinality(children(id)) + 1 \in 0 .. CounterRange - 1
      BY <1>1, <3>1, BoundsAssumption
    <3>8. (Cardinality(children(id)) + 1) % CounterRange = Cardinality(children(id)) + 1
      BY <3>7, BoundsAssumption
    <3> QED BY <3>4, <3>5, <3>6, <3>8
  <2> QED BY <1>3, <2>1, <2>2, <2>3
<1>10. \A id \in DOMAIN permlinks' :
         permlinks'[id] \in PermlinkType /\ permlinks'[id].parent_id <= new
  <2>1. parent <= last_id
    BY <1>1 DEF IInv, Keys, Root
  <2>2. permlinks'[new] \in PermlinkType /\ permlinks'[new].parent_id <= new
    BY <1>1, <1>3, <2>1 DEF Root, IInv, Keys
  <2>3. \A id \in old : permlinks'[id] \in PermlinkType /\ permlinks'[id].parent_id <= new
    BY <1>1, <1>4, <1>5, <1>6
  <2> QED BY <1>3, <2>2, <2>3
<1>11. \A id \in DOMAIN permlinks' : permlinks'[id].parent_id \notin astray.tree \union {Root} =>
         /\ permlinks'[id].parent_id \in DOMAIN permlinks'
         /\ permlinks'[permlinks'[id].parent_id].level + 1 = permlinks'[id].level
         /\ permlinks'[permlinks'[id].parent_id].author = permlinks'[id].parentacc
  <2> SUFFICES ASSUME NEW id \in DOMAIN permlinks', NEW up, up = permlinks'[id].parent_id,
                      up \notin astray.tree \union {Root}
               PROVE  /\ up \in DOMAIN permlinks'
                      /\ permlinks'[up].level + 1 = permlinks'[id].level
                      /\ permlinks'[up].author = permlinks'[id].parentacc
    OBVIOUS
  <2>1. CASE id = new
    <3>1. up = parent /\ up \in old
      BY <1>3, <2>1
    <3>2. /\ permlinks[up].level \in Nat
          /\ row.level = permlinks[up].level + 1 /\ row.parentacc = permlinks[up].author
      BY <3>1 DEF level_below, author_of, IInv, Rows, PermlinkType
    <3> QED BY <1>3, <1>4, <1>5, <2>1, <3>1, <3>2
  <2>2. CASE id \in old
    <3>1. up = permlinks[id].parent_id
      BY <1>4, <1>5, <2>2
    <3>2. /\ up \in old /\ permlinks[up].level + 1 = permlinks[id].level
          /\ permlinks[up].author = permlinks[id].parentacc
      BY <2>2, <3>1 DEF IInv, TreeSound
    <3> QED BY <1>3, <1>4, <1>5, <2>2, <3>2
  <2> QED BY <1>3, <2>1, <2>2
<1> QED BY <1>1, <1>3, <1>9, <1>10, <1>11

\* A new message is open, and its permlink a new leaf.
LEMMA CreateStep ==
  ASSUME IInv, NEW author \in Account, NEW link \in Link,
         NEW parent \in DOMAIN permlinks \union {Root},
         NEW map, NEW t, NEW x, NEW y, createmssg(author, link, parent, map, t, x, y)
  PROVE  IInv'
<1> DEFINE c == closemssgs(pools, deferred)
           new == last_id + 1
           row == [author |-> author, parentacc |-> author_of(parent), parent_id |-> parent,
                   value |-> link, level |-> level_below(parent), childcount |-> 0]
<1>1. /\ permlinks' = Put(added_child(permlinks, parent), new, row)
      /\ last_id' = new /\ new <= MaxId /\ deferred' = c.deferred
      /\ params # NoParams
      /\ UNCHANGED <<now, params, votes, lost, astray>>
  BY DEF createmssg, settings, history
<1>2. PICK m : /\ messages' = Put(c.messages, new, m)
               /\ "cashout_time" \in DOMAIN m
               /\ m.cashout_time = now + params.cashout_window.window
  BY DEF createmssg
<1>3. AfterClosing(c.messages, deferred', deferred)
  BY <1>1, ClosingSends DEF IInv, Keys
<1> HIDE DEF c
<1> DEFINE ms == c.messages
<1> HIDE DEF ms
<1>4. /\ last_id \in Nat /\ new \in 1 .. MaxId /\ new \notin DOMAIN permlinks
      /\ new \notin DOMAIN messages /\ Root \notin DOMAIN permlinks
  BY <1>1, BoundsAssumption DEF IInv, Keys, Root
<1>5. ~closed(m)
  BY <1>1, <1>2 DEF closed, Never, IInv, Keys, WindowSound
<1>6. row \in PermlinkType
  <2>1. level_below(parent) \in Nat
    BY <1>4 DEF level_below, IInv, Rows, PermlinkType
  <2>2. author_of(parent) \in Account \union {Nobody}
    BY <1>4 DEF author_of, IInv, Rows, PermlinkType
  <2>3. parent \in Nat
    BY DEF IInv, Keys, Root
  <2>4. 0 \in 0 .. CounterRange - 1
    BY BoundsAssumption
  <2> QED BY <2>1, <2>2, <2>3, <2>4 DEF PermlinkType
<1>7. /\ row.parent_id = parent /\ row.parentacc = author_of(parent)
      /\ row.level = level_below(parent) /\ row.childcount = 0
  OBVIOUS
<1> HIDE DEF row
<1>8. /\ DOMAIN permlinks' = DOMAIN permlinks \union {last_id'}
      /\ last_id' \in 0 .. MaxId
      /\ \A id \in DOMAIN permlinks' :
           permlinks'[id] \in PermlinkType /\ permlinks'[id].parent_id <= last_id'
      /\ \A id \in DOMAIN permlinks' :
           LET up == permlinks'[id].parent_id IN
           /\ id \notin astray.tree => permlinks'[id].childcount = Cardinality(children(id)')
           /\ up \notin astray.tree \union {Root} =>
                /\ up \in DOMAIN permlinks'
                /\ permlinks'[up].level + 1 = permlinks'[id].level
                /\ permlinks'[up].author = permlinks'[id].parentacc
  BY <1>1, <1>6, <1>7, LeafAdded
<1>9. /\ DOMAIN messages' = DOMAIN messages \union {new}
      /\ messages'[new] = m
      /\ \A id \in DOMAIN messages : id # new /\ messages'[id] = ms[id]
      /\ DOMAIN ms = DOMAIN messages
  BY <1>2, <1>3, <1>4 DEF AfterClosing, Put, ms
<1>10. Keys'
  BY <1>1, <1>3, <1>4, <1>8, <1>9 DEF IInv, Keys, AfterClosing
<1>11. Rows'
  BY <1>1, <1>2, <1>3, <1>8, <1>9 DEF IInv, Rows, AfterClosing, ms
<1>12. NothingForgotten'
  BY <1>1, <1>3, <1>5, <1>9, ClosingForgetsNothing DEF NothingForgotten, ms
<1>13. TreeSound'
  <2>1. DOMAIN messages' \subseteq DOMAIN permlinks'
    BY <1>1, <1>8, <1>9 DEF IInv, Keys
  <2> QED BY <1>1, <1>8, <2>1 DEF TreeSound, children
<1> QED BY <1>1, <1>10, <1>11, <1>12, <1>13 DEF IInv, WindowSound

\* Imported permlinks change no count, and are left out with their parents.
LEMMA AddpermlinkStep ==
  ASSUME IInv, NEW author \in Account, NEW link \in Link,
         NEW parent \in DOMAIN permlinks \union {Root}, NEW import \in Imports,
         addpermlink(author, link, parent, import)
  PROVE  IInv'
<1> DEFINE new == last_id + 1
           row == [author |-> author, parentacc |-> author_of(parent), parent_id |-> parent,
                   value |-> link, level |-> import.level, childcount |-> import.childcount]
<1>1. /\ permlinks' = Put(permlinks, new, row)
      /\ last_id' = new /\ new <= MaxId
      /\ UNCHANGED <<now, params, messages, votes, deferred, lost>>
  BY DEF addpermlink, settings
<1>2. /\ astray' = [msgs |-> astray'.msgs, shares |-> astray'.shares,
                    funds |-> astray'.funds, dealt |-> astray'.dealt, tree |-> astray'.tree]
      /\ astray'.tree = astray.tree \union {new, parent}
  BY DEF addpermlink, IInv, Rows
<1>3. /\ last_id \in Nat /\ new \in 1 .. MaxId /\ new \notin DOMAIN permlinks
      /\ parent \in 0 .. last_id
      /\ Root \notin DOMAIN permlinks
  BY <1>1, BoundsAssumption DEF IInv, Keys, Root
<1>4. row \in PermlinkType
  <2>1. author_of(parent) \in Account \union {Nobody}
    BY <1>3 DEF author_of, IInv, Rows, PermlinkType
  <2> QED BY <1>3, <2>1, InputsAssumption DEF PermlinkType
<1>5. row.parent_id = parent
  OBVIOUS
<1> HIDE DEF row
<1>6. /\ DOMAIN permlinks' = DOMAIN permlinks \union {new} /\ permlinks'[new] = row
      /\ \A id \in DOMAIN permlinks : permlinks'[id] = permlinks[id]
  BY <1>1, <1>3 DEF Put
<1>7. Keys'
  BY <1>1, <1>3, <1>6 DEF IInv, Keys
<1>8. Rows'
  <2>1. \A id \in DOMAIN permlinks : permlinks[id].parent_id \in Nat
    BY DEF IInv, Rows, PermlinkType
  <2>2. \A id \in DOMAIN permlinks :
          permlinks'[id] \in PermlinkType /\ permlinks'[id].parent_id <= new
    BY <1>3, <1>6, <2>1 DEF IInv, Rows
  <2>3. permlinks'[new] \in PermlinkType /\ permlinks'[new].parent_id <= new
    BY <1>3, <1>4, <1>5, <1>6
  <2> QED BY <1>1, <1>2, <1>6, <2>2, <2>3 DEF IInv, Rows
<1>9. NothingForgotten'
  BY <1>1 DEF IInv, NothingForgotten
<1>10. TreeSound'
  <2>1. \A id \in DOMAIN permlinks' : id \notin astray'.tree =>
          id \in DOMAIN permlinks /\ children(id)' = children(id)
    BY <1>2, <1>3, <1>5, <1>6 DEF children
  <2>2. \A id \in DOMAIN permlinks' : id \notin astray'.tree =>
          permlinks'[id].childcount = Cardinality(children(id)')
    BY <1>2, <1>6, <2>1 DEF IInv, TreeSound, children
  <2>3. \A id \in DOMAIN permlinks' : permlinks'[id].parent_id \notin astray'.tree \union {Root} =>
          /\ permlinks'[id].parent_id \in DOMAIN permlinks'
          /\ permlinks'[permlinks'[id].parent_id].level + 1 = permlinks'[id].level
          /\ permlinks'[permlinks'[id].parent_id].author = permlinks'[id].parentacc
    <3> SUFFICES ASSUME NEW id \in DOMAIN permlinks', NEW up, up = permlinks'[id].parent_id,
                        up \notin astray'.tree \union {Root}
                 PROVE  /\ up \in DOMAIN permlinks'
                        /\ permlinks'[up].level + 1 = permlinks'[id].level
                        /\ permlinks'[up].author = permlinks'[id].parentacc
      OBVIOUS
    <3>1. id \in DOMAIN permlinks /\ up = permlinks[id].parent_id
      BY <1>2, <1>5, <1>6
    <3>2. /\ up \in DOMAIN permlinks /\ permlinks[up].level + 1 = permlinks[id].level
          /\ permlinks[up].author = permlinks[id].parentacc
      BY <1>2, <3>1 DEF IInv, TreeSound
    <3> QED BY <1>6, <3>1, <3>2
  <2>4. DOMAIN messages' \subseteq DOMAIN permlinks'
    BY <1>1, <1>6 DEF IInv, Keys
  <2> QED BY <2>2, <2>3, <2>4 DEF TreeSound, children
<1> QED BY <1>1, <1>7, <1>8, <1>9, <1>10 DEF IInv, WindowSound

\* Administration deletes only permlinks without a message.
LEMMA DelpermlinkStep ==
  ASSUME IInv, NEW id, delpermlink(id)
  PROVE  IInv'
<1> DEFINE up == permlinks[id].parent_id
<1>1. /\ id \in DOMAIN permlinks /\ id \notin DOMAIN messages
      /\ DOMAIN permlinks' = DOMAIN permlinks \ {id}
      /\ \A o \in DOMAIN permlinks' : permlinks'[o] = permlinks[o]
      /\ UNCHANGED <<now, params, messages, votes, last_id, deferred, lost>>
  BY DEF delpermlink, settings, Drop
<1>2. /\ astray' = [msgs |-> astray'.msgs, shares |-> astray'.shares,
                    funds |-> astray'.funds, dealt |-> astray'.dealt, tree |-> astray'.tree]
      /\ astray'.tree = astray.tree \union {id, up}
  BY DEF delpermlink, IInv, Rows
<1>3. Keys' /\ Rows'
  BY <1>1, <1>2 DEF IInv, Keys, Rows
<1>4. NothingForgotten'
  BY <1>1 DEF IInv, NothingForgotten
<1>5. TreeSound'
  <2>1. \A o \in DOMAIN permlinks' : o \notin astray'.tree =>
          permlinks'[o].childcount = Cardinality(children(o)')
    <3>1. \A o \in DOMAIN permlinks' : o \notin astray'.tree => children(o)' = children(o)
      BY <1>1, <1>2 DEF children
    <3> QED BY <1>1, <1>2, <3>1 DEF IInv, TreeSound, children
  <2>2. \A o \in DOMAIN permlinks' : permlinks'[o].parent_id \notin astray'.tree \union {Root} =>
          /\ permlinks'[o].parent_id \in DOMAIN permlinks'
          /\ permlinks'[permlinks'[o].parent_id].level + 1 = permlinks'[o].level
          /\ permlinks'[permlinks'[o].parent_id].author = permlinks'[o].parentacc
    <3> SUFFICES ASSUME NEW o \in DOMAIN permlinks', NEW p, p = permlinks'[o].parent_id,
                        p \notin astray'.tree \union {Root}
                 PROVE  /\ p \in DOMAIN permlinks'
                        /\ permlinks'[p].level + 1 = permlinks'[o].level
                        /\ permlinks'[p].author = permlinks'[o].parentacc
      OBVIOUS
    <3>1. o \in DOMAIN permlinks /\ p = permlinks[o].parent_id
      BY <1>1
    <3>2. /\ p \in DOMAIN permlinks /\ permlinks[p].level + 1 = permlinks[o].level
          /\ permlinks[p].author = permlinks[o].parentacc
      BY <1>2, <3>1 DEF IInv, TreeSound
    <3> QED BY <1>1, <1>2, <3>1, <3>2
  <2>3. DOMAIN messages' \subseteq DOMAIN permlinks'
    BY <1>1 DEF IInv, Keys
  <2> QED BY <1>1, <1>2, <2>1, <2>2, <2>3 DEF TreeSound, children
<1> QED BY <1>1, <1>3, <1>4, <1>5 DEF IInv, WindowSound

\* A message that goes has no comments, as its count is exact; its votes are
\* erased by the transaction sent.
LEMMA DeleteStep ==
  ASSUME IInv, NEW id, deletemssg(id)
  PROVE  IInv'
<1> DEFINE up == permlinks[id].parent_id
           old == DOMAIN permlinks
           rest == IF up = Root THEN permlinks
                   ELSE [permlinks EXCEPT ![up].childcount = (@ - 1) % CounterRange]
<1>1. /\ id \in old /\ permlinks[id].childcount = 0
      /\ permlinks' = Drop(rest, id) /\ messages' = Drop(messages, id)
      /\ deferred' = IF id \in DOMAIN messages THEN Put(deferred, id, "deletevotes") ELSE deferred
      /\ UNCHANGED <<now, params, votes, last_id, lost>>
  BY DEF deletemssg, may_delete, without_child, settings
<1>2. /\ astray' = [msgs |-> astray'.msgs, shares |-> astray'.shares,
                    funds |-> astray'.funds, dealt |-> astray'.dealt, tree |-> astray.tree]
      /\ astray'.tree = astray.tree
  BY DEF deletemssg, IInv, Rows
<1>3. /\ DOMAIN messages' = DOMAIN messages \ {id}
      /\ \A o \in DOMAIN messages' : messages'[o] = messages[o]
  BY <1>1 DEF Drop
<1>4. /\ \A o \in DOMAIN deferred \ {id} : o \in DOMAIN deferred' /\ deferred'[o] = deferred[o]
      /\ \A o \in DOMAIN deferred' \ {id} : o \in DOMAIN deferred /\ deferred'[o] = deferred[o]
      /\ IF id \in DOMAIN messages THEN id \in DOMAIN deferred' /\ deferred'[id] = "deletevotes"
         ELSE deferred' = deferred
  BY <1>1 DEF Put
<1>5. DOMAIN permlinks' = old \ {id}
  BY <1>1 DEF Drop
<1>6. \A o \in old \ {id} :
        /\ o # up => permlinks'[o] = permlinks[o]
        /\ o = up => permlinks'[o] = [permlinks[o] EXCEPT !.childcount = (@ - 1) % CounterRange]
  <2>1. \A o \in old : o = up => up # Root
    BY DEF IInv, Keys, Root
  <2> QED BY <1>1, <2>1 DEF Drop
<1>7. \A o \in old \ {id} : /\ permlinks'[o].parent_id = permlinks[o].parent_id
                            /\ permlinks'[o].level = permlinks[o].level
                            /\ permlinks'[o].author = permlinks[o].author
                            /\ permlinks'[o].parentacc = permlinks[o].parentacc
                            /\ permlinks'[o] \in PermlinkType
                            /\ o # up => permlinks'[o].childcount = permlinks[o].childcount
                            /\ o = up => permlinks'[o].childcount =
                                          (permlinks[o].childcount - 1) % CounterRange
  <2> SUFFICES ASSUME NEW o \in old \ {id}
               PROVE  /\ permlinks'[o].parent_id = permlinks[o].parent_id
                      /\ permlinks'[o].level = permlinks[o].level
                      /\ permlinks'[o].author = permlinks[o].author
                      /\ permlinks'[o].parentacc = permlinks[o].parentacc
                      /\ permlinks'[o] \in PermlinkType
                      /\ o # up => permlinks'[o].childcount = permlinks[o].childcount
                      /\ o = up => permlinks'[o].childcount =
                                    (permlinks[o].childcount - 1) % CounterRange
    OBVIOUS
  <2>1. permlinks[o] \in PermlinkType
    BY DEF IInv, Rows
  <2>2. (permlinks[o].childcount - 1) % CounterRange \in 0 .. CounterRange - 1
    BY <2>1, BoundsAssumption DEF PermlinkType
  <2>3. CASE o = up
    BY <1>6, <2>1, <2>2, <2>3 DEF PermlinkType
  <2>4. CASE o # up
    BY <1>6, <2>1, <2>4
  <2> QED BY <2>3, <2>4
<1>8. Keys'
  BY <1>1, <1>3, <1>4, <1>5 DEF IInv, Keys
<1>9. Rows'
  BY <1>1, <1>2, <1>3, <1>5, <1>7 DEF IInv, Rows
<1>10. NothingForgotten'
  BY <1>1, <1>3, <1>4 DEF IInv, NothingForgotten
<1>11. TreeSound'
  <2>1. \A o \in DOMAIN permlinks' : children(o)' = children(o) \ {id}
    BY <1>5, <1>7 DEF children
  <2>2. \A o \in DOMAIN permlinks' : o \notin astray.tree =>
          permlinks'[o].childcount = Cardinality(children(o)')
    <3> SUFFICES ASSUME NEW o \in DOMAIN permlinks', o \notin astray.tree
                 PROVE  permlinks'[o].childcount = Cardinality(children(o)')
      OBVIOUS
    <3>1. o \in old /\ permlinks[o].childcount = Cardinality(children(o))
      BY <1>5 DEF IInv, TreeSound, children
    <3>2. IsFiniteSet(children(o)) /\ Cardinality(children(o)) \in 0 .. last_id
      BY FewChildren DEF IInv
    <3>3. CASE o = up
      <4>1. id \in children(o)
        BY <1>1, <3>3 DEF children
      <4>2. Cardinality(children(o) \ {id}) = Cardinality(children(o)) - 1
        BY <3>2, <4>1, FS_RemoveElement
      <4>3. IsFiniteSet(children(o) \ {id})
        BY <3>2, FS_RemoveElement
      <4>4. Cardinality(children(o) \ {id}) \in Nat
        BY <4>3, FS_CardinalityType
      <4>5. Cardinality(children(o)) - 1 \in 0 .. CounterRange - 1
        BY <3>2, <4>2, <4>4, BoundsAssumption DEF IInv, Keys
      <4>6. (Cardinality(children(o)) - 1) % CounterRange = Cardinality(children(o)) - 1
        BY <4>5, BoundsAssumption
      <4> QED BY <1>5, <1>7, <2>1, <3>1, <3>3, <4>2, <4>6
    <3>4. CASE o # up
      BY <1>5, <1>7, <2>1, <3>1, <3>4 DEF children
    <3> QED BY <3>3, <3>4
  <2>3. id \notin astray.tree => children(id) = {}
    <3>1. IsFiniteSet(children(id))
      BY FewChildren DEF IInv
    <3>2. id \notin astray.tree => Cardinality(children(id)) = 0
      BY <1>1 DEF IInv, TreeSound, children
    <3> QED BY <3>1, <3>2, FS_EmptySet
  <2>4. \A o \in DOMAIN permlinks' : permlinks'[o].parent_id \notin astray.tree \union {Root} =>
          /\ permlinks'[o].parent_id \in DOMAIN permlinks'
          /\ permlinks'[permlinks'[o].parent_id].level + 1 = permlinks'[o].level
          /\ permlinks'[permlinks'[o].parent_id].author = permlinks'[o].parentacc
    <3> SUFFICES ASSUME NEW o \in DOMAIN permlinks', NEW p, p = permlinks'[o].parent_id,
                        p \notin astray.tree \union {Root}
                 PROVE  /\ p \in DOMAIN permlinks'
                        /\ permlinks'[p].level + 1 = permlinks'[o].level
                        /\ permlinks'[p].author = permlinks'[o].parentacc
      OBVIOUS
    <3>1. o \in old \ {id} /\ p = permlinks[o].parent_id
      BY <1>5, <1>7
    <3>2. /\ p \in old /\ permlinks[p].level + 1 = permlinks[o].level
          /\ permlinks[p].author = permlinks[o].parentacc
      BY <3>1 DEF IInv, TreeSound
    <3>3. p # id
      BY <2>3, <3>1 DEF children
    <3> QED BY <1>5, <1>7, <3>1, <3>2, <3>3
  <2>5. DOMAIN messages' \subseteq DOMAIN permlinks'
    BY <1>3, <1>5 DEF IInv, Keys
  <2> QED BY <1>2, <2>2, <2>4, <2>5 DEF TreeSound, children
<1> QED BY <1>1, <1>8, <1>9, <1>10, <1>11 DEF IInv, WindowSound

----------------------------------------------------------------------------
(* All steps *)

\* Parameters, limits and pools
LEMMA SettingsStep ==
  ASSUME IInv,
         \/ \E batch \in ParamBatches : setparams(batch)
         \/ \E act, row : setlimit(act, row)
         \/ \E rules : setrules(rules)
         \/ syncpool
  PROVE  IInv'
<1>1. ASSUME NEW batch \in ParamBatches, setparams(batch) PROVE IInv'
  BY <1>1, SetparamsStep
<1>2. now \in Nat /\ WindowSound
  BY DEF IInv, Keys
<1>3. ASSUME NEW act, NEW row, setlimit(act, row) PROVE IInv'
  <2>1. /\ UNCHANGED <<now, params, permlinks, messages, votes, last_id, deferred>>
        /\ UNCHANGED <<lost, astray>>
    BY <1>3 DEF setlimit, history
  <2> QED BY <1>2, <2>1, QuietStep DEF WindowSound, IInv, Rows
<1>4. ASSUME NEW rules, setrules(rules) PROVE IInv'
  <2>1. /\ UNCHANGED <<now, params, permlinks, messages, votes, last_id, deferred, lost>>
        /\ \E x, y, z, d : astray' = [astray EXCEPT !.msgs = x, !.shares = y, !.funds = z,
                                                   !.dealt = d]
    BY <1>4, Zenon DEF setrules, settings
  <2>2. astray' = [msgs |-> astray'.msgs, shares |-> astray'.shares,
                   funds |-> astray'.funds, dealt |-> astray'.dealt, tree |-> astray.tree]
    BY <2>1 DEF IInv, Rows
  <2> QED BY <1>2, <2>1, <2>2, QuietStep DEF WindowSound
<1>5. ASSUME syncpool PROVE IInv'
  <2>1. /\ UNCHANGED <<now, params, permlinks, messages, votes, last_id, deferred, lost>>
        /\ \E z, d : astray' = [astray EXCEPT !.funds = z, !.dealt = d]
    BY <1>5, Zenon DEF syncpool, settings
  <2>2. astray' = [msgs |-> astray'.msgs, shares |-> astray'.shares,
                   funds |-> astray'.funds, dealt |-> astray'.dealt, tree |-> astray.tree]
    BY <2>1 DEF IInv, Rows
  <2> QED BY <1>2, <2>1, <2>2, QuietStep DEF WindowSound
<1> QED BY <1>1, <1>3, <1>4, <1>5

\* The other contracts and the passing of time touch none of this.
LEMMA OtherStep ==
  ASSUME IInv, Others \/ Tick \/ UNCHANGED vars
  PROVE  IInv'
<1>1. /\ UNCHANGED <<params, permlinks, messages, votes, last_id, deferred, lost, astray>>
      /\ now' \in Nat
  <2>1. CASE Others
    BY <2>1 DEF Others, posting, history, IInv, Keys
  <2>2. CASE Tick
    BY <2>2 DEF Tick, settings, history, IInv, Keys
  <2>3. CASE UNCHANGED vars
    BY <2>3 DEF vars, settings, history, IInv, Keys
  <2> QED BY <2>1, <2>2, <2>3
<1>2. WindowSound'
  BY <1>1 DEF IInv, WindowSound
<1> QED BY <1>1, <1>2, QuietStep DEF IInv, Rows

\* Every step keeps the invariant: every operation of the contract, every
\* deferred transaction that runs or is lost.
LEMMA StepKeeps == IInv /\ [Next]_vars => IInv'
<1> SUFFICES ASSUME IInv, [Next]_vars PROVE IInv'
  OBVIOUS
<1>1. CASE Messages
  BY <1>1, CreateStep, AddpermlinkStep DEF Messages
<1>2. CASE Changes
  BY <1>2, DelpermlinkStep, DeleteStep, ChangeStep DEF Changes
<1>3. CASE Voting
  BY <1>3, VoteStep DEF Voting, upvote, downvote, unvote
<1>4. CASE Paying
  BY <1>4, PayStep, RunStep, LoseStep, CloseStep, TransferStep DEF Paying
<1>5. CASE Settings
  BY <1>5, SettingsStep DEF Settings
<1>6. CASE Others \/ Tick \/ UNCHANGED vars
  BY <1>6, OtherStep
<1> QED BY <1>1, <1>2, <1>3, <1>4, <1>5, <1>6 DEF Next

\* The invariant holds of the initial state and is kept by every step.
THEOREM Inductive == Spec => []IInv
<1>1. Init => IInv
  <2> SUFFICES ASSUME Init PROVE IInv
    OBVIOUS
  <2>1. Keys /\ Rows
    BY BoundsAssumption DEF Init, Keys, Rows, EmptyTable
  <2>2. NothingForgotten /\ TreeSound /\ WindowSound
    BY DEF Init, NothingForgotten, TreeSound, WindowSound, EmptyTable
  <2> QED BY <2>1, <2>2 DEF IInv
<1> QED BY <1>1, StepKeeps, PTL DEF Spec

\* Every reward that was fixed waits for a transaction that pays it, and every
\* vote for a message that is gone for one that erases it, unless that
\* transaction was lost: however closing, payments by hand, deletions, votes
\* and transactions in several parts follow one another.
THEOREM NothingIsForgotten == Spec => []NothingForgotten
<1>1. IInv => NothingForgotten
  BY DEF IInv
<1> QED BY <1>1, Inductive, PTL

\* Every message has its permlink, which closing dereferences without a check;
\* every comment has its parent one level above, which counts it.
THEOREM TreeStaysSound == Spec => []TreeSound
<1>1. IInv => TreeSound
  BY DEF IInv
<1> QED BY <1>1, Inductive, PTL

----------------------------------------------------------------------------
(* Referrals *)

\* Times that can be compared
Comparable == \A r \in DOMAIN referrals : referrals[r].expire \in Nat

\* What golos.publication does leaves the referrals alone.
LEMMA ReferralsAlone ==
  ASSUME Next
  PROVE  \/ UNCHANGED referrals
         \/ Ref!Next /\ UNCHANGED <<now, posting, charges>>
<1>1. CASE Messages
  <2>1. ASSUME NEW a, NEW l, NEW p, NEW m, NEW t, NEW c, NEW x,
               createmssg(a, l, p, m, t, c, x)
        PROVE  UNCHANGED referrals
    BY <2>1 DEF createmssg
  <2>2. ASSUME NEW a, NEW l, NEW p, NEW i, addpermlink(a, l, p, i) PROVE UNCHANGED referrals
    BY <2>2 DEF addpermlink, contracts
  <2> QED BY <1>1, <2>1, <2>2 DEF Messages
<1>2. CASE Changes
  BY <1>2 DEF Changes, delpermlink, deletemssg, setcurprcnt, setmaxpayout, contracts
<1>3. CASE Voting
  BY <1>3 DEF Voting, upvote, downvote, unvote, set_vote
<1>4. CASE Paying
  BY <1>4 DEF Paying, paymssgrwrd, run_deferred, lose_deferred, close, on_transfer,
              deletevotes, contracts
<1>5. CASE Settings
  BY <1>5 DEF Settings, setparams, setlimit, setrules, syncpool, contracts
<1>6. CASE Others
  BY <1>6 DEF Others
<1>7. CASE Tick
  BY <1>7 DEF Tick, contracts
<1> QED BY <1>1, <1>2, <1>3, <1>4, <1>5, <1>6, <1>7 DEF Next

\* A step of golos.referral removes records that expired and at most one more,
\* or adds one that is good for a time to come.
LEMMA ReferralStep ==
  ASSUME Comparable, Ref!Next
  PROVE  /\ \/ DOMAIN referrals \ DOMAIN referrals' \subseteq Ref!Expired
            \/ \E r \in DOMAIN referrals :
                 /\ DOMAIN referrals \ DOMAIN referrals' \subseteq Ref!Expired \union {r}
                 /\ DOMAIN referrals' \subseteq DOMAIN referrals
         /\ \A r \in DOMAIN referrals' : referrals'[r].expire \in Nat
<1>1. \A S \in Ref!closed : S \subseteq Ref!Expired
  BY DEF Ref!closed
<1>2. CASE Ref!closeoldref
  BY <1>1, <1>2 DEF Ref!closeoldref, Ref!without, Comparable
<1>3. ASSUME NEW batch, Ref!setparams(batch) PROVE UNCHANGED referrals
  BY <1>3 DEF Ref!setparams
<1>4. ASSUME NEW from, NEW q, Ref!on_transfer(from, q)
      PROVE  /\ from \in DOMAIN referrals
             /\ DOMAIN referrals \ DOMAIN referrals' \subseteq Ref!Expired \union {from}
             /\ DOMAIN referrals' \subseteq DOMAIN referrals
             /\ \A r \in DOMAIN referrals' : referrals'[r].expire \in Nat
  BY <1>1, <1>4 DEF Ref!on_transfer, Ref!without, Comparable
<1>5. ASSUME NEW referrer, NEW referral, NEW percent, NEW expire \in Expire, NEW b,
             Ref!add_referral(referrer, referral, percent, expire, b)
      PROVE  /\ DOMAIN referrals \ DOMAIN referrals' \subseteq Ref!Expired
             /\ \A r \in DOMAIN referrals' : referrals'[r].expire \in Nat
  <2>1. PICK S \in Ref!closed :
          referrals' = Put(Ref!without(S), referral,
                           [referrer |-> referrer, percent |-> percent,
                            expire |-> expire, breakout |-> b])
    BY <1>5, Zenon DEF Ref!add_referral, Ref!Put, Put
  <2>2. expire \in Nat
    BY InputsAssumption
  <2> QED BY <1>1, <2>1, <2>2 DEF Put, Ref!without, Comparable
<1>6. CASE UNCHANGED referrals
  BY <1>6 DEF Comparable
<1>7. CASE \E from \in Account, q \in Breakout : Ref!on_transfer(from, q)
  BY <1>4, <1>7
<1>8. CASE \E referral \in Account, referrer \in Account, p \in Percent, e \in Expire,
           b \in Breakout : Ref!add_referral(referrer, referral, p, e, b)
  BY <1>5, <1>8
<1>9. CASE \E batch \in RefBatches : Ref!setparams(batch)
  BY <1>3, <1>6, <1>9
<1>10. \/ Ref!closeoldref \/ \E batch \in RefBatches : Ref!setparams(batch)
       \/ \E from \in Account, q \in Breakout : Ref!on_transfer(from, q)
       \/ \E referral \in Account, referrer \in Account, p \in Percent, e \in Expire,
            b \in Breakout : Ref!add_referral(referrer, referral, p, e, b)
  BY DEF Ref!Next
<1> QED BY <1>2, <1>7, <1>8, <1>9, <1>10

\* No one who owes a share of rewards is freed of it early, but by the breakout,
\* and that touches nothing else: whatever expires or is added in between.
THEOREM ReferralsAreKept == Spec => ReferralKept
<1> DEFINE Gone == {r \in DOMAIN referrals \ DOMAIN referrals' : referrals[r].expire >= now}
           Kept == Gone # {} => /\ Cardinality(Gone) = 1
                                /\ DOMAIN referrals' \subseteq DOMAIN referrals
                                /\ UNCHANGED <<posting, charges>>
<1>1. Init => Comparable
  BY DEF Init, Comparable, Ref!Init, Ref!EmptyTable
<1>2. Comparable /\ [Next]_vars => Comparable'
  <2> SUFFICES ASSUME Comparable, [Next]_vars PROVE Comparable'
    OBVIOUS
  <2>1. CASE UNCHANGED vars
    BY <2>1 DEF Comparable, vars, contracts
  <2>2. CASE Next
    BY <2>2, ReferralsAlone, ReferralStep DEF Comparable
  <2> QED BY <2>1, <2>2
<1>3. Comparable /\ now \in Nat /\ [Next]_vars => Kept
  <2> SUFFICES ASSUME Comparable, now \in Nat, Next, Gone # {} PROVE Kept
    BY DEF vars, contracts
  <2>1. Ref!Next /\ UNCHANGED <<posting, charges>>
    BY ReferralsAlone
  <2>2. \A r \in Gone : r \notin Ref!Expired
    BY DEF Ref!Expired, Comparable
  <2>3. PICK r \in DOMAIN referrals :
          /\ DOMAIN referrals \ DOMAIN referrals' \subseteq Ref!Expired \union {r}
          /\ DOMAIN referrals' \subseteq DOMAIN referrals
    BY <2>1, <2>2, ReferralStep
  <2>4. Gone = {r}
    BY <2>2, <2>3
  <2> HIDE DEF Gone
  <2> QED BY <2>1, <2>3, <2>4, FS_Singleton
<1> HIDE DEF Kept
<1>4. IInv => now \in Nat
  BY DEF IInv, Keys
<1> QED BY <1>1, <1>2, <1>3, <1>4, Inductive, PTL DEF Spec, ReferralKept, Kept

=============================================================================
