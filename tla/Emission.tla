------------------------------ MODULE Emission ------------------------------
(***************************************************************************)
(* golos.emit: tokens are issued at an interval and shared among pools.    *)
(*                                                                         *)
(* Every emit schedules the next one as a deferred transaction; nothing    *)
(* else does, so emission is a chain that can break.  pending holds the    *)
(* deferred transactions by sender id, which is the symbol of the token,   *)
(* with the seconds each still has to wait.  Time is kept relative: the    *)
(* seconds since the last emission and since the first start.              *)
(***************************************************************************)
EXTENDS Tables, Sequences

CONSTANTS
  Pool,           \* accounts that may receive emission, ordered integers
  Batches,        \* batches setparams may be called with
  NoParams,       \* the parameters singleton does not exist
  NoState,        \* the state singleton does not exist
  Supplies,       \* token supplies that emit may read
  ContinuousRate, \* get_continuous_rate, in parts of Whole
  Whole,          \* 100%
  YearBlocks,     \* blocks per year; a block is a second here
  MaxIdle,        \* an emission is at most this late
  MaxAge          \* the rate has reached its end by this age

Fields == <<"infrate", "pools", "token", "interval">>

----------------------------------------------------------------------------
(* Parameters *)

pools_valid(pools) ==
  /\ pools # <<>>
  /\ \A i \in DOMAIN pools : pools[i].name \in Pool /\ pools[i].percent \in 0 .. Whole - 1
  /\ \A i \in 1 .. Len(pools) - 1 : pools[i].name < pools[i + 1].name
  /\ LET auto == {i \in DOMAIN pools : pools[i].percent = 0}
         percent == [i \in DOMAIN pools |-> pools[i].percent] IN
     /\ Cardinality(auto) = 1
     /\ Total(percent) < Whole

infrate_valid(r) == r.start >= r.stop /\ (r.start = r.stop => r.narrowing = 0)

valid(field, value) ==
  CASE field = "pools"    -> pools_valid(value)
    [] field = "infrate"  -> infrate_valid(value)
    [] field = "interval" -> value > 0
    [] field = "token"    -> TRUE

differs(field, old, new) == old # new

Setter == INSTANCE Params WITH Immutable <- {}

ASSUME BoundsAssumption ==
  /\ Pool \subseteq Int
  /\ Supplies \subseteq Nat
  /\ Whole \in Nat \ {0} /\ YearBlocks \in Nat \ {0}
  /\ MaxIdle \in Nat /\ MaxAge \in Nat
  /\ NoState \notin [start_age : 0 .. MaxAge, emit_age : 0 .. MaxIdle, active : BOOLEAN]

\* Values that batches have for a field
Values(f) ==
  UNION {{b[i].value : i \in {j \in DOMAIN b : b[j].field = f}} : b \in Batches}

ParamsType == [infrate : Values("infrate"), pools : Values("pools"),
               token : Values("token"), interval : Values("interval")]

\* Batches are vectors of the variant, and pools are a vector.  Negative
\* inflation does not exist, intervals fit the bound on idleness, and the rate no
\* longer narrows at the age where age stops counting.
ASSUME BatchesAssumption ==
  /\ NoParams \notin ParamsType
  /\ \A b \in Batches :
      /\ Len(b) \in Nat /\ DOMAIN b = 1 .. Len(b)
      /\ \A i \in DOMAIN b :
           /\ b[i].field \in {"infrate", "pools", "token", "interval"}
           /\ b[i].field = "interval" => b[i].value \in 0 .. MaxIdle
           /\ b[i].field = "pools" =>
                /\ Len(b[i].value) \in Nat
                /\ DOMAIN b[i].value = 1 .. Len(b[i].value)
           /\ b[i].field = "infrate" =>
                /\ b[i].value.stop \in Nat /\ b[i].value.start \in Nat
                /\ b[i].value.narrowing \in Nat
                /\ b[i].value.narrowing > 0 =>
                     b[i].value.start - MaxAge \div b[i].value.narrowing <= b[i].value.stop

\* The logarithm of a rate that is not negative is not negative either.
ASSUME RatesAssumption ==
  \A r \in Values("infrate") : \A x \in r.stop .. r.start : ContinuousRate[x] \in Nat

----------------------------------------------------------------------------
VARIABLES
  params,     \* emitparams singleton
  state,      \* state singleton, with ages in place of times
  pending,    \* external: deferred emit transactions, sender id -> delay
  issued,     \* history: the last emission and what each pool got of it
  owed,       \* history: seconds since the first start not yet emitted for
  strained    \* history: why the chain may be broken

vars == <<params, state, pending, issued, owed, strained>>

started == state # NoState
active == started /\ state.active

Init ==
  /\ params = NoParams
  /\ state = NoState
  /\ pending = EmptyTable
  /\ issued = [total |-> 0, percents |-> EmptyTable, shares |-> EmptyTable]
  /\ owed = 0
  /\ strained = FALSE

\* Raising the interval, or a narrowing of zero, is what breaks a chain.
setparams(batch) ==
  /\ Setter!accepted(params # NoParams, params, batch)
  /\ params' = Setter!set_parameters(params # NoParams, params, batch)
  /\ strained' = \/ strained \/ params'.infrate.narrowing = 0
                 \/ params # NoParams /\ params'.interval > params.interval
  /\ UNCHANGED <<state, pending, issued, owed>>

\* Sent without replace: aborts while one of this sender id is waiting.
may_schedule(sent) == params.token \notin DOMAIN sent

\* Mutant of schedule_next: nothing is sent.
send_nothing(sent, delay) == sent

schedule_next(sent, delay) == Put(sent, params.token, delay)

\* Mutant of start_state: forgets the time the emission was stopped for.
start_afresh ==
  [start_age |-> IF started THEN state.start_age ELSE 0,
   emit_age |-> params.interval, active |-> TRUE]

\* get_or_create: the ages of an existing state go on.
start_state ==
  IF started THEN [state EXCEPT !.active = TRUE]
  ELSE [start_age |-> 0, emit_age |-> params.interval, active |-> TRUE]

\* Mutant of start_delay: the first emission after a stop is due at once.
no_delay == 0

start_delay ==
  IF start_state.emit_age < params.interval
  THEN params.interval - start_state.emit_age ELSE 0

start ==
  /\ params # NoParams /\ ~active
  /\ may_schedule(pending)
  /\ state' = start_state
  /\ pending' = schedule_next(pending, start_delay)
  /\ owed' = IF started THEN owed ELSE params.interval
  /\ strained' = (params.infrate.narrowing = 0)
  /\ UNCHANGED <<params, issued>>

stop ==
  /\ active
  /\ state' = [state EXCEPT !.active = FALSE]
  /\ pending' = Drop(pending, params.token)
  /\ UNCHANGED <<params, issued, owed, strained>>

too_early == state.emit_age < params.interval

inf_rate ==
  LET narrowed == state.start_age \div params.infrate.narrowing
      linear   == params.infrate.start - narrowed IN
  ContinuousRate[IF linear > params.infrate.stop THEN linear ELSE params.infrate.stop]

new_tokens(supply) ==
  (supply * inf_rate * state.emit_age) \div (YearBlocks * Whole)

\* Mutant of reward: takes the percent of what is left, not of the total.
reward_of_rest(total, i) ==
  LET first[j \in 0 .. Len(params.pools)] ==
        IF j = 0 THEN 0
        ELSE first[j - 1] + ((total - first[j - 1]) * params.pools[j].percent) \div Whole
  IN ((total - first[i - 1]) * params.pools[i].percent) \div Whole

reward(total, i) == (total * params.pools[i].percent) \div Whole

\* The pool of 0% gets what the others leave; nothing is sent of zero.
shares(total) ==
  LET part == [i \in DOMAIN params.pools |-> reward(total, i)]
      rest == total - Total(part) IN
  [n \in {params.pools[i].name : i \in DOMAIN params.pools} |->
     LET i == CHOOSE j \in DOMAIN params.pools : params.pools[j].name = n IN
     IF params.pools[i].percent = 0 THEN rest ELSE part[i]]

percents ==
  [n \in {params.pools[i].name : i \in DOMAIN params.pools} |->
     params.pools[CHOOSE j \in DOMAIN params.pools : params.pools[j].name = n].percent]

\* Any abort: inactive, too early, a division by zero or a sender id in use
emit_aborts(sent) ==
  \/ ~active
  \/ too_early \/ params.infrate.narrowing = 0
  \/ ~may_schedule(sent)

emit(sent) ==
  /\ ~emit_aborts(sent)
  /\ \E supply \in Supplies :
       issued' = IF new_tokens(supply) > 0
                 THEN [total |-> new_tokens(supply), percents |-> percents,
                       shares |-> shares(new_tokens(supply))]
                 ELSE issued
  /\ state' = [state EXCEPT !.emit_age = 0]
  /\ pending' = schedule_next(sent, params.interval)
  /\ owed' = owed - state.emit_age
  /\ strained' = FALSE
  /\ UNCHANGED params

\* Anyone may call emit.
manual_emit == emit(pending)

\* A deferred transaction is gone once it has run, also when it failed.
deferred_emit(id) ==
  /\ id \in DOMAIN pending /\ pending[id] = 0
  /\ LET sent == Drop(pending, id) IN
     \/ emit(sent)
     \/ /\ emit_aborts(sent)
        /\ pending' = sent
        /\ UNCHANGED <<params, state, issued, owed, strained>>

DeferredLost(id) ==
  /\ id \in DOMAIN pending
  /\ pending' = Drop(pending, id)
  /\ strained' = TRUE
  /\ UNCHANGED <<params, state, issued, owed>>

\* The delay of a deferred transaction runs down with time, and nothing else
\* keeps it from running a second later still.
Tick ==
  /\ started /\ state.emit_age < MaxIdle
  /\ state' = [state EXCEPT !.emit_age = @ + 1,
                            !.start_age = Least(@ + 1, MaxAge)]
  /\ pending' = [id \in DOMAIN pending |-> IF pending[id] > 0 THEN pending[id] - 1 ELSE 0]
  /\ owed' = owed + 1
  /\ UNCHANGED <<params, issued, strained>>

\* Sender ids: the symbols that batches name
Symbols == Values("token")

Next ==
  \/ \E batch \in Batches : setparams(batch)
  \/ start \/ stop \/ manual_emit \/ Tick
  \/ \E id \in Symbols : deferred_emit(id) \/ DeferredLost(id)

\* Time passes and the chain executes what is due; no user has to act.
Fairness ==
  /\ WF_vars(Tick)
  /\ \A id \in Symbols : WF_vars(deferred_emit(id))

Spec == Init /\ [][Next]_vars /\ Fairness

----------------------------------------------------------------------------
(* Properties *)

\* Every stored parameter passes its validate, whatever batches were sent, and
\* every other table keeps its type.
TypeOK ==
  /\ params # NoParams =>
       /\ DOMAIN params = {Fields[i] : i \in DOMAIN Fields}
       /\ \A f \in DOMAIN params : valid(f, params[f])
  /\ started => /\ params # NoParams
                /\ state \in [start_age : 0 .. MaxAge, emit_age : 0 .. MaxIdle,
                              active : BOOLEAN]
  /\ IsTable(pending, Symbols, 0 .. MaxIdle)
  /\ strained \in BOOLEAN

\* While emission is active its next emit is on the way, through any stops,
\* starts and changes of the token and the interval: it is lost only with the
\* deferred transaction, or when the interval was raised behind its back or the
\* narrowing is zero (schedule_next is the only source of the next emit).
ChainAlive == active => DOMAIN pending # {} \/ strained

\* Every second since the first start is emitted for exactly once: what is still
\* to be emitted for is the time since the last emission, the time the contract
\* was stopped for included (emit takes elapsed from prev_emit, which start
\* leaves alone).
EverySecondOnce == started => owed = state.emit_age

\* An emission is handed out to the last token, no pool gets a whole token more
\* or less than its percent, and the pool of 0% no less than the percent the
\* others leave (emit rounds every share down and sends the rest to it).
SplitFair ==
  LET names == DOMAIN issued.shares
      share(n) == issued.shares[n]
      percent(n) == issued.percents[n]
      left == Whole - Total(issued.percents) IN
  issued.total > 0 =>
    /\ Total(issued.shares) = issued.total
    /\ \A n \in names :
         IF percent(n) = 0 THEN share(n) * Whole >= issued.total * left
         ELSE /\ share(n) * Whole <= issued.total * percent(n)
              /\ (share(n) + 1) * Whole > issued.total * percent(n)

\* An active contract emits again, without anybody's help, unless it is stopped
\* or its chain was strained (deferred transactions carry it from one emission
\* to the next).
EmissionContinues ==
  active ~> (~active \/ strained \/ state.emit_age = 0)
=============================================================================
