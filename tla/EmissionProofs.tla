--------------------------- MODULE EmissionProofs ---------------------------
(***************************************************************************)
(* Proofs about golos.emit for any pools, rates and batches of parameters: *)
(* emission keeps a next emit on its way, and counts every second once.    *)
(***************************************************************************)
EXTENDS Emission, SumTheorems

\* All parameters are there, and each came in some batch, under its name.
Known(p) ==
  /\ p = [f \in DOMAIN p |-> p[f]]
  /\ DOMAIN p = {Fields[i] : i \in DOMAIN Fields}
  /\ \A f \in DOMAIN p : \E b \in Batches : \E i \in DOMAIN b :
       b[i].field = f /\ b[i].value = p[f]

FromBatches == params # NoParams => Known(params)

\* A narrowing of zero is never unnoticed while emission is active.
NarrowingKnown == active /\ params.infrate.narrowing = 0 => strained

\* Some emit on its way will not run too early: what it waits for and what has
\* passed make up the interval.
ChainSound ==
  active /\ ~strained =>
    \E id \in DOMAIN pending : pending[id] + state.emit_age >= params.interval

IInv == TypeOK /\ FromBatches /\ NarrowingKnown /\ ChainSound /\ EverySecondOnce

StateType == [start_age : 0 .. MaxAge, emit_age : 0 .. MaxIdle, active : BOOLEAN]

----------------------------------------------------------------------------
(* Parameters *)

\* Parameters that came in batches are usable.
LEMMA ParamsUsable ==
  ASSUME NEW p, Known(p)
  PROVE  /\ p.interval \in 0 .. MaxIdle
         /\ p.token \in Symbols
         /\ p # NoParams
<1>1. {"interval", "token"} \subseteq DOMAIN p
  BY DEF Known, Fields
<1>2. PICK b \in Batches : \E i \in DOMAIN b :
        b[i].field = "interval" /\ b[i].value = p["interval"]
  BY <1>1 DEF Known
<1>3. PICK c \in Batches : \E i \in DOMAIN c :
        c[i].field = "token" /\ c[i].value = p["token"]
  BY <1>1 DEF Known
<1>4. p["interval"] \in 0 .. MaxIdle
  BY <1>2, BatchesAssumption
<1>5. p["token"] \in Symbols
  BY <1>3 DEF Symbols, Values
<1>6. p \in ParamsType
  <2>1. \A f \in DOMAIN p : p[f] \in Values(f)
    BY DEF Known, Values
  <2>2. DOMAIN p = {"infrate", "pools", "token", "interval"}
    BY DEF Known, Fields
  <2> QED BY <2>1, <2>2 DEF Known, ParamsType
<1> QED BY <1>4, <1>5, <1>6, BatchesAssumption

\* A batch that is accepted leaves parameters that are all there, valid, and
\* from some batch.
LEMMA ParamsKept ==
  ASSUME TypeOK, FromBatches, NEW batch \in Batches, setparams(batch)
  PROVE  /\ Known(params')
         /\ \A f \in DOMAIN params' : valid(f, params'[f])
<1>1. /\ Setter!validate_params(batch) /\ Setter!check_duplicates(batch)
      /\ Setter!complete(params # NoParams, batch)
  BY DEF setparams, Setter!accepted, Setter!check_params
<1> DEFINE cameAs(f, x) == \E i \in DOMAIN batch : batch[i].field = f /\ batch[i].value = x
<1>2. \A f, x : cameAs(f, x) => valid(f, x)
  BY <1>1 DEF Setter!validate_params
<1>3. CASE params # NoParams
  <2>1. params' = Setter!updated(params, batch)
    BY <1>3 DEF setparams, Setter!set_parameters
  <2>2. DOMAIN params' = DOMAIN params
    BY <2>1 DEF Setter!updated
  <2>3. \A f \in DOMAIN params : params'[f] = params[f] \/ cameAs(f, params'[f])
    BY <2>1 DEF Setter!updated, Setter!changes
  <2>4. params' = [f \in DOMAIN params' |-> params'[f]]
    BY <2>1, <2>2 DEF Setter!updated
  <2> HIDE DEF cameAs
  <2>5. \A f, x : cameAs(f, x) => \E b \in Batches : \E i \in DOMAIN b : b[i].field = f /\ b[i].value = x
    BY DEF cameAs
  <2>6. Known(params')
    BY <1>3, <2>2, <2>3, <2>4, <2>5 DEF FromBatches, Known
  <2> QED BY <1>2, <1>3, <2>2, <2>3, <2>6 DEF TypeOK
<1>4. CASE params = NoParams
  <2>1. params' = Setter!as_state(batch)
    BY <1>4 DEF setparams, Setter!set_parameters
  <2>2. \A f \in DOMAIN params' : cameAs(f, params'[f])
    BY <2>1 DEF Setter!as_state
  <2>3. DOMAIN params' = {batch[i].field : i \in DOMAIN batch}
    BY <2>1 DEF Setter!as_state
  <2>4. DOMAIN batch = 1 .. 4
    BY <1>1, <1>4, BatchesAssumption DEF Setter!complete, Fields
  <2>5. \A i \in 1 .. 4 : /\ Setter!index(batch[i]) \in 1 .. 4
                          /\ Fields[Setter!index(batch[i])] = batch[i].field
    BY <2>4, BatchesAssumption DEF Setter!index, Fields
  <2>6. /\ Setter!index(batch[1]) < Setter!index(batch[2])
        /\ Setter!index(batch[2]) < Setter!index(batch[3])
        /\ Setter!index(batch[3]) < Setter!index(batch[4])
    BY <1>1, <2>4, BatchesAssumption DEF Setter!check_duplicates
  <2>7. \A i \in 1 .. 4 : Setter!index(batch[i]) = i
    BY <2>5, <2>6
  <2>8. DOMAIN params' = {Fields[i] : i \in DOMAIN Fields}
    BY <2>3, <2>4, <2>5, <2>7 DEF Fields
  <2>9. params' = [f \in DOMAIN params' |-> params'[f]]
    BY <2>1, <2>3 DEF Setter!as_state
  <2> QED BY <1>2, <2>2, <2>8, <2>9 DEF Known
<1> QED BY <1>3, <1>4

----------------------------------------------------------------------------
(* One lemma for each action *)

\* Shorthand for what depends on the parameters' type only
LEMMA StateTyped ==
  ASSUME TypeOK, started
  PROVE  /\ params # NoParams /\ state \in StateType
         /\ state.emit_age \in 0 .. MaxIdle /\ state.start_age \in 0 .. MaxAge
BY DEF TypeOK, StateType

\* A batch that is accepted passed its validate.
LEMMA SetparamsStep ==
  ASSUME IInv, NEW batch \in Batches, setparams(batch)
  PROVE  IInv'
<1>0. Known(params') /\ params' # NoParams
  BY ParamsKept, ParamsUsable DEF IInv
<1>1. TypeOK' /\ FromBatches'
  <2>1. strained' \in BOOLEAN
    BY DEF setparams
  <2>2. \A f \in DOMAIN params' : valid(f, params'[f])
    BY ParamsKept DEF IInv
  <2>3. DOMAIN params' = {Fields[i] : i \in DOMAIN Fields}
    BY <1>0 DEF Known
  <2> QED BY <1>0, <2>1, <2>2, <2>3 DEF IInv, TypeOK, FromBatches, setparams, started, IsTable
<1>2. NarrowingKnown'
  BY DEF setparams, NarrowingKnown
<1>3. ChainSound'
  <2> SUFFICES ASSUME active', ~strained'
               PROVE  \E id \in DOMAIN pending : pending[id] + state.emit_age >= params'.interval
    BY DEF ChainSound, setparams
  <2>1. /\ active /\ ~strained /\ params # NoParams /\ params'.interval <= params.interval
        /\ params'.interval \in Int /\ params.interval \in Int
    <3>1. active /\ started /\ params # NoParams /\ ~strained
      BY DEF setparams, active, started, IInv, TypeOK
    <3>2. params'.interval \in 0 .. MaxIdle /\ params.interval \in 0 .. MaxIdle
      BY <1>0, <3>1, ParamsUsable DEF IInv, FromBatches
    <3>3. ~(params'.interval > params.interval)
      BY <3>1 DEF setparams
    <3> QED BY <3>1, <3>2, <3>3, BoundsAssumption
  <2>2. PICK id \in DOMAIN pending : pending[id] + state.emit_age >= params.interval
    BY <2>1 DEF IInv, ChainSound
  <2>3. pending[id] \in Int /\ state.emit_age \in Int
    BY <2>1, BoundsAssumption, StateTyped DEF IInv, TypeOK, IsTable, active
  <2> QED BY <2>1, <2>2, <2>3
<1>4. EverySecondOnce'
  BY DEF IInv, EverySecondOnce, setparams, started
<1> QED BY <1>1, <1>2, <1>3, <1>4 DEF IInv

\* A start schedules the first emission.
LEMMA StartStep ==
  ASSUME IInv, start
  PROVE  IInv'
<1>1. /\ params # NoParams /\ params.interval \in 0 .. MaxIdle
      /\ params.token \in Symbols
  BY ParamsUsable DEF IInv, FromBatches, start
<1>2. /\ start_state \in StateType /\ start_state.active
      /\ start_state.emit_age = IF started THEN state.emit_age ELSE params.interval
  <2>1. CASE started
    BY <2>1, StateTyped DEF start_state, StateType, IInv
  <2>2. CASE ~started
    BY <1>1, <2>2, BoundsAssumption DEF start_state, StateType
  <2> QED BY <2>1, <2>2
<1>3. /\ start_delay \in 0 .. MaxIdle
      /\ start_delay + start_state.emit_age >= params.interval
  BY <1>1, <1>2, BoundsAssumption, StateTyped DEF start_delay, StateType
<1>4. started' /\ active' /\ state' = start_state /\ pending' = Put(pending, params.token, start_delay)
  BY <1>2, BoundsAssumption DEF start, started, active, schedule_next, StateType
<1>5. TypeOK' /\ FromBatches'
  <2>1. IsTable(pending', Symbols, 0 .. MaxIdle)
    BY <1>1, <1>3, <1>4 DEF IInv, TypeOK, IsTable, Put
  <2>2. strained' \in BOOLEAN
    BY DEF start
  <2> QED BY <1>1, <1>2, <1>4, <2>1, <2>2 DEF IInv, TypeOK, FromBatches, start, StateType
<1>6. NarrowingKnown'
  BY DEF start, NarrowingKnown
<1>7. ChainSound'
  <2>1. params.token \in DOMAIN pending' /\ pending'[params.token] = start_delay
    BY <1>4 DEF Put
  <2>2. params' = params
    BY DEF start
  <2> QED BY <1>3, <1>4, <2>1, <2>2 DEF ChainSound
<1>8. EverySecondOnce'
  BY <1>2, <1>4 DEF IInv, EverySecondOnce, start
<1> QED BY <1>5, <1>6, <1>7, <1>8 DEF IInv

\* A stop cancels the one that waits.
LEMMA StopStep ==
  ASSUME IInv, stop
  PROVE  IInv'
<1>1. started /\ params # NoParams /\ state \in StateType
  BY StateTyped DEF stop, active, IInv
<1>2. /\ state' = [state EXCEPT !.active = FALSE] /\ params' = params
      /\ state' \in StateType /\ ~state'.active /\ state'.emit_age = state.emit_age
  BY <1>1 DEF stop, StateType
<1>3. started' /\ ~active'
  BY <1>2, BoundsAssumption DEF started, active, StateType
<1>4. IsTable(pending', Symbols, 0 .. MaxIdle)
  BY DEF stop, IInv, TypeOK, IsTable, Drop
<1> QED BY <1>1, <1>2, <1>3, <1>4
        DEF stop, IInv, TypeOK, FromBatches, NarrowingKnown, ChainSound, EverySecondOnce,
            StateType

\* What holds of an emission also when the transaction that makes it has left
\* the table: nothing of the table matters but its type.
LEMMA EmitStep ==
  ASSUME IInv, NEW sent, IsTable(sent, Symbols, 0 .. MaxIdle), emit(sent)
  PROVE  IInv'
<1>1. /\ started /\ active /\ params # NoParams /\ params.infrate.narrowing # 0
      /\ params' = params /\ ~strained' /\ strained' \in BOOLEAN
  BY DEF emit, emit_aborts, active, IInv, TypeOK
<1>2. /\ params.interval \in 0 .. MaxIdle /\ params.token \in Symbols
  BY <1>1, ParamsUsable DEF IInv, FromBatches
<1>3. /\ state \in StateType
      /\ state' = [state EXCEPT !.emit_age = 0]
  BY <1>1, StateTyped DEF emit, IInv
<1>4. /\ state' \in StateType /\ state'.active /\ state'.emit_age = 0
  BY <1>1, <1>3, BoundsAssumption DEF StateType, active
<1>5. started' /\ active'
  BY <1>4, BoundsAssumption DEF started, active, StateType
<1>6. pending' = Put(sent, params.token, params.interval)
  BY DEF emit, schedule_next
<1>7. IsTable(pending', Symbols, 0 .. MaxIdle)
  BY <1>2, <1>6 DEF IsTable, Put
<1>8. ChainSound'
  <2>1. params.token \in DOMAIN pending' /\ pending'[params.token] = params.interval
    BY <1>6 DEF Put
  <2> QED BY <1>1, <1>2, <1>4, <2>1 DEF ChainSound
<1>9. EverySecondOnce'
  <2>1. owed = state.emit_age /\ state.emit_age \in Int /\ owed' = owed - state.emit_age
    BY <1>1, <1>3, BoundsAssumption DEF IInv, EverySecondOnce, emit, StateType
  <2> QED BY <1>4, <2>1 DEF EverySecondOnce
<1>10. TypeOK' /\ FromBatches' /\ NarrowingKnown'
  BY <1>1, <1>4, <1>7 DEF IInv, TypeOK, FromBatches, NarrowingKnown, StateType
<1> QED BY <1>8, <1>9, <1>10 DEF IInv

\* A table without a row is still a table.
LEMMA DroppedTable ==
  ASSUME NEW t, NEW id, IsTable(t, Symbols, 0 .. MaxIdle)
  PROVE  IsTable(Drop(t, id), Symbols, 0 .. MaxIdle)
BY DEF IsTable, Drop

\* A deferred emit that fails while emission is active leaves another one.
LEMMA FailedEmitStep ==
  ASSUME IInv, NEW id \in DOMAIN pending, pending[id] = 0,
         emit_aborts(Drop(pending, id)), pending' = Drop(pending, id),
         UNCHANGED <<params, state, issued, owed, strained>>
  PROVE  IInv'
<1>1. ChainSound'
  <2> SUFFICES ASSUME active, ~strained
               PROVE  \E o \in DOMAIN pending' : pending'[o] + state.emit_age >= params.interval
    BY DEF ChainSound, active, started
  <2>1. PICK o \in DOMAIN pending : pending[o] + state.emit_age >= params.interval
    BY DEF IInv, ChainSound
  <2>2. CASE o # id
    BY <2>1, <2>2 DEF Drop
  <2>3. CASE o = id
    <3>1. /\ started /\ params # NoParams /\ state.emit_age \in 0 .. MaxIdle
      BY StateTyped DEF active, IInv
    <3>2. params.interval \in 0 .. MaxIdle
      BY <3>1, ParamsUsable DEF IInv, FromBatches
    <3>3. params.infrate.narrowing # 0
      BY DEF IInv, NarrowingKnown
    <3>4. params.interval <= state.emit_age /\ ~too_early
      BY <2>1, <2>3, <3>1, <3>2, BoundsAssumption DEF too_early
    <3>5. params.token \in DOMAIN Drop(pending, id)
      BY <3>3, <3>4 DEF emit_aborts, may_schedule
    <3>6. /\ params.token \in DOMAIN pending'
          /\ pending'[params.token] \in 0 .. MaxIdle
      BY <3>5, DroppedTable DEF IInv, TypeOK, IsTable
    <3> QED BY <3>1, <3>2, <3>4, <3>6, BoundsAssumption
  <2> QED BY <2>2, <2>3
<1>2. TypeOK'
  BY DroppedTable DEF IInv, TypeOK, started
<1> QED BY <1>1, <1>2 DEF IInv, FromBatches, NarrowingKnown, EverySecondOnce, started, active

\* A deferred emit has left the table when it runs.
LEMMA DeferredStep ==
  ASSUME IInv, NEW id \in Symbols, deferred_emit(id)
  PROVE  IInv'
<1>1. IsTable(Drop(pending, id), Symbols, 0 .. MaxIdle)
  BY DroppedTable DEF IInv, TypeOK
<1>2. CASE emit(Drop(pending, id))
  BY <1>1, <1>2, EmitStep
<1>3. CASE ~emit(Drop(pending, id))
  BY <1>3, FailedEmitStep DEF deferred_emit
<1> QED BY <1>2, <1>3

\* A loss strains the chain.
LEMMA LostStep ==
  ASSUME IInv, NEW id \in Symbols, DeferredLost(id)
  PROVE  IInv'
BY DroppedTable DEF DeferredLost, IInv, TypeOK, FromBatches, NarrowingKnown, ChainSound,
                    EverySecondOnce, started, active

\* Delays run down while the ages grow.
LEMMA TickStep ==
  ASSUME IInv, Tick
  PROVE  IInv'
<1>1. /\ started /\ params # NoParams /\ state \in StateType
      /\ state.emit_age \in 0 .. MaxIdle /\ state.start_age \in 0 .. MaxAge
      /\ state.emit_age < MaxIdle
  BY StateTyped DEF Tick, IInv
<1>2. Least(state.start_age + 1, MaxAge) \in 0 .. MaxAge
  BY <1>1, BoundsAssumption DEF Least
<1>3. /\ state' \in StateType /\ state'.emit_age = state.emit_age + 1
      /\ state'.active = state.active /\ params' = params /\ strained' = strained
  <2>1. state' = [state EXCEPT !.emit_age = @ + 1,
                               !.start_age = Least(state.start_age + 1, MaxAge)]
    BY DEF Tick
  <2>2. state.emit_age + 1 \in 0 .. MaxIdle
    BY <1>1, BoundsAssumption
  <2> QED BY <1>1, <1>2, <2>1, <2>2 DEF Tick, StateType
<1>4. started' /\ (active' <=> active)
  BY <1>1, <1>3, BoundsAssumption DEF started, active, StateType
<1>5. /\ DOMAIN pending' = DOMAIN pending
      /\ \A id \in DOMAIN pending : /\ pending[id] \in 0 .. MaxIdle
                                    /\ pending'[id] = IF pending[id] > 0 THEN pending[id] - 1 ELSE 0
  BY DEF Tick, IInv, TypeOK, IsTable
<1>6. IsTable(pending', Symbols, 0 .. MaxIdle)
  <2>1. \A id \in DOMAIN pending : pending'[id] \in 0 .. MaxIdle
    BY <1>5, BoundsAssumption
  <2>2. pending' = [id \in DOMAIN pending' |-> pending'[id]]
    BY DEF Tick
  <2>3. DOMAIN pending \subseteq Symbols
    BY DEF IInv, TypeOK, IsTable
  <2> QED BY <1>5, <2>1, <2>2, <2>3 DEF IsTable
<1>7. ChainSound'
  <2> SUFFICES ASSUME active, ~strained
               PROVE  \E id \in DOMAIN pending' : pending'[id] + state'.emit_age >= params.interval
    BY <1>3, <1>4 DEF ChainSound
  <2>1. PICK id \in DOMAIN pending : pending[id] + state.emit_age >= params.interval
    BY DEF IInv, ChainSound
  <2>2. params.interval \in 0 .. MaxIdle
    BY <1>1, ParamsUsable DEF IInv, FromBatches
  <2> QED BY <1>1, <1>3, <1>5, <2>1, <2>2, BoundsAssumption
<1>8. EverySecondOnce'
  BY <1>1, <1>3 DEF IInv, EverySecondOnce, Tick
<1>9. TypeOK' /\ FromBatches' /\ NarrowingKnown'
  BY <1>1, <1>3, <1>4, <1>6 DEF IInv, TypeOK, FromBatches, NarrowingKnown, StateType
<1> QED BY <1>7, <1>8, <1>9 DEF IInv

----------------------------------------------------------------------------
(* How an emission is shared *)

\* What pools_valid knows of neighbours holds of all: no two pools have a name
\* in common.
LEMMA NamesDiffer ==
  ASSUME NEW pools, pools_valid(pools), Len(pools) \in Nat,
         DOMAIN pools = 1 .. Len(pools)
  PROVE  \A i, j \in DOMAIN pools : pools[i].name = pools[j].name => i = j
<1> DEFINE n == Len(pools)
           name(i) == pools[i].name
<1>1. /\ \A i \in 1 .. n : name(i) \in Int
      /\ \A i \in 1 .. n - 1 : name(i) < name(i + 1)
  BY BoundsAssumption DEF pools_valid
<1>2. ASSUME NEW i \in 1 .. n, NEW k \in 1 .. n, i < k, ~(name(i) < name(k))
      PROVE  FALSE
  <2> DEFINE B == {j \in 1 .. n : i < j /\ ~(name(i) < name(j))}
             C == {i .. j : j \in B}
  <2>1. C # {} /\ \A S \in C : IsFiniteSet(S)
    <3>1. k \in B
      BY <1>2
    <3>2. \A j \in B : IsFiniteSet(i .. j)
      <4>1. \A j \in B : i \in Int /\ j \in Int
        OBVIOUS
      <4> HIDE DEF B
      <4> QED BY <4>1, FS_Interval
    <3> HIDE DEF B
    <3> QED BY <3>1, <3>2
  <2>2. PICK S \in C : \A T \in C : ~(T \subseteq S /\ T # S)
    <3> HIDE DEF C
    <3> QED BY <2>1, SmallestSet
  <2>3. PICK j \in B : S = i .. j
    OBVIOUS
  <2>4. j - 1 \in 1 .. n - 1 /\ j - 1 \in 1 .. n /\ (j - 1) + 1 = j /\ i <= j - 1
    BY <2>3
  <2>5. j - 1 \notin B
    <3>1. j \in i .. j /\ j \notin i .. j - 1 /\ i .. j - 1 \subseteq i .. j
      BY <2>3
    <3>2. j - 1 \in B => i .. j - 1 \in C
      OBVIOUS
    <3> HIDE DEF C, B
    <3> QED BY <2>2, <2>3, <3>1, <3>2
  <2>6. name(j - 1) < name(j)
    BY <1>1, <2>4
  <2>7. name(i) <= name(j - 1)
    <3>1. CASE i = j - 1
      BY <1>1, <3>1
    <3>2. CASE i < j - 1
      BY <1>1, <2>4, <2>5, <3>2
    <3> QED BY <2>4, <3>1, <3>2
  <2>8. name(i) < name(j)
    BY <1>1, <2>3, <2>4, <2>6, <2>7
  <2> QED BY <2>3, <2>8
<1>3. ASSUME NEW i \in 1 .. n, NEW j \in 1 .. n, name(i) = name(j), i # j PROVE FALSE
  <2>1. i < j \/ j < i
    BY <1>3
  <2>2. ~(name(i) < name(j)) /\ ~(name(j) < name(i))
    BY <1>1, <1>3
  <2> QED BY <1>2, <2>1, <2>2
<1> QED BY <1>3

\* Rounding down loses less than one.
LEMMA RoundedDown ==
  ASSUME NEW a \in Nat, NEW b \in Nat, b > 0
  PROVE  LET q == a \div b IN
         q \in Nat /\ q * b <= a /\ (q + 1) * b > a /\ q * b = b * q
<1>1. (a \div b) \in Nat /\ b * (a \div b) <= a /\ a < b * (a \div b) + b
  <2>1. a = b * (a \div b) + (a % b) /\ a % b \in 0 .. b - 1 /\ a \div b \in Nat
    OBVIOUS
  <2> DEFINE q == a \div b
             r == a % b
             p == b * q
  <2>2. p \in Nat
    BY <2>1
  <2>3. a = p + r /\ r \in 0 .. b - 1 /\ q \in Nat
    BY <2>1
  <2> HIDE DEF q, r, p
  <2>4. p <= a /\ a < p + b
    BY <2>2, <2>3
  <2> QED BY <2>3, <2>4 DEF p, q
<1> DEFINE q == a \div b
<1>2. q \in Nat
  BY <1>1
<1> HIDE DEF q
<1>3. q * b = b * q /\ (q + 1) * b = b * q + b
  BY <1>2
<1> QED BY <1>1, <1>3 DEF q

\* What was installed as pools came in a batch and passed its validate.
LEMMA PoolsUsable ==
  ASSUME IInv, params # NoParams
  PROVE  /\ pools_valid(params.pools) /\ Len(params.pools) \in Nat
         /\ DOMAIN params.pools = 1 .. Len(params.pools)
<1>1. /\ Known(params) /\ "pools" \in DOMAIN params
      /\ \A f \in DOMAIN params : valid(f, params[f])
  BY DEF IInv, TypeOK, FromBatches, Known, Fields
<1>2. PICK b \in Batches : \E i \in DOMAIN b :
        b[i].field = "pools" /\ b[i].value = params["pools"]
  BY <1>1 DEF Known
<1>3. Len(params["pools"]) \in Nat /\ DOMAIN params["pools"] = 1 .. Len(params["pools"])
  BY <1>2, BatchesAssumption
<1>4. pools_valid(params["pools"])
  BY <1>1 DEF valid
<1> QED BY <1>3, <1>4

\* Exactly one pool takes the rest, and it takes all of it: the shares add up,
\* and each is its percent rounded down, or the rest.
LEMMA HandedOut ==
  ASSUME IInv, params # NoParams, NEW total \in Nat
  PROVE  LET s == shares(total)
             p == percents IN
         /\ Total(s) = total
         /\ \A n \in DOMAIN s :
              IF p[n] = 0 THEN s[n] * Whole >= total * (Whole - Total(p))
              ELSE s[n] * Whole <= total * p[n] /\ (s[n] + 1) * Whole > total * p[n]
<1> DEFINE pools == params.pools
           D == DOMAIN pools
           name == [i \in D |-> pools[i].name]
           pct == [i \in D |-> pools[i].percent]
           part == [i \in D |-> reward(total, i)]
           rest == total - Total(part)
           got == [i \in D |-> IF pct[i] = 0 THEN rest ELSE part[i]]
           s == shares(total)
           p == percents
<1>1. /\ pools_valid(pools) /\ D = 1 .. Len(pools) /\ Len(pools) \in Nat
      /\ \A i, j \in D : name[i] = name[j] => i = j
  BY PoolsUsable, NamesDiffer
<1>2. IsFiniteSet(D) /\ Whole \in Nat \ {0}
  <2>1. Whole \in Nat \ {0}
    BY BoundsAssumption, Zenon
  <2>2. 1 \in Int /\ Len(pools) \in Int
    BY <1>1
  <2>3. IsFiniteSet(1 .. Len(pools))
    BY <2>2, FS_Interval
  <2> QED BY <1>1, <2>1, <2>3
<1>3. \A i \in D : pct[i] \in Nat
  BY <1>1, <1>2 DEF pools_valid
<1>4. PICK a \in D : pct[a] = 0 /\ \A i \in D \ {a} : pct[i] # 0
  <2> DEFINE auto == {i \in D : pools[i].percent = 0}
  <2>1. Cardinality(auto) = 1 /\ IsFiniteSet(auto)
    BY <1>1, <1>2, FS_Subset DEF pools_valid
  <2>2. \E x : auto = {x}
    <3> HIDE DEF auto
    <3> QED BY <2>1, FS_Singleton
  <2> QED BY <2>2
<1>5. ASSUME NEW i \in D
      PROVE  /\ part[i] \in Nat /\ Whole * part[i] = part[i] * Whole
             /\ part[i] * Whole <= total * pct[i]
             /\ (part[i] + 1) * Whole > total * pct[i]
             /\ total * pct[i] \in Nat
             /\ pct[i] = 0 => part[i] = 0
  <2>1. part[i] = (total * pct[i]) \div Whole
    BY DEF reward
  <2>2. total * pct[i] \in Nat
    <3>1. pct[i] \in Nat
      BY <1>3
    <3> HIDE DEF pct
    <3> QED BY <3>1
  <2> DEFINE q == total * pct[i]
             k == part[i]
  <2>3. q \in Nat /\ k = q \div Whole /\ Whole \in Nat /\ Whole > 0
    BY <1>2, <2>1, <2>2
  <2>4. pct[i] = 0 => q = 0
    OBVIOUS
  <2> HIDE DEF q, k
  <2>5. k \in Nat /\ k * Whole <= q /\ (k + 1) * Whole > q /\ k * Whole = Whole * k
    BY <2>3, RoundedDown
  <2>6. q = 0 => k = 0
    BY <2>3
  <2> QED BY <2>3, <2>4, <2>5, <2>6 DEF q, k
<1>6. /\ DOMAIN name = D /\ DOMAIN pct = D /\ DOMAIN part = D /\ DOMAIN got = D
      /\ \A i \in D : got[i] = IF pct[i] = 0 THEN rest ELSE part[i]
  OBVIOUS
<1>7. /\ DOMAIN s = {name[i] : i \in D} /\ DOMAIN p = {name[i] : i \in D}
      /\ \A i \in D : s[name[i]] = got[i] /\ p[name[i]] = pct[i]
  <2>1. ASSUME NEW i \in D PROVE (CHOOSE j \in D : pools[j].name = name[i]) = i
    <3>1. \A j \in D : pools[j].name = name[i] <=> j = i
      BY <1>1, <2>1
    <3> QED BY <3>1, <2>1
  <2>2. \A i \in D : s[name[i]] = got[i]
    BY <2>1 DEF shares
  <2>3. ASSUME NEW i \in D PROVE p[name[i]] = pct[i]
    <3>1. name[i] \in {pools[j].name : j \in D}
      OBVIOUS
    <3>2. p[name[i]] = pools[CHOOSE j \in D : pools[j].name = name[i]].percent
      <4> DEFINE k == name[i]
      <4>1. k \in {pools[j].name : j \in D}
        BY <3>1
      <4> HIDE DEF k
      <4>2. p[k] = pools[CHOOSE j \in D : pools[j].name = k].percent
        BY <4>1 DEF percents
      <4> QED BY <4>2 DEF k
    <3>3. (CHOOSE j \in D : pools[j].name = name[i]) = i
      BY <2>1
    <3> QED BY <3>2, <3>3
  <2>4. {name[i] : i \in D} = {pools[i].name : i \in D}
    OBVIOUS
  <2>5. DOMAIN s = {pools[i].name : i \in D}
    BY DEF shares
  <2>6. DOMAIN p = {pools[i].name : i \in D}
    BY DEF percents
  <2> QED BY <2>2, <2>3, <2>4, <2>5, <2>6
<1> HIDE DEF name, pct, part, got, s, p, D
<1>8. /\ SumOver(part, D) \in Int /\ rest \in Int /\ Total(part) = SumOver(part, D)
      /\ SumOver(pct, D) \in Int
  <2>1. \A i \in D : part[i] \in Int /\ pct[i] \in Int
    BY <1>3, <1>5
  <2>2. SumOver(part, D) \in Int /\ SumOver(pct, D) \in Int
    BY <1>2, <2>1, SumInt
  <2> QED BY <1>6, <2>2 DEF Total
<1>9. Total(s) = SumOver(got, D)
  <2>1. \A i \in D : got[i] \in Int /\ s[name[i]] = got[i]
    BY <1>5, <1>6, <1>7, <1>8
  <2>2. IsFiniteSet(D) /\ \A i, j \in D : name[i] = name[j] => i = j
    BY <1>1, <1>2
  <2>3. SumOver(s, {name[i] : i \in D}) = SumOver(got, D)
    BY <2>1, <2>2, SumRenamed
  <2> QED BY <1>7, <2>3 DEF Total
<1>10. Total(p) = SumOver(pct, D)
  <2>1. \A i \in D : pct[i] \in Int /\ p[name[i]] = pct[i]
    BY <1>3, <1>7
  <2>2. IsFiniteSet(D) /\ \A i, j \in D : name[i] = name[j] => i = j
    BY <1>1, <1>2
  <2>3. SumOver(p, {name[i] : i \in D}) = SumOver(pct, D)
    BY <2>1, <2>2, SumRenamed
  <2> QED BY <1>7, <2>3 DEF Total
<1>11. Total(s) = total
  <2>1. \A i \in D : part[i] \in Int /\ got[i] \in Int
    BY <1>5, <1>6, <1>8
  <2>2. \A i \in D \ {a} : got[i] = part[i]
    BY <1>4, <1>6
  <2>3. SumOver(got, D) = SumOver(part, D) + got[a] - part[a]
    BY <1>2, <1>4, <2>1, <2>2, SumChange
  <2>4. got[a] = rest /\ part[a] = 0
    BY <1>4, <1>5, <1>6
  <2> QED BY <1>8, <1>9, <2>3, <2>4
<1>12. SumOver(part, D) * Whole <= total * SumOver(pct, D)
  <2> DEFINE low == [i \in D |-> Whole * part[i]]
             high == [i \in D |-> total * pct[i]]
  <2>1. /\ \A i \in D : low[i] = Whole * part[i] /\ part[i] \in Int
        /\ \A i \in D : high[i] = total * pct[i] /\ pct[i] \in Int
        /\ \A i \in D : low[i] \in Int /\ high[i] \in Int /\ low[i] <= high[i]
    BY <1>2, <1>3, <1>5
  <2> HIDE DEF low, high
  <2>2. SumOver(low, D) = Whole * SumOver(part, D)
    BY <1>2, <2>1, SumScale
  <2>3. SumOver(high, D) = total * SumOver(pct, D)
    BY <1>2, <2>1, SumScale
  <2>4. SumOver(low, D) <= SumOver(high, D)
    BY <1>2, <2>1, SumAtMost
  <2>5. Whole * SumOver(part, D) = SumOver(part, D) * Whole
    BY <1>2, <1>8
  <2> QED BY <2>2, <2>3, <2>4, <2>5
<1>13. rest * Whole >= total * (Whole - Total(p))
  <2> DEFINE x == SumOver(part, D)
             y == SumOver(pct, D)
  <2>1. ASSUME NEW X \in Int, NEW Y \in Int, NEW t \in Int, NEW W \in Int,
               X * W <= t * Y
        PROVE  (t - X) * W >= t * (W - Y)
    <3>1. (t - X) * W = t * W - X * W /\ t * (W - Y) = t * W - t * Y
      OBVIOUS
    <3>2. t * W \in Int /\ X * W \in Int /\ t * Y \in Int
      OBVIOUS
    <3> QED BY <2>1, <3>1, <3>2
  <2> QED BY <1>2, <1>8, <1>10, <1>12, <2>1
<1>14. ASSUME NEW n \in DOMAIN s
       PROVE  IF p[n] = 0 THEN s[n] * Whole >= total * (Whole - Total(p))
              ELSE s[n] * Whole <= total * p[n] /\ (s[n] + 1) * Whole > total * p[n]
  <2>1. PICK i \in D : n = name[i]
    BY <1>7
  <2>2. /\ s[n] = (IF pct[i] = 0 THEN rest ELSE part[i]) /\ p[n] = pct[i]
    BY <1>6, <1>7, <2>1
  <2> QED BY <1>5, <1>13, <2>2
<1> QED BY <1>11, <1>14 DEF s, p

\* What is emitted is a number of tokens: the rate comes from parameters that
\* were validated, and time does not run backwards.
LEMMA NewTokensNat ==
  ASSUME IInv, started, params.infrate.narrowing # 0, NEW supply \in Supplies
  PROVE  new_tokens(supply) \in Nat
<1>1. params # NoParams /\ state \in StateType
  BY StateTyped DEF IInv, TypeOK
<1>2. /\ Known(params) /\ "infrate" \in DOMAIN params
      /\ \A f \in DOMAIN params : valid(f, params[f])
  BY <1>1 DEF IInv, TypeOK, FromBatches, Known, Fields
<1>3. PICK b \in Batches : \E i \in DOMAIN b :
        b[i].field = "infrate" /\ b[i].value = params["infrate"]
  BY <1>2 DEF Known
<1> DEFINE r == params.infrate
<1>4. /\ r.stop \in Nat /\ r.start \in Nat /\ r.narrowing \in Nat \ {0}
      /\ r \in Values("infrate") /\ r.start >= r.stop
  <2>1. r.start >= r.stop
    BY <1>2 DEF valid, infrate_valid
  <2>2. r \in Values("infrate")
    BY <1>3 DEF Values
  <2>3. r.stop \in Nat /\ r.start \in Nat /\ r.narrowing \in Nat
    BY <1>3, BatchesAssumption
  <2> QED BY <2>1, <2>2, <2>3
<1>5. state.start_age \in Nat /\ state.emit_age \in Nat
  BY <1>1, BoundsAssumption DEF StateType
<1> DEFINE narrowed == state.start_age \div r.narrowing
           x == IF r.start - narrowed > r.stop THEN r.start - narrowed ELSE r.stop
<1>6. narrowed \in Nat
  BY <1>4, <1>5
<1>7. x \in r.stop .. r.start
  <2> HIDE DEF narrowed, r
  <2> QED BY <1>4, <1>6
<1>8. inf_rate \in Nat
  BY <1>4, <1>7, RatesAssumption DEF inf_rate
<1>9. supply \in Nat /\ YearBlocks \in Nat \ {0} /\ Whole \in Nat \ {0}
  BY BoundsAssumption, SMT
<1>10. ASSUME NEW k \in Nat, NEW m \in Nat, NEW n \in Nat, NEW y \in Nat \ {0},
              NEW w \in Nat \ {0}
       PROVE  (k * m * n) \div (y * w) \in Nat
  <2>1. k * m * n \in Nat /\ y * w \in Nat \ {0}
    <3>1. k * m \in Nat
      OBVIOUS
    <3> QED BY <3>1
  <2> DEFINE top == k * m * n
             low == y * w
  <2>2. top \in Nat /\ low \in Nat \ {0}
    BY <2>1
  <2> HIDE DEF top, low
  <2>3. top \div low \in Nat
    BY <2>2
  <2> QED BY <2>3 DEF top, low
<1> QED BY <1>5, <1>8, <1>9, <1>10 DEF new_tokens

\* Only a successful emit records an emission, and it records what it issued.
LEMMA SplitStep ==
  ASSUME IInv, SplitFair, [Next]_vars
  PROVE  SplitFair'
<1>1. CASE issued' = issued
  BY <1>1 DEF SplitFair
<1>2. CASE issued' # issued
  <2>1. PICK supply \in Supplies :
          /\ active /\ params.infrate.narrowing # 0
          /\ new_tokens(supply) > 0
          /\ issued' = [total |-> new_tokens(supply), percents |-> percents,
                        shares |-> shares(new_tokens(supply))]
    BY <1>2 DEF Next, vars, setparams, start, stop, manual_emit, deferred_emit, emit,
                emit_aborts, DeferredLost, Tick
  <2>2. params # NoParams /\ started
    BY <2>1 DEF active, IInv, TypeOK
  <2>3. new_tokens(supply) \in Nat
    BY <2>1, <2>2, NewTokensNat
  <2>4. LET s == shares(new_tokens(supply))
            p == percents IN
        /\ Total(s) = new_tokens(supply)
        /\ \A n \in DOMAIN s :
             IF p[n] = 0
             THEN s[n] * Whole >= new_tokens(supply) * (Whole - Total(p))
             ELSE /\ s[n] * Whole <= new_tokens(supply) * p[n]
                  /\ (s[n] + 1) * Whole > new_tokens(supply) * p[n]
    BY <2>2, <2>3, HandedOut
  <2>5. /\ issued'.total = new_tokens(supply) /\ issued'.percents = percents
        /\ issued'.shares = shares(new_tokens(supply))
    BY <2>1
  <2> QED BY <2>4, <2>5 DEF SplitFair
<1> QED BY <1>1, <1>2

----------------------------------------------------------------------------
(* Theorems *)

\* The invariant of emission holds in every reachable state: its parameters are
\* valid, its chain alive or strained and its seconds accounted for.
THEOREM Inductive == Spec => []IInv
<1>1. Init => IInv
  BY BoundsAssumption DEF Init, IInv, TypeOK, FromBatches, NarrowingKnown, ChainSound,
        EverySecondOnce, started, active, IsTable, EmptyTable
<1>2. IInv /\ [Next]_vars => IInv'
  <2> SUFFICES ASSUME IInv, [Next]_vars PROVE IInv'
    OBVIOUS
  <2>1. CASE \E batch \in Batches : setparams(batch)
    BY <2>1, SetparamsStep
  <2>2. CASE start
    BY <2>2, StartStep
  <2>3. CASE stop
    BY <2>3, StopStep
  <2>4. CASE manual_emit
    BY <2>4, EmitStep DEF manual_emit, IInv, TypeOK
  <2>5. CASE Tick
    BY <2>5, TickStep
  <2>6. CASE \E id \in Symbols : deferred_emit(id) \/ DeferredLost(id)
    BY <2>6, DeferredStep, LostStep
  <2>7. CASE UNCHANGED vars
    BY <2>7 DEF vars, IInv, TypeOK, FromBatches, NarrowingKnown, ChainSound,
                EverySecondOnce, started, active
  <2> QED BY <2>1, <2>2, <2>3, <2>4, <2>5, <2>6, <2>7 DEF Next
<1> QED BY <1>1, <1>2, PTL DEF Spec

\* Whatever batches are sent, what is stored passes its validate.
THEOREM ParametersStayValid == Spec => []TypeOK
<1>1. IInv => TypeOK
  BY DEF IInv
<1> QED BY <1>1, Inductive, PTL

\* The chain of deferred emits of an active contract never ends by itself
\* (schedule_next in emit and start).
THEOREM ChainStaysAlive == Spec => []ChainAlive
<1>1. IInv => ChainAlive
  BY DEF IInv, ChainSound, ChainAlive
<1> QED BY <1>1, Inductive, PTL

\* Seconds are emitted for once, whatever stops, starts and intervals (emit
\* takes the time since prev_emit).
THEOREM SecondsCountOnce == Spec => []EverySecondOnce
<1>1. IInv => EverySecondOnce
  BY DEF IInv
<1> QED BY <1>1, Inductive, PTL

\* Whatever the pools and the supply, an emission is handed out to the last
\* token and every pool gets its percent, rounded down but for the pool that
\* takes the rest (the loop over pools in emit).
THEOREM EmissionsStayFair == Spec => []SplitFair
<1>1. Init => SplitFair
  BY DEF Init, SplitFair
<1>2. IInv /\ SplitFair /\ [Next]_vars => SplitFair'
  BY SplitStep
<1> QED BY <1>1, <1>2, Inductive, PTL DEF Spec
=============================================================================
