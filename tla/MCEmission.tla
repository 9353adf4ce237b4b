---------------------------- MODULE MCEmission ----------------------------
(* Small instances of Emission and of Merging. *)
EXTENDS Emission, Merging

Set(f, v) == [field |-> f, value |-> v]
PoolsOf(p, q) == <<[name |-> 1, percent |-> p], [name |-> 2, percent |-> q]>>
Rate(a, z, n) == [start |-> a, stop |-> z, narrowing |-> n]

Falling == Set("infrate", Rate(3, 2, 2))
Fixed == Set("infrate", Rate(2, 2, 0))      \* the only form validate lets in
TwoPools == Set("pools", PoolsOf(3, 0))
ThreePools ==
  Set("pools", <<[name |-> 1, percent |-> 1], [name |-> 2, percent |-> 0],
                 [name |-> 3, percent |-> 2]>>)
OnePool == Set("pools", <<[name |-> 1, percent |-> 0]>>)
TwoRests == Set("pools", PoolsOf(0, 0))     \* refused
TokenA == Set("token", "a")
TokenB == Set("token", "b")
Every(n) == Set("interval", n)

All == <<Falling, TwoPools, TokenA, Every(2)>>

MCBatches ==
  {All, <<TokenA>>, <<TokenB>>, <<Every(1)>>, <<TwoPools, Every(2)>>, <<Every(3)>>,
   <<ThreePools>>, <<Fixed>>, <<Falling>>,
   \* refused: an invalid value, two of a kind, a wrong order, nothing at all
   <<TwoRests>>, <<Every(1), Every(0)>>, <<TokenB, OnePool>>, <<>>,
   <<OnePool, TokenA, Every(0)>>}

MCRate == [r \in 0 .. 4 |-> r]

----------------------------------------------------------------------------
\* Values to be merged are collected before there are parameters, in states of
\* their own: nothing merges them into the contract yet.
merge == params = NoParams /\ get_top_params /\ UNCHANGED vars

no_list == Init_top /\ UNCHANGED top_params

MCNext ==
  \/ merge
  \/ \E batch \in Batches : setparams(batch) /\ no_list
  \/ start /\ no_list
  \/ stop /\ no_list
  \/ manual_emit /\ no_list
  \/ Tick /\ no_list
  \/ \E id \in Symbols : deferred_emit(id) /\ no_list
  \/ \E id \in Symbols : DeferredLost(id) /\ no_list

MCInit == Init /\ Init_top

MCSpec == MCInit /\ [][MCNext]_<<vars, top_params>> /\ Fairness
=============================================================================
