------------------------------ MODULE Merging ------------------------------
(***************************************************************************)
(* common/parameter.hpp: how the values that several witnesses chose for   *)
(* one parameter are merged into one, by majority or by median.  The       *)
(* values are collected one witness after the other.                       *)
(***************************************************************************)
EXTENDS Integers, Sequences, FiniteSets, Functions

CONSTANTS
  Value,    \* what a witness can choose
  MaxTop    \* the number of top witnesses

ASSUME MergingAssumption == Value \subseteq Int /\ MaxTop \in Nat

VARIABLE top_params

Init_top == top_params = <<>>

\* A witness who has set the parameter is added; then comes the next parameter.
get_top_params ==
  \/ /\ Len(top_params) < MaxTop
     /\ \E v \in Value : top_params' = Append(top_params, v)
  \/ top_params # <<>> /\ top_params' = <<>>

SpecMerging == Init_top /\ [][get_top_params]_top_params

----------------------------------------------------------------------------
(* The median *)

\* What nth_element(begin, begin + k - 1, end) makes of the order: nothing before
\* position k is larger, and nothing after it smaller, than what is there.
nth_element(seq, k) ==
  CHOOSE p \in Surjection(DOMAIN seq, DOMAIN seq) :
    \A i, j \in DOMAIN seq : i <= k /\ k <= j => seq[p[i]] <= seq[p[j]]

\* Mutant of get_median: takes the lower of the two in the middle.
lower_median(seq) ==
  LET k == (Len(seq) + 1) \div 2 IN seq[nth_element(seq, k)[k]]

\* Position l/2, counted from 0
get_median(seq) ==
  LET k == Len(seq) \div 2 + 1 IN seq[nth_element(seq, k)[k]]

----------------------------------------------------------------------------
(* The majority *)

\* same[p], after the value at position i was counted
same(seq, i) == Cardinality({j \in 1 .. i : seq[j] = seq[i]})

\* Mutant of no_chance: forgets that the value at hand is still counted.
no_chance_now(seq, i, best, req) == Len(seq) - i - 1 + best < req

\* The early exit, after the value at position i was counted
no_chance(seq, i, best, req) == Len(seq) - i + 1 + best < req

\* One pass of the loop
pass(seq, req, i, s) ==
  LET more == same(seq, i) > s.max_count
      max  == IF more THEN same(seq, i) ELSE s.max_count
      won  == more /\ max >= req IN
  IF s.done THEN s
  ELSE [max_count |-> max, max_value |-> IF more THEN seq[i] ELSE s.max_value,
        found |-> won, done |-> won \/ no_chance(seq, i, max, req)]

\* Before the first, max_value has no value; here it has any.
fresh(seq) == [max_count |-> -1, max_value |-> seq[1], found |-> FALSE, done |-> FALSE]

\* The loop, up to each position
passes(seq, req) ==
  LET s[i \in 0 .. Len(seq)] == IF i = 0 THEN fresh(seq) ELSE pass(seq, req, i, s[i - 1])
  IN s

have_majority(seq, req) == Len(seq) >= req /\ passes(seq, req)[Len(seq)].found

\* What it leaves in its last argument
major(seq, req) == passes(seq, req)[Len(seq)].max_value

\* The check on req_count: it must be more than half.
may_ask(seq, req) == seq # <<>> /\ (Len(seq) >= req => Len(seq) \div 2 + 1 <= req)

----------------------------------------------------------------------------
(* What merging is to compute *)

Many(T) == Cardinality({i \in DOMAIN top_params : top_params[i] \in T})

\* have_majority finds a value exactly when one occurs as often as required, for
\* every requirement its check lets in, and the one it finds does: leaving the loop
\* early, when none has a chance any more, gives nothing up.
MajorityFound ==
  \A req \in 1 .. MaxTop + 1 : may_ask(top_params, req) =>
    /\ have_majority(top_params, req) <=> \E v \in Value : Many({v}) >= req
    /\ have_majority(top_params, req) => Many({major(top_params, req)}) >= req

\* get_median leaves at most half of the values below it and fewer than half
\* above, however many there are and in whatever order they come.
MedianInMiddle ==
  top_params # <<>> =>
    LET median == get_median(top_params) IN
    /\ 2 * Many({v \in Value : v < median}) <= Len(top_params)
    /\ 2 * Many({v \in Value : v > median}) < Len(top_params)
=============================================================================
