------------------------------ MODULE MCVesting ------------------------------
(* Small instances of Vesting. *)
EXTENDS Vesting, TLC

Symmetry == Permutations(Account)

\* Withdrawals in two instalments, and a second set of parameters under which
\* records made under the first are still processed.
MCParams ==
  {[intervals |-> 2, interval_seconds |-> 1, min_amount |-> 2,
    deleg_min_amount |-> 1, min_remainder |-> 2, return_time |-> 1,
    min_time |-> 1, max_delegators |-> 2],
   [intervals |-> 1, interval_seconds |-> 2, min_amount |-> 1,
    deleg_min_amount |-> 2, min_remainder |-> 1, return_time |-> 2,
    min_time |-> 0, max_delegators |-> 1]}

\* Delegations and returns of at least two shares
MCBacklogParams ==
  {[p EXCEPT !.deleg_min_amount = 2, !.min_time = 0] :
     p \in {q \in MCParams : q.intervals = 2}}
=============================================================================
