----------------------------- MODULE MCControl -----------------------------
(* Small instances of Control. *)
EXTENDS Control, TLC

Auto == [super_majority |-> 0, majority |-> 0, minority |-> 0]

One == [max_witnesses |-> 1, msig_perms |-> Auto, max_witness_votes |-> 2,
        period |-> 1]

Two == [One EXCEPT !.max_witnesses = 2,
                   !.msig_perms = [Auto EXCEPT !.super_majority = 2]]

\* Refused: two of one
TwoOfOne == [Two EXCEPT !.max_witnesses = 1]

\* One vote each, which no later call may change
OneVote == [One EXCEPT !.max_witness_votes = 1]

MCParams == {One, Two, TwoOfOne, OneVote}

MCAmount == {-1, 1}
=============================================================================
