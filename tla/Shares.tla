------------------------------- MODULE Shares -------------------------------
(***************************************************************************)
(* What golos.vesting is to the contracts that read it: a ledger of the    *)
(* shares each account holds.  A transaction opens or closes an empty row, *)
(* or changes what one account holds, or what two hold at once (a bulk     *)
(* transfer), or pays out to any number; nothing moves between accounts    *)
(* and nobody owes shares.                                                 *)
(* Vesting implements this module and Control builds on it.                *)
(***************************************************************************)
EXTENDS Tables

CONSTANT Account

VARIABLE shares     \* account -> vesting of its row

Held(table, o) == IF o \in DOMAIN table THEN table[o] ELSE 0

\* A credit creates the row it needs.
moved(table, o, n) == Put(table, o, Held(table, o) + n)

Init == shares = EmptyTable

open(o) ==
  /\ o \notin DOMAIN shares
  /\ shares' = Put(shares, o, 0)

close(o) ==
  /\ o \in DOMAIN shares
  /\ shares[o] = 0
  /\ shares' = Drop(shares, o)

change(o, n) ==
  /\ Held(shares, o) + n >= 0
  /\ shares' = moved(shares, o, n)

change_two(o1, n1, o2, n2) ==
  /\ Held(shares, o1) + n1 >= 0
  /\ Held(moved(shares, o1, n1), o2) + n2 >= 0
  /\ shares' = moved(moved(shares, o1, n1), o2, n2)

\* The payout loop takes from any number of accounts.
pay_out ==
  /\ shares' \in [DOMAIN shares -> Nat]
  /\ \A o \in DOMAIN shares : shares'[o] <= shares[o]

\* The amounts are those that lead to the next state.
Next ==
  \/ pay_out
  \/ \E o \in Account : open(o) \/ close(o)
  \/ \E o \in DOMAIN shares' \intersect Account :
       change(o, shares'[o] - Held(shares, o))
  \/ \E o1, o2 \in DOMAIN shares' \intersect Account :
       /\ o1 # o2
       /\ change_two(o1, shares'[o1] - Held(shares, o1),
                     o2, shares'[o2] - Held(shares, o2))

Spec == Init /\ [][Next]_shares
=============================================================================
