------------------------------- MODULE Charge -------------------------------
(***************************************************************************)
(* golos.charge: how much of each power an account has used up.            *)
(*                                                                         *)
(* A charge grows by the price of what is done and is restored with time,  *)
(* as the restorer of its kind says; an empty one has no row.  Paying with *)
(* vesting and stored charges are compiled out (DISABLE_CHARGE_VESTING,    *)
(* DISABLE_CHARGE_STORABLE).  Time and the act of charging come from       *)
(* golos.publication, which calls use and usenotifygt inline.              *)
(***************************************************************************)
EXTENDS Tables

CONSTANTS
  Account,
  ChargeId,       \* kinds of charge
  RestorerFuncs,  \* restored amount by previous value and elapsed seconds
  UsePrices,      \* prices and cutoffs of uses by hand
  Cutoffs

VARIABLES
  now,
  charges,        \* balances table: <<user, charge id>> -> [value, last_update]
  restorers       \* restorers table: charge id -> function

ChargeType == [value : Nat \ {0}, last_update : Nat]

Init ==
  /\ charges = EmptyTable
  /\ restorers = EmptyTable

exist(id) == id \in DOMAIN restorers

\* An argument outside the function's domain counts as its end.
clamped(f, x) ==
  f[IF x \in DOMAIN f THEN x ELSE CHOOSE m \in DOMAIN f : \A y \in DOMAIN f : y <= m]

restored(row, id) ==
  IF now = row.last_update THEN 0
  ELSE clamped(clamped(restorers[id], row.value), now - row.last_update)

\* Only a row older than this moment needs its restorer, which may not take away.
can_calc(table, user, id) ==
  <<user, id>> \in DOMAIN table /\ now # table[<<user, id>>].last_update =>
    exist(id) /\ restored(table[<<user, id>>], id) >= 0

calc_value(row, id, price) ==
  LET value == row.value - restored(row, id) + price IN
  IF value > 0 THEN value ELSE 0

\* What the row would be after a use at this price
new_value(table, user, id, price) ==
  IF <<user, id>> \in DOMAIN table THEN calc_value(table[<<user, id>>], id, price)
  ELSE price

get_current_value(user, id) == new_value(charges, user, id, 0)

\* A negative cutoff is none; a cutoff of zero is one for the price alone.
may_consume(table, user, id, price, cutoff) ==
  /\ cutoff >= 0 => price <= cutoff
  /\ can_calc(table, user, id)
  /\ cutoff > 0 => new_value(table, user, id, price) <= cutoff

consume_charge(table, user, id, price) ==
  LET value == new_value(table, user, id, price) IN
  IF value > 0
  THEN Put(table, <<user, id>>, [value |-> value, last_update |-> now])
  ELSE Drop(table, <<user, id>>)

\* The issuer may also charge by hand.
use(user, id, price, cutoff) ==
  /\ may_consume(charges, user, id, price, cutoff)
  /\ charges' = consume_charge(charges, user, id, price)
  /\ UNCHANGED restorers

\* usenotifygt and usenotifylt charge without a cutoff; whether the caller is
\* told is up to the comparison.
usenotify(user, id, price) == use(user, id, price, -1)

setrestorer(id, func) ==
  /\ restorers' = Put(restorers, id, func)
  /\ UNCHANGED charges

Next ==
  \E id \in ChargeId :
    \/ \E user \in Account, price \in UsePrices :
         usenotify(user, id, price) \/ \E cutoff \in Cutoffs : use(user, id, price, cutoff)
    \/ \E func \in RestorerFuncs : setrestorer(id, func)
=============================================================================
