------------------------------ MODULE Rewards ------------------------------
(***************************************************************************)
(* What golos.publication promises of rewards, whatever transactions they  *)
(* are paid in: the reward of a message is fixed once, tokens go out only  *)
(* for a reward that is fixed and not yet paid, and when it is settled     *)
(* what was paid and what was returned add up to it.  Nothing is fixed     *)
(* again for a message that was settled or given up.                       *)
(***************************************************************************)
EXTENDS Tables

CONSTANT Message

VARIABLES
  due,      \* rewards fixed: message -> [reward, paid]
  settled,  \* message -> [reward, paid, returned]
  gone,     \* messages given up without a reward
  tokens    \* tokens at hand

vars == <<due, settled, gone, tokens>>

Init == due = EmptyTable /\ settled = EmptyTable /\ gone = {} /\ tokens = 0

\* Rewards of any number of messages are fixed; tokens may come in with it.
Promise ==
  /\ DOMAIN due \subseteq DOMAIN due'
  /\ \A m \in DOMAIN due : due'[m] = due[m]
  /\ \A m \in DOMAIN due' \ DOMAIN due :
       m \notin DOMAIN settled \union gone /\ due'[m].paid = 0
  /\ tokens' >= tokens
  /\ UNCHANGED <<settled, gone>>

Pay(m) ==
  /\ m \in DOMAIN due
  /\ DOMAIN due' = DOMAIN due
  /\ \A o \in DOMAIN due \ {m} : due'[o] = due[o]
  /\ due'[m].reward = due[m].reward
  /\ due'[m].paid \in due[m].paid .. due[m].reward
  /\ tokens - tokens' = due'[m].paid - due[m].paid
  /\ UNCHANGED <<settled, gone>>

Settle(m) ==
  /\ m \in DOMAIN due
  /\ due' = Drop(due, m)
  /\ DOMAIN settled' = DOMAIN settled \union {m}
  /\ \A o \in DOMAIN settled : settled'[o] = settled[o]
  /\ settled'[m].reward = due[m].reward
  /\ settled'[m].paid >= due[m].paid /\ settled'[m].returned >= 0
  /\ settled'[m].paid + settled'[m].returned = due[m].reward
  /\ tokens - tokens' = settled'[m].paid - due[m].paid
  /\ UNCHANGED gone

\* A message is deleted before its reward is fixed, or when that is zero.
GiveUp(m) ==
  /\ m \notin DOMAIN settled \union gone
  /\ m \in DOMAIN due => due[m].reward = 0
  /\ due' = Drop(due, m) /\ gone' = gone \union {m}
  /\ UNCHANGED <<settled, tokens>>

Next == Promise \/ \E m \in Message : Pay(m) \/ Settle(m) \/ GiveUp(m)

Spec == Init /\ [][Next]_vars
=============================================================================
