------------------------------- MODULE Social -------------------------------
(***************************************************************************)
(* golos.social: who pins and who blocks whom.                             *)
(*                                                                         *)
(* One record per pair of accounts, in the scope of the first.  A record   *)
(* pins or blocks; no record does neither.                                 *)
(***************************************************************************)
EXTENDS Tables

CONSTANTS
  Account,
  Pairs           \* pairs of accounts that may pin or block

VARIABLE pinblock   \* pinblock table: <<owner, other>> -> record

PinBlockType == [pinning : BOOLEAN, blocking : BOOLEAN]

Init == pinblock = EmptyTable

Pinned == [pinning |-> TRUE, blocking |-> FALSE]
Blocked == [pinning |-> FALSE, blocking |-> TRUE]

is_blocking(blocker, blocking) ==
  /\ <<blocker, blocking>> \in DOMAIN pinblock
  /\ pinblock[blocker, blocking].blocking

\* An existing record is refused, whether it pins, blocks or does neither.
pin(pinner, pinning) ==
  /\ pinner # pinning
  /\ <<pinner, pinning>> \notin DOMAIN pinblock
  /\ pinblock' = Put(pinblock, <<pinner, pinning>>, Pinned)

\* addpin differs from pin in who may call it.
addpin(pinner, pinning) == pin(pinner, pinning)

unpin(pinner, pinning) ==
  /\ pinner # pinning
  /\ <<pinner, pinning>> \in DOMAIN pinblock
  /\ pinblock[pinner, pinning].pinning
  /\ pinblock' = Drop(pinblock, <<pinner, pinning>>)

\* Blocking turns a pin into a block.
block(blocker, blocking) ==
  /\ blocker # blocking
  /\ <<blocker, blocking>> \in DOMAIN pinblock =>
       /\ ~pinblock[blocker, blocking].blocking
       /\ pinblock[blocker, blocking].pinning
  /\ pinblock' = Put(pinblock, <<blocker, blocking>>, Blocked)

addblock(blocker, blocking) ==
  /\ blocker # blocking
  /\ <<blocker, blocking>> \notin DOMAIN pinblock
  /\ pinblock' = Put(pinblock, <<blocker, blocking>>, Blocked)

unblock(blocker, blocking) ==
  /\ blocker # blocking
  /\ <<blocker, blocking>> \in DOMAIN pinblock
  /\ pinblock[blocker, blocking].blocking
  /\ pinblock' = Drop(pinblock, <<blocker, blocking>>)

Next ==
  \E pair \in Pairs :
    LET from == pair[1] to == pair[2] IN
    \/ pin(from, to) \/ addpin(from, to) \/ unpin(from, to)
    \/ block(from, to) \/ addblock(from, to) \/ unblock(from, to)
=============================================================================
