------------------------------- MODULE Params -------------------------------
(***************************************************************************)
(* common/parameter.hpp: how every contract checks and stores a batch of   *)
(* parameters.                                                             *)
(*                                                                         *)
(* A batch is a sequence of [field, value] records, as a caller sends a    *)
(* vector of variants.  The stored state is a record with these fields.    *)
(***************************************************************************)
EXTENDS Integers, Sequences, FiniteSets

CONSTANTS
  Fields,             \* the members of the variant, in its order
  Immutable,          \* those that may be set once only
  valid(_, _),        \* validate() of a field, applied to a value
  differs(_, _, _)    \* how the setter of a field compares old and new value

index(p) == CHOOSE i \in DOMAIN Fields : Fields[i] = p.field

\* Strictly increasing indexes: sorted, and no parameter twice
check_duplicates(batch) ==
  \A i \in 1 .. Len(batch) - 1 : index(batch[i]) < index(batch[i + 1])

check_immutables(batch) ==
  \A i \in DOMAIN batch : batch[i].field \notin Immutable

\* Mutant of validate_params: leaves out the last one.
validate_but_last(batch) ==
  \A i \in 1 .. Len(batch) - 1 : valid(batch[i].field, batch[i].value)

validate_params(batch) ==
  \A i \in DOMAIN batch : valid(batch[i].field, batch[i].value)

check_params(batch, initialized) ==
  /\ batch # <<>>
  /\ check_duplicates(batch)
  /\ initialized => check_immutables(batch)
  /\ validate_params(batch)

\* What set_param finds changed, and stores
changes(state, batch) ==
  {i \in DOMAIN batch : differs(batch[i].field, state[batch[i].field],
                                batch[i].value)}

updated(state, batch) ==
  [f \in DOMAIN state |->
     IF \E i \in changes(state, batch) : batch[i].field = f
     THEN batch[CHOOSE i \in DOMAIN batch : batch[i].field = f].value
     ELSE state[f]]

as_state(batch) ==
  [f \in {batch[i].field : i \in DOMAIN batch} |->
     batch[CHOOSE i \in DOMAIN batch : batch[i].field = f].value]

complete(exists, batch) == exists \/ Len(batch) = Len(Fields)

\* exists tells whether the singleton does; the first batch must be complete.
accepted(exists, state, batch) ==
  /\ check_params(batch, exists)
  /\ complete(exists, batch)
  /\ exists => changes(state, batch) # {}

set_parameters(exists, state, batch) ==
  IF exists THEN updated(state, batch) ELSE as_state(batch)
=============================================================================
