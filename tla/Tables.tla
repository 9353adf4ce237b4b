------------------------------- MODULE Tables -------------------------------
(***************************************************************************)
(* A multi_index table of the contracts is a function whose domain is the  *)
(* set of primary keys that have a row.  Modifying a row is EXCEPT; these  *)
(* are the other two ways a contract changes a table.                      *)
(***************************************************************************)
EXTENDS Integers, FiniteSetsExt

\* emplace, or the upsert idiom (modify the row if it exists, else emplace)
Put(table, key, row) ==
  [k \in DOMAIN table \union {key} |-> IF k = key THEN row ELSE table[k]]

\* erase
Drop(table, key) == [k \in DOMAIN table \ {key} |-> table[k]]

EmptyTable == [k \in {} |-> 0]

\* keys in S, rows in T
IsTable(table, S, T) == DOMAIN table \subseteq S /\ table \in [DOMAIN table -> T]

\* The sum of f[x] for x in S, and of all values of f
SumOver(f, S) == MapThenSumSet(LAMBDA x : f[x], S)

Total(f) == SumOver(f, DOMAIN f)

Least(x, y) == IF x <= y THEN x ELSE y
=============================================================================
