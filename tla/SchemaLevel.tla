----------------------------- MODULE SchemaLevel -----------------------------
(***************************************************************************)
(* What migrate.py promises the rest of the system: the schema is that of   *)
(* the first n files, each run once, and n only rises.                      *)
(***************************************************************************)
EXTENDS Integers

CONSTANT Files
VARIABLE effect   \* file -> how often its statements are in effect

At(n) == [f \in 1..Files |-> IF f <= n THEN 1 ELSE 0]

Init == effect = At(0)
Upgrade == \E m, n \in 0..Files : m < n /\ effect = At(m) /\ effect' = At(n)
Spec == Init /\ [][Upgrade]_effect

=============================================================================
