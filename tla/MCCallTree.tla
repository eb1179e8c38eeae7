----------------------------- MODULE MCCallTree -----------------------------
(* Instances of CallTree: one slot that starts at zero and one that does   *)
(* not, one account that exists and one that does not.                     *)
EXTENDS CallLedger

CONSTANTS fresh, old

MCInitialGas == [f \in Forks |-> 8]
MCInitialStateGas == [f \in Forks |-> IF f >= Amsterdam THEN 3 ELSE 0]
MCOriginal == [s \in Slots |-> IF s = fresh THEN 0 ELSE 1]
=============================================================================
