------------------------------ MODULE GasPools ------------------------------
(***************************************************************************)
(* The gas a frame carries (sail/evm/machine.sail, sail/evm/gas.sail).     *)
(* From Amsterdam on a frame has two pools: execution gas, and a reservoir *)
(* of state gas that pays for state growth.  Growth the reservoir cannot   *)
(* pay is drawn from execution gas and remembered as spill, so that it can *)
(* be given back in reverse order.                                         *)
(***************************************************************************)
EXTENDS Integers, ForkOrder

CONSTANTS
    Forks,        \* the forks to run under, indices in the activation order
    MaxGas,       \* 2^64 - 1, the ceiling of conserved_gas_add
    SpillCap,     \* transaction_execution_gas_limit_value
    RefundBound   \* gas_refund_bound

ASSUME PoolAssumption ==
    /\ Forks \subseteq 5..16   \* schema_protocol_profile: Berlin to Amsterdam
    /\ MaxGas \in Nat
    /\ SpillCap \in Nat
    /\ RefundBound \in Nat

VARIABLE fork      \* profile.fork: one of Forks, chosen at the start

Statuses == {"Running", "Halted", "Reverted", "Exceptional"}

(* A frame as the interpreter loop carries it between two instructions.    *)
Frame == [gas : Nat, state_gas : Nat, spill : Nat, refund : Int,
          reservoir : Nat, static : BOOLEAN, depth : Nat, status : Statuses]

frame_succeeded(f) == f.status \notin {"Reverted", "Exceptional"}

(* The checks that end in fatal_error: conserved_gas_add,                  *)
(* state_gas_spill_add and validated_refund_add.                           *)
Representable(f) ==
    /\ f.gas <= MaxGas
    /\ f.state_gas <= MaxGas
    /\ f.spill <= SpillCap
    /\ f.refund \in -RefundBound..RefundBound

state_gas_halt(f, amount) == amount > f.state_gas + f.gas

charge_state_gas(f, amount) ==
    LET taken == IF amount <= f.state_gas THEN amount ELSE f.state_gas
    IN  [f EXCEPT !.state_gas = @ - taken,
                  !.gas = @ - (amount - taken),
                  !.spill = @ + (amount - taken)]

credit_state_gas_refund(f, amount) ==
    LET back == IF amount <= f.spill THEN amount ELSE f.spill
    IN  [f EXCEPT !.gas = @ + back,
                  !.spill = @ - back,
                  !.state_gas = @ + (amount - back)]

(* refund_gas and return_child_state_gas, in the parent of a done child.   *)
return_child_gas(parent, child) ==
    [parent EXCEPT !.gas = @ + child.gas,
                   !.state_gas = @ + child.state_gas,
                   !.spill = @ + child.spill]

exceptional_state(f) ==
    [f EXCEPT !.gas = 0, !.status = "Exceptional",
              !.state_gas = IF fork >= Amsterdam THEN f.reservoir ELSE @,
              !.spill = IF fork >= Amsterdam THEN 0 ELSE @]

(* The pools of a frame that halts by REVERT.                              *)
revert_state(f) ==
    IF fork >= Amsterdam
    THEN [f EXCEPT !.gas = @ + f.spill, !.state_gas = f.reservoir,
                   !.spill = 0, !.status = "Reverted"]
    ELSE [f EXCEPT !.status = "Reverted"]

frame_state_gas_used(f) == f.reservoir - f.state_gas + f.spill

(* What interpret promises of a top-level frame f that it ends as g: it    *)
(* makes no gas, and gives back all state gas unless the frame succeeds.   *)
FrameContract(f, g) ==
    /\ g.status # "Running"
    /\ g.reservoir = f.reservoir
    /\ g.gas + g.spill <= f.gas + f.spill
    /\ g.status = "Exceptional" => g.gas = 0
    /\ IF frame_succeeded(g)
       THEN frame_state_gas_used(g) >= frame_state_gas_used(f)
       ELSE fork >= Amsterdam => g.spill = 0 /\ g.state_gas = g.reservoir
    /\ fork < Amsterdam => g.spill = f.spill /\ g.state_gas = f.state_gas
=============================================================================
