----------------------------- MODULE CallLedger -----------------------------
(***************************************************************************)
(* What the call tree owes and owns: the properties of CallTree, with one  *)
(* history variable, the running totals of the suspended parents.          *)
(***************************************************************************)
EXTENDS CallTree

VARIABLE totals      \* totals[i] adds up the parents stack[1] .. stack[i]

(* magnitude adds up the refunds without their sign.                       *)
Total == [gas : Nat, spill : Nat, refund : Int, magnitude : Nat]

NoTotal == [gas |-> 0, spill |-> 0, refund |-> 0, magnitude |-> 0]

Below(i) == IF i = 0 THEN NoTotal ELSE totals[i]

Magnitude(n) == IF n < 0 THEN -n ELSE n

Plus(t, f) ==
    [gas |-> t.gas + f.gas, spill |-> t.spill + f.spill,
     refund |-> t.refund + f.refund,
     magnitude |-> t.magnitude + Magnitude(f.refund)]

LInit == Init /\ totals = <<>>

LNext ==
    /\ Next
    /\ totals' = CASE Len(stack') > Len(stack) ->
                        Append(totals, Plus(Below(Len(stack)),
                                            Last(stack').parent))
                   [] Len(stack') < Len(stack) -> Front(totals)
                   [] OTHER -> totals

LSpec == LInit /\ [][LNext]_<<vars, totals>> /\ WF_vars(TakeTurn)

(* The carried state of the frame and of its suspended parents.            *)
TypeOK ==
    /\ fork \in Forks
    /\ frame \in Frame
    /\ stack \in Seq(Continuation)
    /\ world \in World
    /\ saved \in Seq(World)
    /\ steps \in Nat
    /\ interpreting \in BOOLEAN
    /\ fatal \in BOOLEAN
    /\ Len(saved) = Len(stack)
    /\ frame.depth = Len(stack)

(* Each total is the one before it and one parent more.                    *)
TotalsAddUp ==
    /\ Len(totals) = Len(stack)
    /\ \A i \in 1..Len(stack) :
           totals[i] = Plus(Below(i - 1), stack[i].parent)

TotalGas == Below(Len(stack)).gas + frame.gas
TotalSpill == Below(Len(stack)).spill + frame.spill
ParentRefunds == Below(Len(stack)).refund

(* The world the transaction is left with if the running frame has halted: *)
(* a failed frame is rolled back to the scope opened for it.               *)
KeptWorld ==
    IF frame_succeeded(frame) THEN world
    ELSE IF stack = <<>> THEN InitialWorld ELSE Last(saved)

(* The price of the state growth in world w.                               *)
Growth(w) ==
    StateStorageSet * Cardinality({s \in Slots : Original[s] = 0
                                                  /\ w.slots[s] # 0})
    + StateNewAccount * Cardinality(w.nonempty \ Nonempty)
    + StateByte * w.code

(* A charge made for a new account before the scope of a failed child was  *)
(* opened; the parent takes it back when it resumes.                       *)
PendingCredit ==
    IF ~frame_succeeded(frame) /\ stack # <<>> /\ Last(stack).charged
    THEN StateNewAccount ELSE 0

(* The state gas taken from both pools since the start.                    *)
StateGasTaken == InitialStateGas[fork] - frame.state_gas + TotalSpill

(* At every turn the state gas taken, over all frames, is exactly the      *)
(* price of the growth that will stay: nothing is charged twice, and what  *)
(* a failed child was charged comes back, whatever pool it came from       *)
(* (charge_state_gas, credit_state_gas_refund, exceptional_state,          *)
(* execute_revert, resume_call and resume_create together).                *)
StateGasPaysGrowth ==
    fork >= Amsterdam => StateGasTaken = Growth(KeptWorld) + PendingCredit

(* Execution gas is never made: what the frames hold, with what they have  *)
(* spilled, stays within what interpret was given, stipends and refunds of *)
(* unused child gas included (run_call, run_create, refund_gas).           *)
GasConserved ==
    /\ TotalsAddUp
    /\ TotalGas + TotalSpill <= InitialGas[fork]

(* When interpret returns, the top frame keeps the contract on which the   *)
(* transaction settles its gas (run_legacy_transaction_frame and           *)
(* run_amsterdam_transaction_frame in TransactionGas).                     *)
TopFrameKeepsContract ==
    ~interpreting =>
        FrameContract(TopFrame, frame)

(* None of the internal checks fires: the shared budget that the comment   *)
(* on conserved_gas_add takes for granted is there (machine.sail), spill   *)
(* stays under the cap of EIP-8037 (state_gas_spill_add), and a frame is   *)
(* pushed only below the capacity of the frame stack; a frame suspends one *)
(* parent and one journal scope for each level of its depth.               *)
NeverFatal == TypeOK /\ ~fatal

(* What the writes to slot s that survive in world w have earned, and what *)
(* all of w has earned.                                                    *)
SlotRefund(w, s) ==
    w.undone[s] * RestoreRefund(Original[s])
    + (IF Original[s] # 0 /\ w.slots[s] = 0 THEN ClearRefund ELSE 0)

RefundsEarned(w) ==
    SumFunction([s \in Slots |-> SlotRefund(w, s)])
    + (IF fork < London THEN SelfdestructRefund * Cardinality(w.destroyed)
       ELSE 0)

(* The refund counters of all frames add up to what the surviving writes   *)
(* have earned: the refunds of a failed child vanish with its writes, and  *)
(* those of a committed one reach its parent once (record_refund).         *)
RefundsFollowWrites ==
    ParentRefunds + (IF frame_succeeded(frame) THEN frame.refund ELSE 0)
        = RefundsEarned(KeptWorld)

(* The frame that was entered from the i-th suspended parent is static.    *)
EntersStatic(i) ==
    IF i = Len(stack) THEN frame.static ELSE stack[i + 1].parent.static

(* Under a static frame nothing is written: every world saved above it,    *)
(* and the current one, is the one it was entered with (EIP-214 guards in  *)
(* run_call, run_create, SSTORE and SELFDESTRUCT).                         *)
StaticFramesOnlyRead ==
    \A i \in 1..Len(stack) :
        EntersStatic(i) => /\ world = saved[i]
                           /\ \A j \in i..Len(saved) : saved[j] = saved[i]

(* The termination measure of the loop in interpret is large enough: it    *)
(* has not run down to zero while there are still frames to run.           *)
StepsSuffice == interpreting => steps > 0
=============================================================================
