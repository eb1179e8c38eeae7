------------------------------ MODULE CallTree ------------------------------
(***************************************************************************)
(* The interpreter loop of sail/evm/interpreter.sail over a tree of        *)
(* message calls and creations: one running frame, a stack of suspended    *)
(* parents, and one journal scope for each suspended parent.  Data is cut  *)
(* down to what gas, refunds and state growth depend on; the journal is    *)
(* used through its abstract specification (FrameSnapshots).               *)
(***************************************************************************)
EXTENDS GasPools, Sequences, FiniteSets, SequencesExt

CONSTANTS
    InitialGas, InitialStateGas,   \* what interpret is called with, by fork
    Slots, Original,       \* storage slots, their transaction-start values
    Values,                \* slot values, 0 among them
    Accounts, Nonempty,    \* addresses, those not empty at the start
    CallDepthLimit,        \* call_depth_limit, also FRAME_STACK_CAPACITY
    CapDivisor,            \* 64 of EIP-150
    OpCosts,               \* execution costs of plain instructions
    MemoryCosts,           \* costs of memory expansion, possibly 0
    Requests,              \* gas operands of a CALL
    Deposits,              \* lengths of deployed code
    CallValueCost, CallStipend, NewAccountCost, CreateAccessCost,
    SelfdestructCost, AccountWriteCost,
    StorageSet, StorageReset, WarmAccess, ColdAccess, StorageWrite,
    StorageSentry,
    ClearRefund, SelfdestructRefund, DepositCost,
    RefundRate,            \* 199 of gas_refund_bound
    StateStorageSet, StateNewAccount, StateByte

ASSUME CallTreeAssumption ==
    /\ {InitialGas, InitialStateGas} \subseteq [Forks -> Nat]
    /\ CallDepthLimit \in Nat
    /\ CapDivisor \in Nat \ {0}
    /\ 0 \in Values /\ Values \subseteq Nat
    /\ Original \in [Slots -> Values]
    /\ Nonempty \subseteq Accounts
    /\ OpCosts \subseteq Nat \ {0}
    /\ MemoryCosts \cup Requests \cup Deposits \subseteq Nat
    /\ {CallValueCost, CallStipend, NewAccountCost, CreateAccessCost,
        SelfdestructCost, AccountWriteCost, StorageSet, StorageReset,
        WarmAccess, ColdAccess, StorageWrite, StorageSentry, ClearRefund,
        SelfdestructRefund, DepositCost, StateStorageSet, StateNewAccount,
        StateByte} \subseteq Nat
    /\ CallStipend < CallValueCost     \* 2300 < 9000 and 2300 < 10300
    /\ WarmAccess > 0 /\ CreateAccessCost > 0
    /\ IsFiniteSet(Slots) /\ IsFiniteSet(Accounts)

(* What a transaction may hand to interpret: both pools come out of one    *)
(* 64-bit gas limit, and EIP-7825 keeps execution gas under the cap that   *)
(* EIP-8037 also puts on spill.                                            *)
ASSUME BudgetAssumption ==
    \A f \in Forks :
        /\ InitialGas[f] + InitialStateGas[f] <= MaxGas
        /\ f >= Amsterdam => InitialGas[f] <= SpillCap
        /\ RefundRate * InitialGas[f] <= RefundBound

(* gas_refund_bound takes a unit of gas to earn at most RefundRate units   *)
(* of refund: 199 * 100 covers 20000 - 100 and every clearing refund.      *)
ASSUME RefundAssumption ==
    /\ RefundRate \in Nat
    /\ WarmAccess <= ColdAccess
    /\ WarmAccess <= StorageSet /\ WarmAccess <= StorageReset
    /\ \A refund \in {ClearRefund, StorageWrite, StorageSet - WarmAccess,
                       StorageReset - WarmAccess} :
           refund <= RefundRate * WarmAccess
    /\ SelfdestructRefund <= RefundRate * SelfdestructCost

VARIABLES
    frame,         \* the carried state of the running frame
    stack,         \* suspended parents: frame_stack_push / frame_stack_pop
    world,         \* the journalled state
    saved,         \* the world at each open journal scope
    steps,         \* call_tree_steps_remaining
    interpreting,
    fatal          \* an internal check has ended in fatal_error

vars == <<fork, frame, stack, world, saved, steps, interpreting, fatal>>

(* What the journal rolls back.  undone counts the restorations of a slot  *)
(* to its original value, each of which earned a refund; code is the       *)
(* length of the code deployed so far.                                     *)
World == [slots : [Slots -> Values], undone : [Slots -> Nat],
          nonempty : SUBSET Accounts, created : SUBSET Accounts,
          destroyed : SUBSET Accounts, code : Nat]

InitialWorld == [slots |-> Original, undone |-> [s \in Slots |-> 0],
                 nonempty |-> Nonempty, created |-> {}, destroyed |-> {},
                 code |-> 0]

Continuation == [kind : {"ResumeCall", "ResumeCreate"}, parent : Frame,
                 charged : BOOLEAN]

EntryFrame(gas, state_gas, static, depth) ==
    [gas |-> gas, state_gas |-> state_gas, spill |-> 0, refund |-> 0,
     reservoir |-> state_gas, static |-> static, depth |-> depth,
     status |-> "Running"]

(* The frame interpret starts with.                                        *)
TopFrame == EntryFrame(InitialGas[fork], InitialStateGas[fork], FALSE, 0)

(* Mutant: one turn for each unit of gas.                                  *)
MutOneTurnPerGas ==
    /\ fork \in Forks
    /\ frame = TopFrame
    /\ stack = <<>>
    /\ world = InitialWorld
    /\ saved = <<>>
    /\ steps = InitialGas[fork] + InitialStateGas[fork] + 2
    /\ interpreting = TRUE
    /\ fatal = FALSE

Init ==
    /\ fork \in Forks
    /\ frame = TopFrame
    /\ stack = <<>>
    /\ world = InitialWorld
    /\ saved = <<>>
    /\ steps = 3 * (InitialGas[fork] + InitialStateGas[fork]) + 2
    /\ interpreting = TRUE
    /\ fatal = FALSE

-----------------------------------------------------------------------------
Running == interpreting /\ ~fatal /\ frame.status = "Running"

(* One turn of the loop ends with the running frame f; ok is FALSE when a  *)
(* check on the way called fatal_error.                                    *)
Turn(f, ok) ==
    /\ frame' = f
    /\ fatal' = ~ok
    /\ steps' = IF steps = 0 THEN 0 ELSE steps - 1
    /\ UNCHANGED <<interpreting, fork>>

(* A turn that neither opens nor closes a scope.                           *)
Stay(f, w, ok) ==
    /\ Turn(f, ok)
    /\ world' = w
    /\ UNCHANGED <<stack, saved>>

Fail == Stay(exceptional_state(frame), world, TRUE)

Spend(f, cost) == [f EXCEPT !.gas = @ - cost]

(* Any instruction without an action of its own.                           *)
execute_plain ==
    /\ Running
    /\ \E cost \in OpCosts :
           IF frame.gas < cost THEN Fail
           ELSE Stay(Spend(frame, cost), world, TRUE)

(* INVALID, a failed stack guard, a bad jump.                              *)
execute_invalid == Running /\ Fail

(* STOP, and RETURN with its memory expansion.                             *)
execute_return ==
    /\ Running
    /\ \E cost \in MemoryCosts :
           IF frame.gas < cost THEN Fail
           ELSE Stay([Spend(frame, cost) EXCEPT !.status = "Halted"],
                     world, TRUE)

execute_revert ==
    /\ Running
    /\ \E cost \in MemoryCosts :
           IF frame.gas < cost THEN Fail
           ELSE LET f == revert_state(Spend(frame, cost))
                IN  Stay(f, world, Representable(f))

-----------------------------------------------------------------------------
(* SSTORE.                                                                 *)

ClearDelta(original, current, value) ==
    IF original = 0 \/ current = value THEN 0
    ELSE IF value = 0 THEN ClearRefund
    ELSE IF current = 0 THEN -ClearRefund ELSE 0

Restores(original, current, value) == current # value /\ original = value

(* The refund for putting a slot back to its original value.               *)
RestoreRefund(original) ==
    IF fork >= Amsterdam THEN StorageWrite
    ELSE (IF original = 0 THEN StorageSet ELSE StorageReset) - WarmAccess

Access(cold) == IF cold THEN ColdAccess ELSE WarmAccess

amsterdam_sstore_costs(original, current, value, cold) ==
    LET clean == current # value /\ original = current
    IN  [execution |-> Access(cold) + IF clean THEN StorageWrite ELSE 0,
         refund |-> ClearDelta(original, current, value)
                      + IF Restores(original, current, value)
                        THEN RestoreRefund(original) ELSE 0,
         charge |-> IF clean /\ original = 0 THEN StateStorageSet ELSE 0,
         credit |-> IF Restores(original, current, value) /\ original = 0
                    THEN StateStorageSet ELSE 0]

legacy_sstore_costs(original, current, value, cold) ==
    LET clean == current # value /\ original = current
        base == IF ~clean THEN WarmAccess
                ELSE IF original = 0 THEN StorageSet ELSE StorageReset
    IN  [execution |-> base + IF cold THEN ColdAccess ELSE 0,
         refund |-> ClearDelta(original, current, value)
                      + IF Restores(original, current, value)
                        THEN RestoreRefund(original) ELSE 0,
         charge |-> 0,
         credit |-> 0]

sstore_costs(original, current, value, cold) ==
    IF fork >= Amsterdam
    THEN amsterdam_sstore_costs(original, current, value, cold)
    ELSE legacy_sstore_costs(original, current, value, cold)

(* The gas an SSTORE must find before it looks at the slot.                *)
SentryPassed(cold) ==
    IF fork >= Amsterdam
    THEN frame.gas >= StorageSentry /\ frame.gas >= Access(cold)
    ELSE frame.gas > CallStipend

k_sstore(s, value) ==
    [world EXCEPT !.slots[s] = value,
                  !.undone[s] = IF Restores(Original[s], world.slots[s], value)
                                THEN @ + 1 ELSE @]

execute_sstore(s, value, cold) ==
    LET costs == sstore_costs(Original[s], world.slots[s], value, cold)
        credited == credit_state_gas_refund(frame, costs.credit)
        paid == Spend(credited, costs.execution)
        done == [charge_state_gas(paid, costs.charge)
                   EXCEPT !.refund = @ + costs.refund]
    IN  IF frame.static \/ ~SentryPassed(cold) THEN Fail
        ELSE IF \/ credited.gas < costs.execution
                \/ state_gas_halt(paid, costs.charge)
             THEN Stay(exceptional_state(credited), world,
                       Representable(credited))
             ELSE Stay(done, k_sstore(s, value),
                       Representable(credited) /\ Representable(done))

-----------------------------------------------------------------------------
(* SELFDESTRUCT of account a; funded says that a has a balance to move.    *)

CreatesAccount(target, value) == value /\ target \notin world.nonempty

execute_selfdestruct(a, beneficiary, funded, cold) ==
    LET creates == CreatesAccount(beneficiary, funded)
        cost == SelfdestructCost + (IF cold THEN ColdAccess ELSE 0)
                  + (IF ~creates THEN 0
                     ELSE IF fork >= Amsterdam THEN AccountWriteCost
                     ELSE NewAccountCost)
        growth == IF creates /\ fork >= Amsterdam THEN StateNewAccount ELSE 0
        paid == Spend(frame, cost)
        first == fork < London /\ a \notin world.destroyed
        done == [charge_state_gas(paid, growth)
                   EXCEPT !.refund = IF first THEN @ + SelfdestructRefund
                                     ELSE @,
                          !.status = "Halted"]
        destroys == fork < Cancun \/ a \in world.created
    IN  IF frame.static \/ frame.gas < cost \/ state_gas_halt(paid, growth)
        THEN Fail
        ELSE Stay(done,
                  [world EXCEPT !.nonempty = IF creates THEN @ \cup {beneficiary}
                                             ELSE @,
                                !.destroyed = IF destroys THEN @ \cup {a}
                                              ELSE @],
                  Representable(done))

-----------------------------------------------------------------------------
(* CALL, CALLCODE, DELEGATECALL and STATICCALL.                            *)

CallKinds == {"Call", "CallCode", "DelegateCall", "StaticCall"}
takes_value(kind) == kind \in {"Call", "CallCode"}
transfers_value(kind) == kind = "Call"
enters_static_context(kind) == kind = "StaticCall"

call_gas_cap_word(available, requested) ==
    LET all_but_64th == available - available \div CapDivisor
    IN  IF requested < all_but_64th THEN requested ELSE all_but_64th

(* What a call costs its caller before anything runs: execution work, then *)
(* state growth, then the child's share of what is left.  access covers    *)
(* the accesses of the target and of its delegate.                         *)
call_charge(kind, value, target, access, memory, request) ==
    LET creates == CreatesAccount(target, value) /\ transfers_value(kind)
        charged == creates /\ fork >= Amsterdam
        cost == memory + access + (IF value THEN CallValueCost ELSE 0)
                  + (IF creates /\ fork < Amsterdam THEN NewAccountCost ELSE 0)
        growth == IF charged THEN StateNewAccount ELSE 0
        paid == Spend(frame, cost)
        grown == charge_state_gas(paid, growth)
        base == call_gas_cap_word(grown.gas, request)
    IN  [halt |-> frame.gas < cost \/ state_gas_halt(paid, growth),
         charged |-> charged,
         parent |-> Spend(grown, base),
         child |-> base + IF value THEN CallStipend ELSE 0]

(* A call that was charged for an account it did not create.               *)
Uncharge(f, charged) ==
    IF charged THEN credit_state_gas_refund(f, StateNewAccount) ELSE f

k_transfer(kind, value, target) ==
    IF transfers_value(kind) /\ value
    THEN [world EXCEPT !.nonempty = @ \cup {target}] ELSE world

WriteProtected(kind, value) ==
    transfers_value(kind) /\ value /\ frame.static

call_halts(kind, value, c) ==
    /\ WriteProtected(kind, value) \/ c.halt
    /\ Fail

Proceeds(kind, value, c) == ~WriteProtected(kind, value) /\ ~c.halt

(* Mutant: one frame more than call_depth_limit.                           *)
MutDepthOffByOne == frame.depth > CallDepthLimit

AtDepthLimit == frame.depth = CallDepthLimit

(* The caller cannot pay the value, or is at the depth limit.              *)
call_refused(kind, value, c) ==
    /\ Proceeds(kind, value, c)
    /\ value \/ AtDepthLimit
    /\ LET f == [c.parent EXCEPT !.gas = @ + c.child]
           g == Uncharge(f, c.charged)
       IN  Stay(g, world, Representable(f) /\ Representable(g))

call_precompile_succeeds(kind, value, target, c) ==
    /\ Proceeds(kind, value, c)
    /\ ~AtDepthLimit
    /\ \E used \in OpCosts :
           /\ used <= c.child
           /\ LET f == [c.parent EXCEPT !.gas = @ + (c.child - used)]
              IN  Stay(f, k_transfer(kind, value, target), Representable(f))

(* The precompile is not affordable, or rejects its input.                 *)
call_precompile_fails(kind, value, c) ==
    /\ Proceeds(kind, value, c)
    /\ ~AtDepthLimit
    /\ LET f == Uncharge(c.parent, c.charged)
       IN  Stay(f, world, Representable(f))

(* suspend_frame and frame_stack_push: the parent keeps its spill and      *)
(* hands its whole state reservoir to the child.  The journal scope is     *)
(* opened on world w; the child starts on world w2.                        *)
Enter(kind, parent, charged, child_gas, static, w, w2) ==
    LET child == EntryFrame(child_gas, parent.state_gas, static,
                            frame.depth + 1)
        pushed == [kind |-> kind, charged |-> charged,
                   parent |-> [parent EXCEPT !.state_gas = 0]]
    IN  /\ Turn(child, Representable(child) /\ Len(stack) < CallDepthLimit)
        /\ stack' = Append(stack, pushed)
        /\ saved' = Append(saved, w)
        /\ world' = w2

(* Mutant: the child of a static frame is not itself static.               *)
MutStaticForgotten(kind, value, target, c) ==
    /\ Proceeds(kind, value, c)
    /\ ~AtDepthLimit
    /\ Enter("ResumeCall", c.parent, c.charged, c.child,
             enters_static_context(kind),
             world, k_transfer(kind, value, target))

call_enters(kind, value, target, c) ==
    /\ Proceeds(kind, value, c)
    /\ ~AtDepthLimit
    /\ Enter("ResumeCall", c.parent, c.charged, c.child,
             frame.static \/ enters_static_context(kind),
             world, k_transfer(kind, value, target))

run_call ==
    /\ Running
    /\ \E kind \in CallKinds, target \in Accounts, cold \in BOOLEAN,
          memory \in MemoryCosts, request \in Requests :
       \E value \in IF takes_value(kind) THEN BOOLEAN ELSE {FALSE} :
           LET c == call_charge(kind, value, target, Access(cold), memory,
                                request)
           IN  \/ call_halts(kind, value, c)
               \/ call_refused(kind, value, c)
               \/ call_precompile_succeeds(kind, value, target, c)
               \/ call_precompile_fails(kind, value, c)
               \/ call_enters(kind, value, target, c)

-----------------------------------------------------------------------------
(* CREATE and CREATE2 at address target.  memory covers the expansion, the *)
(* initcode words and the hashing of CREATE2.                              *)

(* Mutant: the parent keeps the gas it has given to the child.             *)
MutSplitKeepsAll(f) ==
    [parent |-> f, child |-> f.gas - f.gas \div CapDivisor]

(* All but one part in CapDivisor of the gas goes to the child.            *)
Split(f) ==
    LET retained == f.gas \div CapDivisor
    IN  [parent |-> [f EXCEPT !.gas = retained], child |-> f.gas - retained]

CreatePaid(memory) == Spend(frame, memory + CreateAccessCost)

create_charged(target) ==
    fork >= Amsterdam /\ target \notin world.nonempty

(* Amsterdam charges the growth first, since a spill lowers what is split. *)
create_charge(target, memory) ==
    LET growth == IF create_charged(target) THEN StateNewAccount ELSE 0
        split == Split(charge_state_gas(CreatePaid(memory), growth))
    IN  [halt |-> state_gas_halt(CreatePaid(memory), growth),
         charged |-> create_charged(target),
         parent |-> split.parent,
         child |-> split.child]

(* A static frame, no gas for the fixed part, or too much initcode.        *)
create_halts(memory, oversized) ==
    /\ \/ frame.static
       \/ frame.gas < memory + CreateAccessCost
       \/ oversized
    /\ Fail

CreateProceeds(memory) ==
    ~frame.static /\ frame.gas >= memory + CreateAccessCost

(* No balance for the endowment, nonce at its ceiling, or depth limit.     *)
(* Before Amsterdam the child's share has been split off and comes back.   *)
create_refused(memory) ==
    /\ CreateProceeds(memory)
    /\ Stay(CreatePaid(memory), world, TRUE)

create_runs_out(target, memory) ==
    /\ CreateProceeds(memory)
    /\ ~AtDepthLimit
    /\ create_charge(target, memory).halt
    /\ Fail

(* The address has code, a nonce or storage: the child's gas is lost.      *)
create_collides(target, memory) ==
    LET c == create_charge(target, memory)
        f == Uncharge(c.parent, c.charged)
    IN  /\ CreateProceeds(memory)
        /\ ~AtDepthLimit
        /\ ~c.halt
        /\ Stay(f, world, Representable(f))

create_enters(target, memory) ==
    LET c == create_charge(target, memory)
    IN  /\ CreateProceeds(memory)
        /\ ~AtDepthLimit
        /\ ~c.halt
        /\ target \notin world.created
        /\ Enter("ResumeCreate", c.parent, c.charged, c.child, frame.static,
                 world,
                 [world EXCEPT !.nonempty = @ \cup {target},
                               !.created = @ \cup {target}])

run_create ==
    /\ Running
    /\ \E target \in Accounts, memory \in MemoryCosts :
           \/ \E oversized \in BOOLEAN : create_halts(memory, oversized)
           \/ create_refused(memory)
           \/ create_runs_out(target, memory)
           \/ create_collides(target, memory)
           \/ create_enters(target, memory)

-----------------------------------------------------------------------------
(* A halted frame hands its result to the parent on top of the stack.      *)

Done == interpreting /\ ~fatal /\ frame.status # "Running"

(* frame_stack_pop, and the close of the child's journal scope.            *)
Resume(f, w, ok) ==
    /\ Turn(f, ok)
    /\ stack' = Front(stack)
    /\ saved' = Front(saved)
    /\ world' = w

(* Mutant: the refunds of a failed child are kept.                         *)
MutRefundKept(child, w) ==
    LET merged == return_child_gas(Last(stack).parent, child)
        f == [merged EXCEPT !.refund = @ + child.refund]
        g == Uncharge(f, Last(stack).charged)
    IN  IF frame_succeeded(child) THEN Resume(f, w, Representable(f))
        ELSE Resume(g, Last(saved), Representable(f) /\ Representable(g))

(* Mutant: a failed child keeps the charge for the account it undid.       *)
MutChargeKept(child, w) ==
    LET merged == return_child_gas(Last(stack).parent, child)
        f == [merged EXCEPT !.refund = @ + child.refund]
    IN  IF frame_succeeded(child) THEN Resume(f, w, Representable(f))
        ELSE Resume(merged, Last(saved), Representable(merged))

(* The parent takes back what the child has left; a failed child is rolled *)
(* back, its refunds are dropped and the charge for a new account undone.  *)
ResumeParent(child, w) ==
    LET top == Last(stack)
        merged == return_child_gas(top.parent, child)
        f == [merged EXCEPT !.refund = @ + child.refund]
        g == Uncharge(merged, top.charged)
    IN  IF frame_succeeded(child) THEN Resume(f, w, Representable(f))
        ELSE Resume(g, Last(saved), Representable(merged) /\ Representable(g))

resume_call ==
    /\ Done
    /\ stack # <<>> /\ Last(stack).kind = "ResumeCall"
    /\ ResumeParent(frame, world)

(* The child of a creation once the deposit of length bytes of code has    *)
(* been charged; valid says that size and first byte are allowed.  The     *)
(* Frontier deposit rule is not here: no profile is older than Berlin.     *)
DeployedChild(length, valid) ==
    LET paid == Spend(frame, DepositCost * length)
        growth == IF fork >= Amsterdam THEN StateByte * length ELSE 0
    IN  IF ~valid \/ frame.gas < DepositCost * length
        THEN exceptional_state(frame)
        ELSE IF state_gas_halt(paid, growth) THEN exceptional_state(paid)
        ELSE charge_state_gas(paid, growth)

resume_create ==
    /\ Done
    /\ stack # <<>> /\ Last(stack).kind = "ResumeCreate"
    /\ IF ~frame_succeeded(frame) THEN ResumeParent(frame, world)
       ELSE \E length \in Deposits, valid \in BOOLEAN :
              ResumeParent(DeployedChild(length, valid),
                           [world EXCEPT !.code = @ + length])

(* Mutant: the loop ends as soon as no parent is suspended.                *)
MutStopAtTopFrame ==
    /\ interpreting /\ ~fatal
    /\ stack = <<>>
    /\ interpreting' = FALSE
    /\ steps' = IF steps = 0 THEN 0 ELSE steps - 1
    /\ UNCHANGED <<frame, stack, world, saved, fatal, fork>>

(* The stack is empty: the loop ends and interpret returns the frame.      *)
finish ==
    /\ Done
    /\ stack = <<>>
    /\ interpreting' = FALSE
    /\ steps' = IF steps = 0 THEN 0 ELSE steps - 1
    /\ UNCHANGED <<frame, stack, world, saved, fatal, fork>>

(* After interpret has returned, or a fatal error, nothing happens.        *)
Terminated ==
    /\ ~interpreting \/ fatal
    /\ UNCHANGED vars

(* One turn of the loop.                                                   *)
TakeTurn ==
    \/ execute_plain \/ execute_invalid \/ execute_return \/ execute_revert
    \/ /\ Running
       /\ \E s \in Slots, value \in Values, cold \in BOOLEAN :
              execute_sstore(s, value, cold)
    \/ /\ Running
       /\ \E a \in world.nonempty, beneficiary \in Accounts,
             funded, cold \in BOOLEAN :
              execute_selfdestruct(a, beneficiary, funded, cold)
    \/ run_call \/ run_create
    \/ resume_call \/ resume_create \/ finish

Next == TakeTurn \/ Terminated

(* The loop is a while loop: it takes turns until it ends.                 *)
Spec == Init /\ [][Next]_vars /\ WF_vars(TakeTurn)
=============================================================================
