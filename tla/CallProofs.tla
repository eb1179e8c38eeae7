----------------------------- MODULE CallProofs -----------------------------
(***************************************************************************)
(* Proofs of the properties of CallLedger for every number of slots and    *)
(* accounts, every depth limit, every gas schedule and every budget that   *)
(* the assumptions of CallTree allow.                                      *)
(***************************************************************************)
EXTENDS CallLedger, LedgerLemmas

WorldOK(w) == w \in World /\ Nonempty \subseteq w.nonempty

(* What the frame on level i was entered with: level 0 is the top frame.   *)
EntryWorld(i) == IF i = 0 THEN InitialWorld ELSE saved[i]
Reservoir(i) ==
    IF i = Len(stack) THEN frame.reservoir ELSE stack[i + 1].parent.reservoir
Charge(i) == IF i # 0 /\ stack[i].charged THEN StateNewAccount ELSE 0

Held == TotalGas + TotalSpill

(* The most that n units of spent gas can earn back.                       *)
Earned(n) == RefundRate * n

LedgerOK ==
    /\ TypeOK
    /\ ~fatal
    /\ totals \in Seq(Total)
    /\ TotalsAddUp
    /\ Len(stack) <= CallDepthLimit
    /\ WorldOK(world)
    /\ \A i \in 1..Len(stack) :
          /\ WorldOK(saved[i])
          /\ stack[i].parent.state_gas = 0
          /\ stack[i].parent.status = "Running"
          /\ stack[i].parent.depth = i - 1

BudgetOK ==
    /\ Held <= InitialGas[fork]
    /\ Below(Len(stack)).magnitude + Magnitude(frame.refund)
           <= Earned(InitialGas[fork] - Held)
    /\ interpreting => steps >= 3 * Held + 2 * Len(stack)
                                  + IF frame.status = "Running" THEN 2 ELSE 1
    /\ ~interpreting => stack = <<>> /\ frame.status # "Running"

PoolsOK ==
    /\ Reservoir(0) = InitialStateGas[fork]
    /\ frame.status = "Exceptional" => frame.gas = 0
    /\ fork >= Amsterdam =>
          /\ \A i \in 0..Len(stack) :
                InitialStateGas[fork] - Reservoir(i) + Below(i).spill
                    = Growth(EntryWorld(i)) + Charge(i)
          /\ IF frame_succeeded(frame) THEN StateGasTaken = Growth(world)
             ELSE frame.spill = 0 /\ frame.state_gas = frame.reservoir
    /\ fork < Amsterdam =>
          /\ \A i \in 0..Len(stack) :
                /\ Reservoir(i) = InitialStateGas[fork]
                /\ Below(i).spill = 0
                /\ Charge(i) = 0
          /\ frame.spill = 0
          /\ frame.state_gas = InitialStateGas[fork]

StaticOK ==
    /\ \A i \in 1..Len(stack) :
          /\ stack[i].parent.static =>
                /\ frame.static
                /\ \A j \in i..Len(stack) : stack[j].parent.static
          /\ stack[i].kind = "ResumeCreate" => ~EntersStatic(i)
    /\ StaticFramesOnlyRead

CallInv == LedgerOK /\ BudgetOK /\ PoolsOK /\ StaticOK

-----------------------------------------------------------------------------
(* The running fork and the assumptions, in the form the steps use them.   *)
LEMMA Amounts ==
  ASSUME fork \in Forks
  PROVE  /\ fork \in Int /\ Amsterdam \in Int /\ London \in Int
         /\ Cancun \in Int
         /\ InitialGas[fork] \in Nat /\ InitialStateGas[fork] \in Nat
         /\ InitialGas[fork] + InitialStateGas[fork] <= MaxGas
         /\ fork >= Amsterdam => InitialGas[fork] <= SpillCap
         /\ RefundRate * InitialGas[fork] <= RefundBound
BY PoolAssumption, CallTreeAssumption, BudgetAssumption
   DEF Amsterdam, London, Cancun

(* The prices are natural numbers.                                         *)
LEMMA Prices ==
  /\ CallValueCost \in Nat /\ CallStipend \in Nat /\ NewAccountCost \in Nat
  /\ CreateAccessCost \in Nat /\ SelfdestructCost \in Nat
  /\ AccountWriteCost \in Nat /\ StorageSet \in Nat /\ StorageReset \in Nat
  /\ WarmAccess \in Nat /\ ColdAccess \in Nat /\ StorageWrite \in Nat
  /\ StorageSentry \in Nat /\ ClearRefund \in Nat
  /\ SelfdestructRefund \in Nat /\ DepositCost \in Nat
  /\ StateStorageSet \in Nat /\ StateNewAccount \in Nat /\ StateByte \in Nat
  /\ CapDivisor \in Nat /\ CapDivisor > 0 /\ CallDepthLimit \in Nat
  /\ MaxGas \in Nat /\ SpillCap \in Nat /\ RefundBound \in Nat
  /\ RefundRate \in Nat
  /\ CallStipend < CallValueCost /\ WarmAccess > 0 /\ CreateAccessCost > 0
  /\ WarmAccess <= ColdAccess
BY CallTreeAssumption, RefundAssumption, PoolAssumption

-----------------------------------------------------------------------------
(* What moves between the pools of a frame.                                *)
Alike(f, g) ==
    /\ g \in Frame
    /\ g.refund = f.refund /\ g.reservoir = f.reservoir
    /\ g.static = f.static /\ g.depth = f.depth /\ g.status = f.status

(* Paying execution gas touches nothing else.                              *)
LEMMA SpendFacts ==
  ASSUME NEW f \in Frame, NEW cost \in Nat, f.gas >= cost
  PROVE  /\ Alike(f, Spend(f, cost))
         /\ Spend(f, cost).gas = f.gas - cost
         /\ Spend(f, cost).spill = f.spill
         /\ Spend(f, cost).state_gas = f.state_gas
BY DEF Spend, Frame, Alike

(* charge_state_gas draws the whole amount and conserves gas and spill.    *)
LEMMA ChargeFacts ==
  ASSUME NEW f \in Frame, NEW amount \in Nat, ~state_gas_halt(f, amount)
  PROVE  LET g == charge_state_gas(f, amount) IN
         /\ Alike(f, g)
         /\ g.gas + g.spill = f.gas + f.spill
         /\ f.state_gas - g.state_gas + g.spill - f.spill = amount
         /\ g.spill >= f.spill
         /\ amount = 0 => g.spill = f.spill /\ g.state_gas = f.state_gas
                          /\ g.gas = f.gas
<1>1. /\ f.gas \in Nat /\ f.state_gas \in Nat /\ f.spill \in Nat
      /\ amount <= f.state_gas + f.gas
  BY DEF Frame, state_gas_halt
<1>2. PICK taken :
         taken = IF amount <= f.state_gas THEN amount ELSE f.state_gas
  OBVIOUS
<1>3. PICK g : g = charge_state_gas(f, amount)
  OBVIOUS
<1>4. PICK a, b, c : /\ a = f.state_gas - taken
                     /\ b = f.gas - (amount - taken)
                     /\ c = f.spill + (amount - taken)
  OBVIOUS
<1>5. g = [f EXCEPT !.state_gas = a, !.gas = b, !.spill = c]
  BY <1>2, <1>3, <1>4 DEF charge_state_gas
<1>6. /\ taken \in Nat /\ a \in Nat /\ b \in Nat /\ c \in Nat
      /\ amount - taken >= 0 /\ (amount = 0 => taken = 0)
  BY <1>1, <1>2, <1>4
<1>7. g.state_gas = a /\ g.gas = b /\ g.spill = c /\ Alike(f, g)
  BY <1>5, <1>6 DEF Frame, Alike
<1>8. /\ g.gas + g.spill = f.gas + f.spill
      /\ f.state_gas - g.state_gas + g.spill - f.spill = amount
      /\ g.spill >= f.spill
      /\ amount = 0 => g.spill = f.spill /\ g.state_gas = f.state_gas
                       /\ g.gas = f.gas
  BY <1>1, <1>4, <1>6, <1>7
<1> QED BY <1>3, <1>7, <1>8

(* credit_state_gas_refund undoes a charge in reverse order.               *)
LEMMA CreditFacts ==
  ASSUME NEW f \in Frame, NEW amount \in Nat
  PROVE  LET g == credit_state_gas_refund(f, amount) IN
         /\ Alike(f, g)
         /\ g.gas + g.spill = f.gas + f.spill
         /\ g.state_gas - f.state_gas + f.spill - g.spill = amount
         /\ g.spill <= f.spill
         /\ amount = 0 => g.spill = f.spill /\ g.state_gas = f.state_gas
                          /\ g.gas = f.gas
<1>1. f.gas \in Nat /\ f.state_gas \in Nat /\ f.spill \in Nat
  BY DEF Frame
<1>2. PICK back : back = IF amount <= f.spill THEN amount ELSE f.spill
  OBVIOUS
<1>3. PICK g : g = credit_state_gas_refund(f, amount)
  OBVIOUS
<1>4. PICK a, b, c : /\ a = f.state_gas + (amount - back)
                     /\ b = f.gas + back /\ c = f.spill - back
  OBVIOUS
<1>5. g = [f EXCEPT !.gas = b, !.spill = c, !.state_gas = a]
  BY <1>2, <1>3, <1>4 DEF credit_state_gas_refund
<1>6. /\ back \in Nat /\ a \in Nat /\ b \in Nat /\ c \in Nat
      /\ (amount = 0 => back = 0)
  BY <1>1, <1>2, <1>4
<1>7. g.state_gas = a /\ g.gas = b /\ g.spill = c /\ Alike(f, g)
  BY <1>5, <1>6 DEF Frame, Alike
<1>8. b + c = f.gas + f.spill
  BY <1>1, <1>4, <1>6
<1>9. a - f.state_gas + f.spill - c = amount
  BY <1>1, <1>4, <1>6
<1>10. c <= f.spill
  BY <1>1, <1>4, <1>6
<1>11. amount = 0 => c = f.spill /\ a = f.state_gas /\ b = f.gas
  BY <1>1, <1>4, <1>6
<1> QED BY <1>3, <1>7, <1>8, <1>9, <1>10, <1>11

(* An exceptional halt burns the gas and restores the reservoir.           *)
LEMMA ExceptionalFacts ==
  ASSUME NEW f \in Frame
  PROVE  LET g == exceptional_state(f) IN
         /\ g \in Frame
         /\ g.refund = f.refund /\ g.reservoir = f.reservoir
         /\ g.static = f.static /\ g.depth = f.depth
         /\ g.status = "Exceptional" /\ g.gas = 0
         /\ fork >= Amsterdam => g.spill = 0 /\ g.state_gas = g.reservoir
         /\ ~(fork >= Amsterdam) =>
               g.spill = f.spill /\ g.state_gas = f.state_gas
BY DEF exceptional_state, Frame, Statuses

(* REVERT keeps the gas and gives all state gas back.                      *)
LEMMA RevertFacts ==
  ASSUME NEW f \in Frame
  PROVE  LET g == revert_state(f) IN
         /\ g \in Frame
         /\ g.refund = f.refund /\ g.reservoir = f.reservoir
         /\ g.static = f.static /\ g.depth = f.depth
         /\ g.status = "Reverted" 
         /\ g.gas + g.spill = f.gas + f.spill
         /\ fork >= Amsterdam => g.spill = 0 /\ g.state_gas = g.reservoir
         /\ ~(fork >= Amsterdam) =>
               g.spill = f.spill /\ g.state_gas = f.state_gas
<1>1. f.gas \in Nat /\ f.state_gas \in Nat /\ f.spill \in Nat
      /\ f.reservoir \in Nat
  BY DEF Frame
<1>2. CASE fork >= Amsterdam
  <2>1. PICK g : g = revert_state(f)
    OBVIOUS
  <2>2. PICK b : b = f.gas + f.spill
    OBVIOUS
  <2>3. g = [f EXCEPT !.gas = b, !.state_gas = f.reservoir, !.spill = 0,
                      !.status = "Reverted"]
    BY <1>2, <2>1, <2>2 DEF revert_state
  <2>4. b \in Nat /\ 0 \in Nat
    BY <1>1, <2>2
  <2>5. /\ g.state_gas = f.reservoir /\ g.gas = b /\ g.spill = 0
        /\ g.refund = f.refund /\ g.reservoir = f.reservoir
        /\ g.static = f.static /\ g.depth = f.depth
        /\ g.status = "Reverted" /\ g \in Frame
    BY <1>1, <2>3, <2>4 DEF Frame, Statuses
  <2> QED BY <1>1, <1>2, <2>1, <2>2, <2>5
<1>3. CASE ~(fork >= Amsterdam)
  BY <1>1, <1>3 DEF revert_state, Frame, Statuses
<1> QED BY <1>2, <1>3

-----------------------------------------------------------------------------
(* The price of a world.                                                   *)
Grown(w) == {s \in Slots : Original[s] = 0 /\ w.slots[s] # 0}

(* The price of a world is a natural number.                               *)
LEMMA GrowthType ==
  ASSUME NEW w, WorldOK(w)
  PROVE  /\ IsFiniteSet(Grown(w)) /\ IsFiniteSet(w.nonempty \ Nonempty)
         /\ Cardinality(Grown(w)) \in Nat
         /\ Cardinality(w.nonempty \ Nonempty) \in Nat
         /\ w.code \in Nat
         /\ Growth(w) \in Nat
         /\ Growth(w) = StateStorageSet * Cardinality(Grown(w))
                          + StateNewAccount * Cardinality(w.nonempty \ Nonempty)
                          + StateByte * w.code
<1>1. IsFiniteSet(Slots) /\ IsFiniteSet(Accounts)
  BY CallTreeAssumption
<1>2. Grown(w) \in SUBSET Slots /\ (w.nonempty \ Nonempty) \in SUBSET Accounts
      /\ w.code \in Nat
  BY DEF Grown, WorldOK, World
<1>3. IsFiniteSet(Grown(w)) /\ IsFiniteSet(w.nonempty \ Nonempty)
  BY <1>1, <1>2, FS_Subset
<1>4. Cardinality(Grown(w)) \in Nat /\ Cardinality(w.nonempty \ Nonempty) \in Nat
  BY <1>3, FS_CardinalityType
<1>5. Growth(w) = StateStorageSet * Cardinality(Grown(w))
                    + StateNewAccount * Cardinality(w.nonempty \ Nonempty)
                    + StateByte * w.code
  BY DEF Growth, Grown
<1>6. \A m, n \in Nat : m * n \in Nat
  OBVIOUS
<1>7. /\ StateStorageSet * Cardinality(Grown(w)) \in Nat
      /\ StateNewAccount * Cardinality(w.nonempty \ Nonempty) \in Nat
      /\ StateByte * w.code \in Nat
  BY <1>2, <1>4, <1>6, Prices
<1> QED BY <1>2, <1>3, <1>4, <1>5, <1>7

(* The initial world has cost nothing.                                     *)
LEMMA GrowthInitially ==
  WorldOK(InitialWorld) /\ Growth(InitialWorld) = 0
<1>1. InitialWorld \in World
  BY CallTreeAssumption DEF World, InitialWorld
<1>2. WorldOK(InitialWorld)
  BY <1>1 DEF WorldOK, InitialWorld
<1>3. Grown(InitialWorld) = {}
  BY DEF Grown, InitialWorld
<1>4. InitialWorld.nonempty \ Nonempty = {} /\ InitialWorld.code = 0
  BY DEF InitialWorld
<1>5. Cardinality({}) = 0
  BY FS_EmptySet
<1>6. Growth(InitialWorld) = StateStorageSet * 0 + StateNewAccount * 0
                               + StateByte * 0
  BY <1>2, <1>3, <1>4, <1>5, GrowthType
<1> QED BY <1>2, <1>6, Prices

-----------------------------------------------------------------------------
(* Refunds.                                                                *)
LEMMA EarnedFacts ==
  ASSUME NEW a \in Int, NEW b \in Int
  PROVE  /\ Earned(a) \in Int
         /\ a <= b => Earned(a) <= Earned(b)
         /\ 0 <= a => 0 <= Earned(a)
         /\ Earned(a + b) = Earned(a) + Earned(b)
<1>1. RefundRate \in Nat
  BY Prices
<1>2. \A r \in Nat : \A x, y \in Int :
         /\ r * x \in Int
         /\ r * (x + y) = r * x + r * y
         /\ r * (x - y) = r * x - r * y
  OBVIOUS
<1>3. \A r \in Nat : \A x \in Nat : r * x >= 0
  OBVIOUS
<1>4. ASSUME a <= b PROVE RefundRate * a <= RefundRate * b
  <2>1. b - a \in Nat /\ RefundRate * (b - a) = RefundRate * b - RefundRate * a
    BY <1>1, <1>2, <1>4
  <2>2. RefundRate * (b - a) >= 0
    BY <1>1, <1>3, <2>1
  <2>3. RefundRate * a \in Int /\ RefundRate * b \in Int
    BY <1>1
  <2> QED BY <2>1, <2>2, <2>3
<1> QED BY <1>1, <1>2, <1>3, <1>4 DEF Earned

(* The magnitude of a sum.                                                 *)
LEMMA MagnitudeFacts ==
  ASSUME NEW a \in Int, NEW b \in Int
  PROVE  /\ Magnitude(a) \in Nat /\ a <= Magnitude(a) /\ -a <= Magnitude(a)
         /\ Magnitude(a + b) <= Magnitude(a) + Magnitude(b)
BY DEF Magnitude

-----------------------------------------------------------------------------
(* The checks that end in fatal_error, from the budget.  held is what all  *)
(* frames hold together once f is running.                                 *)
LEMMA Fits ==
  ASSUME fork \in Forks, NEW f \in Frame, NEW held \in Nat,
         held <= InitialGas[fork],
         f.gas + f.spill <= held,
         f.state_gas <= InitialStateGas[fork] + held,
         fork < Amsterdam => f.spill = 0,
         Magnitude(f.refund) <= Earned(InitialGas[fork] - held)
  PROVE  Representable(f)
<1>1. /\ f.gas \in Nat /\ f.state_gas \in Nat /\ f.spill \in Nat
      /\ f.refund \in Int
  BY DEF Frame
<1>2. f.gas <= MaxGas
  BY <1>1, Amounts, Prices
<1>3. f.state_gas <= MaxGas
  BY <1>1, Amounts, Prices
<1>4. f.spill <= SpillCap
  BY <1>1, Amounts, Prices
<1>5. Magnitude(f.refund) <= RefundBound
  <2>1. PICK a, b : a = InitialGas[fork] - held /\ b = InitialGas[fork]
    OBVIOUS
  <2>2. a \in Int /\ b \in Int /\ a <= b
    BY <2>1, Amounts
  <2>3. Earned(a) <= Earned(b) /\ Earned(a) \in Int /\ Earned(b) \in Int
    BY <2>2, EarnedFacts
  <2>4. Earned(b) <= RefundBound
    BY <2>1, Amounts DEF Earned
  <2>5. Magnitude(f.refund) <= Earned(a) /\ Magnitude(f.refund) \in Nat
    BY <1>1, <2>1, MagnitudeFacts
  <2> QED BY <2>3, <2>4, <2>5, Prices
<1>6. f.refund \in -RefundBound..RefundBound
  <2>1. /\ Magnitude(f.refund) \in Nat /\ f.refund <= Magnitude(f.refund)
        /\ -f.refund <= Magnitude(f.refund)
    BY <1>1, MagnitudeFacts
  <2> QED BY <1>1, <1>5, <2>1, Prices
<1> QED BY <1>2, <1>3, <1>4, <1>6 DEF Representable

-----------------------------------------------------------------------------
(* A turn that stays in the running frame: what f and w have to satisfy    *)
(* for the invariant to survive.                                           *)
Progress(f, w) ==
    /\ f \in Frame /\ WorldOK(w)
    /\ f.reservoir = frame.reservoir /\ f.static = frame.static
    /\ f.depth = frame.depth
    /\ f.gas + f.spill <= frame.gas + frame.spill
    /\ f.status = "Running" => f.gas + f.spill < frame.gas + frame.spill
    /\ Magnitude(f.refund) <= Magnitude(frame.refund)
           + Earned((frame.gas + frame.spill) - (f.gas + f.spill))
    /\ f.status = "Exceptional" => f.gas = 0
    /\ fork >= Amsterdam =>
          IF frame_succeeded(f)
          THEN f.spill - f.state_gas - Growth(w)
                 = frame.spill - frame.state_gas - Growth(world)
          ELSE f.spill = 0 /\ f.state_gas = f.reservoir
    /\ fork < Amsterdam => f.spill = frame.spill /\ f.state_gas = frame.state_gas
    /\ frame.static => w = world

(* The amounts of a state that satisfies the invariant.                    *)
LEMMA StateFacts ==
  ASSUME LedgerOK
  PROVE  /\ fork \in Forks /\ Len(stack) \in Nat /\ steps \in Nat
         /\ frame \in Frame /\ WorldOK(world)
         /\ frame.gas \in Nat /\ frame.spill \in Nat
         /\ frame.state_gas \in Nat /\ frame.refund \in Int
         /\ frame.reservoir \in Nat /\ frame.depth = Len(stack)
         /\ frame.static \in BOOLEAN
         /\ Len(totals) = Len(stack) /\ Len(saved) = Len(stack)
         /\ \A i \in 0..Len(stack) :
               /\ Below(i) \in Total /\ Below(i).gas \in Nat
               /\ Below(i).spill \in Nat /\ Below(i).magnitude \in Nat
         /\ Held \in Nat /\ Held = Below(Len(stack)).gas
                + Below(Len(stack)).spill + frame.gas + frame.spill
         /\ InitialGas[fork] \in Nat /\ InitialStateGas[fork] \in Nat
         /\ Growth(world) \in Nat
<1>1. /\ fork \in Forks /\ Len(stack) \in Nat /\ steps \in Nat
      /\ frame \in Frame /\ WorldOK(world)
      /\ Len(totals) = Len(stack) /\ Len(saved) = Len(stack)
      /\ frame.depth = Len(stack) /\ totals \in Seq(Total)
  BY DEF LedgerOK, TypeOK, TotalsAddUp
<1>2. /\ frame.gas \in Nat /\ frame.spill \in Nat
      /\ frame.state_gas \in Nat /\ frame.refund \in Int
      /\ frame.reservoir \in Nat /\ frame.static \in BOOLEAN
  BY <1>1 DEF Frame
<1>3. ASSUME NEW i \in 0..Len(stack)
      PROVE  /\ Below(i) \in Total /\ Below(i).gas \in Nat
             /\ Below(i).spill \in Nat /\ Below(i).magnitude \in Nat
  <2>1. CASE i = 0
    <3>1. Below(i) = NoTotal
      BY <2>1 DEF Below
    <3>2. /\ NoTotal \in Total /\ NoTotal.gas = 0 /\ NoTotal.spill = 0
          /\ NoTotal.magnitude = 0
      BY DEF NoTotal, Total
    <3> QED BY <3>1, <3>2
  <2>2. CASE i # 0
    <3>1. i \in 1..Len(totals)
      BY <1>1, <2>2
    <3>2. totals[i] \in Total
      BY <1>1, <3>1
    <3>3. Below(i) \in Total
      BY <2>2, <3>2 DEF Below
    <3> QED BY <3>3 DEF Total
  <2> QED BY <2>1, <2>2
<1>4. /\ Held \in Nat
      /\ Held = Below(Len(stack)).gas
                + Below(Len(stack)).spill + frame.gas + frame.spill
  <2>1. Len(stack) \in 0..Len(stack)
    BY <1>1
  <2>2. PICK a, b, x, y \in Nat :
           /\ a = Below(Len(stack)).gas /\ b = Below(Len(stack)).spill
           /\ x = frame.gas /\ y = frame.spill
    BY <1>2, <1>3, <2>1
  <2>3. TotalGas = a + x /\ TotalSpill = b + y
    BY <2>2 DEF TotalGas, TotalSpill
  <2>4. Held = (a + x) + (b + y)
    BY <2>3 DEF Held
  <2>5. (a + x) + (b + y) \in Nat /\ (a + x) + (b + y) = a + b + x + y
    OBVIOUS
  <2> QED BY <2>2, <2>4, <2>5
<1> QED BY <1>1, <1>2, <1>3, <1>4, Amounts, GrowthType

(* No frame below one that is not static is static.                        *)
LEMMA NoStaticBelow ==
  ASSUME LedgerOK, StaticOK, ~frame.static
  PROVE  \A i \in 1..Len(stack) : ~EntersStatic(i)
<1>1. \A j \in 1..Len(stack) : ~stack[j].parent.static
  BY DEF StaticOK
<1>2. ASSUME NEW i \in 1..Len(stack) PROVE ~EntersStatic(i)
  <2>1. CASE i = Len(stack)
    BY <2>1 DEF EntersStatic
  <2>2. CASE i # Len(stack)
    <3>1. Len(stack) \in Nat
      BY StateFacts
    <3>2. i + 1 \in 1..Len(stack)
      BY <2>2, <3>1
    <3> QED BY <1>1, <2>2, <3>2 DEF EntersStatic
  <2> QED BY <2>1, <2>2
<1> QED BY <1>2

(* A turn in the frame that makes progress keeps the invariant.            *)
LEMMA StayKeeps ==
  ASSUME CallInv, Running, NEW f, NEW w, Progress(f, w), Stay(f, w, TRUE),
         UNCHANGED totals
  PROVE  CallInv'
<1>1. /\ frame' = f /\ world' = w /\ fatal' = FALSE
      /\ steps' = (IF steps = 0 THEN 0 ELSE steps - 1)
      /\ interpreting' = interpreting /\ fork' = fork /\ stack' = stack
      /\ saved' = saved /\ totals' = totals
  BY DEF Stay, Turn
<1>2. LedgerOK /\ BudgetOK /\ PoolsOK /\ StaticOK
  BY DEF CallInv
<1>3. frame.status = "Running" /\ interpreting = TRUE
  BY DEF Running, CallInv, LedgerOK, TypeOK
<1>4. /\ f \in Frame /\ WorldOK(w) /\ f.reservoir = frame.reservoir
      /\ f.static = frame.static /\ f.depth = frame.depth
      /\ f.gas \in Nat /\ f.spill \in Nat /\ f.state_gas \in Nat
      /\ f.refund \in Int
  BY DEF Progress, Frame
<1>5. /\ \A i \in 0..Len(stack) : /\ Below(i)' = Below(i)
                                  /\ Reservoir(i)' = Reservoir(i)
                                  /\ Charge(i)' = Charge(i)
                                  /\ EntryWorld(i)' = EntryWorld(i)
      /\ \A i \in 1..Len(stack) : EntersStatic(i)' = EntersStatic(i)
  BY <1>1, <1>4 DEF Below, Reservoir, Charge, EntryWorld, EntersStatic
<1>6. PICK n \in Nat : n = Len(stack) /\ n \in 0..Len(stack)
  BY <1>2, StateFacts
<1>7. Held' = Below(n).gas + Below(n).spill + f.gas + f.spill
  <2>1. Below(n)' = Below(n)
    BY <1>5, <1>6
  <2>2. Held' = Below(n).gas + f.gas + (Below(n).spill + f.spill)
    BY <1>1, <1>6, <2>1 DEF Held, TotalGas, TotalSpill
  <2>3. Below(n).gas \in Nat /\ Below(n).spill \in Nat
    BY <1>2, <1>6, StateFacts
  <2> QED BY <1>4, <2>1, <2>2, <2>3
<1>8. LedgerOK'
  <2>1. TypeOK'
    <3>1. TypeOK /\ w \in World /\ steps' \in Nat
      BY <1>1, <1>2, <1>4 DEF LedgerOK, TypeOK, WorldOK
    <3> QED BY <1>1, <1>4, <3>1 DEF TypeOK
  <2>2. TotalsAddUp'
    BY <1>1, <1>2 DEF LedgerOK, TotalsAddUp, Below
  <2> QED BY <1>1, <1>2, <1>4, <2>1, <2>2 DEF LedgerOK
<1>9. BudgetOK'
  <2>1. Held' \in Nat /\ Held \in Nat /\ InitialGas[fork] \in Nat
        /\ Held - Held' = (frame.gas + frame.spill) - (f.gas + f.spill)
    <3>1. /\ Held \in Nat /\ InitialGas[fork] \in Nat
          /\ Held = Below(n).gas + Below(n).spill + frame.gas + frame.spill
          /\ frame.gas \in Nat /\ frame.spill \in Nat
          /\ Below(n).gas \in Nat /\ Below(n).spill \in Nat
      BY <1>2, <1>6, StateFacts
    <3> QED BY <1>4, <1>7, <3>1
  <2>2. Held' <= Held /\ (f.status = "Running" => Held' < Held)
    <3>1. /\ f.gas + f.spill <= frame.gas + frame.spill
          /\ f.status = "Running" => f.gas + f.spill < frame.gas + frame.spill
      BY DEF Progress
    <3>2. frame.gas \in Nat /\ frame.spill \in Nat
      BY <1>2, StateFacts
    <3> QED BY <1>4, <2>1, <3>1, <3>2
  <2>3. Below(n).magnitude + Magnitude(f.refund)
           <= Earned(InitialGas[fork] - Held')
    <3>1. PICK a, b, c : /\ a = InitialGas[fork] - Held
                         /\ b = Held - Held' /\ c = InitialGas[fork] - Held'
      OBVIOUS
    <3>2. a \in Int /\ b \in Int /\ c = a + b
      BY <2>1, <3>1
    <3>3. Earned(c) = Earned(a) + Earned(b) /\ Earned(a) \in Int
          /\ Earned(b) \in Int
      BY <3>2, EarnedFacts
    <3>4. Below(n).magnitude + Magnitude(frame.refund) <= Earned(a)
      BY <1>2, <1>6, <3>1 DEF BudgetOK
    <3>5. Magnitude(f.refund) <= Magnitude(frame.refund) + Earned(b)
      BY <2>1, <3>1 DEF Progress
    <3>6. /\ Magnitude(f.refund) \in Nat /\ Magnitude(frame.refund) \in Nat
          /\ Below(n).magnitude \in Nat
      BY <1>2, <1>4, <1>6, StateFacts, MagnitudeFacts
    <3> QED BY <3>1, <3>3, <3>4, <3>5, <3>6
  <2>4. steps' >= 3 * Held' + 2 * Len(stack)
                    + IF f.status = "Running" THEN 2 ELSE 1
    <3>1. steps >= 3 * Held + 2 * Len(stack) + 2 /\ steps \in Nat
          /\ Len(stack) \in Nat
      BY <1>2, <1>3, StateFacts DEF BudgetOK
    <3> QED BY <1>1, <2>1, <2>2, <3>1
  <2>5. Held' <= InitialGas[fork]
    BY <1>2, <2>1, <2>2 DEF BudgetOK
  <2>6. Below(n)' = Below(n)
    BY <1>5, <1>6
  <2> QED BY <1>1, <1>3, <1>6, <2>3, <2>4, <2>5, <2>6 DEF BudgetOK
<1>10. PoolsOK'
  <2>1. frame_succeeded(frame)
    BY <1>3 DEF frame_succeeded
  <2>2. Below(n)' = Below(n) /\ Reservoir(0)' = Reservoir(0)
    BY <1>5, <1>6
  <2>3. ASSUME fork >= Amsterdam
        PROVE  IF frame_succeeded(f) THEN StateGasTaken' = Growth(w)
               ELSE f.spill = 0 /\ f.state_gas = f.reservoir
    <3>1. StateGasTaken = Growth(world)
      BY <1>2, <2>1, <2>3 DEF PoolsOK
    <3>2. StateGasTaken = InitialStateGas[fork] - frame.state_gas
                            + (Below(n).spill + frame.spill)
      BY <1>6 DEF StateGasTaken, TotalSpill
    <3>3. StateGasTaken' = InitialStateGas[fork] - f.state_gas
                             + (Below(n).spill + f.spill)
      BY <1>1, <1>6, <2>2 DEF StateGasTaken, TotalSpill
    <3>4. CASE frame_succeeded(f)
      <4>1. f.spill - f.state_gas - Growth(w)
              = frame.spill - frame.state_gas - Growth(world)
        BY <2>3, <3>4 DEF Progress
      <4>2. /\ Growth(w) \in Nat /\ Growth(world) \in Nat
            /\ InitialStateGas[fork] \in Nat /\ frame.spill \in Nat
            /\ frame.state_gas \in Nat /\ Below(n).spill \in Nat
        BY <1>2, <1>4, <1>6, StateFacts, GrowthType
      <4>3. StateGasTaken' = Growth(w)
        <5>1. InitialStateGas[fork] - frame.state_gas
                + (Below(n).spill + frame.spill) = Growth(world)
          BY <3>1, <3>2
        <5>2. InitialStateGas[fork] - f.state_gas
                + (Below(n).spill + f.spill) = Growth(w)
          BY <1>4, <4>1, <4>2, <5>1
        <5> QED BY <3>3, <5>2
      <4> QED BY <3>4, <4>3
    <3>5. CASE ~frame_succeeded(f)
      BY <2>3, <3>5 DEF Progress
    <3> QED BY <3>4, <3>5
  <2>4. f.status = "Exceptional" => f.gas = 0
    BY DEF Progress
  <2>5. fork < Amsterdam => /\ f.spill = frame.spill
                            /\ f.state_gas = frame.state_gas
    BY DEF Progress
  <2>6. frame_succeeded(frame)' = frame_succeeded(f) /\ Growth(world)' = Growth(w)
    BY <1>1 DEF frame_succeeded, Growth
  <2>7. ASSUME fork >= Amsterdam
        PROVE  (/\ \A i \in 0..Len(stack) :
                      InitialStateGas[fork] - Reservoir(i) + Below(i).spill
                          = Growth(EntryWorld(i)) + Charge(i)
                /\ IF frame_succeeded(frame) THEN StateGasTaken = Growth(world)
                   ELSE frame.spill = 0 /\ frame.state_gas = frame.reservoir)'
    <3>1. ASSUME NEW i \in 0..Len(stack)
          PROVE  (InitialStateGas[fork] - Reservoir(i) + Below(i).spill
                          = Growth(EntryWorld(i)) + Charge(i))'
      <4>1. InitialStateGas[fork] - Reservoir(i) + Below(i).spill
                          = Growth(EntryWorld(i)) + Charge(i)
        BY <1>2, <2>7 DEF PoolsOK
      <4>2. Growth(EntryWorld(i))' = Growth(EntryWorld(i))
        BY <1>5 DEF Growth
      <4> QED BY <1>1, <1>5, <4>1, <4>2
    <3> QED BY <1>1, <2>3, <2>6, <2>7, <3>1
  <2>8. ASSUME fork < Amsterdam
        PROVE  (/\ \A i \in 0..Len(stack) :
                      /\ Reservoir(i) = InitialStateGas[fork]
                      /\ Below(i).spill = 0
                      /\ Charge(i) = 0
                /\ frame.spill = 0
                /\ frame.state_gas = InitialStateGas[fork])'
    BY <1>1, <1>2, <1>5, <2>5, <2>8 DEF PoolsOK
  <2> QED BY <1>1, <1>2, <2>2, <2>4, <2>7, <2>8 DEF PoolsOK
<1>11. StaticOK'
  <2>1. CASE frame.static
    <3>1. w = world
      BY <2>1 DEF Progress
    <3> QED BY <1>1, <1>2, <1>4, <1>5, <3>1
            DEF StaticOK, StaticFramesOnlyRead
  <2>2. CASE ~frame.static
    <3>1. \A i \in 1..Len(stack) : ~EntersStatic(i)
      BY <1>2, <2>2, NoStaticBelow
    <3> QED BY <1>1, <1>2, <1>4, <1>5, <3>1
            DEF StaticOK, StaticFramesOnlyRead
  <2> QED BY <2>1, <2>2
<1> QED BY <1>8, <1>9, <1>10, <1>11 DEF CallInv

-----------------------------------------------------------------------------
(* A turn that suspends the frame as parent and enters a child on w.       *)
NewAccount(charged) == IF charged THEN StateNewAccount ELSE 0

Opens(parent, charged, gas, static, w) ==
    /\ Alike(frame, parent)
    /\ charged \in BOOLEAN /\ gas \in Nat /\ static \in BOOLEAN /\ WorldOK(w)
    /\ parent.gas + parent.spill + gas < frame.gas + frame.spill
    /\ fork >= Amsterdam =>
          /\ parent.spill - parent.state_gas
                = frame.spill - frame.state_gas + NewAccount(charged)
          /\ Growth(w) = Growth(world) + NewAccount(charged)
    /\ fork < Amsterdam =>
          /\ ~charged
          /\ parent.spill = frame.spill /\ parent.state_gas = frame.state_gas
    /\ frame.static => static
    /\ static => w = world

(* Entering a child keeps the invariant.                                   *)
LEMMA EnterKeeps ==
  ASSUME CallInv, Running, NEW kind \in {"ResumeCall", "ResumeCreate"},
         NEW parent, NEW charged, NEW gas, NEW static, NEW w,
         Opens(parent, charged, gas, static, w),
         kind = "ResumeCreate" => ~static,
         frame.depth # CallDepthLimit,
         Enter(kind, parent, charged, gas, static, world, w),
         totals' = Append(totals, Plus(Below(Len(stack)), Last(stack').parent))
  PROVE  CallInv'
<1>1. LedgerOK /\ BudgetOK /\ PoolsOK /\ StaticOK
  BY DEF CallInv
<1>2. PICK n \in Nat : n = Len(stack) /\ n \in 0..Len(stack)
  BY <1>1, StateFacts
<1>3. PICK m \in Nat : m = n + 1
  BY <1>2
<1>4. PICK child : child = EntryFrame(gas, parent.state_gas, static, frame.depth + 1)
  OBVIOUS
<1>5. PICK p : p = [parent EXCEPT !.state_gas = 0]
  OBVIOUS
<1>6. PICK c : c = [kind |-> kind, charged |-> charged, parent |-> p]
  OBVIOUS
<1>7. PICK total : total = Plus(Below(n), p)
  OBVIOUS
<1>8. /\ parent \in Frame /\ parent.gas \in Nat /\ parent.spill \in Nat
      /\ parent.state_gas \in Nat /\ parent.refund = frame.refund
      /\ parent.reservoir = frame.reservoir /\ parent.static = frame.static
      /\ parent.depth = n /\ parent.status = "Running"
      /\ gas \in Nat /\ static \in BOOLEAN /\ charged \in BOOLEAN /\ WorldOK(w)
  BY <1>1, <1>2, StateFacts DEF Opens, Alike, Frame, Running
<1>9. /\ p \in Frame /\ p.state_gas = 0 /\ p.gas = parent.gas
      /\ p.spill = parent.spill /\ p.refund = frame.refund
      /\ p.reservoir = frame.reservoir /\ p.static = frame.static
      /\ p.depth = n /\ p.status = "Running"
  BY <1>5, <1>8 DEF Frame
<1>10. /\ child \in Frame /\ child.gas = gas /\ child.spill = 0
       /\ child.state_gas = parent.state_gas /\ child.refund = 0
       /\ child.reservoir = parent.state_gas /\ child.static = static
       /\ child.depth = m /\ child.status = "Running"
  <2>1. frame.depth + 1 = m
    BY <1>1, <1>2, <1>3, StateFacts
  <2> QED BY <1>3, <1>4, <1>8, <2>1 DEF EntryFrame, Frame, Statuses
<1>11. /\ frame' = child /\ world' = w
       /\ fatal' = ~(Representable(child) /\ Len(stack) < CallDepthLimit)
       /\ steps' = (IF steps = 0 THEN 0 ELSE steps - 1)
       /\ interpreting' = interpreting /\ fork' = fork
       /\ stack' = Append(stack, c) /\ saved' = Append(saved, world)
  BY <1>4, <1>5, <1>6 DEF Enter, Turn
<1>12. /\ c \in Continuation /\ c.parent = p /\ c.kind = kind
       /\ c.charged = charged
  BY <1>6, <1>8, <1>9 DEF Continuation
<1>13. /\ stack' \in Seq(Continuation) /\ Len(stack') = m
       /\ \A i \in 1..n : stack'[i] = stack[i]
       /\ stack'[m] = c /\ Last(stack') = c
  <2>1. stack \in Seq(Continuation)
    BY <1>1 DEF LedgerOK, TypeOK
  <2> QED BY <1>2, <1>3, <1>11, <1>12, <2>1, PushFacts
<1>14. /\ saved' \in Seq(World) /\ Len(saved') = m
       /\ \A i \in 1..n : saved'[i] = saved[i]
       /\ saved'[m] = world
  <2>1. saved \in Seq(World) /\ Len(saved) = n /\ world \in World
    BY <1>1, <1>2 DEF LedgerOK, TypeOK
  <2> QED BY <1>2, <1>3, <1>11, <2>1, PushFacts
<1>15. /\ Below(n) \in Total /\ Below(n).gas \in Nat /\ Below(n).spill \in Nat
       /\ Below(n).magnitude \in Nat /\ Below(n).refund \in Int
  <2>1. Below(n) \in Total
    BY <1>1, <1>2, StateFacts
  <2> QED BY <2>1 DEF Total
<1>16. /\ total \in Total /\ total.gas = Below(n).gas + parent.gas
       /\ total.spill = Below(n).spill + parent.spill
       /\ total.magnitude = Below(n).magnitude + Magnitude(frame.refund)
  <2>1. frame.refund \in Int /\ Magnitude(frame.refund) \in Nat
    BY <1>1, StateFacts, MagnitudeFacts
  <2>2. /\ total.gas = Below(n).gas + p.gas
        /\ total.spill = Below(n).spill + p.spill
        /\ total.refund = Below(n).refund + p.refund
        /\ total.magnitude = Below(n).magnitude + Magnitude(p.refund)
        /\ total = [gas |-> total.gas, spill |-> total.spill,
                    refund |-> total.refund, magnitude |-> total.magnitude]
    BY <1>7 DEF Plus
  <2>3. /\ total.gas \in Nat /\ total.spill \in Nat /\ total.refund \in Int
        /\ total.magnitude \in Nat
    <3>1. /\ p.gas \in Nat /\ p.spill \in Nat /\ p.refund \in Int
          /\ Magnitude(p.refund) \in Nat
      BY <1>8, <1>9, <2>1
    <3>2. PICK a, b, d, x, y, z \in Nat :
             /\ a = Below(n).gas /\ b = Below(n).spill /\ d = Below(n).magnitude
             /\ x = p.gas /\ y = p.spill /\ z = Magnitude(p.refund)
      BY <1>15, <3>1
    <3>3. PICK e, r \in Int : e = Below(n).refund /\ r = p.refund
      BY <1>15, <3>1
    <3>4. total.gas = a + x /\ total.spill = b + y
      BY <2>2, <3>2
    <3>5. total.refund = e + r /\ total.magnitude = d + z
      BY <2>2, <3>2, <3>3
    <3>6. a + x \in Nat /\ b + y \in Nat /\ e + r \in Int /\ d + z \in Nat
      OBVIOUS
    <3> QED BY <3>4, <3>5, <3>6
  <2>4. total \in Total
    BY <2>2, <2>3 DEF Total
  <2> QED BY <1>9, <2>2, <2>4
<1>17. /\ totals' \in Seq(Total) /\ Len(totals') = m
       /\ \A i \in 1..n : totals'[i] = totals[i]
       /\ totals'[m] = total
  <2>1. totals \in Seq(Total) /\ Len(totals) = n
    BY <1>1, <1>2 DEF LedgerOK, TotalsAddUp
  <2>2. totals' = Append(totals, total)
    BY <1>2, <1>7, <1>12, <1>13
  <2> QED BY <1>2, <1>3, <1>16, <2>1, <2>2, PushFacts
<1>18. /\ \A i \in 0..n : Below(i)' = Below(i)
       /\ Below(m)' = total
  BY <1>2, <1>3, <1>17 DEF Below
<1>19. /\ \A i \in 0..n : Reservoir(i)' = Reservoir(i)
       /\ Reservoir(m)' = parent.state_gas
  <2>1. Reservoir(m)' = parent.state_gas
    BY <1>10, <1>11, <1>13 DEF Reservoir
  <2>2. ASSUME NEW i \in 0..n, i # n PROVE Reservoir(i)' = Reservoir(i)
    <3>1. i + 1 \in 1..n /\ i # m
      BY <1>2, <1>3, <2>2
    <3> QED BY <1>2, <1>13, <2>2, <3>1 DEF Reservoir
  <2>3. Reservoir(n)' = Reservoir(n)
    BY <1>2, <1>3, <1>9, <1>12, <1>13 DEF Reservoir
  <2> QED BY <2>1, <2>2, <2>3
<1>20. /\ \A i \in 0..n : Charge(i)' = Charge(i)
       /\ Charge(m)' = NewAccount(charged)
       /\ \A i \in 0..n : EntryWorld(i)' = EntryWorld(i)
       /\ EntryWorld(m)' = world
  BY <1>2, <1>3, <1>12, <1>13, <1>14 DEF Charge, EntryWorld, NewAccount
<1>21. /\ \A i \in 1..n : EntersStatic(i)' = EntersStatic(i)
       /\ EntersStatic(m)' = static
  <2>1. EntersStatic(m)' = static
    BY <1>10, <1>11, <1>13 DEF EntersStatic
  <2>2. ASSUME NEW i \in 1..n, i # n PROVE EntersStatic(i)' = EntersStatic(i)
    <3>1. i + 1 \in 1..n /\ i # m
      BY <1>2, <1>3, <2>2
    <3> QED BY <1>2, <1>13, <2>2, <3>1 DEF EntersStatic
  <2>3. EntersStatic(n)' = EntersStatic(n)
    BY <1>2, <1>3, <1>9, <1>12, <1>13 DEF EntersStatic
  <2> QED BY <2>1, <2>2, <2>3
<1>A. PICK bg, bs, pg, ps, px, fg, fs, fx \in Nat :
         /\ bg = Below(n).gas /\ bs = Below(n).spill
         /\ pg = parent.gas /\ ps = parent.spill /\ px = parent.state_gas
         /\ fg = frame.gas /\ fs = frame.spill /\ fx = frame.state_gas
  BY <1>1, <1>8, <1>15, StateFacts
<1>22. /\ Held' \in Nat /\ Held \in Nat /\ Held' < Held
       /\ Held' = bg + pg + bs + ps + gas
  <2>1. Held' = total.gas + gas + (total.spill + 0)
    BY <1>10, <1>11, <1>13, <1>18 DEF Held, TotalGas, TotalSpill
  <2>2. Held = bg + bs + fg + fs
    BY <1>1, <1>2, <1>A, StateFacts
  <2>3. pg + ps + gas < fg + fs
    BY <1>A DEF Opens
  <2>4. total.gas = bg + pg /\ total.spill = bs + ps
    BY <1>16, <1>A
  <2>5. Held' = bg + pg + bs + ps + gas
    BY <1>8, <2>1, <2>4
  <2> QED BY <1>8, <2>2, <2>3, <2>5
<1>23. BudgetOK'
  <2>1. InitialGas[fork] \in Nat /\ Held <= InitialGas[fork]
    BY <1>1, StateFacts DEF BudgetOK
  <2>2. Below(n).magnitude + Magnitude(frame.refund)
           <= Earned(InitialGas[fork] - Held')
    <3>1. PICK a, b : /\ a = InitialGas[fork] - Held
                      /\ b = InitialGas[fork] - Held'
      OBVIOUS
    <3>2. a \in Int /\ b \in Int /\ a <= b
      BY <1>22, <2>1, <3>1
    <3>3. Earned(a) <= Earned(b) /\ Earned(a) \in Int /\ Earned(b) \in Int
      BY <3>2, EarnedFacts
    <3>4. Below(n).magnitude + Magnitude(frame.refund) <= Earned(a)
      BY <1>1, <1>2, <3>1 DEF BudgetOK
    <3>5. Magnitude(frame.refund) \in Nat
      BY <1>1, StateFacts, MagnitudeFacts
    <3> QED BY <1>15, <3>1, <3>3, <3>4, <3>5
  <2>3. Magnitude(child.refund) = 0
    BY <1>10 DEF Magnitude
  <2>4. (Below(m)').magnitude + Magnitude(child.refund)
           <= Earned(InitialGas[fork] - Held')
    <3>1. Magnitude(frame.refund) \in Nat
      BY <1>1, StateFacts, MagnitudeFacts
    <3>2. PICK q \in Nat : q = Below(n).magnitude + Magnitude(frame.refund)
      BY <1>15, <3>1
    <3>3. (Below(m)').magnitude = q
      BY <1>16, <1>18, <3>2
    <3>4. q + 0 = q /\ q <= Earned(InitialGas[fork] - Held')
      BY <2>2, <3>2
    <3> QED BY <2>3, <3>3, <3>4
  <2>5. interpreting = TRUE /\ frame.status = "Running"
    BY <1>1 DEF Running, LedgerOK, TypeOK
  <2>6. steps >= 3 * Held + 2 * n + 2 /\ steps \in Nat
    BY <1>1, <1>2, <2>5, StateFacts DEF BudgetOK
  <2>7. steps' >= 3 * Held' + 2 * m + 2
    BY <1>2, <1>3, <1>11, <1>22, <2>6
  <2>8. Held' <= InitialGas[fork]
    BY <1>22, <2>1
  <2> QED BY <1>10, <1>11, <1>13, <2>4, <2>5, <2>7, <2>8 DEF BudgetOK
<1>24. PoolsOK'
  <2>1. 0 \in 0..n /\ frame_succeeded(frame) /\ frame_succeeded(child)
    BY <1>2, <1>10 DEF frame_succeeded, Running
  <2>2. Reservoir(0)' = InitialStateGas[fork]
    BY <1>1, <1>19, <2>1 DEF PoolsOK
  <2>3. /\ InitialStateGas[fork] \in Nat /\ Growth(world) \in Nat
        /\ Growth(w) \in Nat /\ frame.spill \in Nat
        /\ frame.state_gas \in Nat /\ NewAccount(charged) \in Nat
    BY <1>1, <1>8, StateFacts, GrowthType, Prices DEF NewAccount
  <2>4. ASSUME fork >= Amsterdam
        PROVE  /\ InitialStateGas[fork] - parent.state_gas + total.spill
                     = Growth(world) + NewAccount(charged)
               /\ InitialStateGas[fork] - parent.state_gas + (total.spill + 0)
                     = Growth(w)
    <3>1. InitialStateGas[fork] - frame.state_gas
            + (Below(n).spill + frame.spill) = Growth(world)
      BY <1>1, <1>2, <2>1, <2>4 DEF PoolsOK, StateGasTaken, TotalSpill
    <3>2. /\ parent.spill - parent.state_gas
                = frame.spill - frame.state_gas + NewAccount(charged)
          /\ Growth(w) = Growth(world) + NewAccount(charged)
      BY <2>4 DEF Opens
    <3>3. InitialStateGas[fork] - parent.state_gas + total.spill
                     = Growth(world) + NewAccount(charged)
      <4>1. PICK s, g, d \in Nat :
               /\ s = InitialStateGas[fork] /\ g = Growth(world)
               /\ d = NewAccount(charged)
        BY <2>3
      <4>2. s - fx + (bs + fs) = g /\ ps - px = fs - fx + d
        BY <1>A, <3>1, <3>2, <4>1
      <4>3. total.spill = bs + ps
        BY <1>16, <1>A
      <4>4. s - px + (bs + ps) = g + d
        BY <4>2
      <4> QED BY <1>A, <4>1, <4>3, <4>4
    <3>4. total.spill \in Nat
      BY <1>8, <1>15, <1>16
    <3>5. total.spill + 0 = total.spill
      BY <3>4
    <3> QED BY <3>2, <3>3, <3>5
  <2>5. ASSUME fork >= Amsterdam, NEW i \in 0..m
        PROVE  (InitialStateGas[fork] - Reservoir(i) + Below(i).spill
                          = Growth(EntryWorld(i)) + Charge(i))'
    <3>1. CASE i = m
      BY <1>11, <1>18, <1>19, <1>20, <2>4, <2>5, <3>1 DEF Growth
    <3>2. CASE i # m
      <4>1. i \in 0..n
        BY <1>2, <1>3, <3>2
      <4>2. InitialStateGas[fork] - Reservoir(i) + Below(i).spill
                          = Growth(EntryWorld(i)) + Charge(i)
        BY <1>1, <1>2, <2>5, <4>1 DEF PoolsOK
      <4>3. Growth(EntryWorld(i))' = Growth(EntryWorld(i))
        BY <1>20, <4>1 DEF Growth
      <4> QED BY <1>11, <1>18, <1>19, <1>20, <4>1, <4>2, <4>3
    <3> QED BY <3>1, <3>2
  <2>6. fork >= Amsterdam => (StateGasTaken = Growth(world))'
    <3>1. Growth(world)' = Growth(w)
      BY <1>11 DEF Growth
    <3>2. StateGasTaken' = InitialStateGas[fork] - parent.state_gas
                             + (total.spill + 0)
      BY <1>10, <1>11, <1>13, <1>18 DEF StateGasTaken, TotalSpill
    <3> QED BY <2>4, <3>1, <3>2
  <2>7. ASSUME fork < Amsterdam
        PROVE  /\ \A i \in 0..m : (/\ Reservoir(i) = InitialStateGas[fork]
                                   /\ Below(i).spill = 0
                                   /\ Charge(i) = 0)'
               /\ parent.state_gas = InitialStateGas[fork]
    <3>1. /\ \A i \in 0..n : /\ Reservoir(i) = InitialStateGas[fork]
                             /\ Below(i).spill = 0
                             /\ Charge(i) = 0
          /\ frame.spill = 0 /\ frame.state_gas = InitialStateGas[fork]
      BY <1>1, <1>2, <2>7 DEF PoolsOK
    <3>2. ~charged /\ parent.spill = 0
          /\ parent.state_gas = InitialStateGas[fork]
      BY <2>7, <3>1 DEF Opens
    <3>3. total.spill = 0 /\ NewAccount(charged) = 0
      BY <1>2, <1>16, <3>1, <3>2 DEF NewAccount
    <3>4. \A i \in 0..m : i \in 0..n \/ i = m
      BY <1>2, <1>3
    <3> QED BY <1>11, <1>18, <1>19, <1>20, <3>1, <3>2, <3>3, <3>4
  <2>8. child.status # "Exceptional" /\ frame_succeeded(frame)'
    BY <1>10, <1>11, <2>1 DEF frame_succeeded
  <2> QED BY <1>10, <1>11, <1>13, <2>2, <2>5, <2>6, <2>7, <2>8 DEF PoolsOK
<1>25. LedgerOK'
  <2>1. Representable(child)
    <3>1. /\ InitialGas[fork] \in Nat /\ Held <= InitialGas[fork]
          /\ InitialStateGas[fork] \in Nat /\ fork \in Forks
      BY <1>1, StateFacts DEF BudgetOK
    <3>2. Held' <= InitialGas[fork] /\ child.gas + child.spill <= Held'
      BY <1>8, <1>10, <1>22, <3>1
    <3>3. child.state_gas <= InitialStateGas[fork] + Held'
      <4>1. CASE fork >= Amsterdam
        <5>1. InitialStateGas[fork] - parent.state_gas + (total.spill + 0)
                     = (Growth(world))'
          BY <1>10, <1>11, <1>13, <1>18, <1>24, <4>1
             DEF PoolsOK, StateGasTaken, TotalSpill, frame_succeeded
        <5>2. (Growth(world))' \in Nat
          BY <1>8, <1>11, GrowthType DEF Growth
        <5>3. total.spill = bs + ps
          BY <1>16, <1>A
        <5>4. PICK s, g \in Nat : s = InitialStateGas[fork] /\ g = Growth(world)'
          BY <3>1, <5>2
        <5>5. s - px + (bs + ps + 0) = g
          BY <1>A, <5>1, <5>3, <5>4
        <5>6. px <= s + Held'
          BY <1>8, <1>22, <5>5
        <5> QED BY <1>10, <1>A, <5>4, <5>6
      <4>2. CASE fork < Amsterdam
        BY <1>10, <1>11, <1>22, <1>24, <3>1, <4>2 DEF PoolsOK
      <4> QED BY <3>1, <4>1, <4>2, Amounts
    <3>4. Magnitude(child.refund) <= Earned(InitialGas[fork] - Held')
      <4>1. PICK a : a = InitialGas[fork] - Held'
        OBVIOUS
      <4>2. a \in Int /\ 0 <= a
        BY <1>22, <3>1, <3>2, <4>1
      <4>3. 0 <= Earned(a)
        BY <4>2, EarnedFacts
      <4> QED BY <1>10, <4>1, <4>3 DEF Magnitude
    <3> QED BY <1>10, <1>22, <3>1, <3>2, <3>3, <3>4, Fits
  <2>2. Len(stack) < CallDepthLimit /\ m <= CallDepthLimit
    <3>1. n <= CallDepthLimit /\ n # CallDepthLimit
      BY <1>1, <1>2, StateFacts DEF LedgerOK
    <3> QED BY <1>2, <1>3, <3>1, Prices
  <2>3. fatal' = FALSE
    BY <1>11, <2>1, <2>2
  <2>4. TypeOK'
    <3>1. TypeOK /\ w \in World /\ steps' \in Nat
      BY <1>1, <1>8, <1>11 DEF LedgerOK, TypeOK, WorldOK
    <3> QED BY <1>10, <1>11, <1>13, <1>14, <2>3, <3>1 DEF TypeOK
  <2>5. \A i \in 1..m : i \in 1..n \/ i = m
    BY <1>2, <1>3
  <2>6. TotalsAddUp'
    <3>1. ASSUME NEW i \in 1..n
          PROVE  totals'[i] = Plus(Below(i - 1)', stack'[i].parent)
      <4>1. totals[i] = Plus(Below(i - 1), stack[i].parent)
        BY <1>1, <1>2 DEF LedgerOK, TotalsAddUp
      <4>2. i - 1 \in 0..n
        BY <1>2
      <4>3. Below(i - 1)' = Below(i - 1)
        BY <1>18, <4>2
      <4> QED BY <1>13, <1>17, <4>1, <4>3
    <3>2. totals'[m] = Plus(Below(m - 1)', stack'[m].parent)
      <4>1. m - 1 = n /\ n \in 0..n
        BY <1>2, <1>3
      <4>2. Below(m - 1)' = Below(n)
        BY <1>18, <4>1
      <4> QED BY <1>7, <1>12, <1>13, <1>17, <4>2
    <3> QED BY <1>13, <1>17, <2>5, <3>1, <3>2 DEF TotalsAddUp
  <2>7. ASSUME NEW i \in 1..m
        PROVE  /\ WorldOK(saved'[i])
               /\ stack'[i].parent.state_gas = 0
               /\ stack'[i].parent.status = "Running"
               /\ stack'[i].parent.depth = i - 1
    <3>1. CASE i \in 1..n
      BY <1>1, <1>2, <1>13, <1>14, <3>1 DEF LedgerOK
    <3>2. CASE i = m
      BY <1>1, <1>2, <1>3, <1>9, <1>12, <1>13, <1>14, <3>2 DEF LedgerOK
    <3> QED BY <2>5, <3>1, <3>2
  <2>8. WorldOK(world)'
    BY <1>8, <1>11 DEF WorldOK
  <2> QED BY <1>13, <1>17, <2>2, <2>3, <2>4, <2>6, <2>7, <2>8
          DEF LedgerOK, WorldOK
<1>26. StaticOK'
  <2>1. \A i \in 1..m : i \in 1..n \/ i = m
    BY <1>2, <1>3
  <2>2. frame.static => static
    BY DEF Opens
  <2>3. ASSUME NEW i \in 1..m, stack'[i].parent.static
        PROVE  static /\ \A j \in i..m : stack'[j].parent.static
    <3>1. CASE i = m
      <4>1. i..m = {m}
        BY <1>3, <3>1
      <4> QED BY <1>9, <1>12, <1>13, <2>2, <2>3, <3>1, <4>1
    <3>2. CASE i \in 1..n
      <4>1. frame.static /\ \A j \in i..n : stack[j].parent.static
        BY <1>1, <1>2, <1>13, <2>3, <3>2 DEF StaticOK
      <4>2. \A j \in i..m : j = m \/ (j \in i..n /\ j \in 1..n)
        BY <1>2, <1>3, <3>2
      <4> QED BY <1>9, <1>12, <1>13, <2>2, <4>1, <4>2
    <3> QED BY <2>1, <3>1, <3>2
  <2>4. ASSUME NEW i \in 1..m, stack'[i].kind = "ResumeCreate"
        PROVE  ~EntersStatic(i)'
    <3>1. CASE i = m
      BY <1>12, <1>13, <1>21, <2>4, <3>1
    <3>2. CASE i \in 1..n
      BY <1>1, <1>2, <1>13, <1>21, <2>4, <3>2 DEF StaticOK
    <3> QED BY <2>1, <3>1, <3>2
  <2>5. ASSUME NEW i \in 1..m, EntersStatic(i)'
        PROVE  w = saved'[i] /\ \A j \in i..m : saved'[j] = saved'[i]
    <3>1. CASE i = m
      <4>1. i..m = {m}
        BY <1>3, <3>1
      <4>2. static
        BY <1>21, <2>5, <3>1
      <4> QED BY <1>14, <3>1, <4>1, <4>2 DEF Opens
    <3>2. CASE i \in 1..n
      <4>1. EntersStatic(i)
        BY <1>21, <2>5, <3>2
      <4>2. world = saved[i] /\ \A j \in i..n : saved[j] = saved[i]
        <5>1. Len(saved) = n
          BY <1>1, <1>2, StateFacts
        <5> QED BY <1>1, <1>2, <3>2, <4>1, <5>1
                DEF StaticOK, StaticFramesOnlyRead
      <4>3. w = world
        <5>1. frame.static
          BY <1>1, <3>2, <1>2, <4>1, NoStaticBelow
        <5> QED BY <2>2, <5>1 DEF Opens
      <4>4. \A j \in i..m : j = m \/ (j \in i..n /\ j \in 1..n)
        BY <1>2, <1>3, <3>2
      <4> QED BY <1>14, <3>2, <4>2, <4>3, <4>4
    <3> QED BY <2>1, <3>1, <3>2
  <2>6. StaticFramesOnlyRead'
    BY <1>11, <1>13, <1>14, <2>5 DEF StaticFramesOnlyRead
  <2> QED BY <1>10, <1>11, <1>13, <2>3, <2>4, <2>6 DEF StaticOK
<1> QED BY <1>23, <1>24, <1>25, <1>26 DEF CallInv

-----------------------------------------------------------------------------
(* A turn that gives the result of a done child to its parent p, which     *)
(* goes on as f on world w.                                                *)
Closes(p, f, w) ==
    /\ f \in Frame /\ WorldOK(w)
    /\ f.reservoir = p.reservoir /\ f.static = p.static
    /\ f.depth = p.depth /\ f.status = "Running"
    /\ f.gas + f.spill <= p.gas + p.spill + (frame.gas + frame.spill)
    /\ Magnitude(f.refund) <= Magnitude(p.refund) + Magnitude(frame.refund)
    /\ fork >= Amsterdam =>
          InitialStateGas[fork] - f.state_gas
              + (Below(Len(stack) - 1).spill + f.spill) = Growth(w)
    /\ fork < Amsterdam =>
          f.spill = 0 /\ f.state_gas = InitialStateGas[fork]
    /\ p.static => w \in {world, saved[Len(stack)]}

(* The parent on top of the stack.                                         *)
LEMMA ParentFacts ==
  ASSUME LedgerOK, stack # <<>>
  PROVE  /\ Len(stack) \in Nat /\ Len(stack) \in 1..Len(stack)
         /\ Len(stack) - 1 \in 0..Len(stack)
         /\ Last(stack) = stack[Len(stack)]
         /\ Last(saved) = saved[Len(stack)]
         /\ Last(stack) \in Continuation
         /\ Last(stack).parent \in Frame
         /\ Last(stack).parent.gas \in Nat /\ Last(stack).parent.spill \in Nat
         /\ Last(stack).parent.state_gas = 0
         /\ Last(stack).parent.refund \in Int
         /\ Last(stack).parent.depth = Len(stack) - 1
         /\ Last(stack).parent.status = "Running"
         /\ Last(stack).charged \in BOOLEAN
         /\ WorldOK(Last(saved))
         /\ Below(Len(stack)) = Plus(Below(Len(stack) - 1), Last(stack).parent)
<1>1. stack \in Seq(Continuation) /\ saved \in Seq(World)
      /\ Len(saved) = Len(stack)
  BY DEF LedgerOK, TypeOK
<1>2. /\ Len(stack) \in Nat /\ Len(stack) > 0
      /\ Last(stack) = stack[Len(stack)] /\ Last(stack) \in Continuation
  BY <1>1, PopFacts
<1>3. Last(saved) = saved[Len(stack)]
  BY <1>1 DEF Last
<1>4. Len(stack) \in 1..Len(stack) /\ Len(stack) - 1 \in 0..Len(stack)
      /\ Len(stack) # 0
  BY <1>2
<1>5. /\ Last(stack).parent.state_gas = 0
      /\ Last(stack).parent.depth = Len(stack) - 1
      /\ Last(stack).parent.status = "Running"
      /\ WorldOK(Last(saved))
  BY <1>2, <1>3, <1>4 DEF LedgerOK
<1>6. Last(stack).parent \in Frame /\ Last(stack).charged \in BOOLEAN
  BY <1>2 DEF Continuation
<1>7. /\ Last(stack).parent.gas \in Nat /\ Last(stack).parent.spill \in Nat
      /\ Last(stack).parent.refund \in Int
  BY <1>6 DEF Frame
<1>8. Below(Len(stack)) = Plus(Below(Len(stack) - 1), Last(stack).parent)
  BY <1>2, <1>4 DEF LedgerOK, TotalsAddUp, Below
<1> QED BY <1>2, <1>3, <1>4, <1>5, <1>6, <1>7, <1>8

(* Closing a child keeps the invariant.                                    *)
LEMMA ResumeKeeps ==
  ASSUME CallInv, Done, stack # <<>>, NEW f, NEW w,
         Closes(Last(stack).parent, f, w),
         Resume(f, w, TRUE), totals' = Front(totals)
  PROVE  CallInv'
<1>1. LedgerOK /\ BudgetOK /\ PoolsOK /\ StaticOK
  BY DEF CallInv
<1>2. PICK n \in Nat : n = Len(stack) /\ n \in 1..n
  BY <1>1, ParentFacts
<1>3. PICK k \in Nat : k = n - 1
  BY <1>2
<1>4. PICK p : p = stack[n].parent /\ p = Last(stack).parent
  BY <1>1, <1>2, ParentFacts
<1>5. /\ n \in 0..n /\ k \in 0..n /\ k + 1 = n /\ k # n /\ 0 \in 0..k
      /\ \A i \in 0..k : i \in 0..n
      /\ \A i \in 1..k : i \in 1..n
  BY <1>2, <1>3
<1>6. /\ f \in Frame /\ WorldOK(w)
      /\ f.reservoir = p.reservoir /\ f.static = p.static
      /\ f.depth = k /\ f.status = "Running" /\ f.gas \in Nat
      /\ f.spill \in Nat /\ f.state_gas \in Nat /\ f.refund \in Int
  <2>1. p.depth = k
    BY <1>1, <1>2, <1>3, <1>4, ParentFacts
  <2> QED BY <1>4, <2>1 DEF Closes, Frame
<1>7. /\ frame' = f /\ world' = w /\ fatal' = FALSE
      /\ steps' = (IF steps = 0 THEN 0 ELSE steps - 1)
      /\ interpreting' = interpreting /\ fork' = fork
      /\ stack' = Front(stack) /\ saved' = Front(saved)
  BY DEF Resume, Turn
<1>8. /\ stack \in Seq(Continuation) /\ saved \in Seq(World)
      /\ totals \in Seq(Total) /\ Len(saved) = n /\ Len(totals) = n
      /\ saved # <<>> /\ totals # <<>>
  BY <1>1, <1>2 DEF LedgerOK, TypeOK, TotalsAddUp
<1>9. /\ stack' \in Seq(Continuation) /\ Len(stack') = k
      /\ \A i \in 1..k : stack'[i] = stack[i]
  BY <1>2, <1>3, <1>7, <1>8, PopFacts
<1>10. /\ saved' \in Seq(World) /\ Len(saved') = k
       /\ \A i \in 1..k : saved'[i] = saved[i]
  BY <1>3, <1>7, <1>8, PopFacts
<1>11. /\ totals' \in Seq(Total) /\ Len(totals') = k
       /\ \A i \in 1..k : totals'[i] = totals[i]
  BY <1>3, <1>8, PopFacts
<1>12. \A i \in 0..k : Below(i)' = Below(i)
  BY <1>3, <1>11 DEF Below
<1>13. \A i \in 0..k : Reservoir(i)' = Reservoir(i)
  <2>1. ASSUME NEW i \in 0..k, i # k PROVE Reservoir(i)' = Reservoir(i)
    <3>1. i + 1 \in 1..k /\ i # n
      BY <1>3, <1>5, <2>1
    <3> QED BY <1>2, <1>9, <2>1, <3>1 DEF Reservoir
  <2>2. Reservoir(k)' = Reservoir(k)
    BY <1>2, <1>4, <1>5, <1>6, <1>7, <1>9 DEF Reservoir
  <2> QED BY <2>1, <2>2
<1>14. \A i \in 0..k : Charge(i)' = Charge(i) /\ EntryWorld(i)' = EntryWorld(i)
  BY <1>3, <1>9, <1>10 DEF Charge, EntryWorld
<1>15. \A i \in 1..k : EntersStatic(i)' = EntersStatic(i)
  <2>1. ASSUME NEW i \in 1..k, i # k PROVE EntersStatic(i)' = EntersStatic(i)
    <3>1. i + 1 \in 1..k /\ i # n
      BY <1>3, <1>5, <2>1
    <3> QED BY <1>2, <1>9, <2>1, <3>1 DEF EntersStatic
  <2>2. EntersStatic(k)' = EntersStatic(k)
    BY <1>2, <1>4, <1>5, <1>6, <1>7, <1>9 DEF EntersStatic
  <2> QED BY <2>1, <2>2
<1>16. PICK bg, bs, bm, pg, ps, pm, cg, cs, cm, fg, fs, fx, fm \in Nat :
          /\ bg = Below(k).gas /\ bs = Below(k).spill /\ bm = Below(k).magnitude
          /\ pg = p.gas /\ ps = p.spill /\ pm = Magnitude(p.refund)
          /\ cg = frame.gas /\ cs = frame.spill /\ cm = Magnitude(frame.refund)
          /\ fg = f.gas /\ fs = f.spill /\ fx = f.state_gas
          /\ fm = Magnitude(f.refund)
  <2>1. /\ Below(k).gas \in Nat /\ Below(k).spill \in Nat
        /\ Below(k).magnitude \in Nat
    BY <1>1, <1>2, <1>5, StateFacts
  <2>2. p.gas \in Nat /\ p.spill \in Nat /\ p.refund \in Int
    BY <1>1, <1>4, ParentFacts
  <2>3. frame.gas \in Nat /\ frame.spill \in Nat /\ frame.refund \in Int
    BY <1>1, StateFacts
  <2>4. /\ Magnitude(p.refund) \in Nat /\ Magnitude(frame.refund) \in Nat
        /\ Magnitude(f.refund) \in Nat
    BY <1>6, <2>2, <2>3, MagnitudeFacts
  <2> QED BY <1>6, <2>1, <2>2, <2>3, <2>4
<1>17. /\ Below(n).gas = bg + pg /\ Below(n).spill = bs + ps
       /\ Below(n).magnitude = bm + pm
  <2>1. Below(n) = Plus(Below(k), p)
    BY <1>1, <1>2, <1>3, <1>4, ParentFacts
  <2> QED BY <1>16, <2>1 DEF Plus
<1>18. /\ Held \in Nat /\ Held' \in Nat /\ Held' <= Held
  <2>1. Held = bg + pg + (bs + ps) + cg + cs
    BY <1>1, <1>2, <1>16, <1>17, StateFacts
  <2>2. Held' = bg + fg + (bs + fs)
    <3>1. Below(Len(stack))' = Below(k)'
      BY <1>9 DEF Below
    <3>2. Below(k)' = Below(k)
      BY <1>3, <1>12
    <3>3. TotalGas' = bg + fg
      BY <1>7, <1>16, <3>1, <3>2 DEF TotalGas
    <3>4. TotalSpill' = bs + fs
      BY <1>7, <1>16, <3>1, <3>2 DEF TotalSpill
    <3> QED BY <3>3, <3>4 DEF Held
  <2>3. fg + fs <= pg + ps + (cg + cs)
    BY <1>4, <1>16 DEF Closes
  <2> QED BY <2>1, <2>2, <2>3
<1>19. BudgetOK'
  <2>1. InitialGas[fork] \in Nat /\ Held <= InitialGas[fork]
    BY <1>1, StateFacts DEF BudgetOK
  <2>2. bm + fm <= Earned(InitialGas[fork] - Held')
    <3>1. PICK a, b : /\ a = InitialGas[fork] - Held
                      /\ b = InitialGas[fork] - Held'
      OBVIOUS
    <3>2. a \in Int /\ b \in Int /\ a <= b
      BY <1>18, <2>1, <3>1
    <3>3. Earned(a) <= Earned(b) /\ Earned(a) \in Int /\ Earned(b) \in Int
      BY <3>2, EarnedFacts
    <3>4. bm + pm + cm <= Earned(a)
      BY <1>1, <1>2, <1>16, <1>17, <3>1 DEF BudgetOK
    <3>5. fm <= pm + cm
      BY <1>4, <1>16 DEF Closes
    <3> QED BY <3>1, <3>3, <3>4, <3>5
  <2>3. interpreting = TRUE /\ frame.status # "Running"
    BY <1>1 DEF Done, LedgerOK, TypeOK
  <2>4. steps >= 3 * Held + 2 * n + 1 /\ steps \in Nat
    BY <1>1, <1>2, <2>3, StateFacts DEF BudgetOK
  <2>5. steps' >= 3 * Held' + 2 * k + 2
    BY <1>2, <1>3, <1>7, <1>18, <2>4
  <2>6. Held' <= InitialGas[fork]
    BY <1>18, <2>1
  <2>7. (Below(k)').magnitude = bm
    BY <1>3, <1>12, <1>16
  <2> QED BY <1>6, <1>7, <1>9, <1>16, <2>2, <2>3, <2>5, <2>6, <2>7 DEF BudgetOK
<1>20. PoolsOK'
  <2>1. Reservoir(0)' = InitialStateGas[fork]
    BY <1>1, <1>5, <1>13 DEF PoolsOK
  <2>2. frame_succeeded(frame)' /\ f.status # "Exceptional"
    BY <1>6, <1>7 DEF frame_succeeded
  <2>3. ASSUME fork >= Amsterdam, NEW i \in 0..k
        PROVE  (InitialStateGas[fork] - Reservoir(i) + Below(i).spill
                          = Growth(EntryWorld(i)) + Charge(i))'
    <3>1. InitialStateGas[fork] - Reservoir(i) + Below(i).spill
                          = Growth(EntryWorld(i)) + Charge(i)
      BY <1>1, <1>2, <1>5, <2>3 DEF PoolsOK
    <3>2. Growth(EntryWorld(i))' = Growth(EntryWorld(i))
      BY <1>14 DEF Growth
    <3> QED BY <1>7, <1>12, <1>13, <1>14, <3>1, <3>2
  <2>4. ASSUME fork >= Amsterdam
        PROVE  (StateGasTaken = Growth(world))'
    <3>1. InitialStateGas[fork] - f.state_gas + (Below(k).spill + f.spill)
             = Growth(w)
      BY <1>2, <1>3, <2>4 DEF Closes
    <3>2. Growth(world)' = Growth(w)
      BY <1>7 DEF Growth
    <3>3. StateGasTaken' = InitialStateGas[fork] - f.state_gas
                             + (Below(k).spill + f.spill)
      BY <1>3, <1>7, <1>9, <1>12 DEF StateGasTaken, TotalSpill
    <3> QED BY <3>1, <3>2, <3>3
  <2>5. ASSUME fork < Amsterdam
        PROVE  /\ \A i \in 0..k : (/\ Reservoir(i) = InitialStateGas[fork]
                                   /\ Below(i).spill = 0
                                   /\ Charge(i) = 0)'
               /\ f.spill = 0 /\ f.state_gas = InitialStateGas[fork]
    <3>1. \A i \in 0..k : /\ Reservoir(i) = InitialStateGas[fork]
                          /\ Below(i).spill = 0
                          /\ Charge(i) = 0
      BY <1>1, <1>2, <1>5, <2>5 DEF PoolsOK
    <3>2. f.spill = 0 /\ f.state_gas = InitialStateGas[fork]
      BY <2>5 DEF Closes
    <3> QED BY <1>7, <1>12, <1>13, <1>14, <3>1, <3>2
  <2> QED BY <1>7, <1>9, <2>1, <2>2, <2>3, <2>4, <2>5 DEF PoolsOK
<1>21. LedgerOK'
  <2>1. TypeOK'
    <3>1. TypeOK /\ w \in World /\ steps' \in Nat
      BY <1>1, <1>6, <1>7 DEF LedgerOK, TypeOK, WorldOK
    <3> QED BY <1>6, <1>7, <1>9, <1>10, <3>1 DEF TypeOK
  <2>2. TotalsAddUp'
    <3>1. ASSUME NEW i \in 1..k
          PROVE  totals'[i] = Plus(Below(i - 1)', stack'[i].parent)
      <4>1. totals[i] = Plus(Below(i - 1), stack[i].parent)
        BY <1>1, <1>2, <1>5 DEF LedgerOK, TotalsAddUp
      <4>2. i - 1 \in 0..k
        BY <1>3
      <4>3. Below(i - 1)' = Below(i - 1)
        BY <1>12, <4>2
      <4> QED BY <1>9, <1>11, <4>1, <4>3
    <3> QED BY <1>9, <1>11, <3>1 DEF TotalsAddUp
  <2>3. ASSUME NEW i \in 1..k
        PROVE  /\ WorldOK(saved'[i])
               /\ stack'[i].parent.state_gas = 0
               /\ stack'[i].parent.status = "Running"
               /\ stack'[i].parent.depth = i - 1
    BY <1>1, <1>2, <1>5, <1>9, <1>10 DEF LedgerOK
  <2>4. WorldOK(world)'
    BY <1>6, <1>7 DEF WorldOK
  <2>5. k <= CallDepthLimit
    <3>1. n <= CallDepthLimit
      BY <1>1, <1>2 DEF LedgerOK
    <3> QED BY <1>2, <1>3, <3>1, Prices
  <2> QED BY <1>7, <1>9, <1>11, <2>1, <2>2, <2>3, <2>4, <2>5
          DEF LedgerOK, WorldOK
<1>22. StaticOK'
  <2>1. ASSUME NEW i \in 1..k, stack'[i].parent.static
        PROVE  f.static /\ \A j \in i..k : stack'[j].parent.static
    <3>1. \A j \in i..n : stack[j].parent.static
      BY <1>1, <1>2, <1>5, <1>9, <2>1 DEF StaticOK
    <3>2. n \in i..n /\ \A j \in i..k : j \in i..n /\ j \in 1..k
      BY <1>2, <1>3
    <3> QED BY <1>4, <1>6, <1>9, <3>1, <3>2
  <2>2. ASSUME NEW i \in 1..k, stack'[i].kind = "ResumeCreate"
        PROVE  ~EntersStatic(i)'
    BY <1>1, <1>2, <1>5, <1>9, <1>15, <2>2 DEF StaticOK
  <2>3. ASSUME NEW i \in 1..k, EntersStatic(i)'
        PROVE  w = saved'[i] /\ \A j \in i..k : saved'[j] = saved'[i]
    <3>1. EntersStatic(i)
      BY <1>15, <2>3
    <3>2. world = saved[i] /\ \A j \in i..n : saved[j] = saved[i]
      <4>1. Len(saved) = n
        BY <1>8
      <4> QED BY <1>1, <1>2, <1>5, <3>1, <4>1 DEF StaticOK, StaticFramesOnlyRead
    <3>3. p.static
      <4>1. CASE i = k
        BY <1>2, <1>4, <1>5, <3>1, <4>1 DEF EntersStatic
      <4>2. CASE i # k
        <5>1. i + 1 \in 1..n /\ i # n /\ n \in (i + 1)..n
          BY <1>2, <1>3, <4>2
        <5>2. stack[i + 1].parent.static
          BY <1>2, <3>1, <5>1 DEF EntersStatic
        <5> QED BY <1>1, <1>2, <1>4, <5>1, <5>2 DEF StaticOK
      <4> QED BY <4>1, <4>2
    <3>4. w \in {world, saved[n]}
      BY <1>2, <1>4, <3>3 DEF Closes
    <3>5. n \in i..n /\ \A j \in i..k : j \in i..n /\ j \in 1..k
      BY <1>2, <1>3
    <3> QED BY <1>10, <3>2, <3>4, <3>5
  <2>4. StaticFramesOnlyRead'
    BY <1>7, <1>9, <1>10, <2>3 DEF StaticFramesOnlyRead
  <2> QED BY <1>7, <1>9, <2>1, <2>2, <2>4 DEF StaticOK
<1> QED BY <1>19, <1>20, <1>21, <1>22 DEF CallInv

-----------------------------------------------------------------------------
(* How the price of a world moves.                                         *)
LEMMA AccountGrowth ==
  ASSUME NEW w, WorldOK(w), NEW a \in Accounts, NEW v \in World,
         v.slots = w.slots, v.code = w.code,
         v.nonempty = w.nonempty \cup {a}
  PROVE  /\ WorldOK(v)
         /\ Growth(v) = Growth(w)
                          + IF a \in w.nonempty THEN 0 ELSE StateNewAccount
<1>1. WorldOK(v) /\ Grown(v) = Grown(w)
  BY DEF WorldOK, Grown
<1>2. CASE a \in w.nonempty
  <2>1. v.nonempty = w.nonempty
    BY <1>2
  <2>2. Growth(v) = Growth(w) /\ Growth(w) \in Nat
    BY <1>1, <2>1, GrowthType
  <2> QED BY <1>1, <1>2, <2>2
<1>3. CASE a \notin w.nonempty
  <2>1. PICK S : S = w.nonempty \ Nonempty
    OBVIOUS
  <2>2. v.nonempty \ Nonempty = S \cup {a} /\ a \notin S
    BY <1>3, <2>1 DEF WorldOK
  <2>3. IsFiniteSet(S) /\ Cardinality(S) \in Nat
    BY <2>1, GrowthType
  <2>4. Cardinality(S \cup {a}) = Cardinality(S) + 1
    BY <2>2, <2>3, FS_AddElement
  <2>5. PICK g, c, n : /\ g = StateStorageSet * Cardinality(Grown(w))
                       /\ c = StateByte * w.code /\ n = Cardinality(S)
    OBVIOUS
  <2>6. /\ Growth(w) = g + StateNewAccount * n + c
        /\ Growth(v) = g + StateNewAccount * (n + 1) + c
    BY <1>1, <2>1, <2>2, <2>4, <2>5, GrowthType
  <2>7. g \in Int /\ c \in Int /\ n \in Nat
    BY <2>3, <2>5, Prices, GrowthType
  <2>8. StateNewAccount * (n + 1) = StateNewAccount * n + StateNewAccount
    BY <2>7, Prices
  <2>9. StateNewAccount * n \in Int
    BY <2>7, Prices
  <2>10. Growth(v) = Growth(w) + StateNewAccount
    BY <2>6, <2>7, <2>8, <2>9, Prices
  <2> QED BY <1>1, <1>3, <2>10
<1> QED BY <1>2, <1>3

(* A new slot that is set, and one that is cleared again.                  *)
SetsNew(s, value) == Original[s] = 0 /\ world.slots[s] = 0 /\ value # 0
ClearsNew(s, value) == Original[s] = 0 /\ world.slots[s] # 0 /\ value = 0

(* SSTORE moves the price by what amsterdam_sstore_costs says.             *)
LEMMA StoreGrowth ==
  ASSUME WorldOK(world), NEW s \in Slots, NEW value \in Values
  PROVE  /\ WorldOK(k_sstore(s, value))
         /\ Growth(k_sstore(s, value)) = Growth(world)
              + (IF SetsNew(s, value) THEN StateStorageSet ELSE 0)
              - (IF ClearsNew(s, value) THEN StateStorageSet ELSE 0)
<1>1. PICK v : v = k_sstore(s, value)
  OBVIOUS
<1>2. world \in World /\ world.slots \in [Slots -> Values]
      /\ world.undone \in [Slots -> Nat]
  BY DEF WorldOK, World
<1>3. PICK undone : undone = [world.undone EXCEPT ![s] =
          IF Restores(Original[s], world.slots[s], value)
          THEN @ + 1 ELSE @]
  OBVIOUS
<1>4. undone \in [Slots -> Nat]
  BY <1>2, <1>3
<1>5. v = [world EXCEPT !.slots = [@ EXCEPT ![s] = value], !.undone = undone]
  BY <1>1, <1>2, <1>3 DEF k_sstore, World
<1>6. /\ v \in World /\ v.slots = [world.slots EXCEPT ![s] = value]
      /\ v.nonempty = world.nonempty /\ v.code = world.code
  BY <1>2, <1>4, <1>5 DEF World
<1>7. WorldOK(v)
  BY <1>6 DEF WorldOK
<1>8. PICK S : S = Grown(world)
  OBVIOUS
<1>9. IsFiniteSet(S) /\ Cardinality(S) \in Nat
  BY <1>8, GrowthType
<1>10. \A t \in Slots : t # s => (v.slots[t] = world.slots[t])
  BY <1>2, <1>6
<1>11. v.slots[s] = value
  BY <1>2, <1>6
<1>12. PICK a, c, n : /\ a = StateNewAccount * Cardinality(world.nonempty \ Nonempty)
                      /\ c = StateByte * world.code /\ n = Cardinality(S)
  OBVIOUS
<1>13. /\ Growth(world) = StateStorageSet * n + a + c
       /\ Growth(v) = StateStorageSet * Cardinality(Grown(v)) + a + c
  BY <1>6, <1>7, <1>8, <1>12, GrowthType
<1>14. a \in Int /\ c \in Int /\ n \in Nat /\ StateStorageSet \in Nat
  BY <1>9, <1>12, Prices, GrowthType
<1>15. CASE SetsNew(s, value)
  <2>1. Grown(v) = S \cup {s} /\ s \notin S /\ ~ClearsNew(s, value)
    BY <1>8, <1>10, <1>11, <1>15 DEF Grown, SetsNew, ClearsNew
  <2>2. Cardinality(Grown(v)) = n + 1
    BY <1>9, <1>12, <2>1, FS_AddElement
  <2>3. StateStorageSet * (n + 1) = StateStorageSet * n + StateStorageSet
    BY <1>14
  <2>4. StateStorageSet * n \in Int
    BY <1>14
  <2>5. Growth(v) = Growth(world) + StateStorageSet - 0
    BY <1>13, <1>14, <2>2, <2>3, <2>4
  <2> QED BY <1>1, <1>7, <1>15, <2>1, <2>5
<1>16. CASE ClearsNew(s, value)
  <2>1. Grown(v) = S \ {s} /\ s \in S /\ ~SetsNew(s, value)
    BY <1>8, <1>10, <1>11, <1>16 DEF Grown, SetsNew, ClearsNew
  <2>2. Cardinality(Grown(v)) = n - 1
    BY <1>9, <1>12, <2>1, FS_RemoveElement
  <2>3. StateStorageSet * (n - 1) = StateStorageSet * n - StateStorageSet
    BY <1>14
  <2>4. StateStorageSet * n \in Int
    BY <1>14
  <2>5. Growth(v) = Growth(world) + 0 - StateStorageSet
    BY <1>13, <1>14, <2>2, <2>3, <2>4
  <2> QED BY <1>1, <1>7, <1>16, <2>1, <2>5
<1>17. CASE ~SetsNew(s, value) /\ ~ClearsNew(s, value)
  <2>1. Grown(v) = S
    BY <1>8, <1>10, <1>11, <1>17 DEF Grown, SetsNew, ClearsNew
  <2>2. Growth(v) = Growth(world)
    BY <1>12, <1>13, <2>1
  <2>3. Growth(world) \in Nat
    BY GrowthType
  <2> QED BY <1>1, <1>7, <1>17, <2>2, <2>3
<1> QED BY <1>15, <1>16, <1>17

(* Deployed code costs its length.                                         *)
LEMMA DeployGrowth ==
  ASSUME NEW w, WorldOK(w), NEW length \in Nat
  PROVE  LET v == [w EXCEPT !.code = @ + length] IN
         /\ WorldOK(v)
         /\ Growth(v) = Growth(w) + StateByte * length
         /\ StateByte * length \in Nat
<1>1. PICK v : v = [w EXCEPT !.code = @ + length]
  OBVIOUS
<1>2. w \in World /\ w.code \in Nat
  BY DEF WorldOK, World
<1>3. /\ v \in World /\ v.slots = w.slots /\ v.nonempty = w.nonempty
      /\ v.code = w.code + length
  BY <1>1, <1>2 DEF World
<1>4. WorldOK(v) /\ Grown(v) = Grown(w)
  BY <1>3 DEF WorldOK, Grown
<1>5. PICK a, b : /\ a = StateStorageSet * Cardinality(Grown(w))
                  /\ b = StateNewAccount * Cardinality(w.nonempty \ Nonempty)
  OBVIOUS
<1>6. /\ Growth(w) = a + b + StateByte * w.code
      /\ Growth(v) = a + b + StateByte * (w.code + length)
  BY <1>3, <1>4, <1>5, GrowthType
<1>7. a \in Int /\ b \in Int
  BY <1>5, Prices, GrowthType
<1>8. /\ StateByte * (w.code + length) = StateByte * w.code + StateByte * length
      /\ StateByte * w.code \in Int
  BY <1>2, Prices
<1>9. StateByte * length \in Nat
  BY Prices
<1>10. Growth(v) = Growth(w) + StateByte * length
  BY <1>6, <1>7, <1>8, <1>9
<1> QED BY <1>1, <1>4, <1>9, <1>10

-----------------------------------------------------------------------------
(* The history variable follows the stack.                                 *)
LEMMA TotalsFollow ==
  ASSUME LedgerOK, LNext
  PROVE  /\ stack' = stack => totals' = totals
         /\ \A c \in Continuation : stack' = Append(stack, c) =>
               totals' = Append(totals, Plus(Below(Len(stack)), Last(stack').parent))
         /\ stack # <<>> /\ stack' = Front(stack) => totals' = Front(totals)
<1>1. stack \in Seq(Continuation)
  BY DEF LedgerOK, TypeOK
<1>2. PICK n \in Nat : n = Len(stack)
  BY <1>1
<1>3. PICK m : m = Len(stack')
  OBVIOUS
<1>4. totals' = CASE m > n -> Append(totals, Plus(Below(Len(stack)), Last(stack').parent))
                  [] m < n -> Front(totals)
                  [] OTHER -> totals
  BY <1>2, <1>3 DEF LNext
<1>5. ASSUME stack' = stack PROVE totals' = totals
  <2>1. m = n
    BY <1>2, <1>3, <1>5
  <2> QED BY <1>2, <1>4, <2>1
<1>6. ASSUME NEW c \in Continuation, stack' = Append(stack, c)
      PROVE  totals' = Append(totals, Plus(Below(Len(stack)), Last(stack').parent))
  <2>1. m = n + 1
    BY <1>1, <1>2, <1>3, <1>6
  <2> QED BY <1>2, <1>4, <2>1
<1>7. ASSUME stack # <<>>, stack' = Front(stack) PROVE totals' = Front(totals)
  <2>1. m = n - 1
    BY <1>1, <1>2, <1>3, <1>7, PopFacts
  <2> QED BY <1>2, <1>4, <2>1
<1> QED BY <1>5, <1>6, <1>7

-----------------------------------------------------------------------------
(* A frame on the way of a turn: what it may hold to pass every check.     *)
Fitting(f) ==
    /\ f \in Frame
    /\ f.gas + f.spill <= frame.gas + frame.spill
    /\ Magnitude(f.refund) <= Magnitude(frame.refund)
           + Earned((frame.gas + frame.spill) - (f.gas + f.spill))
    /\ fork >= Amsterdam =>
          \/ f.state_gas = frame.reservoir
          \/ f.state_gas - f.spill
                <= frame.state_gas - frame.spill + Growth(world)
    /\ fork < Amsterdam => f.spill = frame.spill /\ f.state_gas = frame.state_gas

(* Such a frame passes the checks of machine.sail.                         *)
LEMMA FittingFits ==
  ASSUME CallInv, frame_succeeded(frame), NEW f, Fitting(f)
  PROVE  Representable(f)
<1>1. LedgerOK /\ BudgetOK /\ PoolsOK
  BY DEF CallInv
<1>2. PICK n \in Nat : n = Len(stack) /\ n \in 0..Len(stack)
  BY <1>1, StateFacts
<1>3. PICK bg, bs, bm \in Nat : /\ bg = Below(n).gas /\ bs = Below(n).spill
                                /\ bm = Below(n).magnitude
  BY <1>1, <1>2, StateFacts
<1>4. PICK fg, fs, fsg \in Nat : /\ fg = f.gas /\ fs = f.spill
                                 /\ fsg = f.state_gas
  BY DEF Fitting, Frame
<1>5. PICK g, s, sg, r \in Nat : /\ g = frame.gas /\ s = frame.spill
                                 /\ sg = frame.state_gas /\ r = frame.reservoir
  BY <1>1, StateFacts
<1>6. PICK ig, isg \in Nat : ig = InitialGas[fork] /\ isg = InitialStateGas[fork]
  BY <1>1, StateFacts
<1>7. PICK h, held \in Nat : h = bg + bs + g + s /\ held = bg + bs + fg + fs
  BY <1>3, <1>4, <1>5
<1>8. Held = h
  BY <1>1, <1>2, <1>3, <1>5, <1>7, StateFacts
<1>9. fg + fs <= g + s
  BY <1>4, <1>5 DEF Fitting
<1>10. held <= h /\ h <= ig /\ fg + fs <= held /\ held <= ig
  <2>1. h <= ig
    BY <1>1, <1>6, <1>8 DEF BudgetOK
  <2>2. held <= h /\ fg + fs <= held
    BY <1>3, <1>4, <1>5, <1>7, <1>9
  <2> QED BY <1>6, <1>7, <2>1, <2>2
<1>11. fork < Amsterdam \/ fork >= Amsterdam
  BY <1>1, StateFacts, Amounts
<1>12. fork < Amsterdam => fs = 0 /\ fsg = isg
  BY <1>4, <1>6 DEF Fitting, CallInv, PoolsOK
<1>13. ASSUME fork >= Amsterdam PROVE fsg <= isg + held
  <2>1. ~(fork < Amsterdam)
    BY <1>1, <1>13, StateFacts, Amounts
  <2>2. CASE fsg = r
    <3>1. PICK w : w = EntryWorld(n) /\ WorldOK(w)
      <4>1. CASE n = 0
        BY <4>1, GrowthInitially DEF EntryWorld
      <4>2. CASE n # 0
        BY <1>1, <1>2, <4>2 DEF EntryWorld, LedgerOK
      <4> QED BY <4>1, <4>2
    <3>2. Growth(w) \in Nat
      BY <3>1, GrowthType
    <3>3. PICK c \in Nat : c = Charge(n)
      BY Prices DEF Charge
    <3>4. isg - r + bs = Growth(w) + c
      <4>1. Reservoir(n) = r
        BY <1>2, <1>5 DEF Reservoir
      <4> QED BY <1>1, <1>2, <1>3, <1>6, <1>13, <3>1, <3>3, <4>1 DEF PoolsOK
    <3> QED BY <1>3, <1>4, <1>5, <1>6, <1>7, <2>2, <3>2, <3>3, <3>4
  <2>3. CASE fsg # r
    <3>1. PICK w \in Nat : w = Growth(world)
      BY <1>1, StateFacts
    <3>2. fsg - fs <= sg - s + w
      BY <1>4, <1>5, <1>13, <2>3, <3>1 DEF Fitting
    <3>3. isg - sg + (bs + s) = w
      <4>1. StateGasTaken = w
        BY <1>1, <1>13, <3>1 DEF PoolsOK
      <4> QED BY <1>2, <1>3, <1>5, <1>6, <4>1 DEF StateGasTaken, TotalSpill
    <3> QED BY <1>3, <1>4, <1>5, <1>6, <1>7, <3>1, <3>2, <3>3
  <2> QED BY <2>2, <2>3
<1>14. fsg <= isg + held
  BY <1>6, <1>7, <1>11, <1>12, <1>13
<1>15. Magnitude(f.refund) <= Earned(ig - held)
  <2>1. PICK mf, mg \in Nat : mf = Magnitude(f.refund) /\ mg = Magnitude(frame.refund)
    <3>1. f.refund \in Int /\ frame.refund \in Int
      BY <1>1, StateFacts DEF Fitting, Frame
    <3> QED BY <3>1, MagnitudeFacts
  <2>2. PICK d, e \in Int : d = (g + s) - (fg + fs) /\ e = ig - h
    BY <1>4, <1>5, <1>6, <1>7
  <2>3. mf <= mg + Earned(d)
    BY <1>4, <1>5, <2>1, <2>2 DEF Fitting
  <2>4. bm + mg <= Earned(e)
    BY <1>1, <1>2, <1>3, <1>6, <1>8, <2>1, <2>2 DEF BudgetOK
  <2>5. Earned(d) \in Int /\ Earned(e) \in Int /\ Earned(e + d) = Earned(e) + Earned(d)
    BY <2>2, EarnedFacts
  <2>6. e + d = ig - held
    BY <1>4, <1>5, <1>6, <1>7, <2>2
  <2>7. mf <= Earned(e + d)
    BY <1>3, <2>1, <2>3, <2>4, <2>5
  <2> QED BY <2>1, <2>6, <2>7
<1>16. f \in Frame /\ fork \in Forks
  BY <1>1, StateFacts DEF Fitting
<1> QED BY <1>4, <1>6, <1>7, <1>10, <1>12, <1>14, <1>15, <1>16, Fits

(* So does a frame that makes progress.                                    *)
LEMMA ProgressFits ==
  ASSUME CallInv, frame_succeeded(frame), NEW f, NEW w, Progress(f, w)
  PROVE  Representable(f)
<1>1. LedgerOK
  BY DEF CallInv
<1>2. f \in Frame /\ WorldOK(w) /\ f.reservoir = frame.reservoir
  BY DEF Progress
<1>3. ASSUME fork >= Amsterdam
      PROVE  \/ f.state_gas = frame.reservoir
             \/ f.state_gas - f.spill
                   <= frame.state_gas - frame.spill + Growth(world)
  <2>1. CASE ~frame_succeeded(f)
    BY <1>2, <1>3, <2>1 DEF Progress
  <2>2. CASE frame_succeeded(f)
    <3>1. PICK x, y, a, b \in Int : /\ x = f.spill /\ y = f.state_gas
                                    /\ a = frame.spill /\ b = frame.state_gas
      BY <1>1, <1>2, StateFacts DEF Frame
    <3>2. PICK u, v \in Nat : u = Growth(w) /\ v = Growth(world)
      BY <1>1, <1>2, StateFacts, GrowthType
    <3>3. x - y - u = a - b - v
      BY <1>3, <2>2, <3>1, <3>2 DEF Progress
    <3>4. y - x <= b - a + v
      BY <3>1, <3>2, <3>3
    <3> QED BY <3>1, <3>2, <3>4
  <2> QED BY <2>1, <2>2
<1>4. Fitting(f)
  BY <1>3 DEF Progress, Fitting
<1> QED BY <1>4, FittingFits

(* A turn whose checks hold and that makes progress.                       *)
LEMMA ProgressKeeps ==
  ASSUME CallInv, LNext, Running, NEW f, NEW w, Progress(f, w),
         NEW ok, ok = TRUE, Stay(f, w, ok)
  PROVE  CallInv'
<1>1. totals' = totals
  BY TotalsFollow DEF CallInv, Stay
<1>2. Stay(f, w, TRUE)
  OBVIOUS
<1> QED BY <1>1, <1>2, StayKeeps

(* A turn that leaves the refund counter alone.                            *)
LEMMA SameRefund ==
  ASSUME NEW f \in Frame, NEW g \in Frame, f.refund = g.refund,
         f.gas + f.spill <= g.gas + g.spill
  PROVE  Magnitude(f.refund) <= Magnitude(g.refund)
             + Earned((g.gas + g.spill) - (f.gas + f.spill))
<1>1. /\ f.gas \in Nat /\ f.spill \in Nat /\ g.gas \in Nat /\ g.spill \in Nat
      /\ g.refund \in Int
  BY DEF Frame
<1>2. PICK d \in Int : d = (g.gas + g.spill) - (f.gas + f.spill) /\ 0 <= d
  BY <1>1
<1>3. Earned(d) \in Int /\ 0 <= Earned(d)
  BY <1>2, EarnedFacts
<1>4. Magnitude(g.refund) \in Nat
  BY <1>1, MagnitudeFacts
<1>5. Magnitude(g.refund) <= Magnitude(g.refund) + Earned(d)
  BY <1>3, <1>4
<1> QED BY <1>2, <1>5

(* Halting makes progress, whatever was credited before.                   *)
LEMMA ExceptionalProgress ==
  ASSUME CallInv, NEW f \in Frame,
         f.refund = frame.refund, f.reservoir = frame.reservoir,
         f.static = frame.static, f.depth = frame.depth,
         fork < Amsterdam => f.spill = frame.spill
                             /\ f.state_gas = frame.state_gas
  PROVE  Progress(exceptional_state(f), world)
<1>1. LedgerOK
  BY DEF CallInv
<1>2. PICK g : g = exceptional_state(f)
  OBVIOUS
<1>3. /\ g \in Frame
      /\ g.refund = f.refund /\ g.reservoir = f.reservoir
      /\ g.static = f.static /\ g.depth = f.depth
      /\ g.status = "Exceptional" /\ g.gas = 0
      /\ fork >= Amsterdam => g.spill = 0 /\ g.state_gas = g.reservoir
      /\ ~(fork >= Amsterdam) => g.spill = f.spill /\ g.state_gas = f.state_gas
  BY <1>2, ExceptionalFacts
<1>4. (fork < Amsterdam) = ~(fork >= Amsterdam)
  BY <1>1, StateFacts, Amounts
<1>5. /\ frame \in Frame /\ frame.gas \in Nat /\ frame.spill \in Nat
      /\ WorldOK(world)
  BY <1>1, StateFacts
<1>6. g.gas + g.spill <= frame.gas + frame.spill
  BY <1>3, <1>4, <1>5
<1>7. Magnitude(g.refund) <= Magnitude(frame.refund)
           + Earned((frame.gas + frame.spill) - (g.gas + g.spill))
  BY <1>3, <1>5, <1>6, SameRefund
<1>8. ~frame_succeeded(g)
  BY <1>3 DEF frame_succeeded
<1>9. Progress(g, world)
  BY <1>3, <1>4, <1>5, <1>6, <1>7, <1>8 DEF Progress
<1> QED BY <1>2, <1>9

(* An exceptional halt keeps the invariant.                                *)
LEMMA FailKeeps ==
  ASSUME CallInv, LNext, Running, Fail
  PROVE  CallInv'
<1>1. frame \in Frame
  BY StateFacts DEF CallInv
<1>2. Progress(exceptional_state(frame), world)
  BY <1>1, ExceptionalProgress
<1>3. Stay(exceptional_state(frame), world, TRUE)
  BY DEF Fail
<1> QED BY <1>2, <1>3, ProgressKeeps

-----------------------------------------------------------------------------
(* The instructions that stay in the frame.                                *)
LEMMA ForkSplit ==
  ASSUME fork \in Forks
  PROVE  (fork < Amsterdam) = ~(fork >= Amsterdam)
BY Amounts

(* Plain instructions.                                                     *)
LEMMA PlainKeeps ==
  ASSUME CallInv, LNext, execute_plain
  PROVE  CallInv'
<1>1. LedgerOK /\ Running
  BY DEF CallInv, execute_plain
<1>2. PICK cost \in OpCosts : IF frame.gas < cost THEN Fail
                              ELSE Stay(Spend(frame, cost), world, TRUE)
  BY DEF execute_plain
<1>3. cost \in Nat /\ cost > 0
  BY CallTreeAssumption
<1>4. CASE frame.gas < cost
  BY <1>1, <1>2, <1>4, FailKeeps
<1>5. CASE ~(frame.gas < cost)
  <2>1. frame \in Frame /\ frame.gas \in Nat /\ frame.spill \in Nat
        /\ frame.state_gas \in Nat /\ WorldOK(world) /\ Growth(world) \in Nat
    BY <1>1, StateFacts
  <2>2. PICK f : f = Spend(frame, cost)
    OBVIOUS
  <2>3. /\ Alike(frame, f) /\ f.gas = frame.gas - cost
        /\ f.spill = frame.spill /\ f.state_gas = frame.state_gas
    BY <1>3, <1>5, <2>1, <2>2, SpendFacts
  <2>4. f \in Frame /\ f.refund = frame.refund /\ f.status = "Running"
        /\ f.reservoir = frame.reservoir
        /\ f.static = frame.static /\ f.depth = frame.depth
    BY <1>1, <2>3 DEF Alike, Running
  <2>5. f.gas + f.spill < frame.gas + frame.spill
        /\ f.gas + f.spill <= frame.gas + frame.spill
    BY <1>3, <2>1, <2>3
  <2>6. Magnitude(f.refund) <= Magnitude(frame.refund)
           + Earned((frame.gas + frame.spill) - (f.gas + f.spill))
    BY <2>1, <2>4, <2>5, SameRefund
  <2>7. Progress(f, world)
    BY <2>1, <2>3, <2>4, <2>5, <2>6 DEF Progress, frame_succeeded
  <2> QED BY <1>1, <1>2, <1>5, <2>2, <2>7, ProgressKeeps
<1> QED BY <1>4, <1>5

(* STOP and RETURN.                                                        *)
LEMMA ReturnKeeps ==
  ASSUME CallInv, LNext, execute_return
  PROVE  CallInv'
<1>1. LedgerOK /\ Running
  BY DEF CallInv, execute_return
<1>2. PICK cost \in MemoryCosts :
          IF frame.gas < cost THEN Fail
          ELSE Stay([Spend(frame, cost) EXCEPT !.status = "Halted"], world, TRUE)
  BY DEF execute_return
<1>3. cost \in Nat
  BY CallTreeAssumption
<1>4. CASE frame.gas < cost
  BY <1>1, <1>2, <1>4, FailKeeps
<1>5. CASE ~(frame.gas < cost)
  <2>1. frame \in Frame /\ frame.gas \in Nat /\ frame.spill \in Nat
        /\ frame.state_gas \in Nat /\ WorldOK(world) /\ Growth(world) \in Nat
    BY <1>1, StateFacts
  <2>2. PICK p, f : p = Spend(frame, cost) /\ f = [p EXCEPT !.status = "Halted"]
    OBVIOUS
  <2>3. /\ Alike(frame, p) /\ p.gas = frame.gas - cost
        /\ p.spill = frame.spill /\ p.state_gas = frame.state_gas
    BY <1>3, <1>5, <2>1, <2>2, SpendFacts
  <2>4. /\ f \in Frame /\ f.gas = p.gas /\ f.spill = p.spill
        /\ f.state_gas = p.state_gas /\ f.refund = p.refund
        /\ f.reservoir = p.reservoir /\ f.static = p.static
        /\ f.depth = p.depth /\ f.status = "Halted"
    BY <2>2, <2>3 DEF Alike, Frame, Statuses
  <2>5. f.refund = frame.refund /\ f.reservoir = frame.reservoir
        /\ f.static = frame.static /\ f.depth = frame.depth
        /\ f.spill = frame.spill /\ f.state_gas = frame.state_gas
        /\ f.gas = frame.gas - cost
    BY <2>3, <2>4 DEF Alike
  <2>6. f.gas + f.spill <= frame.gas + frame.spill
    BY <1>3, <2>1, <2>5
  <2>7. Magnitude(f.refund) <= Magnitude(frame.refund)
           + Earned((frame.gas + frame.spill) - (f.gas + f.spill))
    BY <2>1, <2>4, <2>5, <2>6, SameRefund
  <2>8. Progress(f, world)
    BY <2>1, <2>4, <2>5, <2>6, <2>7 DEF Progress, frame_succeeded
  <2> QED BY <1>1, <1>2, <1>5, <2>2, <2>8, ProgressKeeps
<1> QED BY <1>4, <1>5

(* REVERT.                                                                 *)
LEMMA RevertKeeps ==
  ASSUME CallInv, LNext, execute_revert
  PROVE  CallInv'
<1>1. LedgerOK /\ Running
  BY DEF CallInv, execute_revert
<1>2. PICK cost \in MemoryCosts :
          IF frame.gas < cost THEN Fail
          ELSE Stay(revert_state(Spend(frame, cost)), world,
                    Representable(revert_state(Spend(frame, cost))))
  BY DEF execute_revert
<1>3. cost \in Nat
  BY CallTreeAssumption
<1>4. CASE frame.gas < cost
  BY <1>1, <1>2, <1>4, FailKeeps
<1>5. CASE ~(frame.gas < cost)
  <2>1. frame \in Frame /\ frame.gas \in Nat /\ frame.spill \in Nat
        /\ frame.state_gas \in Nat /\ WorldOK(world)
    BY <1>1, StateFacts
  <2>2. PICK p, f : p = Spend(frame, cost) /\ f = revert_state(p)
    OBVIOUS
  <2>3. /\ Alike(frame, p) /\ p.gas = frame.gas - cost
        /\ p.spill = frame.spill /\ p.state_gas = frame.state_gas
    BY <1>3, <1>5, <2>1, <2>2, SpendFacts
  <2>4. p \in Frame /\ p.refund = frame.refund /\ p.reservoir = frame.reservoir
        /\ p.static = frame.static /\ p.depth = frame.depth
    BY <2>3 DEF Alike
  <2>5. /\ f \in Frame
        /\ f.refund = p.refund /\ f.reservoir = p.reservoir
        /\ f.static = p.static /\ f.depth = p.depth
        /\ f.status = "Reverted" /\ f.gas + f.spill = p.gas + p.spill
        /\ fork >= Amsterdam => f.spill = 0 /\ f.state_gas = f.reservoir
        /\ ~(fork >= Amsterdam) => f.spill = p.spill /\ f.state_gas = p.state_gas
    BY <2>2, <2>4, RevertFacts
  <2>6. f.gas + f.spill <= frame.gas + frame.spill
    BY <1>3, <2>1, <2>3, <2>5
  <2>7. Magnitude(f.refund) <= Magnitude(frame.refund)
           + Earned((frame.gas + frame.spill) - (f.gas + f.spill))
    <3>1. f.refund = frame.refund
      BY <2>4, <2>5
    <3> QED BY <2>1, <2>5, <2>6, <3>1, SameRefund
  <2>8. (fork < Amsterdam) = ~(fork >= Amsterdam)
    BY <1>1, StateFacts, ForkSplit
  <2>9. ~frame_succeeded(f) /\ frame_succeeded(frame)
    BY <1>1, <2>5 DEF frame_succeeded, Running
  <2>10. Progress(f, world)
    BY <2>1, <2>3, <2>4, <2>5, <2>6, <2>7, <2>8, <2>9 DEF Progress
  <2>11. Representable(f) = TRUE
    BY <2>9, <2>10, ProgressFits DEF Representable
  <2> QED BY <1>1, <1>2, <1>5, <2>2, <2>10, <2>11, ProgressKeeps
<1> QED BY <1>4, <1>5

-----------------------------------------------------------------------------
(* SSTORE.                                                                 *)
LEMMA StoreCosts ==
  ASSUME fork \in Forks, WorldOK(world), NEW s \in Slots, NEW value \in Values,
         NEW cold \in BOOLEAN
  PROVE  LET c == sstore_costs(Original[s], world.slots[s], value, cold) IN
         /\ c.execution \in Nat /\ c.execution >= WarmAccess
         /\ c.refund \in Int /\ Magnitude(c.refund) <= Earned(WarmAccess)
         /\ c.charge = IF fork >= Amsterdam /\ SetsNew(s, value)
                       THEN StateStorageSet ELSE 0
         /\ c.credit = IF fork >= Amsterdam /\ ClearsNew(s, value)
                       THEN StateStorageSet ELSE 0
<1>1. PICK o, cur \in Values : o = Original[s] /\ cur = world.slots[s]
  BY CallTreeAssumption DEF WorldOK, World
<1>2. PICK rest : rest = IF Restores(o, cur, value) THEN RestoreRefund(o) ELSE 0
  OBVIOUS
<1>3. PICK clear : clear = ClearDelta(o, cur, value)
  OBVIOUS
<1>4. PICK e \in Nat : e = Earned(WarmAccess)
  BY Prices DEF Earned
<1>5. /\ ClearRefund <= e /\ StorageWrite <= e
      /\ StorageSet - WarmAccess <= e /\ StorageReset - WarmAccess <= e
      /\ StorageSet - WarmAccess \in Nat /\ StorageReset - WarmAccess \in Nat
  BY <1>4, RefundAssumption, Prices DEF Earned
<1>6. rest \in Nat /\ rest <= e
  BY <1>2, <1>4, <1>5, Prices DEF RestoreRefund
<1>7. /\ clear \in Int /\ clear <= e /\ -clear <= e
      /\ clear > 0 => rest = 0
  <2>1. clear = IF o = 0 \/ cur = value THEN 0
                ELSE IF value = 0 THEN ClearRefund
                ELSE IF cur = 0 THEN -ClearRefund ELSE 0
    BY <1>3 DEF ClearDelta
  <2>2. clear \in {0, ClearRefund, -ClearRefund}
    BY <2>1
  <2>3. o # 0 /\ value = 0 => rest = 0
    BY <1>2 DEF Restores
  <2>4. clear # 0 /\ clear # -ClearRefund => rest = 0
    BY <2>1, <2>3
  <2> QED BY <1>4, <1>5, <2>2, <2>4, Prices
<1>8. clear + rest \in Int /\ Magnitude(clear + rest) <= e
  BY <1>4, <1>6, <1>7 DEF Magnitude
<1>9. CASE fork >= Amsterdam
  <2>1. PICK c : c = amsterdam_sstore_costs(o, cur, value, cold)
    OBVIOUS
  <2>2. c = sstore_costs(o, cur, value, cold)
    BY <1>9, <2>1 DEF sstore_costs
  <2>3. /\ c.execution = Access(cold) + (IF cur # value /\ o = cur
                                         THEN StorageWrite ELSE 0)
        /\ c.refund = clear + rest
        /\ c.charge = (IF cur # value /\ o = cur /\ o = 0
                       THEN StateStorageSet ELSE 0)
        /\ c.credit = (IF Restores(o, cur, value) /\ o = 0
                       THEN StateStorageSet ELSE 0)
    BY <1>2, <1>3, <2>1 DEF amsterdam_sstore_costs
  <2>4. c.execution \in Nat /\ c.execution >= WarmAccess
    BY <2>3, Prices DEF Access
  <2>5. /\ c.charge = IF SetsNew(s, value) THEN StateStorageSet ELSE 0
        /\ c.credit = IF ClearsNew(s, value) THEN StateStorageSet ELSE 0
    BY <1>1, <2>3 DEF SetsNew, ClearsNew, Restores
  <2> QED BY <1>1, <1>4, <1>8, <1>9, <2>2, <2>3, <2>4, <2>5
<1>10. CASE ~(fork >= Amsterdam)
  <2>1. PICK c : c = legacy_sstore_costs(o, cur, value, cold)
    OBVIOUS
  <2>2. c = sstore_costs(o, cur, value, cold)
    BY <1>10, <2>1 DEF sstore_costs
  <2>3. PICK base : base = IF ~(cur # value /\ o = cur) THEN WarmAccess
                           ELSE IF o = 0 THEN StorageSet ELSE StorageReset
    OBVIOUS
  <2>4. base \in Nat /\ base >= WarmAccess
    BY <2>3, RefundAssumption, Prices
  <2>5. /\ c.execution = base + (IF cold THEN ColdAccess ELSE 0)
        /\ c.refund = clear + rest
        /\ c.charge = 0 /\ c.credit = 0
    BY <1>2, <1>3, <2>1, <2>3 DEF legacy_sstore_costs
  <2>6. c.execution \in Nat /\ c.execution >= WarmAccess
    BY <2>4, <2>5, Prices
  <2> QED BY <1>1, <1>4, <1>8, <1>10, <2>2, <2>5, <2>6
<1> QED BY <1>9, <1>10

(* An SSTORE keeps the invariant.                                          *)
LEMMA SstoreKeeps ==
  ASSUME CallInv, LNext, Running, NEW s \in Slots, NEW value \in Values,
         NEW cold \in BOOLEAN, execute_sstore(s, value, cold)
  PROVE  CallInv'
<1>1. /\ LedgerOK /\ frame \in Frame /\ fork \in Forks /\ WorldOK(world)
      /\ (fork < Amsterdam) = ~(fork >= Amsterdam)
  BY StateFacts, ForkSplit DEF CallInv
<1>2. frame.status = "Running" /\ frame_succeeded(frame)
  BY DEF Running, frame_succeeded
<1>3. PICK c : c = sstore_costs(Original[s], world.slots[s], value, cold)
  OBVIOUS
<1>4. PICK cr : cr = credit_state_gas_refund(frame, c.credit)
  OBVIOUS
<1>5. PICK paid : paid = Spend(cr, c.execution)
  OBVIOUS
<1>6. PICK ch : ch = charge_state_gas(paid, c.charge)
  OBVIOUS
<1>7. PICK done : done = [ch EXCEPT !.refund = @ + c.refund]
  OBVIOUS
<1>8. PICK w : w = k_sstore(s, value)
  OBVIOUS
<1>9. IF frame.static \/ ~SentryPassed(cold) THEN Fail
      ELSE IF cr.gas < c.execution \/ state_gas_halt(paid, c.charge)
           THEN Stay(exceptional_state(cr), world, Representable(cr))
           ELSE Stay(done, w, Representable(cr) /\ Representable(done))
  BY <1>3, <1>4, <1>5, <1>6, <1>7, <1>8 DEF execute_sstore
<1>10. PICK x, charge, credit \in Nat : /\ x = c.execution
                                        /\ charge = c.charge /\ credit = c.credit
  BY <1>1, <1>3, StoreCosts, Prices
<1>11. PICK d \in Int : d = c.refund
  BY <1>1, <1>3, StoreCosts
<1>12. PICK gw, gv \in Nat : gw = Growth(world) /\ gv = Growth(w)
  BY <1>1, <1>8, StoreGrowth, GrowthType
<1>13. WorldOK(w) /\ (fork >= Amsterdam => gv = gw + charge - credit)
  <2>1. fork >= Amsterdam =>
           /\ charge = IF SetsNew(s, value) THEN StateStorageSet ELSE 0
           /\ credit = IF ClearsNew(s, value) THEN StateStorageSet ELSE 0
    BY <1>1, <1>3, <1>10, StoreCosts
  <2>2. /\ WorldOK(w)
        /\ gv = gw + (IF SetsNew(s, value) THEN StateStorageSet ELSE 0)
                   - (IF ClearsNew(s, value) THEN StateStorageSet ELSE 0)
    BY <1>1, <1>8, <1>12, StoreGrowth
  <2> QED BY <2>1, <2>2
<1>14. fork >= Amsterdam => credit <= gw
  <2>1. ASSUME fork >= Amsterdam PROVE charge = 0 \/ credit = 0
    <3>1. /\ c.charge = IF SetsNew(s, value) THEN StateStorageSet ELSE 0
          /\ c.credit = IF ClearsNew(s, value) THEN StateStorageSet ELSE 0
      BY <1>1, <1>3, <2>1, StoreCosts
    <3>2. ~(SetsNew(s, value) /\ ClearsNew(s, value))
      BY DEF SetsNew, ClearsNew
    <3> QED BY <1>10, <3>1, <3>2
  <2> QED BY <1>10, <1>12, <1>13, <2>1
<1>15. fork < Amsterdam => charge = 0 /\ credit = 0
  BY <1>1, <1>3, <1>10, StoreCosts
<1>16. PICK g, sp, sg \in Nat : g = frame.gas /\ sp = frame.spill /\ sg = frame.state_gas
  BY <1>1, StateFacts
<1>17. Alike(frame, cr) /\ cr \in Frame
  BY <1>1, <1>4, <1>10, CreditFacts DEF Alike
<1>18. PICK cg, cs, csg \in Nat : cg = cr.gas /\ cs = cr.spill /\ csg = cr.state_gas
  BY <1>17 DEF Frame
<1>19. /\ cg + cs = g + sp /\ csg - sg + sp - cs = credit
       /\ credit = 0 => cs = sp /\ csg = sg /\ cg = g
  BY <1>1, <1>4, <1>10, <1>16, <1>18, CreditFacts
<1>20. Fitting(cr)
  <2>1. fork >= Amsterdam => csg - cs <= sg - sp + gw
    BY <1>10, <1>12, <1>14, <1>16, <1>18, <1>19
  <2>2. cr.refund = frame.refund
    BY <1>17 DEF Alike
  <2>3. Magnitude(cr.refund) <= Magnitude(frame.refund)
           + Earned((frame.gas + frame.spill) - (cr.gas + cr.spill))
    BY <1>1, <1>16, <1>17, <1>18, <1>19, <2>2, SameRefund
  <2>4. cr.gas + cr.spill <= frame.gas + frame.spill
    BY <1>16, <1>18, <1>19
  <2> QED BY <1>12, <1>15, <1>16, <1>17, <1>18, <1>19, <2>1, <2>3, <2>4 DEF Fitting
<1>21. Representable(cr) = TRUE
  BY <1>2, <1>20, FittingFits DEF Representable
<1>22. CASE frame.static \/ ~SentryPassed(cold)
  BY <1>9, <1>22, FailKeeps
<1>23. CASE /\ ~(frame.static \/ ~SentryPassed(cold))
            /\ cr.gas < c.execution \/ state_gas_halt(paid, c.charge)
  <2>1. Stay(exceptional_state(cr), world, Representable(cr))
    BY <1>9, <1>23
  <2>2. fork < Amsterdam => cr.spill = frame.spill /\ cr.state_gas = frame.state_gas
    BY <1>15, <1>16, <1>18, <1>19
  <2>3. Progress(exceptional_state(cr), world)
    BY <1>17, <2>2, ExceptionalProgress DEF Alike
  <2> QED BY <1>21, <2>1, <2>3, ProgressKeeps
<1>24. CASE /\ ~(frame.static \/ ~SentryPassed(cold))
            /\ ~(cr.gas < c.execution \/ state_gas_halt(paid, c.charge))
  <2>1. Stay(done, w, Representable(cr) /\ Representable(done)) /\ ~frame.static
    BY <1>9, <1>24
  <2>2. cg >= x /\ ~state_gas_halt(paid, charge)
    BY <1>10, <1>18, <1>24
  <2>3. /\ Alike(cr, paid) /\ paid \in Frame /\ paid.gas = cg - x
        /\ paid.spill = cs /\ paid.state_gas = csg
    BY <1>5, <1>10, <1>17, <1>18, <2>2, SpendFacts DEF Alike
  <2>4. Alike(paid, ch) /\ ch \in Frame
    BY <1>6, <1>10, <2>2, <2>3, ChargeFacts DEF Alike
  <2>5. PICK hg, hs, hsg \in Nat : hg = ch.gas /\ hs = ch.spill /\ hsg = ch.state_gas
    BY <2>4 DEF Frame
  <2>6. /\ hg + hs = cg - x + cs /\ csg - hsg + hs - cs = charge
        /\ charge = 0 => hs = cs /\ hsg = csg
    BY <1>6, <1>10, <2>2, <2>3, <2>5, ChargeFacts
  <2>7. PICK r \in Int : r = frame.refund
    BY <1>1, StateFacts
  <2>8. ch.refund = r /\ ch.reservoir = frame.reservoir /\ ch.static = frame.static
        /\ ch.depth = frame.depth /\ ch.status = "Running"
    BY <1>2, <1>17, <2>3, <2>4, <2>7 DEF Alike
  <2>9. done = [ch EXCEPT !.refund = r + d] /\ r + d \in Int
    BY <1>7, <1>11, <2>4, <2>7, <2>8 DEF Frame
  <2>10. /\ done \in Frame /\ done.gas = hg /\ done.spill = hs
         /\ done.state_gas = hsg /\ done.refund = r + d
         /\ done.reservoir = frame.reservoir /\ done.static = frame.static
         /\ done.depth = frame.depth /\ done.status = "Running"
    BY <2>4, <2>5, <2>8, <2>9 DEF Frame
  <2>11. hg + hs = g + sp - x /\ x > 0
    <3>1. x >= WarmAccess
      BY <1>1, <1>3, <1>10, StoreCosts
    <3> QED BY <1>10, <1>16, <1>18, <1>19, <2>2, <2>5, <2>6, <3>1, Prices
  <2>12. Magnitude(done.refund) <= Magnitude(frame.refund)
             + Earned((frame.gas + frame.spill) - (done.gas + done.spill))
    <3>1. Magnitude(d) <= Earned(WarmAccess) /\ x >= WarmAccess
      BY <1>1, <1>3, <1>10, <1>11, StoreCosts
    <3>2. Earned(WarmAccess) <= Earned(x) /\ Earned(x) \in Int /\ Earned(WarmAccess) \in Int
      <4>1. x \in Int /\ WarmAccess \in Int
        BY <1>10, Prices
      <4> QED BY <3>1, <4>1, EarnedFacts
    <3>3. /\ Magnitude(r + d) <= Magnitude(r) + Magnitude(d)
          /\ Magnitude(r + d) \in Nat /\ Magnitude(r) \in Nat /\ Magnitude(d) \in Nat
      BY <1>11, <2>7, <2>9, MagnitudeFacts
    <3>4. Magnitude(r + d) <= Magnitude(r) + Earned(x)
      BY <3>1, <3>2, <3>3
    <3>5. (frame.gas + frame.spill) - (done.gas + done.spill) = x
      BY <1>10, <1>16, <2>5, <2>10, <2>11
    <3> QED BY <2>7, <2>10, <3>4, <3>5
  <2>13. fork >= Amsterdam => hs - hsg - gv = sp - sg - gw
    <3>1. csg - cs = sg - sp + credit
      BY <1>10, <1>16, <1>18, <1>19
    <3>2. hsg - hs = csg - cs - charge
      BY <1>10, <1>18, <2>5, <2>6
    <3>3. fork >= Amsterdam => gv = gw + charge - credit
      BY <1>13
    <3> QED BY <1>10, <1>12, <1>16, <1>18, <2>5, <3>1, <3>2, <3>3
  <2>14. fork < Amsterdam => hs = sp /\ hsg = sg
    BY <1>15, <1>19, <2>6
  <2>15. frame_succeeded(done)
    BY <2>10 DEF frame_succeeded
  <2>16. done.gas + done.spill < frame.gas + frame.spill
         /\ done.gas + done.spill <= frame.gas + frame.spill
    BY <1>10, <1>16, <2>5, <2>10, <2>11
  <2>17. Progress(done, w)
    BY <1>12, <1>13, <1>16, <2>1, <2>10, <2>12, <2>13, <2>14, <2>15, <2>16
       DEF Progress
  <2>18. Representable(done) = TRUE
    BY <1>2, <2>17, ProgressFits DEF Representable
  <2> QED BY <1>21, <2>1, <2>17, <2>18, ProgressKeeps
<1> QED BY <1>22, <1>23, <1>24

-----------------------------------------------------------------------------
(* SELFDESTRUCT.                                                           *)
LEMMA SelfdestructKeeps ==
  ASSUME CallInv, LNext, Running, NEW a \in world.nonempty,
         NEW beneficiary \in Accounts, NEW funded \in BOOLEAN,
         NEW cold \in BOOLEAN,
         execute_selfdestruct(a, beneficiary, funded, cold)
  PROVE  CallInv'
<1>1. /\ LedgerOK /\ frame \in Frame /\ fork \in Forks /\ WorldOK(world)
      /\ (fork < Amsterdam) = ~(fork >= Amsterdam)
  BY StateFacts, ForkSplit DEF CallInv
<1>2. frame.status = "Running" /\ frame_succeeded(frame)
  BY DEF Running, frame_succeeded
<1>3. PICK creates \in BOOLEAN : creates = CreatesAccount(beneficiary, funded)
  BY DEF CreatesAccount
<1>4. PICK cost : cost = SelfdestructCost + (IF cold THEN ColdAccess ELSE 0)
                  + (IF ~creates THEN 0
                     ELSE IF fork >= Amsterdam THEN AccountWriteCost
                     ELSE NewAccountCost)
  OBVIOUS
<1>5. PICK growth : growth = IF creates /\ fork >= Amsterdam THEN StateNewAccount ELSE 0
  OBVIOUS
<1>6. PICK paid : paid = Spend(frame, cost)
  OBVIOUS
<1>7. PICK first : first = (fork < London /\ a \notin world.destroyed)
  OBVIOUS
<1>8. PICK ch : ch = charge_state_gas(paid, growth)
  OBVIOUS
<1>9. PICK done : done = [ch EXCEPT !.refund = IF first THEN @ + SelfdestructRefund
                                               ELSE @,
                                    !.status = "Halted"]
  OBVIOUS
<1>10. PICK gone : gone = IF fork < Cancun \/ a \in world.created
                          THEN world.destroyed \cup {a} ELSE world.destroyed
  OBVIOUS
<1>11. PICK alive : alive = IF creates THEN world.nonempty \cup {beneficiary}
                            ELSE world.nonempty
  OBVIOUS
<1>12. PICK w : w = [world EXCEPT !.nonempty = alive, !.destroyed = gone]
  OBVIOUS
<1>13. IF frame.static \/ frame.gas < cost \/ state_gas_halt(paid, growth)
       THEN Fail ELSE Stay(done, w, Representable(done))
  BY <1>3, <1>4, <1>5, <1>6, <1>7, <1>8, <1>9, <1>10, <1>11, <1>12
     DEF execute_selfdestruct
<1>14. CASE frame.static \/ frame.gas < cost \/ state_gas_halt(paid, growth)
  BY <1>13, <1>14, FailKeeps
<1>15. CASE ~(frame.static \/ frame.gas < cost \/ state_gas_halt(paid, growth))
  <2>1. Stay(done, w, Representable(done)) /\ ~frame.static
    BY <1>13, <1>15
  <2>2. cost \in Nat /\ growth \in Nat /\ cost >= SelfdestructCost
    BY <1>4, <1>5, Prices
  <2>3. PICK g, sp, sg \in Nat : g = frame.gas /\ sp = frame.spill /\ sg = frame.state_gas
    BY <1>1, StateFacts
  <2>4. /\ Alike(frame, paid) /\ paid \in Frame /\ paid.gas = g - cost
        /\ paid.spill = sp /\ paid.state_gas = sg /\ cost <= g
    BY <1>1, <1>6, <1>15, <2>2, <2>3, SpendFacts DEF Alike
  <2>5. Alike(paid, ch) /\ ch \in Frame
    BY <1>8, <1>15, <2>2, <2>4, ChargeFacts DEF Alike
  <2>6. PICK hg, hs, hsg \in Nat : hg = ch.gas /\ hs = ch.spill /\ hsg = ch.state_gas
    BY <2>5 DEF Frame
  <2>7. /\ hg + hs = g - cost + sp /\ sg - hsg + hs - sp = growth
        /\ growth = 0 => hs = sp /\ hsg = sg
    <3>1. /\ ch.gas + ch.spill = paid.gas + paid.spill
          /\ paid.state_gas - ch.state_gas + ch.spill - paid.spill = growth
          /\ growth = 0 => ch.spill = paid.spill /\ ch.state_gas = paid.state_gas
      BY <1>8, <1>15, <2>2, <2>4, ChargeFacts
    <3> QED BY <2>4, <2>6, <3>1
  <2>8. PICK r \in Int : r = frame.refund
    BY <1>1, StateFacts
  <2>9. ch.refund = r /\ ch.reservoir = frame.reservoir /\ ch.static = frame.static
        /\ ch.depth = frame.depth
    BY <2>4, <2>5, <2>8 DEF Alike
  <2>10. PICK d \in Nat : d = IF first THEN SelfdestructRefund ELSE 0
    BY Prices
  <2>11. done = [ch EXCEPT !.refund = r + d, !.status = "Halted"] /\ r + d \in Int
    <3>1. CASE first
      BY <1>9, <2>5, <2>8, <2>9, <2>10, <3>1 DEF Frame
    <3>2. CASE ~first
      <4>1. r + d = ch.refund /\ r + d \in Int
        BY <2>8, <2>9, <2>10, <3>2
      <4>2. done = [ch EXCEPT !.refund = ch.refund, !.status = "Halted"]
        BY <1>9, <3>2
      <4> QED BY <4>1, <4>2
    <3> QED BY <3>1, <3>2
  <2>12. /\ done \in Frame /\ done.gas = hg /\ done.spill = hs
         /\ done.state_gas = hsg /\ done.refund = r + d
         /\ done.reservoir = frame.reservoir /\ done.static = frame.static
         /\ done.depth = frame.depth /\ done.status = "Halted"
    BY <2>5, <2>6, <2>9, <2>11 DEF Frame, Statuses
  <2>13. done.gas + done.spill <= frame.gas + frame.spill
         /\ (frame.gas + frame.spill) - (done.gas + done.spill) = cost
    BY <2>2, <2>3, <2>6, <2>7, <2>12
  <2>14. Magnitude(done.refund) <= Magnitude(frame.refund)
             + Earned((frame.gas + frame.spill) - (done.gas + done.spill))
    <3>1. d <= Earned(SelfdestructCost) /\ Magnitude(d) = d
      <4>1. Earned(SelfdestructCost) >= 0
        BY Prices, EarnedFacts
      <4>2. SelfdestructRefund <= Earned(SelfdestructCost)
        BY RefundAssumption DEF Earned
      <4>3. d <= Earned(SelfdestructCost)
        BY <2>10, <4>1, <4>2
      <4> QED BY <4>3 DEF Magnitude
    <3>2. Earned(SelfdestructCost) <= Earned(cost) /\ Earned(cost) \in Int
          /\ Earned(SelfdestructCost) \in Int
      BY <2>2, Prices, EarnedFacts
    <3>3. /\ Magnitude(r + d) <= Magnitude(r) + Magnitude(d)
          /\ Magnitude(r + d) \in Nat /\ Magnitude(r) \in Nat
      BY <2>8, <2>10, <2>11, MagnitudeFacts
    <3>4. Magnitude(r + d) <= Magnitude(r) + Earned(cost)
      BY <2>10, <3>1, <3>2, <3>3
    <3> QED BY <2>8, <2>12, <2>13, <3>4
  <2>15. /\ w \in World /\ w.slots = world.slots /\ w.code = world.code
         /\ w.nonempty = alive
    <3>1. /\ world \in World /\ world.nonempty \in SUBSET Accounts
          /\ world.destroyed \in SUBSET Accounts /\ a \in Accounts
      BY <1>1 DEF WorldOK, World
    <3>2. alive \in SUBSET Accounts /\ gone \in SUBSET Accounts
      BY <1>10, <1>11, <3>1
    <3> QED BY <1>12, <3>1, <3>2 DEF World
  <2>16. PICK gw \in Nat : gw = Growth(world)
    BY <1>1, GrowthType
  <2>17. WorldOK(w) /\ Growth(w) = gw + IF creates THEN StateNewAccount ELSE 0
    <3>1. CASE creates
      <4>1. beneficiary \notin world.nonempty
        BY <1>3, <3>1 DEF CreatesAccount
      <4>2. alive = world.nonempty \cup {beneficiary}
        BY <1>11, <3>1
      <4> QED BY <1>1, <2>15, <2>16, <3>1, <4>1, <4>2, AccountGrowth
    <3>2. CASE ~creates
      <4>1. alive = world.nonempty \cup {a} /\ a \in Accounts
        BY <1>1, <1>11, <3>2 DEF WorldOK, World
      <4> QED BY <1>1, <2>15, <2>16, <3>2, <4>1, AccountGrowth
    <3> QED BY <3>1, <3>2
  <2>18. PICK gv \in Nat : gv = Growth(w)
    BY <2>17, GrowthType
  <2>19. fork >= Amsterdam => hs - hsg - gv = sp - sg - gw
    <3>1. fork >= Amsterdam => gv = gw + growth
      BY <1>5, <2>17, <2>18
    <3> QED BY <2>2, <2>3, <2>6, <2>7, <2>16, <2>18, <3>1
  <2>20. fork < Amsterdam => hs = sp /\ hsg = sg
    BY <1>1, <1>5, <2>7
  <2>21. frame_succeeded(done)
    BY <2>12 DEF frame_succeeded
  <2>22. Progress(done, w)
    BY <2>1, <2>3, <2>12, <2>13, <2>14, <2>16, <2>17, <2>18, <2>19, <2>20,
       <2>21 DEF Progress
  <2>23. Representable(done) = TRUE
    BY <1>2, <2>22, ProgressFits DEF Representable
  <2> QED BY <2>1, <2>22, <2>23, ProgressKeeps
<1> QED BY <1>14, <1>15

-----------------------------------------------------------------------------
(* CALL and CREATE.  Both quote what the caller keeps, what the child may  *)
(* use and whether a new account was charged.                              *)
Quote(c) ==
    /\ Alike(frame, c.parent)
    /\ c.charged \in BOOLEAN /\ c.child \in Nat
    /\ c.parent.gas + c.parent.spill + c.child < frame.gas + frame.spill
    /\ fork >= Amsterdam =>
          c.parent.spill - c.parent.state_gas
              = frame.spill - frame.state_gas + NewAccount(c.charged)
    /\ fork < Amsterdam =>
          /\ ~c.charged
          /\ c.parent.spill = frame.spill
          /\ c.parent.state_gas = frame.state_gas

(* The world a charged call or creation goes on with.                      *)
Grows(c, w) ==
    /\ WorldOK(w)
    /\ fork >= Amsterdam => Growth(w) = Growth(world) + NewAccount(c.charged)
    /\ frame.static => w = world

(* Giving back the charge for an account.                                  *)
LEMMA UnchargeFacts ==
  ASSUME NEW f \in Frame, NEW charged \in BOOLEAN
  PROVE  LET g == Uncharge(f, charged) IN
         /\ Alike(f, g)
         /\ g.gas + g.spill = f.gas + f.spill
         /\ g.state_gas - f.state_gas + f.spill - g.spill = NewAccount(charged)
         /\ ~charged => g = f
         /\ NewAccount(charged) = 0 =>
               g.spill = f.spill /\ g.state_gas = f.state_gas
<1>1. f.gas \in Nat /\ f.spill \in Nat /\ f.state_gas \in Nat
  BY DEF Frame
<1>2. CASE charged
  <2>1. PICK g : g = credit_state_gas_refund(f, StateNewAccount)
    OBVIOUS
  <2>2. /\ Alike(f, g) /\ g.gas + g.spill = f.gas + f.spill
        /\ g.state_gas - f.state_gas + f.spill - g.spill = StateNewAccount
        /\ StateNewAccount = 0 => g.spill = f.spill /\ g.state_gas = f.state_gas
    BY <2>1, Prices, CreditFacts
  <2>3. g = Uncharge(f, charged)
    BY <1>2, <2>1 DEF Uncharge
  <2> QED BY <1>2, <2>2, <2>3 DEF NewAccount
<1>3. CASE ~charged
  <2>1. Uncharge(f, charged) = f
    BY <1>3 DEF Uncharge
  <2>2. Alike(f, f)
    BY DEF Alike
  <2>3. f.state_gas - f.state_gas + f.spill - f.spill = 0
    BY <1>1
  <2> QED BY <1>3, <2>1, <2>2, <2>3 DEF NewAccount
<1> QED BY <1>2, <1>3

(* Part of what was put aside for the child comes back.                    *)
LEMMA QuoteBack ==
  ASSUME CallInv, Running, NEW c, Quote(c), NEW back \in Nat, back <= c.child
  PROVE  LET f == [c.parent EXCEPT !.gas = @ + back]
             g == Uncharge(f, c.charged)
         IN  /\ Representable(f) /\ Representable(g)
             /\ Progress(g, world)
             /\ \A w : Grows(c, w) => Progress(f, w)
<1>1. /\ LedgerOK /\ frame \in Frame /\ fork \in Forks /\ WorldOK(world)
      /\ (fork < Amsterdam) = ~(fork >= Amsterdam)
  BY StateFacts, ForkSplit DEF CallInv
<1>2. frame.status = "Running" /\ frame_succeeded(frame)
  BY DEF Running, frame_succeeded
<1>3. PICK f : f = [c.parent EXCEPT !.gas = @ + back]
  OBVIOUS
<1>4. PICK g : g = Uncharge(f, c.charged)
  OBVIOUS
<1>5. c.parent \in Frame /\ c.charged \in BOOLEAN
  BY DEF Quote, Alike
<1>6. PICK pg, ps, psg, ch \in Nat : /\ pg = c.parent.gas /\ ps = c.parent.spill
                                     /\ psg = c.parent.state_gas /\ ch = c.child
  BY <1>5 DEF Frame, Quote
<1>7. PICK fg, fs, fsg \in Nat : fg = frame.gas /\ fs = frame.spill /\ fsg = frame.state_gas
  BY <1>1, StateFacts
<1>8. PICK na \in Nat : na = NewAccount(c.charged)
  BY Prices DEF NewAccount
<1>9. PICK gw \in Nat : gw = Growth(world)
  BY <1>1, GrowthType
<1>10. /\ pg + ps + ch < fg + fs
       /\ fork >= Amsterdam => ps - psg = fs - fsg + na
       /\ fork < Amsterdam => ~c.charged /\ ps = fs /\ psg = fsg
  BY <1>6, <1>7, <1>8 DEF Quote
<1>11. PICK sum \in Nat : sum = pg + back
  BY <1>6
<1>12. f = [c.parent EXCEPT !.gas = sum]
  BY <1>3, <1>5, <1>6, <1>11
<1>13. /\ f \in Frame /\ f.gas = sum /\ f.spill = ps /\ f.state_gas = psg
       /\ f.refund = frame.refund /\ f.reservoir = frame.reservoir
       /\ f.static = frame.static /\ f.depth = frame.depth /\ f.status = "Running"
  BY <1>2, <1>5, <1>6, <1>11, <1>12 DEF Quote, Alike, Frame
<1>14. sum + ps < fg + fs
  BY <1>6, <1>7, <1>10, <1>11
<1>15. /\ f.gas + f.spill < frame.gas + frame.spill
       /\ f.gas + f.spill <= frame.gas + frame.spill
  BY <1>6, <1>7, <1>11, <1>13, <1>14
<1>16. Magnitude(f.refund) <= Magnitude(frame.refund)
           + Earned((frame.gas + frame.spill) - (f.gas + f.spill))
  BY <1>1, <1>13, <1>15, SameRefund
<1>17. Representable(f)
  <2>1. fork >= Amsterdam => psg - ps <= fsg - fs + gw
    BY <1>6, <1>7, <1>8, <1>9, <1>10
  <2>2. Fitting(f)
    BY <1>7, <1>9, <1>10, <1>13, <1>15, <1>16, <2>1 DEF Fitting
  <2> QED BY <1>2, <2>2, FittingFits
<1>18. ASSUME NEW w, Grows(c, w) PROVE Progress(f, w)
  <2>1. PICK gv \in Nat : gv = Growth(w)
    BY <1>18, GrowthType DEF Grows
  <2>2. fork >= Amsterdam => gv = gw + na
    BY <1>8, <1>9, <1>18, <2>1 DEF Grows
  <2>3. fork >= Amsterdam => ps - psg - gv = fs - fsg - gw
    BY <1>6, <1>7, <1>8, <1>9, <1>10, <2>1, <2>2
  <2>4. frame_succeeded(f)
    BY <1>13 DEF frame_succeeded
  <2> QED BY <1>7, <1>9, <1>10, <1>13, <1>15, <1>16, <1>18, <2>1, <2>3, <2>4
          DEF Progress, Grows
<1>19. Progress(g, world)
  <2>1. Alike(f, g) /\ g \in Frame /\ (~c.charged => g = f)
    BY <1>4, <1>5, <1>13, UnchargeFacts DEF Alike
  <2>2. PICK gg, gs, gsg \in Nat : gg = g.gas /\ gs = g.spill /\ gsg = g.state_gas
    BY <2>1 DEF Frame
  <2>3. gg + gs = sum + ps /\ gsg - psg + ps - gs = na
    BY <1>4, <1>5, <1>8, <1>13, <2>2, UnchargeFacts
  <2>4. /\ g.refund = frame.refund /\ g.reservoir = frame.reservoir
        /\ g.static = frame.static /\ g.depth = frame.depth /\ g.status = "Running"
    BY <1>13, <2>1 DEF Alike
  <2>5. /\ g.gas + g.spill < frame.gas + frame.spill
        /\ g.gas + g.spill <= frame.gas + frame.spill
    BY <1>6, <1>7, <1>11, <1>14, <2>2, <2>3
  <2>6. Magnitude(g.refund) <= Magnitude(frame.refund)
           + Earned((frame.gas + frame.spill) - (g.gas + g.spill))
    BY <1>1, <2>1, <2>4, <2>5, SameRefund
  <2>7. fork >= Amsterdam => gs - gsg - gw = fs - fsg - gw
    <3>1. gs - gsg = ps - psg - na
      BY <1>6, <1>8, <2>2, <2>3
    <3> QED BY <1>6, <1>7, <1>8, <1>9, <1>10, <2>2, <3>1
  <2>8. fork < Amsterdam => gs = fs /\ gsg = fsg
    BY <1>10, <1>13, <2>1, <2>2
  <2>9. frame_succeeded(g)
    BY <2>4 DEF frame_succeeded
  <2> QED BY <1>1, <1>7, <1>9, <2>1, <2>2, <2>4, <2>5, <2>6, <2>7, <2>8, <2>9
          DEF Progress
<1>20. Representable(g)
  BY <1>2, <1>19, ProgressFits
<1> QED BY <1>3, <1>4, <1>17, <1>18, <1>19, <1>20

(* Nothing comes back from a child that keeps all.                         *)
LEMMA QuoteKept ==
  ASSUME NEW c, Quote(c)
  PROVE  c.parent = [c.parent EXCEPT !.gas = @ + 0]
<1>1. c.parent \in Frame
  BY DEF Quote, Alike
<1>2. c.parent.gas + 0 = c.parent.gas
  BY <1>1 DEF Frame
<1>3. c.parent = [c.parent EXCEPT !.gas = c.parent.gas]
  BY <1>1 DEF Frame
<1> QED BY <1>2, <1>3

(* A quoted call or creation may enter its child.                          *)
LEMMA QuoteEnters ==
  ASSUME CallInv, LNext, Running, NEW c, Quote(c), NEW w, Grows(c, w),
         NEW static \in BOOLEAN, frame.static => static, static => w = world,
         NEW kind \in {"ResumeCall", "ResumeCreate"},
         kind = "ResumeCreate" => ~static, ~AtDepthLimit,
         Enter(kind, c.parent, c.charged, c.child, static, world, w)
  PROVE  CallInv'
<1>1. LedgerOK
  BY DEF CallInv
<1>2. Opens(c.parent, c.charged, c.child, static, w)
  BY DEF Opens, Quote, Grows
<1>3. PICK p : p = [kind |-> kind, charged |-> c.charged,
                    parent |-> [c.parent EXCEPT !.state_gas = 0]]
  OBVIOUS
<1>4. p \in Continuation
  BY <1>3 DEF Continuation, Quote, Alike, Frame
<1>5. stack' = Append(stack, p)
  BY <1>3 DEF Enter
<1>6. totals' = Append(totals, Plus(Below(Len(stack)), Last(stack').parent))
  BY <1>1, <1>4, <1>5, TotalsFollow
<1>7. frame.depth # CallDepthLimit
  BY DEF AtDepthLimit
<1> QED BY <1>2, <1>6, <1>7, EnterKeeps

-----------------------------------------------------------------------------
(* CALL.                                                                   *)
LEMMA Quotient ==
  ASSUME NEW x \in Nat
  PROVE  x \div CapDivisor \in Nat /\ x \div CapDivisor <= x
<1>1. CapDivisor \in Nat /\ CapDivisor > 0
  BY Prices
<1> QED BY <1>1

(* A call that does not halt quotes its price.                             *)
LEMMA CallQuote ==
  ASSUME CallInv, Running, NEW kind \in CallKinds, NEW target \in Accounts,
         NEW cold \in BOOLEAN, NEW memory \in MemoryCosts,
         NEW request \in Requests, NEW value \in BOOLEAN,
         NEW c, c = call_charge(kind, value, target, Access(cold), memory, request),
         Proceeds(kind, value, c)
  PROVE  Quote(c) /\ Grows(c, k_transfer(kind, value, target))
<1>1. /\ LedgerOK /\ frame \in Frame /\ fork \in Forks /\ WorldOK(world)
      /\ (fork < Amsterdam) = ~(fork >= Amsterdam)
  BY StateFacts, ForkSplit DEF CallInv
<1>2. PICK creates \in BOOLEAN :
         creates = (CreatesAccount(target, value) /\ transfers_value(kind))
  OBVIOUS
<1>3. PICK charged \in BOOLEAN : charged = (creates /\ fork >= Amsterdam)
  BY <1>2
<1>4. PICK cost : cost = memory + Access(cold)
                  + (IF value THEN CallValueCost ELSE 0)
                  + (IF creates /\ fork < Amsterdam THEN NewAccountCost ELSE 0)
  OBVIOUS
<1>5. PICK growth : growth = IF charged THEN StateNewAccount ELSE 0
  OBVIOUS
<1>6. PICK paid : paid = Spend(frame, cost)
  OBVIOUS
<1>7. PICK grown : grown = charge_state_gas(paid, growth)
  OBVIOUS
<1>8. PICK base : base = call_gas_cap_word(grown.gas, request)
  OBVIOUS
<1>9. PICK stipend : stipend = IF value THEN CallStipend ELSE 0
  OBVIOUS
<1>10. c = [halt |-> frame.gas < cost \/ state_gas_halt(paid, growth),
            charged |-> charged, parent |-> Spend(grown, base),
            child |-> base + stipend]
  BY <1>2, <1>3, <1>4, <1>5, <1>6, <1>7, <1>8, <1>9 DEF call_charge
<1>11. ~(frame.gas < cost) /\ ~state_gas_halt(paid, growth)
  <2>1. PICK halt \in BOOLEAN :
           halt = (frame.gas < cost \/ state_gas_halt(paid, growth))
    BY DEF state_gas_halt
  <2>2. c.halt = halt
    BY <1>10, <2>1
  <2>3. ~halt
    BY <2>2 DEF Proceeds
  <2> QED BY <2>1, <2>3
<1>12. cost \in Nat /\ stipend \in Nat /\ growth \in Nat /\ cost > stipend
       /\ memory \in Nat /\ request \in Nat
  <2>1. memory \in Nat /\ request \in Nat
    BY CallTreeAssumption
  <2>2. PICK a \in Nat : a = Access(cold) /\ a > 0
    BY Prices DEF Access
  <2>3. stipend \in Nat /\ growth \in Nat
    BY <1>5, <1>9, Prices
  <2>4. PICK v, n \in Nat : /\ v = IF value THEN CallValueCost ELSE 0
                            /\ n = IF creates /\ fork < Amsterdam
                                   THEN NewAccountCost ELSE 0
    BY Prices
  <2>5. v >= stipend
    BY <1>9, <2>4, Prices
  <2>6. cost = memory + a + v + n
    BY <1>4, <2>2, <2>4
  <2> QED BY <2>1, <2>2, <2>3, <2>4, <2>5, <2>6
<1>13. PICK g, sp, sg \in Nat : g = frame.gas /\ sp = frame.spill /\ sg = frame.state_gas
  BY <1>1, StateFacts
<1>14. /\ Alike(frame, paid) /\ paid \in Frame /\ paid.gas = g - cost
       /\ paid.spill = sp /\ paid.state_gas = sg /\ cost <= g
  BY <1>1, <1>6, <1>11, <1>12, <1>13, SpendFacts DEF Alike
<1>15. Alike(paid, grown) /\ grown \in Frame
  BY <1>7, <1>11, <1>12, <1>14, ChargeFacts DEF Alike
<1>16. PICK hg, hs, hsg \in Nat : hg = grown.gas /\ hs = grown.spill /\ hsg = grown.state_gas
  BY <1>15 DEF Frame
<1>17. /\ hg + hs = g - cost + sp /\ sg - hsg + hs - sp = growth
       /\ growth = 0 => hs = sp /\ hsg = sg
  <2>1. /\ grown.gas + grown.spill = paid.gas + paid.spill
        /\ paid.state_gas - grown.state_gas + grown.spill - paid.spill = growth
        /\ growth = 0 => grown.spill = paid.spill /\ grown.state_gas = paid.state_gas
    BY <1>7, <1>11, <1>12, <1>14, ChargeFacts
  <2> QED BY <1>14, <1>16, <2>1
<1>18. base \in Nat /\ base <= hg
  <2>1. hg \div CapDivisor \in Nat /\ hg \div CapDivisor <= hg
    BY <1>16, Quotient
  <2> QED BY <1>8, <1>12, <1>16, <2>1 DEF call_gas_cap_word
<1>19. PICK p : p = Spend(grown, base)
  OBVIOUS
<1>20. /\ Alike(grown, p) /\ p \in Frame /\ p.gas = hg - base
       /\ p.spill = hs /\ p.state_gas = hsg
  BY <1>15, <1>16, <1>18, <1>19, SpendFacts DEF Alike
<1>21. c.parent = p /\ c.charged = charged /\ c.child = base + stipend
  BY <1>10, <1>19
<1>22. Alike(frame, p)
  BY <1>14, <1>15, <1>20 DEF Alike
<1>23. growth = NewAccount(charged)
  BY <1>5 DEF NewAccount
<1>24. Quote(c)
  <2>1. p.gas + p.spill + (base + stipend) < frame.gas + frame.spill
    BY <1>12, <1>13, <1>16, <1>17, <1>18, <1>20
  <2>2. base + stipend \in Nat
    BY <1>12, <1>18
  <2>3. p.spill - p.state_gas = frame.spill - frame.state_gas + growth
    BY <1>12, <1>13, <1>16, <1>17, <1>20
  <2>4. fork < Amsterdam => ~charged /\ growth = 0
    BY <1>1, <1>3, <1>5
  <2> QED BY <1>13, <1>17, <1>20, <1>21, <1>22, <1>23, <2>1, <2>2, <2>3, <2>4
          DEF Quote
<1>25. Grows(c, k_transfer(kind, value, target))
  <2>1. PICK w : w = k_transfer(kind, value, target)
    OBVIOUS
  <2>2. PICK gw \in Nat : gw = Growth(world)
    BY <1>1, GrowthType
  <2>3. CASE transfers_value(kind) /\ value
    <3>1. w = [world EXCEPT !.nonempty = @ \cup {target}] /\ ~frame.static
      BY <2>1, <2>3 DEF k_transfer, Proceeds, WriteProtected
    <3>2. /\ w \in World /\ w.slots = world.slots /\ w.code = world.code
          /\ w.nonempty = world.nonempty \cup {target}
      BY <1>1, <3>1 DEF WorldOK, World
    <3>3. /\ WorldOK(w)
          /\ Growth(w) = gw + IF target \in world.nonempty THEN 0 ELSE StateNewAccount
      BY <1>1, <2>2, <3>2, AccountGrowth
    <3>4. fork >= Amsterdam => (charged = (target \notin world.nonempty))
      BY <1>2, <1>3, <2>3 DEF CreatesAccount
    <3>5. fork >= Amsterdam => Growth(w) = gw + NewAccount(charged)
      BY <3>3, <3>4 DEF NewAccount
    <3> QED BY <1>21, <2>1, <2>2, <3>1, <3>3, <3>5 DEF Grows
  <2>4. CASE ~(transfers_value(kind) /\ value)
    <3>1. w = world
      BY <2>1, <2>4 DEF k_transfer
    <3>2. ~charged
      BY <1>2, <1>3, <2>4 DEF CreatesAccount
    <3>3. gw = gw + NewAccount(charged)
      BY <2>2, <3>2 DEF NewAccount
    <3> QED BY <1>1, <1>21, <2>1, <2>2, <3>1, <3>3 DEF Grows
  <2> QED BY <2>3, <2>4
<1> QED BY <1>24, <1>25

(* All outcomes of a call keep the invariant.                              *)
LEMMA CallKeeps ==
  ASSUME CallInv, LNext, run_call
  PROVE  CallInv'
<1>1. Running
  BY DEF run_call
<1>2. PICK kind \in CallKinds, target \in Accounts, cold \in BOOLEAN,
           memory \in MemoryCosts, request \in Requests :
        \E value \in IF takes_value(kind) THEN BOOLEAN ELSE {FALSE} :
           LET c == call_charge(kind, value, target, Access(cold), memory,
                                request)
           IN  \/ call_halts(kind, value, c)
               \/ call_refused(kind, value, c)
               \/ call_precompile_succeeds(kind, value, target, c)
               \/ call_precompile_fails(kind, value, c)
               \/ call_enters(kind, value, target, c)
  BY DEF run_call
<1>3. PICK value \in BOOLEAN :
           LET c == call_charge(kind, value, target, Access(cold), memory,
                                request)
           IN  \/ call_halts(kind, value, c)
               \/ call_refused(kind, value, c)
               \/ call_precompile_succeeds(kind, value, target, c)
               \/ call_precompile_fails(kind, value, c)
               \/ call_enters(kind, value, target, c)
  BY <1>2
<1>4. PICK c : c = call_charge(kind, value, target, Access(cold), memory, request)
  OBVIOUS
<1>5. Proceeds(kind, value, c) =>
         Quote(c) /\ Grows(c, k_transfer(kind, value, target))
  BY <1>1, <1>4, CallQuote
<1>6. CASE call_halts(kind, value, c)
  BY <1>1, <1>6, FailKeeps DEF call_halts
<1>7. CASE call_refused(kind, value, c)
  <2>1. PICK f, g : f = [c.parent EXCEPT !.gas = @ + c.child] /\ g = Uncharge(f, c.charged)
    OBVIOUS
  <2>2. Proceeds(kind, value, c) /\ Stay(g, world, Representable(f) /\ Representable(g))
    BY <1>7, <2>1 DEF call_refused
  <2>3. Quote(c)
    BY <1>5, <2>2
  <2>4. c.child \in Nat /\ c.child <= c.child
    BY <2>3 DEF Quote
  <2>5. Representable(f) /\ Representable(g) /\ Progress(g, world)
    BY <1>1, <2>1, <2>3, <2>4, QuoteBack
  <2>6. (Representable(f) /\ Representable(g)) = TRUE
    BY <2>5
  <2> QED BY <1>1, <2>2, <2>5, <2>6, ProgressKeeps
<1>8. CASE call_precompile_succeeds(kind, value, target, c)
  <2>1. PICK used \in OpCosts :
           /\ used <= c.child
           /\ LET f == [c.parent EXCEPT !.gas = @ + (c.child - used)]
              IN  Stay(f, k_transfer(kind, value, target), Representable(f))
    BY <1>8 DEF call_precompile_succeeds
  <2>2. Quote(c) /\ Grows(c, k_transfer(kind, value, target))
    BY <1>5, <1>8 DEF call_precompile_succeeds
  <2>3. PICK back : back = c.child - used
    OBVIOUS
  <2>4. back \in Nat /\ back <= c.child
    BY <2>1, <2>2, <2>3, CallTreeAssumption DEF Quote
  <2>5. PICK f : f = [c.parent EXCEPT !.gas = @ + back]
    OBVIOUS
  <2>6. Stay(f, k_transfer(kind, value, target), Representable(f))
    BY <2>1, <2>3, <2>5
  <2>7. Representable(f) /\ Progress(f, k_transfer(kind, value, target))
    BY <1>1, <2>2, <2>4, <2>5, QuoteBack
  <2>8. Representable(f) = TRUE
    BY <2>7
  <2> QED BY <1>1, <2>6, <2>7, <2>8, ProgressKeeps
<1>9. CASE call_precompile_fails(kind, value, c)
  <2>1. PICK g : g = Uncharge(c.parent, c.charged)
    OBVIOUS
  <2>2. Quote(c) /\ Stay(g, world, Representable(g))
    BY <1>5, <1>9, <2>1 DEF call_precompile_fails
  <2>3. 0 \in Nat /\ 0 <= c.child /\ c.parent = [c.parent EXCEPT !.gas = @ + 0]
    BY <2>2, QuoteKept DEF Quote
  <2>4. Representable(g) /\ Progress(g, world)
    BY <1>1, <2>1, <2>2, <2>3, QuoteBack
  <2>5. Representable(g) = TRUE
    BY <2>4
  <2> QED BY <1>1, <2>2, <2>4, <2>5, ProgressKeeps
<1>10. CASE call_enters(kind, value, target, c)
  <2>1. PICK static \in BOOLEAN :
           static = (frame.static \/ enters_static_context(kind))
    OBVIOUS
  <2>2. PICK w : w = k_transfer(kind, value, target)
    OBVIOUS
  <2>3. /\ Quote(c) /\ Grows(c, w) /\ ~AtDepthLimit
        /\ Enter("ResumeCall", c.parent, c.charged, c.child, static, world, w)
    BY <1>5, <1>10, <2>1, <2>2 DEF call_enters
  <2>4. enters_static_context(kind) => w = world
    BY <2>2 DEF enters_static_context, k_transfer, transfers_value
  <2>5. (frame.static => static) /\ (static => w = world)
    BY <2>1, <2>3, <2>4 DEF Grows
  <2>6. "ResumeCall" # "ResumeCreate"
    OBVIOUS
  <2> QED BY <1>1, <2>3, <2>5, <2>6, QuoteEnters
<1> QED BY <1>3, <1>4, <1>6, <1>7, <1>8, <1>9, <1>10

-----------------------------------------------------------------------------
(* CREATE and CREATE2.                                                     *)
LEMMA CreateQuote ==
  ASSUME CallInv, Running, NEW target \in Accounts, NEW memory \in MemoryCosts,
         NEW c, c = create_charge(target, memory),
         CreateProceeds(memory), ~c.halt
  PROVE  /\ Quote(c)
         /\ Grows(c, [world EXCEPT !.nonempty = @ \cup {target},
                                   !.created = @ \cup {target}])
<1>1. /\ LedgerOK /\ frame \in Frame /\ fork \in Forks /\ WorldOK(world)
      /\ (fork < Amsterdam) = ~(fork >= Amsterdam)
  BY StateFacts, ForkSplit DEF CallInv
<1>2. PICK charged \in BOOLEAN : charged = create_charged(target)
  BY DEF create_charged
<1>3. PICK growth \in Nat : growth = (IF charged THEN StateNewAccount ELSE 0)
                            /\ growth = NewAccount(charged)
  BY Prices DEF NewAccount
<1>4. PICK cost \in Nat : cost = memory + CreateAccessCost /\ cost > 0
  BY CallTreeAssumption, Prices
<1>5. PICK paid : paid = CreatePaid(memory) /\ paid = Spend(frame, cost)
  BY <1>4 DEF CreatePaid
<1>6. PICK grown : grown = charge_state_gas(paid, growth)
  OBVIOUS
<1>7. PICK kept : kept = grown.gas \div CapDivisor
  OBVIOUS
<1>8. PICK p : p = [grown EXCEPT !.gas = kept]
  OBVIOUS
<1>9. PICK g, sp, sg \in Nat : g = frame.gas /\ sp = frame.spill /\ sg = frame.state_gas
  BY <1>1, StateFacts
<1>10. cost <= g /\ ~frame.static
  BY <1>4, <1>9 DEF CreateProceeds
<1>11. /\ Alike(frame, paid) /\ paid \in Frame /\ paid.gas = g - cost
       /\ paid.spill = sp /\ paid.state_gas = sg
  BY <1>1, <1>5, <1>9, <1>10, SpendFacts DEF Alike
<1>12. PICK halt \in BOOLEAN : halt = state_gas_halt(paid, growth)
  <2>1. PICK sum \in Int : sum = paid.state_gas + paid.gas
    BY <1>9, <1>11
  <2>2. (growth > sum) \in BOOLEAN
    BY <2>1
  <2>3. state_gas_halt(paid, growth) = (growth > sum)
    BY <2>1 DEF state_gas_halt
  <2> QED BY <2>2, <2>3
<1>13. c = [halt |-> halt, charged |-> charged, parent |-> p,
            child |-> grown.gas - kept]
  <2>1. PICK s : s = Split(grown)
    OBVIOUS
  <2>2. s.parent = p /\ s.child = grown.gas - kept
    BY <1>7, <1>8, <2>1 DEF Split
  <2>3. c = [halt |-> halt, charged |-> charged, parent |-> s.parent,
             child |-> s.child]
    BY <1>2, <1>3, <1>5, <1>6, <1>12, <2>1 DEF create_charge
  <2> QED BY <2>2, <2>3
<1>14. ~state_gas_halt(paid, growth)
  BY <1>12, <1>13
<1>15. Alike(paid, grown) /\ grown \in Frame
  BY <1>6, <1>14, <1>11, ChargeFacts DEF Alike
<1>16. PICK hg, hs, hsg \in Nat : hg = grown.gas /\ hs = grown.spill /\ hsg = grown.state_gas
  BY <1>15 DEF Frame
<1>17. /\ hg + hs = g - cost + sp /\ sg - hsg + hs - sp = growth
       /\ growth = 0 => hs = sp /\ hsg = sg
  <2>1. /\ grown.gas + grown.spill = paid.gas + paid.spill
        /\ paid.state_gas - grown.state_gas + grown.spill - paid.spill = growth
        /\ growth = 0 => grown.spill = paid.spill /\ grown.state_gas = paid.state_gas
    BY <1>6, <1>14, <1>11, ChargeFacts
  <2> QED BY <1>11, <1>16, <2>1
<1>18. kept \in Nat /\ kept <= hg
  BY <1>7, <1>16, Quotient
<1>19. PICK child \in Nat : child = hg - kept
  BY <1>16, <1>18
<1>20. /\ p \in Frame /\ p.gas = kept /\ p.spill = hs /\ p.state_gas = hsg
       /\ Alike(frame, p)
  BY <1>8, <1>11, <1>15, <1>16, <1>18 DEF Alike, Frame
<1>21. c.parent = p /\ c.charged = charged /\ c.child = child
  BY <1>13, <1>16, <1>19
<1>22. Quote(c)
  <2>1. p.gas + p.spill + child < frame.gas + frame.spill
    BY <1>4, <1>9, <1>16, <1>17, <1>18, <1>19, <1>20
  <2>2. p.spill - p.state_gas = frame.spill - frame.state_gas + growth
    BY <1>3, <1>9, <1>16, <1>17, <1>20
  <2>3. fork < Amsterdam => ~charged /\ growth = 0
    BY <1>1, <1>2, <1>3 DEF create_charged
  <2> QED BY <1>3, <1>9, <1>17, <1>20, <1>21, <2>1, <2>2, <2>3 DEF Quote
<1>23. PICK w : w = [world EXCEPT !.nonempty = @ \cup {target},
                                  !.created = @ \cup {target}]
  OBVIOUS
<1>24. Grows(c, w)
  <2>1. /\ w \in World /\ w.slots = world.slots /\ w.code = world.code
        /\ w.nonempty = world.nonempty \cup {target}
    BY <1>1, <1>23 DEF WorldOK, World
  <2>2. /\ WorldOK(w)
        /\ Growth(w) = Growth(world)
               + IF target \in world.nonempty THEN 0 ELSE StateNewAccount
    BY <1>1, <2>1, AccountGrowth
  <2>3. fork >= Amsterdam => (charged = (target \notin world.nonempty))
    BY <1>2 DEF create_charged
  <2>4. fork >= Amsterdam => Growth(w) = Growth(world) + NewAccount(charged)
    BY <2>2, <2>3 DEF NewAccount
  <2> QED BY <1>10, <1>21, <2>2, <2>4 DEF Grows
<1> QED BY <1>22, <1>23, <1>24

(* All outcomes of a creation keep the invariant.                          *)
LEMMA CreateKeeps ==
  ASSUME CallInv, LNext, run_create
  PROVE  CallInv'
<1>1. Running /\ LedgerOK
  BY DEF run_create, CallInv
<1>2. PICK target \in Accounts, memory \in MemoryCosts :
           \/ \E oversized \in BOOLEAN : create_halts(memory, oversized)
           \/ create_refused(memory)
           \/ create_runs_out(target, memory)
           \/ create_collides(target, memory)
           \/ create_enters(target, memory)
  BY DEF run_create
<1>3. PICK c : c = create_charge(target, memory)
  OBVIOUS
<1>4. CASE \E oversized \in BOOLEAN : create_halts(memory, oversized)
  BY <1>1, <1>4, FailKeeps DEF create_halts
<1>5. CASE create_refused(memory)
  <2>1. PICK cost \in Nat : cost = memory + CreateAccessCost /\ cost > 0
    BY CallTreeAssumption, Prices
  <2>2. PICK f : f = Spend(frame, cost)
    OBVIOUS
  <2>3. Stay(f, world, TRUE) /\ frame.gas >= cost
    BY <1>5, <2>1, <2>2 DEF create_refused, CreateProceeds, CreatePaid
  <2>4. frame \in Frame /\ frame.gas \in Nat /\ frame.spill \in Nat
        /\ frame.state_gas \in Nat /\ WorldOK(world) /\ Growth(world) \in Nat
    BY <1>1, StateFacts
  <2>5. /\ Alike(frame, f) /\ f.gas = frame.gas - cost
        /\ f.spill = frame.spill /\ f.state_gas = frame.state_gas
    BY <2>2, <2>3, <2>4, SpendFacts
  <2>6. f \in Frame /\ f.refund = frame.refund /\ f.status = "Running"
        /\ f.reservoir = frame.reservoir
        /\ f.static = frame.static /\ f.depth = frame.depth
    BY <1>1, <2>5 DEF Alike, Running
  <2>7. f.gas + f.spill < frame.gas + frame.spill
        /\ f.gas + f.spill <= frame.gas + frame.spill
    BY <2>1, <2>4, <2>5
  <2>8. Magnitude(f.refund) <= Magnitude(frame.refund)
           + Earned((frame.gas + frame.spill) - (f.gas + f.spill))
    BY <2>4, <2>6, <2>7, SameRefund
  <2>9. Progress(f, world)
    BY <2>4, <2>5, <2>6, <2>7, <2>8 DEF Progress, frame_succeeded
  <2> QED BY <1>1, <2>3, <2>9, ProgressKeeps
<1>6. CASE create_runs_out(target, memory)
  BY <1>1, <1>6, FailKeeps DEF create_runs_out
<1>7. CASE create_collides(target, memory)
  <2>1. PICK g : g = Uncharge(c.parent, c.charged)
    OBVIOUS
  <2>2. CreateProceeds(memory) /\ ~c.halt /\ Stay(g, world, Representable(g))
    BY <1>3, <1>7, <2>1 DEF create_collides
  <2>3. Quote(c)
    BY <1>1, <1>3, <2>2, CreateQuote
  <2>4. 0 \in Nat /\ 0 <= c.child /\ c.parent = [c.parent EXCEPT !.gas = @ + 0]
    BY <2>3, QuoteKept DEF Quote
  <2>5. Representable(g) /\ Progress(g, world)
    BY <1>1, <2>1, <2>3, <2>4, QuoteBack
  <2>6. Representable(g) = TRUE
    BY <2>5
  <2> QED BY <1>1, <2>2, <2>5, <2>6, ProgressKeeps
<1>8. CASE create_enters(target, memory)
  <2>1. PICK w : w = [world EXCEPT !.nonempty = @ \cup {target},
                                   !.created = @ \cup {target}]
    OBVIOUS
  <2>2. /\ CreateProceeds(memory) /\ ~c.halt /\ ~AtDepthLimit
        /\ Enter("ResumeCreate", c.parent, c.charged, c.child, frame.static,
                 world, w)
    BY <1>3, <1>8, <2>1 DEF create_enters
  <2>3. Quote(c) /\ Grows(c, w)
    BY <1>1, <1>3, <2>1, <2>2, CreateQuote
  <2>4. ~frame.static /\ frame.static \in BOOLEAN
    BY <1>1, <2>2, StateFacts DEF CreateProceeds
  <2> QED BY <1>1, <2>2, <2>3, <2>4, QuoteEnters
<1> QED BY <1>2, <1>4, <1>5, <1>6, <1>7, <1>8

-----------------------------------------------------------------------------
(* The frame has a parent.                                                 *)
Nested == stack # <<>>

(* The end of a child.  A parent on the way of its resumption passes every *)
(* check: what it holds is what it and its child held.                     *)
Returned(x) ==
    /\ x \in Frame
    /\ x.gas + x.spill <= Last(stack).parent.gas + Last(stack).parent.spill
                            + (frame.gas + frame.spill)
    /\ Magnitude(x.refund) <= Magnitude(Last(stack).parent.refund)
                                + Magnitude(frame.refund)
    /\ fork >= Amsterdam => x.state_gas <= InitialStateGas[fork]
                               + (Below(Len(stack) - 1).spill + x.spill)
    /\ fork < Amsterdam => x.spill = 0 /\ x.state_gas = InitialStateGas[fork]

(* Such a parent passes the checks of machine.sail.                        *)
LEMMA ParentFits ==
  ASSUME CallInv, Nested, NEW x, Returned(x)
  PROVE  Representable(x)
<1>1. LedgerOK /\ BudgetOK
  BY DEF CallInv
<1>2. PICK n, k \in Nat : n = Len(stack) /\ k = n - 1 /\ n \in 0..Len(stack)
                          /\ k \in 0..Len(stack)
  BY <1>1, ParentFacts DEF Nested
<1>3. PICK p : p = Last(stack).parent
  OBVIOUS
<1>4. PICK pg, ps \in Nat : pg = p.gas /\ ps = p.spill
  BY <1>1, <1>3, ParentFacts DEF Nested
<1>5. PICK pm \in Nat : pm = Magnitude(p.refund)
  BY <1>1, <1>3, ParentFacts, MagnitudeFacts DEF Nested
<1>6. PICK bg, bs, bm \in Nat : /\ bg = Below(k).gas /\ bs = Below(k).spill
                                /\ bm = Below(k).magnitude
  BY <1>1, <1>2, StateFacts
<1>7. Below(n) = Plus(Below(k), p)
  BY <1>1, <1>2, <1>3, ParentFacts DEF Nested
<1>8. /\ Below(n).gas = bg + pg /\ Below(n).spill = bs + ps
      /\ Below(n).magnitude = bm + pm
  BY <1>4, <1>6, <1>7, <1>5 DEF Plus
<1>9. PICK g, s \in Nat : g = frame.gas /\ s = frame.spill
  BY <1>1, StateFacts
<1>10. PICK fm \in Nat : fm = Magnitude(frame.refund)
  BY <1>1, StateFacts, MagnitudeFacts
<1>11. PICK h \in Nat : h = (bg + pg) + (bs + ps) + g + s
  BY <1>4, <1>6, <1>9
<1>12. Held = h
  BY <1>1, <1>2, <1>8, <1>9, <1>11, StateFacts
<1>13. PICK xg, xs, xsg \in Nat : xg = x.gas /\ xs = x.spill
                                  /\ xsg = x.state_gas
  BY DEF Frame, Returned
<1>14. PICK xm \in Nat : xm = Magnitude(x.refund)
  BY MagnitudeFacts DEF Frame, Returned
<1>15. PICK held \in Nat : held = bg + bs + xg + xs
  BY <1>6, <1>13
<1>16. PICK ig, isg \in Nat : ig = InitialGas[fork] /\ isg = InitialStateGas[fork]
  BY <1>1, StateFacts
<1>17. xg + xs <= pg + ps + (g + s)
  BY <1>3, <1>4, <1>9, <1>13 DEF Returned
<1>18. held <= h /\ xg + xs <= held
  BY <1>4, <1>6, <1>9, <1>11, <1>13, <1>15, <1>17
<1>19. h <= ig
  BY <1>1, <1>12, <1>16 DEF BudgetOK
<1>20. xsg <= isg + held
  <2>1. fork >= Amsterdam => xsg <= isg + (bs + xs)
    BY <1>2, <1>6, <1>13, <1>16 DEF Returned
  <2>2. fork < Amsterdam => xsg = isg
    BY <1>13, <1>16 DEF Returned
  <2>3. fork < Amsterdam \/ fork >= Amsterdam
    BY <1>1, StateFacts, ForkSplit
  <2> QED BY <1>6, <1>13, <1>15, <1>16, <2>1, <2>2, <2>3
<1>21. xm <= Earned(ig - held)
  <2>1. PICK a, b \in Int : a = ig - h /\ b = ig - held
    BY <1>11, <1>15, <1>16
  <2>2. Earned(a) <= Earned(b) /\ Earned(a) \in Int /\ Earned(b) \in Int
    <3>1. a <= b
      BY <1>11, <1>15, <1>16, <1>18, <2>1
    <3> QED BY <2>1, <3>1, EarnedFacts
  <2>3. (bm + pm) + fm <= Earned(a)
    BY <1>1, <1>2, <1>8, <1>10, <1>12, <1>16, <2>1 DEF BudgetOK
  <2>4. xm <= pm + fm
    BY <1>3, <1>5, <1>10, <1>14 DEF Returned
  <2>5. xm <= Earned(b)
    <3>1. PICK ea, eb \in Int : ea = Earned(a) /\ eb = Earned(b)
      BY <2>2
    <3>2. ea <= eb /\ (bm + pm) + fm <= ea
      BY <2>2, <2>3, <3>1
    <3>3. xm <= eb
      BY <2>4, <3>2
    <3> QED BY <3>1, <3>3
  <2> QED BY <2>1, <2>5
<1>22. held <= ig
  BY <1>11, <1>15, <1>16, <1>18, <1>19
<1>23. x \in Frame /\ fork \in Forks /\ (fork < Amsterdam => xs = 0)
  BY <1>1, <1>13, StateFacts DEF Returned
<1> QED BY <1>23, <1>13, <1>16, <1>18, <1>20, <1>21, <1>22, <1>14, Fits

(* The child as its parent finds it, once its deposit has been charged.    *)
Child(child, w) ==
    /\ child \in Frame /\ WorldOK(w)
    /\ child.reservoir = frame.reservoir
    /\ child.refund = frame.refund
    /\ child.gas + child.spill <= frame.gas + frame.spill
    /\ fork >= Amsterdam =>
          IF frame_succeeded(child)
          THEN InitialStateGas[fork] - child.state_gas
                 + (Below(Len(stack)).spill + child.spill) = Growth(w)
          ELSE child.spill = 0 /\ child.state_gas = child.reservoir
    /\ fork < Amsterdam =>
          child.spill = 0 /\ child.state_gas = InitialStateGas[fork]
    /\ frame.static => w = world

(* The parent of such a child resumes.                                     *)
LEMMA ResumeParentKeeps ==
  ASSUME CallInv, LNext, Done, Nested, NEW child, NEW w,
         Child(child, w), ResumeParent(child, w)
  PROVE  CallInv'
<1>1. LedgerOK /\ BudgetOK /\ PoolsOK /\ StaticOK
  BY DEF CallInv
<1>2. PICK n, k \in Nat : n = Len(stack) /\ k = n - 1 /\ n \in 0..Len(stack)
                          /\ k \in 0..Len(stack) /\ n \in 1..Len(stack)
  BY <1>1, ParentFacts DEF Nested
<1>3. PICK top, p : top = Last(stack) /\ p = top.parent
  OBVIOUS
<1>4. /\ p \in Frame /\ p.state_gas = 0 /\ p.status = "Running"
      /\ top.charged \in BOOLEAN /\ top = stack[n]
      /\ WorldOK(Last(saved)) /\ Last(saved) = saved[n]
  BY <1>1, <1>2, <1>3, ParentFacts DEF Nested
<1>5. PICK pg, ps \in Nat : pg = p.gas /\ ps = p.spill
  BY <1>1, <1>3, ParentFacts DEF Nested
<1>6. PICK pm \in Nat : pm = Magnitude(p.refund)
  BY <1>1, <1>3, ParentFacts, MagnitudeFacts DEF Nested
<1>7. PICK bs \in Nat : bs = Below(k).spill
  BY <1>1, <1>2, StateFacts
<1>8. Below(n).spill = bs + ps
  <2>1. Below(n) = Plus(Below(k), p)
    BY <1>1, <1>2, <1>3, ParentFacts DEF Nested
  <2> QED BY <1>5, <1>7, <2>1 DEF Plus
<1>9. PICK g, s \in Nat : g = frame.gas /\ s = frame.spill
  BY <1>1, StateFacts
<1>10. PICK fm \in Nat : fm = Magnitude(frame.refund)
  BY <1>1, StateFacts, MagnitudeFacts
<1>11. PICK cg, cs, csg \in Nat : cg = child.gas /\ cs = child.spill
                                 /\ csg = child.state_gas
  BY DEF Child, Frame
<1>12. cg + cs <= g + s
  BY <1>9, <1>11 DEF Child
<1>13. PICK isg \in Nat : isg = InitialStateGas[fork]
  BY <1>1, StateFacts
<1>14. PICK merged : merged = return_child_gas(p, child)
  OBVIOUS
<1>15. PICK a, b \in Nat : a = pg + cg /\ b = ps + cs
  BY <1>5, <1>11
<1>16. merged = [p EXCEPT !.gas = a, !.state_gas = csg, !.spill = b]
  <2>1. p.state_gas + child.state_gas = csg
    BY <1>4, <1>11
  <2> QED BY <1>5, <1>11, <1>14, <1>15, <2>1 DEF return_child_gas
<1>17. /\ merged \in Frame /\ merged.gas = a /\ merged.spill = b
       /\ merged.state_gas = csg /\ merged.refund = p.refund
       /\ merged.reservoir = p.reservoir /\ merged.static = p.static
       /\ merged.depth = p.depth /\ merged.status = "Running"
  BY <1>4, <1>11, <1>15, <1>16 DEF Frame
<1>18. a + b <= pg + ps + (g + s)
  BY <1>5, <1>9, <1>11, <1>12, <1>15
<1>19. fork < Amsterdam => b = 0 /\ csg = isg
  <2>1. ASSUME fork < Amsterdam PROVE Below(n).spill = 0 /\ cs = 0 /\ csg = isg
    BY <1>1, <1>2, <1>11, <1>13, <2>1 DEF PoolsOK, Child
  <2>2. ASSUME fork < Amsterdam PROVE ps = 0
    BY <1>5, <1>7, <1>8, <2>1, <2>2
  <2>3. cs = 0 /\ ps = 0 => b = 0
    BY <1>15
  <2> QED BY <2>1, <2>2, <2>3
<1>20. (fork < Amsterdam) = ~(fork >= Amsterdam)
  BY <1>1, StateFacts, ForkSplit
<1>21. p.static => frame.static
  BY <1>1, <1>2, <1>3, <1>4 DEF StaticOK
<1>22. frame_succeeded(child) \in BOOLEAN
  BY DEF frame_succeeded
<1>23. CASE frame_succeeded(child)
  <2>1. PICK r \in Int : r = p.refund + child.refund
    <3>1. p.refund \in Int /\ child.refund \in Int
      BY <1>1, <1>3, ParentFacts DEF Child, Frame, Nested
    <3> QED BY <3>1
  <2>2. PICK f : f = [merged EXCEPT !.refund = r]
    OBVIOUS
  <2>3. f = [merged EXCEPT !.refund = @ + child.refund]
    BY <1>17, <2>1, <2>2
  <2>4. /\ f \in Frame /\ f.gas = a /\ f.spill = b
        /\ f.state_gas = csg /\ f.refund = r
        /\ f.reservoir = p.reservoir /\ f.static = p.static
        /\ f.depth = p.depth /\ f.status = "Running"
    BY <1>17, <2>1, <2>2 DEF Frame
  <2>5. Resume(f, w, Representable(f))
    BY <1>3, <1>14, <1>23, <2>3 DEF ResumeParent
  <2>6. Magnitude(r) <= pm + fm
    <3>1. p.refund \in Int /\ frame.refund \in Int /\ child.refund = frame.refund
      BY <1>1, <1>3, ParentFacts, StateFacts DEF Child, Nested
    <3>2. Magnitude(r) <= Magnitude(p.refund) + Magnitude(frame.refund)
      BY <2>1, <3>1, MagnitudeFacts
    <3> QED BY <1>6, <1>10, <3>2
  <2>7. PICK gw \in Nat : gw = Growth(w)
    BY GrowthType DEF Child
  <2>8. fork >= Amsterdam => isg - csg + (bs + b) = gw
    <3>1. fork >= Amsterdam => isg - csg + ((bs + ps) + cs) = gw
      BY <1>2, <1>8, <1>11, <1>13, <1>23, <2>7 DEF Child
    <3> QED BY <1>5, <1>7, <1>11, <1>13, <1>15, <2>7, <3>1
  <2>9. f.gas + f.spill <= p.gas + p.spill + (frame.gas + frame.spill)
    BY <1>5, <1>9, <1>18, <2>4
  <2>10. Magnitude(f.refund) <= Magnitude(p.refund) + Magnitude(frame.refund)
    BY <1>6, <1>10, <2>4, <2>6
  <2>11. Closes(p, f, w)
    <3>1. p.static => w \in {world, saved[Len(stack)]}
      BY <1>21 DEF Child
    <3>2. WorldOK(w)
      BY DEF Child
    <3> QED BY <1>2, <1>7, <1>13, <1>19, <2>4, <2>7, <2>8, <2>9, <2>10,
               <3>1, <3>2 DEF Closes
  <2>12. Representable(f) = TRUE
    <3>1. fork >= Amsterdam => csg <= isg + (bs + b)
      BY <1>7, <1>11, <1>13, <1>15, <2>7, <2>8
    <3>2. Representable(f)
      BY <1>2, <1>3, <1>7, <1>13, <1>19, <2>4, <2>9, <2>10, <3>1, ParentFits
         DEF Returned
    <3> QED BY <3>2
  <2>13. stack' = Front(stack)
    BY <2>5 DEF Resume
  <2>14. totals' = Front(totals)
    BY <1>1, <2>13, TotalsFollow DEF Nested
  <2> QED BY <1>3, <2>5, <2>11, <2>12, <2>14, ResumeKeeps DEF Nested
<1>24. CASE ~frame_succeeded(child)
  <2>1. PICK f : f = Uncharge(merged, top.charged)
    OBVIOUS
  <2>2. Resume(f, saved[n], Representable(merged) /\ Representable(f))
    BY <1>3, <1>4, <1>14, <1>24, <2>1 DEF ResumeParent
  <2>3. Alike(merged, f) /\ f \in Frame
    BY <1>4, <1>17, <2>1, UnchargeFacts DEF Alike
  <2>4. /\ f.refund = p.refund /\ f.reservoir = p.reservoir
        /\ f.static = p.static /\ f.depth = p.depth /\ f.status = "Running"
    BY <1>17, <2>3 DEF Alike
  <2>5. PICK x, y, z \in Nat : x = f.gas /\ y = f.spill /\ z = f.state_gas
    BY <2>3 DEF Frame
  <2>6. PICK na \in Nat : na = NewAccount(top.charged)
    BY Prices DEF NewAccount
  <2>7. /\ x + y = a + b /\ z - csg + b - y = na
        /\ na = 0 => y = b /\ z = csg
    BY <1>4, <1>17, <2>1, <2>5, <2>6, UnchargeFacts
  <2>8. Charge(n) = na
    BY <1>2, <1>4, <2>6 DEF Charge, NewAccount
  <2>9. PICK gw \in Nat : gw = Growth(saved[n])
    BY <1>4, GrowthType
  <2>10. fork >= Amsterdam => isg - csg + (bs + ps) = gw + na /\ cs = 0
    <3>1. ASSUME fork >= Amsterdam
          PROVE  isg - csg + (bs + ps) = gw + na /\ cs = 0
      <4>1. Reservoir(n) = frame.reservoir /\ EntryWorld(n) = saved[n]
        BY <1>2 DEF Reservoir, EntryWorld
      <4>2. csg = frame.reservoir /\ cs = 0
        BY <1>11, <1>24, <3>1 DEF Child
      <4>3. isg - frame.reservoir + (bs + ps) = gw + na
        BY <1>1, <1>2, <1>8, <1>13, <2>8, <2>9, <3>1, <4>1 DEF PoolsOK
      <4> QED BY <4>2, <4>3
    <3> QED BY <3>1
  <2>11. fork >= Amsterdam => isg - csg + (bs + b) = gw + na
    BY <1>5, <1>7, <1>11, <1>13, <1>15, <2>6, <2>9, <2>10
  <2>12. fork >= Amsterdam => isg - z + (bs + y) = gw
    <3>1. y - z = b - csg - na
      BY <1>11, <1>15, <2>5, <2>6, <2>7
    <3>2. isg - csg + (bs + b) = gw + na => isg - z + (bs + y) = gw
      BY <1>7, <1>11, <1>13, <1>15, <2>5, <2>6, <2>9, <3>1
    <3> QED BY <2>11, <3>2
  <2>13. fork < Amsterdam => y = 0 /\ z = isg
    <3>1. fork < Amsterdam => na = 0
      BY <1>1, <1>2, <2>8 DEF PoolsOK
    <3> QED BY <1>19, <2>7, <3>1
  <2>14. f.gas + f.spill <= p.gas + p.spill + (frame.gas + frame.spill)
    BY <1>5, <1>9, <1>15, <1>18, <2>5, <2>7
  <2>15. Magnitude(f.refund) <= Magnitude(p.refund) + Magnitude(frame.refund)
    BY <1>6, <1>10, <2>4
  <2>16. Closes(p, f, saved[n])
    <3>1. p.static => saved[n] \in {world, saved[Len(stack)]}
      BY <1>2
    <3> QED BY <1>2, <1>4, <1>7, <1>13, <2>3, <2>4, <2>5, <2>9, <2>12, <2>13,
               <2>14, <2>15, <3>1 DEF Closes
  <2>17. Representable(f)
    <3>1. fork >= Amsterdam => z <= isg + (bs + y)
      BY <1>7, <1>13, <2>5, <2>9, <2>12
    <3> QED BY <1>2, <1>3, <1>7, <1>13, <2>3, <2>5, <2>13, <2>14, <2>15, <3>1,
               ParentFits DEF Returned
  <2>18. Representable(merged)
    <3>1. fork >= Amsterdam => csg <= isg + (bs + b)
      BY <1>7, <1>11, <1>13, <1>15, <2>6, <2>9, <2>11
    <3>2. merged.gas + merged.spill <= p.gas + p.spill + (frame.gas + frame.spill)
      BY <1>5, <1>9, <1>17, <1>18
    <3>3. Magnitude(merged.refund) <= Magnitude(p.refund) + Magnitude(frame.refund)
      BY <1>6, <1>10, <1>17
    <3> QED BY <1>2, <1>3, <1>7, <1>13, <1>17, <1>19, <3>1, <3>2, <3>3, ParentFits
            DEF Returned
  <2>19. (Representable(merged) /\ Representable(f)) = TRUE
    BY <2>17, <2>18
  <2>20. stack' = Front(stack)
    BY <2>2 DEF Resume
  <2>21. totals' = Front(totals)
    BY <1>1, <2>20, TotalsFollow DEF Nested
  <2> QED BY <1>3, <2>2, <2>16, <2>19, <2>21, ResumeKeeps DEF Nested
<1> QED BY <1>23, <1>24

(* A done frame is such a child.                                           *)
LEMMA DoneChild ==
  ASSUME CallInv, Done
  PROVE  Child(frame, world)
<1>1. LedgerOK /\ PoolsOK
  BY DEF CallInv
<1>2. PICK n \in Nat : n = Len(stack) /\ n \in 0..Len(stack)
  BY <1>1, StateFacts
<1>3. frame \in Frame /\ WorldOK(world) /\ frame.gas \in Nat /\ frame.spill \in Nat
  BY <1>1, StateFacts
<1>4. fork >= Amsterdam =>
         IF frame_succeeded(frame)
         THEN InitialStateGas[fork] - frame.state_gas
                + (Below(Len(stack)).spill + frame.spill) = Growth(world)
         ELSE frame.spill = 0 /\ frame.state_gas = frame.reservoir
  BY <1>1 DEF PoolsOK, StateGasTaken, TotalSpill
<1>5. fork < Amsterdam => frame.spill = 0 /\ frame.state_gas = InitialStateGas[fork]
  BY <1>1 DEF PoolsOK
<1>6. frame.gas + frame.spill <= frame.gas + frame.spill
  BY <1>3
<1> QED BY <1>3, <1>4, <1>5, <1>6 DEF Child

(* The end of a call.                                                      *)
LEMMA ResumeCallKeeps ==
  ASSUME CallInv, LNext, resume_call
  PROVE  CallInv'
BY DoneChild, ResumeParentKeeps DEF resume_call, Nested

(* The child of a creation, with its deposit charged or refused.           *)
LEMMA DeployedChildFacts ==
  ASSUME CallInv, Done, frame_succeeded(frame), ~frame.static,
         NEW length \in Deposits, NEW valid \in BOOLEAN
  PROVE  Child(DeployedChild(length, valid), [world EXCEPT !.code = @ + length])
<1>1. /\ LedgerOK /\ frame \in Frame /\ WorldOK(world) /\ fork \in Forks
      /\ (fork < Amsterdam) = ~(fork >= Amsterdam)
  BY StateFacts, ForkSplit DEF CallInv
<1>2. PICK w : w = [world EXCEPT !.code = @ + length]
  OBVIOUS
<1>3. length \in Nat
  BY CallTreeAssumption
<1>4. PICK gw, bytes \in Nat : gw = Growth(world) /\ bytes = StateByte * length
  BY <1>1, <1>3, GrowthType, DeployGrowth
<1>5. WorldOK(w) /\ Growth(w) = gw + bytes
  BY <1>1, <1>2, <1>3, <1>4, DeployGrowth
<1>6. PICK cost \in Nat : cost = DepositCost * length
  BY <1>3, Prices
<1>7. PICK paid : paid = Spend(frame, cost)
  OBVIOUS
<1>8. PICK growth \in Nat : growth = IF fork >= Amsterdam THEN bytes ELSE 0
  BY <1>4
<1>9. PICK child : child = DeployedChild(length, valid)
  OBVIOUS
<1>10. child = IF ~valid \/ frame.gas < cost THEN exceptional_state(frame)
               ELSE IF state_gas_halt(paid, growth) THEN exceptional_state(paid)
               ELSE charge_state_gas(paid, growth)
  BY <1>4, <1>6, <1>7, <1>8, <1>9 DEF DeployedChild
<1>11. PICK g, s, sg, isg \in Nat : /\ g = frame.gas /\ s = frame.spill
                                    /\ sg = frame.state_gas
                                    /\ isg = InitialStateGas[fork]
  BY <1>1, StateFacts
<1>12. fork < Amsterdam => s = 0 /\ sg = isg
  BY <1>11 DEF CallInv, PoolsOK
<1>13. ASSUME NEW f \in Frame, child = exceptional_state(f),
              f.refund = frame.refund, f.reservoir = frame.reservoir,
              f.spill = s, f.state_gas = sg
       PROVE  Child(child, w)
  <2>1. /\ child \in Frame
        /\ child.refund = f.refund /\ child.reservoir = f.reservoir
        /\ child.status = "Exceptional" /\ child.gas = 0
        /\ fork >= Amsterdam => child.spill = 0 /\ child.state_gas = child.reservoir
        /\ ~(fork >= Amsterdam) => child.spill = f.spill /\ child.state_gas = f.state_gas
    BY <1>13, ExceptionalFacts
  <2>2. ~frame_succeeded(child)
    BY <2>1 DEF frame_succeeded
  <2>3. child.gas + child.spill <= frame.gas + frame.spill
    BY <1>1, <1>11, <1>13, <2>1
  <2> QED BY <1>1, <1>5, <1>11, <1>12, <1>13, <2>1, <2>2, <2>3 DEF Child
<1>14. CASE ~valid \/ frame.gas < cost
  <2>1. child = exceptional_state(frame)
    BY <1>10, <1>14
  <2>2. Child(child, w)
    BY <1>1, <1>11, <1>13, <2>1
  <2> QED BY <1>2, <1>9, <2>2
<1>15. CASE ~(~valid \/ frame.gas < cost)
  <2>1. /\ Alike(frame, paid) /\ paid \in Frame /\ paid.gas = g - cost
        /\ paid.spill = s /\ paid.state_gas = sg /\ cost <= g
    BY <1>1, <1>7, <1>11, <1>15, SpendFacts DEF Alike
  <2>2. paid.refund = frame.refund /\ paid.reservoir = frame.reservoir
        /\ paid.status = frame.status
    BY <2>1 DEF Alike
  <2>3. CASE state_gas_halt(paid, growth)
    <3>1. child = exceptional_state(paid)
      BY <1>10, <1>15, <2>3
    <3>2. Child(child, w)
      BY <1>13, <2>1, <2>2, <3>1
    <3> QED BY <1>2, <1>9, <3>2
  <2>4. CASE ~state_gas_halt(paid, growth)
    <3>1. child = charge_state_gas(paid, growth)
      BY <1>10, <1>15, <2>4
    <3>2. Alike(paid, child) /\ child \in Frame
      BY <2>1, <2>4, <3>1, ChargeFacts DEF Alike
    <3>3. PICK cg, cs, csg \in Nat : cg = child.gas /\ cs = child.spill
                                     /\ csg = child.state_gas
      BY <3>2 DEF Frame
    <3>4. /\ cg + cs = g - cost + s /\ sg - csg + cs - s = growth
          /\ growth = 0 => cs = s /\ csg = sg
      <4>1. /\ child.gas + child.spill = paid.gas + paid.spill
            /\ paid.state_gas - child.state_gas + child.spill - paid.spill = growth
            /\ growth = 0 => child.spill = paid.spill /\ child.state_gas = paid.state_gas
        BY <2>1, <2>4, <3>1, ChargeFacts
      <4> QED BY <2>1, <3>3, <4>1
    <3>5. /\ child.refund = frame.refund /\ child.reservoir = frame.reservoir
          /\ frame_succeeded(child)
      BY <2>2, <3>2 DEF Alike, frame_succeeded
    <3>6. PICK bs \in Nat : bs = Below(Len(stack)).spill
      <4>1. Len(stack) \in 0..Len(stack)
        BY <1>1, StateFacts
      <4> QED BY <1>1, <4>1, StateFacts
    <3>7. fork >= Amsterdam => isg - csg + (bs + cs) = gw + bytes
      <4>1. fork >= Amsterdam => isg - sg + (bs + s) = gw
        BY <1>4, <1>11, <3>6 DEF CallInv, PoolsOK, StateGasTaken, TotalSpill
      <4>2. fork >= Amsterdam => cs - csg = s - sg + bytes
        BY <1>4, <1>8, <1>11, <3>3, <3>4
      <4>3. isg - sg + (bs + s) = gw /\ cs - csg = s - sg + bytes
              => isg - csg + (bs + cs) = gw + bytes
        OBVIOUS
      <4> QED BY <4>1, <4>2, <4>3
    <3>8. fork < Amsterdam => cs = 0 /\ csg = isg
      BY <1>1, <1>8, <1>12, <3>4
    <3>9. child.gas + child.spill <= frame.gas + frame.spill
      BY <1>6, <1>11, <3>3, <3>4
    <3>10. Child(child, w)
      BY <1>5, <1>11, <3>2, <3>3, <3>5, <3>6, <3>7, <3>8, <3>9 DEF Child
    <3> QED BY <1>2, <1>9, <3>10
  <2> QED BY <2>3, <2>4
<1> QED BY <1>14, <1>15

(* The end of a creation.                                                  *)
LEMMA ResumeCreateKeeps ==
  ASSUME CallInv, LNext, resume_create
  PROVE  CallInv'
<1>1. Done /\ stack # <<>> /\ Last(stack).kind = "ResumeCreate"
  BY DEF resume_create
<1>2. CASE ~frame_succeeded(frame)
  <2>1. ResumeParent(frame, world)
    BY <1>2 DEF resume_create
  <2> QED BY <1>1, <2>1, DoneChild, ResumeParentKeeps DEF Nested
<1>3. CASE frame_succeeded(frame)
  <2>1. PICK length \in Deposits, valid \in BOOLEAN :
           ResumeParent(DeployedChild(length, valid),
                        [world EXCEPT !.code = @ + length])
    BY <1>3 DEF resume_create
  <2>2. ~frame.static
    <3>1. PICK n : n = Len(stack)
      OBVIOUS
    <3>2. n \in 1..Len(stack) /\ stack[n].kind = "ResumeCreate"
      BY <1>1, <3>1, ParentFacts DEF CallInv
    <3>3. ~EntersStatic(n)
      BY <3>2 DEF CallInv, StaticOK
    <3> QED BY <3>1, <3>3 DEF EntersStatic
  <2>3. Child(DeployedChild(length, valid), [world EXCEPT !.code = @ + length])
    BY <1>1, <1>3, <2>2, DeployedChildFacts
  <2> QED BY <1>1, <2>1, <2>3, ResumeParentKeeps DEF Nested
<1> QED BY <1>2, <1>3

-----------------------------------------------------------------------------
(* The end of the loop, and the beginning.                                 *)
LEMMA FinishKeeps ==
  ASSUME CallInv, LNext, finish
  PROVE  CallInv'
<1>1. /\ interpreting' = FALSE
      /\ steps' = (IF steps = 0 THEN 0 ELSE steps - 1)
      /\ frame' = frame /\ stack' = stack /\ world' = world
      /\ saved' = saved /\ fatal' = fatal /\ fork' = fork
      /\ stack = <<>> /\ frame.status # "Running"
  BY DEF finish, Done
<1>2. totals' = totals
  BY <1>1, TotalsFollow DEF CallInv
<1>3. LedgerOK /\ BudgetOK /\ PoolsOK /\ StaticOK
  BY DEF CallInv
<1>4. steps' \in Nat
  BY <1>1, <1>3 DEF LedgerOK, TypeOK
<1>5. /\ Held' = Held
      /\ \A i : Below(i)' = Below(i) /\ Reservoir(i)' = Reservoir(i)
                /\ Charge(i)' = Charge(i) /\ EntryWorld(i)' = EntryWorld(i)
                /\ EntersStatic(i)' = EntersStatic(i)
      /\ TotalsAddUp' = TotalsAddUp
      /\ StateGasTaken' = StateGasTaken
      /\ StaticFramesOnlyRead' = StaticFramesOnlyRead
  BY <1>1, <1>2 DEF Held, TotalGas, TotalSpill, Below, Reservoir, Charge,
     EntryWorld, EntersStatic, TotalsAddUp, StateGasTaken, StaticFramesOnlyRead
<1>6. LedgerOK'
  <2>1. TypeOK'
    BY <1>1, <1>3, <1>4 DEF LedgerOK, TypeOK
  <2> QED BY <1>1, <1>2, <1>3, <1>5, <2>1 DEF LedgerOK
<1>7. BudgetOK'
  <2>1. PICK n : n = Len(stack) /\ Below(Len(stack))' = Below(n)
    BY <1>1, <1>2 DEF Below
  <2> QED BY <1>1, <1>3, <1>5, <2>1 DEF BudgetOK
<1>8. PoolsOK'
  BY <1>1, <1>3, <1>5 DEF PoolsOK
<1>9. StaticOK'
  BY <1>1, <1>3, <1>5 DEF StaticOK
<1> QED BY <1>6, <1>7, <1>8, <1>9 DEF CallInv

(* The first turn.                                                         *)
LEMMA CallInitially ==
  ASSUME LInit
  PROVE  CallInv
<1>1. /\ fork \in Forks /\ frame = TopFrame /\ stack = <<>>
      /\ world = InitialWorld /\ saved = <<>>
      /\ steps = 3 * (InitialGas[fork] + InitialStateGas[fork]) + 2
      /\ interpreting = TRUE /\ fatal = FALSE /\ totals = <<>>
  BY DEF LInit, Init
<1>2. PICK ig, isg \in Nat : ig = InitialGas[fork] /\ isg = InitialStateGas[fork]
  BY <1>1, Amounts
<1>3. /\ frame \in Frame /\ frame.gas = ig /\ frame.state_gas = isg
      /\ frame.spill = 0 /\ frame.refund = 0 /\ frame.reservoir = isg
      /\ frame.static = FALSE /\ frame.depth = 0 /\ frame.status = "Running"
  BY <1>1, <1>2 DEF TopFrame, EntryFrame, Frame, Statuses
<1>4. /\ Len(stack) = 0 /\ stack \in Seq(Continuation) /\ saved \in Seq(World)
      /\ Len(saved) = 0 /\ totals \in Seq(Total) /\ Len(totals) = 0
  BY <1>1
<1>5. Below(Len(stack)) = NoTotal /\ Below(0) = NoTotal
  BY <1>4 DEF Below
<1>6. /\ NoTotal.gas = 0 /\ NoTotal.spill = 0 /\ NoTotal.magnitude = 0
  BY DEF NoTotal
<1>7. WorldOK(world) /\ Growth(world) = 0
  BY <1>1, GrowthInitially
<1>8. LedgerOK
  <2>1. TypeOK
    <3>1. steps \in Nat
      <4>1. steps = 3 * (ig + isg) + 2
        BY <1>1, <1>2
      <4> QED BY <1>2, <4>1
    <3>2. world \in World
      BY <1>7 DEF WorldOK
    <3> QED BY <1>1, <1>3, <1>4, <3>1, <3>2 DEF TypeOK
  <2>2. TotalsAddUp
    BY <1>4 DEF TotalsAddUp
  <2>3. Len(stack) <= CallDepthLimit
    BY <1>4, Prices
  <2> QED BY <1>1, <1>4, <1>7, <2>1, <2>2, <2>3 DEF LedgerOK
<1>9. Held = ig
  BY <1>2, <1>3, <1>5, <1>6 DEF Held, TotalGas, TotalSpill
<1>10. BudgetOK
  <2>1. Held <= InitialGas[fork]
    BY <1>2, <1>9
  <2>2. Below(Len(stack)).magnitude + Magnitude(frame.refund)
           <= Earned(InitialGas[fork] - Held)
    <3>1. Magnitude(frame.refund) = 0
      BY <1>3 DEF Magnitude
    <3>2. InitialGas[fork] - Held = 0
      BY <1>2, <1>9
    <3>3. 0 <= Earned(0)
      BY EarnedFacts
    <3> QED BY <1>5, <1>6, <3>1, <3>2, <3>3
  <2>3. steps >= 3 * Held + 2 * Len(stack) + IF frame.status = "Running" THEN 2 ELSE 1
    <3>1. steps = 3 * (ig + isg) + 2
      BY <1>1, <1>2
    <3>2. Len(stack) = 0 /\ frame.status = "Running"
      BY <1>3, <1>4
    <3>3. \A h, g \in Nat : 3 * (h + g) + 2 >= 3 * h + 2 * 0 + 2
      OBVIOUS
    <3>4. ig \in Nat /\ isg \in Nat
      BY <1>2
    <3>5. 3 * (ig + isg) + 2 >= 3 * ig + 2 * 0 + 2
      BY <3>3, <3>4
    <3> QED BY <1>9, <3>1, <3>2, <3>5
  <2> QED BY <1>1, <2>1, <2>2, <2>3 DEF BudgetOK
<1>11. PoolsOK
  <2>1. Reservoir(0) = isg /\ Charge(0) = 0 /\ EntryWorld(0) = InitialWorld
    BY <1>3, <1>4 DEF Reservoir, Charge, EntryWorld
  <2>2. \A i \in 0..Len(stack) : i = 0
    BY <1>4
  <2>3. frame_succeeded(frame) /\ frame.status # "Exceptional"
    BY <1>3 DEF frame_succeeded
  <2>4. StateGasTaken = 0
    BY <1>2, <1>3, <1>5, <1>6 DEF StateGasTaken, TotalSpill
  <2>5. isg - isg + 0 = 0 + 0
    BY <1>2
  <2>6. Growth(InitialWorld) = 0
    BY GrowthInitially
  <2> QED BY <1>2, <1>3, <1>5, <1>6, <1>7, <2>1, <2>2, <2>3, <2>4, <2>5, <2>6
          DEF PoolsOK
<1>12. StaticOK
  BY <1>4 DEF StaticOK, StaticFramesOnlyRead
<1> QED BY <1>8, <1>10, <1>11, <1>12 DEF CallInv

-----------------------------------------------------------------------------
(* Every turn of the loop keeps the invariant.                             *)
LEMMA CallStep ==
  ASSUME CallInv, [LNext]_<<vars, totals>>
  PROVE  CallInv'
<1>1. CASE UNCHANGED <<vars, totals>>
  <2>1. /\ fork' = fork /\ frame' = frame /\ stack' = stack /\ world' = world
        /\ saved' = saved /\ steps' = steps /\ interpreting' = interpreting
        /\ fatal' = fatal /\ totals' = totals
    BY <1>1 DEF vars
  <2>2. /\ Held' = Held /\ TotalsAddUp' = TotalsAddUp
        /\ \A i : Below(i)' = Below(i) /\ Reservoir(i)' = Reservoir(i)
                  /\ Charge(i)' = Charge(i) /\ EntryWorld(i)' = EntryWorld(i)
                  /\ EntersStatic(i)' = EntersStatic(i)
        /\ Below(Len(stack))' = Below(Len(stack))
        /\ StateGasTaken' = StateGasTaken
        /\ StaticFramesOnlyRead' = StaticFramesOnlyRead
    BY <2>1 DEF Held, TotalGas, TotalSpill, Below, Reservoir, Charge,
       EntryWorld, EntersStatic, TotalsAddUp, StateGasTaken,
       StaticFramesOnlyRead
  <2>3. LedgerOK'
    BY <2>1, <2>2 DEF CallInv, LedgerOK, TypeOK
  <2>4. BudgetOK'
    BY <2>1, <2>2 DEF CallInv, BudgetOK
  <2>5. PoolsOK'
    BY <2>1, <2>2 DEF CallInv, PoolsOK
  <2>6. StaticOK'
    BY <2>1, <2>2 DEF CallInv, StaticOK
  <2> QED BY <2>3, <2>4, <2>5, <2>6 DEF CallInv
<1>2. CASE LNext
  <2>1. Next
    BY <1>2 DEF LNext
  <2>2. CASE execute_plain
    BY <1>2, <2>2, PlainKeeps
  <2>3. CASE execute_invalid
    BY <1>2, <2>3, FailKeeps DEF execute_invalid
  <2>4. CASE execute_return
    BY <1>2, <2>4, ReturnKeeps
  <2>5. CASE execute_revert
    BY <1>2, <2>5, RevertKeeps
  <2>6. CASE /\ Running
             /\ \E s \in Slots, value \in Values, cold \in BOOLEAN :
                   execute_sstore(s, value, cold)
    BY <1>2, <2>6, SstoreKeeps
  <2>7. CASE /\ Running
             /\ \E a \in world.nonempty, beneficiary \in Accounts,
                   funded, cold \in BOOLEAN :
                   execute_selfdestruct(a, beneficiary, funded, cold)
    BY <1>2, <2>7, SelfdestructKeeps
  <2>8. CASE run_call
    BY <1>2, <2>8, CallKeeps
  <2>9. CASE run_create
    BY <1>2, <2>9, CreateKeeps
  <2>10. CASE resume_call
    BY <1>2, <2>10, ResumeCallKeeps
  <2>11. CASE resume_create
    BY <1>2, <2>11, ResumeCreateKeeps
  <2>12. CASE finish
    BY <1>2, <2>12, FinishKeeps
  <2>13. CASE Terminated
    <3>1. UNCHANGED vars /\ stack' = stack
      BY <2>13 DEF Terminated, vars
    <3>2. UNCHANGED <<vars, totals>>
      BY <1>2, <3>1, TotalsFollow DEF CallInv
    <3> QED BY <1>1, <3>2
  <2> QED BY <2>1, <2>2, <2>3, <2>4, <2>5, <2>6, <2>7, <2>8, <2>9, <2>10,
             <2>11, <2>12, <2>13 DEF Next, TakeTurn
<1> QED BY <1>1, <1>2

(* The invariant of the interpreter loop: at every turn the frames add up, *)
(* the budget covers what they hold, both pools account for the growth of  *)
(* the world, and static frames see the world they were entered with.      *)
THEOREM CallInvariant == LSpec => []CallInv
<1>1. LInit => CallInv
  BY CallInitially
<1>2. CallInv /\ [LNext]_<<vars, totals>> => CallInv'
  BY CallStep
<1> QED BY <1>1, <1>2, PTL DEF LSpec

(* run_call, run_create, refund_gas and the resumptions never make         *)
(* execution gas: what all frames hold and have spilled stays within what  *)
(* interpret was given.                                                    *)
THEOREM GasConservedAlways == LSpec => []GasConserved
<1>1. CallInv => GasConserved
  <2> SUFFICES ASSUME CallInv PROVE GasConserved
    OBVIOUS
  <2>1. TotalsAddUp /\ Held <= InitialGas[fork]
    BY DEF CallInv, LedgerOK, BudgetOK
  <2> QED BY <2>1 DEF GasConserved, Held
<1> QED BY <1>1, CallInvariant, PTL

(* No check of machine.sail ends in fatal_error (conserved_gas_add,        *)
(* state_gas_spill_add, validated_refund_add), and frame_stack_push never  *)
(* exceeds its capacity.                                                   *)
THEOREM NeverFatalAlways == LSpec => []NeverFatal
<1>1. CallInv => NeverFatal
  BY DEF CallInv, LedgerOK, NeverFatal
<1> QED BY <1>1, CallInvariant, PTL

(* call_tree_steps_remaining, three turns for each unit of gas and two     *)
(* more, does not run down before the loop has ended.                      *)
THEOREM StepsSufficeAlways == LSpec => []StepsSuffice
<1>1. CallInv => StepsSuffice
  <2> SUFFICES ASSUME CallInv, interpreting PROVE steps > 0
    BY DEF StepsSuffice
  <2>1. steps >= 3 * Held + 2 * Len(stack)
                   + IF frame.status = "Running" THEN 2 ELSE 1
    BY DEF CallInv, BudgetOK
  <2>2. Held \in Nat /\ Len(stack) \in Nat /\ steps \in Nat
    BY StateFacts DEF CallInv
  <2> QED BY <2>1, <2>2
<1> QED BY <1>1, CallInvariant, PTL

(* interpret returns a frame that keeps the contract the transaction       *)
(* settles on: no gas is made, an exceptional halt has none left, and a    *)
(* failed frame has given all its state gas back.                          *)
THEOREM TopFrameContract == LSpec => []TopFrameKeepsContract
<1>1. CallInv => TopFrameKeepsContract
  <2> SUFFICES ASSUME CallInv, ~interpreting
               PROVE  FrameContract(TopFrame, frame)
    BY DEF TopFrameKeepsContract
  <2>1. LedgerOK /\ BudgetOK /\ PoolsOK
    BY DEF CallInv
  <2>2. stack = <<>> /\ frame.status # "Running"
    BY <2>1 DEF BudgetOK
  <2>3. Len(stack) = 0
    BY <2>2
  <2>4. PICK ig, isg \in Nat : ig = InitialGas[fork] /\ isg = InitialStateGas[fork]
    BY <2>1, StateFacts
  <2>5. PICK g, s, sg \in Nat : g = frame.gas /\ s = frame.spill /\ sg = frame.state_gas
    BY <2>1, StateFacts
  <2>6. frame.reservoir = isg
    BY <2>1, <2>3, <2>4 DEF PoolsOK, Reservoir
  <2>7. Below(Len(stack)) = NoTotal /\ NoTotal.gas = 0 /\ NoTotal.spill = 0
    BY <2>3 DEF Below, NoTotal
  <2>8. g + s <= ig
    <3>1. Held = g + s
      BY <2>5, <2>7 DEF Held, TotalGas, TotalSpill
    <3> QED BY <2>1, <2>4, <3>1 DEF BudgetOK
  <2>9. /\ TopFrame.gas = ig /\ TopFrame.spill = 0 /\ TopFrame.state_gas = isg
        /\ TopFrame.reservoir = isg
    BY <2>4 DEF TopFrame, EntryFrame
  <2>10. (fork < Amsterdam) = ~(fork >= Amsterdam)
    BY <2>1, StateFacts, ForkSplit
  <2>11. ASSUME frame_succeeded(frame) PROVE isg - sg + s >= 0
    <3>1. ASSUME fork >= Amsterdam PROVE isg - sg + s >= 0
      <4>1. StateGasTaken = Growth(world) /\ Growth(world) \in Nat
        BY <2>1, <2>11, <3>1, StateFacts DEF PoolsOK
      <4>2. StateGasTaken = isg - sg + (0 + s)
        BY <2>4, <2>5, <2>7 DEF StateGasTaken, TotalSpill
      <4> QED BY <2>4, <2>5, <4>1, <4>2
    <3>2. ASSUME fork < Amsterdam PROVE isg - sg + s >= 0
      <4>1. s = 0 /\ sg = isg
        BY <2>1, <2>4, <2>5, <3>2 DEF PoolsOK
      <4> QED BY <2>4, <4>1
    <3> QED BY <2>10, <3>1, <3>2
  <2>12. frame_succeeded(frame) =>
            frame_state_gas_used(frame) >= frame_state_gas_used(TopFrame)
    <3>1. frame_state_gas_used(frame) = isg - sg + s
      BY <2>5, <2>6 DEF frame_state_gas_used
    <3>2. frame_state_gas_used(TopFrame) = 0
      BY <2>4, <2>9 DEF frame_state_gas_used
    <3> QED BY <2>11, <3>1, <3>2
  <2>13. ~frame_succeeded(frame) /\ fork >= Amsterdam =>
            frame.spill = 0 /\ frame.state_gas = frame.reservoir
    BY <2>1 DEF PoolsOK
  <2>14. fork < Amsterdam => frame.spill = 0 /\ frame.state_gas = isg
    BY <2>1, <2>4 DEF PoolsOK
  <2>15. frame.status = "Exceptional" => frame.gas = 0
    BY <2>1 DEF PoolsOK
  <2>16. frame.gas + frame.spill <= TopFrame.gas + TopFrame.spill
    BY <2>4, <2>5, <2>8, <2>9
  <2> QED BY <2>2, <2>6, <2>9, <2>12, <2>13, <2>14, <2>15, <2>16
          DEF FrameContract
<1> QED BY <1>1, CallInvariant, PTL

(* From Amsterdam on the state gas taken from both pools, over all frames, *)
(* is the price of the growth that stays, through every charge, credit,    *)
(* halt, revert and resumption.                                            *)
THEOREM StateGasPays == LSpec => []StateGasPaysGrowth
<1>1. CallInv => StateGasPaysGrowth
  <2> SUFFICES ASSUME CallInv, fork >= Amsterdam
               PROVE  StateGasTaken = Growth(KeptWorld) + PendingCredit
    BY DEF StateGasPaysGrowth
  <2>1. LedgerOK /\ PoolsOK
    BY DEF CallInv
  <2>2. CASE frame_succeeded(frame)
    <3>1. StateGasTaken = Growth(world) /\ Growth(world) \in Nat
      BY <2>1, <2>2, StateFacts DEF PoolsOK
    <3>2. KeptWorld = world /\ PendingCredit = 0
      BY <2>2 DEF KeptWorld, PendingCredit
    <3> QED BY <3>1, <3>2
  <2>3. CASE ~frame_succeeded(frame)
    <3>1. PICK n \in Nat : n = Len(stack) /\ n \in 0..Len(stack)
      BY <2>1, StateFacts
    <3>2. frame.spill = 0 /\ frame.state_gas = frame.reservoir
      BY <2>1, <2>3 DEF PoolsOK
    <3>3. InitialStateGas[fork] - frame.reservoir + Below(n).spill
             = Growth(EntryWorld(n)) + Charge(n)
      <4>1. Reservoir(n) = frame.reservoir
        BY <3>1 DEF Reservoir
      <4> QED BY <2>1, <3>1, <4>1 DEF PoolsOK
    <3>4. StateGasTaken = Growth(EntryWorld(n)) + Charge(n)
      <4>1. Below(n).spill \in Nat
        BY <2>1, <3>1, StateFacts
      <4>2. TotalSpill = Below(n).spill
        BY <3>1, <3>2, <4>1 DEF TotalSpill
      <4> QED BY <3>2, <3>3, <4>2 DEF StateGasTaken
    <3>5. KeptWorld = EntryWorld(n) /\ PendingCredit = Charge(n)
      <4>1. CASE Nested
        <5>1. n # 0 /\ Last(stack) = stack[n] /\ Last(saved) = saved[n]
          BY <2>1, <3>1, <4>1, ParentFacts DEF Nested
        <5> QED BY <2>3, <4>1, <5>1
                DEF KeptWorld, PendingCredit, EntryWorld, Charge, Nested
      <4>2. CASE ~Nested
        <5>1. stack = <<>> /\ n = 0
          BY <3>1, <4>2 DEF Nested
        <5> QED BY <2>3, <5>1 DEF KeptWorld, PendingCredit, EntryWorld, Charge
      <4> QED BY <4>1, <4>2
    <3> QED BY <3>4, <3>5
  <2> QED BY <2>2, <2>3
<1> QED BY <1>1, CallInvariant, PTL

(* The EIP-214 guards of SSTORE, SELFDESTRUCT, CALL and CREATE suffice:    *)
(* under a static frame no world differs from the one it was entered with. *)
THEOREM StaticFramesRead == LSpec => []StaticFramesOnlyRead
<1>1. CallInv => StaticFramesOnlyRead
  BY DEF CallInv, StaticOK
<1> QED BY <1>1, CallInvariant, PTL

-----------------------------------------------------------------------------
(* Refunds follow writes: the frames suspended up to level i have earned   *)
(* what the world that the next level was entered with has earned.         *)
RefundOK ==
    /\ \A i \in 0..Len(stack) : Below(i).refund = RefundsEarned(EntryWorld(i))
    /\ frame_succeeded(frame) =>
          ParentRefunds + frame.refund = RefundsEarned(world)

SlotRefunds(w) == [s \in Slots |-> SlotRefund(w, s)]
DestroyRefunds(w) ==
    IF fork < London THEN SelfdestructRefund * Cardinality(w.destroyed) ELSE 0

(* The same writes earn the same.                                          *)
SameWrites(v, w) ==
    v.slots = w.slots /\ v.undone = w.undone /\ v.destroyed = w.destroyed

(* Restoring a slot earns a number.                                        *)
LEMMA RestoreType ==
  ASSUME NEW o
  PROVE  RestoreRefund(o) \in Int
<1>1. PICK a, b, c, d \in Nat : /\ a = StorageWrite /\ b = StorageSet
                                /\ c = StorageReset /\ d = WarmAccess
  BY Prices
<1>2. b - d \in Int /\ c - d \in Int /\ a \in Int
  OBVIOUS
<1>3. RestoreRefund(o) = a \/ RestoreRefund(o) = b - d \/ RestoreRefund(o) = c - d
  BY <1>1 DEF RestoreRefund
<1> QED BY <1>2, <1>3

(* What a world has earned is a number, made of slots and destroyed        *)
(* accounts.                                                               *)
LEMMA EarnedType ==
  ASSUME fork \in Forks, NEW w \in World
  PROVE  /\ RefundsEarned(w) = SumFunction(SlotRefunds(w)) + DestroyRefunds(w)
         /\ SlotRefunds(w) \in [Slots -> Int]
         /\ SumFunction(SlotRefunds(w)) \in Int
         /\ DestroyRefunds(w) \in Int
         /\ RefundsEarned(w) \in Int
<1>1. RefundsEarned(w) = SumFunction(SlotRefunds(w)) + DestroyRefunds(w)
  BY DEF RefundsEarned, SlotRefunds, DestroyRefunds
<1>2. ASSUME NEW s \in Slots PROVE SlotRefund(w, s) \in Int
  <2>1. PICK n \in Nat : n = w.undone[s]
    BY DEF World
  <2>2. PICK r \in Int : r = RestoreRefund(Original[s])
    BY RestoreType
  <2>3. n * r \in Int
    OBVIOUS
  <2> QED BY <2>1, <2>2, <2>3, Prices DEF SlotRefund
<1>3. SlotRefunds(w) \in [Slots -> Int]
  BY <1>2 DEF SlotRefunds
<1>4. SumFunction(SlotRefunds(w)) \in Int
  BY <1>3, SumType, CallTreeAssumption
<1>5. DestroyRefunds(w) \in Int
  <2>1. w.destroyed \in SUBSET Accounts
    BY DEF World
  <2>2. IsFiniteSet(w.destroyed)
    BY <2>1, FS_Subset, CallTreeAssumption
  <2>3. PICK n \in Nat : n = Cardinality(w.destroyed)
    BY <2>2, FS_CardinalityType
  <2>4. SelfdestructRefund * n \in Int
    BY Prices
  <2> QED BY <2>3, <2>4 DEF DestroyRefunds
<1> QED BY <1>1, <1>3, <1>4, <1>5

(* Accounts that are created and code that is deployed earn nothing.       *)
LEMMA SameEarned ==
  ASSUME NEW v, NEW w, SameWrites(v, w)
  PROVE  RefundsEarned(v) = RefundsEarned(w)
<1>1. SlotRefunds(v) = SlotRefunds(w)
  BY DEF SameWrites, SlotRefunds, SlotRefund
<1>2. DestroyRefunds(v) = DestroyRefunds(w)
  BY DEF SameWrites, DestroyRefunds
<1> QED BY <1>1, <1>2 DEF RefundsEarned, SlotRefunds, DestroyRefunds

(* Nothing has been earned at the start.                                   *)
LEMMA EarnedInitially ==
  ASSUME fork \in Forks
  PROVE  RefundsEarned(InitialWorld) = 0
<1>1. InitialWorld \in World
  BY GrowthInitially DEF WorldOK
<1>2. ASSUME NEW s \in Slots PROVE SlotRefunds(InitialWorld)[s] = 0
  <2>1. InitialWorld.undone[s] = 0 /\ InitialWorld.slots[s] = Original[s]
    BY DEF InitialWorld
  <2>2. PICK r \in Int : r = RestoreRefund(Original[s])
    BY RestoreType
  <2>3. 0 * r = 0
    OBVIOUS
  <2> QED BY <2>1, <2>2, <2>3 DEF SlotRefunds, SlotRefund
<1>3. SumFunction(SlotRefunds(InitialWorld)) = 0
  BY <1>1, <1>2, EarnedType, SumZero, CallTreeAssumption
<1>4. DestroyRefunds(InitialWorld) = 0
  <2>1. InitialWorld.destroyed = {} /\ Cardinality({}) = 0
    BY FS_EmptySet DEF InitialWorld
  <2> QED BY <2>1, Prices DEF DestroyRefunds
<1> QED BY <1>1, <1>3, <1>4, EarnedType

(* SSTORE earns what sstore_costs records.                                 *)
LEMMA StoreEarns ==
  ASSUME fork \in Forks, WorldOK(world), NEW s \in Slots, NEW value \in Values,
         NEW cold
  PROVE  RefundsEarned(k_sstore(s, value)) = RefundsEarned(world)
            + sstore_costs(Original[s], world.slots[s], value, cold).refund
<1>1. PICK w : w = k_sstore(s, value)
  OBVIOUS
<1>2. PICK o, c \in Nat : o = Original[s] /\ c = world.slots[s]
  BY CallTreeAssumption DEF WorldOK, World
<1>3. PICK r \in Int : r = RestoreRefund(o)
  BY RestoreType
<1>4. PICK n \in Nat : n = world.undone[s]
  BY DEF WorldOK, World
<1>5. /\ w \in World /\ world \in World
      /\ w.slots[s] = value /\ value \in Nat
      /\ w.undone[s] = (IF Restores(o, c, value) THEN n + 1 ELSE n)
      /\ w.destroyed = world.destroyed
      /\ \A x \in Slots \ {s} : /\ w.slots[x] = world.slots[x]
                                /\ w.undone[x] = world.undone[x]
  <2>1. world \in World
    BY DEF WorldOK
  <2>2. w \in World
    BY <1>1, StoreGrowth DEF WorldOK
  <2> QED BY <1>1, <1>2, <1>4, <2>1, <2>2, CallTreeAssumption DEF k_sstore, World
<1>6. PICK d \in Int : d = ClearDelta(o, c, value)
                             + IF Restores(o, c, value) THEN r ELSE 0
  <2>1. ClearDelta(o, c, value) \in Int
    BY <1>2, <1>5, Prices DEF ClearDelta
  <2> QED BY <2>1
<1>7. sstore_costs(o, c, value, cold).refund = d
  BY <1>3, <1>6 DEF sstore_costs, amsterdam_sstore_costs, legacy_sstore_costs
<1>8. SlotRefund(world, s) = n * r + IF o # 0 /\ c = 0 THEN ClearRefund ELSE 0
  BY <1>2, <1>3, <1>4 DEF SlotRefund
<1>9. SlotRefund(w, s) = SlotRefund(world, s) + d
  <2>1. SlotRefund(w, s) = (IF Restores(o, c, value) THEN n + 1 ELSE n) * r
                             + IF o # 0 /\ value = 0 THEN ClearRefund ELSE 0
    BY <1>2, <1>3, <1>5 DEF SlotRefund
  <2>2. PICK p \in Int : p = n * r
    OBVIOUS
  <2>3. (n + 1) * r = p + r
    BY <2>2
  <2>4. ClearRefund \in Nat
    BY Prices
  <2>5. CASE Restores(o, c, value)
    BY <1>2, <1>5, <1>6, <1>8, <2>1, <2>2, <2>3, <2>4, <2>5
       DEF Restores, ClearDelta
  <2>6. CASE ~Restores(o, c, value)
    BY <1>2, <1>5, <1>6, <1>8, <2>1, <2>2, <2>4, <2>6 DEF ClearDelta
  <2> QED BY <2>5, <2>6
<1>10. \A x \in Slots \ {s} : SlotRefunds(w)[x] = SlotRefunds(world)[x]
  BY <1>5 DEF SlotRefunds, SlotRefund
<1>11. SlotRefunds(w)[s] = SlotRefunds(world)[s] + d
  BY <1>9 DEF SlotRefunds
<1>12. /\ SlotRefunds(w) \in [Slots -> Int] /\ SlotRefunds(world) \in [Slots -> Int]
  BY <1>5, EarnedType
<1>13. SumFunction(SlotRefunds(w)) = SumFunction(SlotRefunds(world)) + d
  BY <1>10, <1>11, <1>12, SumChange, CallTreeAssumption
<1>14. DestroyRefunds(w) = DestroyRefunds(world)
  BY <1>5 DEF DestroyRefunds
<1>15. RefundsEarned(w) = RefundsEarned(world) + d
  <2>1. /\ SumFunction(SlotRefunds(world)) \in Int /\ DestroyRefunds(world) \in Int
        /\ RefundsEarned(w) = SumFunction(SlotRefunds(w)) + DestroyRefunds(w)
        /\ RefundsEarned(world) = SumFunction(SlotRefunds(world)) + DestroyRefunds(world)
    BY <1>5, EarnedType
  <2> QED BY <1>13, <1>14, <2>1
<1> QED BY <1>1, <1>2, <1>7, <1>15

(* The first SELFDESTRUCT of an account earns its refund before London.    *)
LEMMA DestroyEarns ==
  ASSUME fork \in Forks, NEW w \in World, NEW v \in World, NEW a \in Accounts,
         v.slots = w.slots, v.undone = w.undone,
         v.destroyed = IF fork < Cancun \/ a \in w.created
                       THEN w.destroyed \cup {a} ELSE w.destroyed
  PROVE  RefundsEarned(v) = RefundsEarned(w)
            + IF fork < London /\ a \notin w.destroyed
              THEN SelfdestructRefund ELSE 0
<1>1. SlotRefunds(v) = SlotRefunds(w)
  BY DEF SlotRefunds, SlotRefund
<1>2. PICK e \in Int : e = SumFunction(SlotRefunds(w))
  BY EarnedType
<1>3. /\ RefundsEarned(v) = e + DestroyRefunds(v)
      /\ RefundsEarned(w) = e + DestroyRefunds(w)
      /\ DestroyRefunds(v) \in Int /\ DestroyRefunds(w) \in Int
  BY <1>1, <1>2, EarnedType
<1>4. CASE fork < London
  <2>1. v.destroyed = w.destroyed \cup {a}
    BY <1>4, Amounts DEF London, Cancun
  <2>2. w.destroyed \in SUBSET Accounts
    BY DEF World
  <2>3. IsFiniteSet(w.destroyed)
    BY <2>2, FS_Subset, CallTreeAssumption
  <2>4. PICK n \in Nat : n = Cardinality(w.destroyed)
    BY <2>3, FS_CardinalityType
  <2>5. Cardinality(v.destroyed) = IF a \in w.destroyed THEN n ELSE n + 1
    BY <2>1, <2>3, <2>4, FS_AddElement
  <2>6. PICK r \in Nat : r = SelfdestructRefund
    BY Prices
  <2>7. r * (n + 1) = r * n + r /\ r * n \in Int
    OBVIOUS
  <2>8. DestroyRefunds(w) = r * n
    BY <1>4, <2>4, <2>6 DEF DestroyRefunds
  <2>9. DestroyRefunds(v) = r * (IF a \in w.destroyed THEN n ELSE n + 1)
    BY <1>4, <2>5, <2>6 DEF DestroyRefunds
  <2>10. CASE a \in w.destroyed
    BY <1>2, <1>3, <2>8, <2>9, <2>10
  <2>11. CASE a \notin w.destroyed
    BY <1>2, <1>3, <1>4, <2>6, <2>7, <2>8, <2>9, <2>11
  <2> QED BY <2>10, <2>11
<1>5. CASE ~(fork < London)
  BY <1>2, <1>3, <1>5 DEF DestroyRefunds
<1> QED BY <1>4, <1>5

-----------------------------------------------------------------------------
(* The refund counter of the frame f that a turn leaves moves by what its  *)
(* world w has earned since, unless f has failed.                          *)
Earns(f, w) ==
    frame_succeeded(f) =>
        \E d \in Int : /\ f.refund = frame.refund + d
                       /\ RefundsEarned(w) = RefundsEarned(world) + d

(* A frame with the same counter on a world with the same writes.          *)
LEMMA SameEarns ==
  ASSUME LedgerOK, NEW f, f.refund = frame.refund, NEW w, SameWrites(w, world)
  PROVE  Earns(f, w)
<1>1. PICK r, e \in Int : r = frame.refund /\ e = RefundsEarned(world)
  BY StateFacts, EarnedType DEF WorldOK
<1>2. RefundsEarned(w) = RefundsEarned(world)
  BY SameEarned
<1>3. f.refund = frame.refund + 0 /\ RefundsEarned(w) = RefundsEarned(world) + 0
  BY <1>1, <1>2
<1> QED BY <1>3 DEF Earns

(* A failed frame earns nothing.                                           *)
LEMMA FailedEarns ==
  ASSUME NEW f, f.status \in {"Reverted", "Exceptional"}, NEW w
  PROVE  Earns(f, w)
BY DEF Earns, frame_succeeded

(* The levels below the running frame, when none is entered or left.       *)
LEMMA LevelsStay ==
  ASSUME RefundOK, stack' = stack, saved' = saved, totals' = totals,
         fork' = fork
  PROVE  /\ \A i \in 0..Len(stack') :
               Below(i)'.refund = RefundsEarned(EntryWorld(i))'
         /\ ParentRefunds' = ParentRefunds
<1>1. \A w : RefundsEarned(w)' = RefundsEarned(w)
  BY DEF RefundsEarned, SlotRefund, RestoreRefund
<1>2. \A i : EntryWorld(i)' = EntryWorld(i) /\ Below(i)' = Below(i)
  BY DEF EntryWorld, Below
<1>3. \A i : RefundsEarned(EntryWorld(i))' = RefundsEarned(EntryWorld(i))
  BY <1>1, <1>2 DEF RefundsEarned, SlotRefund, RestoreRefund, EntryWorld
<1>4. ParentRefunds' = ParentRefunds
  BY DEF ParentRefunds, Below
<1> QED BY <1>2, <1>3, <1>4 DEF RefundOK

(* A turn in the running frame.                                            *)
LEMMA StayRefunds ==
  ASSUME CallInv, LNext, RefundOK, Running, NEW f, NEW w, NEW ok,
         Stay(f, w, ok), Earns(f, w)
  PROVE  RefundOK'
<1>1. /\ frame' = f /\ world' = w /\ stack' = stack /\ saved' = saved
      /\ fork' = fork
  BY DEF Stay, Turn
<1>2. totals' = totals
  BY <1>1, TotalsFollow DEF CallInv
<1>3. ASSUME frame_succeeded(frame')
      PROVE  ParentRefunds' + frame'.refund = RefundsEarned(world)'
  <2>1. PICK d \in Int : /\ f.refund = frame.refund + d
                         /\ RefundsEarned(w) = RefundsEarned(world) + d
    BY <1>1, <1>3 DEF Earns
  <2>2. ParentRefunds + frame.refund = RefundsEarned(world)
    BY DEF RefundOK, Running, frame_succeeded
  <2>3. ParentRefunds \in Int /\ frame.refund \in Int
    BY StateFacts DEF CallInv, ParentRefunds, Total
  <2>4. RefundsEarned(world)' = RefundsEarned(w)
    BY <1>1 DEF RefundsEarned, SlotRefund, RestoreRefund
  <2>5. ParentRefunds' = ParentRefunds
    BY <1>1, <1>2, LevelsStay
  <2> QED BY <1>1, <2>1, <2>2, <2>3, <2>4, <2>5
<1>4. frame_succeeded(frame)' = frame_succeeded(frame')
  BY DEF frame_succeeded
<1>5. \A i \in 0..Len(stack') : Below(i)'.refund = RefundsEarned(EntryWorld(i))'
  BY <1>1, <1>2, LevelsStay
<1> QED BY <1>3, <1>4, <1>5 DEF RefundOK

(* A turn that enters a child.                                             *)
LEMMA EnterRefunds ==
  ASSUME CallInv, CallInv', LNext, RefundOK, Running, NEW kind, NEW parent,
         NEW charged, NEW gas, NEW static, NEW w,
         parent \in Frame, parent.refund = frame.refund, SameWrites(w, world),
         Enter(kind, parent, charged, gas, static, world, w)
  PROVE  RefundOK'
<1>1. PICK c : c = [kind |-> kind, charged |-> charged,
                    parent |-> [parent EXCEPT !.state_gas = 0]]
  OBVIOUS
<1>2. PICK n \in Nat : n = Len(stack)
  BY StateFacts DEF CallInv
<1>3. /\ stack' = Append(stack, c) /\ saved' = Append(saved, world)
      /\ world' = w /\ fork' = fork
      /\ frame'.refund = 0 /\ frame'.status = "Running"
  BY <1>1 DEF Enter, Turn, EntryFrame
<1>4. c.parent.refund = frame.refund
  BY <1>1 DEF Frame
<1>5. /\ stack \in Seq(Continuation) /\ saved \in Seq(World) /\ world \in World
      /\ totals \in Seq(Total) /\ Len(saved) = n /\ Len(totals) = n
  BY <1>2, StateFacts DEF CallInv, LedgerOK, TypeOK
<1>6. stack' \in Seq(Continuation) /\ Len(totals') = Len(stack')
  BY DEF CallInv, LedgerOK, TypeOK, TotalsAddUp
<1>7. Len(stack') = n + 1 /\ stack'[n + 1] = c
  BY <1>2, <1>3, <1>5
<1>8. PICK t : t = Below(n)
  OBVIOUS
<1>9. t \in Total /\ t.refund \in Int
  BY <1>2, <1>8, StateFacts DEF CallInv, Total
<1>10. c \in Continuation
  BY <1>6, <1>7
<1>11. totals' = Append(totals, Plus(t, c.parent))
  <2>1. totals' = Append(totals, Plus(Below(Len(stack)), Last(stack').parent))
    BY <1>3, <1>10, TotalsFollow DEF CallInv
  <2>2. Last(stack') = c
    BY <1>3, <1>5, <1>10, PushFacts
  <2> QED BY <1>2, <1>8, <2>1, <2>2
<1>12. /\ \A i \in 1..n : totals'[i] = totals[i] /\ saved'[i] = saved[i]
       /\ totals'[n + 1] = Plus(t, c.parent)
       /\ saved'[n + 1] = world
  BY <1>2, <1>3, <1>5, <1>11
<1>13. \A v : RefundsEarned(v)' = RefundsEarned(v)
  BY <1>3 DEF RefundsEarned, SlotRefund, RestoreRefund
<1>14. PICK e, r \in Int : e = RefundsEarned(world) /\ r = frame.refund
  BY <1>5, StateFacts, EarnedType DEF CallInv
<1>15. t.refund + r = e
  BY <1>2, <1>8, <1>14 DEF RefundOK, Running, frame_succeeded, ParentRefunds
<1>16. Plus(t, c.parent).refund = e
  BY <1>4, <1>14, <1>15 DEF Plus
<1>17. ASSUME NEW i \in 0..n + 1
       PROVE  Below(i)'.refund = RefundsEarned(EntryWorld(i))'
  <2>1. CASE i \in 0..n
    <3>1. EntryWorld(i)' = EntryWorld(i) /\ Below(i)' = Below(i)
      BY <1>12, <2>1 DEF EntryWorld, Below
    <3>2. RefundsEarned(EntryWorld(i))' = RefundsEarned(EntryWorld(i))
      BY <1>3, <3>1 DEF RefundsEarned, SlotRefund, RestoreRefund
    <3> QED BY <1>2, <2>1, <3>1, <3>2 DEF RefundOK
  <2>2. CASE i = n + 1
    <3>1. EntryWorld(i)' = world /\ Below(i)' = Plus(t, c.parent)
      BY <1>12, <2>2 DEF EntryWorld, Below
    <3>2. RefundsEarned(EntryWorld(i))' = RefundsEarned(world)
      BY <1>3, <3>1 DEF RefundsEarned, SlotRefund, RestoreRefund
    <3> QED BY <1>14, <1>16, <3>1, <3>2
  <2> QED BY <2>1, <2>2
<1>18. ParentRefunds' + frame'.refund = RefundsEarned(world)'
  <2>1. ParentRefunds' = e
    BY <1>7, <1>12, <1>16 DEF ParentRefunds, Below
  <2>2. RefundsEarned(w) = e
    BY <1>14, SameEarned
  <2>3. RefundsEarned(world)' = RefundsEarned(w)
    BY <1>3 DEF RefundsEarned, SlotRefund, RestoreRefund
  <2> QED BY <1>3, <2>1, <2>2, <2>3
<1> QED BY <1>7, <1>17, <1>18 DEF RefundOK

(* A turn that gives a done child back to its parent.                      *)
LEMMA ResumeRefunds ==
  ASSUME CallInv, LNext, RefundOK, Nested, NEW child, NEW w,
         child.refund = frame.refund, SameWrites(w, world),
         frame_succeeded(child) => frame_succeeded(frame),
         ResumeParent(child, w)
  PROVE  RefundOK'
<1>1. PICK top : top = Last(stack)
  OBVIOUS
<1>2. PICK n \in Nat : n = Len(stack) /\ n > 0
  BY ParentFacts DEF CallInv, Nested
<1>3. PICK p : p = top.parent
  OBVIOUS
<1>4. /\ p \in Frame /\ p.status = "Running" /\ p.refund \in Int
      /\ top.charged \in BOOLEAN
      /\ Below(n) = Plus(Below(n - 1), p) /\ Last(saved) = saved[n]
  BY <1>1, <1>2, <1>3, ParentFacts DEF CallInv, Nested
<1>5. PICK f, g : /\ f = [return_child_gas(p, child) EXCEPT !.refund = @ + child.refund]
                  /\ g = Uncharge(return_child_gas(p, child), top.charged)
  OBVIOUS
<1>6. /\ f.refund = p.refund + child.refund /\ f.status = "Running"
      /\ g.refund = p.refund
  <2>1. /\ return_child_gas(p, child).refund = p.refund
        /\ return_child_gas(p, child).status = "Running"
    BY <1>4 DEF return_child_gas, Frame
  <2>2. f.refund = p.refund + child.refund /\ f.status = "Running"
    BY <1>4, <1>5, <2>1 DEF return_child_gas, Frame
  <2>3. g.refund = return_child_gas(p, child).refund
    BY <1>4, <1>5 DEF Uncharge, credit_state_gas_refund, return_child_gas, Frame
  <2> QED BY <2>1, <2>2, <2>3
<1>7. PICK x, v, ok : /\ Resume(x, v, ok)
                      /\ IF frame_succeeded(child) THEN x = f /\ v = w
                         ELSE x = g /\ v = Last(saved)
  <2>1. CASE frame_succeeded(child)
    BY <1>1, <1>3, <1>5, <2>1 DEF ResumeParent
  <2>2. CASE ~frame_succeeded(child)
    BY <1>1, <1>3, <1>5, <2>2 DEF ResumeParent
  <2> QED BY <2>1, <2>2
<1>8. /\ frame' = x /\ world' = v /\ stack' = Front(stack)
      /\ saved' = Front(saved) /\ fork' = fork
  BY <1>7 DEF Resume, Turn
<1>9. totals' = Front(totals)
  BY <1>8, TotalsFollow DEF CallInv, Nested
<1>10. /\ stack \in Seq(Continuation) /\ saved \in Seq(World) /\ world \in World
       /\ totals \in Seq(Total) /\ Len(saved) = n /\ Len(totals) = n
  BY <1>2, StateFacts DEF CallInv, LedgerOK, TypeOK
<1>11. saved # <<>> /\ totals # <<>> /\ stack # <<>>
  BY <1>2, <1>10, NotEmpty
<1>12. /\ Len(stack') = n - 1
       /\ \A i \in 1..n - 1 : totals'[i] = totals[i] /\ saved'[i] = saved[i]
  BY <1>2, <1>8, <1>9, <1>10, <1>11, PopFacts
<1>13. \A i \in 0..n - 1 : Below(i)' = Below(i) /\ EntryWorld(i)' = EntryWorld(i)
  BY <1>2, <1>12 DEF Below, EntryWorld
<1>14. ASSUME NEW i \in 0..n - 1
       PROVE  Below(i)'.refund = RefundsEarned(EntryWorld(i))'
  <2>1. RefundsEarned(EntryWorld(i))' = RefundsEarned(EntryWorld(i))
    BY <1>8, <1>13 DEF RefundsEarned, SlotRefund, RestoreRefund
  <2>2. Below(i).refund = RefundsEarned(EntryWorld(i))
    BY <1>2 DEF RefundOK
  <2> QED BY <1>13, <2>1, <2>2
<1>15. PICK b, q, r \in Int : /\ b = Below(n - 1).refund /\ q = p.refund
                              /\ r = frame.refund
  <2>1. n - 1 \in 0..Len(stack)
    BY <1>2
  <2>2. Below(n - 1) \in Total /\ frame.refund \in Int
    BY <2>1, StateFacts DEF CallInv
  <2>3. Below(n - 1).refund \in Int
    BY <2>2 DEF Total
  <2> QED BY <1>4, <2>2, <2>3
<1>16. Below(n).refund = b + q
  BY <1>4, <1>15 DEF Plus
<1>17. ParentRefunds' = b
  <2>1. Below(Len(stack))' = Below(n - 1)
    <3>1. Below(Len(stack))' = IF n - 1 = 0 THEN NoTotal ELSE totals'[n - 1]
      BY <1>12 DEF Below
    <3> QED BY <1>2, <1>12, <3>1 DEF Below
  <2> QED BY <1>15, <2>1 DEF ParentRefunds
<1>18. RefundsEarned(world)' = RefundsEarned(v)
  BY <1>8 DEF RefundsEarned, SlotRefund, RestoreRefund
<1>19. CASE frame_succeeded(child)
  <2>1. b + q + r = RefundsEarned(world)
    BY <1>2, <1>15, <1>16, <1>19 DEF RefundOK, ParentRefunds
  <2>2. RefundsEarned(v) = RefundsEarned(world)
    BY <1>7, <1>19, SameEarned
  <2>3. frame'.refund = q + r
    BY <1>6, <1>7, <1>8, <1>15, <1>19
  <2>4. ParentRefunds' + frame'.refund = RefundsEarned(world)'
    BY <1>15, <1>17, <1>18, <2>1, <2>2, <2>3
  <2> QED BY <1>12, <1>14, <2>4 DEF RefundOK
<1>20. CASE ~frame_succeeded(child)
  <2>1. b + q = RefundsEarned(saved[n])
    BY <1>2, <1>16 DEF RefundOK, EntryWorld
  <2>2. v = saved[n] /\ frame'.refund = q
    BY <1>4, <1>6, <1>7, <1>8, <1>15, <1>20
  <2>3. ParentRefunds' + frame'.refund = RefundsEarned(world)'
    BY <1>17, <1>18, <2>1, <2>2
  <2> QED BY <1>12, <1>14, <2>3 DEF RefundOK
<1> QED BY <1>19, <1>20

-----------------------------------------------------------------------------
(* An exceptional halt, whatever was credited before.                      *)
LEMMA FailRefunds ==
  ASSUME CallInv, LNext, RefundOK, Running, Fail
  PROVE  RefundOK'
<1>1. PICK f : f = exceptional_state(frame)
  OBVIOUS
<1>2. f.status = "Exceptional"
  BY <1>1, StateFacts, ExceptionalFacts DEF CallInv
<1>3. Stay(f, world, TRUE)
  BY <1>1 DEF Fail
<1>4. Earns(f, world)
  BY <1>2, FailedEarns
<1>5. PICK ok : ok = TRUE /\ Stay(f, world, ok)
  BY <1>3
<1> QED BY <1>4, <1>5, StayRefunds

(* A turn that neither writes nor touches the counter.                     *)
LEMMA IdleRefunds ==
  ASSUME CallInv, LNext, RefundOK, Running, NEW f, NEW ok,
         f.refund = frame.refund, Stay(f, world, ok)
  PROVE  RefundOK'
<1>1. SameWrites(world, world)
  BY DEF SameWrites
<1> QED BY <1>1, SameEarns, StayRefunds DEF CallInv

(* Plain instructions, RETURN and REVERT.                                  *)
LEMMA PlainRefunds ==
  ASSUME CallInv, LNext, RefundOK,
         execute_plain \/ execute_return \/ execute_revert
  PROVE  RefundOK'
<1>1. Running
  BY DEF execute_plain, execute_return, execute_revert
<1>2. PICK cost : \/ Fail
                  \/ Stay(Spend(frame, cost), world, TRUE)
                  \/ Stay([Spend(frame, cost) EXCEPT !.status = "Halted"],
                          world, TRUE)
                  \/ LET f == revert_state(Spend(frame, cost))
                     IN  Stay(f, world, Representable(f))
  BY DEF execute_plain, execute_return, execute_revert
<1>3. frame \in Frame
  BY StateFacts DEF CallInv
<1>4. PICK a, b, c : /\ a = Spend(frame, cost)
                     /\ b = [a EXCEPT !.status = "Halted"]
                     /\ c = revert_state(a)
  OBVIOUS
<1>5. a.refund = frame.refund /\ b.refund = frame.refund /\ c.refund = frame.refund
  BY <1>3, <1>4 DEF Spend, revert_state, Frame
<1>6. CASE Fail
  BY <1>1, <1>6, FailRefunds
<1>7. CASE ~Fail
  <2>1. PICK y, z : y = TRUE /\ z = Representable(c)
    OBVIOUS
  <2>2. Stay(a, world, y) \/ Stay(b, world, y) \/ Stay(c, world, z)
    BY <1>2, <1>4, <1>7, <2>1
  <2>3. CASE Stay(a, world, y)
    BY <1>1, <1>5, <2>3, IdleRefunds
  <2>4. CASE Stay(b, world, y)
    BY <1>1, <1>5, <2>4, IdleRefunds
  <2>5. CASE Stay(c, world, z)
    BY <1>1, <1>5, <2>5, IdleRefunds
  <2> QED BY <2>2, <2>3, <2>4, <2>5
<1> QED BY <1>6, <1>7

(* SSTORE.                                                                 *)
LEMMA SstoreRefunds ==
  ASSUME CallInv, LNext, RefundOK, Running, NEW s \in Slots,
         NEW value \in Values, NEW cold \in BOOLEAN,
         execute_sstore(s, value, cold)
  PROVE  RefundOK'
<1>1. /\ LedgerOK /\ frame \in Frame /\ fork \in Forks /\ WorldOK(world)
  BY StateFacts DEF CallInv
<1>2. PICK c : c = sstore_costs(Original[s], world.slots[s], value, cold)
  OBVIOUS
<1>3. PICK cr, paid, ch : /\ cr = credit_state_gas_refund(frame, c.credit)
                          /\ paid = Spend(cr, c.execution)
                          /\ ch = charge_state_gas(paid, c.charge)
  OBVIOUS
<1>4. PICK done, w : /\ done = [ch EXCEPT !.refund = @ + c.refund]
                     /\ w = k_sstore(s, value)
  OBVIOUS
<1>5. PICK x, ok : /\ Fail \/ Stay(x, world, ok) \/ Stay(done, w, ok)
                   /\ x = exceptional_state(cr)
  BY <1>2, <1>3, <1>4 DEF execute_sstore
<1>6. CASE Fail
  BY <1>6, FailRefunds
<1>7. CASE Stay(x, world, ok)
  <2>1. x.status = "Exceptional"
    BY <1>1, <1>3, <1>5 DEF exceptional_state, credit_state_gas_refund, Frame
  <2> QED BY <1>7, <2>1, FailedEarns, StayRefunds
<1>8. CASE Stay(done, w, ok)
  <2>1. PICK d \in Int : d = c.refund
    BY <1>1, <1>2, StoreCosts
  <2>2. cr.refund = frame.refund /\ DOMAIN cr = DOMAIN frame
    BY <1>1, <1>3 DEF credit_state_gas_refund, Frame
  <2>3. ch.refund = frame.refund /\ DOMAIN ch = DOMAIN frame
    BY <1>1, <1>3, <2>2 DEF Spend, charge_state_gas, Frame
  <2>4. done.refund = frame.refund + d
    BY <1>1, <1>4, <2>1, <2>3 DEF Frame
  <2>5. RefundsEarned(w) = RefundsEarned(world) + d
    BY <1>1, <1>2, <1>4, <2>1, StoreEarns
  <2>6. Earns(done, w)
    BY <2>4, <2>5 DEF Earns
  <2> QED BY <1>8, <2>6, StayRefunds
<1> QED BY <1>5, <1>6, <1>7, <1>8

(* SELFDESTRUCT.                                                           *)
LEMMA SelfdestructRefunds ==
  ASSUME CallInv, CallInv', LNext, RefundOK, Running, NEW a \in world.nonempty,
         NEW beneficiary \in Accounts, NEW funded \in BOOLEAN,
         NEW cold \in BOOLEAN,
         execute_selfdestruct(a, beneficiary, funded, cold)
  PROVE  RefundOK'
<1>1. /\ LedgerOK /\ frame \in Frame /\ fork \in Forks /\ world \in World
      /\ a \in Accounts /\ frame.refund \in Int
  BY StateFacts DEF CallInv, WorldOK, World
<1> DEFINE
    creates == CreatesAccount(beneficiary, funded)
    cost == SelfdestructCost + (IF cold THEN ColdAccess ELSE 0)
              + (IF ~creates THEN 0
                 ELSE IF fork >= Amsterdam THEN AccountWriteCost
                 ELSE NewAccountCost)
    growth == IF creates /\ fork >= Amsterdam THEN StateNewAccount ELSE 0
    done == [charge_state_gas(Spend(frame, cost), growth)
               EXCEPT !.refund = IF fork < London /\ a \notin world.destroyed
                                 THEN @ + SelfdestructRefund ELSE @,
                      !.status = "Halted"]
    w == [world EXCEPT !.nonempty = IF creates THEN @ \cup {beneficiary} ELSE @,
                       !.destroyed = IF fork < Cancun \/ a \in world.created
                                     THEN @ \cup {a} ELSE @]
    ok == Representable(done)
<1>2. Fail \/ Stay(done, w, ok)
  BY DEF execute_selfdestruct
<1> HIDE DEF creates, cost, growth, ok
<1>3. CASE Fail
  BY <1>3, FailRefunds
<1>4. CASE Stay(done, w, ok)
  <2>1. PICK ch : ch = charge_state_gas(Spend(frame, cost), growth)
    OBVIOUS
  <2>2. ch.refund = frame.refund /\ DOMAIN ch = DOMAIN frame
    BY <1>1, <2>1 DEF Spend, charge_state_gas, Frame
  <2>3. PICK d \in Int : d = IF fork < London /\ a \notin world.destroyed
                             THEN SelfdestructRefund ELSE 0
    BY Prices
  <2>4. done.refund = frame.refund + d
    BY <1>1, <1>2, <2>1, <2>2, <2>3 DEF Frame
  <2>5. w \in World
    <3>1. world' = w
      BY <1>4 DEF Stay
    <3> QED BY <3>1 DEF CallInv, LedgerOK, WorldOK, World
  <2>6. /\ w.slots = world.slots /\ w.undone = world.undone
        /\ w.destroyed = IF fork < Cancun \/ a \in world.created
                         THEN world.destroyed \cup {a} ELSE world.destroyed
    BY <1>1, <1>2 DEF World
  <2>7. RefundsEarned(w) = RefundsEarned(world) + d
    BY <1>1, <2>3, <2>5, <2>6, DestroyEarns
  <2>8. Earns(done, w)
    BY <2>4, <2>7 DEF Earns
  <2> QED BY <1>4, <2>8, StayRefunds
<1> QED BY <1>2, <1>3, <1>4

(* The transfer of a value writes no slot.                                 *)
LEMMA TransferEarns ==
  ASSUME world \in World, NEW kind, NEW value, NEW target
  PROVE  SameWrites(k_transfer(kind, value, target), world)
BY DEF k_transfer, SameWrites, World

(* Giving gas and the charge for an account back leaves the counter.       *)
LEMMA BackRefunds ==
  ASSUME NEW p \in Frame, NEW back, NEW charged
  PROVE  LET f == [p EXCEPT !.gas = @ + back] IN
         /\ f.refund = p.refund
         /\ Uncharge(f, charged).refund = p.refund
         /\ Uncharge(p, charged).refund = p.refund
BY DEF Uncharge, credit_state_gas_refund, Frame

(* CALL.                                                                   *)
LEMMA CallRefunds ==
  ASSUME CallInv, CallInv', LNext, RefundOK, run_call
  PROVE  RefundOK'
<1>1. Running /\ LedgerOK /\ world \in World
  BY StateFacts DEF run_call, CallInv, WorldOK
<1>2. PICK kind \in CallKinds, target \in Accounts, cold \in BOOLEAN,
           memory \in MemoryCosts, request \in Requests :
        \E value \in IF takes_value(kind) THEN BOOLEAN ELSE {FALSE} :
           LET c == call_charge(kind, value, target, Access(cold), memory,
                                request)
           IN  \/ call_halts(kind, value, c)
               \/ call_refused(kind, value, c)
               \/ call_precompile_succeeds(kind, value, target, c)
               \/ call_precompile_fails(kind, value, c)
               \/ call_enters(kind, value, target, c)
  BY DEF run_call
<1>3. PICK value \in BOOLEAN :
           LET c == call_charge(kind, value, target, Access(cold), memory,
                                request)
           IN  \/ call_halts(kind, value, c)
               \/ call_refused(kind, value, c)
               \/ call_precompile_succeeds(kind, value, target, c)
               \/ call_precompile_fails(kind, value, c)
               \/ call_enters(kind, value, target, c)
  BY <1>2
<1>4. PICK c : c = call_charge(kind, value, target, Access(cold), memory, request)
  OBVIOUS
<1>5. Proceeds(kind, value, c) => c.parent \in Frame /\ c.parent.refund = frame.refund
  BY <1>1, <1>4, CallQuote DEF Quote, Alike
<1>6. CASE call_halts(kind, value, c)
  BY <1>1, <1>6, FailRefunds DEF call_halts
<1>7. CASE call_refused(kind, value, c)
  <2>1. PICK f, g : f = [c.parent EXCEPT !.gas = @ + c.child] /\ g = Uncharge(f, c.charged)
    OBVIOUS
  <2>2. Proceeds(kind, value, c) /\ Stay(g, world, Representable(f) /\ Representable(g))
    BY <1>7, <2>1 DEF call_refused
  <2>3. g.refund = frame.refund
    BY <1>5, <2>1, <2>2, BackRefunds
  <2> QED BY <1>1, <2>2, <2>3, IdleRefunds
<1>8. CASE call_precompile_succeeds(kind, value, target, c)
  <2>1. PICK back, f : /\ f = [c.parent EXCEPT !.gas = @ + back]
                       /\ Stay(f, k_transfer(kind, value, target), Representable(f))
    BY <1>8 DEF call_precompile_succeeds
  <2>2. f.refund = frame.refund
    BY <1>5, <1>8, <2>1, BackRefunds DEF call_precompile_succeeds
  <2>3. Earns(f, k_transfer(kind, value, target))
    BY <1>1, <2>2, TransferEarns, SameEarns
  <2> QED BY <1>1, <2>1, <2>3, StayRefunds
<1>9. CASE call_precompile_fails(kind, value, c)
  <2>1. PICK g : g = Uncharge(c.parent, c.charged)
    OBVIOUS
  <2>2. Proceeds(kind, value, c) /\ Stay(g, world, Representable(g))
    BY <1>9, <2>1 DEF call_precompile_fails
  <2>3. g.refund = frame.refund
    BY <1>5, <2>1, <2>2, BackRefunds
  <2> QED BY <1>1, <2>2, <2>3, IdleRefunds
<1>10. CASE call_enters(kind, value, target, c)
  <2>1. PICK static, w :
           /\ w = k_transfer(kind, value, target)
           /\ Proceeds(kind, value, c)
           /\ Enter("ResumeCall", c.parent, c.charged, c.child, static, world, w)
    BY <1>10 DEF call_enters
  <2>2. SameWrites(w, world)
    BY <1>1, <2>1, TransferEarns
  <2> QED BY <1>1, <1>5, <2>1, <2>2, EnterRefunds
<1> QED BY <1>3, <1>4, <1>6, <1>7, <1>8, <1>9, <1>10

(* CREATE and CREATE2.                                                     *)
LEMMA CreateRefunds ==
  ASSUME CallInv, CallInv', LNext, RefundOK, run_create
  PROVE  RefundOK'
<1>1. Running /\ LedgerOK /\ world \in World /\ frame \in Frame
  BY StateFacts DEF run_create, CallInv, WorldOK
<1>2. PICK target \in Accounts, memory \in MemoryCosts :
           \/ \E oversized \in BOOLEAN : create_halts(memory, oversized)
           \/ create_refused(memory)
           \/ create_runs_out(target, memory)
           \/ create_collides(target, memory)
           \/ create_enters(target, memory)
  BY DEF run_create
<1>3. PICK c : c = create_charge(target, memory)
  OBVIOUS
<1>4. CreateProceeds(memory) /\ ~c.halt =>
         c.parent \in Frame /\ c.parent.refund = frame.refund
  BY <1>1, <1>3, CreateQuote DEF Quote, Alike
<1>5. CASE (\E oversized \in BOOLEAN : create_halts(memory, oversized))
           \/ create_runs_out(target, memory)
  BY <1>1, <1>5, FailRefunds DEF create_halts, create_runs_out
<1>6. CASE create_refused(memory)
  <2>1. PICK f : f = CreatePaid(memory) /\ Stay(f, world, TRUE)
    BY <1>6 DEF create_refused
  <2>2. f.refund = frame.refund
    BY <1>1, <2>1 DEF CreatePaid, Spend, Frame
  <2> QED BY <1>1, <2>1, <2>2, IdleRefunds
<1>7. CASE create_collides(target, memory)
  <2>1. PICK g : g = Uncharge(c.parent, c.charged)
    OBVIOUS
  <2>2. CreateProceeds(memory) /\ ~c.halt /\ Stay(g, world, Representable(g))
    BY <1>3, <1>7, <2>1 DEF create_collides
  <2>3. g.refund = frame.refund
    BY <1>4, <2>1, <2>2, BackRefunds
  <2> QED BY <1>1, <2>2, <2>3, IdleRefunds
<1>8. CASE create_enters(target, memory)
  <2>1. PICK w : w = [world EXCEPT !.nonempty = @ \cup {target},
                                   !.created = @ \cup {target}]
    OBVIOUS
  <2>2. /\ CreateProceeds(memory) /\ ~c.halt
        /\ Enter("ResumeCreate", c.parent, c.charged, c.child, frame.static,
                 world, w)
    BY <1>3, <1>8, <2>1 DEF create_enters
  <2>3. SameWrites(w, world)
    BY <1>1, <2>1 DEF SameWrites, World
  <2> QED BY <1>1, <1>4, <2>2, <2>3, EnterRefunds
<1> QED BY <1>2, <1>5, <1>6, <1>7, <1>8

(* The end of a call and of a creation.                                    *)
LEMMA ReturnRefunds ==
  ASSUME CallInv, LNext, RefundOK, resume_call \/ resume_create
  PROVE  RefundOK'
<1>1. /\ Done /\ Nested /\ frame \in Frame /\ world \in World
      /\ SameWrites(world, world)
  BY StateFacts DEF resume_call, resume_create, Nested, CallInv, WorldOK, SameWrites
<1>2. CASE ResumeParent(frame, world)
  BY <1>1, <1>2, ResumeRefunds
<1>3. ASSUME NEW length \in Deposits, NEW valid \in BOOLEAN,
             frame_succeeded(frame),
             ResumeParent(DeployedChild(length, valid),
                          [world EXCEPT !.code = @ + length])
      PROVE  RefundOK'
  <2>1. PICK child, w : /\ child = DeployedChild(length, valid)
                        /\ w = [world EXCEPT !.code = @ + length]
    OBVIOUS
  <2>2. child.refund = frame.refund
    BY <1>1, <2>1 DEF DeployedChild, exceptional_state, charge_state_gas, Spend, Frame
  <2>3. SameWrites(w, world)
    BY <1>1, <2>1 DEF SameWrites, World
  <2> QED BY <1>1, <1>3, <2>1, <2>2, <2>3, ResumeRefunds
<1> QED BY <1>2, <1>3 DEF resume_call, resume_create

(* A turn that changes neither the frames nor the world.                   *)
LEMMA RestRefunds ==
  ASSUME RefundOK, UNCHANGED <<frame, stack, world, saved, fork, totals>>
  PROVE  RefundOK'
<1>1. /\ \A i \in 0..Len(stack') :
            Below(i)'.refund = RefundsEarned(EntryWorld(i))'
      /\ ParentRefunds' = ParentRefunds
  BY LevelsStay
<1>2. /\ RefundsEarned(world)' = RefundsEarned(world)
      /\ frame_succeeded(frame)' = frame_succeeded(frame)
  BY DEF RefundsEarned, SlotRefund, RestoreRefund, frame_succeeded
<1> QED BY <1>1, <1>2 DEF RefundOK

(* Every turn of the loop keeps the refunds in step with the writes.       *)
LEMMA RefundStep ==
  ASSUME CallInv, CallInv', RefundOK, [LNext]_<<vars, totals>>
  PROVE  RefundOK'
<1>1. CASE UNCHANGED <<vars, totals>>
  BY <1>1, RestRefunds DEF vars
<1>2. CASE LNext
  <2>1. CASE execute_plain \/ execute_return \/ execute_revert
    BY <1>2, <2>1, PlainRefunds
  <2>2. CASE execute_invalid
    BY <1>2, <2>2, FailRefunds DEF execute_invalid
  <2>3. CASE /\ Running
             /\ \E s \in Slots, value \in Values, cold \in BOOLEAN :
                   execute_sstore(s, value, cold)
    BY <1>2, <2>3, SstoreRefunds
  <2>4. CASE /\ Running
             /\ \E a \in world.nonempty, beneficiary \in Accounts,
                   funded, cold \in BOOLEAN :
                   execute_selfdestruct(a, beneficiary, funded, cold)
    BY <1>2, <2>4, SelfdestructRefunds
  <2>5. CASE run_call
    BY <1>2, <2>5, CallRefunds
  <2>6. CASE run_create
    BY <1>2, <2>6, CreateRefunds
  <2>7. CASE resume_call \/ resume_create
    BY <1>2, <2>7, ReturnRefunds
  <2>8. CASE finish \/ Terminated
    <3>1. UNCHANGED <<frame, stack, world, saved, fork>>
      BY <2>8 DEF finish, Terminated, vars
    <3>2. totals' = totals
      BY <1>2, <3>1, TotalsFollow DEF CallInv
    <3> QED BY <3>1, <3>2, RestRefunds
  <2> QED BY <1>2, <2>1, <2>2, <2>3, <2>4, <2>5, <2>6, <2>7, <2>8
          DEF LNext, Next, TakeTurn
<1> QED BY <1>1, <1>2

(* The refund counters of the open frames are what the surviving writes    *)
(* have earned: record_refund in a child that fails is dropped with its    *)
(* writes, and that of a committed child reaches its parent once.          *)
THEOREM RefundsFollow == LSpec => []RefundsFollowWrites
<1>1. LInit => RefundOK
  <2> SUFFICES ASSUME LInit PROVE RefundOK
    OBVIOUS
  <2>1. /\ fork \in Forks /\ frame.refund = 0 /\ Len(stack) = 0
        /\ world = InitialWorld
    BY DEF LInit, Init, TopFrame, EntryFrame
  <2>2. RefundsEarned(InitialWorld) = 0
    BY <2>1, EarnedInitially
  <2>3. \A i \in 0..Len(stack) : i = 0
    BY <2>1
  <2>4. /\ Below(0).refund = 0 /\ EntryWorld(0) = InitialWorld
        /\ ParentRefunds = 0
    BY <2>1 DEF Below, NoTotal, EntryWorld, ParentRefunds
  <2> QED BY <2>1, <2>2, <2>3, <2>4 DEF RefundOK
<1>2. CallInv /\ CallInv' /\ RefundOK /\ [LNext]_<<vars, totals>> => RefundOK'
  BY RefundStep
<1>3. CallInv /\ RefundOK => RefundsFollowWrites
  <2> SUFFICES ASSUME CallInv, RefundOK PROVE RefundsFollowWrites
    OBVIOUS
  <2>1. CASE frame_succeeded(frame)
    BY <2>1 DEF RefundOK, RefundsFollowWrites, KeptWorld
  <2>2. CASE ~frame_succeeded(frame)
    <3>1. PICK n \in Nat : n = Len(stack) /\ n \in 0..Len(stack)
      BY StateFacts DEF CallInv
    <3>2. Below(n).refund \in Int
      BY <3>1, StateFacts DEF CallInv, Total
    <3>3. KeptWorld = EntryWorld(n)
      <4>1. CASE Nested
        <5>1. n # 0 /\ Last(saved) = saved[n]
          BY <3>1, <4>1, ParentFacts DEF Nested, CallInv
        <5> QED BY <2>2, <4>1, <5>1 DEF KeptWorld, EntryWorld, Nested
      <4>2. CASE ~Nested
        <5>1. stack = <<>> /\ n = 0
          BY <3>1, <4>2 DEF Nested
        <5> QED BY <2>2, <5>1 DEF KeptWorld, EntryWorld
      <4> QED BY <4>1, <4>2
    <3>4. Below(n).refund + 0 = RefundsEarned(EntryWorld(n))
      BY <3>1, <3>2 DEF RefundOK
    <3> QED BY <2>2, <3>1, <3>3, <3>4 DEF RefundsFollowWrites, ParentRefunds
  <2> QED BY <2>1, <2>2
<1>4. LSpec => []CallInv
  BY CallInvariant
<1> QED BY <1>1, <1>2, <1>3, <1>4, PTL DEF LSpec
=============================================================================
