----------------------------- MODULE CodeProofs -----------------------------
(***************************************************************************)
(* What holds of a walk over any code, at any fork: bytes are executed     *)
(* only where an instruction starts, and the jump destinations are those   *)
(* of a scan that does not know the operands of EIP-8024.                  *)
(*                                                                         *)
(* The starts of instructions are a recursive function of the code.  That  *)
(* it exists, and that no start lies inside another instruction, are shown *)
(* for the least counterexample.                                           *)
(*                                                                         *)
(* What is run is also paid for.  The charges leave early on partial       *)
(* products; that none of the exits changes a verdict is arithmetic of     *)
(* quotients and products, which the solver is led through step by step.   *)
(***************************************************************************)
EXTENDS CodeWalk, GasCharges, LedgerLemmas

-----------------------------------------------------------------------------
(* Where instructions start.                                               *)

(* The equation of the starts, on the positions up to n.                   *)
Solves(f, length, n) ==
    f = [k \in 0 .. n |-> k = 0 \/ \E p \in 0 .. k - 1 : p + length[p] = k /\ f[p]]

(* It can be solved up to any position (Starts).                           *)
LEMMA StartsExist ==
    ASSUME NEW length, NEW n \in Nat
    PROVE  \E f : Solves(f, length, n)
<1> DEFINE T == {m \in Nat : ~ \E f : Solves(f, length, m)}
<1>1. SUFFICES ASSUME T # {} PROVE FALSE
  OBVIOUS
<1>2. PICK m \in T : \A y \in T : m <= y
  BY <1>1, LeastNumber, Zenon
<1>3. m \in Nat /\ ~ \E f : Solves(f, length, m)
  OBVIOUS
<1>4. CASE m = 0
  <2> DEFINE f == [k \in 0 .. 0 |-> TRUE]
  <2>1. Solves(f, length, 0)
    <3>1. \A k \in 0 .. 0 : (k = 0 \/ \E p \in 0 .. k - 1 : p + length[p] = k /\ f[p]) = TRUE
      OBVIOUS
    <3>2. f = [k \in 0 .. 0 |-> k = 0 \/ \E p \in 0 .. k - 1 : p + length[p] = k /\ f[p]]
      <4> DEFINE e(k) == k = 0 \/ \E p \in 0 .. k - 1 : p + length[p] = k /\ f[p]
      <4>1. \A k \in 0 .. 0 : e(k) = TRUE
        BY <3>1
      <4> HIDE DEF e
      <4>2. [k \in 0 .. 0 |-> TRUE] = [k \in 0 .. 0 |-> e(k)]
        BY <4>1
      <4> QED BY <4>2 DEF e
    <3> QED BY <3>2 DEF Solves
  <2> QED BY <1>3, <1>4, <2>1
<1>5. CASE m # 0
  <2>1. m - 1 \in Nat /\ m - 1 < m
    BY <1>3, <1>5
  <2>2. m - 1 \notin T
    BY <1>2, <1>3, <2>1
  <2>3. PICK f : Solves(f, length, m - 1)
    BY <2>1, <2>2
  <2> DEFINE Lands == \E p \in 0 .. m - 1 : p + length[p] = m /\ f[p]
             g == [k \in 0 .. m |-> IF k < m THEN f[k] ELSE Lands]
  <2>4. ASSUME NEW k \in 0 .. m
        PROVE  g[k] = (k = 0 \/ \E p \in 0 .. k - 1 : p + length[p] = k /\ g[p])
    <3>1. \A p \in 0 .. k - 1 : g[p] = f[p]
      <4>1. \A p \in 0 .. k - 1 : p \in 0 .. m /\ p < m
        BY <1>3
      <4> HIDE DEF Lands
      <4> QED BY <4>1
    <3>2. CASE k < m
      <4>1. k \in 0 .. m - 1
        BY <1>3, <3>2
      <4>2. f[k] = (k = 0 \/ \E p \in 0 .. k - 1 : p + length[p] = k /\ f[p])
        <5> HIDE DEF Lands, g
        <5> QED BY <2>3, <4>1 DEF Solves
      <4>3. g[k] = f[k]
        BY <3>2
      <4> HIDE DEF Lands, g
      <4> QED BY <3>1, <4>2, <4>3
    <3>3. CASE ~ (k < m)
      <4>1. k = m
        BY <1>3, <3>3
      <4>2. g[k] = Lands
        BY <3>3
      <4>3. Lands = (k = 0 \/ \E p \in 0 .. k - 1 : p + length[p] = k /\ g[p])
        <5> HIDE DEF g
        <5> QED BY <1>5, <3>1, <4>1
      <4> QED BY <4>2, <4>3
    <3> QED BY <3>2, <3>3
  <2>5. Solves(g, length, m)
    <3>1. g = [k \in 0 .. m |-> g[k]]
      OBVIOUS
    <3> HIDE DEF g
    <3> QED BY <2>4, <3>1 DEF Solves
  <2> QED BY <1>3, <2>5
<1> QED BY <1>4, <1>5

(* Lengths of instructions: one at every byte, and positive.               *)
IsLength(length) == length \in [0 .. Len(code) - 1 -> Nat \ {0}]

(* The recursive function in Starts is such a solution.                    *)
LEMMA StartsAre ==
    ASSUME NEW length, Len(code) \in Nat
    PROVE  \E f : Solves(f, length, Len(code)) /\ Starts(length) = {i \in 0 .. Len(code) - 1 : f[i]}
<1> DEFINE f == CHOOSE f : Solves(f, length, Len(code))
<1>1. Solves(f, length, Len(code))
  BY StartsExist, Zenon
<1>2. Starts(length) = {i \in 0 .. Len(code) - 1 : f[i]}
  BY DEF Starts, Solves
<1> HIDE DEF f
<1> QED BY <1>1, <1>2

(* Position 0 is a start, what follows a start is one, and every other     *)
(* start follows one.                                                      *)
LEMMA StartsChain ==
    ASSUME NEW length, Len(code) \in Nat, IsLength(length)
    PROVE  /\ Starts(length) \subseteq 0 .. Len(code) - 1
           /\ Len(code) > 0 => 0 \in Starts(length)
           /\ \A i \in Starts(length) :
                 i + length[i] < Len(code) => i + length[i] \in Starts(length)
           /\ \A i \in Starts(length) : i # 0 =>
                 \E p \in Starts(length) : p < i /\ p + length[p] = i
<1>1. PICK f : Solves(f, length, Len(code)) /\ Starts(length) = {i \in 0 .. Len(code) - 1 : f[i]}
  BY StartsAre, Zenon
<1>2. PICK n \in Nat : n = Len(code)
  OBVIOUS
<1>3. length \in [0 .. n - 1 -> Nat \ {0}]
  BY <1>2 DEF IsLength
<1>4. \A k \in 0 .. n : f[k] <=> (k = 0 \/ \E p \in 0 .. k - 1 : p + length[p] = k /\ f[p])
  BY <1>1, <1>2 DEF Solves
<1>5. Starts(length) = {i \in 0 .. n - 1 : f[i]}
  BY <1>1, <1>2
<1>6. n > 0 => 0 \in Starts(length)
  BY <1>4, <1>5
<1>7. ASSUME NEW i \in Starts(length), i + length[i] < n PROVE i + length[i] \in Starts(length)
  <2>1. i \in 0 .. n - 1 /\ f[i]
    BY <1>5
  <2>2. PICK k \in Nat \ {0} : k = length[i]
    BY <1>3, <2>1
  <2>3. i + k \in 0 .. n - 1 /\ i \in 0 .. (i + k) - 1
    BY <1>7, <2>1, <2>2
  <2>4. f[i + k]
    BY <1>4, <2>1, <2>2, <2>3
  <2> QED BY <1>5, <2>2, <2>3, <2>4
<1>8. ASSUME NEW i \in Starts(length), i # 0
      PROVE  \E p \in Starts(length) : p < i /\ p + length[p] = i
  <2>1. i \in 0 .. n - 1 /\ f[i]
    BY <1>5
  <2>2. PICK p \in 0 .. i - 1 : p + length[p] = i /\ f[p]
    BY <1>4, <1>8, <2>1
  <2>3. p \in 0 .. n - 1 /\ p < i
    BY <2>1
  <2> QED BY <1>5, <2>2, <2>3
<1> QED BY <1>2, <1>5, <1>6, <1>7, <1>8

(* No start lies inside an instruction that starts before it.              *)
LEMMA StartsApart ==
    ASSUME NEW length, Len(code) \in Nat, IsLength(length),
           NEW i \in Starts(length), NEW m \in Starts(length), m < i
    PROVE  m + length[m] <= i
<1> DEFINE S == Starts(length)
           T == {j \in S : \E k \in S : k < j /\ j < k + length[k]}
<1>1. /\ S \subseteq Nat
      /\ \A j \in S : j # 0 => \E p \in S : p < j /\ p + length[p] = j
      /\ \A j \in S : length[j] \in Nat
  <2>1. /\ S \subseteq 0 .. Len(code) - 1
        /\ \A j \in S : j # 0 => \E p \in S : p < j /\ p + length[p] = j
    BY StartsChain, Zenon
  <2> HIDE DEF S
  <2> QED BY <2>1 DEF IsLength
<1> i \in S /\ m \in S
  OBVIOUS
<1> HIDE DEF S
<1>2. SUFFICES ASSUME T # {} PROVE FALSE
  BY <1>1
<1>3. PICK j \in T : \A y \in T : j <= y
  BY <1>1, <1>2, LeastNumber
<1>4. PICK k \in S : k < j /\ j < k + length[k]
  BY <1>3
<1>5. PICK p \in S : p < j /\ p + length[p] = j
  BY <1>1, <1>3, <1>4
<1>6. j \in S /\ j \in Nat /\ k \in Nat /\ p \in Nat /\ length[k] \in Nat /\ length[p] \in Nat
  BY <1>1, <1>3
<1>7. CASE p = k
  BY <1>4, <1>5, <1>6, <1>7
<1>8. CASE k < p
  <2>1. p \in T
    BY <1>4, <1>5, <1>6, <1>8
  <2> QED BY <1>3, <1>5, <1>6, <2>1
<1>9. CASE p < k
  <2>1. k \in T
    BY <1>4, <1>5, <1>6, <1>9
  <2> QED BY <1>3, <1>4, <1>6, <2>1
<1> QED BY <1>6, <1>7, <1>8, <1>9

-----------------------------------------------------------------------------
(* The invariant.                                                          *)

(* The scan stands at a start and has marked the JUMPDESTs before it.      *)
ScanOK(length) ==
    /\ scan < Len(code) => scan \in Starts(length)
    /\ table = {i \in Starts(length) : i < scan /\ code_slice_byte(i) = 91}

(* The frame stands at a start, or past the end.                           *)
AtStart(at) == at \in Nat /\ (at < Len(code) => at \in Starts(InstructionLengths))
WalkOK == AtStart(pc) /\ (came = "jump" => code_slice_byte(pc) = 91)

WalkInv ==
    /\ code \in Seq(Byte) /\ fork \in Nat /\ scan \in 0 .. Len(code)
    /\ ScanOK(InstructionLengths) /\ ScanOK(LegacyLengths)
    /\ WalkOK

(* Every position of the code has a byte, and past its end there are zeros. *)
LEMMA Bytes ==
    ASSUME code \in Seq(Byte), NEW i \in Nat
    PROVE  code_slice_byte(i) \in Byte
<1>1. Len(code) \in Nat /\ \A k \in 1 .. Len(code) : code[k] \in Byte
  OBVIOUS
<1>2. CASE i < Len(code)
  <2>1. i + 1 \in 1 .. Len(code)
    BY <1>1, <1>2
  <2> QED BY <1>1, <1>2, <2>1 DEF code_slice_byte
<1>3. CASE ~ (i < Len(code))
  BY <1>3 DEF code_slice_byte, Byte
<1> QED BY <1>2, <1>3

(* Both ways of counting give every byte a length.                         *)
LEMMA LengthsAre ==
    ASSUME code \in Seq(Byte)
    PROVE  Len(code) \in Nat /\ IsLength(InstructionLengths) /\ IsLength(LegacyLengths)
<1>1. PICK n \in Nat : n = Len(code)
  OBVIOUS
<1>2. ASSUME NEW i \in 0 .. n - 1
      PROVE  LengthAt(i) \in Nat \ {0} /\ LegacyLengths[i] \in Nat \ {0}
  <2>1. PICK op \in Byte : op = code_slice_byte(i)
    BY Bytes
  <2>2. LengthAt(i) \in Nat \ {0}
    <3>1. PICK o \in BOOLEAN : o <=> (fork >= Amsterdam /\ Operand(op, code_slice_byte(i + 1)))
      OBVIOUS
    <3>2. LengthAt(i) = IF op \in 96 .. 127 THEN op - 94 ELSE IF o THEN 2 ELSE 1
      BY <2>1, <3>1 DEF LengthAt
    <3> QED BY <3>2 DEF Byte
  <2>3. LegacyLengths[i] \in Nat \ {0}
    <3>1. LegacyLengths[i] = IF op \in 96 .. 127 THEN op - 94 ELSE 1
      BY <1>1, <2>1 DEF LegacyLengths
    <3> QED BY <3>1 DEF Byte
  <2> QED BY <2>2, <2>3
<1>3. IsLength(InstructionLengths)
  BY <1>1, <1>2 DEF IsLength, InstructionLengths
<1>4. IsLength(LegacyLengths)
  <2>1. LegacyLengths = [i \in 0 .. n - 1 |-> LegacyLengths[i]]
    BY <1>1 DEF LegacyLengths
  <2> QED BY <1>1, <1>2, <2>1 DEF IsLength
<1> QED BY <1>1, <1>3, <1>4

(* The instructions that take an operand from the code, and which bytes    *)
(* they take (deep_stack_operation, deep_stack_operation_immediate_valid). *)
LEMMA DeepStackIs ==
    /\ DOMAIN DeepStack = {230, 231, 232}
    /\ DeepStack[230] = "DUPN" /\ DeepStack[231] = "SWAPN" /\ DeepStack[232] = "EXCHANGE"
BY DEF DeepStack

LEMMA OperandIs ==
    ASSUME NEW op \in Byte, NEW b \in Byte
    PROVE  deep_stack_operation_immediate_valid(deep_stack_operation(op), b) <=> Operand(op, b)
BY DeepStackIs DEF deep_stack_operation_immediate_valid, deep_stack_operation, Operand,
    deep_stack_immediate_valid, exchange_immediate_valid, Byte

(* The scan advances by the length of the instruction.                     *)
LEMMA ScanStepIs ==
    ASSUME code \in Seq(Byte), NEW i \in Nat
    PROVE  ScanStep(code_slice_byte(i), code_slice_byte(i + 1)) = LengthAt(i)
<1>1. PICK op \in Byte : op = code_slice_byte(i)
  BY Bytes
<1>2. PICK b \in Byte : b = code_slice_byte(i + 1)
  BY Bytes
<1>3. deep_stack_operation_immediate_valid(deep_stack_operation(op), b) <=> Operand(op, b)
  BY OperandIs
<1> QED BY <1>1, <1>2, <1>3 DEF ScanStep, LengthAt

(* Only instructions that came with a fork need it (opcode_available).     *)
LEMMA SinceIs ==
    ASSUME NEW op \in Byte
    PROVE  /\ op \in 96 .. 127 => op \notin DOMAIN Since
           /\ op \in 230 .. 232 => op \in DOMAIN Since /\ Since[op] = Amsterdam
BY DEF Since

(* So does the frame (fetch); past the end it stays.                       *)
LEMMA FetchAdvances ==
    ASSUME code \in Seq(Byte), fork \in Nat, NEW at \in Nat
    PROVE  fetch(at, fork)[1] = IF at < Len(code) THEN at + LengthAt(at) ELSE at
<1>1. PICK op \in Byte : op = code_slice_byte(at)
  BY Bytes
<1>2. PICK b \in Byte : b = code_slice_byte(at + 1)
  BY Bytes
<1>3. PICK n \in Nat : n = Len(code)
  OBVIOUS
<1>6. op \in Int
  BY DEF Byte
<1>4. CASE ~ (at < n)
  BY <1>3, <1>4 DEF fetch
<1>5. CASE at < n
  <2>1. LengthAt(at) = IF op \in 96 .. 127 THEN op - 94
                       ELSE IF fork >= Amsterdam /\ Operand(op, b) THEN 2 ELSE 1
    BY <1>1, <1>2 DEF LengthAt
  <2>2. CASE ~ opcode_available(op, fork)
    <3>1. fetch(at, fork)[1] = at + 1
      BY <1>1, <1>3, <1>5, <2>2 DEF fetch
    <3> op \in DOMAIN Since /\ ~ (fork >= Since[op])
      BY <2>2 DEF opcode_available
    <3>2. op \notin 96 .. 127
      BY SinceIs
    <3>3. ~ (fork >= Amsterdam /\ op \in 230 .. 232)
      <4>1. op \in 230 .. 232 => Since[op] = Amsterdam
        BY SinceIs
      <4> QED BY <4>1
    <3>4. Operand(op, b) => op \in 230 .. 232
      BY DEF Operand
    <3>5. LengthAt(at) = 1
      BY <2>1, <3>2, <3>3, <3>4
    <3> QED BY <1>3, <1>5, <3>1, <3>5
  <2>3. CASE opcode_available(op, fork) /\ op \in 95 .. 127
    <3>0. op \notin DOMAIN DeepStack
      BY <2>3, DeepStackIs
    <3>1. fetch(at, fork)[1] = decode_push_immediate(at + 1, op - 95)[1]
      BY <1>1, <1>3, <1>5, <1>6, <2>3, <3>0 DEF fetch
    <3>3. decode_push_immediate(at + 1, op - 95)[1] = at + 1 + (op - 95)
      BY DEF decode_push_immediate
    <3>2. ~ Operand(op, b)
      BY <2>3 DEF Operand
    <3> QED BY <1>3, <1>5, <2>1, <2>3, <3>1, <3>2, <3>3 DEF Byte
  <2>4. CASE opcode_available(op, fork) /\ op \in 230 .. 232
    <3>1. op \in DOMAIN DeepStack /\ op \notin 95 .. 127
      BY <2>4, DeepStackIs
    <3>2. fetch(at, fork)[1] = decode_deep_immediate(at + 1, deep_stack_operation(op))[1]
      BY <1>1, <1>3, <1>5, <2>4, <3>1 DEF fetch
    <3>3. deep_stack_operation_immediate_valid(deep_stack_operation(op), b) <=> Operand(op, b)
      BY OperandIs
    <3>4. fetch(at, fork)[1] = IF Operand(op, b) THEN at + 2 ELSE at + 1
      BY <1>2, <3>2, <3>3 DEF decode_deep_immediate
    <3>5. fork >= Amsterdam
      BY <2>4, SinceIs DEF opcode_available
    <3> QED BY <1>3, <1>5, <2>1, <2>4, <3>4, <3>5
  <2>5. CASE opcode_available(op, fork) /\ op \notin 95 .. 127 /\ op \notin 230 .. 232
    <3>1. op \notin DOMAIN DeepStack
      BY <2>5, DeepStackIs
    <3>2. fetch(at, fork)[1] = at + 1
      <4>1. op \notin 95 .. 127 /\ ~ (at >= n)
        BY <1>5, <2>5
      <4>2. fetch(at, fork) = <<at + 1, decode_simple(op, fork)>>
        BY <1>1, <1>3, <1>5, <2>5, <3>1, <4>1 DEF fetch
      <4> QED BY <4>2
    <3>3. op \notin 96 .. 127 /\ ~ Operand(op, b)
      BY <2>5 DEF Operand
    <3> QED BY <1>3, <1>5, <2>1, <3>2, <3>3
  <2> QED BY <2>2, <2>3, <2>4, <2>5
<1> QED BY <1>3, <1>4, <1>5

-----------------------------------------------------------------------------
(* The scan keeps the invariant.                                           *)

LEMMA MinIs ==
    ASSUME NEW a \in Nat, NEW b \in Nat
    PROVE  Min({a, b}) = IF a <= b THEN a ELSE b
<1> DEFINE m == IF a <= b THEN a ELSE b
<1>1. m \in {a, b} /\ \A y \in {a, b} : m <= y
  OBVIOUS
<1>2. \A x \in {a, b} : (\A y \in {a, b} : x <= y) => x = m
  OBVIOUS
<1> HIDE DEF m
<1>3. Min({a, b}) \in {a, b} /\ \A y \in {a, b} : Min({a, b}) <= y
  BY <1>1 DEF Min
<1>4. Min({a, b}) = m
  BY <1>2, <1>3
<1> QED BY <1>4 DEF m

(* From a start to the next one, or to the end of the code.                *)
LEMMA NextStart ==
    ASSUME NEW length, NEW n \in Nat, n = Len(code), IsLength(length),
           NEW at \in Starts(length), NEW next \in 0 .. n,
           next = n \/ next = at + length[at], next <= at + length[at], at < next
    PROVE  /\ next < n => next \in Starts(length)
           /\ \A i \in Starts(length) : i < next <=> (i < at \/ i = at)
<1>1. Starts(length) \subseteq 0 .. n - 1
  BY StartsChain
<1>2. next < n => next \in Starts(length)
  <2>1. at + length[at] < Len(code) => at + length[at] \in Starts(length)
    BY StartsChain
  <2> QED BY <2>1
<1>3. ASSUME NEW i \in Starts(length) PROVE i < next <=> (i < at \/ i = at)
  <2>1. i \in Nat /\ at \in Nat
    BY <1>1
  <2>2. at < i => at + length[at] <= i
    BY StartsApart
  <2>3. PICK k \in Nat : k = length[at]
    BY <1>1 DEF IsLength
  <2> QED BY <2>1, <2>2, <2>3
<1> QED BY <1>2, <1>3

(* A byte that an operand may be is neither a JUMPDEST nor a PUSH.         *)
LEMMA OperandsAreOpaque ==
    ASSUME NEW op, NEW b \in Byte, Operand(op, b)
    PROVE  b # 91 /\ b \notin 96 .. 127
BY DEF Operand, Byte

(* What the lengths are, at the byte under the scan.                       *)
LEMMA ScanLengths ==
    ASSUME code \in Seq(Byte), NEW at \in 0 .. Len(code) - 1
    PROVE  /\ InstructionLengths[at] = LengthAt(at)
           /\ LegacyLengths[at] =
                IF code_slice_byte(at) \in 96 .. 127 THEN code_slice_byte(at) - 94 ELSE 1
           /\ \/ LengthAt(at) = LegacyLengths[at]
              \/ /\ LengthAt(at) = 2 /\ LegacyLengths[at] = 1
                 /\ code_slice_byte(at + 1) # 91 /\ code_slice_byte(at + 1) \notin 96 .. 127
<1>1. InstructionLengths[at] = LengthAt(at)
  BY DEF InstructionLengths
<1>2. PICK n \in Nat : n = Len(code)
  OBVIOUS
<1>3. PICK op \in Byte : op = code_slice_byte(at)
  BY <1>2, Bytes
<1>4. PICK b \in Byte : b = code_slice_byte(at + 1)
  BY <1>2, Bytes
<1>5. LegacyLengths[at] = IF op \in 96 .. 127 THEN op - 94 ELSE 1
  BY <1>3 DEF LegacyLengths
<1>6. LengthAt(at) = IF op \in 96 .. 127 THEN op - 94
                     ELSE IF fork >= Amsterdam /\ Operand(op, b) THEN 2 ELSE 1
  BY <1>3, <1>4 DEF LengthAt
<1>7. CASE op \in 96 .. 127 \/ ~ (fork >= Amsterdam /\ Operand(op, b))
  BY <1>1, <1>3, <1>5, <1>6, <1>7
<1>8. CASE op \notin 96 .. 127 /\ fork >= Amsterdam /\ Operand(op, b)
  <2>1. b # 91 /\ b \notin 96 .. 127
    BY <1>8, OperandsAreOpaque
  <2> QED BY <1>1, <1>3, <1>4, <1>5, <1>6, <1>8, <2>1
<1> QED BY <1>7, <1>8

(* While the code stays, so do the starts.                                 *)
LEMMA StartsStay ==
    ASSUME UNCHANGED <<code, fork>>
    PROVE  /\ Starts(InstructionLengths)' = Starts(InstructionLengths)
           /\ Starts(LegacyLengths)' = Starts(LegacyLengths)
           /\ Len(code)' = Len(code)
           /\ \A i : code_slice_byte(i)' = code_slice_byte(i)
<1>1. code' = code /\ fork' = fork
  OBVIOUS
<1>2. InstructionLengths' = InstructionLengths /\ LegacyLengths' = LegacyLengths
  BY <1>1 DEF InstructionLengths, LegacyLengths, LengthAt, code_slice_byte
<1>3. /\ Starts(InstructionLengths)' = Starts(InstructionLengths)
      /\ Starts(LegacyLengths)' = Starts(LegacyLengths)
  <2> DEFINE Of(n, length) ==
               LET start[k \in 0 .. n] ==
                       k = 0 \/ \E p \in 0 .. k - 1 : p + length[p] = k /\ start[p]
               IN  {i \in 0 .. n - 1 : start[i]}
  <2>1. /\ Starts(InstructionLengths) = Of(Len(code), InstructionLengths)
        /\ Starts(LegacyLengths) = Of(Len(code), LegacyLengths)
    BY DEF Starts
  <2>2. /\ Starts(InstructionLengths)' = Of(Len(code'), InstructionLengths')
        /\ Starts(LegacyLengths)' = Of(Len(code'), LegacyLengths')
    BY DEF Starts
  <2> HIDE DEF Of
  <2> QED BY <1>1, <1>2, <2>1, <2>2
<1> QED BY <1>1, <1>3 DEF code_slice_byte

(* The scan goes from start to start, whichever way they are counted       *)
(* (analyze_code_from).                                                    *)
LEMMA ScanOnce ==
    ASSUME WalkInv, analyze_code_from
    PROVE  /\ scan' \in 0 .. Len(code)
           /\ \A length \in {InstructionLengths, LegacyLengths} :
                 /\ scan' < Len(code) => scan' \in Starts(length)
                 /\ table' = {i \in Starts(length) : i < scan' /\ code_slice_byte(i) = 91}
<1>1. PICK n \in Nat : n = Len(code)
  BY DEF WalkInv
<1>2. scan \in 0 .. n - 1 /\ code \in Seq(Byte)
  BY <1>1 DEF WalkInv, analyze_code_from
<1>3. /\ IsLength(InstructionLengths) /\ IsLength(LegacyLengths)
      /\ scan \in Starts(InstructionLengths) /\ scan \in Starts(LegacyLengths)
  BY <1>1, <1>2, LengthsAre DEF WalkInv, ScanOK
<1>4. PICK k \in Nat \ {0} : k = InstructionLengths[scan]
  BY <1>1, <1>2, <1>3 DEF IsLength
<1>5. /\ k = LengthAt(scan)
      /\ \/ k = LegacyLengths[scan]
         \/ /\ k = 2 /\ LegacyLengths[scan] = 1
            /\ code_slice_byte(scan + 1) # 91 /\ code_slice_byte(scan + 1) \notin 96 .. 127
  BY <1>1, <1>2, <1>4, ScanLengths
<1>6. scan' = IF n <= scan + k THEN n ELSE scan + k
  <2>1. ScanStep(code_slice_byte(scan), code_slice_byte(scan + 1)) = k
    BY <1>2, <1>5, ScanStepIs
  <2>2. scan' = Min({n, scan + k})
    BY <1>1, <2>1 DEF analyze_code_from
  <2> QED BY <1>2, <1>4, <2>2, MinIs
<1>7. /\ scan' \in 0 .. n /\ scan < scan' /\ scan' <= scan + k
      /\ (scan' = n \/ scan' = scan + k)
  BY <1>2, <1>4, <1>6
<1>8. table' = IF code_slice_byte(scan) = 91 THEN table \cup {scan} ELSE table
  BY DEF analyze_code_from
<1>9. /\ scan' < n => scan' \in Starts(InstructionLengths)
      /\ \A i \in Starts(InstructionLengths) : i < scan' <=> (i < scan \/ i = scan)
  BY <1>1, <1>3, <1>4, <1>7, NextStart
<1>10. /\ scan' < n => scan' \in Starts(LegacyLengths)
       /\ \A i \in Starts(LegacyLengths) : i < scan' /\ code_slice_byte(i) = 91
             <=> (i < scan \/ i = scan) /\ code_slice_byte(i) = 91
  <2>1. CASE k = LegacyLengths[scan]
    <3>1. /\ scan' < n => scan' \in Starts(LegacyLengths)
          /\ \A i \in Starts(LegacyLengths) : i < scan' <=> (i < scan \/ i = scan)
      BY <1>1, <1>3, <1>7, <2>1, NextStart
    <3> QED BY <3>1
  <2>2. CASE /\ k = 2 /\ LegacyLengths[scan] = 1
             /\ code_slice_byte(scan + 1) # 91 /\ code_slice_byte(scan + 1) \notin 96 .. 127
    <3>1. scan + 1 \in 0 .. n /\ scan \in Nat
      BY <1>2
    <3>2. /\ scan + 1 < n => scan + 1 \in Starts(LegacyLengths)
          /\ \A i \in Starts(LegacyLengths) : i < scan + 1 <=> (i < scan \/ i = scan)
      <4>1. scan + 1 = scan + LegacyLengths[scan] /\ scan < scan + 1
        BY <2>2, <3>1
      <4> QED BY <1>1, <1>3, <3>1, <4>1, NextStart
    <3>3. CASE scan + 1 = n
      <4>1. scan' = n
        BY <1>2, <1>6, <2>2, <3>3
      <4> QED BY <3>2, <3>3, <4>1
    <3>4. CASE scan + 1 < n
      <4>1. scan' = scan + 2
        <5>1. scan' = IF n <= scan + 2 THEN n ELSE scan + 2
          BY <1>6, <2>2
        <5> QED BY <3>1, <3>4, <5>1
      <4>2. LegacyLengths[scan + 1] = 1
        <5>1. scan + 1 \in 0 .. Len(code) - 1
          BY <1>1, <3>1, <3>4
        <5>2. LegacyLengths[scan + 1] =
                IF code_slice_byte(scan + 1) \in 96 .. 127
                THEN code_slice_byte(scan + 1) - 94 ELSE 1
          BY <1>2, <5>1, ScanLengths
        <5> QED BY <2>2, <5>2
      <4>3. /\ scan + 2 < n => scan + 2 \in Starts(LegacyLengths)
            /\ \A i \in Starts(LegacyLengths) : i < scan + 2 <=> (i < scan + 1 \/ i = scan + 1)
        <5>1. scan + 1 \in Starts(LegacyLengths) /\ scan + 2 \in 0 .. n
              /\ (scan + 1) + 1 = scan + 2
          BY <3>1, <3>2, <3>4
        <5> QED BY <1>1, <1>3, <3>1, <4>2, <5>1, NextStart
      <4> QED BY <2>2, <3>2, <4>1, <4>3
    <3> QED BY <3>1, <3>3, <3>4
  <2> QED BY <1>5, <2>1, <2>2
<1>11. table' = {i \in Starts(InstructionLengths) : i < scan' /\ code_slice_byte(i) = 91}
  <2>1. table = {i \in Starts(InstructionLengths) : i < scan /\ code_slice_byte(i) = 91}
    BY DEF WalkInv, ScanOK
  <2> QED BY <1>3, <1>8, <1>9, <2>1
<1>12. table' = {i \in Starts(LegacyLengths) : i < scan' /\ code_slice_byte(i) = 91}
  <2>1. table = {i \in Starts(LegacyLengths) : i < scan /\ code_slice_byte(i) = 91}
    BY DEF WalkInv, ScanOK
  <2> QED BY <1>3, <1>8, <1>10, <2>1
<1> QED BY <1>1, <1>7, <1>9, <1>10, <1>11, <1>12

-----------------------------------------------------------------------------
(* The frame keeps the invariant.                                          *)

(* What an instruction may do with the program counter.                    *)
Moves ==
    /\ UNCHANGED <<fixed, scan, table>>
    /\ \/ UNCHANGED <<pc, came>>
       \/ pc' = Here[1] /\ came' = "next"
       \/ pc' \in table /\ came' = "jump"

LEMMA HaltMoves ==
    ASSUME NEW kind, Halt(kind) PROVE Moves
BY DEF Halt, Moves

LEMMA FetchedMoves ==
    ASSUME NEW inputs, NEW outputs, NEW cost, NEW s, Fetched(inputs, outputs, cost, s) PROVE Moves
<1>1. CASE Fails(inputs, outputs, cost)
  BY <1>1, HaltMoves DEF Fetched
<1>2. CASE ~ Fails(inputs, outputs, cost)
  BY <1>2 DEF Fetched, Go, Moves
<1> QED BY <1>1, <1>2

(* A jump goes to a marked position or fails (jumpdest_ref_contains).      *)
LEMMA JumpMoves ==
    ASSUME NEW dest, NEW s, NEW cost, do_jump(dest, s, cost) PROVE Moves
<1>1. CASE jumpdest_ref_contains(dest)
  BY <1>1 DEF do_jump, jumpdest_ref_contains, Go, Moves
<1>2. CASE ~ jumpdest_ref_contains(dest)
  BY <1>2, HaltMoves DEF do_jump
<1> QED BY <1>1, <1>2

(* Every instruction moves so, and runs only once the scan is over.        *)
LEMMA InstructionsMove ==
    ASSUME WalkNext, ~ analyze_code_from
    PROVE  UNCHANGED walk \/ (Moves /\ scan = Len(code))
<1>1. CASE execute_stop
  BY <1>1, HaltMoves DEF execute_stop, Is
<1>2. CASE execute_invalid
  BY <1>2, HaltMoves DEF execute_invalid, Is
<1>3. CASE execute_jumpdest
  BY <1>3, FetchedMoves DEF execute_jumpdest, Is
<1>4. CASE execute_push
  BY <1>4, FetchedMoves DEF execute_push, Is
<1>5. CASE execute_calldatasize
  BY <1>5, FetchedMoves DEF execute_calldatasize, Is
<1>6. CASE execute_pc
  BY <1>6, FetchedMoves DEF execute_pc, Is
<1>7. CASE execute_jump
  BY <1>7, HaltMoves, JumpMoves DEF execute_jump, Is
<1>8. CASE execute_jumpi
  <2>1. CASE Fails(2, 0, 10)
    BY <1>8, <2>1, HaltMoves DEF execute_jumpi, Is
  <2>2. CASE ~ Fails(2, 0, 10) /\ Top(1) = 0
    BY <1>8, <2>2 DEF execute_jumpi, Is, Go, Moves
  <2>3. CASE ~ Fails(2, 0, 10) /\ Top(1) # 0
    BY <1>8, <2>3, JumpMoves DEF execute_jumpi, Is
  <2> QED BY <2>1, <2>2, <2>3
<1>9. CASE execute_dupn
  BY <1>9, HaltMoves, FetchedMoves DEF execute_dupn, Is
<1>10. CASE execute_swapn
  BY <1>10, HaltMoves, FetchedMoves DEF execute_swapn, Is
<1>11. CASE execute_exchange
  BY <1>11, HaltMoves, FetchedMoves DEF execute_exchange, Is
<1>12. CASE WalkEnded
  BY <1>12 DEF WalkEnded
<1> QED BY <1>1, <1>2, <1>3, <1>4, <1>5, <1>6, <1>7, <1>8, <1>9, <1>10, <1>11, <1>12 DEF WalkNext

(* Wherever it goes, it arrives at a start.                                *)
LEMMA MovesArrive ==
    ASSUME WalkInv, Moves, scan = Len(code)
    PROVE  AtStart(pc') /\ (came' = "jump" => code_slice_byte(pc') = 91)
<1>1. PICK n \in Nat : n = Len(code)
  BY DEF WalkInv
<1>2. /\ code \in Seq(Byte) /\ fork \in Nat /\ AtStart(pc)
      /\ (came = "jump" => code_slice_byte(pc) = 91)
  BY DEF WalkInv, WalkOK
<1>3. CASE UNCHANGED <<pc, came>>
  BY <1>2, <1>3
<1>4. CASE pc' = Here[1] /\ came' = "next"
  <2>1. pc \in Nat /\ (pc < n => pc \in Starts(InstructionLengths))
    BY <1>1, <1>2 DEF AtStart
  <2>2. pc' = IF pc < n THEN pc + LengthAt(pc) ELSE pc
    BY <1>1, <1>2, <1>4, <2>1, FetchAdvances DEF Here
  <2>3. CASE pc < n
    <3>1. IsLength(InstructionLengths) /\ InstructionLengths[pc] = LengthAt(pc)
      BY <1>1, <1>2, <2>1, <2>3, LengthsAre, ScanLengths
    <3>2. PICK k \in Nat \ {0} : k = InstructionLengths[pc]
      BY <1>1, <2>1, <2>3, <3>1 DEF IsLength
    <3>3. pc + InstructionLengths[pc] < n =>
             pc + InstructionLengths[pc] \in Starts(InstructionLengths)
      BY <1>1, <2>1, <2>3, <3>1, StartsChain
    <3>4. pc' = pc + k
      BY <2>2, <2>3, <3>1, <3>2
    <3> QED BY <1>1, <1>4, <2>1, <3>2, <3>3, <3>4 DEF AtStart
  <2>4. CASE ~ (pc < n)
    BY <1>2, <1>4, <2>2, <2>4
  <2> QED BY <2>3, <2>4
<1>5. CASE pc' \in table /\ came' = "jump"
  <2>1. pc' \in Starts(InstructionLengths) /\ code_slice_byte(pc') = 91
    BY <1>5 DEF WalkInv, ScanOK
  <2>2. Starts(InstructionLengths) \subseteq 0 .. n - 1
    BY <1>1, <1>2, LengthsAre, StartsChain
  <2> QED BY <2>1, <2>2 DEF AtStart
<1> QED BY <1>3, <1>4, <1>5 DEF Moves

(* The invariant holds of every walk.                                      *)
THEOREM WalkInvariant == WalkSpec => []WalkInv
<1>1. WalkInit => WalkInv
  <2> SUFFICES ASSUME WalkInit PROVE WalkInv
    OBVIOUS
  <2>1. code \in Seq(Byte) /\ fork \in Nat /\ scan = 0 /\ table = {} /\ pc = 0 /\ came = "entry"
    BY CodeWalkAssumption DEF WalkInit, WalkStart
  <2>2. PICK n \in Nat : n = Len(code)
    BY <2>1
  <2>3. \A length \in {InstructionLengths, LegacyLengths} :
           (0 < n => 0 \in Starts(length)) /\ Starts(length) \subseteq Nat
    <3>1. \A length \in {InstructionLengths, LegacyLengths} :
             (0 < n => 0 \in Starts(length)) /\ Starts(length) \subseteq 0 .. n - 1
      BY <2>1, <2>2, LengthsAre, StartsChain
    <3> QED BY <3>1
  <2>4. ScanOK(InstructionLengths) /\ ScanOK(LegacyLengths)
    BY <2>1, <2>2, <2>3 DEF ScanOK
  <2> QED BY <2>1, <2>2, <2>3, <2>4 DEF WalkInv, WalkOK, AtStart
<1>2. WalkInv /\ [WalkNext]_walk => WalkInv'
  <2> SUFFICES ASSUME WalkInv, [WalkNext]_walk PROVE WalkInv'
    OBVIOUS
  <2>1. CASE analyze_code_from
    <3>1. UNCHANGED <<code, fork>> /\ UNCHANGED <<pc, came>>
      BY <2>1 DEF analyze_code_from, fixed
    <3>2. ScanOK(InstructionLengths)' /\ ScanOK(LegacyLengths)'
      BY <2>1, <3>1, ScanOnce, StartsStay DEF ScanOK
    <3>3. WalkOK'
      BY <3>1, StartsStay DEF WalkInv, WalkOK, AtStart
    <3> QED BY <2>1, <3>1, <3>2, <3>3, ScanOnce, StartsStay DEF WalkInv
  <2>2. CASE Moves /\ scan = Len(code)
    <3>1. UNCHANGED <<code, fork, scan, table>>
      BY <2>2 DEF Moves, fixed
    <3>2. ScanOK(InstructionLengths)' /\ ScanOK(LegacyLengths)'
      BY <3>1, StartsStay DEF WalkInv, ScanOK
    <3>3. AtStart(pc') /\ (came' = "jump" => code_slice_byte(pc') = 91)
      BY <2>2, MovesArrive
    <3>4. WalkOK'
      BY <3>1, <3>3, StartsStay DEF WalkOK, AtStart
    <3> QED BY <3>1, <3>2, <3>4, StartsStay DEF WalkInv
  <2>3. CASE UNCHANGED walk
    <3>1. UNCHANGED <<code, fork, scan, table, pc, came>>
      BY <2>3 DEF walk
    <3>2. ScanOK(InstructionLengths)' /\ ScanOK(LegacyLengths)'
      BY <3>1, StartsStay DEF WalkInv, ScanOK
    <3>3. WalkOK'
      BY <3>1, StartsStay DEF WalkInv, WalkOK, AtStart
    <3> QED BY <3>1, <3>2, <3>3, StartsStay DEF WalkInv
  <2> QED BY <2>1, <2>2, <2>3, InstructionsMove
<1>3. QED BY <1>1, <1>2, PTL DEF WalkSpec

(* Only starts of instructions are executed, jumps arrive at JUMPDESTs     *)
(* that are instructions, and every such JUMPDEST, by either count, can be *)
(* jumped to, for every code and fork (analyze_code_from, fetch, do_jump). *)
THEOREM JumpsLand == WalkSpec => []JumpsLandOnInstructions
<1>1. WalkInv => JumpsLandOnInstructions
  <2> SUFFICES ASSUME WalkInv, scan = Len(code)
               PROVE  /\ table = Jumpdests(Starts(InstructionLengths))
                      /\ table = Jumpdests(Starts(LegacyLengths))
                      /\ status = "running" /\ pc < Len(code) => pc \in Starts(InstructionLengths)
                      /\ came = "jump" => code_slice_byte(pc) = 91
    BY DEF JumpsLandOnInstructions
  <2>1. PICK n \in Nat : n = Len(code)
    BY DEF WalkInv
  <2>2. ASSUME NEW length, IsLength(length), ScanOK(length) PROVE table = Jumpdests(Starts(length))
    <3>1. Starts(length) \subseteq 0 .. n - 1
      BY <2>1, <2>2, StartsChain
    <3>2. table = {i \in Starts(length) : i < n /\ code_slice_byte(i) = 91}
      BY <2>1, <2>2 DEF ScanOK
    <3> QED BY <3>1, <3>2 DEF Jumpdests
  <2>3. IsLength(InstructionLengths) /\ IsLength(LegacyLengths)
    BY LengthsAre DEF WalkInv
  <2> QED BY <2>2, <2>3 DEF WalkInv, WalkOK, AtStart
<1> QED BY <1>1, WalkInvariant, PTL

-----------------------------------------------------------------------------
(* Arithmetic.                                                             *)

(* Quotient and remainder (memory_word_count, mem_cost).                   *)
LEMMA Division ==
    ASSUME NEW n \in Nat, NEW d \in Nat, d > 0
    PROVE  n \div d \in Nat /\ n % d \in Nat /\ n % d < d /\ n = d * (n \div d) + (n % d)
  OBVIOUS

(* A product grows with either factor.                                     *)
LEMMA Growing ==
    ASSUME NEW a \in Nat, NEW b \in Nat, NEW c \in Nat, a <= b
    PROVE  a * c \in Nat /\ b * c \in Nat /\ a * c <= b * c /\ c * a = a * c /\ c * b = b * c
  OBVIOUS

(* A quotient is known by its remainder.                                   *)
LEMMA Quotient ==
    ASSUME NEW n \in Nat, NEW d \in Nat, d > 0, NEW q \in Nat, NEW r \in Nat,
           r < d, n = d * q + r
    PROVE  n \div d = q
<1>1. PICK p \in Nat : p = n \div d
  BY Division
<1>2. PICK s \in Nat : s = n % d
  BY Division
<1>3. s < d /\ n = d * p + s
  BY <1>1, <1>2, Division
<1>4. CASE p < q
  <2>1. (p + 1) * d <= q * d
    BY <1>4, Growing
  <2> QED BY <2>1, <1>3
<1>5. CASE q < p
  <2>1. (q + 1) * d <= p * d
    BY <1>5, Growing
  <2> QED BY <2>1, <1>3
<1> QED BY <1>1, <1>4, <1>5

(* Words of a memory, as the EIPs round up.                                *)
LEMMA WordCount ==
    ASSUME NEW n \in Nat
    PROVE  memory_word_count(n) \in Nat /\ memory_word_count(n) = CeilDiv(n, WordBytes)
<1>1. WordBytes \in Nat /\ WordBytes > 0
  BY GasFormulasAssumption
<1> DEFINE q == n \div WordBytes
           r == n % WordBytes
<1>2. q \in Nat /\ r \in Nat /\ r < WordBytes /\ n = WordBytes * q + r
  BY <1>1, Division
<1> HIDE DEF q, r
<1>3. CASE r = 0
  <2>1. n + WordBytes - 1 \in Nat /\ n + WordBytes - 1 = WordBytes * q + (WordBytes - 1)
    BY <1>1, <1>2, <1>3
  <2>2. (n + WordBytes - 1) \div WordBytes = q
    BY <2>1, <1>1, <1>2, Quotient
  <2> QED BY <2>2, <1>2, <1>3 DEF memory_word_count, CeilDiv, q, r
<1>4. CASE r # 0
  <2>1. n + WordBytes - 1 \in Nat /\ n + WordBytes - 1 = WordBytes * (q + 1) + (r - 1)
    BY <1>1, <1>2, <1>4
  <2>2. (n + WordBytes - 1) \div WordBytes = q + 1
    BY <2>1, <1>1, <1>2, <1>4, Quotient
  <2> QED BY <2>2, <1>2, <1>4 DEF memory_word_count, CeilDiv, q, r
<1> QED BY <1>3, <1>4

(* A higher memory has no fewer words (memory_word_count).                 *)
LEMMA WordCountGrows ==
    ASSUME NEW n \in Nat, NEW m \in Nat, n <= m
    PROVE  memory_word_count(n) <= memory_word_count(m)
<1>1. WordBytes \in Nat /\ WordBytes > 0
  BY GasFormulasAssumption
<1> DEFINE a == n \div WordBytes
           b == m \div WordBytes
           r == n % WordBytes
           s == m % WordBytes
<1>2. a \in Nat /\ r \in Nat /\ r < WordBytes /\ n = WordBytes * a + r
  BY <1>1, Division
<1>3. b \in Nat /\ s \in Nat /\ s < WordBytes /\ m = WordBytes * b + s
  BY <1>1, Division
<1> HIDE DEF a, b, r, s
<1>4. a <= b
  <2>1. SUFFICES ASSUME b + 1 <= a PROVE FALSE
    BY <1>2, <1>3
  <2>2. (b + 1) * WordBytes <= a * WordBytes
    BY <2>1, <1>1, <1>2, <1>3, Growing
  <2> QED BY <2>2, <1>1, <1>2, <1>3
<1>5. a = b => r <= s
  BY <1>1, <1>2, <1>3
<1>6. memory_word_count(n) = a + (IF r = 0 THEN 0 ELSE 1)
  BY DEF memory_word_count, a, r
<1>7. memory_word_count(m) = b + (IF s = 0 THEN 0 ELSE 1)
  BY DEF memory_word_count, b, s
<1> QED BY <1>2, <1>3, <1>4, <1>5, <1>6, <1>7

(* The larger of two numbers.                                              *)
LEMMA MaxOfTwo ==
    ASSUME NEW a \in Int, NEW b \in Int
    PROVE  Max({a, b}) = IF a >= b THEN a ELSE b
<1> DEFINE m == IF a >= b THEN a ELSE b
           Largest(x) == x \in {a, b} /\ \A y \in {a, b} : x >= y
<1>1. Largest(m) /\ \A x : Largest(x) => x = m
  OBVIOUS
<1>2. Max({a, b}) = CHOOSE x \in {a, b} : \A y \in {a, b} : x >= y
  BY DEF Max
<1> QED BY <1>1, <1>2

-----------------------------------------------------------------------------
(* Charges against prices.                                                 *)

(* What a charge should be: the price, when it is within the gas at hand.  *)
Exact(price, available) ==
    IF price <= available THEN gas_charge(price) ELSE GAS_CHARGE_UNAFFORDABLE

(* Leaving early when there are more units than gas changes nothing        *)
(* (word_scaled_gas_cost).                                                 *)
LEMMA ScaledExact ==
    ASSUME NEW per_unit \in Nat, NEW units \in Nat, NEW available \in Nat
    PROVE  word_scaled_gas_cost(per_unit, units, available) = Exact(per_unit * units, available)
<1>1. per_unit * units \in Nat
  OBVIOUS
<1>2. CASE per_unit = 0 \/ units = 0
  <2>1. per_unit * units = 0
    BY <1>2
  <2> QED BY <1>2, <2>1 DEF word_scaled_gas_cost, Exact
<1>3. CASE per_unit # 0 /\ units # 0
  <2>1. 1 * units <= per_unit * units
    BY <1>3, Growing
  <2>2. units > available => per_unit * units > available
    BY <2>1, <1>1
  <2> QED BY <1>3, <2>2 DEF word_scaled_gas_cost, Exact
<1> QED BY <1>2, <1>3

(* Nor does it after a fixed part has been set aside (log_gas_cost).       *)
LEMMA FixedAndScaledExact ==
    ASSUME NEW first_part \in Nat, NEW per_unit \in Nat, NEW units \in Nat, NEW available \in Nat
    PROVE  FixedAndScaled(first_part, per_unit, units, available)
             = Exact(first_part + per_unit * units, available)
<1>1. PICK cost \in Nat : cost = per_unit * units
  OBVIOUS
<1>2. CASE first_part > available
  BY <1>1, <1>2 DEF FixedAndScaled, Exact
<1>3. CASE first_part <= available
  <2>1. available - first_part \in Nat
    BY <1>3
  <2>2. word_scaled_gas_cost(per_unit, units, available - first_part) = Exact(cost, available - first_part)
    BY <2>1, <1>1, ScaledExact
  <2>3. cost <= available - first_part <=> first_part + cost <= available
    BY <1>1
  <2> DEFINE variable == word_scaled_gas_cost(per_unit, units, available - first_part)
  <2>4. FixedAndScaled(first_part, per_unit, units, available)
          = IF ~variable.affordable THEN GAS_CHARGE_UNAFFORDABLE
            ELSE gas_charge(first_part + variable.cost)
    BY <1>3 DEF FixedAndScaled
  <2> HIDE DEF variable
  <2>5. CASE first_part + cost <= available
    <3>1. variable = gas_charge(cost)
      BY <2>2, <2>3, <2>5 DEF variable, Exact
    <3>2. variable.affordable /\ variable.cost = cost
      BY <3>1 DEF gas_charge
    <3> QED BY <1>1, <2>4, <2>5, <3>2 DEF Exact
  <2>6. CASE ~(first_part + cost <= available)
    <3>1. variable = GAS_CHARGE_UNAFFORDABLE
      BY <2>2, <2>3, <2>6 DEF variable, Exact
    <3>2. ~variable.affordable
      BY <3>1 DEF GAS_CHARGE_UNAFFORDABLE
    <3> QED BY <1>1, <2>4, <2>6, <3>2 DEF Exact
  <2> QED BY <2>5, <2>6
<1> QED BY <1>2, <1>3

(* Dividing the gas at hand instead of multiplying the length is the same  *)
(* (code_deployment_execution_cost).                                       *)
LEMMA DepositExact ==
    ASSUME NEW amsterdam \in BOOLEAN, NEW len \in Nat, NEW available \in Nat
    PROVE  /\ amsterdam =>
                 code_deployment_execution_cost(amsterdam, len, available)
                   = IF len <= CodeSizeLimit
                     THEN Exact(G_keccak_word * memory_word_count(len), available)
                     ELSE GAS_CHARGE_UNAFFORDABLE
           /\ ~amsterdam =>
                 code_deployment_execution_cost(amsterdam, len, available)
                   = Exact(G_codedeposit * len, available)
<1>1. PICK words \in Nat : words = memory_word_count(len)
  BY WordCount
<1>2. words <= available \div 6 <=> 6 * words <= available
  BY Z3
<1>3. len <= available \div 200 <=> 200 * len <= available
  BY Z3
<1> QED BY <1>1, <1>2, <1>3
        DEF code_deployment_execution_cost, Exact, G_keccak_word, G_codedeposit

(* Thousands of pairs first, the rest after: no gas is lost in between.    *)
PairsPrice(discounts, base, k) ==
    IF k = 0 THEN 0 ELSE (k * base * Discount(discounts, k)) \div 1000

(* That is the price of the EIP (bls_msm_gas).                             *)
LEMMA PairsExact ==
    ASSUME NEW discounts \in Seq(Nat) \ {<<>>}, NEW base \in Nat, NEW k \in Nat,
           NEW available \in Nat
    PROVE  /\ PairsPrice(discounts, base, k) \in Nat
           /\ bls_msm_gas(discounts, base, discounts[Len(discounts)], k, available)
                = Exact(PairsPrice(discounts, base, k), available)
<1> DEFINE discount == IF k < Len(discounts) THEN discounts[k] ELSE discounts[Len(discounts)]
<1>1. CASE k = 0
  BY <1>1 DEF bls_msm_gas, Exact, PairsPrice
<1>2. CASE k # 0
  <2>1. discount \in Nat /\ discount = Discount(discounts, k)
    BY <1>2 DEF Discount
  <2> HIDE DEF discount
  <2>2. PICK c \in Nat : c = base * discount
    BY <2>1
  <2>3. PICK q \in Nat, r \in Nat : q = k \div 1000 /\ r = k % 1000 /\ k = 1000 * q + r
    BY Z3
  <2>4. PICK p \in Nat, s \in Nat : p = (c * r) \div 1000 /\ s < 1000 /\ c * r = 1000 * p + s
    <3>1. c * r \in Nat
      OBVIOUS
    <3> QED BY <3>1, Division
  <2>5. k * base * discount = 1000 * (c * q + p) + s
    <3>1. k * base * discount = k * c
      BY <2>1, <2>2
    <3>2. k * c = 1000 * (c * q) + c * r
      BY <2>3
    <3> QED BY <3>1, <3>2, <2>4
  <2>6. c * q + p \in Nat /\ k * base * discount \in Nat
    <3>1. PICK x \in Nat, y \in Nat : x = c * q /\ y = k * base
      OBVIOUS
    <3>2. y * discount \in Nat
      BY <2>1
    <3> QED BY <3>1, <3>2
  <2>7. (k * base * discount) \div 1000 = c * q + p
    BY <2>4, <2>5, <2>6, Quotient
  <2>8. c * q <= c * q + p
    BY <2>4
  <2> DEFINE major == c * q
             total == major + p
  <2>9. bls_msm_gas(discounts, base, discounts[Len(discounts)], k, available)
          = IF major <= available /\ total <= available
            THEN gas_charge(total) ELSE GAS_CHARGE_UNAFFORDABLE
    <3>1. bls_msm_gas(discounts, base, discounts[Len(discounts)], k, available)
            = LET whole == (base * discount) * (k \div 1000)
                  all == whole + ((base * discount) * (k % 1000)) \div 1000
              IN  IF whole <= available /\ all <= available
                  THEN gas_charge(all) ELSE GAS_CHARGE_UNAFFORDABLE
      BY <1>2, Zenon DEF bls_msm_gas, discount
    <3>2. (base * discount) * (k \div 1000) = major
      BY <2>2, <2>3
    <3>3. ((base * discount) * (k % 1000)) \div 1000 = p
      BY <2>2, <2>3, <2>4
    <3> HIDE DEF major
    <3> QED BY <3>1, <3>2, <3>3
  <2>10. major \in Nat /\ total \in Nat /\ major <= total
    BY <2>8
  <2>12. (k * base * Discount(discounts, k)) \div 1000 = total
    BY <2>1, <2>7
  <2> HIDE DEF major
  <2>11. bls_msm_gas(discounts, base, discounts[Len(discounts)], k, available) = Exact(total, available)
    BY <2>9, <2>10 DEF Exact
  <2> HIDE DEF total
  <2> QED BY <1>2, <2>10, <2>11, <2>12 DEF PairsPrice
<1> QED BY <1>1, <1>2

(* The reference forms of the two MODEXP prices: multiplication complexity *)
(* times iterations.                                                       *)
Extra(in) == IF in.el <= 32 THEN 0 ELSE in.el - 32
High(in) == LET bits == pc_word_after_declared_field(in) IN IF bits = 0 THEN 0 ELSE bits - 1
Squarings(rate, in) == rate * Extra(in) + High(in)
Larger(in) == IF in.bl >= in.ml THEN in.bl ELSE in.ml

ModexpNumbers(in) == {in.bl, in.el, in.ml, in.len, in.bits} \subseteq Nat

(* The parts of both prices (modexp_gas).                                  *)
LEMMA ModexpFacts ==
    ASSUME NEW in, ModexpNumbers(in)
    PROVE  /\ Extra(in) \in Nat /\ High(in) \in Nat /\ Larger(in) \in Nat
           /\ Max({in.bl, in.ml}) = Larger(in)
           /\ ModexpWords(in) \in Nat
           /\ ModexpWords(in) = CeilDiv(Larger(in), 8)
           /\ ModexpWords(in) = 0 <=> Larger(in) = 0
           /\ Larger(in) <= 32 => ModexpWords(in) <= 4
<1>1. in.bl \in Nat /\ in.el \in Nat /\ in.ml \in Nat /\ in.len \in Nat /\ in.bits \in Nat
  BY DEF ModexpNumbers
<1>2. pc_word_after_declared_field(in) \in Nat
  BY <1>1 DEF pc_word_after_declared_field, Header
<1>3. Extra(in) \in Nat /\ High(in) \in Nat /\ Larger(in) \in Nat
  BY <1>1, <1>2 DEF Extra, High, Larger
<1>4. Max({in.bl, in.ml}) = Larger(in)
  BY <1>1, MaxOfTwo DEF Larger
<1>5. ModexpWords(in) = (Larger(in) + 7) \div 8
  BY <1>4 DEF ModexpWords
<1>6. ModexpWords(in) \in Nat
  BY <1>3, <1>5
<1>7. ModexpWords(in) = CeilDiv(Larger(in), 8)
  <2>1. Larger(in) + 7 = Larger(in) + 8 - 1
    BY <1>3
  <2> QED BY <1>5, <2>1 DEF CeilDiv
<1>8. ModexpWords(in) = 0 <=> Larger(in) = 0
  BY <1>3, <1>5
<1>9. Larger(in) <= 32 => ModexpWords(in) <= 4
  BY <1>3, <1>5
<1> QED BY <1>3, <1>4, <1>6, <1>7, <1>8, <1>9

(* The iterations are counted alike, and never zero.                       *)
LEMMA IterationFacts ==
    ASSUME NEW in, ModexpNumbers(in), NEW osaka \in BOOLEAN,
           NEW rate \in Nat, osaka => rate = 16, ~osaka => rate = 8
    PROVE  /\ Squarings(rate, in) \in Nat
           /\ ModexpIterations(osaka, in) \in Nat \ {0}
           /\ ModexpIterations(osaka, in) >= rate * Extra(in)
           /\ ModexpIterations(osaka, in) = Max({Squarings(rate, in), 1})
<1> DEFINE n == Squarings(rate, in)
<1>1. ModexpIterations(osaka, in) = IF n = 0 THEN 1 ELSE n
  BY Zenon DEF ModexpIterations, Squarings, Extra, High
<1>2. PICK e \in Nat, h \in Nat : e = Extra(in) /\ h = High(in)
  BY ModexpFacts
<1>3. n \in Nat /\ n >= rate * e /\ rate * e \in Nat
  BY <1>2 DEF Squarings
<1> HIDE DEF n
<1>4. Max({n, 1}) = IF n >= 1 THEN n ELSE 1
  BY <1>3, MaxOfTwo
<1> DEFINE i == ModexpIterations(osaka, in)
<1>5. i = IF n = 0 THEN 1 ELSE n
  BY <1>1
<1> HIDE DEF i
<1>6. i \in Nat \ {0} /\ i >= rate * e /\ i = Max({n, 1})
  BY <1>3, <1>4, <1>5
<1> QED BY <1>2, <1>3, <1>6, Zenon DEF n, i

(* Before Osaka: a third of the product, and no less than 200.             *)
LEMMA Eip2565Exact ==
    ASSUME NEW in, ModexpNumbers(in), NEW available \in Nat
    PROVE  /\ Eip2565(in) \in Nat
           /\ modexp_gas(FALSE, in, available) = Exact(Eip2565(in), available)
<1> DEFINE n == Squarings(8, in)
           charge == modexp_gas(FALSE, in, available)
<1>1. PICK w \in Nat : w = ModexpWords(in)
  BY ModexpFacts
<1>2. PICK i \in Nat \ {0} : /\ i = ModexpIterations(FALSE, in) /\ i = Max({n, 1})
                             /\ i >= 8 * Extra(in)
  <2>1. FALSE \in BOOLEAN /\ 8 \in Nat
    OBVIOUS
  <2>2. /\ ModexpIterations(FALSE, in) \in Nat \ {0}
        /\ ModexpIterations(FALSE, in) >= 8 * Extra(in)
        /\ ModexpIterations(FALSE, in) = Max({n, 1})
    BY <2>1, IterationFacts, Zenon
  <2> QED BY <2>2, Zenon
<1>3. PICK x \in Nat : x = Extra(in)
  BY ModexpFacts
<1>4. PICK m \in Nat : m = w * w
  OBVIOUS
<1>5. PICK product \in Nat : product = m * i
  OBVIOUS
<1>6. PICK third \in Nat : third = product \div 3 /\ 3 * third <= product /\ product < 3 * third + 3
  BY Z3
<1>15. PICK cost \in Nat : cost = Max({200, third}) /\ cost >= 200 /\ cost >= third
                              /\ (cost = 200 \/ cost = third)
  BY MaxOfTwo
<1>7. Eip2565(in) = cost
  <2> DEFINE words == CeilDiv(Max({in.bl, in.ml}), 8)
             count == IF in.el <= 32 THEN High(in) ELSE 8 * (in.el - 32) + High(in)
  <2>1. count = n
    <3>1. in.el \in Nat
      BY DEF ModexpNumbers
    <3>2. PICK h \in Nat : h = High(in)
      BY ModexpFacts
    <3> QED BY <3>1, <3>2 DEF Extra, Squarings
  <2>2. words = w
    BY <1>1, ModexpFacts
  <2>3. Eip2565(in) = Max({200, (Square(words) * Max({count, 1})) \div 3})
    BY Zenon DEF Eip2565, High, pc_word_after_declared_field
  <2>4. Square(w) = m
    BY <1>4 DEF Square
  <2> HIDE DEF n, words, count
  <2>5. Square(words) * Max({count, 1}) = product
    BY <2>1, <2>2, <2>4, <1>2, <1>5, Zenon
  <2> QED BY <2>3, <2>5, <1>6, <1>15, Zenon
<1>14. PICK limit \in Nat : limit = 3 * available + 2
  OBVIOUS
<1>9. charge
        = IF available < 200 THEN GAS_CHARGE_UNAFFORDABLE
          ELSE IF in.bl = 0 /\ in.ml = 0 THEN gas_charge(200)
          ELSE IF w > limit \/ m > limit \/ x > limit \div 8 \/ product > limit \/ cost > available
          THEN GAS_CHARGE_UNAFFORDABLE
          ELSE gas_charge(cost)
  <2> DEFINE mult == ModexpWords(in) * ModexpWords(in)
             all == mult * ModexpIterations(FALSE, in)
             part == all \div 3
             bound == 3 * available + 2
             Cut == ModexpUnaffordable(FALSE, in, available, bound)
             CutOff == w > limit \/ m > limit \/ x > limit \div 8
  <2>1. charge
        = IF available < 200 THEN GAS_CHARGE_UNAFFORDABLE
          ELSE IF in.bl = 0 /\ in.ml = 0 THEN gas_charge(200)
          ELSE IF Cut \/ mult > bound \/ all > bound \/ Max({200, part}) > available
          THEN GAS_CHARGE_UNAFFORDABLE
          ELSE gas_charge(Max({200, part}))
    BY ZenonT(120) DEF modexp_gas
  <2>2. mult = m
    BY <1>1, <1>4
  <2>3. bound = limit
    BY <1>14
  <2>4. Cut <=> CutOff
    <3> HIDE DEF bound
    <3>1. ModexpWords(in) * ModexpWords(in) = m
      BY <1>1, <1>4
    <3> QED BY <1>1, <1>3, <2>3, <3>1, Zenon DEF ModexpUnaffordable, Extra
  <2>5. all = product
    <3> HIDE DEF mult
    <3> QED BY <1>2, <1>5, <2>2
  <2> HIDE DEF charge, mult, all, bound, Cut
  <2>6. part = third
    BY <1>6, <2>5
  <2> HIDE DEF part, CutOff
  <2>7. charge
        = IF available < 200 THEN GAS_CHARGE_UNAFFORDABLE
          ELSE IF in.bl = 0 /\ in.ml = 0 THEN gas_charge(200)
          ELSE IF CutOff \/ m > limit \/ product > limit \/ cost > available
          THEN GAS_CHARGE_UNAFFORDABLE
          ELSE gas_charge(cost)
    BY <2>1, <2>2, <2>3, <2>4, <2>5, <2>6, <1>15
  <2> QED BY <2>7, Zenon DEF CutOff
<1> HIDE DEF charge
<1>10. product > limit <=> third > available
  BY <1>6, <1>14
<1>11. x > limit \div 8 => i > limit
  <2>1. i >= 8 * x
    BY <1>2, <1>3
  <2> QED BY <2>1
<1> SUFFICES cost \in Nat /\ charge = Exact(cost, available)
  BY <1>7 DEF charge
<1>12. CASE w = 0
  <2>1. in.bl = 0 /\ in.ml = 0
    <3>1. Larger(in) = 0 /\ in.bl \in Nat /\ in.ml \in Nat
      BY <1>1, <1>12, ModexpFacts DEF ModexpNumbers
    <3> QED BY <3>1 DEF Larger
  <2>2. third = 0
    BY <1>4, <1>5, <1>6, <1>12
  <2> QED BY <1>7, <1>9, <1>15, <2>1, <2>2 DEF Exact
<1>13. CASE w # 0
  <2>1. ~(in.bl = 0 /\ in.ml = 0)
    BY <1>1, <1>13, ModexpFacts DEF Larger
  <2>2. 1 * w <= w * w
    BY <1>13, Growing
  <2>3. 1 * m <= i * m /\ i * m = m * i
    BY Growing
  <2>4. 1 * i <= m * i
    BY <1>4, <1>13, <2>2, Growing
  <2>5. w <= product /\ m <= product /\ i <= product
    BY <1>4, <1>5, <2>2, <2>3, <2>4
  <2>6. (w > limit \/ m > limit \/ x > limit \div 8 \/ product > limit) <=> third > available
    BY <2>5, <1>10, <1>11
  <2> QED BY <1>7, <1>9, <1>15, <2>1, <2>6 DEF Exact
<1> QED BY <1>12, <1>13

(* From Osaka on: twice the product for long operands, no less than 500,   *)
(* and nothing beyond the bound of EIP-7823.                               *)
LEMMA Eip7883Exact ==
    ASSUME NEW in, ModexpNumbers(in), NEW available \in Nat
    PROVE  /\ Eip7883(in) \in Nat
           /\ modexp_gas(TRUE, in, available)
                = IF Max({in.bl, in.el, in.ml}) > ModexpBound THEN GAS_CHARGE_UNAFFORDABLE
                  ELSE Exact(Eip7883(in), available)
<1> DEFINE n == Squarings(16, in)
           charge == modexp_gas(TRUE, in, available)
           TooLong == Max({in.bl, in.el, in.ml}) > ModexpBound
<1>1. PICK w \in Nat : w = ModexpWords(in)
  BY ModexpFacts
<1>2. PICK i \in Nat \ {0} : /\ i = ModexpIterations(TRUE, in) /\ i = Max({n, 1})
                             /\ i >= 16 * Extra(in)
  <2>1. TRUE \in BOOLEAN /\ 16 \in Nat
    OBVIOUS
  <2>2. /\ ModexpIterations(TRUE, in) \in Nat \ {0}
        /\ ModexpIterations(TRUE, in) >= 16 * Extra(in)
        /\ ModexpIterations(TRUE, in) = Max({n, 1})
    BY <2>1, IterationFacts, Zenon
  <2> QED BY <2>2, Zenon
<1>3. PICK x \in Nat : x = Extra(in)
  BY ModexpFacts
<1>4. PICK bytes \in Nat : bytes = Larger(in) /\ bytes = Max({in.bl, in.ml})
  BY ModexpFacts
<1>5. PICK square \in Nat : square = w * w
  OBVIOUS
<1>6. PICK m \in Nat : m = IF bytes <= 32 THEN 16 ELSE 2 * w * w
  OBVIOUS
<1>7. PICK product \in Nat : product = m * i
  OBVIOUS
<1>8. PICK cost \in Nat : cost = Max({500, product}) /\ cost >= 500 /\ cost >= product
                              /\ (cost = 500 \/ cost = product)
  BY MaxOfTwo
<1>9. Eip7883(in) = cost
  <2> DEFINE mult == IF Max({in.bl, in.ml}) <= 32 THEN 16
                     ELSE 2 * Square(CeilDiv(Max({in.bl, in.ml}), 8))
             count == IF in.el <= 32 THEN High(in) ELSE 16 * (in.el - 32) + High(in)
  <2>1. Eip7883(in) = Max({500, mult * Max({count, 1})})
    BY Zenon DEF Eip7883, High, pc_word_after_declared_field
  <2>2. count = n
    <3>1. in.el \in Nat
      BY DEF ModexpNumbers
    <3>2. PICK h \in Nat : h = High(in)
      BY ModexpFacts
    <3> QED BY <3>1, <3>2 DEF Extra, Squarings
  <2>3. mult = m
    <3>1. CeilDiv(bytes, 8) = w
      BY <1>1, <1>4, ModexpFacts
    <3>2. 2 * Square(w) = 2 * w * w
      BY DEF Square
    <3> QED BY <1>4, <1>6, <3>1, <3>2
  <2> HIDE DEF n, mult, count
  <2>4. mult * Max({count, 1}) = product
    BY <2>2, <2>3, <1>2, <1>7, Zenon
  <2> QED BY <2>1, <2>4, <1>8, Zenon
<1>10. charge
        = IF TooLong \/ available < 500 THEN GAS_CHARGE_UNAFFORDABLE
          ELSE IF \/ w > available \/ square > available
                  \/ bytes > 32 /\ square > available \div 2
                  \/ x > available \div 16
                  \/ m > available \/ product > available \/ cost > available
          THEN GAS_CHARGE_UNAFFORDABLE
          ELSE gas_charge(cost)
  <2> DEFINE mult == IF Max({in.bl, in.ml}) <= 32 THEN 16
                     ELSE 2 * ModexpWords(in) * ModexpWords(in)
             all == mult * ModexpIterations(TRUE, in)
             Cut == ModexpUnaffordable(TRUE, in, available, available)
             CutOff == \/ w > available \/ square > available
                       \/ bytes > 32 /\ square > available \div 2
                       \/ x > available \div 16
  <2>1. mult = m
    BY <1>1, <1>4, <1>6
  <2>2. Cut <=> CutOff
    <3>1. ModexpWords(in) * ModexpWords(in) = square
      BY <1>1, <1>5
    <3> QED BY <1>1, <1>3, <1>4, <3>1, Zenon DEF ModexpUnaffordable, Extra
  <2>3. charge
        = IF TooLong \/ available < 500 THEN GAS_CHARGE_UNAFFORDABLE
          ELSE IF Cut \/ mult > available \/ all > available \/ Max({500, all}) > available
          THEN GAS_CHARGE_UNAFFORDABLE
          ELSE gas_charge(Max({500, all}))
    BY ZenonT(120) DEF modexp_gas
  <2>4. all = product
    <3> HIDE DEF mult
    <3> QED BY <1>2, <1>7, <2>1
  <2> HIDE DEF charge, TooLong, mult, all, Cut, CutOff
  <2>5. charge
        = IF TooLong \/ available < 500 THEN GAS_CHARGE_UNAFFORDABLE
          ELSE IF CutOff \/ m > available \/ product > available \/ cost > available
          THEN GAS_CHARGE_UNAFFORDABLE
          ELSE gas_charge(cost)
    BY <2>1, <2>2, <2>3, <2>4, <1>8
  <2> QED BY <2>5, Zenon DEF CutOff
<1> HIDE DEF charge, TooLong
<1> SUFFICES ASSUME ~TooLong
             PROVE  charge = Exact(cost, available)
  <2>1. TooLong => charge = GAS_CHARGE_UNAFFORDABLE
    BY <1>10, Zenon
  <2>2. Eip7883(in) \in Nat
    BY <1>8, <1>9
  <2> QED BY <1>9, <2>1, <2>2, Zenon DEF charge, TooLong
<1>11. x > available \div 16 => product > available
  <2>1. i >= 16 * x
    BY <1>2, <1>3
  <2>2. x > available \div 16 => i > available
    BY <2>1
  <2>3. 1 <= m
    <3>1. CASE bytes <= 32
      BY <1>6, <3>1
    <3>2. CASE bytes > 32
      <4>1. w # 0
        BY <1>1, <1>4, <3>2, ModexpFacts
      <4>2. 1 * w <= w * w
        BY <4>1, Growing
      <4> QED BY <1>6, <3>2, <4>1, <4>2
    <3> QED BY <3>1, <3>2
  <2>4. 1 * i <= m * i
    BY <2>3, Growing
  <2> QED BY <1>7, <2>2, <2>4
<1>12. m <= product
  <2>1. 1 * m <= i * m /\ i * m = m * i
    BY Growing
  <2> QED BY <1>7, <2>1
<1>13. CASE bytes <= 32
  <2>1. w <= 4
    BY <1>1, <1>4, <1>13, ModexpFacts
  <2>2. w * w <= 4 * w
    BY <2>1, Growing
  <2> QED BY <1>5, <1>8, <1>10, <1>11, <1>12, <1>13, <2>1, <2>2 DEF Exact
<1>14. CASE bytes > 32
  <2>1. w # 0
    BY <1>1, <1>4, <1>14, ModexpFacts
  <2>2. 1 * w <= w * w
    BY <2>1, Growing
  <2>3. m = 2 * square
    BY <1>5, <1>6, <1>14
  <2>4. square > available \div 2 => m > available
    BY <2>3
  <2>5. w <= square
    BY <1>5, <2>2
  <2> QED BY <1>8, <1>10, <1>11, <1>12, <1>14, <2>3, <2>4, <2>5 DEF Exact
<1> QED BY <1>4, <1>13, <1>14

-----------------------------------------------------------------------------
(* Precompiles.                                                            *)

(* Sixteen bytes of padding from this one on.                              *)
Clean(in, at) == in.dirty \notin at .. at + 15

CleanFields(in, base, stride, count, fields) ==
    \A f \in fields : \A i \in 0 .. count - 1 : Clean(in, base + f + i * stride)
CleanOnce(in, base, stride, count) ==
    \A i \in 0 .. count - 1 : Clean(in, base + i * stride)
CleanG1(in, base, stride, count) ==
    CleanOnce(in, base, stride, count) /\ CleanOnce(in, base + 64, stride, count)
CleanG2(in, base, stride, count) ==
    /\ CleanG1(in, base, stride, count)
    /\ CleanOnce(in, base + 128, stride, count) /\ CleanOnce(in, base + 192, stride, count)

(* The checks of padding, one coordinate after the other                   *)
(* (slice_strided_zero).                                                   *)
LEMMA PaddedFields ==
    ASSUME NEW in, NEW base \in Nat, NEW stride \in Nat, NEW count \in Nat,
           NEW fields \in SUBSET Nat
    PROVE  PaddedAt(in, base, stride, count, fields)
             <=> CleanFields(in, base, stride, count, fields)
<1>1. ASSUME NEW start \in Nat
      PROVE  slice_strided_zero(in, start, stride, BLS_FIELD_PADDING_LENGTH, count)
               <=> CleanOnce(in, start, stride, count)
  <2>1. \A i \in 0 .. count - 1 : start + i * stride + 16 - 1 = start + i * stride + 15
    OBVIOUS
  <2> QED BY <2>1 DEF slice_strided_zero, BLS_FIELD_PADDING_LENGTH, Clean, CleanOnce
<1>2. \A f \in fields : base + f \in Nat
  OBVIOUS
<1>3. CleanFields(in, base, stride, count, fields)
        <=> \A f \in fields : CleanOnce(in, base + f, stride, count)
  BY Zenon DEF CleanFields, CleanOnce
<1> QED BY <1>1, <1>2, <1>3 DEF PaddedAt

(* Those of the points of either group (bls_g1_padding, bls_g2_padding).   *)
LEMMA PaddedPoints ==
    ASSUME NEW in, NEW base \in Nat, NEW stride \in Nat, NEW count \in Nat
    PROVE  /\ PaddedAt(in, base, stride, count, {0}) <=> CleanOnce(in, base, stride, count)
           /\ bls_g1_padding(in, base, stride, count) <=> CleanG1(in, base, stride, count)
           /\ bls_g2_padding(in, base, stride, count) <=> CleanG2(in, base, stride, count)
<1>1. base + 0 = base
  OBVIOUS
<1>8. ASSUME NEW fields
      PROVE  CleanFields(in, base, stride, count, fields)
               <=> \A f \in fields : CleanOnce(in, base + f, stride, count)
  BY Zenon DEF CleanFields, CleanOnce
<1>2. {0} \in SUBSET Nat /\ {0, 64} \in SUBSET Nat /\ {0, 64, 128, 192} \in SUBSET Nat
  OBVIOUS
<1>3. CleanFields(in, base, stride, count, {0}) <=> CleanOnce(in, base, stride, count)
  BY <1>1, <1>8
<1>4. CleanFields(in, base, stride, count, {0, 64}) <=> CleanG1(in, base, stride, count)
  BY <1>1, <1>8 DEF CleanG1
<1>5. CleanFields(in, base, stride, count, {0, 64, 128, 192})
        <=> CleanG2(in, base, stride, count)
  BY <1>1, <1>8 DEF CleanG1, CleanG2
<1>6. bls_g1_padding(in, base, stride, count) <=> PaddedAt(in, base, stride, count, {0, 64})
  BY DEF bls_g1_padding, BLS_PADDED_FIELD_LENGTH
<1>7. bls_g2_padding(in, base, stride, count)
        <=> PaddedAt(in, base, stride, count, {0, 64, 128, 192})
  BY DEF bls_g2_padding, BLS_PADDED_FIELD_LENGTH, BLS_G1_POINT_LENGTH
<1> QED BY <1>2, <1>3, <1>4, <1>5, <1>6, <1>7, PaddedFields

(* The coordinates of an item, one after the other.                        *)
CleanItem(in, at, n) == \A c \in 0 .. n - 1 : Clean(in, at + 64 * c)

(* An item of any size used is the list of its coordinates.                *)
LEMMA CleanCoordinates ==
    ASSUME NEW in, NEW at \in Nat
    PROVE  /\ CleanItem(in, at, 1) <=> Clean(in, at)
           /\ CleanItem(in, at, 2) <=> CleanItem(in, at, 1) /\ Clean(in, at + 64)
           /\ CleanItem(in, at, 4)
                <=> CleanItem(in, at, 2) /\ Clean(in, at + 128) /\ Clean(in, at + 192)
           /\ CleanItem(in, at, 6)
                <=> CleanItem(in, at, 4) /\ Clean(in, at + 256) /\ Clean(in, at + 320)
           /\ CleanItem(in, at, 8)
                <=> CleanItem(in, at, 6) /\ Clean(in, at + 384) /\ Clean(in, at + 448)
<1> DEFINE P(c) == Clean(in, at + 64 * c)
           All(n) == \A c \in 0 .. n - 1 : P(c)
<1>1. /\ P(0) = Clean(in, at) /\ P(1) = Clean(in, at + 64) /\ P(2) = Clean(in, at + 128)
      /\ P(3) = Clean(in, at + 192) /\ P(4) = Clean(in, at + 256) /\ P(5) = Clean(in, at + 320)
      /\ P(6) = Clean(in, at + 384) /\ P(7) = Clean(in, at + 448)
  <2>1. /\ at + 64 * 0 = at /\ at + 64 * 1 = at + 64 /\ at + 64 * 2 = at + 128
        /\ at + 64 * 3 = at + 192 /\ at + 64 * 4 = at + 256 /\ at + 64 * 5 = at + 320
        /\ at + 64 * 6 = at + 384 /\ at + 64 * 7 = at + 448
    OBVIOUS
  <2> QED BY <2>1, Zenon
<1>2. /\ 0 .. 1 - 1 = {0} /\ 0 .. 2 - 1 = {0, 1} /\ 0 .. 4 - 1 = {0, 1, 2, 3}
      /\ 0 .. 6 - 1 = {0, 1, 2, 3, 4, 5} /\ 0 .. 8 - 1 = {0, 1, 2, 3, 4, 5, 6, 7}
  OBVIOUS
<1> HIDE DEF P
<1>3. /\ All(1) <=> P(0)
      /\ All(2) <=> All(1) /\ P(1)
      /\ All(4) <=> All(2) /\ P(2) /\ P(3)
      /\ All(6) <=> All(4) /\ P(4) /\ P(5)
      /\ All(8) <=> All(6) /\ P(6) /\ P(7)
  BY <1>2
<1>4. /\ CleanItem(in, at, 1) <=> All(1)
      /\ CleanItem(in, at, 2) <=> All(2)
      /\ CleanItem(in, at, 4) <=> All(4)
      /\ CleanItem(in, at, 6) <=> All(6)
      /\ CleanItem(in, at, 8) <=> All(8)
  BY Zenon DEF CleanItem, P
<1> HIDE DEF All
<1> QED BY <1>1, <1>3, <1>4

(* An input is well formed item by item.                                   *)
LEMMA WellFormedItems ==
    ASSUME NEW n, NEW in
    PROVE  WellFormed(n, in)
             <=> /\ in.len % ItemSize(n) = 0
                 /\ IF n \in {BlsG1Msm, BlsG2Msm, BlsPairing} THEN in.len # 0
                    ELSE ItemCount(n, in) = 1
                 /\ \A i \in 0 .. ItemCount(n, in) - 1 :
                       CleanItem(in, i * ItemSize(n), Coordinates(n))
<1> DEFINE Lead == /\ in.len % ItemSize(n) = 0
                   /\ IF n \in {BlsG1Msm, BlsG2Msm, BlsPairing} THEN in.len # 0
                      ELSE ItemCount(n, in) = 1
<1>1. WellFormed(n, in)
        <=> Lead /\ \A i \in 0 .. ItemCount(n, in) - 1, c \in 0 .. Coordinates(n) - 1 :
                       Clean(in, i * ItemSize(n) + 64 * c)
  BY Zenon DEF WellFormed, Clean
<1> HIDE DEF Lead
<1>2. WellFormed(n, in)
        <=> Lead /\ \A i \in 0 .. ItemCount(n, in) - 1 :
                       CleanItem(in, i * ItemSize(n), Coordinates(n))
  BY <1>1, Zenon DEF CleanItem
<1> QED BY <1>2, Zenon DEF Lead

(* The strides and offsets of the padding checks reach every coordinate of *)
(* every item, and nothing else.                                           *)
LEMMA PaddingReachesAll ==
    ASSUME NEW n \in BLS, NEW in, in.len \in Nat, in.dirty \in Nat
    PROVE  InputAccepted(n, in) <=> WellFormed(n, in)
<1> USE DEF Ecrecover, Sha256, Ripemd160, Identity, Modexp, Bn254Add, Bn254Mul, Bn254Pairing,
            Blake2f, KzgPointEvaluation, BlsG1Add, BlsG1Msm, BlsG2Add, BlsG2Msm, BlsPairing,
            BlsMapFpToG1, BlsMapFp2ToG2, P256Verify
<1>1. ASSUME NEW bytes \in Nat \ {0}, bytes = ItemSize(n), NEW points \in Nat,
             points = Coordinates(n), NEW count \in Nat, count = in.len \div bytes
      PROVE  WellFormed(n, in)
               <=> /\ in.len % bytes = 0
                   /\ IF n \in {BlsG1Msm, BlsG2Msm, BlsPairing} THEN in.len # 0 ELSE count = 1
                   /\ \A i \in 0 .. count - 1 : CleanItem(in, i * bytes, points)
  <2>1. count = ItemCount(n, in)
    BY <1>1, Zenon DEF ItemCount
  <2> QED BY <1>1, <2>1, WellFormedItems, Zenon
<1>2. ASSUME NEW bytes \in Nat \ {0}, bytes = ItemSize(n), NEW points \in Nat,
             points = Coordinates(n), n \notin {BlsG1Msm, BlsG2Msm, BlsPairing}
      PROVE  WellFormed(n, in) <=> in.len = bytes /\ CleanItem(in, 0, points)
  <2>1. PICK count \in Nat : count = in.len \div bytes
    BY Division
  <2>2. in.len % bytes = 0 /\ count = 1 <=> in.len = bytes
    <3>1. in.len = bytes * count + (in.len % bytes) /\ in.len % bytes \in Nat
      <4>1. bytes \in Nat /\ bytes > 0
        BY <1>2
      <4> QED BY <2>1, <4>1, Division
    <3>2. ASSUME in.len = bytes PROVE count = 1 /\ in.len % bytes = 0
      <4>1. in.len = bytes * 1 + 0
        BY <3>2
      <4>2. count = 1
        BY <2>1, <4>1, Quotient
      <4> QED BY <3>1, <3>2, <4>2
    <3> QED BY <3>1, <3>2
  <2>3. WellFormed(n, in)
          <=> in.len % bytes = 0 /\ count = 1
              /\ \A i \in 0 .. count - 1 : CleanItem(in, i * bytes, points)
    BY <1>1, <1>2, <2>1
  <2>4. count = 1 => ((\A i \in 0 .. count - 1 : CleanItem(in, i * bytes, points))
                        <=> CleanItem(in, 0, points))
    <3>1. 0 * bytes = 0 /\ 0 .. 1 - 1 = {0}
      OBVIOUS
    <3> QED BY <3>1
  <2> QED BY <2>2, <2>3, <2>4
<1>3. ASSUME NEW bytes \in Nat \ {0}, bytes = ItemSize(n), NEW points \in Nat,
             points = Coordinates(n), n \in {BlsG1Msm, BlsG2Msm, BlsPairing}
      PROVE  WellFormed(n, in)
               <=> /\ Items(in, bytes)
                   /\ \A i \in 0 .. in.len \div bytes - 1 : CleanItem(in, i * bytes, points)
  <2>1. PICK count \in Nat : count = in.len \div bytes
    BY Division
  <2> QED BY <1>1, <1>3, <2>1 DEF Items
<1>4. CASE n = BlsG1Add
  <2>1. Coordinates(n) = 4 /\ ItemSize(n) = 256
    BY <1>4 DEF Coordinates, ItemSize
  <2>2. InputAccepted(n, in) <=> in.len = 256 /\ bls_g1_padding(in, 0, 128, 2)
    BY <1>4 DEF InputAccepted, run_bls_g1_add, BLS_G1_POINT_LENGTH
  <2>3. WellFormed(n, in) <=> in.len = 256 /\ CleanItem(in, 0, 4)
    BY <1>2, <1>4, <2>1
  <2>4. bls_g1_padding(in, 0, 128, 2) <=> CleanG1(in, 0, 128, 2)
    BY PaddedPoints
  <2>5. CleanG1(in, 0, 128, 2)
          <=> /\ Clean(in, 0) /\ Clean(in, 64)
              /\ Clean(in, 128) /\ Clean(in, 192)
    BY DEF CleanG1, CleanOnce
  <2>6. CleanItem(in, 0, 4)
          <=> /\ Clean(in, 0) /\ Clean(in, 0 + 64)
              /\ Clean(in, 0 + 128) /\ Clean(in, 0 + 192)
    BY CleanCoordinates
  <2> QED BY <2>2, <2>3, <2>4, <2>5, <2>6
<1>5. CASE n = BlsG2Add
  <2>1. Coordinates(n) = 8 /\ ItemSize(n) = 512
    BY <1>5 DEF Coordinates, ItemSize
  <2>2. InputAccepted(n, in) <=> in.len = 512 /\ bls_g2_padding(in, 0, 256, 2)
    BY <1>5 DEF InputAccepted, run_bls_g2_add, BLS_G2_POINT_LENGTH
  <2>3. WellFormed(n, in) <=> in.len = 512 /\ CleanItem(in, 0, 8)
    BY <1>2, <1>5, <2>1
  <2>4. bls_g2_padding(in, 0, 256, 2) <=> CleanG2(in, 0, 256, 2)
    BY PaddedPoints
  <2>5. CleanG2(in, 0, 256, 2)
          <=> /\ Clean(in, 0) /\ Clean(in, 64) /\ Clean(in, 128) /\ Clean(in, 192)
              /\ Clean(in, 256) /\ Clean(in, 320) /\ Clean(in, 384) /\ Clean(in, 448)
    BY DEF CleanG2, CleanG1, CleanOnce
  <2>6. CleanItem(in, 0, 8)
          <=> /\ Clean(in, 0) /\ Clean(in, 0 + 64) /\ Clean(in, 0 + 128) /\ Clean(in, 0 + 192)
              /\ Clean(in, 0 + 256) /\ Clean(in, 0 + 320) /\ Clean(in, 0 + 384)
              /\ Clean(in, 0 + 448)
    BY CleanCoordinates
  <2> QED BY <2>2, <2>3, <2>4, <2>5, <2>6
<1>6. CASE n = BlsMapFpToG1
  <2>1. Coordinates(n) = 1 /\ ItemSize(n) = 64
    BY <1>6 DEF Coordinates, ItemSize
  <2>2. InputAccepted(n, in) <=> in.len = 64 /\ PaddedAt(in, 0, 64, 1, {0})
    BY <1>6 DEF InputAccepted, run_bls_map_fp_to_g1, BLS_PADDED_FIELD_LENGTH
  <2>3. WellFormed(n, in) <=> in.len = 64 /\ CleanItem(in, 0, 1)
    BY <1>2, <1>6, <2>1
  <2>4. PaddedAt(in, 0, 64, 1, {0}) <=> CleanOnce(in, 0, 64, 1)
    BY PaddedPoints
  <2>5. CleanOnce(in, 0, 64, 1) <=> Clean(in, 0)
    BY DEF CleanOnce
  <2>6. CleanItem(in, 0, 1) <=> Clean(in, 0)
    BY CleanCoordinates
  <2> QED BY <2>2, <2>3, <2>4, <2>5, <2>6
<1>7. CASE n = BlsMapFp2ToG2
  <2>1. Coordinates(n) = 2 /\ ItemSize(n) = 128
    BY <1>7 DEF Coordinates, ItemSize
  <2>2. InputAccepted(n, in) <=> in.len = 128 /\ PaddedAt(in, 0, 64, 2, {0})
    BY <1>7 DEF InputAccepted, run_bls_map_fp2_to_g2, BLS_PADDED_FIELD_LENGTH,
                BLS_G1_POINT_LENGTH
  <2>3. WellFormed(n, in) <=> in.len = 128 /\ CleanItem(in, 0, 2)
    BY <1>2, <1>7, <2>1
  <2>4. PaddedAt(in, 0, 64, 2, {0}) <=> CleanOnce(in, 0, 64, 2)
    BY PaddedPoints
  <2>5. CleanOnce(in, 0, 64, 2) <=> Clean(in, 0) /\ Clean(in, 64)
    BY DEF CleanOnce
  <2>6. CleanItem(in, 0, 2) <=> Clean(in, 0) /\ Clean(in, 0 + 64)
    BY CleanCoordinates
  <2> QED BY <2>2, <2>3, <2>4, <2>5, <2>6
<1>8. CASE n = BlsG1Msm
  <2>1. Coordinates(n) = 2 /\ ItemSize(n) = 160
    BY <1>8 DEF Coordinates, ItemSize
  <2>2. PICK count \in Nat : count = in.len \div 160
    OBVIOUS
  <2>3. InputAccepted(n, in) <=> Items(in, 160) /\ bls_g1_padding(in, 0, 160, count)
    BY <1>8, <2>2 DEF InputAccepted, run_bls_g1_msm, BLS_G1_MSM_ITEM_LENGTH
  <2>4. WellFormed(n, in)
          <=> Items(in, 160) /\ \A i \in 0 .. count - 1 : CleanItem(in, i * 160, 2)
    BY <1>3, <1>8, <2>1, <2>2
  <2>5. bls_g1_padding(in, 0, 160, count) <=> CleanG1(in, 0, 160, count)
    BY PaddedPoints
  <2>6. ASSUME NEW i \in 0 .. count - 1
        PROVE  CleanItem(in, i * 160, 2)
                 <=> Clean(in, 0 + i * 160) /\ Clean(in, 0 + 64 + i * 160)
    <3>1. i * 160 \in Nat
      OBVIOUS
    <3>2. CleanItem(in, i * 160, 2) <=> Clean(in, i * 160) /\ Clean(in, i * 160 + 64)
      BY <3>1, CleanCoordinates
    <3>3. 0 + i * 160 = i * 160 /\ 0 + 64 + i * 160 = i * 160 + 64
      BY <3>1
    <3> QED BY <3>2, <3>3
  <2>7. bls_g1_padding(in, 0, 160, count) <=> \A i \in 0 .. count - 1 : CleanItem(in, i * 160, 2)
    BY <2>5, <2>6 DEF CleanG1, CleanOnce
  <2> QED BY <2>3, <2>4, <2>7
<1>9. CASE n = BlsG2Msm
  <2>1. Coordinates(n) = 4 /\ ItemSize(n) = 288
    BY <1>9 DEF Coordinates, ItemSize
  <2>2. PICK count \in Nat : count = in.len \div 288
    OBVIOUS
  <2>3. InputAccepted(n, in) <=> Items(in, 288) /\ bls_g2_padding(in, 0, 288, count)
    BY <1>9, <2>2 DEF InputAccepted, run_bls_g2_msm, BLS_G2_MSM_ITEM_LENGTH
  <2>4. WellFormed(n, in)
          <=> Items(in, 288) /\ \A i \in 0 .. count - 1 : CleanItem(in, i * 288, 4)
    BY <1>3, <1>9, <2>1, <2>2
  <2>5. bls_g2_padding(in, 0, 288, count) <=> CleanG2(in, 0, 288, count)
    BY PaddedPoints
  <2>6. ASSUME NEW i \in 0 .. count - 1
        PROVE  CleanItem(in, i * 288, 4)
                 <=> /\ Clean(in, 0 + i * 288)
                     /\ Clean(in, 0 + 64 + i * 288)
                     /\ Clean(in, 0 + 128 + i * 288)
                     /\ Clean(in, 0 + 192 + i * 288)
    <3>1. i * 288 \in Nat
      OBVIOUS
    <3>2. CleanItem(in, i * 288, 4)
            <=> /\ Clean(in, i * 288) /\ Clean(in, i * 288 + 64)
                /\ Clean(in, i * 288 + 128) /\ Clean(in, i * 288 + 192)
      BY <3>1, CleanCoordinates
    <3>3. /\ 0 + i * 288 = i * 288 /\ 0 + 64 + i * 288 = i * 288 + 64
          /\ 0 + 128 + i * 288 = i * 288 + 128 /\ 0 + 192 + i * 288 = i * 288 + 192
      BY <3>1
    <3> QED BY <3>2, <3>3
  <2>7. bls_g2_padding(in, 0, 288, count) <=> \A i \in 0 .. count - 1 : CleanItem(in, i * 288, 4)
    BY <2>5, <2>6 DEF CleanG2, CleanG1, CleanOnce
  <2> QED BY <2>3, <2>4, <2>7
<1>10. CASE n = BlsPairing
  <2>1. Coordinates(n) = 6 /\ ItemSize(n) = 384
    BY <1>10 DEF Coordinates, ItemSize
  <2>2. PICK count \in Nat : count = in.len \div 384
    OBVIOUS
  <2>3. InputAccepted(n, in) <=> /\ Items(in, 384)
                                /\ bls_g1_padding(in, 0, 384, count)
                                /\ bls_g2_padding(in, 128, 384, count)
    BY <1>10, <2>2
       DEF InputAccepted, run_bls_pairing, BLS_PAIRING_ITEM_LENGTH, BLS_G1_POINT_LENGTH
  <2>4. WellFormed(n, in)
          <=> Items(in, 384) /\ \A i \in 0 .. count - 1 : CleanItem(in, i * 384, 6)
    BY <1>3, <1>10, <2>1, <2>2
  <2>5. bls_g1_padding(in, 0, 384, count) <=> CleanG1(in, 0, 384, count)
    BY PaddedPoints
  <2>6. bls_g2_padding(in, 128, 384, count) <=> CleanG2(in, 128, 384, count)
    BY PaddedPoints
  <2>7. ASSUME NEW i \in 0 .. count - 1
        PROVE  CleanItem(in, i * 384, 6)
                 <=> /\ Clean(in, 0 + i * 384)
                     /\ Clean(in, 0 + 64 + i * 384)
                     /\ Clean(in, 128 + i * 384)
                     /\ Clean(in, 128 + 64 + i * 384)
                     /\ Clean(in, 128 + 128 + i * 384)
                     /\ Clean(in, 128 + 192 + i * 384)
    <3>1. i * 384 \in Nat
      OBVIOUS
    <3>2. CleanItem(in, i * 384, 6)
            <=> /\ Clean(in, i * 384) /\ Clean(in, i * 384 + 64)
                /\ Clean(in, i * 384 + 128) /\ Clean(in, i * 384 + 192)
                /\ Clean(in, i * 384 + 256) /\ Clean(in, i * 384 + 320)
      BY <3>1, CleanCoordinates
    <3>3. /\ 0 + i * 384 = i * 384 /\ 0 + 64 + i * 384 = i * 384 + 64
          /\ 128 + i * 384 = i * 384 + 128 /\ 128 + 64 + i * 384 = i * 384 + 192
          /\ 128 + 128 + i * 384 = i * 384 + 256 /\ 128 + 192 + i * 384 = i * 384 + 320
      BY <3>1
    <3> QED BY <3>2, <3>3
  <2>8. bls_g1_padding(in, 0, 384, count) /\ bls_g2_padding(in, 128, 384, count)
          <=> \A i \in 0 .. count - 1 : CleanItem(in, i * 384, 6)
    BY <2>5, <2>6, <2>7 DEF CleanG1, CleanG2, CleanOnce
  <2> QED BY <2>3, <2>4, <2>8
<1>11. n = BlsG1Add \/ n = BlsG1Msm \/ n = BlsG2Add \/ n = BlsG2Msm \/ n = BlsPairing
         \/ n = BlsMapFpToG1 \/ n = BlsMapFp2ToG2
  BY DEF BLS
<1> QED BY <1>4, <1>5, <1>6, <1>7, <1>8, <1>9, <1>10, <1>11

(* What the caller is shown was written by the call, and nothing is shown  *)
(* of a failure.                                                           *)
LEMMA ShownIsWritten ==
    ASSUME NEW n \in PRECOMPILE_ADDRESSES, NEW in,
           in.len \in Nat, in.ml \in Nat
    PROVE  LET result == run_precompile_slice(n, in)
               filled == IF InputAccepted(n, in) THEN AcceleratorWrites(n, in) ELSE 0
           IN  /\ result.stored \in Nat /\ filled \in Nat /\ result.shown \in Nat
               /\ result.shown <= filled \/ result.shown <= result.stored
               /\ ~result.success => result.shown = 0
  BY SMTT(60)
     DEF PRECOMPILE_ADDRESSES, run_precompile_slice, AcceleratorWrites, Result,
         precompile_failure, accelerator_result, output_buffer_word, EmptySuccess, pairing_result, ShownBytes, WORD,
         BLS_G1_POINT_LENGTH, BLS_G2_POINT_LENGTH, Ecrecover, Sha256, Ripemd160, Identity,
         Modexp, Bn254Add, Bn254Mul, Bn254Pairing,
         Blake2f, KzgPointEvaluation, BlsG1Add, BlsG1Msm, BlsG2Add, BlsG2Msm, BlsPairing,
         BlsMapFpToG1, BlsMapFp2ToG2, P256Verify

(* The price of what an accelerator works through, item by item.           *)
ItemsPaid(n, in, cost) ==
    CASE n = Bn254Pairing -> cost = 45000 + 34000 * (in.len \div BN254_PAIRING_ITEM_LENGTH)
      [] n = BlsPairing -> cost = 37700 + 32600 * ItemCount(BlsPairing, in)
      [] n = BlsG1Msm -> LET k == ItemCount(BlsG1Msm, in)
                         IN  cost = (k * 12000 * Discount(Discounts, k)) \div 1000
      [] n = BlsG2Msm -> LET k == ItemCount(BlsG2Msm, in)
                         IN  cost = (k * 22500 * Discount(G2Discounts, k)) \div 1000
      [] OTHER -> TRUE

(* What an accelerator works through has been paid for item by item        *)
(* (precompile_gas).                                                       *)
LEMMA ItemsArePaid ==
    ASSUME NEW n \in PRECOMPILE_ADDRESSES, NEW in, in.len \in Nat,
           precompile_gas(n, in, CallGas).affordable, InputAccepted(n, in)
    PROVE  ItemsPaid(n, in, precompile_gas(n, in, CallGas).cost)
<1> USE DEF Ecrecover, Sha256, Ripemd160, Identity, Modexp, Bn254Add, Bn254Mul, Bn254Pairing,
            Blake2f, KzgPointEvaluation, BlsG1Add, BlsG1Msm, BlsG2Add, BlsG2Msm, BlsPairing,
            BlsMapFpToG1, BlsMapFp2ToG2, P256Verify
<1>1. CallGas \in Nat
  BY PrecompilesAssumption
<1> DEFINE charge == precompile_gas(n, in, CallGas)
<1>2. ASSUME NEW price, charge = Exact(price, CallGas)
      PROVE  charge.cost = price
  BY <1>2 DEF Exact, gas_charge, GAS_CHARGE_UNAFFORDABLE
<1>3. ASSUME NEW base \in Nat, NEW per_unit \in Nat, NEW units \in Nat,
             NEW price \in Nat, price = base + per_unit * units
      PROVE  linear_gas(base, per_unit, units, CallGas) = Exact(price, CallGas)
  <2>1. per_unit * units + base = price
    BY <1>3
  <2> QED BY <1>1, <2>1 DEF linear_gas, Exact
<1> HIDE DEF charge
<1>4. CASE n = Bn254Pairing
  <2>1. charge = linear_gas(45000, 34000, in.len \div 192, CallGas)
    BY <1>4 DEF charge, precompile_gas
  <2>2. PICK units \in Nat, price \in Nat :
          units = in.len \div 192 /\ price = 45000 + 34000 * units
    OBVIOUS
  <2>3. charge = Exact(price, CallGas)
    BY <1>3, <2>1, <2>2
  <2>4. charge.cost = 45000 + 34000 * (in.len \div 192)
    BY <1>2, <2>2, <2>3
  <2> QED BY <1>4, <2>4 DEF charge, ItemsPaid, BN254_PAIRING_ITEM_LENGTH
<1>5. CASE n = BlsPairing
  <2>1. charge = linear_gas(37700, 32600, in.len \div 384, CallGas)
    BY <1>5 DEF charge, precompile_gas
  <2>2. PICK units \in Nat, price \in Nat :
          units = in.len \div 384 /\ price = 37700 + 32600 * units
    OBVIOUS
  <2>3. charge = Exact(price, CallGas)
    BY <1>3, <2>1, <2>2
  <2>4. charge.cost = 37700 + 32600 * (in.len \div 384)
    BY <1>2, <2>2, <2>3
  <2>5. ItemCount(BlsPairing, in) = in.len \div 384
    BY DEF ItemCount, ItemSize, Coordinates
  <2> QED BY <1>5, <2>4, <2>5 DEF charge, ItemsPaid
<1>6. CASE n = BlsG1Msm
  <2>1. PICK k \in Nat : k = in.len \div 160
    OBVIOUS
  <2>2. k = MsmPairs(n, in) /\ k = ItemCount(BlsG1Msm, in)
    BY <1>6, <2>1 DEF MsmPairs, ItemCount, ItemSize, Coordinates
  <2>3. Discounts \in Seq(Nat) \ {<<>>} /\ MaxDiscount = Discounts[Len(Discounts)]
    BY GasFormulasAssumption
  <2>4. charge = bls_msm_gas(Discounts, 12000, Discounts[Len(Discounts)], k, CallGas)
    BY <1>6, <2>2, <2>3 DEF charge, precompile_gas
  <2>5. charge = Exact(PairsPrice(Discounts, 12000, k), CallGas)
    BY <1>1, <2>3, <2>4, PairsExact
  <2>6. charge.cost = PairsPrice(Discounts, 12000, k)
    BY <1>2, <2>5
  <2>7. k # 0
    <3>1. in.len # 0 /\ in.len % 160 = 0
      BY <1>6 DEF InputAccepted, run_bls_g1_msm, Items, BLS_G1_MSM_ITEM_LENGTH
    <3> QED BY <2>1, <3>1
  <2> QED BY <1>6, <2>2, <2>6, <2>7 DEF charge, ItemsPaid, PairsPrice
<1>7. CASE n = BlsG2Msm
  <2>1. PICK k \in Nat : k = in.len \div 288
    OBVIOUS
  <2>2. k = MsmPairs(n, in) /\ k = ItemCount(BlsG2Msm, in)
    BY <1>7, <2>1 DEF MsmPairs, ItemCount, ItemSize, Coordinates
  <2>3. G2Discounts \in Seq(Nat) \ {<<>>} /\ G2MaxDiscount = G2Discounts[Len(G2Discounts)]
    BY PrecompilesAssumption
  <2>4. charge = bls_msm_gas(G2Discounts, 22500, G2Discounts[Len(G2Discounts)], k, CallGas)
    BY <1>7, <2>2, <2>3 DEF charge, precompile_gas
  <2>5. charge = Exact(PairsPrice(G2Discounts, 22500, k), CallGas)
    BY <1>1, <2>3, <2>4, PairsExact
  <2>6. charge.cost = PairsPrice(G2Discounts, 22500, k)
    BY <1>2, <2>5
  <2>7. k # 0
    <3>1. in.len # 0 /\ in.len % 288 = 0
      BY <1>7 DEF InputAccepted, run_bls_g2_msm, Items, BLS_G2_MSM_ITEM_LENGTH
    <3> QED BY <2>1, <3>1
  <2> QED BY <1>7, <2>2, <2>6, <2>7 DEF charge, ItemsPaid, PairsPrice
<1>8. CASE n \notin {Bn254Pairing, BlsPairing, BlsG1Msm, BlsG2Msm}
  BY <1>8 DEF ItemsPaid
<1> QED BY <1>4, <1>5, <1>6, <1>7, <1>8

-----------------------------------------------------------------------------
(* The frame's memory and the one-off charges.                             *)

(* More words cost no less (mem_cost).                                     *)
LEMMA MemCostGrows ==
    ASSUME NEW a \in Nat, NEW b \in Nat, a <= b
    PROVE  mem_cost(a) \in Nat /\ mem_cost(b) \in Nat /\ mem_cost(a) <= mem_cost(b)
<1>1. PICK d \in Nat : d = SquareDivisor /\ d > 0
  BY GasFormulasAssumption
<1>2. a * a <= b * a /\ b * a <= b * b
  BY Growing
<1>3. PICK x \in Nat, y \in Nat : x = a * a /\ y = b * b /\ x <= y
  BY <1>2
<1>4. PICK p \in Nat, r \in Nat : p = x \div d /\ r < d /\ x = d * p + r
  BY <1>1, Division
<1>5. PICK q \in Nat, s \in Nat : q = y \div d /\ s < d /\ y = d * q + s
  BY <1>1, Division
<1>6. p <= q
  <2>1. SUFFICES ASSUME q + 1 <= p PROVE FALSE
    OBVIOUS
  <2>2. (q + 1) * d <= p * d
    BY <2>1, Growing
  <2> QED BY <1>3, <1>4, <1>5, <2>2
<1>7. mem_cost(a) = 3 * a + p /\ mem_cost(b) = 3 * b + q
  BY <1>1, <1>3, <1>4, <1>5 DEF mem_cost, G_memory
<1> QED BY <1>6, <1>7

(* The largest of three numbers is one of them and no less than the rest.  *)
LEMMA MaxOfThree ==
    ASSUME NEW a \in Nat, NEW b \in Nat, NEW c \in Nat
    PROVE  /\ Max({a, b, c}) \in Nat
           /\ Max({a, b, c}) >= a /\ Max({a, b, c}) >= b /\ Max({a, b, c}) >= c
<1> DEFINE Largest(x) == x \in {a, b, c} /\ \A y \in {a, b, c} : x >= y
           m == IF a >= b /\ a >= c THEN a ELSE IF b >= c THEN b ELSE c
<1>1. Largest(m) /\ \A x : Largest(x) => x = m
  OBVIOUS
<1>2. Max({a, b, c}) = CHOOSE x \in {a, b, c} : \A y \in {a, b, c} : x >= y
  BY DEF Max
<1>3. Max({a, b, c}) = m
  BY <1>1, <1>2
<1>4. m \in Nat /\ m >= a /\ m >= b /\ m >= c
  BY <1>1
<1> QED BY <1>3, <1>4

(* What a charge tells.                                                    *)
LEMMA ChargeFacts ==
    /\ \A cost : gas_charge(cost).affordable /\ gas_charge(cost).cost = cost
    /\ ~GAS_CHARGE_UNAFFORDABLE.affordable
  BY DEF gas_charge, GAS_CHARGE_UNAFFORDABLE

(* An access pays the difference of the two heights, or nothing (Touch).   *)
LEMMA TouchPays ==
    ASSUME NEW start \in Offsets, NEW bytes \in Sizes, Touch(start, bytes),
           budget \in Nat, height \in Nat, MemoryIsPaidOnce
    PROVE  budget' \in Nat /\ height' \in Nat /\ MemoryIsPaidOnce'
<1>1. PICK requested \in Nat : requested = memory_requested_height(start, bytes)
  <2>1. start \in Nat /\ bytes \in Nat /\ MaxHeight \in Nat
    BY GasFormulasAssumption, GasChargesAssumption
  <2> QED BY <2>1 DEF memory_requested_height
<1>2. PICK new \in Nat, old \in Nat : new = memory_word_count(requested)
                                    /\ old = memory_word_count(height)
  BY WordCount
<1>3. PICK before \in Nat, after \in Nat : before = mem_cost(old) /\ after = mem_cost(new)
  BY MemCostGrows
<1> DEFINE charge == memory_expansion_gas_cost(height, requested, budget)
<1>4. charge = IF requested > MaxHeight THEN GAS_CHARGE_UNAFFORDABLE
               ELSE IF new <= old THEN gas_charge(0)
               ELSE IF after - before <= budget THEN gas_charge(after - before)
               ELSE GAS_CHARGE_UNAFFORDABLE
  BY <1>2, <1>3, Zenon DEF memory_expansion_gas_cost
<1>5. /\ IF charge.affordable
         THEN /\ budget' = budget - charge.cost
              /\ paid' = paid + charge.cost
              /\ height' = Max({height, requested})
         ELSE budget' = 0 /\ UNCHANGED <<height, paid>>
  BY <1>1, Zenon DEF Touch
<1> HIDE DEF charge
<1>6. paid = before /\ height <= MaxHeight /\ MaxHeight \in Nat
  BY <1>2, <1>3, GasFormulasAssumption DEF MemoryIsPaidOnce
<1>7. Max({height, requested}) = IF height >= requested THEN height ELSE requested
  BY MaxOfTwo
<1>8. height <= requested => old <= new
  BY <1>2, WordCountGrows
<1>9. requested <= height => new <= old
  BY <1>2, WordCountGrows
<1>10. CASE ~charge.affordable
  <2>1. budget' = 0 /\ height' = height /\ paid' = paid
    BY <1>5, <1>10
  <2> QED BY <2>1 DEF MemoryIsPaidOnce
<1>11. CASE charge.affordable /\ new <= old
  <2>1. requested <= MaxHeight /\ charge.cost = 0
    <3>1. ~(requested > MaxHeight) /\ charge = gas_charge(0)
      BY <1>4, <1>11, ChargeFacts, Zenon
    <3> QED BY <1>6, <3>1, ChargeFacts
  <2>2. budget' = budget /\ paid' = before /\ height' = Max({height, requested})
    BY <1>5, <1>6, <1>11, <2>1
  <2>3. height' \in Nat /\ height' <= MaxHeight /\ memory_word_count(height') = old
    BY <1>2, <1>6, <1>7, <1>8, <1>11, <2>1, <2>2
  <2> QED BY <1>3, <2>2, <2>3 DEF MemoryIsPaidOnce
<1>12. CASE charge.affordable /\ ~(new <= old)
  <2>1. requested <= MaxHeight /\ charge.cost = after - before /\ after - before <= budget
    <3>1. /\ ~(requested > MaxHeight) /\ after - before <= budget
          /\ charge = gas_charge(after - before)
      BY <1>4, <1>12, ChargeFacts, Zenon
    <3> QED BY <1>6, <3>1, ChargeFacts
  <2>2. before <= after
    BY <1>3, <1>12, MemCostGrows
  <2>3. height < requested
    BY <1>9, <1>12
  <2>4. height' = requested /\ paid' = after /\ budget' \in Nat
    BY <1>5, <1>6, <1>7, <1>12, <2>1, <2>2, <2>3
  <2> QED BY <1>2, <1>3, <2>1, <2>4 DEF MemoryIsPaidOnce
<1> QED BY <1>10, <1>11, <1>12

(* A charge that is exact, and of a MODEXP that runs.                      *)
Fair(kind, args, available, charge) ==
    /\ charge = IF Refused(kind, args) THEN GAS_CHARGE_UNAFFORDABLE
                ELSE Exact(Price(kind, args), available)
    /\ kind = "modexp" /\ args[1] /\ charge.affordable => run_modexp(args[2])

(* The charge of every instruction and precompile is fair, whatever the    *)
(* size of the input and the gas at hand.                                  *)
LEMMA ChargesAreFair ==
    ASSUME NEW g \in Nat
    PROVE  /\ \A s \in Nat : Fair("keccak", <<s>>, g, keccak_gas_cost(s, g))
           /\ \A s \in Nat : Fair("copy", <<s>>, g, copy_gas_cost(s, g))
           /\ \A t \in Nat, s \in Nat : Fair("log", <<t, s>>, g, log_gas_cost(t, s, g))
           /\ \A a \in BOOLEAN, s \in Nat :
                 Fair("deposit", <<a, s>>, g, code_deployment_execution_cost(a, s, g))
           /\ \A base \in Nat, k \in Nat :
                 Fair("msm", <<base, k>>, g, bls_msm_gas(Discounts, base, MaxDiscount, k, g))
           /\ \A base \in Nat, per \in Nat, k \in Nat :
                 Fair("linear", <<base, per, k>>, g, linear_gas(base, per, k, g))
           /\ \A cost \in Nat : Fair("fixed", <<cost>>, g, fixed_precompile_gas(cost, g))
<1>1. ASSUME NEW s \in Nat
      PROVE  /\ Fair("keccak", <<s>>, g, keccak_gas_cost(s, g))
             /\ Fair("copy", <<s>>, g, copy_gas_cost(s, g))
  <2>1. PICK w \in Nat : w = memory_word_count(s) /\ w = CeilDiv(s, WordBytes)
    BY WordCount
  <2>2. keccak_gas_cost(s, g) = Exact(30 + 6 * w, g)
    BY <2>1, FixedAndScaledExact DEF keccak_gas_cost, G_keccak, G_keccak_word
  <2>3. copy_gas_cost(s, g) = Exact(3 * w, g)
    <3>1. copy_gas_cost(s, g) = Exact(0 + 3 * w, g)
      BY <2>1, FixedAndScaledExact DEF copy_gas_cost, G_copy_word
    <3> QED BY <3>1
  <2>4. Price("keccak", <<s>>) = 30 + 6 * w /\ ~Refused("keccak", <<s>>)
    BY <2>1 DEF Price, Refused
  <2>5. Price("copy", <<s>>) = 3 * w /\ ~Refused("copy", <<s>>)
    BY <2>1 DEF Price, Refused
  <2> QED BY <2>2, <2>3, <2>4, <2>5 DEF Fair
<1>2. ASSUME NEW t \in Nat, NEW s \in Nat
      PROVE  Fair("log", <<t, s>>, g, log_gas_cost(t, s, g))
  <2>1. PICK first_part \in Nat : first_part = 375 + 375 * t /\ first_part = 375 * (t + 1)
    OBVIOUS
  <2>2. log_gas_cost(t, s, g) = Exact(first_part + 8 * s, g)
    <3>1. log_gas_cost(t, s, g) = FixedAndScaled(first_part, G_logdata, s, g)
      BY <2>1 DEF log_gas_cost, G_log, G_logtopic
    <3>2. G_logdata \in Nat
      BY DEF G_logdata
    <3>3. log_gas_cost(t, s, g) = Exact(first_part + G_logdata * s, g)
      BY <3>1, <3>2, FixedAndScaledExact
    <3> QED BY <3>3 DEF G_logdata
  <2>3. Price("log", <<t, s>>) = first_part + 8 * s /\ ~Refused("log", <<t, s>>)
    BY <2>1 DEF Price, Refused
  <2> QED BY <2>2, <2>3 DEF Fair
<1>3. ASSUME NEW a \in BOOLEAN, NEW s \in Nat
      PROVE  Fair("deposit", <<a, s>>, g, code_deployment_execution_cost(a, s, g))
  <2> DEFINE args == <<a, s>>
             charge == code_deployment_execution_cost(a, s, g)
  <2>1. PICK w \in Nat : w = memory_word_count(s) /\ w = CeilDiv(s, WordBytes)
    BY WordCount
  <2>2. args[1] = a /\ args[2] = s
    OBVIOUS
  <2> HIDE DEF args
  <2>3. CASE a
    <3>1. charge = IF s <= CodeSizeLimit THEN Exact(G_keccak_word * memory_word_count(s), g)
                   ELSE GAS_CHARGE_UNAFFORDABLE
      BY <2>3, DepositExact, Zenon
    <3>2. Price("deposit", args) = 6 * w
      BY <2>1, <2>2, <2>3 DEF Price
    <3>3. Refused("deposit", args) <=> ~(s <= CodeSizeLimit)
      <4>1. Refused("deposit", args) <=> s > CodeSizeLimit
        BY <2>2, <2>3 DEF Refused
      <4>2. CodeSizeLimit \in Nat
        BY GasFormulasAssumption
      <4> QED BY <4>1, <4>2
    <3> HIDE DEF charge
    <3> QED BY <2>1, <3>1, <3>2, <3>3 DEF Fair, args, charge, G_keccak_word
  <2>4. CASE ~a
    <3>1. charge = Exact(G_codedeposit * s, g)
      BY <2>4, DepositExact, Zenon
    <3>2. Price("deposit", args) = 200 * s /\ ~Refused("deposit", args)
      BY <2>2, <2>4 DEF Price, Refused
    <3> HIDE DEF charge
    <3> QED BY <3>1, <3>2 DEF Fair, args, charge, G_codedeposit
  <2> QED BY <2>3, <2>4 DEF args
<1>4. ASSUME NEW base \in Nat, NEW k \in Nat
      PROVE  Fair("msm", <<base, k>>, g, bls_msm_gas(Discounts, base, MaxDiscount, k, g))
  <2>1. Discounts \in Seq(Nat) \ {<<>>} /\ MaxDiscount = Discounts[Len(Discounts)]
    BY GasFormulasAssumption
  <2>2. bls_msm_gas(Discounts, base, MaxDiscount, k, g)
          = Exact(PairsPrice(Discounts, base, k), g)
    BY <2>1, PairsExact
  <2>3. Price("msm", <<base, k>>) = PairsPrice(Discounts, base, k)
    BY DEF Price, PairsPrice
  <2> QED BY <2>2, <2>3 DEF Fair, Refused
<1>5. ASSUME NEW base \in Nat, NEW per \in Nat, NEW k \in Nat
      PROVE  Fair("linear", <<base, per, k>>, g, linear_gas(base, per, k, g))
  <2>1. PICK cost \in Nat : cost = base + per * k /\ cost = per * k + base
    OBVIOUS
  <2>2. linear_gas(base, per, k, g) = Exact(cost, g)
    BY <2>1 DEF linear_gas, Exact
  <2>3. Price("linear", <<base, per, k>>) = cost
    BY <2>1 DEF Price
  <2> QED BY <2>2, <2>3 DEF Fair, Refused
<1>6. ASSUME NEW cost \in Nat
      PROVE  Fair("fixed", <<cost>>, g, fixed_precompile_gas(cost, g))
  BY DEF Fair, Refused, Price, Exact, fixed_precompile_gas
<1>7. /\ \A s \in Nat : Fair("keccak", <<s>>, g, keccak_gas_cost(s, g))
      /\ \A s \in Nat : Fair("copy", <<s>>, g, copy_gas_cost(s, g))
  BY <1>1, Zenon
<1>8. \A t \in Nat, s \in Nat : Fair("log", <<t, s>>, g, log_gas_cost(t, s, g))
  BY <1>2, Zenon
<1>9. \A a \in BOOLEAN, s \in Nat :
        Fair("deposit", <<a, s>>, g, code_deployment_execution_cost(a, s, g))
  BY <1>3, Zenon
<1>10. \A base \in Nat, k \in Nat :
         Fair("msm", <<base, k>>, g, bls_msm_gas(Discounts, base, MaxDiscount, k, g))
  BY <1>4, Zenon
<1>11. \A base \in Nat, per \in Nat, k \in Nat :
         Fair("linear", <<base, per, k>>, g, linear_gas(base, per, k, g))
  BY <1>5, Zenon
<1>12. \A cost \in Nat : Fair("fixed", <<cost>>, g, fixed_precompile_gas(cost, g))
  BY <1>6, Zenon
<1> QED BY <1>7, <1>8, <1>9, <1>10, <1>11, <1>12

(* So is that of MODEXP, and what is charged can be run (modexp_gas).      *)
LEMMA ModexpIsFair ==
    ASSUME NEW osaka \in BOOLEAN, NEW in, ModexpNumbers(in), NEW g \in Nat
    PROVE  Fair("modexp", <<osaka, in>>, g, modexp_gas(osaka, in, g))
<1> DEFINE TooLong == Max({in.bl, in.el, in.ml}) > ModexpBound
           args == <<osaka, in>>
<1>1. args[1] = osaka /\ args[2] = in
  OBVIOUS
<1> HIDE DEF args
<1>2. Refused("modexp", args) <=> osaka /\ TooLong
  BY <1>1 DEF Refused
<1>3. Price("modexp", args) = IF osaka THEN Eip7883(in) ELSE Eip2565(in)
  BY <1>1 DEF Price
<1>4. modexp_gas(TRUE, in, g) = IF TooLong THEN GAS_CHARGE_UNAFFORDABLE
                                ELSE Exact(Eip7883(in), g)
  BY Eip7883Exact
<1>5. modexp_gas(FALSE, in, g) = Exact(Eip2565(in), g)
  BY Eip2565Exact
<1>6. ~TooLong => run_modexp(in)
  <2>1. in.bl \in Nat /\ in.el \in Nat /\ in.ml \in Nat
    BY DEF ModexpNumbers
  <2>2. /\ Max({in.bl, in.el, in.ml}) \in Nat /\ Max({in.bl, in.el, in.ml}) >= in.bl
        /\ Max({in.bl, in.el, in.ml}) >= in.el /\ Max({in.bl, in.el, in.ml}) >= in.ml
    BY <2>1, MaxOfThree
  <2>3. /\ ModexpBound \in Nat /\ AcceleratorMax \in Nat
        /\ 96 + 3 * ModexpBound <= AcceleratorMax
    BY GasFormulasAssumption
  <2> QED BY <2>1, <2>2, <2>3 DEF run_modexp, Header
<1> HIDE DEF TooLong
<1>7. modexp_gas(osaka, in, g) = IF Refused("modexp", args) THEN GAS_CHARGE_UNAFFORDABLE
                                 ELSE Exact(Price("modexp", args), g)
  BY <1>2, <1>3, <1>4, <1>5
<1>8. osaka /\ modexp_gas(osaka, in, g).affordable => ~TooLong
  BY <1>4, ChargeFacts, Zenon
<1> QED BY <1>1, <1>6, <1>7, <1>8 DEF Fair, args

(* What is asked is answered exactly (Ask).                                *)
LEMMA AskAnswers ==
    ASSUME NEW kind, NEW args, NEW available, NEW charge,
           Ask(kind, args, available, charge), Fair(kind, args, available, charge)
    PROVE  QuotesAreExact' /\ PaidModexpRuns'
<1> DEFINE q == [kind |-> kind, args |-> args, available |-> available, charge |-> charge]
<1>1. quote' = q
  BY DEF Ask
<1>2. q.kind = kind /\ q.args = args /\ q.available = available /\ q.charge = charge
  OBVIOUS
<1>3. charge = IF Price(kind, args) <= available /\ ~Refused(kind, args)
               THEN gas_charge(Price(kind, args)) ELSE GAS_CHARGE_UNAFFORDABLE
  BY Zenon DEF Fair, Exact
<1> HIDE DEF q
<1>4. q.charge = IF Price(q.kind, q.args) <= q.available /\ ~Refused(q.kind, q.args)
                 THEN gas_charge(Price(q.kind, q.args)) ELSE GAS_CHARGE_UNAFFORDABLE
  BY <1>2, <1>3, Zenon
<1>5. (q.kind = "modexp" /\ q.args[1] /\ q.charge.affordable) => run_modexp(q.args[2])
  BY <1>2, Zenon DEF Fair
<1>6. QuotesAreExact'
  BY <1>1, <1>4, Zenon DEF QuotesAreExact
<1>7. PaidModexpRuns'
  BY <1>1, <1>5, Zenon DEF PaidModexpRuns
<1> QED BY <1>6, <1>7

ChargesInv ==
    budget \in Nat /\ height \in Nat /\ MemoryIsPaidOnce /\ QuotesAreExact /\ PaidModexpRuns

(* Every access and every quote preserves it (ChargesNext).                *)
LEMMA ChargesStep ==
    ASSUME ChargesInv, ChargesNext
    PROVE  ChargesInv'
<1>1. ASSUME UNCHANGED <<budget, height, paid>>, QuotesAreExact' /\ PaidModexpRuns'
      PROVE  ChargesInv'
  BY <1>1 DEF ChargesInv, MemoryIsPaidOnce
<1>2. ASSUME NEW kind, NEW args, NEW available, NEW charge,
             Ask(kind, args, available, charge), Fair(kind, args, available, charge)
      PROVE  ChargesInv'
  <2>1. UNCHANGED <<budget, height, paid>>
    BY <1>2 DEF Ask
  <2> QED BY <1>1, <1>2, <2>1, AskAnswers
<1>3. Budgets \subseteq Nat /\ Sizes \subseteq Nat /\ PairCounts \subseteq Nat
  BY GasChargesAssumption
<1>4. ASSUME NEW start \in Offsets, NEW bytes \in Sizes, Touch(start, bytes)
      PROVE  ChargesInv'
  <2>1. budget' \in Nat /\ height' \in Nat /\ MemoryIsPaidOnce'
    BY <1>4, TouchPays DEF ChargesInv
  <2>2. UNCHANGED quote
    BY <1>4 DEF Touch
  <2> QED BY <2>1, <2>2 DEF ChargesInv, QuotesAreExact, PaidModexpRuns
<1>5. CASE AskKeccak
  <2>1. PICK s \in Sizes, g \in Budgets : Ask("keccak", <<s>>, g, keccak_gas_cost(s, g))
    BY <1>5 DEF AskKeccak
  <2>2. Fair("keccak", <<s>>, g, keccak_gas_cost(s, g))
    BY <1>3, ChargesAreFair
  <2> QED BY <1>2, <2>1, <2>2
<1>6. CASE AskCopy
  <2>1. PICK s \in Sizes, g \in Budgets : Ask("copy", <<s>>, g, copy_gas_cost(s, g))
    BY <1>6 DEF AskCopy
  <2>2. Fair("copy", <<s>>, g, copy_gas_cost(s, g))
    BY <1>3, ChargesAreFair
  <2> QED BY <1>2, <2>1, <2>2
<1>7. CASE AskLog
  <2>1. PICK t \in 0 .. 4, s \in Sizes, g \in Budgets :
          Ask("log", <<t, s>>, g, log_gas_cost(t, s, g))
    BY <1>7 DEF AskLog
  <2>2. Fair("log", <<t, s>>, g, log_gas_cost(t, s, g))
    BY <1>3, ChargesAreFair
  <2> QED BY <1>2, <2>1, <2>2
<1>8. CASE AskDeposit
  <2>1. PICK a \in BOOLEAN, s \in Sizes, g \in Budgets :
          Ask("deposit", <<a, s>>, g, code_deployment_execution_cost(a, s, g))
    BY <1>8 DEF AskDeposit
  <2>2. Fair("deposit", <<a, s>>, g, code_deployment_execution_cost(a, s, g))
    BY <1>3, ChargesAreFair
  <2> QED BY <1>2, <2>1, <2>2
<1>9. CASE AskModexp
  <2>1. PICK o \in BOOLEAN, in \in ModexpInputs, g \in Budgets :
          Ask("modexp", <<o, in>>, g, modexp_gas(o, in, g))
    BY <1>9 DEF AskModexp
  <2>2. ModexpNumbers(in) /\ g \in Nat
    BY <1>3, GasChargesAssumption DEF ModexpNumbers
  <2>3. Fair("modexp", <<o, in>>, g, modexp_gas(o, in, g))
    BY <2>2, ModexpIsFair
  <2> QED BY <1>2, <2>1, <2>3
<1>10. CASE AskMsm
  <2>1. PICK base \in Nat, k \in PairCounts, g \in Budgets :
          Ask("msm", <<base, k>>, g, bls_msm_gas(Discounts, base, MaxDiscount, k, g))
    BY <1>10 DEF AskMsm
  <2>2. Fair("msm", <<base, k>>, g, bls_msm_gas(Discounts, base, MaxDiscount, k, g))
    BY <1>3, ChargesAreFair
  <2> QED BY <1>2, <2>1, <2>2
<1>11. CASE AskPairing
  <2>1. PICK base \in Nat, per \in Nat, k \in PairCounts, g \in Budgets :
          Ask("linear", <<base, per, k>>, g, linear_gas(base, per, k, g))
    BY <1>11 DEF AskPairing
  <2>2. Fair("linear", <<base, per, k>>, g, linear_gas(base, per, k, g))
    BY <1>3, ChargesAreFair
  <2> QED BY <1>2, <2>1, <2>2
<1>12. CASE AskFixed
  <2>1. PICK cost \in Nat, g \in Budgets :
          Ask("fixed", <<cost>>, g, fixed_precompile_gas(cost, g))
    BY <1>12 DEF AskFixed
  <2>2. Fair("fixed", <<cost>>, g, fixed_precompile_gas(cost, g))
    BY <1>3, ChargesAreFair
  <2> QED BY <1>2, <2>1, <2>2
<1>13. CASE Forget
  BY <1>1, <1>13 DEF Forget, QuotesAreExact, PaidModexpRuns
<1>14. CASE Spent
  BY <1>14 DEF Spent, charges, ChargesInv, MemoryIsPaidOnce, QuotesAreExact, PaidModexpRuns
<1> QED BY <1>4, <1>5, <1>6, <1>7, <1>8, <1>9, <1>10, <1>11, <1>12, <1>13, <1>14
        DEF ChargesNext

-----------------------------------------------------------------------------
(* The calls of precompiles.                                               *)

PrecompilesInv ==
    /\ calls \in Nat /\ DOMAIN buffer \subseteq Nat
    /\ PrecompilesAreGuarded /\ EveryItemIsPaid

(* A call is charged, guarded and answered as it should (Call).            *)
LEMMA CallIsGuarded ==
    ASSUME PrecompilesInv, NEW a \in PRECOMPILE_ADDRESSES, NEW in \in Inputs(a), Call(a, in)
    PROVE  PrecompilesInv'
<1> DEFINE n == precompile_id_for_address(a)
           charge == precompile_gas(n, in, CallGas)
           reached == charge.affordable /\ InputAccepted(n, in)
           result == IF charge.affordable THEN run_precompile_slice(n, in)
                     ELSE precompile_failure
           written == Max({IF reached THEN AcceleratorWrites(n, in) ELSE 0, result.stored})
           c == [id |-> n, in |-> in, charge |-> charge, reached |-> reached,
                 success |-> result.success, shown |-> result.shown]
<1>1. /\ n # NotPrecompile /\ calls' = calls + 1 /\ call' = c
      /\ buffer' = [w \in DOMAIN buffer |-> IF w * WORD < written THEN calls' ELSE buffer[w]]
  BY Zenon DEF Call
<1>2. n = a /\ n \in PRECOMPILE_ADDRESSES
  BY <1>1 DEF precompile_id_for_address
<1>3. in.len \in Nat /\ in.ml \in Nat /\ in.dirty \in Nat
  <2> DEFINE Numbers(i) == {i.len, i.dirty, i.rounds, i.bl, i.el, i.ml, i.bits} \subseteq Nat
  <2>1. \A x \in PRECOMPILE_ADDRESSES : \A i \in Inputs(x) : Numbers(i)
    BY PrecompilesAssumption DEF PRECOMPILE_ADDRESSES
  <2>2. Numbers(in)
    <3> HIDE DEF Numbers
    <3> QED BY <2>1
  <2> QED BY <2>2
<1> HIDE DEF n, charge
<1>4. /\ c.id = n /\ c.in = in /\ c.charge = charge /\ c.reached = reached
      /\ c.success = result.success /\ c.shown = result.shown
  BY Zenon
<1>5. /\ written \in Nat /\ result.shown \in Nat /\ result.shown <= written
      /\ ~result.success => result.shown = 0
  <2> DEFINE r == run_precompile_slice(n, in)
             filled == IF InputAccepted(n, in) THEN AcceleratorWrites(n, in) ELSE 0
  <2>1. /\ r.stored \in Nat /\ filled \in Nat /\ r.shown \in Nat
        /\ r.shown <= filled \/ r.shown <= r.stored
        /\ ~r.success => r.shown = 0
    BY <1>2, <1>3, ShownIsWritten
  <2>2. /\ precompile_failure.stored = 0 /\ precompile_failure.shown = 0
    BY DEF precompile_failure, Result
  <2> HIDE DEF r
  <2>3. CASE charge.affordable
    <3>1. result = r
      BY <2>3 DEF r
    <3>2. (IF reached THEN AcceleratorWrites(n, in) ELSE 0) = filled
      BY <2>3, Zenon
    <3> HIDE DEF result, reached, filled
    <3>3. written = IF filled >= r.stored THEN filled ELSE r.stored
      BY <2>1, <3>1, <3>2, MaxOfTwo
    <3> HIDE DEF written
    <3> QED BY <2>1, <3>1, <3>3
  <2>4. CASE ~charge.affordable
    <3>1. result = precompile_failure
      BY <2>4
    <3>2. (IF reached THEN AcceleratorWrites(n, in) ELSE 0) = 0
      BY <2>4, Zenon
    <3> HIDE DEF result, reached
    <3>3. written = 0
      BY <2>2, <3>1, <3>2, MaxOfTwo
    <3> HIDE DEF written
    <3> QED BY <2>2, <3>1, <3>3
  <2> QED BY <2>3, <2>4
<1>6. n \in BLS => (reached = (charge.affordable /\ WellFormed(n, in)))
  <2>1. n \in BLS => (InputAccepted(n, in) <=> WellFormed(n, in))
    BY <1>3, PaddingReachesAll
  <2> QED BY <2>1
<1>7. reached => ItemsPaid(n, in, charge.cost)
  BY <1>2, <1>3, ItemsArePaid DEF charge
<1> HIDE DEF reached, result, written, c
<1>8. OnlyWellFormedPoints'
  BY <1>1, <1>4, <1>6, Zenon DEF OnlyWellFormedPoints
<1>9. EveryItemIsPaid'
  <2>1. c.reached => ItemsPaid(c.id, c.in, c.charge.cost)
    BY <1>4, <1>7
  <2> QED BY <1>1, <2>1 DEF EveryItemIsPaid, ItemsPaid
<1>10. OutputIsOfThisCall'
  <2>1. calls' \in Nat
    BY <1>1 DEF PrecompilesInv
  <2>2. ASSUME NEW w \in DOMAIN buffer', w * WORD < c.shown
        PROVE  buffer'[w] = calls'
    <3>1. w \in DOMAIN buffer /\ w \in Nat
      BY <1>1 DEF PrecompilesInv
    <3>2. w * WORD < written
      BY <1>4, <1>5, <2>2, <3>1 DEF WORD
    <3> QED BY <1>1, <3>1, <3>2
  <2>3. ~c.success => c.shown = 0
    BY <1>4, <1>5
  <2> QED BY <1>1, <2>2, <2>3 DEF OutputIsOfThisCall
<1>11. calls' \in Nat /\ DOMAIN buffer' \subseteq Nat
  BY <1>1 DEF PrecompilesInv
<1> QED BY <1>8, <1>9, <1>10, <1>11 DEF PrecompilesInv, PrecompilesAreGuarded

(* So does every step between calls (PrecompilesNext).                     *)
LEMMA PrecompilesStep ==
    ASSUME PrecompilesInv, PrecompilesNext
    PROVE  PrecompilesInv'
<1>1. CASE \E a \in PRECOMPILE_ADDRESSES : \E in \in Inputs(a) : Call(a, in)
  BY <1>1, CallIsGuarded
<1>2. CASE GoOn
  BY <1>2 DEF GoOn, PrecompilesInv, PrecompilesAreGuarded, OnlyWellFormedPoints,
              OutputIsOfThisCall, EveryItemIsPaid
<1>3. CASE CallsEnded
  BY <1>3 DEF CallsEnded, precompiles, PrecompilesInv, PrecompilesAreGuarded,
              OnlyWellFormedPoints, OutputIsOfThisCall, EveryItemIsPaid
<1> QED BY <1>1, <1>2, <1>3 DEF PrecompilesNext

(* What holds of every charge and every call of a precompile.              *)
THEOREM GasInvariant == GasSpec => [](ChargesInv /\ PrecompilesInv)
<1>1. ChargesInit /\ PrecompilesInit => ChargesInv /\ PrecompilesInv
  <2> SUFFICES ASSUME ChargesInit, PrecompilesInit PROVE ChargesInv /\ PrecompilesInv
    OBVIOUS
  <2>1. budget \in Nat /\ height = 0 /\ paid = 0 /\ quote = NoQuote
    BY GasChargesAssumption DEF ChargesInit
  <2>2. MemoryIsPaidOnce
    <3>1. memory_word_count(0) = 0
      <4>1. WordBytes \in Nat /\ WordBytes > 0
        BY GasFormulasAssumption
      <4>2. 0 \div WordBytes = 0 /\ 0 % WordBytes = 0
        <5>1. 0 = WordBytes * 0 + 0
          BY <4>1
        <5>2. 0 \div WordBytes = 0
          BY <4>1, <5>1, Quotient
        <5>3. 0 % WordBytes \in Nat /\ 0 = WordBytes * 0 + (0 % WordBytes)
          BY <4>1, <5>2, Division
        <5> QED BY <4>1, <5>1, <5>2, <5>3
      <4> QED BY <4>2 DEF memory_word_count
    <3>2. mem_cost(0) = 0
      <4>1. SquareDivisor \in Nat /\ SquareDivisor > 0
        BY GasFormulasAssumption
      <4>2. 0 = SquareDivisor * 0 + 0
        BY <4>1
      <4>3. 0 \div SquareDivisor = 0
        BY <4>1, <4>2, Quotient
      <4> QED BY <4>3 DEF mem_cost, G_memory
    <3>3. 0 <= MaxHeight
      BY GasFormulasAssumption
    <3> QED BY <2>1, <3>1, <3>2, <3>3 DEF MemoryIsPaidOnce
  <2>3. ChargesInv
    BY <2>1, <2>2 DEF ChargesInv, QuotesAreExact, PaidModexpRuns
  <2>4. PrecompilesInv
    <3>1. call = NoCall /\ calls = 0 /\ DOMAIN buffer \subseteq Nat
      BY DEF PrecompilesInit, BLS_G2_POINT_LENGTH, WORD
    <3> QED BY <3>1 DEF PrecompilesInv, PrecompilesAreGuarded, OnlyWellFormedPoints,
                        OutputIsOfThisCall, EveryItemIsPaid
  <2> QED BY <2>3, <2>4
<1>2. /\ ChargesInv /\ PrecompilesInv
      /\ [\/ ChargesNext /\ UNCHANGED precompiles
          \/ PrecompilesNext /\ UNCHANGED charges]_<<charges, precompiles>>
      => (ChargesInv /\ PrecompilesInv)'
  <2>1. ASSUME ChargesInv, UNCHANGED charges
        PROVE  ChargesInv'
    BY <2>1 DEF charges, ChargesInv, MemoryIsPaidOnce, QuotesAreExact, PaidModexpRuns
  <2>2. ASSUME PrecompilesInv, UNCHANGED precompiles
        PROVE  PrecompilesInv'
    BY <2>2 DEF precompiles, PrecompilesInv, PrecompilesAreGuarded, OnlyWellFormedPoints,
                OutputIsOfThisCall, EveryItemIsPaid
  <2>3. UNCHANGED <<charges, precompiles>> => UNCHANGED charges /\ UNCHANGED precompiles
    BY Zenon
  <2> QED BY <2>1, <2>2, <2>3, ChargesStep, PrecompilesStep
<1>3. QED BY <1>1, <1>2, PTL DEF GasSpec

(* The early exits of the formulas never change a verdict, memory is paid  *)
(* for once, a MODEXP that has been paid for runs, and no item is free,    *)
(* whatever the inputs, the gas and the discounts (evm/gas.py,             *)
(* precompile_gas).                                                        *)
THEOREM ChargesExact == GasSpec => []ChargesAreExact
<1>1. ChargesInv /\ PrecompilesInv => ChargesAreExact
  BY DEF ChargesInv, PrecompilesInv, ChargesAreExact
<1> QED BY <1>1, GasInvariant, PTL

(* An accelerator of EIP-2537 sees well-formed points and nothing else,    *)
(* and a caller sees only bytes of its own call, for inputs of any length  *)
(* (run_precompile_slice).                                                 *)
THEOREM PrecompilesGuarded == GasSpec => []PrecompilesAreGuarded
<1>1. PrecompilesInv => PrecompilesAreGuarded
  BY DEF PrecompilesInv
<1> QED BY <1>1, GasInvariant, PTL
=============================================================================
