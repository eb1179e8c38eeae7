------------------------------ MODULE CodeWalk ------------------------------
(***************************************************************************)
(* Code as the interpreter walks it: the scan that finds jump destinations *)
(* when code is stored (host/code.py), the decoder that fetches the next   *)
(* instruction (evm/interpreter.py), the jumps, and the second decoder     *)
(* that dispatch by opcode uses.  Operands of EIP-8024 instructions lie in *)
(* the code, but a byte that no operand may have is left in place.         *)
(***************************************************************************)
EXTENDS ForkOrder, Integers, Sequences, FiniteSets, SequencesExt, FiniteSetsExt, TLC

CONSTANTS
    Codes,          \* the codes of this instance, sequences of bytes
    Forks,          \* forks that occur, as numbers
    CalldataSizes,  \* what CALLDATASIZE may answer
    StartGas, STACK_LIMIT

VARIABLES
    code, fork, size,   \* of the frame, fixed
    scan,               \* position of the scan; Len(code) once it is over
    table,              \* positions marked so far (JumpdestTable.positions)
    pc, stack, gas, status,
    came                \* how the frame got to pc

walk == <<code, fork, size, scan, table, pc, stack, gas, status, came>>
fixed == <<code, fork, size>>

code_slice_byte(i) == IF i < Len(code) THEN code[i + 1] ELSE 0
Byte == 0 .. 255

ASSUME CodeWalkAssumption == Codes \subseteq Seq(Byte) /\ Forks \subseteq Nat

-----------------------------------------------------------------------------
(* Operands in the code. *)
DeepStack ==
    [op \in 230 .. 232 |-> CASE op = 230 -> "DUPN" [] op = 231 -> "SWAPN" [] op = 232 -> "EXCHANGE"]
deep_stack_operation(op) == IF op \in DOMAIN DeepStack THEN DeepStack[op] ELSE "none"
deep_stack_immediate_valid(b) == b <= 90 \/ 128 <= b
exchange_immediate_valid(b) == b <= 81 \/ 128 <= b
MutImmediateValid(operation, b) ==
    operation # "none" /\ (b <= 91 \/ 128 <= b)

deep_stack_operation_immediate_valid(operation, b) ==
    \/ operation \in {"DUPN", "SWAPN"} /\ deep_stack_immediate_valid(b)
    \/ operation = "EXCHANGE" /\ exchange_immediate_valid(b)

decode_single_stack_index(b) == IF b <= 90 THEN b + 145 ELSE b - 111
(* b xor 10001111, by halves. *)
Complement(n) == 15 - n
MutExchangeIndices(b) ==
    LET q == IF b \div 16 >= 8 THEN b \div 16 - 8 ELSE b \div 16 + 8
        r == Complement(b % 16)
    IN  IF q < r THEN <<q + 1, r + 1>> ELSE <<r + 1, 30 - q>>

decode_exchange_stack_indices(b) ==
    LET q == IF b \div 16 >= 8 THEN b \div 16 - 8 ELSE b \div 16 + 8
        r == Complement(b % 16)
    IN  IF q < r THEN <<q + 1, r + 1>> ELSE <<r + 1, 29 - q>>

-----------------------------------------------------------------------------
(* The instruction table. *)
Since == [op \in {30, 72, 73, 74, 75, 92, 93, 94, 95, 230, 231, 232} |->
    CASE op = 30 -> Osaka [] op = 72 -> London [] op \in {73, 74, 92, 93, 94} -> Cancun
      [] op = 95 -> Shanghai [] op \in {75, 230, 231, 232} -> Amsterdam]
opcode_available(op, f) == op \in DOMAIN Since => f >= Since[op]

Row(first, names) == [op \in first .. first + Len(names) - 1 |-> names[op - first + 1]]
ArithmeticOps ==
    Row(0, <<"STOP", "ADD", "MUL", "SUB", "DIV", "SDIV", "MOD", "SMOD", "ADDMOD", "MULMOD",
             "EXP", "SIGNEXTEND">>)
CompareOps ==
    Row(16, <<"LT", "GT", "SLT", "SGT", "EQ", "ISZERO", "AND", "OR", "XOR", "NOT", "BYTE",
              "SHL", "SHR", "SAR", "CLZ">>)
EnvironmentOps ==
    Row(32, <<"KECCAK256">>)
    @@ Row(48, <<"ADDRESS", "BALANCE", "ORIGIN", "CALLER", "CALLVALUE", "CALLDATALOAD",
                 "CALLDATASIZE", "CALLDATACOPY", "CODESIZE", "CODECOPY", "GASPRICE",
                 "EXTCODESIZE", "EXTCODECOPY", "RETURNDATASIZE", "RETURNDATACOPY",
                 "EXTCODEHASH", "BLOCKHASH", "COINBASE", "TIMESTAMP", "NUMBER", "PREVRANDAO",
                 "GASLIMIT", "CHAINID", "SELFBALANCE", "BASEFEE", "BLOBHASH", "BLOBBASEFEE",
                 "SLOTNUM">>)
FrameOps ==
    Row(80, <<"POP", "MLOAD", "MSTORE", "MSTORE8", "SLOAD", "SSTORE", "JUMP", "JUMPI", "PC",
              "MSIZE", "GAS", "JUMPDEST", "TLOAD", "TSTORE", "MCOPY">>)
SystemOps ==
    Row(240, <<"CREATE", "CALL", "CALLCODE", "RETURN", "DELEGATECALL", "CREATE2">>)
    @@ (250 :> "STATICCALL") @@ (253 :> "REVERT") @@ (255 :> "SELFDESTRUCT")
Named == ArithmeticOps @@ CompareOps @@ EnvironmentOps @@ FrameOps @@ SystemOps

(* An instruction is its name and its number or operand. *)
decode_simple(op, f) ==
    IF ~opcode_available(op, f) THEN <<"INVALID", 0>>
    ELSE CASE op \in 128 .. 143   -> <<"DUP", op - 127>>
           [] op \in 144 .. 159   -> <<"SWAP", op - 143>>
           [] op \in 160 .. 164   -> <<"LOG", op - 160>>
           [] op \in DOMAIN Named -> <<Named[op], 0>>
           [] OTHER               -> <<"INVALID", 0>>

(* The operand bytes are read from the code; past its end they are zero. *)
read_push(at, width) == FoldLeft(LAMBDA w, b : w * 256 + b, 0,
                                 [i \in 1 .. width |-> code_slice_byte(at + i - 1)])
decode_push_immediate(at, width) == <<at + width, read_push(at, width)>>
decode_deep_immediate(at, operation) ==
    <<IF deep_stack_operation_immediate_valid(operation, code_slice_byte(at)) THEN at + 1 ELSE at,
      code_slice_byte(at)>>

(* <<next pc, instruction>> *)
fetch(at, f) ==
    LET op == code_slice_byte(at)
        push == decode_push_immediate(at + 1, op - 95)
        deep == decode_deep_immediate(at + 1, deep_stack_operation(op))
    IN  CASE at >= Len(code) -> <<at, <<"STOP", 0>>>>
          [] at < Len(code) /\ ~opcode_available(op, f) -> <<at + 1, <<"INVALID", 0>>>>
          [] at < Len(code) /\ opcode_available(op, f) /\ op \in 95 .. 127 ->
                <<push[1], <<"PUSH", push[2]>>>>
          [] at < Len(code) /\ opcode_available(op, f) /\ op \in DOMAIN DeepStack ->
                <<deep[1], <<DeepStack[op], deep[2]>>>>
          [] OTHER -> <<at + 1, decode_simple(op, f)>>

(* Dispatch by opcode hands the byte to the handler of its group, which    *)
(* finds number and operand itself; the group was chosen by the fork.      *)
execute_push_encoded(op, at) ==
    LET i == decode_push_immediate(at, op - 95) IN <<i[1], <<"PUSH", i[2]>>>>
execute_dup_encoded(op, at) == <<at, <<"DUP", op - 127>>>>
execute_swap_encoded(op, at) == <<at, <<"SWAP", op - 143>>>>
execute_log_encoded(op, at) == <<at, <<"LOG", op - 160>>>>
execute_deep_stack_encoded(op, at) ==
    LET i == decode_deep_immediate(at, deep_stack_operation(op))
    IN  <<i[1], <<DeepStack[op], i[2]>>>>

-----------------------------------------------------------------------------
(* The scan, one instruction at a time. *)
ScanStep(op, after) ==
    CASE op \in 96 .. 127 -> op - 94
      [] OTHER -> IF fork >= Amsterdam
                     /\ deep_stack_operation_immediate_valid(deep_stack_operation(op), after)
                  THEN 2 ELSE 1

analyze_code_from ==
    /\ scan < Len(code)
    /\ LET op == code_slice_byte(scan)
       IN  /\ table' = IF op = 91 THEN table \cup {scan} ELSE table
           /\ scan' = Min({Len(code), scan + ScanStep(op, code_slice_byte(scan + 1))})
    /\ UNCHANGED <<fixed, pc, stack, gas, status, came>>

jumpdest_ref_contains(dest) == dest < Len(code) /\ dest \in table

-----------------------------------------------------------------------------
(* The frame.  The whole code was scanned before any of it runs. *)
WalkStart ==
    /\ scan = 0 /\ table = {} /\ pc = 0 /\ stack = <<>> /\ gas = StartGas
    /\ status = "running" /\ came = "entry"
WalkInit == code \in Codes /\ fork \in Forks /\ size \in CalldataSizes /\ WalkStart

Here == fetch(pc, fork)
Is(names) == scan = Len(code) /\ status = "running" /\ Here[2][1] \in names
Halt(kind) ==
    /\ status' = kind /\ UNCHANGED <<fixed, scan, table, pc, stack, gas, came>>
(* guard_stack, then the price. *)
Fails(inputs, outputs, cost) ==
    Len(stack) < inputs \/ Len(stack) - inputs + outputs > STACK_LIMIT \/ gas < cost
Go(to, s, cost, how) ==
    /\ pc' = to /\ stack' = s /\ gas' = gas - cost /\ came' = how
    /\ UNCHANGED <<fixed, scan, table, status>>
Top(i) == stack[Len(stack) - i]
Drop(n) == SubSeq(stack, 1, Len(stack) - n)

Fetched(inputs, outputs, cost, s) ==
    IF Fails(inputs, outputs, cost) THEN Halt("exception") ELSE Go(Here[1], s, cost, "next")

execute_stop == Is({"STOP"}) /\ Halt("stop")
execute_invalid == Is({"INVALID"}) /\ Halt("exception")
execute_jumpdest == Is({"JUMPDEST"}) /\ Fetched(0, 0, 1, stack)
(* PUSH0 costs less than the others. *)
execute_push ==
    /\ Is({"PUSH"})
    /\ Fetched(0, 1, IF code_slice_byte(pc) = 95 THEN 2 ELSE 3, Append(stack, Here[2][2]))
execute_calldatasize == Is({"CALLDATASIZE"}) /\ Fetched(0, 1, 2, Append(stack, size))
(* The program counter already stands after the opcode. *)
execute_pc == Is({"PC"}) /\ Fetched(0, 1, 2, Append(stack, Here[1] - 1))

do_jump(dest, s, cost) ==
    IF jumpdest_ref_contains(dest) THEN Go(dest, s, cost, "jump") ELSE Halt("exception")
execute_jump ==
    /\ Is({"JUMP"})
    /\ IF Fails(1, 0, 8) THEN Halt("exception") ELSE do_jump(Top(0), Drop(1), 8)
execute_jumpi ==
    /\ Is({"JUMPI"})
    /\ IF Fails(2, 0, 10) THEN Halt("exception")
       ELSE IF Top(1) = 0 THEN Go(Here[1], Drop(2), 10, "next")
       ELSE do_jump(Top(0), Drop(2), 10)

Swap(i, j) == [k \in 1 .. Len(stack) |->
    CASE k = Len(stack) - i -> Top(j) [] k = Len(stack) - j -> Top(i) [] OTHER -> stack[k]]
execute_dupn ==
    /\ Is({"DUPN"})
    /\ LET b == Here[2][2]
           n == decode_single_stack_index(b)
       IN  IF ~deep_stack_immediate_valid(b) THEN Halt("exception")
           ELSE Fetched(n, n + 1, 3, Append(stack, Top(n - 1)))
execute_swapn ==
    /\ Is({"SWAPN"})
    /\ LET b == Here[2][2]
           n == decode_single_stack_index(b)
       IN  IF ~deep_stack_immediate_valid(b) THEN Halt("exception")
           ELSE Fetched(n + 1, n + 1, 3, Swap(0, n))
execute_exchange ==
    /\ Is({"EXCHANGE"})
    /\ LET b == Here[2][2]
           p == decode_exchange_stack_indices(b)
       IN  IF ~exchange_immediate_valid(b) THEN Halt("exception")
           ELSE Fetched(p[2] + 1, p[2] + 1, 3, Swap(p[1], p[2]))

WalkEnded == status # "running" /\ UNCHANGED walk

WalkNext ==
    \/ analyze_code_from
    \/ execute_stop \/ execute_invalid \/ execute_jumpdest \/ execute_push
    \/ execute_calldatasize \/ execute_pc \/ execute_jump \/ execute_jumpi
    \/ execute_dupn \/ execute_swapn \/ execute_exchange \/ WalkEnded

WalkSpec == WalkInit /\ [][WalkNext]_walk

-----------------------------------------------------------------------------
(* Where instructions start: position 0, and after each instruction the    *)
(* next byte that is not its operand.                                      *)
Operand(op, b) ==
    \/ op \in {230, 231} /\ b \notin 91 .. 127
    \/ op = 232 /\ b \notin 82 .. 127
LengthAt(i) ==
    LET op == code_slice_byte(i)
    IN  IF op \in 96 .. 127 THEN op - 94
        ELSE IF fork >= Amsterdam /\ Operand(op, code_slice_byte(i + 1)) THEN 2 ELSE 1
InstructionLengths == [i \in 0 .. Len(code) - 1 |-> LengthAt(i)]
LegacyLengths ==
    [i \in 0 .. Len(code) - 1 |->
        IF code_slice_byte(i) \in 96 .. 127 THEN code_slice_byte(i) - 94 ELSE 1]
Starts(length) ==
    LET start[k \in 0 .. Len(code)] ==
            k = 0 \/ \E p \in 0 .. k - 1 : p + length[p] = k /\ start[p]
    IN  {i \in 0 .. Len(code) - 1 : start[i]}
Jumpdests(starts) == {i \in starts : code_slice_byte(i) = 91}

(* Whatever the code and the operands, a frame only ever executes bytes    *)
(* that start an instruction, and arrives by a jump only at a JUMPDEST     *)
(* that is one; every such JUMPDEST can be jumped to.  Code outlives       *)
(* forks: its jump destinations are the ones a scan without the operands   *)
(* of EIP-8024 finds (analyze_code_from, fetch, decode_deep_immediate,     *)
(* deep_stack_operation_immediate_valid, do_jump).                         *)
JumpsLandOnInstructions ==
    scan = Len(code) =>
        /\ table = Jumpdests(Starts(InstructionLengths))
        /\ table = Jumpdests(Starts(LegacyLengths))
        /\ status = "running" /\ pc < Len(code) => pc \in Starts(InstructionLengths)
        /\ came = "jump" => code_slice_byte(pc) = 91

(* A fork only adds instructions: what a byte meant it means at every      *)
(* later fork, no two bytes mean the same one, and a byte that means       *)
(* nothing yet is invalid (opcode_available, decode_simple).               *)
Simple == Byte \ ((95 .. 127) \cup (230 .. 232))
Meaning == [f \in Forks |-> [op \in Simple |-> decode_simple(op, f)]]
Valid == [f \in Forks |-> {op \in Simple : Meaning[f][op][1] # "INVALID"}]
Additive == [f \in Forks |->
    /\ \A g \in Forks : g >= f => \A op \in Valid[f] : Meaning[g][op] = Meaning[f][op]
    /\ Cardinality({Meaning[f][op] : op \in Valid[f]}) = Cardinality(Valid[f])
    /\ \A op \in DOMAIN Since \cap Simple : op \in Valid[f] <=> f >= Since[op]]
ForksOnlyAddInstructions == Additive[fork]

(* The valid operand bytes name every slot that DUP and SWAP cannot reach, *)
(* once each, and every pair of slots that EXCHANGE is meant for, once     *)
(* each (decode_single_stack_index, decode_exchange_stack_indices).        *)
Singles == {b \in Byte : deep_stack_immediate_valid(b)}
Pairs == {b \in Byte : exchange_immediate_valid(b)}
Named17To235 ==
    /\ {decode_single_stack_index(b) : b \in Singles} = 17 .. 235
    /\ Cardinality(Singles) = Cardinality(17 .. 235)
NamedPairs ==
    LET named == {decode_exchange_stack_indices(b) : b \in Pairs}
    IN  /\ named = {p \in (1 .. 14) \X (2 .. 29) : p[1] < p[2] /\ p[1] + p[2] <= 30}
        /\ Cardinality(named) = Cardinality(Pairs)
OperandsNameEverySlot == fork >= Amsterdam => Named17To235 /\ NamedPairs

(* The two decoders read the same instruction with the same operand and    *)
(* continue at the same place, wherever the frame stands (fetch and the    *)
(* handlers execute_push_encoded to execute_deep_stack_encoded); what they *)
(* read means the same at every later fork and reaches every slot.         *)
DecodersAgree ==
    LET op == code_slice_byte(pc)
    IN  /\ ForksOnlyAddInstructions /\ OperandsNameEverySlot
        /\ pc < Len(code) /\ opcode_available(op, fork) =>
               /\ op \in 95 .. 127 => execute_push_encoded(op, pc + 1) = Here
               /\ op \in 128 .. 143 => execute_dup_encoded(op, pc + 1) = Here
               /\ op \in 144 .. 159 => execute_swap_encoded(op, pc + 1) = Here
               /\ op \in 160 .. 164 => execute_log_encoded(op, pc + 1) = Here
               /\ op \in 230 .. 232 => execute_deep_stack_encoded(op, pc + 1) = Here
=============================================================================
