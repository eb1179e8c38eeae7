---------------------------- MODULE Instructions ----------------------------
(***************************************************************************)
(* The instructions of evm/execute.py that stay within one frame: each is  *)
(* the code's sequence of stack guard, charges, operands, effect and       *)
(* result.  A charge that fails leaves the frame without gas.              *)
(***************************************************************************)
EXTENDS Regions

CONSTANTS
    Price,          \* G_base, G_verylow, ... by name
    SquareDivisor, CodeSizeLimit,
    Amsterdam,      \* is the fork Amsterdam or later
    Env,            \* block and transaction fields by name
    External,       \* balance, code hash and so on of another account
    BlockHashes,    \* of the ancestors, nearest first
    BlobHashes

G == INSTANCE GasFormulas WITH ModexpBound <- 0, AcceleratorMax <- 0,
                               Discounts <- <<>>, MaxDiscount <- 0

Failed(m, kind) == [m EXCEPT !.gas = 0, !.status = kind]

guard_stack(m, inputs, outputs, Then(_)) ==
    IF m.sp < inputs THEN Failed(m, "StackUnderflow")
    ELSE IF STACK_LIMIT < m.sp - inputs + outputs THEN Failed(m, "StackOverflow")
    ELSE Then(m)
guard_static(m, Then(_)) == IF m.static THEN Failed(m, "WriteProtection") ELSE Then(m)
Charge(m, cost, Then(_)) ==
    IF m.gas < cost THEN Failed(m, "OutOfGas") ELSE Then([m EXCEPT !.gas = @ - cost])
ChargeIf(m, charge, Then(_)) ==
    IF charge.affordable THEN Then([m EXCEPT !.gas = @ - charge.cost])
    ELSE Failed(m, "OutOfGas")

(* Guard and fixed price together, the shape of most instructions. *)
Simple(m, inputs, outputs, cost, Then(_)) ==
    guard_stack(m, inputs, outputs, LAMBDA g : Charge(g, cost, Then))

Operand(m, i) == stack_slot_read(m, i)
Replace(m, inputs, w) == PushWord(stack_top_retreat(m, inputs), w)

Unary(m, cost, Op(_)) ==
    Simple(m, 1, 1, cost, LAMBDA k : Replace(k, 1, Op(Operand(k, 0))))
Binary(m, cost, Op(_, _)) ==
    Simple(m, 2, 1, cost, LAMBDA k : Replace(k, 2, Op(Operand(k, 0), Operand(k, 1))))
Ternary(m, cost, Op(_, _, _)) ==
    Simple(m, 3, 1, cost,
           LAMBDA k : Replace(k, 3, Op(Operand(k, 0), Operand(k, 1), Operand(k, 2))))
Nullary(m, cost, w) == Simple(m, 0, 1, cost, LAMBDA k : PushWord(k, w))

execute_add(m) == Binary(m, Price.verylow, word_add_word)
execute_mul(m) == Binary(m, Price.low, word_mul_word)
execute_sub(m) == Binary(m, Price.verylow, word_sub_word)
execute_div(m) == Binary(m, Price.low, word_div_word)
execute_sdiv(m) == Binary(m, Price.low, alu_sdiv)
execute_mod(m) == Binary(m, Price.low, word_mod_word)
execute_smod(m) == Binary(m, Price.low, alu_smod)
execute_addmod(m) == Ternary(m, Price.mid, alu_addmod)
execute_mulmod(m) == Ternary(m, Price.mid, alu_mulmod)
exp_gas(e) == Price.expbyte * word_byte_length(e) + Price.exp
execute_exp(m) ==
    guard_stack(m, 2, 1, LAMBDA g : Charge(g, exp_gas(Operand(g, 1)),
        LAMBDA k : Replace(k, 2, alu_exp(Operand(k, 0), Operand(k, 1)))))
execute_signextend(m) == Binary(m, Price.low, alu_signextend)
execute_lt(m) == Binary(m, Price.verylow, LAMBDA a, b : word_of_bool(word_ult(a, b)))
execute_gt(m) == Binary(m, Price.verylow, LAMBDA a, b : word_of_bool(word_ult(b, a)))
execute_slt(m) == Binary(m, Price.verylow, LAMBDA a, b : word_of_bool(word_slt(a, b)))
execute_sgt(m) == Binary(m, Price.verylow, LAMBDA a, b : word_of_bool(word_slt(b, a)))
execute_eq(m) == Binary(m, Price.verylow, LAMBDA a, b : word_of_bool(a = b))
execute_iszero(m) == Unary(m, Price.verylow, LAMBDA a : word_of_bool(a = 0))
execute_and(m) == Binary(m, Price.verylow, word_and)
execute_or(m) == Binary(m, Price.verylow, word_or)
execute_xor(m) == Binary(m, Price.verylow, word_xor)
execute_not(m) == Unary(m, Price.verylow, word_not)
execute_byte(m) == Binary(m, Price.verylow, alu_byte)
execute_shl(m) == Binary(m, Price.verylow, alu_shl)
execute_shr(m) == Binary(m, Price.verylow, alu_shr)
execute_sar(m) == Binary(m, Price.verylow, alu_sar)
execute_clz(m) == Unary(m, Price.low, alu_clz)

-----------------------------------------------------------------------------
(* Environment. *)
execute_address(m) == Nullary(m, Price.base, Env.address)
execute_origin(m) == Nullary(m, Price.base, Env.origin)
execute_caller(m) == Nullary(m, Price.base, Env.caller)
execute_callvalue(m) == Nullary(m, Price.base, Env.value)
execute_gasprice(m) == Nullary(m, Price.base, Env.gasprice)
execute_calldatasize(m) == Nullary(m, Price.base, m.calldata.len)
execute_codesize(m) == Nullary(m, Price.base, Len(FrameCode))
execute_returndatasize(m) == Nullary(m, Price.base, m.returndata.len)
execute_coinbase(m) == Nullary(m, Price.base, Env.coinbase)
execute_timestamp(m) == Nullary(m, Price.base, Env.timestamp)
execute_number(m) == Nullary(m, Price.base, Env.number)
execute_slotnum(m) == Nullary(m, Price.base, Env.slot)
execute_prevrandao(m) == Nullary(m, Price.base, Env.randao)
execute_gaslimit(m) == Nullary(m, Price.base, Env.gaslimit)
execute_chainid(m) == Nullary(m, Price.base, Env.chainid)
execute_basefee(m) == Nullary(m, Price.base, Env.basefee)
execute_blobbasefee(m) == Nullary(m, Price.base, Env.blobfee)
execute_selfbalance(m) == Nullary(m, Price.low, Env.balance)
execute_msize(m) == Nullary(m, Price.base, (G!memory_word_count(m.height) * WordBytes) % WordLimit)
(* The gas left is read after the instruction is paid. *)
execute_gas(m) == Simple(m, 0, 1, Price.base, LAMBDA k : PushWord(k, k.gas % WordLimit))
execute_calldataload(m) ==
    Simple(m, 1, 1, Price.verylow,
           LAMBDA k : Replace(k, 1, calldata_slice_load_word_offset(k, Operand(k, 0))))

(* The 256 nearest ancestors; the witness must hold the one asked for. *)
HashWindow == 2
k_blockhash(m, number) ==
    LET distance == Env.number - number
    IN  IF number < Env.number /\ distance <= HashWindow
        THEN IF Len(BlockHashes) < distance THEN Fatal(m)
             ELSE Replace(m, 1, BlockHashes[distance])
        ELSE Replace(m, 1, WORD_ZERO)
execute_blockhash(m) ==
    Simple(m, 1, 1, Price.blockhash, LAMBDA k : k_blockhash(k, Operand(k, 0)))
k_blobhash(i) == IF i < Len(BlobHashes) THEN BlobHashes[i + 1] ELSE WORD_ZERO
execute_blobhash(m) == Unary(m, Price.verylow, k_blobhash)

(* Another account: the first access of a transaction costs more. *)
account_cost(m) == IF m.warm THEN Price.warm ELSE Price.cold
external_code_read_cost == IF Amsterdam THEN Price.warm ELSE 0
Account(m, extra, w) ==
    guard_stack(m, 1, 1, LAMBDA g : Charge(g, account_cost(g) + extra,
        LAMBDA k : Replace([k EXCEPT !.warm = TRUE], 1, w)))
execute_balance(m) == Account(m, 0, External.balance)
execute_extcodesize(m) == Account(m, external_code_read_cost, Len(ExternalCode))
execute_extcodehash(m) == Account(m, 0, External.codehash)

-----------------------------------------------------------------------------
(* Memory.  A window is priced and materialized before it is touched. *)
TouchHeight(m, requested, Then(_)) ==
    ChargeIf(m, G!memory_expansion_gas_cost(m.height, requested, m.gas),
             LAMBDA k : LET e == expand_memory(k, requested)
                        IN  IF e.status = "fatal" THEN e ELSE Then(e))
Touch(m, start, size, Then(_)) ==
    TouchHeight(m, G!memory_requested_height(start, size), Then)

(* An empty window has no place. *)
memory_access(start, size) == IF size = 0 THEN <<0, 0>> ELSE <<start, size>>

execute_mload(m) ==
    Simple(m, 1, 1, Price.verylow, LAMBDA k : Touch(k, Operand(k, 0), WordBytes,
        LAMBDA t : Replace(t, 1, mem_load_word(t, memory_absolute(t.base, Operand(t, 0))))))
execute_mstore(m) ==
    Simple(m, 2, 0, Price.verylow, LAMBDA k : Touch(k, Operand(k, 0), WordBytes,
        LAMBDA t : stack_top_retreat(
            mem_store_word(t, memory_absolute(t.base, Operand(t, 0)), Operand(t, 1)), 2)))
execute_mstore8(m) ==
    Simple(m, 2, 0, Price.verylow, LAMBDA k : Touch(k, Operand(k, 0), 1,
        LAMBDA t : stack_top_retreat(
            mem_write_byte(t, memory_absolute(t.base, Operand(t, 0)),
                           word_low_byte(Operand(t, 1))), 2)))

(* The wider of the two windows is materialized. *)
McopyHeight(dst, src, len) ==
    Max({G!memory_requested_height(dst, len), G!memory_requested_height(src, len)})
execute_mcopy(m) ==
    Simple(m, 3, 0, Price.verylow, LAMBDA k :
        ChargeIf(k, G!copy_gas_cost(Operand(k, 2), k.gas), LAMBDA c :
            TouchHeight(c, McopyHeight(Operand(c, 0), Operand(c, 1), Operand(c, 2)), LAMBDA t :
                stack_top_retreat(
                    IF Operand(t, 2) = 0 THEN t
                    ELSE mem_move(t, memory_absolute(t.base, Operand(t, 0)),
                                  memory_absolute(t.base, Operand(t, 1)), Operand(t, 2)), 3))))

(* CALLDATACOPY and CODECOPY: destination, source, length from the top;    *)
(* EXTCODECOPY has them one lower.                                         *)
CopyFrom(m, i, bytes) ==
    ChargeIf(m, G!copy_gas_cost(Operand(m, i + 2), m.gas), LAMBDA c :
        Touch(c, Operand(c, i), Operand(c, i + 2), LAMBDA t :
            LET dst == memory_access(Operand(t, i), Operand(t, i + 2))
            IN  stack_top_retreat(
                    _copy_to_memory(t, SliceFrom(bytes, Operand(t, i + 1)),
                                    memory_absolute(t.base, dst[1]), 0, dst[2]), i + 3)))
execute_calldatacopy(m) ==
    Simple(m, 3, 0, Price.verylow, LAMBDA k : CopyFrom(k, 0, calldata_bytes(k)))
execute_codecopy(m) ==
    Simple(m, 3, 0, Price.verylow, LAMBDA k : CopyFrom(k, 0, FrameCode))
execute_extcodecopy(m) ==
    guard_stack(m, 4, 0, LAMBDA g :
        Charge(g, account_cost(g) + external_code_read_cost, LAMBDA k :
            LET done == CopyFrom(k, 1, ExternalCode)
            IN  IF done.status = "running" THEN [done EXCEPT !.warm = TRUE] ELSE done))

(* Reading past the end of the return data is an exception. *)
MutReturndataBound(m, source, length) == source <= m.returndata.len

ReturndataBound(m, source, length) ==
    source <= m.returndata.len /\ length <= m.returndata.len - source
execute_returndatacopy(m) ==
    Simple(m, 3, 0, Price.verylow, LAMBDA k :
        IF ReturndataBound(k, Operand(k, 1), Operand(k, 2))
        THEN CopyFrom(k, 0, output_bytes(k, k.returndata))
        ELSE Failed(k, "InvalidOpcode"))

(* A digest is the sequence hashed, as a word. *)
Digest(bytes) == (Len(bytes) + hash_to_word(bytes)) % WordLimit
execute_keccak256(m) ==
    guard_stack(m, 2, 1, LAMBDA g :
        ChargeIf(g, G!keccak_gas_cost(Operand(g, 1), g.gas), LAMBDA c :
            Touch(c, Operand(c, 0), Operand(c, 1), LAMBDA t :
                IF ViewAllowed(t, Operand(t, 0), Operand(t, 1))
                THEN Replace(t, 2, Digest(_region_bytes(t.memory,
                        active_memory_slice(t, Operand(t, 0), Operand(t, 1)))))
                ELSE Fatal(t))))

pop_log_topics(m, n) == [i \in 1 .. n |-> Operand(m, i + 1)]
execute_log(m, n) ==
    guard_stack(m, n + 2, 0, LAMBDA g : guard_static(g, LAMBDA w :
        ChargeIf(w, G!log_gas_cost(n, Operand(w, 1), w.gas), LAMBDA c :
            Touch(c, Operand(c, 0), Operand(c, 1), LAMBDA t :
                LET data == active_memory_slice(t, Operand(t, 0), Operand(t, 1))
                IN  [stack_top_retreat(t, n + 2) EXCEPT
                        !.log = [topics |-> pop_log_topics(t, n),
                                 data |-> _region_bytes(t.memory, data)]]))))

-----------------------------------------------------------------------------
(* Stack. *)
execute_pop(m) == Simple(m, 1, 0, Price.base, LAMBDA k : stack_top_retreat(k, 1))
execute_push(m, n, v) ==
    Simple(m, 0, 1, IF n = 0 THEN Price.base ELSE Price.verylow, LAMBDA k : PushWord(k, v))
execute_dup(m, n) ==
    Simple(m, n, n + 1, Price.verylow, LAMBDA k : PushWord(k, Operand(k, n - 1)))

Exchanged(m, i, j) ==
    stack_slot_write(stack_slot_write(m, i, Operand(m, j)), j, Operand(m, i))
execute_swap(m, n) == Simple(m, n + 1, n + 1, Price.verylow, LAMBDA k : Exchanged(k, 0, n))
execute_exchange(m, i, j) == Simple(m, j + 1, j + 1, Price.verylow, LAMBDA k : Exchanged(k, i, j))

-----------------------------------------------------------------------------
(* The end of a frame; the output is frozen out of memory. *)
Halt(m, kind) ==
    guard_stack(m, 2, 0, LAMBDA g : Touch(g, Operand(g, 0), Operand(g, 1), LAMBDA t :
        LET data == active_memory_slice(t, Operand(t, 0), Operand(t, 1))
        IN  [freeze_memory_output(stack_top_retreat(t, 2), data) EXCEPT
                !.status = kind, !.result = [off |-> 0, len |-> data.len]]))
execute_return(m) == Halt(m, "return")
execute_revert(m) == Halt(m, "revert")
execute_stop(m) == [m EXCEPT !.status = "stop", !.result = EMPTY_SLICE]
execute_invalid(m) == [m EXCEPT !.status = "InvalidOpcode"]
=============================================================================
