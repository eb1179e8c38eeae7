----------------------------- MODULE GasCharges -----------------------------
(***************************************************************************)
(* What is charged before it is done.                                      *)
(*                                                                         *)
(* Calls of precompiled contracts (evm/precompiles.py): which addresses    *)
(* are precompiles at a fork, what a call is charged before it runs, what  *)
(* of its input is checked before an accelerator sees it, and which bytes  *)
(* of the shared output buffer the caller gets to see.                     *)
(*                                                                         *)
(* An input is its length, the offset of its one byte that is not zero     *)
(* (its own length when there is none), the byte or comparison the         *)
(* precompile decides on, the lengths MODEXP declares, and the answer of   *)
(* the accelerator, which is external.                                     *)
(*                                                                         *)
(* Beside it, a frame that pays for memory as it grows, and the one-off    *)
(* charges of instructions and precompiles, against the prices the EIPs    *)
(* state without any regard to the gas at hand.                            *)
(***************************************************************************)
EXTENDS ForkOrder, GasFormulas

CONSTANTS
    PrecompileForks,    \* forks to call at
    G2Discounts, G2MaxDiscount,     \* BLS_G2_DISCOUNT
    MaxCalls,           \* calls of a behaviour
    Inputs(_),          \* inputs to call a precompile with
    CallGas,            \* gas forwarded to a call
    NoCall              \* no call is under way

ASSUME PrecompilesAssumption ==
    /\ {G2MaxDiscount, CallGas, MaxCalls} \subseteq Nat
    /\ G2Discounts \in Seq(Nat) \ {<<>>}
    /\ G2MaxDiscount = G2Discounts[Len(G2Discounts)]
    /\ \A a \in 1 .. 17 \cup {256} : \A in \in Inputs(a) :
          {in.len, in.dirty, in.rounds, in.bl, in.el, in.ml, in.bits} \subseteq Nat

VARIABLES
    active_fork,        \* the fork of the calls
    calls,              \* calls made so far
    buffer,             \* of every word of the output buffer, the call that wrote it
    call                \* the last call: what it was given, its charge, its result

precompiles == <<active_fork, calls, buffer, call>>

Ecrecover == 1
Sha256 == 2
Ripemd160 == 3
Identity == 4
Modexp == 5
Bn254Add == 6
Bn254Mul == 7
Bn254Pairing == 8
Blake2f == 9
KzgPointEvaluation == 10
BlsG1Add == 11
BlsG1Msm == 12
BlsG2Add == 13
BlsG2Msm == 14
BlsPairing == 15
BlsMapFpToG1 == 16
BlsMapFp2ToG2 == 17
P256Verify == 256
NotPrecompile == 0
PRECOMPILE_ADDRESSES == 1 .. 17 \cup {256}

precompile_active_at_fork(n) ==
    CASE n \in Ecrecover .. Identity -> TRUE
      [] n \in Modexp .. Bn254Pairing -> active_fork >= Byzantium
      [] n = Blake2f -> active_fork >= Istanbul
      [] n = KzgPointEvaluation -> active_fork >= Cancun
      [] n \in BlsG1Add .. BlsMapFp2ToG2 -> active_fork >= Prague
      [] n = P256Verify -> active_fork >= Osaka

precompile_id_for_address(addr) ==
    IF addr \in PRECOMPILE_ADDRESSES /\ precompile_active_at_fork(addr)
    THEN addr ELSE NotPrecompile

(* Pairs of a multi-scalar product; a rest that is no pair is not priced.  *)
MsmPairs(n, in) == in.len \div (IF n = BlsG1Msm THEN 160 ELSE 288)

precompile_gas(n, in, available) ==
    LET fixed(c) == fixed_precompile_gas(c, available)
        words == memory_word_count(in.len)
    IN  CASE n = Ecrecover -> fixed(3000)
          [] n = Sha256 -> linear_gas(60, 12, words, available)
          [] n = Ripemd160 -> linear_gas(600, 120, words, available)
          [] n = Identity -> linear_gas(15, 3, words, available)
          [] n = Modexp -> modexp_gas(active_fork >= Osaka, in, available)
          [] n = Bn254Add -> fixed(150)
          [] n = Bn254Mul -> fixed(6000)
          [] n = Bn254Pairing -> linear_gas(45000, 34000, in.len \div 192, available)
          [] n = Blake2f -> fixed(in.rounds)
          [] n = KzgPointEvaluation -> fixed(50000)
          [] n = BlsG1Add -> fixed(375)
          [] n = BlsG1Msm -> bls_msm_gas(Discounts, 12000, MaxDiscount, MsmPairs(n, in), available)
          [] n = BlsG2Add -> fixed(600)
          [] n = BlsG2Msm ->
                bls_msm_gas(G2Discounts, 22500, G2MaxDiscount, MsmPairs(n, in), available)
          [] n = BlsPairing -> linear_gas(37700, 32600, in.len \div 384, available)
          [] n = BlsMapFpToG1 -> fixed(5500)
          [] n = BlsMapFp2ToG2 -> fixed(23800)
          [] n = P256Verify -> fixed(6900)

-----------------------------------------------------------------------------
WORD == 32
BLS_FIELD_PADDING_LENGTH == 16
BLS_PADDED_FIELD_LENGTH == 64
BLS_G1_POINT_LENGTH == 128
BLS_G2_POINT_LENGTH == 256
BLS_G1_MSM_ITEM_LENGTH == 160
BLS_G2_MSM_ITEM_LENGTH == 288
BLS_PAIRING_ITEM_LENGTH == 384
BN254_PAIRING_ITEM_LENGTH == 192
BLAKE2F_INPUT_LENGTH == 213
KZG_INPUT_LENGTH == 192
P256_INPUT_LENGTH == 160

slice_strided_zero(in, start, stride, width, count) ==
    \A i \in 0 .. count - 1 :
        in.dirty \notin start + i * stride .. start + i * stride + width - 1

PaddedAt(in, base, stride, count, fields) ==
    \A f \in fields :
        slice_strided_zero(in, base + f, stride, BLS_FIELD_PADDING_LENGTH, count)
bls_g1_padding(in, base, stride, count) ==
    PaddedAt(in, base, stride, count, {0, BLS_PADDED_FIELD_LENGTH})
MutG2Padding(in, base, stride, count) ==
    PaddedAt(in, base, stride, count, {0, BLS_PADDED_FIELD_LENGTH, BLS_G1_POINT_LENGTH})
bls_g2_padding(in, base, stride, count) ==
    PaddedAt(in, base, stride, count, {0, BLS_PADDED_FIELD_LENGTH, BLS_G1_POINT_LENGTH, 192})

(* What is checked before the accelerator is called. *)
Items(in, item) == in.len # 0 /\ in.len % item = 0
run_bls_g1_add(in) ==
    in.len = 2 * BLS_G1_POINT_LENGTH /\ bls_g1_padding(in, 0, BLS_G1_POINT_LENGTH, 2)
run_bls_g1_msm(in) ==
    /\ Items(in, BLS_G1_MSM_ITEM_LENGTH)
    /\ bls_g1_padding(in, 0, BLS_G1_MSM_ITEM_LENGTH, in.len \div BLS_G1_MSM_ITEM_LENGTH)
run_bls_g2_add(in) ==
    in.len = 2 * BLS_G2_POINT_LENGTH /\ bls_g2_padding(in, 0, BLS_G2_POINT_LENGTH, 2)
run_bls_g2_msm(in) ==
    /\ Items(in, BLS_G2_MSM_ITEM_LENGTH)
    /\ bls_g2_padding(in, 0, BLS_G2_MSM_ITEM_LENGTH, in.len \div BLS_G2_MSM_ITEM_LENGTH)
run_bls_pairing(in) ==
    LET pairs == in.len \div BLS_PAIRING_ITEM_LENGTH
    IN  /\ Items(in, BLS_PAIRING_ITEM_LENGTH)
        /\ bls_g1_padding(in, 0, BLS_PAIRING_ITEM_LENGTH, pairs)
        /\ bls_g2_padding(in, BLS_G1_POINT_LENGTH, BLS_PAIRING_ITEM_LENGTH, pairs)
run_bls_map_fp_to_g1(in) ==
    in.len = BLS_PADDED_FIELD_LENGTH /\ PaddedAt(in, 0, BLS_PADDED_FIELD_LENGTH, 1, {0})
run_bls_map_fp2_to_g2(in) ==
    in.len = BLS_G1_POINT_LENGTH /\ PaddedAt(in, 0, BLS_PADDED_FIELD_LENGTH, 2, {0})
run_blake2f(in) == in.len = BLAKE2F_INPUT_LENGTH /\ in.byte \in {0, 1}
run_kzg_point_evaluation(in) == in.len = KZG_INPUT_LENGTH /\ in.byte = 1

InputAccepted(n, in) ==
    CASE n = Modexp -> in.ml # 0 /\ run_modexp(in)
      [] n = Bn254Pairing -> in.len % BN254_PAIRING_ITEM_LENGTH = 0
      [] n = Blake2f -> run_blake2f(in)
      [] n = KzgPointEvaluation -> run_kzg_point_evaluation(in)
      [] n = BlsG1Add -> run_bls_g1_add(in)
      [] n = BlsG1Msm -> run_bls_g1_msm(in)
      [] n = BlsG2Add -> run_bls_g2_add(in)
      [] n = BlsG2Msm -> run_bls_g2_msm(in)
      [] n = BlsPairing -> run_bls_pairing(in)
      [] n = BlsMapFpToG1 -> run_bls_map_fp_to_g1(in)
      [] n = BlsMapFp2ToG2 -> run_bls_map_fp2_to_g2(in)
      [] n = P256Verify -> in.len = P256_INPUT_LENGTH
      [] n = Ecrecover -> in.byte \in {27, 28}
      [] OTHER -> TRUE

(* External: bytes an accelerator leaves at the start of the buffer.       *)
AcceleratorWrites(n, in) ==
    CASE n = Ripemd160 -> WORD
      [] n = Modexp -> in.ml
      [] n \in {Bn254Add, Bn254Mul, Blake2f} -> 2 * WORD
      [] n \in {BlsG1Add, BlsG1Msm, BlsMapFpToG1} -> BLS_G1_POINT_LENGTH
      [] n \in {BlsG2Add, BlsG2Msm, BlsMapFp2ToG2} -> BLS_G2_POINT_LENGTH
      [] OTHER -> 0

-----------------------------------------------------------------------------
Result(success, shown, stored) == [success |-> success, shown |-> shown, stored |-> stored]
precompile_failure == Result(FALSE, 0, 0)
accelerator_result(in, shown) ==
    IF in.accelerator # 0 THEN Result(TRUE, shown, 0) ELSE precompile_failure
output_buffer_word == Result(TRUE, WORD, WORD)
EmptySuccess == Result(TRUE, 0, 0)
pairing_result(in) == IF in.accelerator < 2 THEN precompile_failure ELSE output_buffer_word

(* Bytes of the buffer each of the callers of an accelerator shows.        *)
ShownBytes(n, in) ==
    CASE n = Ripemd160 -> WORD
      [] n = Modexp -> in.ml
      [] n \in {Bn254Add, Bn254Mul, Blake2f} -> 2 * WORD
      [] n \in {BlsG1Add, BlsG1Msm, BlsMapFpToG1} -> BLS_G1_POINT_LENGTH
      [] n \in {BlsG2Add, BlsG2Msm, BlsMapFp2ToG2} -> BLS_G2_POINT_LENGTH

(* An input that is not accepted fails, but for a signature that does not  *)
(* verify and a modulus of no length, which succeed with nothing.          *)
run_precompile_slice(n, in) ==
    IF n \in {Ecrecover, P256Verify}
    THEN IF InputAccepted(n, in) /\ in.accelerator # 0 THEN output_buffer_word
         ELSE EmptySuccess
    ELSE IF n = Modexp /\ in.ml = 0 THEN EmptySuccess
    ELSE IF ~InputAccepted(n, in) THEN precompile_failure
    ELSE CASE n = Sha256 -> output_buffer_word
           [] n = Identity -> Result(TRUE, in.len, in.len)
           [] n \in {Bn254Pairing, BlsPairing} -> pairing_result(in)
           [] n = KzgPointEvaluation ->
                IF in.accelerator # 0 THEN Result(TRUE, 2 * WORD, 2 * WORD)
                ELSE precompile_failure
           [] OTHER -> accelerator_result(in, ShownBytes(n, in))

-----------------------------------------------------------------------------
PrecompilesInit ==
    /\ active_fork \in PrecompileForks /\ calls = 0 /\ call = NoCall
    /\ buffer = [w \in 0 .. BLS_G2_POINT_LENGTH \div WORD - 1 |-> 0]

(* run_call on a precompile: charged first, run only when paid.  The hosts *)
(* keep the bytes of the buffer that are not written.                      *)
Call(addr, in) ==
    LET n == precompile_id_for_address(addr)
        charge == precompile_gas(n, in, CallGas)
        reached == charge.affordable /\ InputAccepted(n, in)
        result == IF charge.affordable THEN run_precompile_slice(n, in)
                  ELSE precompile_failure
        written == Max({IF reached THEN AcceleratorWrites(n, in) ELSE 0, result.stored})
    IN  /\ call = NoCall /\ calls < MaxCalls
        /\ n # NotPrecompile
        /\ calls' = calls + 1
        /\ buffer' = [w \in DOMAIN buffer |->
                          IF w * WORD < written THEN calls' ELSE buffer[w]]
        /\ call' = [id |-> n, in |-> in, charge |-> charge, reached |-> reached,
                    success |-> result.success, shown |-> result.shown]
        /\ UNCHANGED active_fork

(* The caller has copied its output and goes on. *)
GoOn == call # NoCall /\ call' = NoCall /\ UNCHANGED <<active_fork, calls, buffer>>
CallsEnded == call = NoCall /\ calls = MaxCalls /\ UNCHANGED precompiles

PrecompilesNext ==
    \/ \E a \in PRECOMPILE_ADDRESSES : \E in \in Inputs(a) : Call(a, in)
    \/ GoOn
    \/ CallsEnded

-----------------------------------------------------------------------------
(* The items of EIP-2537: coordinates of 64 bytes, of which the first 16   *)
(* are zero, followed by a scalar of 32 bytes in a multi-scalar product.   *)
BLS == BlsG1Add .. BlsMapFp2ToG2
Coordinates(n) ==
    CASE n = BlsG1Add -> 4
      [] n = BlsG1Msm -> 2
      [] n = BlsG2Add -> 8
      [] n = BlsG2Msm -> 4
      [] n = BlsPairing -> 6
      [] n = BlsMapFpToG1 -> 1
      [] n = BlsMapFp2ToG2 -> 2
ItemSize(n) == 64 * Coordinates(n) + (IF n \in {BlsG1Msm, BlsG2Msm} THEN 32 ELSE 0)
ItemCount(n, in) == in.len \div ItemSize(n)

WellFormed(n, in) ==
    /\ in.len % ItemSize(n) = 0
    /\ IF n \in {BlsG1Msm, BlsG2Msm, BlsPairing} THEN in.len # 0 ELSE ItemCount(n, in) = 1
    /\ \A i \in 0 .. ItemCount(n, in) - 1, c \in 0 .. Coordinates(n) - 1 :
          LET start == i * ItemSize(n) + 64 * c
          IN  in.dirty \notin start .. start + 15

(* An accelerator of EIP-2537 is called exactly on paid inputs whose every *)
(* coordinate is padded: the strides and offsets of the padding checks     *)
(* reach every coordinate of every item and no byte of a scalar.           *)
OnlyWellFormedPoints ==
    (call # NoCall /\ call.id \in BLS) =>
        call.reached = (call.charge.affordable /\ WellFormed(call.id, call.in))

(* The price of the last pair of a table is that of every pair after it.   *)
Discount(table, k) == IF k <= Len(table) THEN table[k] ELSE table[Len(table)]

(* What an accelerator works through has been paid for item by item: the   *)
(* charge is computed from a quotient of the length, the run from the      *)
(* length itself.                                                          *)
EveryItemIsPaid ==
    (call # NoCall /\ call.reached) =>
        CASE call.id = Bn254Pairing ->
                call.charge.cost = 45000 + 34000 * (call.in.len \div BN254_PAIRING_ITEM_LENGTH)
          [] call.id = BlsPairing ->
                call.charge.cost = 37700 + 32600 * ItemCount(BlsPairing, call.in)
          [] call.id = BlsG1Msm -> LET k == ItemCount(BlsG1Msm, call.in)
                IN  call.charge.cost = (k * 12000 * Discount(Discounts, k)) \div 1000
          [] call.id = BlsG2Msm -> LET k == ItemCount(BlsG2Msm, call.in)
                IN  call.charge.cost = (k * 22500 * Discount(G2Discounts, k)) \div 1000
          [] OTHER -> TRUE

(* The output a caller sees was written by its own call: never a byte that *)
(* an earlier precompile left in the shared buffer, and nothing at all     *)
(* after a failure.                                                        *)
OutputIsOfThisCall ==
    call # NoCall =>
        /\ \A w \in DOMAIN buffer : w * WORD < call.shown => buffer[w] = calls
        /\ ~call.success => call.shown = 0

(* A precompile guards its accelerator on the way in and its caller on the *)
(* way out (run_precompile_slice).                                         *)
PrecompilesAreGuarded == OnlyWellFormedPoints /\ OutputIsOfThisCall

----------------------------------------------------------------------------
(* The charges of a frame. *)

CONSTANTS
    FrameGas,       \* gas of the frame that touches memory
    Offsets, Sizes, \* operands of memory accesses
    Budgets,        \* gas at hand when a charge is computed
    ModexpInputs,   \* what MODEXP reads, see GasFormulas
    PairCounts      \* numbers of pairs of a BLS multi-scalar product

ASSUME GasChargesAssumption ==
    /\ FrameGas \in Nat
    /\ Offsets \subseteq Nat /\ Sizes \subseteq Nat /\ Budgets \subseteq Nat
    /\ PairCounts \subseteq Nat
    /\ \A in \in ModexpInputs : {in.bl, in.el, in.ml, in.len, in.bits} \subseteq Nat

VARIABLES
    budget, height, \* the frame: gas left and memory height
    paid,           \* history: what it has paid for memory
    quote           \* the last one-off charge, with what it was asked for

charges == <<budget, height, paid, quote>>

NoQuote == <<>>

ChargesInit == budget = FrameGas /\ height = 0 /\ paid = 0 /\ quote = NoQuote

(* charge, then expand_memory; a request that cannot be paid halts the     *)
(* frame without any gas.                                                  *)
Touch(start, size) ==
    LET requested == memory_requested_height(start, size)
        charge == memory_expansion_gas_cost(height, requested, budget)
    IN  /\ quote = NoQuote /\ budget > 0
        /\ IF charge.affordable
           THEN /\ budget' = budget - charge.cost
                /\ paid' = paid + charge.cost
                /\ height' = Max({height, requested})
           ELSE budget' = 0 /\ UNCHANGED <<height, paid>>
        /\ UNCHANGED quote

Ready == quote = NoQuote /\ height = 0 /\ budget = FrameGas
Ask(kind, args, available, charge) ==
    /\ quote' = [kind |-> kind, args |-> args, available |-> available,
                 charge |-> charge]
    /\ UNCHANGED <<budget, height, paid>>

AskKeccak == Ready /\ \E s \in Sizes, g \in Budgets : Ask("keccak", <<s>>, g, keccak_gas_cost(s, g))
AskCopy == Ready /\ \E s \in Sizes, g \in Budgets : Ask("copy", <<s>>, g, copy_gas_cost(s, g))
AskLog == Ready /\ \E t \in 0 .. 4, s \in Sizes, g \in Budgets :
              Ask("log", <<t, s>>, g, log_gas_cost(t, s, g))
AskDeposit == Ready /\ \E a \in BOOLEAN, s \in Sizes, g \in Budgets :
                  Ask("deposit", <<a, s>>, g, code_deployment_execution_cost(a, s, g))
AskModexp == Ready /\ \E o \in BOOLEAN, in \in ModexpInputs, g \in Budgets :
                 Ask("modexp", <<o, in>>, g, modexp_gas(o, in, g))
AskMsm == Ready /\ \E k \in PairCounts, g \in Budgets :
              Ask("msm", <<12000, k>>, g, bls_msm_gas(Discounts, 12000, MaxDiscount, k, g))
AskPairing == Ready /\ \E k \in PairCounts, g \in Budgets :
                  Ask("linear", <<37700, 32600, k>>, g, linear_gas(37700, 32600, k, g))
AskFixed == Ready /\ \E g \in Budgets : Ask("fixed", <<3000>>, g, fixed_precompile_gas(3000, g))
Forget == quote # NoQuote /\ quote' = NoQuote /\ UNCHANGED <<budget, height, paid>>
Spent == budget = 0 /\ UNCHANGED charges

ChargesNext ==
    \/ \E start \in Offsets, size \in Sizes : Touch(start, size)
    \/ AskKeccak \/ AskCopy \/ AskLog \/ AskDeposit
    \/ AskModexp \/ AskMsm \/ AskPairing \/ AskFixed
    \/ Forget \/ Spent

(* Charges and calls of precompiles, one at a time. *)
GasSpec ==
    /\ ChargesInit /\ PrecompilesInit
    /\ [][\/ ChargesNext /\ UNCHANGED precompiles
          \/ PrecompilesNext /\ UNCHANGED charges]_<<charges, precompiles>>

-----------------------------------------------------------------------------
(* The prices as the EIPs write them. *)
Square(n) == n * n
CeilDiv(n, d) == (n + d - 1) \div d
Eip2565(in) ==
    LET mult == Square(CeilDiv(Max({in.bl, in.ml}), 8))
        bits == IF Header + in.bl < in.len THEN in.bits ELSE 0
        high == IF bits = 0 THEN 0 ELSE bits - 1
        iterations == IF in.el <= 32 THEN high ELSE 8 * (in.el - 32) + high
    IN  Max({200, (mult * Max({iterations, 1})) \div 3})
Eip7883(in) ==
    LET size == Max({in.bl, in.ml})
        mult == IF size <= 32 THEN 16 ELSE 2 * Square(CeilDiv(size, 8))
        bits == IF Header + in.bl < in.len THEN in.bits ELSE 0
        high == IF bits = 0 THEN 0 ELSE bits - 1
        iterations == IF in.el <= 32 THEN high ELSE 16 * (in.el - 32) + high
    IN  Max({500, mult * Max({iterations, 1})})
Price(kind, args) ==
    CASE kind = "keccak" -> 30 + 6 * CeilDiv(args[1], WordBytes)
      [] kind = "copy" -> 3 * CeilDiv(args[1], WordBytes)
      [] kind = "log" -> 375 * (args[1] + 1) + 8 * args[2]
      [] kind = "deposit" -> IF args[1] THEN 6 * CeilDiv(args[2], WordBytes)
                             ELSE 200 * args[2]
      [] kind = "modexp" -> IF args[1] THEN Eip7883(args[2]) ELSE Eip2565(args[2])
      [] kind = "msm" -> IF args[2] = 0 THEN 0
                         ELSE (args[2] * args[1] * Discount(Discounts, args[2])) \div 1000
      [] kind = "linear" -> args[1] + args[2] * args[3]
      [] kind = "fixed" -> args[1]
(* Limits on the input itself, whatever the gas. *)
Refused(kind, args) ==
    \/ kind = "deposit" /\ args[1] /\ args[2] > CodeSizeLimit
    \/ kind = "modexp" /\ args[1]
       /\ Max({args[2].bl, args[2].el, args[2].ml}) > ModexpBound

(* The early exits on partial products never change a verdict: a charge is *)
(* affordable exactly when the stated price is within the gas at hand, and *)
(* then it is that price (memory_word_gas_cost, log_gas_cost, modexp_gas,  *)
(* bls_msm_gas, linear_gas, code_deployment_execution_cost).               *)
QuotesAreExact ==
    quote # NoQuote =>
        LET price == Price(quote.kind, quote.args)
        IN  quote.charge =
                IF price <= quote.available /\ ~Refused(quote.kind, quote.args)
                THEN gas_charge(price) ELSE GAS_CHARGE_UNAFFORDABLE

(* Memory is paid for once, whatever the order and overlap of accesses:    *)
(* the sum of the charges is the cost of the height reached, and no height *)
(* beyond the limit is ever reached (memory_expansion_gas_cost,            *)
(* memory_requested_height, expand_memory).                                *)
MemoryIsPaidOnce ==
    /\ paid = mem_cost(memory_word_count(height))
    /\ height <= MaxHeight

(* From Osaka on, a MODEXP that pays its gas is one the accelerator takes: *)
(* the failure of oversized inputs is out of reach (modexp_gas,            *)
(* run_modexp).                                                            *)
PaidModexpRuns ==
    (quote # NoQuote /\ quote.kind = "modexp" /\ quote.args[1]
        /\ quote.charge.affordable) => run_modexp(quote.args[2])

(* What runs has been paid for, exactly: one-off charges, memory however   *)
(* it grows, the lengths MODEXP declares and every item of a pairing or a  *)
(* multi-scalar product (evm/gas.py, precompile_gas).                      *)
ChargesAreExact ==
    QuotesAreExact /\ MemoryIsPaidOnce /\ PaidModexpRuns /\ EveryItemIsPaid
=============================================================================
