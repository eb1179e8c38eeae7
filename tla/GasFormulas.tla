---------------------------- MODULE GasFormulas ----------------------------
(***************************************************************************)
(* The gas formulas of evm/gas.py.  A charge is computed against the gas   *)
(* at hand: every formula leaves early, as unaffordable, when a partial    *)
(* product is already too large, so that no intermediate outgrows its      *)
(* type.  Prices that do not matter for the shape of a formula are         *)
(* parameters; the others keep the code's values.                          *)
(***************************************************************************)
EXTENDS Naturals, Sequences, FiniteSetsExt

CONSTANTS
    MaxHeight,          \* 2^32 - 1, the largest memory height
    WordBytes,          \* 32
    SquareDivisor,      \* 512, of the quadratic part of memory cost
    ModexpBound,        \* 1024, EIP-7823
    AcceleratorMax,     \* ACCELERATOR_INPUT_MAX
    Discounts,          \* BLS_G1_DISCOUNT and the like: 1 .. n
    MaxDiscount,        \* beyond the table
    CodeSizeLimit       \* deployed_code_size_limit

ASSUME GasFormulasAssumption ==
    /\ {MaxHeight, WordBytes, SquareDivisor, ModexpBound, AcceleratorMax,
        MaxDiscount, CodeSizeLimit} \subseteq Nat
    /\ WordBytes > 0 /\ SquareDivisor > 0
    /\ 96 + 3 * ModexpBound <= AcceleratorMax
    /\ Discounts \in Seq(Nat) \ {<<>>}
    /\ MaxDiscount = Discounts[Len(Discounts)]

gas_charge(cost) == [affordable |-> TRUE, cost |-> cost]
GAS_CHARGE_UNAFFORDABLE == [affordable |-> FALSE, cost |-> 0]

G_memory == 3
G_keccak == 30
G_keccak_word == 6
G_copy_word == 3
G_log == 375
G_logtopic == 375
G_logdata == 8
G_codedeposit == 200

memory_word_count(n) ==
    n \div WordBytes + (IF n % WordBytes = 0 THEN 0 ELSE 1)
mem_cost(words) == G_memory * words + (words * words) \div SquareDivisor

(* One more than the largest height stands for every request beyond it. *)
memory_requested_height(start, size) ==
    IF size = 0 THEN 0
    ELSE IF start <= MaxHeight /\ size <= MaxHeight - start
         THEN start + size
         ELSE MaxHeight + 1

memory_expansion_gas_cost(mem, requested, available) ==
    LET new == memory_word_count(requested)
        old == memory_word_count(mem)
        exact == mem_cost(new) - mem_cost(old)
    IN  IF requested > MaxHeight THEN GAS_CHARGE_UNAFFORDABLE
        ELSE IF new <= old THEN gas_charge(0)
        ELSE IF exact <= available THEN gas_charge(exact)
        ELSE GAS_CHARGE_UNAFFORDABLE

word_scaled_gas_cost(per_unit, units, available) ==
    IF per_unit = 0 \/ units = 0 THEN gas_charge(0)
    ELSE IF units <= available /\ per_unit * units <= available
         THEN gas_charge(per_unit * units)
         ELSE GAS_CHARGE_UNAFFORDABLE

(* A fixed part first, then a part in proportion to the units. *)
FixedAndScaled(fixed, per_unit, units, available) ==
    LET variable == word_scaled_gas_cost(per_unit, units, available - fixed)
    IN  IF fixed > available \/ ~variable.affordable
        THEN GAS_CHARGE_UNAFFORDABLE
        ELSE gas_charge(fixed + variable.cost)

keccak_gas_cost(size, available) ==
    FixedAndScaled(G_keccak, G_keccak_word, memory_word_count(size), available)
copy_gas_cost(size, available) ==
    FixedAndScaled(0, G_copy_word, memory_word_count(size), available)
log_gas_cost(topics, size, available) ==
    FixedAndScaled(G_log + G_logtopic * topics, G_logdata, size, available)

code_deployment_execution_cost(amsterdam, len, available) ==
    IF amsterdam
    THEN IF len <= CodeSizeLimit /\ memory_word_count(len) <= available \div G_keccak_word
         THEN gas_charge(G_keccak_word * memory_word_count(len))
         ELSE GAS_CHARGE_UNAFFORDABLE
    ELSE IF len <= available \div G_codedeposit
         THEN gas_charge(G_codedeposit * len)
         ELSE GAS_CHARGE_UNAFFORDABLE

-----------------------------------------------------------------------------
(* MODEXP.  The input is what the formula reads of it: the three declared  *)
(* lengths, its own length, and the number of significant bits of the      *)
(* exponent's first bytes.                                                 *)
Header == 3 * 32

(* Past the end of the input the exponent reads as zero. *)
pc_word_after_declared_field(in) == IF Header + in.bl < in.len THEN in.bits ELSE 0

ModexpWords(in) == (Max({in.bl, in.ml}) + 7) \div 8

(* Beyond 32 bytes every byte counts for 16 (Osaka) or 8 squarings. *)
MutModexpIterations(osaka, in) ==
    LET head == pc_word_after_declared_field(in)
        high == IF head = 0 THEN 0 ELSE head - 1
        extra == IF in.el <= 32 THEN 0 ELSE in.el - 32
    IN  (IF osaka THEN 16 ELSE 8) * extra + high

ModexpIterations(osaka, in) ==
    LET head == pc_word_after_declared_field(in)
        high == IF head = 0 THEN 0 ELSE head - 1
        extra == IF in.el <= 32 THEN 0 ELSE in.el - 32
        count == (IF osaka THEN 16 ELSE 8) * extra + high
    IN  IF count = 0 THEN 1 ELSE count

(* The cut-offs, in the order of the code. *)
ModexpUnaffordable(osaka, in, available, limit) ==
    LET words == ModexpWords(in)
        extra == IF in.el <= 32 THEN 0 ELSE in.el - 32
    IN  \/ words > limit
        \/ words * words > limit
        \/ /\ osaka /\ Max({in.bl, in.ml}) > 32
           /\ words * words > available \div 2
        \/ extra > limit \div (IF osaka THEN 16 ELSE 8)

modexp_gas(osaka, in, available) ==
    LET minimum == IF osaka THEN 500 ELSE 200
        limit == IF osaka THEN available ELSE 3 * available + 2
        words == ModexpWords(in)
        mult == IF ~osaka THEN words * words
                ELSE IF Max({in.bl, in.ml}) <= 32 THEN 16 ELSE 2 * words * words
        product == mult * ModexpIterations(osaka, in)
        cost == Max({minimum, IF osaka THEN product ELSE product \div 3})
    IN  IF \/ osaka /\ Max({in.bl, in.el, in.ml}) > ModexpBound
           \/ available < minimum
        THEN GAS_CHARGE_UNAFFORDABLE
        ELSE IF ~osaka /\ in.bl = 0 /\ in.ml = 0 THEN gas_charge(200)
        ELSE IF \/ ModexpUnaffordable(osaka, in, available, limit)
                \/ mult > limit \/ product > limit \/ cost > available
        THEN GAS_CHARGE_UNAFFORDABLE
        ELSE gas_charge(cost)

(* The accelerator takes bounded inputs only; the call fails beyond. *)
run_modexp(in) ==
    \/ in.ml = 0
    \/ /\ \A n \in {in.bl, in.el, in.ml} : n <= AcceleratorMax
       /\ Header + in.bl + in.el + in.ml <= AcceleratorMax

-----------------------------------------------------------------------------
(* Thousands of pairs are priced first, the rest after. *)
bls_msm_gas(table, base, maxd, k, available) ==
    LET discount == IF k < Len(table) THEN table[k] ELSE maxd
        coefficient == base * discount
        major == coefficient * (k \div 1000)
        total == major + (coefficient * (k % 1000)) \div 1000
    IN  IF k = 0 THEN gas_charge(0)
        ELSE IF major <= available /\ total <= available
             THEN gas_charge(total) ELSE GAS_CHARGE_UNAFFORDABLE

linear_gas(base, per_unit, units, available) ==
    IF per_unit * units + base > available THEN GAS_CHARGE_UNAFFORDABLE
    ELSE gas_charge(per_unit * units + base)
fixed_precompile_gas(cost, available) ==
    IF cost <= available THEN gas_charge(cost) ELSE GAS_CHARGE_UNAFFORDABLE

(* A call forwards at most all but one 64th. *)
call_gas_cap_word(available, requested) ==
    Min({requested, available - available \div 64})
=============================================================================
