---------------------------- MODULE StackMachine ----------------------------
(***************************************************************************)
(* The interpreter's data side: nested frames over the shared regions,     *)
(* next to the private frames they stand for.  Which instruction comes     *)
(* next is left open (CodeWalk follows the code); gas bounds a run.        *)
(***************************************************************************)
EXTENDS Instructions

CONSTANTS
    Scenes          \* where a run may start: stacks, gas and memories of the
                    \* first frame; what it may do: the words PUSH may carry,
                    \* the frames that may be nested, the bound on its
                    \* instructions and their families

-----------------------------------------------------------------------------
(* What a frame is promised: an operand stack, a memory that reads as zero *)
(* where it was never written, its input and the result of its last call,  *)
(* all its own.  An instruction is priced as a whole; one that cannot be   *)
(* paid, lacks operands or overflows the stack ends the frame.  Stacks     *)
(* have their top first.                                                   *)
Dead(f) == [f EXCEPT !.gas = 0, !.live = FALSE]
(* The frame g after an instruction that consumes and leaves this many. *)
Pay(f, inputs, cost, g) ==
    IF Len(f.stack) < inputs \/ Len(g.stack) > STACK_LIMIT \/ f.gas < cost
    THEN Dead(f) ELSE [g EXCEPT !.gas = f.gas - cost]
Rest(f, n) == SubSeq(f.stack, n + 1, Len(f.stack))
Arg(f, i) == IF i <= Len(f.stack) THEN f.stack[i] ELSE 0

(* Memory once every byte of the windows is active. *)
Reach(f, windows) ==
    Max({Len(f.mem)} \cup {w[1] + w[2] : w \in {v \in windows : v[2] > 0}})
Grown(f, windows) == Padded(f.mem, 0, Reach(f, windows))
(* Beyond the largest height the price exceeds any gas. *)
Growth(f, windows) ==
    IF Reach(f, windows) > MaxHeight THEN f.gas + 1
    ELSE G!mem_cost(G!memory_word_count(Reach(f, windows)))
            - G!mem_cost(G!memory_word_count(Len(f.mem)))
Words32(n) == G!memory_word_count(n)

(* inputs popped, the word w pushed. *)
Computed(f, inputs, cost, w) ==
    Pay(f, inputs, cost, [f EXCEPT !.stack = <<w>> \o Rest(f, inputs)])
Dropped(f, inputs, cost) == Pay(f, inputs, cost, [f EXCEPT !.stack = Rest(f, inputs)])

Access(f, inputs, cost, window, Then(_)) ==
    Pay(f, inputs, cost + Growth(f, {window}),
        Then([f EXCEPT !.mem = Grown(f, {window}), !.stack = Rest(f, inputs)]))
Loaded(f) ==
    LET w == <<Arg(f, 1), WordBytes>>
    IN  Access(f, 1, Price.verylow, w, LAMBDA g :
            [g EXCEPT !.stack = <<hash_to_word(Padded(g.mem, w[1], WordBytes))>> \o @])
Stored(f, bytes) ==
    Access(f, 2, Price.verylow, <<Arg(f, 1), Len(bytes)>>, LAMBDA g :
        [g EXCEPT !.mem = Patched(@, Arg(f, 1), bytes)])
(* source is read at its own offset, as zero past its end. *)
CopiedIn(f, skip, cost, source) ==
    LET dst == Arg(f, skip + 1)
        src == Arg(f, skip + 2)
        len == Arg(f, skip + 3)
    IN  Access(f, skip + 3, cost + Price.copyword * Words32(len), <<dst, len>>, LAMBDA g :
            IF len = 0 THEN g
            ELSE [g EXCEPT !.mem = Patched(@, dst, Padded(source, src, len))])
Moved(f) ==
    LET dst == Arg(f, 1)
        src == Arg(f, 2)
        len == Arg(f, 3)
        windows == {<<dst, len>>, <<src, len>>}
    IN  Pay(f, 3, Price.verylow + Price.copyword * Words32(len) + Growth(f, windows),
            [f EXCEPT !.stack = Rest(f, 3),
                      !.mem = IF len = 0 THEN f.mem
                              ELSE Patched(Grown(f, windows), dst,
                                           Padded(Grown(f, windows), src, len))])
(* The integers words stand for, and what the instructions that compute    *)
(* make of their operands a, b and n, top first: arithmetic modulo         *)
(* 2^WordBits; quotients that truncate towards zero, remainders with the   *)
(* sign of the dividend; sums and products reduced before they wrap; bytes *)
(* numbered from the most significant one.                                 *)
Signed(w) == IF w >= WordLimit \div 2 THEN w - WordLimit ELSE w
Wrap(i) == i % WordLimit
Abs(i) == IF i < 0 THEN -i ELSE i
Power[x \in Nat, k \in Nat] == IF k = 0 THEN 1 ELSE Wrap(x * Power[x, k - 1])
Truncated(a, b) ==
    (IF (a < 0) # (b < 0) THEN -1 ELSE 1) * (Abs(a) \div Abs(b))
SignedPrefix(v, i) ==
    LET limit == ByteLimit ^ (i + 1)
        low == v % limit
    IN  IF low >= limit \div 2 THEN low - limit ELSE low
Sum(a, b) == Wrap(a + b)
Difference(a, b) == Wrap(a - b)
Product(a, b) == Wrap(a * b)
Quotient(a, b) == IF b = 0 THEN 0 ELSE a \div b
Remainder(a, b) == IF b = 0 THEN 0 ELSE a % b
SignedQuotient(a, b) ==
    IF b = 0 THEN 0 ELSE Wrap(Truncated(Signed(a), Signed(b)))
SignedRemainder(a, b) ==
    IF b = 0 THEN 0
    ELSE Wrap(Signed(a) - Signed(b) * Truncated(Signed(a), Signed(b)))
SumModulo(a, b, n) == Remainder(a + b, n)
ProductModulo(a, b, n) == Remainder(a * b, n)
Exponential(a, b) == Power[a, b]
SignExtended(a, b) ==
    IF a < WordBytes THEN Wrap(SignedPrefix(b, a)) ELSE b
ByteOf(a, b) ==
    IF a < WordBytes THEN (b \div ByteLimit ^ (WordBytes - 1 - a)) % ByteLimit ELSE 0
ShiftedLeft(a, b) == Wrap(b * 2 ^ a)
ShiftedRight(a, b) == b \div 2 ^ a
ShiftedArithmetically(a, b) == Wrap(Signed(b) \div 2 ^ a)
LeadingZeros(a) == Cardinality({k \in 0 .. WordBits - 1 : a < 2 ^ k})

Read(f, off, len) == SubSeq(Grown(f, {<<off, len>>}), off + 1, off + len)

-----------------------------------------------------------------------------
VARIABLES
    scene,          \* the scene of this run
    m,              \* the machine, see Regions
    suspended,      \* continuations, outermost first
    ideal,          \* the private frames, running frame last
    left            \* instructions left of the bound

vars == <<scene, m, suspended, ideal, left>>

(* A transaction's first frame some way into its code. *)
Init ==
    /\ scene \in Scenes
    /\ \E s \in scene.stacks, g \in scene.gas, mem \in scene.memories, w \in BOOLEAN :
        /\ m = [gas |-> g, sp |-> Len(s), base |-> 0, height |-> Len(mem),
                calldata |-> [kind |-> "input", off |-> 0, len |-> Len(InputBytes)],
                returndata |-> EMPTY_SLICE, static |-> w, warm |-> w, status |-> "running",
                result |-> EMPTY_SLICE, log |-> <<>>,
                memory |-> mem, stack |-> s, bases |-> <<>>, output |-> <<>>]
        /\ suspended = <<>> /\ left = scene.steps
        /\ ideal = <<[stack |-> Reverse(s), mem |-> mem, calldata |-> InputBytes,
                      returned |-> <<>>, out |-> <<>>, gas |-> g, live |-> TRUE]>>

Me == Last(ideal)
Running == m.status = "running"
Turn == Running /\ left > 0
Halts == {"stop", "return", "revert"}
(* The loop takes the gas of every exception, whatever the handler left. *)
Dispatched(r) ==
    IF r.status \in {"running", "fatal"} \cup Halts THEN r ELSE [r EXCEPT !.gas = 0]
Did(r, f) ==
    /\ m' = Dispatched(r)
    /\ ideal' = Front(ideal) \o <<f>>
    /\ left' = left - 1
    /\ UNCHANGED suspended
TopOf(r) == IF r.sp > 0 THEN stack_slot_read(r, 0) ELSE 0

(* Handlers that replace operands by a word, with the word it should be;   *)
(* bitwise results and reads of the surroundings are taken as they come.   *)
ByClass(class, inputs, results) ==
    {[r |-> r[1], inputs |-> inputs, cost |-> Price[class], word |-> r[2]] : r \in results}
AsIs(r) == <<r, TopOf(r)>>
Flag(b) == IF b THEN 1 ELSE 0
Computations ==
    LET a == Arg(Me, 1)  b == Arg(Me, 2)  n == Arg(Me, 3)
    IN  UNION {
           ByClass("verylow", 2, {
                <<execute_add(m), Sum(a, b)>>, <<execute_sub(m), Difference(a, b)>>,
                <<execute_lt(m), Flag(a < b)>>, <<execute_gt(m), Flag(a > b)>>,
                <<execute_slt(m), Flag(Signed(a) < Signed(b))>>,
                <<execute_sgt(m), Flag(Signed(a) > Signed(b))>>,
                <<execute_eq(m), Flag(a = b)>>, AsIs(execute_and(m)),
                AsIs(execute_or(m)), AsIs(execute_xor(m)),
                <<execute_byte(m), ByteOf(a, b)>>, <<execute_shl(m), ShiftedLeft(a, b)>>,
                <<execute_shr(m), ShiftedRight(a, b)>>,
                <<execute_sar(m), ShiftedArithmetically(a, b)>>}),
           ByClass("low", 2, {
                <<execute_mul(m), Product(a, b)>>, <<execute_div(m), Quotient(a, b)>>,
                <<execute_sdiv(m), SignedQuotient(a, b)>>,
                <<execute_mod(m), Remainder(a, b)>>,
                <<execute_smod(m), SignedRemainder(a, b)>>,
                <<execute_signextend(m), SignExtended(a, b)>>}),
           ByClass("verylow", 1, {<<execute_iszero(m), Flag(a = 0)>>, AsIs(execute_not(m)),
                AsIs(execute_calldataload(m)), AsIs(execute_blobhash(m))}),
           ByClass("low", 1, {<<execute_clz(m), LeadingZeros(a)>>}),
           ByClass("blockhash", 1, {AsIs(execute_blockhash(m))}),
           ByClass("mid", 3, {<<execute_addmod(m), SumModulo(a, b, n)>>,
                              <<execute_mulmod(m), ProductModulo(a, b, n)>>})}
Environment ==
    ByClass("base", 0, {AsIs(r) : r \in {
        execute_address(m), execute_origin(m), execute_caller(m),
        execute_callvalue(m), execute_gasprice(m), execute_calldatasize(m),
        execute_codesize(m), execute_returndatasize(m), execute_coinbase(m),
        execute_timestamp(m), execute_number(m), execute_slotnum(m), execute_prevrandao(m),
        execute_gaslimit(m), execute_chainid(m), execute_basefee(m), execute_blobbasefee(m),
        execute_msize(m), execute_gas(m)}})
    \cup ByClass("low", 0, {AsIs(execute_selfbalance(m))})

Compute ==
    /\ Turn /\ "compute" \in scene.families
    /\ \E e \in Computations \cup Environment :
          Did(e.r, Computed(Me, e.inputs, e.cost, e.word))
ComputeExp ==
    /\ Turn /\ "compute" \in scene.families
    /\ LET r == execute_exp(m)
           bytes == Cardinality({k \in 0 .. WordBytes - 1 : Arg(Me, 2) >= ByteLimit ^ k})
       IN  Did(r, Computed(Me, 2, Price.exp + Price.expbyte * bytes,
                           Exponential(Arg(Me, 1), Arg(Me, 2))))
ReadAccount ==
    /\ Turn /\ "compute" \in scene.families
    /\ \E e \in {<<execute_balance(m), 0>>, <<execute_extcodehash(m), 0>>,
                 <<execute_extcodesize(m), external_code_read_cost>>} :
          Did(e[1], Computed(Me, 1, (IF m.warm THEN Price.warm ELSE Price.cold) + e[2], TopOf(e[1])))

Memory ==
    /\ Turn /\ "memory" \in scene.families
    /\ \/ Did(execute_mload(m), Loaded(Me))
       \/ Did(execute_mstore(m), Stored(Me, word_to_hash(Arg(Me, 2))))
       \/ Did(execute_mstore8(m), Stored(Me, <<Arg(Me, 2) % ByteLimit>>))
       \/ Did(execute_mcopy(m), Moved(Me))
Copy ==
    /\ Turn /\ "copy" \in scene.families
    /\ \/ Did(execute_calldatacopy(m), CopiedIn(Me, 0, Price.verylow, Me.calldata))
       \/ Did(execute_codecopy(m), CopiedIn(Me, 0, Price.verylow, FrameCode))
       \/ Did(execute_extcodecopy(m),
              CopiedIn(Me, 1, (IF m.warm THEN Price.warm ELSE Price.cold) + external_code_read_cost, ExternalCode))
CopyReturned ==
    /\ Turn /\ "returndata" \in scene.families
    /\ Did(execute_returndatacopy(m),
           IF Arg(Me, 2) + Arg(Me, 3) > Len(Me.returned) THEN Dead(Me)
           ELSE CopiedIn(Me, 0, Price.verylow, Me.returned))
(* What a frame shows the outside: a log's data, or its result. *)
Output(g) == [g EXCEPT !.out = Read(Me, Arg(Me, 1), Arg(Me, 2))]
Hash ==
    /\ Turn /\ "compute" \in scene.families
    /\ Did(execute_keccak256(m),
           Access(Me, 2, 30 + 6 * Words32(Arg(Me, 2)), <<Arg(Me, 1), Arg(Me, 2)>>, LAMBDA g :
               [g EXCEPT !.stack = <<Digest(Read(Me, Arg(Me, 1), Arg(Me, 2)))>> \o @]))
Log ==
    /\ Turn /\ "log" \in scene.families
    /\ \E n \in 0 .. 4 :
          Did(execute_log(m, n),
              IF m.static THEN Dead(Me)
              ELSE Access(Me, n + 2, 375 + 375 * n + 8 * Arg(Me, 2),
                          <<Arg(Me, 1), Arg(Me, 2)>>, Output))

(* Operands 1 .. n from the top; an index counts from the top too. *)
Swapped(f, i, j) ==
    Pay(f, j, Price.verylow,
        [f EXCEPT !.stack = [k \in 1 .. Len(@) |->
            IF k = i THEN @[j] ELSE IF k = j THEN @[i] ELSE @[k]]])
(* A run of PUSH instructions, down to the first that fails. *)
Push ==
    /\ Turn
    /\ \E vs \in scene.pushed :
          Did(FoldLeft(LAMBDA r, v : IF r.status = "running" THEN execute_push(r, v, v) ELSE r,
                       m, vs),
              FoldLeft(LAMBDA f, v : IF f.live THEN Computed(f, 0,
                                         IF v = 0 THEN Price.base ELSE Price.verylow, v) ELSE f,
                       Me, vs))
Shuffle ==
    /\ Turn /\ "shuffle" \in scene.families
    /\ \/ Did(execute_pop(m), Dropped(Me, 1, Price.base))
       \/ \E n \in 1 .. 3 : Did(execute_dup(m, n),
              Pay(Me, n, Price.verylow, [Me EXCEPT !.stack = <<Arg(Me, n)>> \o @]))
       \/ \E n \in 1 .. 3 : Did(execute_swap(m, n), Swapped(Me, 1, n + 1))
       \/ Did(execute_exchange(m, 1, 2), Swapped(Me, 2, 3))

-----------------------------------------------------------------------------
(* The windows of a call: input and output, materialized together. *)
CallWindows(c, then(_)) ==
    TouchHeight(c, Max({G!memory_requested_height(Operand(c, 3), Operand(c, 4)),
                        G!memory_requested_height(Operand(c, 5), Operand(c, 6))}), then)
CallGas(c) == G!call_gas_cap_word(c.gas, Operand(c, 0))

suspend_frame(r, kind, child_gas, ret, calldata) ==
    [operand_stack_push_empty_frame(r) EXCEPT
        !.gas = child_gas, !.base = memory_absolute(r.base, r.height), !.height = 0,
        !.calldata = calldata, !.returndata = returndata_clear, !.log = <<>>]
Continuation(r, kind, child_gas, ret) ==
    [kind |-> kind, gas |-> r.gas - child_gas, sp |-> r.sp, height |-> r.height,
     calldata |-> r.calldata, ret |-> ret]
Enter(r, kind, child_gas, ret, calldata) ==
    /\ m' = suspend_frame(r, kind, child_gas, ret, calldata)
    /\ suspended' = Append(suspended, Continuation(r, kind, child_gas, ret))
    /\ left' = left - 1

Child(input, g) ==
    [stack |-> <<>>, mem |-> <<>>, calldata |-> input, returned |-> <<>>,
     out |-> <<>>, gas |-> g, live |-> TRUE]
(* The caller while its call runs: operands gone, both windows active. *)
Caller(inputs, windows, g) ==
    Pay(Me, inputs, Growth(Me, windows) + g,
        [Me EXCEPT !.stack = Rest(Me, inputs), !.mem = Grown(Me, windows)])
CallWindowSet == {<<Arg(Me, 4), Arg(Me, 5)>>, <<Arg(Me, 6), Arg(Me, 7)>>}
(* A call that ends at once leaves a flag and a result. *)
Answered(f, flag, data, out) ==
    [f EXCEPT !.stack = <<flag>> \o @, !.returned = data,
              !.mem = Patched(@, IF Len(data) = 0 THEN 0 ELSE out[1],
                              SubSeq(data, 1, Min({out[2], Len(data)})))]

(* CALL to code, to the identity precompile, or refused (depth, balance). *)
run_call ==
    /\ Turn /\ "call" \in scene.families
    /\ LET w == guard_stack(m, 7, 1, LAMBDA c : CallWindows(c, LAMBDA t : t))
           args == active_memory_slice(w, Operand(w, 3), Operand(w, 4))
           ret == memory_access(Operand(w, 5), Operand(w, 6))
           r == stack_top_retreat(w, 7)
           copied == [freeze_memory_output(r, args) EXCEPT !.returndata = [off |-> 0, len |-> args.len]]
       IN  IF w.status # "running" THEN Did(w, Dead(Me))
           ELSE \/ /\ Len(suspended) < scene.depth
                   /\ Enter(r, "call", CallGas(w), ret,
                            [kind |-> "memory", off |-> args.off, len |-> args.len])
                   /\ ideal' = Front(ideal) \o
                          <<Caller(7, CallWindowSet, CallGas(w)),
                            Child(Read(Me, Arg(Me, 4), Arg(Me, 5)), CallGas(w))>>
                \/ Did(PushWord(returndata_copy_prefix(copied, copied.returndata,
                                    memory_absolute(r.base, ret[1]), ret[2]), WORD_ONE),
                       Answered(Caller(7, CallWindowSet, 0), 1,
                                Read(Me, Arg(Me, 4), Arg(Me, 5)), ret))
                \/ Did(PushWord([r EXCEPT !.returndata = returndata_clear], WORD_ZERO),
                       Answered(Caller(7, CallWindowSet, 0), 0, <<>>, <<0, 0>>))

(* The init code is copied to the code store; the child has no input. *)
run_create ==
    /\ Turn /\ "create" \in scene.families
    /\ LET w == guard_stack(m, 3, 1, LAMBDA c : guard_static(c, LAMBDA s :
                    Touch(s, Operand(s, 1), Operand(s, 2), LAMBDA t : t)))
           r == stack_top_retreat(w, 3)
           g == w.gas - w.gas \div 64
           window == {<<Arg(Me, 2), Arg(Me, 3)>>}
       IN  IF w.status # "running" THEN Did(w, Dead(Me))
           ELSE \/ /\ Len(suspended) < scene.depth
                   /\ Enter(r, "create", g, <<0, 0>>, [kind |-> "input", off |-> 0, len |-> 0])
                   /\ ideal' = Front(ideal) \o <<Caller(3, window, g), Child(<<>>, g)>>
                \/ Did(PushWord([r EXCEPT !.returndata = returndata_clear], WORD_ZERO),
                       Answered(Caller(3, window, 0), 0, <<>>, <<0, 0>>))

HaltWith ==
    /\ Turn /\ "halt" \in scene.families
    /\ \/ Did(execute_return(m), Access(Me, 2, 0, <<Arg(Me, 1), Arg(Me, 2)>>, Output))
       \/ Did(execute_revert(m), Access(Me, 2, 0, <<Arg(Me, 1), Arg(Me, 2)>>, Output))
       \/ Did(execute_stop(m), Me)
       \/ Did(execute_invalid(m), Dead(Me))

-----------------------------------------------------------------------------
frame_output(r) == IF r.status \in {"return", "revert"} THEN r.result ELSE EMPTY_SLICE
frame_succeeded(r) == r.status \in {"stop", "return"}

(* The parent over what the child left behind. *)
Parent(c, r) ==
    [operand_stack_pop_frame(r) EXCEPT
        !.base = memory_parent_base(r.base, c.height), !.height = c.height,
        !.sp = c.sp, !.gas = c.gas + r.gas, !.calldata = c.calldata, !.status = "running",
        !.result = EMPTY_SLICE, !.log = <<>>]
resume_call(c, r) ==
    LET p == Parent(c, r)
        out == frame_output(r)
        copied == returndata_copy_prefix(p, out, memory_absolute(p.base, c.ret[1]), c.ret[2])
    IN  PushWord([copied EXCEPT !.returndata = out], word_of_bool(frame_succeeded(r)))
(* The result of a creation is code, not return data. *)
resume_create(c, r) ==
    PushWord([Parent(c, r) EXCEPT
                !.returndata = IF frame_succeeded(r) THEN returndata_clear ELSE frame_output(r)],
             IF frame_succeeded(r) THEN Env.created ELSE WORD_ZERO)

Resume ==
    /\ ~Running /\ m.status # "fatal" /\ suspended # <<>>
    /\ LET c == Last(suspended)
           data == IF m.status \in {"return", "revert"} THEN Me.out ELSE <<>>
           ok == m.status \in {"stop", "return"}
           flag == IF ~ok THEN 0 ELSE IF c.kind = "call" THEN 1 ELSE Env.created
           parent == ideal[Len(ideal) - 1]
       IN  /\ m' = IF c.kind = "call" THEN resume_call(c, m) ELSE resume_create(c, m)
           /\ ideal' = SubSeq(ideal, 1, Len(ideal) - 2) \o
                  <<Answered([parent EXCEPT !.gas = @ + Me.gas], flag,
                             IF c.kind = "create" /\ ok THEN <<>> ELSE data, c.ret)>>
           /\ suspended' = Front(suspended)
           /\ UNCHANGED left

Done == (left = 0 \/ (~Running /\ suspended = <<>>)) /\ UNCHANGED vars

Step ==
    \/ Compute \/ ComputeExp \/ ReadAccount \/ Memory \/ Copy \/ CopyReturned \/ Hash \/ Log
    \/ Push \/ Shuffle \/ run_call \/ run_create \/ HaltWith \/ Resume

Next == (Step /\ UNCHANGED scene) \/ Done

Spec == Init /\ [][Next]_vars
-----------------------------------------------------------------------------
Height(i) == IF i = Len(ideal) THEN m.height ELSE suspended[i].height
Cursor(i) == IF i = Len(ideal) THEN m.sp ELSE suspended[i].sp
StackBase(i) == IF i = 1 THEN 0 ELSE m.bases[i - 1]
MemoryBase(i) == m.base - MapThenSumSet(Height, i .. Len(ideal) - 1)
Calldata(i) == IF i = Len(ideal) THEN m.calldata ELSE suspended[i].calldata
BytesAt(slice) ==
    IF slice.kind = "input" THEN _region_bytes(InputBytes, slice)
    ELSE _region_bytes(m.memory, slice)
Excepted == m.status \notin {"running", "fatal"} \cup Halts

(* The checks made before a region is touched suffice: neither a window    *)
(* beyond the established memory nor a slot outside the frame is ever      *)
(* asked for, and the flat memory stays within its limit (memory_access,   *)
(* expand_memory, memory_absolute, mem_view, stack_slot_read_host).        *)
RegionsSuffice ==
    /\ m.status # "fatal"
    /\ m.base + m.height <= MaxHeight
    /\ m.base + m.height <= Len(m.memory)
    /\ StackBase(Len(ideal)) + m.sp <= Len(m.stack)

(* Frames share one memory, one operand stack and one output buffer, yet   *)
(* each sees its own: at any depth and after any sequence of calls the     *)
(* stack, the memory (zero where never written), the input and the result  *)
(* of the last call are those of private frames (mem_expand, mem_view,     *)
(* operand_stack_push_empty_frame, suspend_frame, resume_call,             *)
(* resume_create, returndata_copy_prefix), and no frame asks for more of   *)
(* the shared regions than is there.                                       *)
FramesArePrivate ==
    /\ RegionsSuffice
    /\ \A i \in 1 .. Len(ideal) : ~(i = Len(ideal) /\ Excepted) =>
        LET f == ideal[i]
        IN  /\ Reverse(SubSeq(m.stack, StackBase(i) + 1, StackBase(i) + Cursor(i))) = f.stack
            /\ SubSeq(m.memory, MemoryBase(i) + 1, MemoryBase(i) + Height(i)) = f.mem
            /\ BytesAt(Calldata(i)) = f.calldata
    /\ Running => output_bytes(m, m.returndata) = Me.returned
    /\ m.status \in {"return", "revert"} => output_bytes(m, m.result) = Me.out
    /\ m.log # <<>> /\ Running => m.log.data = Me.out

(* Prices are charged in stages and operands checked first, but a frame    *)
(* ends exactly when the whole price, the operands or the stack limit say  *)
(* so, and pays exactly the whole price (guard_stack, copy_gas_cost,       *)
(* memory_expansion_gas_cost and their order in the handlers).             *)
StagedChargesAddUp ==
    /\ m.gas = Me.gas
    /\ Excepted <=> ~Me.live
=============================================================================
