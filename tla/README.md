# evm-sail: a TLA+ verification project

evm-sail is an executable specification of the Ethereum Virtual Machine written
in Sail, with hosts that hold the mutable state the specification works on.
This directory holds TLA+ models of that system, the TLC configurations that
check them on small instances, and TLAPS proofs about the undo journal, the
call tree and the transaction loop.

Paths below are relative to `src/`. The Sail sources (`sail/`) are extracted
function by function into a Python package (`extractions/python/src/evm/`)
whose definitions have the same names and the same control; the host it runs on
is `extractions/python/contract/HostContract.py`. The map in `PROJECT.json`
points to the Python text and, for the kernel tables, to the C host of the
specification (`extractions/c/spec/contract/`); hazards and findings cite the
Sail lines, which is where a maintainer would change something.

## 1. The system

```
 main, executor/stateless     decode the input, verify, publish one result
   lib/ssz, lib/htr           views of the input; root of the request
   executor/payload           header and parent checks, blob market
   executor/block             system calls, transaction loop, receipts, requests
     evm/transaction          validity, upfront debit, authorizations, frame, settlement
       evm/interpreter        one loop over a tree of calls and creations
         evm/execute, gas     instructions and their prices; precompiles
           kernel/*           state operations, each journalled
             host             overlays, undo journal, regions, stores
   lib/mpt, lib/rlp           state root, list roots, encodings
```

Control is sequential: there are no threads and no messages, nothing is
persisted, and a run ends with one verdict. What makes it hard is the interplay
of scopes, failures and shared stores:

* a frame may end in success, REVERT or an exceptional halt at any depth; every
  end undoes a different part of the journalled state, gives back a different
  part of two gas pools, and keeps or drops refunds;
* frames share one memory, one operand stack and one output buffer, and a
  parent is a record on a stack while its child runs;
* accounts live in two overlays over a witness, with generations in place of
  erasing, and three fork rules for self-destruct;
* encoders share one scratch arena in which receipts lie for the whole block;
* the same bytes are read by several readers (two code decoders and a scan, two
  list readers, a counting and a decoding pass) that have to agree;
* many helpers do not report an error but end in `fatal_error`, which loses the
  whole block; they rest on arguments about sequences of calls that only a
  comment states.

### Inventory

| Component | State | What makes it correct | Status |
|---|---|---|---|
| Kernel state of the specification host | warm sets, transient words, log arenas, flat journal | a revert brings back the tables of the innermost open checkpoint | partly: allocation failure is left out |
| Call tree | carried frame, suspended parents, journal scopes | gas conserved, state gas pays for growth, refunds follow writes, the loop ends | partly: instruction contents are in the next rows |
| Stack, memory, output and instructions | flat regions with bases | every frame sees private regions; staged charges are one price | partly: small words, hashes as terms |
| Gas formulas | none | early exits never change a price | partly: intrinsic gas is a given number |
| Code | jump tables | scan and decoders agree at every fork | modelled |
| Transactions | phase, frame gas, tracker, scopes | ether conserved, failures keep only what they must | partly: intrinsic gas, access-list warming |
| Block loop and block gas | usage in two dimensions, blobs | header limits hold | modelled |
| Overlays, merge, self-destruct | two layers, generations, worklists | one map with snapshots | modelled |
| Executable host | the tables behind these | as above | partly: byte stores and accelerators external |
| Block access list | recorder tables | describes the block; reads survive reverts | modelled |
| System calls, requests, withdrawals | block phases | requests were produced by this block | partly: gas of a system call |
| Payload, headers, blob market | ancestor table | only the chain is accepted | modelled |
| Stateless entry and result | views, one output | one verdict, the input read once and whole | modelled |
| Receipts store, list tries | records in the arena | each index finds its entry | modelled |
| Merkle Patricia trie, state root | node store | root of the updated map, or fatal when a node is missing | modelled |
| RLP and codecs | scratch arena | reads back, canonical, sizes exact | modelled |
| SSZ and hash tree root | none | parts tile the input, the root names the request | partly: fewer fields of each width |
| Precompiles | shared output buffer | accelerators see paid, padded items | partly: the curves are external |
| C state database; optimised host and dispatch; other extractions; tools, guests, docs | - | - | not modelled, see 7 |

`PROJECT.json` lists the components with sources, modules and reasons, and
under `hazards` the lines where the behaviours above bite, with the properties
that would catch them going wrong.

## 2. Modules

| Part | Modules |
|---|---|
| Journal | `FrameSnapshots` (abstract), `KernelState`, `KernelFrames`, `KernelProofs` |
| Call tree | `GasPools`, `CallTree`, `CallLedger` (properties), `CallProofs` |
| Transactions | `TransactionGas`, `TransactionLedger` (properties), `TransactionProofs` |
| Shared by the proofs | `LedgerLemmas`: least numbers, loops, stacks, sums over finite sets |
| World | `AccountStore`, `BlockAccessList`, `WorldState`, `Ledger` (abstract), `WorldLedger` (refinement and properties), `OverlayLemmas` (the operations of the host), `WorldProofs` |
| Machine | `Regions`, `Instructions`, `StackMachine` |
| Code, prices, precompiles | `ForkOrder`, `CodeWalk`, `CodeProofs`, `GasFormulas`, `GasCharges` |
| Tries | `MerkleTrie`, `StateTrie`, `IndexedTrie` |
| Codecs | `Rlp`, `Codecs`, `Ssz`, `StatelessRun` |
| Block | `BlockExecution`, `BlockProofs`, `HeaderChain` |

Each group has one `MC...` module that gives its constants values. Where a
group holds several state machines that share no state (`MCCode`, `MCTries`,
`MCCodecs`, `MCBlock`), the MC module puts them side by side: a variable `part`
chosen in the initial state says which one moves, the others are at rest, and
one run checks the properties of all of them.

The groups compose by assumption and guarantee. `CallTree`, `TransactionGas`
and `WorldState` each nest scopes; the flat journal of the kernel tables is
proved to be the stack of snapshots of `FrameSnapshots`, and the overlays with
the undo records of the host to be the stack of worlds of `Ledger`. `TransactionGas` uses the interpreter through
`GasPools!FrameContract`, which `TopFrameKeepsContract` checks and
`TopFrameContract` proves of every finished call tree; the contract is relative
to the frame's entry, so it covers dispatch that spilled before the frame was
entered. `BlockExecution` takes a transaction as the logs, requests and touched
addresses it leaves;
`TransactionGas` has its gas, `WorldState` its accounts.

### KernelState: the flat journal

Variables are the C tables: `warm_addr`, `warm_slot`, `transient`, `logs` with
the arenas `log_topics` and `log_data`, `tx_log_start`, and `jrn`. An absent
transient word and a zero one are the same, as a read returns zero for both.
`target` is the local of the revert loop: 0 when no revert is under way,
otherwise the marker the loop pops down to. Each mutator is one action that
journals and writes, as its C function does. A checkpoint and a commit append
markers; a commit removes nothing. A revert is a start (the marker is found by
`state_journal_current_frame_marker`), one step of `journal_revert_to` per entry
popped, and an end. The backward scan of the C code, with its counter of commits
that still need a checkpoint, is `Closed`: a count over a range instead of a
loop, so that the prover can reason about it.

### CallTree: the interpreter loop

`frame` is the running frame as the loop carries it (two pools, spill, refund,
the reservoir it was entered with, static flag, depth, status), `stack` the
suspended parents, `saved` one world per open journal scope, `steps` the measure
`call_tree_steps_remaining`. Each action is one turn of the `while` loop of
`interpret`: plain instructions take gas or fail; RETURN, REVERT, SSTORE and
SELFDESTRUCT charge in the order of the code with the halts between; `run_call`
and `run_create` have one disjunct for each way out (halt, refusal, precompile,
collision, entry); `resume_call` and `resume_create` merge a halted child. A
check that calls `fatal_error` sets `fatal`; which checks those are is
`Representable`, and the frame stack's capacity in `Enter`. A slot has a value
from a small set, an account is empty or not, code is a length; whether a
transfer can be paid and whether an access is cold are free choices, so the
model has every behaviour of the code and some more.

`CallLedger` adds one history variable, `totals`: the running sums of gas, spill
and refunds over the suspended parents, so that its properties and their proofs
speak of a sum over the stack without recursion. What `interpret` may be called
with is named: `BudgetAssumption` says that both pools come out of one 64-bit gas
limit, that execution gas is under the cap of EIP-7825 and that the refund bound
holds 199 units for each unit of gas, and `RefundAssumption` is the argument of
`gas_refund_bound`: no price earns more than `RefundRate` times what it cost.

### TransactionGas: the transaction loop

One action per stage of `process_transaction`: admission, upfront effects, one
step per authorization, the stages of the two frame paths (one scope before
Amsterdam; a preparation and an execution scope from Amsterdam on), the snapshot
of the frame's gas with its checks, settlement with block accounting. `context`
carries the authorization cursor and tracker. Intrinsic gas and floor are
numbers of the transaction, signature recovery is a flag.

### AccountStore, BlockAccessList, WorldState: the world

`AccountStore` is the host as one record `d`, every host call an operator from
a host to the next: the block overlay, the transaction overlay as rows in
insertion order (the host pops them so), storage generations, and the journal
with one undo record per changed field. `WorldState` has the kernel operations
over it (load, store, transfer, create, self-destruct, merge) and drives them as
the code does: frames that call, create, store and self-destruct, that commit or
revert, in transactions that merge into the block, between system calls and
withdrawals. `BlockAccessList` has the recorder, the canonical iterator and the
walk that validates the payload's list. `Ledger` is the promise: one map from
addresses to accounts with their storage, one saved copy for every open scope,
and the fork's rule for who disappears. `WorldLedger` maps the tables to it by
reading every account and slot without the caching.

### Regions, Instructions, StackMachine: the data side

`Regions` has the arithmetic of `prelude`, at a width given by constants, and
the flat memory, stack and output buffer with the bases through which a frame
sees its part. `Instructions` has each handler of `execute` that stays
within a frame as its sequence of guard, charges, operands and effect.
`StackMachine` runs them in nested frames, beside `ideal`, a stack of private
frames whose results are defined mathematically. Which instruction comes next is
left open; `CodeWalk` follows the code.

### CodeWalk, GasFormulas, GasCharges

`CodeWalk` scans a code byte by byte as `analyze_code_from` does when it is
stored, then walks it with `fetch`, jumps included; the second decoder (the
`execute_..._encoded` handlers) is compared where the walk stands.
`GasFormulas` translates the formulas that leave early when a partial product
exceeds the gas at hand; `GasCharges` asks them at many budgets and grows memory
step by step. It also has the calls of precompiles: activation, charge, input
checks and the bytes shown; accelerators are external, with a free answer.

### MerkleTrie, StateTrie, IndexedTrie

`MerkleTrie` is the sparse rebuild of `lib/mpt`: update cursor relative to a
prefix, collapse of branches, inlining below 32 bytes, lookups. Keccak is an
injective wrapper; a node is readable only if the witness has its reference.
`StateTrie` runs blocks with witnesses that are complete or lack a node.
`IndexedTrie` builds the list tries of `executor/payload` and
`executor/receipts` in the order 1..127, 0, 128... of their RLP keys.

### Rlp to StatelessRun: the codecs

These are byte by byte, as their properties are about bytes. Every writer has
its separate size operator, as in the code. `Codecs` decodes the five envelopes,
counts lists where they lie and cuts out the signed span, and puts all encoders
over one arena with marks. `Ssz` gives views as ranges
of the input, and builds the hash tree root as a term, so that
`RootNamesTheRequest` can read the request back from it, field by field, at
places computed from the sizes of the fields and not from the code's tables. `StatelessRun` is
`main`: decode, read the lists, publish, with `fatal_error` as the native hosts
implement it.

### HeaderChain, BlockExecution: the block

`HeaderChain` extends an agreed chain by blocks that follow the rules, then
submits a payload, honest or not, with a witness that is a suffix of the chain,
damaged or of another chain; it walks the headers, fills the ancestor table,
checks the payload and answers BLOCKHASH. The block number is the honest one:
the code never compares the payload's number with the parent's. `BlockExecution`
goes from the payload checks over system calls, transactions with receipts and
deposit authentication, and block-end requests to the verdict. A range of logs is
a start and a count into the log store, as in the code, and never the logs
themselves: that the receipts' ranges follow one another is a property.

## 3. Runs

| Run | Instance | Shows |
|---|---|---|
| `kernel_frames` | journal of 6 entries, 2 log records, one address and slot, two words | types, `MarkerIsInnermost`, `LogArenasTiled`, `EarlierLogsKept`, refinement of `FrameSnapshots`, every revert ends |
| `call_tree` | Berlin and Amsterdam, 8 units of gas and 3 of state gas, calls two deep, two slots, two accounts | `StateGasPaysGrowth`, `GasConserved`, `TopFrameKeepsContract`, `NeverFatal`, `RefundsFollowWrites`, `StaticFramesOnlyRead`, `StepsSuffice` |
| `transactions` | Prague and Amsterdam, blocks of two transactions over three accounts | `EtherConserved`, `BlockWithinLimits`, `SnapshotsAddUp`, `FailureKeepsOnlyAuthorizations`, `AuthorizationsPayOnce`, `GrowthIsPaid` |
| `world` | Shanghai, Cancun and Amsterdam blocks over three accounts and a slot, frames two deep | `ImplementsLedger`, `StateRootSeesWorld`, `AccessListDescribesBlock`, `AccessesStayListed` |
| `machine` | words of two 2-bit bytes, memory of 24 bytes, nested frames | `FramesArePrivate`, `StagedChargesAddUp` |
| `code` | all codes of up to four of nine steering bytes, and deep-stack codes; charges at 12 budgets; pairs of precompile calls | `JumpsLandOnInstructions`, `DecodersAgree`, `ChargesAreExact`, `PrecompilesAreGuarded` |
| `tries` | four keys of three nibbles, every sparse witness that lacks a node, four updates; lists to 260 | `RootIsCanonical`, `IndexesFindTheirEntries` |
| `codecs` | inputs at the edges of every form, the five envelopes, inputs with a damaged offset, requests with no byte zero | `FieldsTileTheInput`, `EncodingsReadBack`, `TransactionsReadBack`, `InputIsTiled`, `RootNamesTheRequest` |
| `block` | two transactions with deposits; chains of four blocks over four forks | `AcceptedRequestsWereProduced`, `PhasesStayApart`, `OnlyTheChainIsAccepted`, `BlockEnds` |
| `preparation_receipt`, `floor_before_prague`, `blocks_before_cancun` | as `transactions` and `block` | expected violations, see 6 |

Why the bounds are enough. Six journal entries hold the smallest streams on
which counting can go wrong (a checkpoint inside a checkpoint, committed, with
an entry before, inside and after it; a slot written twice in one frame); the
proofs remove the bound. Costs in the call tree are a few units each and the
budget pays for two or three, so every order of charges, every pool they can be
drawn from and every way to run out between two occurs; depth two gives a child,
a refusal at the limit and siblings after a failure; divisor 4 in place of 64
makes rounding matter. Two transactions let the first constrain the second, and
a regular limit below the total makes reservoirs non-empty; the authorization
lists are those the tracker exists for. One contract with storage, one account
to create and two or three steps per transaction give creation over leftovers,
destruction in the frame that created, and both again in a later transaction or
phase. Words of four bits put every operand pair, shift and sign within reach,
and windows within, across and beyond the memory limit. Four keys give a pair
under a branch, its neighbour and a key apart, so collapses happen at each
level, with a leaf on either side of the inlining edge; 260 entries pass both
changes of key width. Codec inputs stand at 55/56, 127/128 and 255/256 bytes
and at the largest integers; two requests have no zero byte outside their offset
tables, and no two fields of a container alike, so that a field that is dropped or
taken for another is missed in the root.

`world`, `tries` and `codecs` do not check deadlock: a block that is done, a
trie after its last block and an input that was read have nothing more to do.
In the other runs an ended system stutters explicitly, so that a loop that
could not go on would be reported.

## 4. Fairness

`KernelFrames!FFairSpec` has weak fairness on the steps of the revert loop: once
`state_journal_revert` is called, the loop runs to its end without giving up
control. `CallTree!Spec` has weak fairness on `TakeTurn`, because `interpret` is
a `while` loop; its invariants do not need it, and `StepsSuffice` states
termination as the code argues it. `MCBlock!Spec` has weak fairness on the whole
next-state relation: the validator is one thread that never waits for anything,
so `BlockEnds` says that its loops end. Nothing else is fair.

## 5. Proofs

Six components are proved, for every value of their constants. TLC checks the
same properties, and with them each inductive invariant's consequences, on the
instances of section 3; the inductive invariants themselves were checked with
TLC before they were proved.

### The journal (`KernelProofs`)

| Theorem | Statement |
|---|---|
| `Invariance` | `FSpec => []IInv`, the inductive invariant |
| `TypeCorrect` | `FSpec => []TypeOK` |
| `RevertsInnermost` | `FSpec => []MarkerIsInnermost` |
| `EarlierLogsSafe` | `FSpec => []EarlierLogsKept` |
| `ArenasTiled` | `FSpec => []LogArenasTiled` |
| `JournalImplementsSnapshots` | `FSpec => RefinesSnapshots`: the flat journal implements the stack of snapshots |

They assume only the named assumptions of `KernelState`: zero is a word, the
payloads are sequences of words, the bounds are natural numbers.

`MarkerIsInnermost` is not inductive: a revert truncates the journal, so that
entries that were far below become its end, and the next scan walks through
them. The invariant therefore speaks about all of the journal. `FramesNest`
says that the markers of the open frames form a chain with only `Balanced`
ranges between them and above the last (a range is balanced if its commits
close exactly its checkpoints and leave none open); so the scan skips the range
above the last marker and stops there, and after a revert or a commit the same
holds of the marker before. `LogsJournalled` ties the number of log records to
the LOG entries and bounds their offsets. `FramesUndo` is what the refinement
needs: a revert takes many steps, each of which moves the tables away from the
live ones and not yet to the saved ones, so for each open frame `Undoes` states
in closed form where popping everything above its marker leads: warm marks
without those journalled above, for each transient key the prior value of the
first entry about it, logs cut at the records journalled above. Each mutator,
each pop and each marker preserves that form; when the marker is on top it
reads "the tables are the saved ones".

The lemmas on counting markers in a range (append, truncate, split) come first
in the module. The counts are cardinalities of sets of positions and not
recursive, so no induction over data is needed.

### The call tree (`CallProofs`)

| Theorem | Statement |
|---|---|
| `CallInvariant` | `LSpec => []CallInv`, the inductive invariant |
| `GasConservedAlways` | `LSpec => []GasConserved` |
| `NeverFatalAlways` | `LSpec => []NeverFatal` |
| `StepsSufficeAlways` | `LSpec => []StepsSuffice` |
| `TopFrameContract` | `LSpec => []TopFrameKeepsContract` |
| `StateGasPays` | `LSpec => []StateGasPaysGrowth` |
| `StaticFramesRead` | `LSpec => []StaticFramesOnlyRead` |
| `RefundsFollow` | `LSpec => []RefundsFollowWrites` |

The depth limit, the slots, the accounts, the prices and the budgets are
arbitrary within the assumptions of `GasPools` and `CallTree`, each of which
names a fact about the gas schedule (the stipend is below the price of a
value transfer, warm access is not free and no dearer than cold, the refunds are
within `gas_refund_bound`).

None of the properties is inductive, as each speaks of the running frame and a
child's end brings back a parent about which it says nothing. `CallInv` has four
parts:

* `LedgerOK`: types, `totals` adds up, the stack is below its capacity, every
  suspended parent is a running frame with an empty reservoir at its own depth.
* `BudgetOK`: what all frames hold and have spilled (`Held`) stays within the
  initial gas, and the sum of the *magnitudes* of all refund counters within
  `RefundRate` times the gas that is gone. Magnitudes are needed because
  counters may be negative and the bound must survive a child's counter being
  dropped. Every internal check of `machine.sail` follows from it (`Fits`): it
  is what `conserved_gas_add` relies on without stating it. The step measure
  is at least three turns for each unit held and two for each open frame.
* `PoolsOK`: at *every* level, what the reservoir has lost with what the parents
  below have spilled is the price of the world that level was entered with, plus
  the charge for an account not yet undone. Without the levels, nothing is known
  of a parent when its child fails.
* `StaticOK`: static frames form a suffix of the stack, none of them was entered
  by a creation, and all worlds above the first are equal.

`RefundsFollowWrites` has an invariant of its own, `RefundOK`, again with an
equation at each level. What a world has earned is a sum over slots; a write
changes one of its terms by what `sstore_costs` records (`StoreEarns`). It is
proved step by step on top of `CallInv`.

### The transaction loop (`TransactionProofs`)

| Theorem | Statement |
|---|---|
| `TransactionInvariant` | `LSpec => []TransactionInv`, the inductive invariant |
| `EtherConservedAlways` | `LSpec => []EtherConserved` |
| `BlockWithinLimitsAlways` | `LSpec => []BlockWithinLimits` |
| `SnapshotsAddUpAlways` | `LSpec => []SnapshotsAddUp` |
| `FailureKeepsOnlyAuthorizationsAlways` | `LSpec => []FailureKeepsOnlyAuthorizations` |
| `AuthorizationsPayOnceAlways` | `LSpec => []AuthorizationsPayOnce` |
| `GrowthIsPaidAlways` | `BaseFee > 0` implies `LSpec => []GrowthIsPaid` |

The accounts, the transactions, the block limits and the prices are arbitrary
within the assumptions of `TransactionGas`. The frame is used through
`FrameContract` alone, which `TopFrameContract` proves of the call tree.

`GrowthIsPaid` needs a positive base fee. With free gas an account that does not
exist can send a transaction; its nonce makes it an account, for which nobody is
charged. The code does not look at the base fee of a block for this (the chain
rule keeps it positive); the hypothesis is that rule.

Each property speaks of the moments between transactions, so `TransactionInv`
says for every phase what has been set aside until then:

* `AdmittedOK` keeps what admission has checked (room in both dimensions of the
  block, the floor, the regular allowance); `BlockWithinLimits` needs it at
  settlement, several stages later.
* `FrameOK`: `Fits(frame, base)` says that gas, spill, reservoir and the state
  gas used before the frame come out of the gas limit, and that what is neither
  reservoir nor base is at most the regular allowance. That is the sum the
  snapshot checks, stated before the frame runs; only the failed preparation is
  outside of it, which is the finding of section 6.
* `WorldsOK`: which of the world and the open scopes differs from the charged
  world, and by authorizations only.
* `EtherOK`: the sum of the balances with what was debited and burned. It is a
  sum over all accounts, so a transfer, a debit and a refund are each one change
  of one or two values (`SumChange` in `LedgerLemmas`).
* `TrackerOK`: an authority that the tracker has seen has a nonce, the tracker
  knows whether it was delegated at the start, and the state gas used is the
  price of the accounts and delegations that are new in the charged world.
* `GrowthOK`: the state gas of the block with that of the open transaction pays
  for the world as it is, or as it will be if the transaction fails.

### The block (`BlockProofs`)

| Theorem | Statement |
|---|---|
| `BlockInvariant` | `BodySpec => []BlockInv`, the inductive invariant |
| `RequestsAreProduced` | `BodySpec => []AcceptedRequestsWereProduced` |
| `PhasesApart` | `BodySpec => []PhasesStayApart` |
| `HeaderInvariant` | `HeaderSpec => []HeaderInv`, the inductive invariant |
| `WitnessOfTheChain` | `HeaderSpec => [](AcceptedIsOfTheChain /\ BlockhashIsTheAncestor)` |

Blocks, effects, system calls, addresses and hashes are arbitrary;
`BlockAssumption` only says that lists are lists, that a fork and a number of
transactions are natural numbers, and how wide a hash and a bloom are. `BodySpec` is
the machine of `BlockExecution` by itself; the run `block` puts it beside the
headers.

`AcceptedRequestsWereProduced` and `PhasesStayApart` speak of an accepted block alone. What they need of the blocks
under way:

* `HostInv`: nothing is pending between two steps; no warm stamp is of a later
  epoch than the running one, which makes the next `warm_reset` forget all of
  them (`ResetFacts`).
* `EpochInv`: the epoch is 0 up to the loop and the index of the transaction in
  it, so `PostEpoch` is above every epoch of the loop.
* `ReceiptInv`: the receipts' ranges tile the log store from where the logs of
  the system calls end to the last log of the loop, and no later log changes them
  (`Tiled`, `LogsGrow`).
* `DepositInv`: the deposit events in that range are the first deposits of the
  block in their order, and `remaining` is what follows (`Answers`). One more log
  preserves it (`AnswersOneMore`), hence a whole transaction does
  (`Authenticates`), whether its events are deposits or not.
* `StreamInv`: until it is dequeued a queue holds what the transactions produced,
  and from then on the block's stream does.
* `MergeInv` and `VerdictInv`: merged is the history, and the checks against the
  block hash and the bloom are those that were made.

The three loops over logs are recursive functions. `CollectsExist` and
`Authenticates` show that they exist; `LogAdds` and `LogsAdd` that the bloom of a
range is the union of the bits of its entries.

`WitnessOfTheChain` proves two of the four parts of `OnlyTheChainIsAccepted`, for
every length of chain, witness and window. `HeaderInv` says that a hash which a
block of the chain has is of that block (`Known`; the forged headers have hashes
of their own), that the walk found each header it read to name the one before it
as its parent, as long as `index.valid`, and that it filed each hash by its
distance from the end. `LinkedDown` then goes from the payload's parent down:
the last header of an accepted witness is that parent, hence the newest block of
the chain, and the header before each block of the chain is the block before it.
The oldest header is never read, and need not be: its hash is the parent that
the next one names. `HeaderChainAssumption` is assumed: the sizes are positive,
and no reason of `fatal_error` is the absence of one. The other two parts compare
the price of blob gas computed in words with a price of unbounded numbers, both
of them sums of as many terms as the excess asks for; they stay with TLC.

### The world (`OverlayLemmas`, `WorldProofs`)

| Theorem | Statement |
|---|---|
| `TablesStandForTheWorld` | `ViewSpec => []LedgerInv`, the inductive invariant |
| `LedgerIsImplemented` | `ViewSpec => ImplementsLedger`: overlays, generations and journal implement one map with snapshots |
| `RootSeesTheWorld` | `ViewSpec => []StateRootSeesWorld` |
| `AccessesAreListed` | `ViewSpec => AccessesStayListed` |
| `AccessListReplays` | `ViewSpec => [](fork = "Amsterdam" => BalReplaysBlock /\ BalChangesAreChanges)` |

The accounts, slots, codes, amounts, blocks and nesting are arbitrary, the forks
are the three with a self-destruct rule of their own. Six assumptions of
`WorldState` are used: `ForkAssumption`, `BlockAssumption` (a block names
addresses and a number of transactions), `AddressAssumption`,
`AmountAssumption`, `ParentAssumption` (the witness has a leaf exactly for
the parent accounts that are not empty, and storage for no other) and
`SenderAssumption` (a sender that has storage in the parent state has a nonce or
code as well: storage without either is what a creation left behind that
deployed nothing, before EIP-161 gave created accounts a nonce, and nobody can
sign for such an address). The last is used on Amsterdam only.

What makes it hard is that neither direction is local. A value is read from the
transaction overlay, from the block overlay or from the parent, depending on
generations and flags that other operations move; and an undo record restores
one field of one row, so that only all the records behind a checkpoint, undone
newest first, lead to a state that means anything. The argument has three
levels, one for each of them.

* **One host** (`Overlaid`). Rows have distinct keys; a row of the transaction
  overlay was loaded from the block overlay and still has its values as
  `original`; an account has a generation of its own only if it was neither
  alive before the transaction nor lost its row; a slot row carries its
  account's generation; a present account is one that is not empty; the block
  rows of an account that is not alive hold what its trie holds. From this `View` is one map, and each operation of the
  kernel changes it as the ledger's operation does (`BareShown`, `FreshEntry`,
  `DebitIs`, `Destructed`, ...).
* **Its past** (`Extends`, `Reaches`, `Good`). An operation appends to the
  journal, and undoing what it appended gives back its tables; what a revert
  keeps is more rows of the block overlay that hold what they cache, more
  accesses in the list, and nothing else (`Grows`). So for every open checkpoint the host it stands
  for is itself `Overlaid`, and shows the world it showed when the checkpoint
  was made (`Carry`, `Reverted`). `ScanFinds` proves that the backward scan with
  its counter of commits finds the innermost open checkpoint, `RelistedHost` and
  `RemoveLast` that a listing record removes the very row that it listed,
  although it names its account only.
* **The frames** (`Ordered`, `Whole`). Each frame has its checkpoint, with one
  more below them while an Amsterdam transaction runs; the account that a frame
  creates has a nonce in every world above its checkpoint, which is what makes
  `k_account_occupied` refuse a second creation and keeps a generation from
  being opened over a live account. Between transactions the transaction
  overlay is empty.

A merge takes the world of the transaction overlay into the block overlay
(`MergedBase`, `MergedSlot`, `MergedBlock`, `Merged`): the account rows that
changed, the slots of accounts that live on, and the removal of the rows of an
account whose storage went. `RootSees` needs one thing more of the block
overlay: a row whose account is marked unchanged is the parent's, and each slot
row keeps the value its account's trie has as `orig` (`BlockOK`). That holds
over several transactions because a merge writes only account rows that it
changes, and keeps the `orig` of a slot row it overwrites or drops the row with
the storage it belonged to.

`AccessListReplays` is about the values in the access list, of which
`AccessesAreListed` says nothing. Its invariant `ListInv` holds inside frames as
well: replayed on the parent state up to the last index merged (`Reached`), the
list gives the base of every account and slot, which is what the block overlay
holds or, where it has no row, the parent (`Recorded`, `Told`). An instruction
or a revert changes neither side (`Grows`); a merge finds no change at its own
index if it is that of a transaction, and overwrites those of the system calls
that share the index before the first transaction or after the last (`Before`).
What it records is exactly what it changes. For the fields of an account that is
a comparison with `original` (`FieldChanged`). For a slot it is not evident
(`SlotChanged`): the recorder compares the row with the value its account's storage had
when the transaction began, and skips the slots of a deleted account, so it has
to be shown that a deleted account had no storage in the block. It was created in
this transaction, over storage that was empty: that is the part `Begun` of the
invariant. `Still` carries it from step to step: an account without nonce and
code has written no slot, so that a creation, which the collision check allows
only over empty storage, starts from what the block holds; and a sender whose
balance the fee takes to zero before its nonce rises, an empty account for a
moment, has no storage for the clearing to drop.

### The code (`CodeProofs`)

| Theorem | Statement |
|---|---|
| `WalkInvariant` | `WalkSpec => []WalkInv`, the inductive invariant |
| `JumpsLand` | `WalkSpec => []JumpsLandOnInstructions` |
| `GasInvariant` | `GasSpec => [](ChargesInv /\ PrecompilesInv)`, the inductive invariants |
| `ChargesExact` | `GasSpec => []ChargesAreExact` |
| `PrecompilesGuarded` | `GasSpec => []PrecompilesAreGuarded` |

The codes and forks are arbitrary. An instruction start is defined by a
recursive function over the lengths of the instructions; a scan that knows the
operands of EIP-8024 and one that does not count differently, and the property
says that they still mark the same JUMPDESTs. `WalkInv` says that the scan
stands at a start in either way of counting and has marked exactly the JUMPDESTs
below it, and that the frame stands at a start or past the end. That a valid operand of
EIP-8024 is never a JUMPDEST and never a PUSH is what makes the two agree.

The prices are compared for every input, every budget and every nonempty table
of discounts. A formula leaves early when a partial product exceeds the gas at
hand; the exit is right because the product only grows afterwards, and where the
code divides the gas instead of multiplying the units (`words > available / 6`)
because the two comparisons are equivalent over the integers (`DepositExact`,
`Eip2565Exact`, `Eip7883Exact`). The one factor that can be zero makes the price
zero, and the code tests it first. `PairsExact` shows that pricing thousands of
pairs before the rest rounds as one division does. `TouchPays` needs that the
cost of a memory grows with its height, so that the difference of two costs is a
number. `PaddingReachesAll` says, for inputs of any length, that the strided
checks of `run_bls_...` accept exactly the inputs whose every coordinate is
padded; `ItemsArePaid` and `ShownIsWritten` that what is run is paid item by item
and what is shown was written. Here the properties are inductive once the types
of the counters are added. The proofs assume `GasFormulasAssumption`,
`PrecompilesAssumption` and `GasChargesAssumption`: divisors are not zero, the
inputs are numbers, the price beyond a table is its last entry, and three
operands of the length EIP-7823 allows fit the accelerator (2^21 bytes in the
code, against 3168).

### Method, and what stays with TLC

The library's sum over a function is a recursion whose order is left open, and
the library's induction takes an operator. `LedgerLemmas` proves what is needed
(a sum is a number, it moves by as much as one value moves, zeros sum to zero)
for all subsets of a finite domain by taking a smallest counterexample, which
the well-foundedness of strict inclusion gives. For loops it proves induction
over the members of a set (`LeastNumber`, `Climb`), which takes no operator and
so can be used: the loop, the position in a code and the bytes of a scan are
each a set of numbers that contains 0 and the successors of its members.

Only model-checked, on the instances above: `RevertCompletes` and `BlockEnds`
(liveness under fairness is out of the prover's reach); the tries, the list
tries, RLP trees and the hash tree root (recursive operators, which need
induction over data); the codecs where they fold over sequences, for the same
reason; `DecodersAgree`, whose statement is a finite table that TLC evaluates in
full; the blob gas of the headers (`ExcessIsDue`, `ValidBlocksAreAccepted`);
of `AccessListDescribesBlock` the part `WalkDecidesTheList`, which speaks of the
canonical order and of the walk over it (sorting is a recursion over data; the
other two parts are `AccessListReplays`); and so far `machine`.

## 6. Findings

* **A valid Amsterdam transaction can end in `fatal_error`**
  (`sail/evm/transaction.sail:1535`, run `preparation_receipt`). When the
  preparation scope runs out of gas, the snapshot is taken with zero gas, zero
  state gas and no state gas used, so all of `gas_limit` counts as execution
  gas; `tx_frame_gas_snapshot` then refuses a limit above the regular
  allowance, which admission allows. The documentation of receipts
  (`sail/primitives/tx.sail:281-283`) promises a failed receipt.
  `SnapshotsAddUp` checks that it is the only way into `fatal_error`.
* **The calldata floor binds before Prague** (`sail/evm/transaction.sail:884`,
  run `floor_before_prague`). The comparison with the regular allowance is made
  on every fork, where the comment at lines 867-868 says Prague and later.
* **No payload before Cancun passes** (`sail/executor/payload.sail:268`, run
  `blocks_before_cancun`). The expected excess blob gas is computed before the
  fork is tested, and its price is fatal on a fork without blobs.

Three more disagreements between text and code were met, for which there is no
violated run:

* an access list that divides the changes of one slot between two entries of
  that slot passes the walk (`sail/executor/block_access_list.sail:112`), though
  `sail/exceptions.sail:85` speaks of reconstructed bytes. `WalkDecidesTheList`
  states what the code does: of the lists an edit away from the reconstructed one
  the walk accepts exactly these;
* transient storage is cleared at the start of a transaction
  (`sail/kernel/lifecycle.sail:20`), so the block-end system calls run with that
  of the last transaction, where `sail/kernel/storage.sail:94-95` says it is
  discarded at transaction end;
* an input whose request list does not divide into items fails again while
  `fatal_error` computes the request's root, and the run aborts without a result
  (`extractions/c/spec/contract/exceptions.c:30`), where `sail/main.sail:5-6`
  says that fatal failures publish the invalid result. For a
  well-formed input `InputIsTiled` excludes it.

## 7. What is not modelled

* Intrinsic gas and calldata floor as functions of a transaction, and the
  warming of access lists: numbers and a free choice in `TransactionGas`.
* The gas of system calls, and what a system contract computes.
* The capacities of arenas and allocation failure in the C host.
* Cryptographic accelerators (hashes, curves, signatures): terms or free
  results.
* `extractions/c/spec/contract/state_db.c`, with lazy snapshots keyed by frame
  markers in place of undo records: the executable host is modelled instead.
* The optimised C host and its dispatch, a third implementation of the same
  interface; the other generated extractions; `__init__.py`, `_runtime.py` and
  the second copy of `HostContract.py` in the package, which have no behaviour
  of their own.
* Forks before Berlin, which no profile selects; tools, zkVM guests, docs.

## 8. What is left

* Proofs: the private frames of `StackMachine`.
* The state database of the C host and the journal of the optimised one as
  further implementations of `Ledger` and `FrameSnapshots`.
