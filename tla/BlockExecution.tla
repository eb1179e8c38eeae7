--------------------------- MODULE BlockExecution ---------------------------
(***************************************************************************)
(* One block, from the checked payload to the verdict                      *)
(* (executor/block, executor/system_calls, executor/stateless): the        *)
(* block-start system calls, the transaction loop with its receipts and    *)
(* deposit authentication, the block-end state, the request dequeues and   *)
(* the checks against the header.  A frame is what it leaves behind: logs, *)
(* queued requests, touched addresses, transient storage.  Gas is in       *)
(* TransactionLedger, accounts and storage are in WorldState.              *)
(***************************************************************************)
EXTENDS ForkOrder, Integers, Sequences, FiniteSets, SequencesExt

CONSTANTS
    Blocks,      \* the inputs: fork, txs, keys, deposits, streams, requests_hash
    Effects,     \* what a transaction may do: logs, push, touch, transient
    SystemEffects, \* what a system call may do
    Addresses,   \* what frames touch
    Hash,        \* of an address or a topic: its first six bytes
    HeaderBlooms, \* the blooms a header may claim
    DEPOSIT_CONTRACT_ADDR, DEPOSIT_EVENT_TOPIC,
    Fatal        \* fatal_error, where an operator has no value

(* What the inputs are: lists and counts; of a hash six bytes count, and  *)
(* a bloom has 256 bytes.                                                  *)
ASSUME BlockAssumption ==
    /\ \A b \in Blocks : b.fork \in Nat /\ b.txs \in Nat /\ b.deposits \in Seq(Range(b.deposits))
    /\ \A e \in Effects \cup SystemEffects :
          /\ e.touch \subseteq Addresses /\ e.logs \in Seq(Range(e.logs))
          /\ \A log \in Range(e.logs) : log.address \in DOMAIN Hash /\ log.topics \in Seq(DOMAIN Hash)
    /\ \A x \in DOMAIN Hash : Hash[x] \in [1 .. 6 -> 0 .. 255]
    /\ HeaderBlooms \subseteq SUBSET ((0 .. 255) \X (0 .. 7))

VARIABLES
    block,       \* the decoded input
    pc,          \* the next step of verify_stateless_payload
    cursor,      \* index of the next transaction
    epoch,       \* k_current_transaction_epoch
    host,        \* logs, log_start, transient, warm, warm_epoch, pending
    merged,      \* what k_tx_merge moved to the block layer: [by, epoch]
    code,        \* system contracts that have code
    queue,       \* requests each request contract holds
    receipts,    \* the log range of each receipt
    remaining,   \* deposits not yet authenticated
    logs_start,  \* where the transactions' logs begin
    result,      \* BlockExecutionResult.logs
    outcome,     \* "running", "valid" or the FatalError
    bloom,       \* the header's bloom, once the block is accepted
    touched,     \* history: addresses touched in this phase by frames that survived
    did,         \* history: the frames that succeeded, in order
    produced     \* history: requests queued by transactions that succeeded

body == <<block, pc, cursor, epoch, host, merged, code, queue, receipts, remaining,
          logs_start, result, outcome, bloom, touched, did, produced>>

Streams == <<"withdrawal", "consolidation", "builder_deposit", "builder_exit">>
Contracts == {"beacon_roots", "history"} \cup Range(Streams)
At(fork) == block.fork >= fork

----------------------------------------------------------------------------
(* The host's per-transaction stores. *)
NoLogs == [start |-> 0, count |-> 0]
LogRange(h) == [start |-> h.log_start, count |-> Len(h.logs) - h.log_start]
(* A retained log is read from the store, by its place in a range. *)
LogAt(logs, range, i) == logs[range.start + i]

warm_reset(h, e) == [h EXCEPT !.warm_epoch = e + 1]
(* k_tx_reset: nothing of the previous transaction is left but its logs. *)
k_tx_reset(h, e) ==
    [warm_reset(h, e) EXCEPT !.transient = FALSE, !.pending = <<>>, !.log_start = Len(h.logs)]

(* A frame that commits leaves its effect; one that reverts leaves the host
   as it was at the checkpoint (KernelFrames). *)
Frame(h, e, by, ok) ==
    IF ~ok THEN h
    ELSE [h EXCEPT !.logs = @ \o e.logs, !.transient = @ \/ e.transient,
                   !.warm = [a \in Addresses |-> IF a \in e.touch /\ @[a] < h.warm_epoch
                                                   THEN h.warm_epoch ELSE @[a]],
                   !.pending = Append(@, by)]

k_tx_merge(h) == /\ merged' = merged \o [i \in DOMAIN h.pending |-> [by |-> h.pending[i], epoch |-> epoch']]
                 /\ host' = [h EXCEPT !.pending = <<>>]

(* What a surviving frame adds to the history. *)
Remember(e, by, ok, since) ==
    /\ touched' = IF ok THEN since \cup e.touch ELSE since
    /\ did' = IF ok THEN Append(did, [by |-> by, epoch |-> epoch']) ELSE did

MutFatalError(reason) == UNCHANGED body

(* Does not return: the verdict is out. *)
fatal_error(reason) ==
    /\ outcome' = reason
    /\ pc' = "ended"
    /\ UNCHANGED <<block, cursor, epoch, host, merged, code, queue, receipts, remaining,
                   logs_start, result, bloom, touched, did, produced>>

Steps == [payload |-> "begin", begin |-> "beacon", beacon |-> "history", history |-> "transactions"]
Goto(here, next) == /\ pc = here
                    /\ outcome = "running"
                    /\ pc' = next
                    /\ UNCHANGED <<block, outcome, bloom>>

----------------------------------------------------------------------------
(* Logs blooms: a bloom is its set bits, each with its natural byte. *)
bloom_set_bit(b, bit) == b \cup {<<bit \div 8, bit % 8>>}
(* Three bits of a hash: the low eleven of each of its first words. *)
BitIndex(h, k) == ((h[2 * k - 1] % 8) * 256) + h[2 * k]
bloom_add_entry_hash(b, h) ==
    bloom_set_bit(bloom_set_bit(bloom_set_bit(b, BitIndex(h, 1)), BitIndex(h, 2)), BitIndex(h, 3))
bloom_add_log_at(b, log) ==
    LET out[topic \in 0 .. Len(log.topics)] ==
            IF topic = 0 THEN bloom_add_entry_hash(b, Hash[log.address])
            ELSE bloom_add_entry_hash(out[topic - 1], Hash[log.topics[topic]])
    IN  out[Len(log.topics)]
bloom_add_logs(b, logs, range) ==
    LET out[offset \in 0 .. range.count] ==
            IF offset = 0 THEN b ELSE bloom_add_log_at(out[offset - 1], LogAt(logs, range, offset))
    IN  out[range.count]
(* The header holds the bytes the other way round. *)
logs_bloom_from_ref(reference) == {<<255 - p[1], p[2]>> : p \in reference}
block_logs_bloom_matches(logs, range, reference) ==
    bloom_add_logs({}, logs, range) = logs_bloom_from_ref(reference)

----------------------------------------------------------------------------
(* Requests. *)
deposit_log_matches(log) == /\ log.address = DEPOSIT_CONTRACT_ADDR
                            /\ log.topics # <<>>
                            /\ log.topics[1] = DEPOSIT_EVENT_TOPIC

(* The log's five heads and lengths are the layout; its fields the request. *)
authenticate_deposit_request(log, expected) ==
    IF ~log.layout \/ expected = <<>> THEN Fatal
    ELSE IF expected[1] # log.request THEN Fatal ELSE Tail(expected)

MutAuthenticate(logs, range, expected) ==
    LET rest[offset \in 0 .. range.count] ==
            IF offset = 0 THEN expected
            ELSE LET log == LogAt(logs, range, offset)
                     left == rest[offset - 1]
                 IN  IF left = Fatal \/ ~deposit_log_matches(log) THEN left
                     ELSE IF log.request \in Range(expected) /\ left # <<>> THEN Tail(left) ELSE Fatal
    IN  rest[range.count]

authenticated(rest, log) ==
    IF rest = Fatal \/ ~deposit_log_matches(log) THEN rest ELSE authenticate_deposit_request(log, rest)
authenticate_deposit_logs(logs, range, expected) ==
    LET rest[offset \in 0 .. range.count] ==
            IF offset = 0 THEN expected ELSE authenticated(rest[offset - 1], LogAt(logs, range, offset))
    IN  rest[range.count]

(* The digests of the lists that are not empty, each with its type byte:   *)
(* their order is that of the types.                                       *)
RequestLists(b) == <<b.deposits, b.streams[Streams[1]], b.streams[Streams[2]],
                     b.streams[Streams[3]], b.streams[Streams[4]]>>
Digests(lists, used) == {[type |-> i - 1, list |-> lists[i]] : i \in {j \in used : lists[j] # <<>>}}
execution_requests_hash(b) == Digests(RequestLists(b), 1 .. 5)

----------------------------------------------------------------------------
(* The steps. *)
BodyInit == /\ block \in Blocks
            /\ pc = "payload"
            /\ cursor = 0 /\ epoch = 0
            /\ host = [logs |-> <<>>, log_start |-> 0, transient |-> FALSE,
                       warm |-> [a \in Addresses |-> 0], warm_epoch |-> 1, pending |-> <<>>]
            /\ merged = <<>> /\ receipts = <<>> /\ remaining = <<>> /\ did = <<>>
            /\ code \in {Contracts, Contracts \ {"beacon_roots"}, Contracts \ {"consolidation"}}
            /\ queue = [s \in Range(Streams) |-> <<>>]
            /\ produced = [s \in Range(Streams) |-> <<>>]
            /\ logs_start = 0 /\ result = NoLogs
            /\ outcome = "running" /\ bloom = {} /\ touched = {}

(* validate_execution_payload: the block hash commits to the header, the
   transactions and withdrawals and the request lists. *)
PayloadHash(b) == IF b.fork >= Prague THEN execution_requests_hash(b) ELSE {}

PayloadAccepted ==
    /\ Goto("payload", Steps.payload)
    /\ ~At(Paris) \/ PayloadHash(block) = block.requests_hash
    /\ UNCHANGED <<cursor, epoch, host, merged, code, queue, receipts, remaining, logs_start, result,
                   touched, did, produced>>

PayloadRefused ==
    /\ pc = "payload" /\ outcome = "running"
    /\ \/ \E reason \in {"InvalidGasUsed", "InvalidParentHash"} : fatal_error(reason)
       \/ At(Cancun) /\ fatal_error("InvalidExcessBlobGas")
       \/ At(Paris) /\ fatal_error("InvalidBlockHash")

execute_block_body ==
    /\ Goto("begin", Steps.begin)
    /\ epoch' = 0
    /\ host' = warm_reset(host, 0)
    /\ UNCHANGED <<cursor, merged, code, queue, receipts, remaining, logs_start, result, touched, did, produced>>

Calls(here) == CASE here = "beacon"  -> [at |-> Cancun, target |-> "beacon_roots"]
                 [] here = "history" -> [at |-> Prague, target |-> "history"]

(* run_system_call_frame, then the merge whether it succeeded or not. *)
RunAndMerge(e, by, ok) == k_tx_merge(Frame(host, e, by, ok))

system_call(here) ==
    LET call == Calls(here)
    IN  /\ Goto(here, Steps[here])
        /\ IF ~At(call.at) \/ call.target \notin code
             THEN UNCHANGED <<epoch, host, merged, touched, did>>
             ELSE \E e \in SystemEffects, ok \in BOOLEAN :
                      /\ UNCHANGED epoch
                      /\ RunAndMerge(e, call.target, ok)
                      /\ Remember(e, call.target, ok, touched)
        /\ IF here = "history"
             THEN /\ logs_start' = LogRange(host').start + LogRange(host').count
                  /\ remaining' = block.deposits
             ELSE UNCHANGED <<logs_start, remaining>>
        /\ UNCHANGED <<cursor, code, queue, receipts, result, produced>>

(* One transaction: reset, top-level frame, merge, receipt, deposits.  Its
   receipt is written even when its frame fails. *)
process_transaction ==
    /\ pc = "transactions" /\ outcome = "running"
    /\ block.keys = block.txs
    /\ cursor < block.txs
    /\ \E e \in Effects, ok \in BOOLEAN :
         LET ran == Frame(k_tx_reset(host, cursor + 1), e, "transaction", ok)
             rest == IF At(Prague)
                       THEN authenticate_deposit_logs(ran.logs, LogRange(ran), remaining)
                       ELSE remaining
         IN  IF rest = Fatal THEN fatal_error("InvalidExecutionRequests")
             ELSE /\ epoch' = cursor + 1
                  /\ k_tx_merge(ran)
                  /\ Remember(e, "transaction", ok, {})
                  /\ receipts' = Append(receipts, LogRange(ran))
                  /\ remaining' = rest
                  /\ cursor' = cursor + 1
                  /\ queue' = IF ok THEN [s \in DOMAIN queue |-> queue[s] \o e.push[s]] ELSE queue
                  /\ produced' = IF ok THEN [s \in DOMAIN produced |-> produced[s] \o e.push[s]] ELSE produced
                  /\ UNCHANGED <<block, pc, code, logs_start, result, outcome, bloom>>

(* A transaction that is not valid, or does not fit the block, ends it. *)
TransactionRefused ==
    /\ pc = "transactions" /\ outcome = "running"
    /\ \/ block.keys # block.txs /\ fatal_error("WitnessDeficient")
       \/ block.keys = block.txs /\ cursor < block.txs /\ fatal_error("ExecutionInvalid")

(* The retained range: from the first transaction's log to the last. *)
LoopLogs(h) == LET retained == LogRange(h).start + LogRange(h).count
               IN  [start |-> logs_start,
                    count |-> IF logs_start <= retained THEN retained - logs_start ELSE 0]

MutPostEpoch(txs) == txs

PostEpoch(txs) == txs + 1

(* After the loop: deposits all used; then withdrawals or the reward, in the
   block's last epoch, merged. *)
apply_block_end_state ==
    /\ pc = "transactions" /\ outcome = "running"
    /\ block.keys = block.txs
    /\ cursor = block.txs
    /\ IF At(Prague) /\ remaining # <<>> THEN fatal_error("InvalidExecutionRequests")
       ELSE /\ pc' = "requests"
            /\ result' = LoopLogs(host)
            /\ epoch' = PostEpoch(block.txs)
            /\ LET paid == [warm_reset(host, epoch') EXCEPT
                              !.pending = IF At(Shanghai) THEN Append(@, "withdrawals") ELSE @]
               IN  k_tx_merge(paid)
            /\ did' = IF At(Shanghai) THEN Append(did, [by |-> "withdrawals", epoch |-> block.txs + 1]) ELSE did
            /\ touched' = {}
            /\ cursor' = 1
            /\ UNCHANGED <<block, code, queue, receipts, remaining, logs_start, outcome, bloom, produced>>

RequestCount == IF ~At(Prague) THEN 0 ELSE IF At(Amsterdam) THEN 4 ELSE 2

(* A checked call gives the contract's output: all it holds. *)
system_call_checked(s, ok) == IF s \notin code \/ ~ok THEN Fatal ELSE queue[s]

(* One dequeue: absence, failure or a different stream is fatal. *)
validate_request_stream ==
    /\ pc = "requests" /\ outcome = "running"
    /\ cursor <= RequestCount
    /\ LET s == Streams[cursor]
       IN  \E e \in SystemEffects, ok \in BOOLEAN :
             IF system_call_checked(s, ok) = Fatal THEN fatal_error("ExecutionInvalid")
             ELSE IF system_call_checked(s, ok) # block.streams[s] THEN fatal_error("InvalidExecutionRequests")
             ELSE /\ epoch' = epoch
                  /\ RunAndMerge(e, s, TRUE)
                  /\ Remember(e, s, TRUE, touched)
                  /\ queue' = [queue EXCEPT ![s] = <<>>]
                  /\ cursor' = cursor + 1
                  /\ UNCHANGED <<block, pc, code, receipts, remaining, logs_start, result, outcome, bloom, produced>>

(* Before Amsterdam the builder lists have to be empty. *)
RequestsDone ==
    /\ pc = "requests" /\ outcome = "running"
    /\ cursor > RequestCount
    /\ IF At(Prague) /\ ~At(Amsterdam) /\ \E i \in 3 .. 4 : block.streams[Streams[i]] # <<>>
         THEN fatal_error("InvalidExecutionRequests")
         ELSE /\ pc' = "check"
              /\ UNCHANGED <<block, cursor, epoch, host, merged, code, queue, receipts, remaining, logs_start,
                             result, outcome, bloom, touched, did, produced>>

(* validate_executed_block: gas, blob gas, roots and access list may each
   disagree with the header; the logs bloom is compared bit by bit. *)
validate_executed_block ==
    /\ pc = "check" /\ outcome = "running"
    /\ \/ \E reason \in {"InvalidGasUsed", "InvalidStateRoot", "InvalidReceiptsRoot"} : fatal_error(reason)
       \/ At(Cancun) /\ fatal_error("InvalidBlobGasUsed")
       \/ \E claimed \in HeaderBlooms :
            IF ~block_logs_bloom_matches(host.logs, result, claimed)
              THEN fatal_error("InvalidLogsBloom")
              ELSE \/ At(Amsterdam) /\ fatal_error("InvalidBlockAccessList")
                   \/ /\ outcome' = "valid" /\ bloom' = claimed
                      /\ pc' = "ended"
                      /\ UNCHANGED <<block, cursor, epoch, host, merged, code, queue, receipts, remaining,
                                     logs_start, result, touched, did, produced>>

Done == pc = "ended" /\ UNCHANGED body

BodyNext == \/ PayloadAccepted \/ PayloadRefused
            \/ execute_block_body
            \/ \E here \in {"beacon", "history"} : system_call(here)
            \/ process_transaction \/ TransactionRefused
            \/ apply_block_end_state
            \/ validate_request_stream \/ RequestsDone
            \/ validate_executed_block
            \/ Done

BodySpec == BodyInit /\ [][BodyNext]_body

----------------------------------------------------------------------------
(* Where the logs of the receipts are, and the deposit events among them. *)
ReceiptLogs == UNION {r.start + 1 .. r.start + r.count : r \in Range(receipts)}
DepositEvents == {i \in ReceiptLogs : deposit_log_matches(host.logs[i])}

(* The receipts' ranges follow one another; the n-th deposit event in them *)
(* is the n-th deposit of the block, and there are no others.              *)
DepositsWereProduced ==
    /\ \A i \in 2 .. Len(receipts) : receipts[i].start = receipts[i - 1].start + receipts[i - 1].count
    /\ Cardinality(DepositEvents) = Len(block.deposits)
    /\ \A i \in DepositEvents :
          host.logs[i].request = block.deposits[Cardinality({j \in DepositEvents : j <= i})]

(* An accepted block's request lists are what its transactions produced: the
   deposits are the deposit events of the receipts in order, every stream is
   what the transactions queued, and the block hash commits to exactly these
   lists (authenticate_deposit_logs, validate_execution_requests,
   execution_requests_hash). *)
AcceptedRequestsWereProduced ==
    outcome = "valid" /\ At(Prague) =>
        LET streams == IF At(Amsterdam) THEN 1 .. 4 ELSE 1 .. 2
        IN  /\ DepositsWereProduced
            /\ \A i \in streams : block.streams[Streams[i]] = produced[Streams[i]]
            /\ block.requests_hash = Digests(RequestLists(block), {1} \cup {i + 1 : i \in streams})

(* The bloom of an accepted header is that of the receipts' logs and nothing
   else: no log of a system call, none of a failed frame, none lost at the
   edges of the retained range (execute_block_transactions, bloom_add_logs). *)
BloomIsOfTheReceipts ==
    outcome = "valid" =>
        LET entries == UNION {{host.logs[i].address} \cup Range(host.logs[i].topics) : i \in ReceiptLogs}
            bits == UNION {{BitIndex(Hash[x], k) : k \in 1 .. 3} : x \in entries}
        IN  bloom = {<<255 - (b \div 8), b % 8>> : b \in bits}

(* Every frame that succeeded reaches the block layer, once, in order and in
   its own epoch: 0 before the transactions, i for the i-th, one past the
   last afterwards (k_tx_merge after each; k_tx_reset discards the rest). *)
EverySuccessIsMerged == pc \in {"check", "ended"} => merged = did

(* Warmth lasts for one phase: an address is warm exactly when a surviving
   frame of this phase touched it, although stamps are never erased
   (warm_reset with the epochs of execute_block_body). *)
WarmthIsOfThisPhase == {a \in Addresses : host.warm[a] >= host.warm_epoch} = touched

(* What one phase of a block does stays in it: the bloom is of the receipts,
   every frame that succeeded is merged in its epoch, warmth ends with the
   phase (execute_block_body). *)
PhasesStayApart == BloomIsOfTheReceipts /\ EverySuccessIsMerged /\ WarmthIsOfThisPhase

(* Every block gets a verdict: the loops over transactions and requests end,
   and no check leaves the run without one (verify_stateless_payload). *)
BlockEnds == <>(outcome # "running")
=============================================================================
