---------------------------- MODULE BlockProofs -----------------------------
(***************************************************************************)
(* What holds of every block, whatever its transactions and system calls   *)
(* do: an accepted block's requests are those its transactions produced,   *)
(* its bloom is that of its receipts, every frame that succeeded reaches   *)
(* the block layer in its own epoch, and warmth ends with the phase.  Of   *)
(* the headers below it: a witness that is accepted is the end of the      *)
(* chain, and BLOCKHASH answers from the chain.                            *)
(*                                                                         *)
(* The loops over logs are recursive functions; that they exist and what   *)
(* they return is shown one entry after another (Climb).                   *)
(***************************************************************************)
EXTENDS BlockExecution, HeaderChain, LedgerLemmas, SequenceTheorems

-----------------------------------------------------------------------------
(* Blooms. *)

(* The equation of a loop that adds add[1] to add[n] to b, and its result. *)
Collects(f, b, add, n) == f = [i \in 0 .. n |-> IF i = 0 THEN b ELSE f[i - 1] \cup add[i]]
Joined(add, n) == UNION {add[i] : i \in 1 .. n}

LEMMA JoinedOneMore ==
    ASSUME NEW add, NEW n \in Nat
    PROVE  Joined(add, n + 1) = Joined(add, n) \cup add[n + 1]
<1>1. 1 .. n + 1 = (1 .. n) \cup {n + 1}
  OBVIOUS
<1>2. {add[i] : i \in 1 .. n + 1} = {add[i] : i \in 1 .. n} \cup {add[n + 1]}
  BY <1>1
<1>3. \A A, x : UNION (A \cup {x}) = (UNION A) \cup x
  OBVIOUS
<1> QED BY <1>2, <1>3 DEF Joined

LEMMA CollectsExist ==
    ASSUME NEW b, NEW add, NEW n \in Nat
    PROVE  \E f : Collects(f, b, add, n)
<1> DEFINE f == [i \in 0 .. n |-> b \cup Joined(add, i)]
<1>1. ASSUME NEW i \in 0 .. n PROVE f[i] = IF i = 0 THEN b ELSE f[i - 1] \cup add[i]
  <2>1. CASE i = 0
    <3>1. Joined(add, 0) = {}
      BY DEF Joined
    <3> QED BY <2>1, <3>1
  <2>2. CASE i # 0
    <3>1. i - 1 \in 0 .. n /\ i - 1 \in Nat /\ (i - 1) + 1 = i
      BY <2>2
    <3>2. Joined(add, i) = Joined(add, i - 1) \cup add[i]
      BY <3>1, JoinedOneMore
    <3>3. f[i] = b \cup Joined(add, i) /\ f[i - 1] = b \cup Joined(add, i - 1)
      BY <3>1
    <3> HIDE DEF f
    <3> QED BY <2>2, <3>2, <3>3
  <2> QED BY <2>1, <2>2
<1>2. f = [i \in 0 .. n |-> f[i]]
  OBVIOUS
<1> HIDE DEF f
<1>3. Collects(f, b, add, n)
  BY <1>1, <1>2 DEF Collects
<1> QED BY <1>3

LEMMA Collected ==
    ASSUME NEW b, NEW add, NEW n \in Nat, NEW f, Collects(f, b, add, n)
    PROVE  f[n] = b \cup Joined(add, n)
<1> DEFINE S == {i \in 0 .. n : f[i] = b \cup Joined(add, i)}
<1>1. 0 \in S
  BY DEF Collects, Joined
<1>2. ASSUME NEW i \in 0 .. n - 1, i \in S PROVE i + 1 \in S
  <2>1. i + 1 \in 0 .. n /\ i + 1 # 0 /\ (i + 1) - 1 = i
    OBVIOUS
  <2>2. f[i + 1] = f[i] \cup add[i + 1]
    BY <2>1 DEF Collects
  <2>3. Joined(add, i + 1) = Joined(add, i) \cup add[i + 1]
    <3>1. i \in Nat
      OBVIOUS
    <3> QED BY <3>1, JoinedOneMore
  <2> QED BY <1>2, <2>1, <2>2, <2>3
<1>3. n \in S
  <2> HIDE DEF S
  <2> QED BY <1>1, <1>2, Climb
<1> QED BY <1>3

(* The bits of a hash, and of a log with its topics.                       *)
HashBits(h) == {<<BitIndex(h, k) \div 8, BitIndex(h, k) % 8>> : k \in 1 .. 3}
LogBits(log) == UNION {HashBits(Hash[x]) : x \in {log.address} \cup Range(log.topics)}

(* The three steps of an entry are a union (bloom_add_entry_hash).         *)
LEMMA EntryAdds ==
    ASSUME NEW b, NEW h
    PROVE  bloom_add_entry_hash(b, h) = b \cup HashBits(h)
<1>1. 1 .. 3 = {1, 2, 3}
  OBVIOUS
<1>2. HashBits(h) = {<<BitIndex(h, k) \div 8, BitIndex(h, k) % 8>> : k \in {1, 2, 3}}
  BY <1>1 DEF HashBits
<1> QED BY <1>2 DEF bloom_add_entry_hash, bloom_set_bit

(* So is the loop over the topics (bloom_add_log_at).                      *)
LEMMA LogAdds ==
    ASSUME NEW b, NEW log, Len(log.topics) \in Nat, DOMAIN log.topics = 1 .. Len(log.topics)
    PROVE  bloom_add_log_at(b, log) = b \cup LogBits(log)
<1> DEFINE n == Len(log.topics)
           add == [t \in 1 .. n |-> HashBits(Hash[log.topics[t]])]
           first == b \cup HashBits(Hash[log.address])
           Loops(f) == f = [topic \in 0 .. n |->
                               IF topic = 0 THEN bloom_add_entry_hash(b, Hash[log.address])
                               ELSE bloom_add_entry_hash(f[topic - 1], Hash[log.topics[topic]])]
<1>1. ASSUME NEW f PROVE Loops(f) <=> Collects(f, first, add, n)
  <2>1. ASSUME NEW t \in 0 .. n
        PROVE  (IF t = 0 THEN bloom_add_entry_hash(b, Hash[log.address])
                ELSE bloom_add_entry_hash(f[t - 1], Hash[log.topics[t]]))
               = (IF t = 0 THEN first ELSE f[t - 1] \cup add[t])
    <3>1. bloom_add_entry_hash(b, Hash[log.address]) = first
      BY EntryAdds
    <3>2. t # 0 => add[t] = HashBits(Hash[log.topics[t]])
      OBVIOUS
    <3>3. bloom_add_entry_hash(f[t - 1], Hash[log.topics[t]]) = f[t - 1] \cup HashBits(Hash[log.topics[t]])
      BY EntryAdds
    <3> HIDE DEF first, add
    <3> QED BY <3>1, <3>2, <3>3
  <2> HIDE DEF first, add
  <2> QED BY <2>1 DEF Collects
<1> DEFINE out == CHOOSE f : Loops(f)
<1>2. bloom_add_log_at(b, log) = out[n]
  BY DEF bloom_add_log_at
<1> HIDE DEF n, add, first, Loops
<1>3. Collects(out, first, add, n)
  <2>1. \E f : Loops(f)
    BY <1>1, CollectsExist DEF n
  <2> QED BY <1>1, <2>1
<1>4. out[n] = first \cup Joined(add, n)
  <2>1. n \in Nat
    BY DEF n
  <2>2. PICK f : f = out
    OBVIOUS
  <2> HIDE DEF out
  <2>3. Collects(f, first, add, n)
    BY <1>3, <2>2
  <2>4. f[n] = first \cup Joined(add, n)
    BY <2>1, <2>3, Collected
  <2> QED BY <2>2, <2>4
<1>5. Joined(add, n) = UNION {HashBits(Hash[x]) : x \in Range(log.topics)}
  BY DEF Joined, Range, n, add
<1> QED BY <1>2, <1>4, <1>5 DEF first, LogBits

(* And the loop over the logs of a range (bloom_add_logs).                 *)
LEMMA LogsAdd ==
    ASSUME NEW b, NEW logs, NEW range, NEW n \in Nat, n = range.count,
           \A i \in 1 .. n : LET log == LogAt(logs, range, i)
                             IN  Len(log.topics) \in Nat /\ DOMAIN log.topics = 1 .. Len(log.topics)
    PROVE  bloom_add_logs(b, logs, range) = b \cup UNION {LogBits(LogAt(logs, range, i)) : i \in 1 .. n}
<1> DEFINE add == [i \in 1 .. n |-> LogBits(LogAt(logs, range, i))]
           Loops(f) == f = [offset \in 0 .. n |->
                               IF offset = 0 THEN b
                               ELSE bloom_add_log_at(f[offset - 1], LogAt(logs, range, offset))]
<1>1. ASSUME NEW f PROVE Loops(f) <=> Collects(f, b, add, n)
  <2>1. ASSUME NEW i \in 0 .. n
        PROVE  (IF i = 0 THEN b ELSE bloom_add_log_at(f[i - 1], LogAt(logs, range, i)))
               = (IF i = 0 THEN b ELSE f[i - 1] \cup add[i])
    <3>1. CASE i = 0
      BY <3>1
    <3>2. CASE i # 0
      <4> DEFINE log == LogAt(logs, range, i)
      <4>1. i \in 1 .. n /\ add[i] = LogBits(log)
        BY <3>2
      <4>2. Len(log.topics) \in Nat /\ DOMAIN log.topics = 1 .. Len(log.topics)
        BY <4>1
      <4> HIDE DEF log
      <4>3. bloom_add_log_at(f[i - 1], log) = f[i - 1] \cup LogBits(log)
        BY <4>2, LogAdds
      <4> HIDE DEF add
      <4> QED BY <3>2, <4>1, <4>3 DEF log
    <3> QED BY <3>1, <3>2
  <2> HIDE DEF add
  <2> QED BY <2>1 DEF Collects
<1> DEFINE out == CHOOSE f : Loops(f)
<1>2. bloom_add_logs(b, logs, range) = out[n]
  BY DEF bloom_add_logs
<1> HIDE DEF add, Loops
<1>3. Collects(out, b, add, n)
  <2>1. \E f : Loops(f)
    BY <1>1, CollectsExist
  <2> QED BY <1>1, <2>1
<1>4. out[n] = b \cup Joined(add, n)
  <2>1. PICK f : f = out
    OBVIOUS
  <2> HIDE DEF out
  <2>2. Collects(f, b, add, n)
    BY <1>3, <2>1
  <2>3. n \in Nat
    OBVIOUS
  <2>4. \A m \in Nat : Collects(f, b, add, m) => f[m] = b \cup Joined(add, m)
    BY Collected
  <2>5. f[n] = b \cup Joined(add, n)
    BY <2>2, <2>3, <2>4
  <2> QED BY <2>1, <2>5
<1> QED BY <1>2, <1>4 DEF Joined, add

-----------------------------------------------------------------------------
(* The invariant. *)

AllLogs == UNION {Range(e.logs) : e \in Effects \cup SystemEffects}

HostShape(h) ==
    /\ DOMAIN h = {"logs", "log_start", "transient", "warm", "warm_epoch", "pending"}
    /\ h.logs \in Seq(AllLogs) /\ h.log_start \in 0 .. Len(h.logs)
    /\ h.warm \in [Addresses -> Nat] /\ h.warm_epoch \in Nat

(* The warm addresses are t, and no stamp is of a later epoch.             *)
Warms(h, t) == /\ \A a \in Addresses : h.warm[a] <= h.warm_epoch
               /\ {a \in Addresses : h.warm[a] >= h.warm_epoch} = t

Before == {"payload", "begin", "beacon", "history"}
Working == Before \cup {"transactions", "requests", "check"}
(* The transaction loop is over and nothing has failed.                    *)
Executed == pc \in {"requests", "check"} \/ outcome = "valid"

HostInv == HostShape(host) /\ host.pending = <<>> /\ Warms(host, touched)

EpochInv == /\ block \in Blocks
            /\ pc \in Working \cup {"ended"}
            /\ pc \in Working => outcome = "running"
            /\ cursor \in Nat /\ epoch \in Nat
            /\ host.warm_epoch = epoch + 1
            /\ pc \in Before => cursor = 0 /\ epoch = 0
            /\ pc = "transactions" => epoch = cursor /\ cursor <= block.txs

(* Whose frames there are. *)
Callers == {"beacon_roots", "history", "transaction", "withdrawals"} \cup Range(Streams)

MergeInv == did \in Seq([by : Callers, epoch : Nat]) /\ merged = did

(* The receipts' ranges tile the logs from logs_start to `last'.           *)
Tiled(last) == /\ logs_start <= last /\ last <= Len(host.logs)
               /\ ReceiptLogs = logs_start + 1 .. last
               /\ receipts # <<>> => receipts[Len(receipts)].start + receipts[Len(receipts)].count = last
               /\ \A i \in 2 .. Len(receipts) :
                     receipts[i].start = receipts[i - 1].start + receipts[i - 1].count

ReceiptInv == /\ receipts \in Seq([start : Nat, count : Nat])
              /\ logs_start \in Nat
              /\ pc \in Before => receipts = <<>>
              /\ pc = "transactions" => Tiled(Len(host.logs))
              /\ Executed => /\ result \in [start : Nat, count : Nat] /\ result.start = logs_start
                             /\ Tiled(result.start + result.count)

(* The deposit events after lo up to hi.                                   *)
Matching(logs, lo, hi) == {i \in lo + 1 .. hi : deposit_log_matches(logs[i])}
(* They are the first deposits, in order, and `rest' is what follows.      *)
Answers(logs, lo, hi, deposits, rest) ==
    LET seen == Cardinality(Matching(logs, lo, hi))
    IN  /\ seen <= Len(deposits)
        /\ rest = SubSeq(deposits, seen + 1, Len(deposits))
        /\ \A i \in Matching(logs, lo, hi) :
              logs[i].request = deposits[Cardinality(Matching(logs, lo, i))]

DepositInv ==
    At(Prague) =>
        /\ pc = "transactions" => Answers(host.logs, logs_start, Len(host.logs), block.deposits, remaining)
        /\ Executed => Answers(host.logs, logs_start, result.start + result.count, block.deposits, <<>>)

StreamInv ==
    /\ DOMAIN queue = Range(Streams)
    /\ pc \in Before \cup {"transactions"} => queue = produced
    /\ pc = "requests" =>
          /\ cursor >= 1
          /\ \A i \in 1 .. 4 : IF i < cursor THEN block.streams[Streams[i]] = produced[Streams[i]]
                               ELSE queue[Streams[i]] = produced[Streams[i]]
    /\ pc = "check" \/ outcome = "valid" =>
          /\ \A i \in 1 .. RequestCount : block.streams[Streams[i]] = produced[Streams[i]]
          /\ At(Prague) /\ ~At(Amsterdam) => \A i \in 3 .. 4 : block.streams[Streams[i]] = <<>>

VerdictInv ==
    /\ pc \in Working \ {"payload"} \/ outcome = "valid" =>
          ~At(Paris) \/ PayloadHash(block) = block.requests_hash
    /\ outcome = "valid" => /\ bloom \in HeaderBlooms
                            /\ block_logs_bloom_matches(host.logs, result, bloom)

BlockInv == /\ HostInv /\ EpochInv /\ MergeInv /\ ReceiptInv
            /\ DepositInv /\ StreamInv /\ VerdictInv

-----------------------------------------------------------------------------
(* The host's stores. *)

(* What an effect holds.                                                   *)
LEMMA EffectFacts ==
    ASSUME NEW e \in Effects \cup SystemEffects
    PROVE  e.touch \subseteq Addresses /\ e.logs \in Seq(AllLogs)
<1>1. e.touch \subseteq Addresses /\ e.logs \in Seq(Range(e.logs))
  BY BlockAssumption
<1>2. Range(e.logs) \subseteq AllLogs
  BY DEF AllLogs
<1> QED BY <1>1, <1>2

(* A frame appends to the logs when it commits, and touches addresses.     *)
FrameLeaves(h, e, by, ok, t, r) ==
    /\ HostShape(r)
    /\ r.pending = IF ok THEN <<by>> ELSE <<>>
    /\ r.log_start = h.log_start /\ r.warm_epoch = h.warm_epoch
    /\ Len(h.logs) <= Len(r.logs)
    /\ \A i \in 1 .. Len(h.logs) : r.logs[i] = h.logs[i]
    /\ Warms(r, IF ok THEN t \cup e.touch ELSE t)

LEMMA FrameFacts ==
    ASSUME NEW h, HostShape(h), h.pending = <<>>, NEW e \in Effects \cup SystemEffects,
           NEW by, NEW ok \in BOOLEAN, NEW t \in SUBSET Addresses, Warms(h, t)
    PROVE  FrameLeaves(h, e, by, ok, t, Frame(h, e, by, ok))
<1>0. PICK r : r = Frame(h, e, by, ok)
  OBVIOUS
<1> SUFFICES FrameLeaves(h, e, by, ok, t, r)
  BY <1>0
<1> USE <1>0
<1>1. CASE ~ok
  BY <1>1 DEF Frame, HostShape, FrameLeaves
<1>2. CASE ok
  <2>1. /\ DOMAIN r = DOMAIN h
        /\ r.logs = h.logs \o e.logs
        /\ r.pending = Append(h.pending, by)
        /\ r.log_start = h.log_start /\ r.warm_epoch = h.warm_epoch
        /\ r.warm = [a \in Addresses |-> IF a \in e.touch /\ h.warm[a] < h.warm_epoch
                                           THEN h.warm_epoch ELSE h.warm[a]]
    BY <1>2 DEF Frame, HostShape
  <2>2. h.logs \in Seq(AllLogs) /\ e.logs \in Seq(AllLogs) /\ e.touch \subseteq Addresses
    BY EffectFacts DEF HostShape
  <2>3. /\ r.logs \in Seq(AllLogs) /\ Len(h.logs) <= Len(r.logs)
        /\ \A i \in 1 .. Len(h.logs) : r.logs[i] = h.logs[i]
    <3>1. PICK a \in Seq(AllLogs), c \in Seq(AllLogs) : a = h.logs /\ c = e.logs
      BY <2>2
    <3>2. Len(a) \in Nat /\ Len(c) \in Nat
      OBVIOUS
    <3>3. a \o c \in Seq(AllLogs)
      OBVIOUS
    <3>4. Len(a \o c) = Len(a) + Len(c)
      OBVIOUS
    <3>5. ASSUME NEW i \in 1 .. Len(a) PROVE (a \o c)[i] = a[i]
      BY <3>2
    <3>6. Len(a) <= Len(a \o c)
      BY <3>2, <3>4
    <3>7. r.logs = a \o c
      BY <2>1, <3>1
    <3> QED BY <3>1, <3>3, <3>5, <3>6, <3>7
  <2>4. r.pending = <<by>>
    BY <2>1
  <2>5. r.warm \in [Addresses -> Nat]
    BY <2>1 DEF HostShape
  <2>6. HostShape(r)
    BY <2>1, <2>3, <2>5 DEF HostShape
  <2>7. Warms(r, t \cup e.touch)
    <3>1. h.warm_epoch \in Nat /\ \A a \in Addresses : h.warm[a] \in Nat
      BY DEF HostShape
    <3>2. \A a \in Addresses : r.warm[a] <= r.warm_epoch
      BY <2>1, <3>1 DEF Warms
    <3>3. \A a \in Addresses : r.warm[a] >= r.warm_epoch <=> a \in t \cup e.touch
      BY <2>1, <3>1 DEF Warms
    <3> QED BY <2>2, <3>2, <3>3 DEF Warms
  <2> QED BY <1>2, <2>1, <2>3, <2>4, <2>6, <2>7 DEF FrameLeaves
<1> QED BY <1>1, <1>2

(* A later epoch leaves nothing warm (warm_reset, k_tx_reset).             *)
LEMMA ResetFacts ==
    ASSUME NEW h, HostShape(h), NEW t, Warms(h, t), NEW e \in Nat, h.warm_epoch <= e
    PROVE  /\ HostShape(warm_reset(h, e)) /\ Warms(warm_reset(h, e), {})
           /\ warm_reset(h, e).warm_epoch = e + 1
           /\ warm_reset(h, e).logs = h.logs /\ warm_reset(h, e).log_start = h.log_start
           /\ warm_reset(h, e).pending = h.pending
           /\ HostShape(k_tx_reset(h, e)) /\ Warms(k_tx_reset(h, e), {})
           /\ k_tx_reset(h, e).warm_epoch = e + 1
           /\ k_tx_reset(h, e).logs = h.logs /\ k_tx_reset(h, e).log_start = Len(h.logs)
           /\ k_tx_reset(h, e).pending = <<>>
<1> DEFINE w == warm_reset(h, e)
           r == k_tx_reset(h, e)
<1>1. /\ DOMAIN w = DOMAIN h /\ w.warm = h.warm /\ w.warm_epoch = e + 1
      /\ w.logs = h.logs /\ w.log_start = h.log_start /\ w.pending = h.pending
  BY DEF warm_reset, HostShape
<1>2. /\ DOMAIN r = DOMAIN h /\ r.warm = h.warm /\ r.warm_epoch = e + 1
      /\ r.logs = h.logs /\ r.log_start = Len(h.logs) /\ r.pending = <<>>
  BY <1>1 DEF k_tx_reset, HostShape
<1> HIDE DEF w, r
<1>3. \A a \in Addresses : h.warm[a] \in Nat /\ h.warm[a] < e + 1
  BY DEF HostShape, Warms
<1>4. Len(h.logs) \in Nat
  BY DEF HostShape
<1>5. HostShape(w) /\ HostShape(r)
  BY <1>1, <1>2, <1>4 DEF HostShape
<1>6. Warms(w, {}) /\ Warms(r, {})
  BY <1>1, <1>2, <1>3 DEF Warms
<1> QED BY <1>1, <1>2, <1>5, <1>6 DEF w, r

(* The pending writes reach the block layer in the order of the history.   *)
LEMMA MergeFacts ==
    ASSUME NEW h, HostShape(h), NEW by \in Callers, NEW ok \in BOOLEAN,
           h.pending = IF ok THEN <<by>> ELSE <<>>, MergeInv, epoch' \in Nat,
           k_tx_merge(h), did' = IF ok THEN Append(did, [by |-> by, epoch |-> epoch']) ELSE did
    PROVE  /\ MergeInv'
           /\ HostShape(host') /\ host'.pending = <<>>
           /\ host'.logs = h.logs /\ host'.log_start = h.log_start
           /\ host'.warm = h.warm /\ host'.warm_epoch = h.warm_epoch
<1>1. /\ DOMAIN host' = DOMAIN h /\ host'.pending = <<>>
      /\ host'.logs = h.logs /\ host'.log_start = h.log_start
      /\ host'.warm = h.warm /\ host'.warm_epoch = h.warm_epoch
  BY DEF k_tx_merge, HostShape
<1>2. HostShape(host')
  BY <1>1 DEF HostShape
<1>3. merged' = merged \o [i \in DOMAIN h.pending |-> [by |-> h.pending[i], epoch |-> epoch']]
  BY DEF k_tx_merge
<1>4. CASE ok
  <2>1. h.pending = <<by>>
    BY <1>4
  <2>2. [i \in DOMAIN h.pending |-> [by |-> h.pending[i], epoch |-> epoch']] = <<[by |-> by, epoch |-> epoch']>>
    BY <2>1
  <2>3. merged' = did \o <<[by |-> by, epoch |-> epoch']>>
    BY <1>3, <2>2 DEF MergeInv
  <2>4. [by |-> by, epoch |-> epoch'] \in [by : Callers, epoch : Nat]
    OBVIOUS
  <2>5. PICK x \in [by : Callers, epoch : Nat] : x = [by |-> by, epoch |-> epoch']
    BY <2>4
  <2>6. merged' = did \o <<x>> /\ did' = Append(did, x)
    BY <1>4, <2>3, <2>5
  <2>7. did \in Seq([by : Callers, epoch : Nat])
    BY DEF MergeInv
  <2>8. merged' = did' /\ did' \in Seq([by : Callers, epoch : Nat])
    <3> DEFINE T == [by : Callers, epoch : Nat]
    <3>1. did \in Seq(T) /\ x \in T
      BY <2>7
    <3> HIDE DEF T
    <3>2. did \o <<x>> = Append(did, x) /\ Append(did, x) \in Seq(T)
      BY <3>1
    <3> QED BY <2>6, <3>2 DEF T
  <2> QED BY <1>1, <1>2, <2>8 DEF MergeInv
<1>5. CASE ~ok
  <2>1. h.pending = <<>> /\ did' = did
    BY <1>5
  <2>2. [i \in DOMAIN h.pending |-> [by |-> h.pending[i], epoch |-> epoch']] = <<>>
    BY <2>1
  <2>3. merged' = merged \o <<>>
    BY <1>3, <2>2
  <2>4. merged' = merged
    BY <2>3 DEF MergeInv
  <2> QED BY <1>1, <1>2, <2>1, <2>4 DEF MergeInv
<1> QED BY <1>4, <1>5

-----------------------------------------------------------------------------
(* Deposits. *)

(* Counting the deposit events, one log after another.                     *)
LEMMA MatchingFacts ==
    ASSUME NEW logs, NEW lo \in Nat, NEW hi \in Nat, lo <= hi
    PROVE  /\ IsFiniteSet(Matching(logs, lo, hi)) /\ Cardinality(Matching(logs, lo, hi)) \in Nat
           /\ Matching(logs, lo, lo) = {} /\ Cardinality(Matching(logs, lo, lo)) = 0
           /\ Matching(logs, lo, hi + 1) = IF deposit_log_matches(logs[hi + 1])
                                             THEN Matching(logs, lo, hi) \cup {hi + 1}
                                             ELSE Matching(logs, lo, hi)
           /\ Cardinality(Matching(logs, lo, hi + 1)) = IF deposit_log_matches(logs[hi + 1])
                                                          THEN Cardinality(Matching(logs, lo, hi)) + 1
                                                          ELSE Cardinality(Matching(logs, lo, hi))
<1>1. IsFiniteSet(lo + 1 .. hi)
  BY FS_Interval
<1>2. Matching(logs, lo, hi) \in SUBSET (lo + 1 .. hi)
  BY DEF Matching
<1>3. IsFiniteSet(Matching(logs, lo, hi))
  BY <1>1, <1>2, FS_Subset
<1>4. Cardinality(Matching(logs, lo, hi)) \in Nat
  BY <1>3, FS_CardinalityType
<1>5. Matching(logs, lo, lo) = {}
  BY DEF Matching
<1>6. Cardinality(Matching(logs, lo, lo)) = 0
  BY <1>5, FS_EmptySet
<1>7. Matching(logs, lo, hi + 1) = IF deposit_log_matches(logs[hi + 1])
                                     THEN Matching(logs, lo, hi) \cup {hi + 1} ELSE Matching(logs, lo, hi)
  <2>1. lo + 1 .. hi + 1 = (lo + 1 .. hi) \cup {hi + 1}
    OBVIOUS
  <2> QED BY <2>1 DEF Matching
<1>8. hi + 1 \notin Matching(logs, lo, hi)
  BY DEF Matching
<1>9. Cardinality(Matching(logs, lo, hi) \cup {hi + 1}) = Cardinality(Matching(logs, lo, hi)) + 1
  BY <1>3, <1>8, FS_AddElement
<1> QED BY <1>3, <1>4, <1>5, <1>6, <1>7, <1>9

(* Nothing seen yet: all the deposits remain.                              *)
LEMMA AnswersNothing ==
    ASSUME NEW logs, NEW lo \in Nat, NEW deposits, deposits \in Seq(Range(deposits))
    PROVE  Answers(logs, lo, lo, deposits, deposits)
<1>1. Matching(logs, lo, lo) = {} /\ Cardinality(Matching(logs, lo, lo)) = 0
  <2>1. lo <= lo
    OBVIOUS
  <2> QED BY <2>1, MatchingFacts
<1>2. SubSeq(deposits, 1, Len(deposits)) = deposits
  OBVIOUS
<1> QED BY <1>1, <1>2 DEF Answers

(* One more log (authenticate_deposit_request).                            *)
LEMMA AnswersOneMore ==
    ASSUME NEW logs, NEW lo \in Nat, NEW hi \in Nat, lo <= hi,
           NEW deposits, deposits \in Seq(Range(deposits)), NEW rest,
           Answers(logs, lo, hi, deposits, rest), authenticated(rest, logs[hi + 1]) # Fatal
    PROVE  Answers(logs, lo, hi + 1, deposits, authenticated(rest, logs[hi + 1]))
<1> DEFINE log == logs[hi + 1]
           M == Matching(logs, lo, hi)
           seen == Cardinality(M)
<1>1. seen \in Nat /\ seen <= Len(deposits) /\ rest = SubSeq(deposits, seen + 1, Len(deposits))
  BY MatchingFacts DEF Answers
<1>2. \A i \in M : logs[i].request = deposits[Cardinality(Matching(logs, lo, i))]
  BY DEF Answers
<1>3. CASE ~deposit_log_matches(log)
  <2>1. authenticated(rest, log) = rest
    BY <1>3 DEF authenticated
  <2>2. Matching(logs, lo, hi + 1) = M
    BY <1>3, MatchingFacts
  <2> QED BY <2>1, <2>2 DEF Answers
<1>4. CASE deposit_log_matches(log)
  <2>1. rest # Fatal
    BY DEF authenticated
  <2>2. authenticated(rest, log) = authenticate_deposit_request(log, rest)
    BY <1>4, <2>1 DEF authenticated
  <2>3. rest # <<>> /\ rest[1] = log.request /\ authenticated(rest, log) = Tail(rest)
    BY <2>2 DEF authenticate_deposit_request
  <2>4. Matching(logs, lo, hi + 1) = M \cup {hi + 1} /\ Cardinality(Matching(logs, lo, hi + 1)) = seen + 1
    BY <1>4, MatchingFacts
  <2> HIDE DEF M, seen
  <2>5. PICK n \in Nat : n = Len(deposits)
    OBVIOUS
  <2>6. seen + 1 <= n
    <3>1. CASE seen = n
      <4>1. SubSeq(deposits, n + 1, n) = <<>>
        BY <2>5
      <4> QED BY <1>1, <2>3, <2>5, <3>1, <4>1
    <3>2. CASE seen # n
      BY <1>1, <2>5, <3>2
    <3> QED BY <3>1, <3>2
  <2>7. rest[1] = deposits[seen + 1] /\ Tail(rest) = SubSeq(deposits, seen + 2, n)
    BY <1>1, <2>5, <2>6
  <2>8. ASSUME NEW i \in M \cup {hi + 1}
        PROVE  logs[i].request = deposits[Cardinality(Matching(logs, lo, i))]
    <3>1. CASE i \in M
      BY <1>2, <3>1
    <3>2. CASE i = hi + 1
      BY <2>3, <2>4, <2>7, <3>2
    <3> QED BY <3>1, <3>2
  <2>9. (seen + 1) + 1 = seen + 2
    BY <1>1
  <2> QED BY <2>3, <2>4, <2>5, <2>6, <2>7, <2>8, <2>9 DEF Answers
<1> QED BY <1>3, <1>4

(* Logs further up do not matter.                                          *)
LEMMA AnswersAgree ==
    ASSUME NEW logs, NEW more, NEW lo \in Nat, NEW hi \in Nat, NEW deposits, NEW rest,
           Answers(logs, lo, hi, deposits, rest), \A i \in lo + 1 .. hi : more[i] = logs[i]
    PROVE  Answers(more, lo, hi, deposits, rest)
<1>1. \A i \in lo + 1 .. hi : Matching(more, lo, i) = Matching(logs, lo, i)
  BY DEF Matching
<1>2. Matching(more, lo, hi) = Matching(logs, lo, hi)
  BY DEF Matching
<1>3. \A i \in Matching(logs, lo, hi) : i \in lo + 1 .. hi
  BY DEF Matching
<1> QED BY <1>1, <1>2, <1>3 DEF Answers

(* The loop over a transaction's logs (authenticate_deposit_logs).         *)
LEMMA Authenticates ==
    ASSUME NEW logs, NEW lo \in Nat, NEW at \in Nat, NEW n \in Nat, lo <= at,
           NEW range, range.start = at, range.count = n,
           NEW deposits, deposits \in Seq(Range(deposits)), NEW expected,
           Answers(logs, lo, at, deposits, expected),
           authenticate_deposit_logs(logs, range, expected) # Fatal
    PROVE  Answers(logs, lo, at + n, deposits, authenticate_deposit_logs(logs, range, expected))
<1> DEFINE Loops(f, m) == f = [offset \in 0 .. m |->
                                  IF offset = 0 THEN expected
                                  ELSE authenticated(f[offset - 1], LogAt(logs, range, offset))]
           Hits(m) == \E f : Loops(f, m)
           Exists == {i \in 0 .. n : Hits(i)}
<1>1. n \in Exists
  <2>1. 0 \in Exists
    <3>1. Loops([o \in 0 .. 0 |-> expected], 0)
      OBVIOUS
    <3> HIDE DEF Loops
    <3> QED BY <3>1
  <2>2. ASSUME NEW i \in 0 .. n - 1, i \in Exists PROVE i + 1 \in Exists
    <3>1. PICK f : Loops(f, i)
      BY <2>2
    <3> DEFINE g == [o \in 0 .. i + 1 |-> IF o <= i THEN f[o]
                                          ELSE authenticated(f[i], LogAt(logs, range, i + 1))]
               step(h, o) == IF o = 0 THEN expected ELSE authenticated(h[o - 1], LogAt(logs, range, o))
    <3>2. i \in Nat /\ i + 1 \in 0 .. n
      OBVIOUS
    <3>3. ASSUME NEW o \in 0 .. i + 1 PROVE g[o] = step(g, o)
      <4>1. CASE o = 0
        <5>1. g[o] = f[o] /\ f[o] = expected
          BY <3>1, <3>2, <4>1
        <5> QED BY <4>1, <5>1
      <4>2. CASE o # 0 /\ o <= i
        <5>1. o \in 0 .. i /\ o - 1 \in 0 .. i + 1 /\ o - 1 <= i
          BY <3>2, <4>2
        <5>2. g[o] = f[o] /\ g[o - 1] = f[o - 1]
          BY <4>2, <5>1
        <5>3. f[o] = authenticated(f[o - 1], LogAt(logs, range, o))
          BY <3>1, <4>2, <5>1
        <5> HIDE DEF g
        <5> QED BY <4>2, <5>2, <5>3
      <4>3. CASE o # 0 /\ ~(o <= i)
        <5>1. o = i + 1 /\ o - 1 = i /\ i \in 0 .. i + 1
          BY <3>2, <4>3
        <5>2. g[o] = authenticated(f[i], LogAt(logs, range, i + 1)) /\ g[i] = f[i]
          BY <3>2, <5>1
        <5> HIDE DEF g
        <5> QED BY <3>2, <5>1, <5>2
      <4> QED BY <4>1, <4>2, <4>3
    <3>4. g = [o \in 0 .. i + 1 |-> g[o]]
      OBVIOUS
    <3> HIDE DEF g
    <3>5. Loops(g, i + 1)
      BY <3>3, <3>4
    <3> HIDE DEF Loops
    <3>6. Hits(i + 1)
      BY <3>5
    <3> HIDE DEF Hits
    <3> QED BY <3>2, <3>6
  <2> HIDE DEF Exists
  <2>3. \A i \in 0 .. n - 1 : i \in Exists => i + 1 \in Exists
    BY <2>2
  <2>4. \A i \in 0 .. n : i \in Exists
    BY <2>1, <2>3, Climb
  <2> QED BY <2>4
<1> DEFINE rest == CHOOSE f : Loops(f, n)
<1>2. authenticate_deposit_logs(logs, range, expected) = rest[n]
  BY DEF authenticate_deposit_logs
<1>3. Loops(rest, n)
  <2>1. \E f : Loops(f, n)
    BY <1>1
  <2> HIDE DEF Loops
  <2> QED BY <2>1
<1> HIDE DEF rest, Exists
<1>4. rest[0] = expected
  BY <1>3
<1>5. \A i \in 0 .. n - 1 : rest[i + 1] = authenticated(rest[i], logs[at + i + 1])
  <2>1. ASSUME NEW i \in 0 .. n - 1 PROVE rest[i + 1] = authenticated(rest[i], logs[at + i + 1])
    <3>1. i + 1 \in 0 .. n /\ i + 1 # 0 /\ (i + 1) - 1 = i /\ at + (i + 1) = at + i + 1
      OBVIOUS
    <3>2. rest[i + 1] = authenticated(rest[(i + 1) - 1], LogAt(logs, range, i + 1))
      BY <1>3, <3>1
    <3> QED BY <3>1, <3>2 DEF LogAt
  <2> QED BY <2>1
<1> DEFINE S == {i \in 0 .. n : rest[i] = Fatal \/ Answers(logs, lo, at + i, deposits, rest[i])}
<1>6. 0 \in S
  BY <1>4
<1>7. ASSUME NEW i \in 0 .. n - 1, i \in S PROVE i + 1 \in S
  <2>1. i + 1 \in 0 .. n /\ at + i \in Nat /\ lo <= at + i /\ at + (i + 1) = (at + i) + 1
    OBVIOUS
  <2>2. rest[i + 1] = authenticated(rest[i], logs[(at + i) + 1])
    BY <1>5
  <2>3. CASE rest[i + 1] = Fatal
    BY <2>1, <2>3
  <2>4. CASE rest[i + 1] # Fatal
    <3>1. rest[i] # Fatal
      BY <2>2, <2>4 DEF authenticated
    <3>2. Answers(logs, lo, at + i, deposits, rest[i])
      BY <1>7, <3>1
    <3>3. Answers(logs, lo, (at + i) + 1, deposits, rest[i + 1])
      BY <2>1, <2>2, <2>4, <3>2, AnswersOneMore
    <3> QED BY <2>1, <3>3
  <2> QED BY <2>3, <2>4
<1>8. n \in S
  <2> HIDE DEF S
  <2>1. \A i \in 0 .. n - 1 : i \in S => i + 1 \in S
    BY <1>7
  <2>2. \A i \in 0 .. n : i \in S
    BY <1>6, <2>1, Climb
  <2> QED BY <2>2
<1> QED BY <1>2, <1>8

-----------------------------------------------------------------------------
(* What the steps have in common. *)

(* A frame on a host, and the merge after it (run_system_call_frame,       *)
(* process_transaction).                                                   *)
LEMMA RunMerge ==
    ASSUME NEW h, HostShape(h), h.pending = <<>>, NEW t \in SUBSET Addresses, Warms(h, t),
           NEW e \in Effects \cup SystemEffects, NEW by \in Callers, NEW ok \in BOOLEAN,
           MergeInv, epoch' \in Nat, k_tx_merge(Frame(h, e, by, ok)), Remember(e, by, ok, t)
    PROVE  /\ MergeInv' /\ HostInv'
           /\ host'.logs = Frame(h, e, by, ok).logs
           /\ host'.log_start = h.log_start /\ host'.warm_epoch = h.warm_epoch
           /\ Len(h.logs) <= Len(host'.logs)
           /\ \A i \in 1 .. Len(h.logs) : host'.logs[i] = h.logs[i]
<1>1. PICK r : r = Frame(h, e, by, ok)
  OBVIOUS
<1>2. FrameLeaves(h, e, by, ok, t, r)
  BY <1>1, FrameFacts
<1>3. did' = IF ok THEN Append(did, [by |-> by, epoch |-> epoch']) ELSE did
  BY DEF Remember
<1>4. k_tx_merge(r)
  BY <1>1
<1>5. /\ MergeInv'
      /\ HostShape(host') /\ host'.pending = <<>>
      /\ host'.logs = r.logs /\ host'.log_start = r.log_start
      /\ host'.warm = r.warm /\ host'.warm_epoch = r.warm_epoch
  BY <1>2, <1>3, <1>4, MergeFacts DEF FrameLeaves
<1>6. touched' = IF ok THEN t \cup e.touch ELSE t
  BY DEF Remember
<1>7. Warms(host', touched')
  BY <1>2, <1>5, <1>6 DEF Warms, FrameLeaves
<1> QED BY <1>1, <1>2, <1>5, <1>7 DEF HostInv, FrameLeaves

(* More logs leave the receipts' ranges and the answers where they are.    *)
LEMMA LogsGrow ==
    ASSUME HostInv, HostInv', NEW last \in Nat, Tiled(last), ReceiptInv, UNCHANGED <<receipts, logs_start>>,
           Len(host.logs) <= Len(host'.logs), \A i \in 1 .. Len(host.logs) : host'.logs[i] = host.logs[i]
    PROVE  /\ Tiled(last)'
           /\ \A deposits, rest : Answers(host.logs, logs_start, last, deposits, rest)
                                    => Answers(host'.logs, logs_start, last, deposits, rest)
<1>1. Len(host.logs) \in Nat /\ Len(host'.logs) \in Nat /\ logs_start \in Nat
  BY DEF HostInv, HostShape, ReceiptInv
<1>2. last <= Len(host.logs) /\ last <= Len(host'.logs)
  BY <1>1 DEF Tiled
<1>3. Tiled(last)'
  BY <1>2 DEF Tiled, ReceiptLogs
<1>4. \A i \in logs_start + 1 .. last : host'.logs[i] = host.logs[i]
  BY <1>1, <1>2
<1>5. ASSUME NEW deposits, NEW rest, Answers(host.logs, logs_start, last, deposits, rest)
      PROVE  Answers(host'.logs, logs_start, last, deposits, rest)
  BY <1>1, <1>4, <1>5, AnswersAgree
<1> QED BY <1>3, <1>5

(* What a block that ends without a verdict of "valid" promises is nothing *)
(* that its last step changes (fatal_error).                               *)
LEMMA FatalKeeps ==
    ASSUME BlockInv, NEW why, why # "valid", fatal_error(why)
    PROVE  BlockInv'
<1> USE DEF fatal_error, BlockInv
<1>1. HostInv'
  BY DEF HostInv, HostShape, Warms
<1>2. EpochInv'
  BY DEF EpochInv, Working, Before
<1>3. MergeInv'
  BY DEF MergeInv
<1>4. ReceiptInv'
  BY DEF ReceiptInv, Executed, Before
<1>5. DepositInv'
  BY DEF DepositInv, Executed
<1>6. StreamInv'
  BY DEF StreamInv, Before
<1>7. VerdictInv'
  BY DEF VerdictInv, Working, Before
<1> QED BY <1>1, <1>2, <1>3, <1>4, <1>5, <1>6, <1>7

(* The lengths and numbers that the steps compute with.                    *)
LEMMA Numbers ==
    ASSUME BlockInv
    PROVE  /\ Len(host.logs) \in Nat /\ host.log_start \in Nat /\ host.log_start <= Len(host.logs)
           /\ cursor \in Nat /\ epoch \in Nat /\ logs_start \in Nat
           /\ block.txs \in Nat /\ block.fork \in Nat /\ block.deposits \in Seq(Range(block.deposits))
           /\ touched \in SUBSET Addresses
<1>1. Len(host.logs) \in Nat /\ host.log_start \in Nat /\ host.log_start <= Len(host.logs)
  BY DEF BlockInv, HostInv, HostShape
<1>2. block \in Blocks /\ cursor \in Nat /\ epoch \in Nat /\ logs_start \in Nat
  BY DEF BlockInv, EpochInv, ReceiptInv
<1>3. touched \in SUBSET Addresses
  BY DEF BlockInv, HostInv, Warms
<1> QED BY <1>1, <1>2, <1>3, BlockAssumption

-----------------------------------------------------------------------------
(* The steps. *)

(* Nor does a step that changes nothing (Done).                            *)
LEMMA StutterKeeps ==
    ASSUME BlockInv, UNCHANGED body
    PROVE  BlockInv'
<1> USE DEF body, BlockInv
<1>1. HostInv'
  BY DEF HostInv, HostShape, Warms
<1>2. EpochInv'
  BY DEF EpochInv
<1>3. MergeInv'
  BY DEF MergeInv
<1>4. ReceiptInv'
  <2>1. UNCHANGED ReceiptLogs
    BY DEF ReceiptLogs
  <2> QED BY <2>1 DEF ReceiptInv, Executed, Tiled
<1>5. DepositInv'
  BY DEF DepositInv, Executed, At
<1>6. StreamInv'
  BY DEF StreamInv, RequestCount, At
<1>7. VerdictInv'
  <2>1. UNCHANGED PayloadHash(block)
    BY DEF PayloadHash, execution_requests_hash, Digests, RequestLists
  <2> QED BY <2>1 DEF VerdictInv, At
<1> QED BY <1>1, <1>2, <1>3, <1>4, <1>5, <1>6, <1>7

(* Every block starts out as the invariant says.                           *)
LEMMA Begins ==
    ASSUME BodyInit
    PROVE  BlockInv
<1> USE DEF BodyInit
<1>1. HostInv
  <2>1. HostShape(host)
    BY DEF HostShape
  <2> QED BY <2>1 DEF HostInv, Warms
<1>2. EpochInv
  BY DEF EpochInv, Working, Before
<1>3. MergeInv
  BY DEF MergeInv
<1>4. ReceiptInv
  BY DEF ReceiptInv, Executed
<1>5. DepositInv
  BY DEF DepositInv, Executed
<1>6. StreamInv
  BY DEF StreamInv
<1>7. VerdictInv
  BY DEF VerdictInv, Working
<1> QED BY <1>1, <1>2, <1>3, <1>4, <1>5, <1>6, <1>7 DEF BlockInv

(* The payload is checked before anything runs.                            *)
LEMMA PayloadKeeps ==
    ASSUME BlockInv, PayloadAccepted \/ PayloadRefused
    PROVE  BlockInv'
<1>1. CASE PayloadRefused
  <2>1. \E why \in {"InvalidGasUsed", "InvalidParentHash", "InvalidExcessBlobGas", "InvalidBlockHash"} :
           fatal_error(why)
    BY <1>1 DEF PayloadRefused
  <2> QED BY <2>1, FatalKeeps
<1>2. CASE PayloadAccepted
  <2> USE <1>2 DEF PayloadAccepted, Goto, Steps, BlockInv
  <2>1. HostInv'
    BY DEF HostInv, HostShape, Warms
  <2>2. EpochInv'
    BY DEF EpochInv, Working, Before
  <2>3. MergeInv'
    BY DEF MergeInv
  <2>4. ReceiptInv'
    BY DEF ReceiptInv, Executed, Before
  <2>5. DepositInv'
    BY DEF DepositInv, Executed
  <2>6. StreamInv'
    BY DEF StreamInv, Before
  <2>7. VerdictInv'
    BY DEF VerdictInv, Working, Before, PayloadHash, execution_requests_hash, Digests, RequestLists, At
  <2> QED BY <2>1, <2>2, <2>3, <2>4, <2>5, <2>6, <2>7
<1> QED BY <1>1, <1>2

(* The block's first epoch is the one the host starts in.                  *)
LEMMA BodyKeeps ==
    ASSUME BlockInv, execute_block_body
    PROVE  BlockInv'
<1> USE DEF execute_block_body, Goto, Steps, BlockInv
<1>1. pc = "begin" /\ epoch = 0 /\ host.warm_epoch = 1
  BY DEF EpochInv, Before
<1>2. /\ host'.logs = host.logs /\ host'.log_start = host.log_start /\ host'.pending = host.pending
      /\ host'.warm = host.warm /\ host'.warm_epoch = 1 /\ DOMAIN host' = DOMAIN host
  BY DEF warm_reset, HostInv, HostShape
<1>3. HostInv'
  BY <1>1, <1>2 DEF HostInv, HostShape, Warms
<1>4. EpochInv'
  BY <1>1, <1>2 DEF EpochInv, Working, Before
<1>5. MergeInv'
  BY DEF MergeInv
<1>6. ReceiptInv'
  BY DEF ReceiptInv, Executed, Before, EpochInv, Working
<1>7. DepositInv'
  BY DEF DepositInv, Executed, EpochInv, Working, Before
<1>8. StreamInv'
  BY DEF StreamInv, Before
<1>9. VerdictInv'
  BY DEF VerdictInv, Working, Before, PayloadHash, execution_requests_hash, Digests, RequestLists, At
<1> QED BY <1>3, <1>4, <1>5, <1>6, <1>7, <1>8, <1>9

(* The block-start system calls run in epoch 0; the logs of the            *)
(* transactions begin where theirs end.                                    *)
LEMMA SystemCallKeeps ==
    ASSUME BlockInv, NEW here \in {"beacon", "history"}, system_call(here)
    PROVE  BlockInv'
<1> USE DEF BlockInv
<1>1. pc = here /\ outcome = "running" /\ pc' = Steps[here] /\ UNCHANGED <<block, outcome, bloom>>
  BY DEF system_call, Goto
<1>2. pc' = IF here = "beacon" THEN "history" ELSE "transactions"
  BY <1>1 DEF Steps
<1>3. UNCHANGED <<cursor, code, queue, receipts, result, produced>>
  BY DEF system_call
<1>4. epoch = 0 /\ cursor = 0 /\ receipts = <<>> /\ queue = produced /\ host.warm_epoch = 1
  BY <1>1 DEF EpochInv, ReceiptInv, StreamInv, Before
<1>5. HostInv' /\ MergeInv' /\ epoch' = epoch /\ host'.warm_epoch = host.warm_epoch
  <2>1. CASE ~At(Calls(here).at) \/ Calls(here).target \notin code
    <3>1. UNCHANGED <<epoch, host, merged, touched, did>>
      BY <2>1 DEF system_call
    <3> QED BY <3>1 DEF HostInv, HostShape, Warms, MergeInv
  <2>2. CASE ~(~At(Calls(here).at) \/ Calls(here).target \notin code)
    <3>1. PICK e \in SystemEffects, ok \in BOOLEAN :
             /\ UNCHANGED epoch
             /\ RunAndMerge(e, Calls(here).target, ok)
             /\ Remember(e, Calls(here).target, ok, touched)
      BY <2>2 DEF system_call
    <3>2. PICK by \in Callers : by = Calls(here).target
      <4>1. here = "beacon" => Calls(here).target = "beacon_roots"
        BY DEF Calls
      <4>2. here = "history" => Calls(here).target = "history"
        BY DEF Calls
      <4>3. "beacon_roots" \in Callers /\ "history" \in Callers
        BY DEF Callers
      <4> QED BY <4>1, <4>2, <4>3
    <3>3. k_tx_merge(Frame(host, e, by, ok)) /\ Remember(e, by, ok, touched) /\ epoch' = epoch
      BY <3>1, <3>2 DEF RunAndMerge
    <3>4. touched \in SUBSET Addresses /\ e \in Effects \cup SystemEffects /\ epoch' \in Nat
      BY <3>3, Numbers
    <3>5. HostShape(host) /\ host.pending = <<>> /\ Warms(host, touched) /\ MergeInv
      BY DEF HostInv
    <3>6. HostInv' /\ MergeInv' /\ host'.warm_epoch = host.warm_epoch
      BY <3>3, <3>4, <3>5, RunMerge
    <3> QED BY <3>3, <3>6
  <2> QED BY <2>1, <2>2
<1>6. EpochInv'
  <2>1. block.txs \in Nat
    BY Numbers
  <2> QED BY <1>1, <1>2, <1>3, <1>4, <1>5, <2>1 DEF EpochInv, Working, Before
<1>7. here = "history" => /\ logs_start' = Len(host'.logs) /\ remaining' = block.deposits
  <2>1. host'.log_start \in Nat /\ Len(host'.logs) \in Nat
    BY <1>5 DEF HostInv, HostShape
  <2>2. here = "history" => logs_start' = LogRange(host').start + LogRange(host').count
    BY DEF system_call
  <2>3. LogRange(host').start + LogRange(host').count = Len(host'.logs)
    BY <2>1 DEF LogRange
  <2> QED BY <2>2, <2>3 DEF system_call
<1>8. here = "beacon" => UNCHANGED <<logs_start, remaining>>
  BY DEF system_call
<1>9. ReceiptInv'
  <2>1. Len(host'.logs) \in Nat
    BY <1>5 DEF HostInv, HostShape
  <2>2. CASE here = "beacon"
    BY <1>1, <1>2, <1>3, <1>4, <1>8, <2>2 DEF ReceiptInv, Executed, Before
  <2>3. CASE here = "history"
    <3>1. receipts' = <<>> /\ logs_start' = Len(host'.logs)
      BY <1>3, <1>4, <1>7, <2>3
    <3>2. ReceiptLogs' = {}
      BY <3>1 DEF ReceiptLogs, Range
    <3>3. Tiled(Len(host.logs))'
      BY <2>1, <3>1, <3>2 DEF Tiled
    <3> QED BY <1>1, <1>2, <2>1, <2>3, <3>1, <3>3 DEF ReceiptInv, Executed, Before
  <2> QED BY <2>2, <2>3
<1>10. DepositInv'
  <2>1. CASE here = "beacon"
    BY <1>1, <1>2, <2>1 DEF DepositInv, Executed
  <2>2. CASE here = "history"
    <3>1. Len(host'.logs) \in Nat /\ block.deposits \in Seq(Range(block.deposits))
      BY <1>5, Numbers DEF HostInv, HostShape
    <3>2. Answers(host'.logs, Len(host'.logs), Len(host'.logs), block.deposits, block.deposits)
      BY <3>1, AnswersNothing
    <3>3. Answers(host.logs, logs_start, Len(host.logs), block.deposits, remaining)'
      BY <1>1, <1>7, <2>2, <3>2
    <3> QED BY <1>1, <1>2, <2>2, <3>3 DEF DepositInv, Executed
  <2> QED BY <2>1, <2>2
<1>11. StreamInv'
  BY <1>1, <1>2, <1>3, <1>4 DEF StreamInv, Before
<1>12. VerdictInv'
  BY <1>1, <1>2 DEF VerdictInv, Working, Before, PayloadHash, execution_requests_hash, Digests, RequestLists, At
<1> QED BY <1>5, <1>6, <1>9, <1>10, <1>11, <1>12

(* One transaction: its receipt's range is the next one, its deposit       *)
(* events are the next deposits, what it queues is what it produces.       *)
LEMMA TransactionKeeps ==
    ASSUME BlockInv, process_transaction
    PROVE  BlockInv'
<1> USE DEF BlockInv
<1>1. PICK e \in Effects, ok \in BOOLEAN :
         LET ran == Frame(k_tx_reset(host, cursor + 1), e, "transaction", ok)
             rest == IF At(Prague)
                       THEN authenticate_deposit_logs(ran.logs, LogRange(ran), remaining)
                       ELSE remaining
         IN  IF rest = Fatal THEN fatal_error("InvalidExecutionRequests")
             ELSE /\ epoch' = cursor + 1
                  /\ k_tx_merge(ran)
                  /\ Remember(e, "transaction", ok, {})
                  /\ receipts' = Append(receipts, LogRange(ran))
                  /\ remaining' = rest
                  /\ cursor' = cursor + 1
                  /\ queue' = IF ok THEN [s \in DOMAIN queue |-> queue[s] \o e.push[s]] ELSE queue
                  /\ produced' = IF ok THEN [s \in DOMAIN produced |-> produced[s] \o e.push[s]] ELSE produced
                  /\ UNCHANGED <<block, pc, code, logs_start, result, outcome, bloom>>
  BY DEF process_transaction
<1>2. pc = "transactions" /\ outcome = "running" /\ cursor < block.txs
  BY DEF process_transaction
<1> DEFINE reset == k_tx_reset(host, cursor + 1)
           ran == Frame(reset, e, "transaction", ok)
           rest == IF At(Prague)
                     THEN authenticate_deposit_logs(ran.logs, LogRange(ran), remaining)
                     ELSE remaining
<1>3. CASE rest = Fatal
  <2>1. fatal_error("InvalidExecutionRequests")
    BY <1>1, <1>3
  <2> QED BY <2>1, FatalKeeps
<1>4. CASE rest # Fatal
  <2>1. /\ epoch' = cursor + 1 /\ cursor' = cursor + 1
        /\ k_tx_merge(ran) /\ Remember(e, "transaction", ok, {})
        /\ receipts' = Append(receipts, LogRange(ran)) /\ remaining' = rest
        /\ queue' = IF ok THEN [s \in DOMAIN queue |-> queue[s] \o e.push[s]] ELSE queue
        /\ produced' = IF ok THEN [s \in DOMAIN produced |-> produced[s] \o e.push[s]] ELSE produced
        /\ UNCHANGED <<block, pc, code, logs_start, result, outcome, bloom>>
    BY <1>1, <1>4
  <2>2. /\ HostShape(reset) /\ Warms(reset, {}) /\ reset.warm_epoch = cursor + 2
        /\ reset.logs = host.logs /\ reset.log_start = Len(host.logs) /\ reset.pending = <<>>
    <3>1. HostShape(host) /\ Warms(host, touched) /\ cursor + 1 \in Nat
      BY Numbers DEF HostInv
    <3>2. host.warm_epoch <= cursor + 1
      BY <1>2, Numbers DEF EpochInv
    <3>3. (cursor + 1) + 1 = cursor + 2
      BY Numbers
    <3> QED BY <3>1, <3>2, <3>3, ResetFacts
  <2> HIDE DEF reset
  <2>3. /\ MergeInv' /\ HostInv'
        /\ host'.logs = ran.logs
        /\ host'.log_start = Len(host.logs) /\ host'.warm_epoch = cursor + 2
        /\ Len(host.logs) <= Len(host'.logs)
        /\ \A i \in 1 .. Len(host.logs) : host'.logs[i] = host.logs[i]
    <3>1. epoch' \in Nat
      BY <2>1, Numbers
    <3>2. {} \in SUBSET Addresses /\ e \in Effects \cup SystemEffects /\ "transaction" \in Callers
      BY DEF Callers
    <3> QED BY <2>1, <2>2, <3>1, <3>2, RunMerge
  <2>4. PICK old \in Nat, new \in Nat : old = Len(host.logs) /\ new = Len(host'.logs) /\ old <= new
    <3>1. Len(host.logs) \in Nat
      BY Numbers
    <3>2. Len(host'.logs) \in Nat
      BY <2>3 DEF HostInv, HostShape
    <3> QED BY <2>3, <3>1, <3>2
  <2>5. ran.log_start = old /\ LogRange(ran) = [start |-> old, count |-> new - old]
    <3>1. FrameLeaves(reset, e, "transaction", ok, {}, ran)
      <4>1. e \in Effects \cup SystemEffects /\ {} \in SUBSET Addresses
        OBVIOUS
      <4> QED BY <2>2, <4>1, FrameFacts
    <3>2. ran.log_start = old
      BY <2>2, <2>4, <3>1 DEF FrameLeaves
    <3> HIDE DEF ran
    <3> QED BY <2>3, <2>4, <3>2 DEF LogRange
  <2> HIDE DEF ran
  <2>6. EpochInv'
    BY <1>2, <2>1, <2>3, Numbers DEF EpochInv, Working, Before
  <2>7. ReceiptInv'
    <3> DEFINE R == [start : Nat, count : Nat]
    <3>0. new - old \in Nat
      BY <2>4
    <3>1. PICK r \in R : r = LogRange(ran)
      BY <2>5, <3>0
    <3>2. r.start = old /\ r.count = new - old /\ r.start + r.count = new
      BY <2>4, <2>5, <3>1
    <3>3. receipts' = Append(receipts, r) /\ logs_start' = logs_start /\ receipts \in Seq(R) /\ logs_start \in Nat
      BY <2>1, <3>1 DEF ReceiptInv
    <3>4. Tiled(old)
      BY <1>2, <2>4 DEF ReceiptInv
    <3>5. PICK n \in Nat : n = Len(receipts)
      BY <3>3
    <3>6. /\ receipts' \in Seq(R) /\ Len(receipts') = n + 1 /\ receipts'[n + 1] = r
          /\ \A i \in 1 .. n : receipts'[i] = receipts[i]
      BY <3>3, <3>5
    <3> HIDE DEF R
    <3>7. Range(receipts') = Range(receipts) \cup {r}
      <4>1. DOMAIN receipts = 1 .. n /\ DOMAIN receipts' = 1 .. n + 1
        BY <3>3, <3>5, <3>6
      <4>2. 1 .. n + 1 = (1 .. n) \cup {n + 1}
        OBVIOUS
      <4> QED BY <3>6, <4>1, <4>2 DEF Range
    <3>8. ReceiptLogs' = logs_start + 1 .. new
      <4>1. ReceiptLogs = logs_start + 1 .. old /\ logs_start <= old
        BY <3>4 DEF Tiled
      <4>2. ReceiptLogs' = ReceiptLogs \cup (r.start + 1 .. r.start + r.count)
        BY <3>7 DEF ReceiptLogs
      <4> QED BY <2>4, <3>2, <3>3, <4>1, <4>2
    <3>9. ASSUME NEW i \in 2 .. n + 1
          PROVE  receipts'[i].start = receipts'[i - 1].start + receipts'[i - 1].count
      <4>1. CASE i \in 2 .. n
        <5>1. receipts[i].start = receipts[i - 1].start + receipts[i - 1].count
          BY <3>4, <3>5, <4>1 DEF Tiled
        <5>2. i \in 1 .. n /\ i - 1 \in 1 .. n
          BY <4>1
        <5> QED BY <3>6, <5>1, <5>2
      <4>2. CASE i = n + 1
        <5>1. n >= 1 /\ i - 1 = n
          BY <4>2
        <5>2. receipts # <<>>
          BY <3>3, <3>5, <5>1
        <5>3. receipts[n].start + receipts[n].count = old
          BY <3>4, <3>5, <5>2 DEF Tiled
        <5>4. receipts'[n] = receipts[n] /\ receipts'[i] = r
          BY <3>6, <4>2, <5>1
        <5> QED BY <3>2, <5>1, <5>3, <5>4
      <4> QED BY <4>1, <4>2
    <3>10. logs_start' <= new
      BY <2>4, <3>3, <3>4 DEF Tiled
    <3>11. Tiled(Len(host.logs))'
      <4>1. Len(host'.logs) = new
        BY <2>4
      <4>2. receipts'[Len(receipts')].start + receipts'[Len(receipts')].count = new
        BY <3>2, <3>6
      <4> QED BY <3>3, <3>6, <3>8, <3>9, <3>10, <4>1, <4>2 DEF Tiled
    <3>12. pc' = "transactions" /\ outcome' = "running"
      BY <1>2, <2>1
    <3> QED BY <3>3, <3>6, <3>11, <3>12 DEF ReceiptInv, Executed, Before, R
  <2>8. DepositInv'
    <3>1. pc' = "transactions" /\ outcome' = "running" /\ block' = block /\ logs_start' = logs_start
      BY <1>2, <2>1
    <3>2. CASE ~At(Prague)
      BY <3>1, <3>2 DEF DepositInv, At
    <3>3. CASE At(Prague)
      <4> DEFINE left == authenticate_deposit_logs(host'.logs, LogRange(ran), remaining)
      <4>1. remaining' = left /\ left # Fatal
        BY <1>4, <2>1, <2>3, <3>3
      <4>2. Answers(host.logs, logs_start, old, block.deposits, remaining)
        BY <1>2, <2>4, <3>3 DEF DepositInv
      <4>3. logs_start \in Nat /\ logs_start <= old
        BY <1>2, <2>4 DEF ReceiptInv, Tiled
      <4>4. Answers(host'.logs, logs_start, old, block.deposits, remaining)
        <5>1. \A i \in logs_start + 1 .. old : host'.logs[i] = host.logs[i]
          BY <2>3, <2>4, <4>3
        <5> QED BY <4>2, <4>3, <5>1, AnswersAgree
      <4>5. PICK n \in Nat : n = new - old /\ old + n = new
        <5>1. new - old \in Nat /\ old + (new - old) = new
          BY <2>4
        <5> QED BY <5>1
      <4>6. LogRange(ran).start = old /\ LogRange(ran).count = n
        BY <2>5, <4>5
      <4>7. block.deposits \in Seq(Range(block.deposits))
        BY Numbers
      <4>8. Answers(host'.logs, logs_start, old + n, block.deposits, left)
        BY <4>1, <4>3, <4>4, <4>6, <4>7, Authenticates
      <4> HIDE DEF left
      <4>9. Answers(host.logs, logs_start, Len(host.logs), block.deposits, remaining)'
        BY <2>4, <3>1, <4>1, <4>5, <4>8
      <4> QED BY <3>1, <4>9 DEF DepositInv, Executed
    <3> QED BY <3>2, <3>3
  <2>9. StreamInv'
    BY <1>2, <2>1 DEF StreamInv, Before
  <2>10. VerdictInv'
    BY <1>2, <2>1 DEF VerdictInv, Working, Before, PayloadHash, execution_requests_hash, Digests, RequestLists, At
  <2> QED BY <2>3, <2>6, <2>7, <2>8, <2>9, <2>10
<1> QED BY <1>3, <1>4

(* The end of the loop: every deposit was seen, and the result is the      *)
(* range of the receipts (execute_block_transactions).                     *)
LEMMA EndStateKeeps ==
    ASSUME BlockInv, apply_block_end_state
    PROVE  BlockInv'
<1> USE DEF BlockInv
<1>1. pc = "transactions" /\ outcome = "running" /\ cursor = block.txs
  BY DEF apply_block_end_state
<1>2. CASE At(Prague) /\ remaining # <<>>
  <2>1. fatal_error("InvalidExecutionRequests")
    BY <1>2 DEF apply_block_end_state
  <2> QED BY <2>1, FatalKeeps
<1>3. CASE ~(At(Prague) /\ remaining # <<>>)
  <2>1. /\ pc' = "requests" /\ result' = LoopLogs(host) /\ epoch' = PostEpoch(block.txs)
        /\ k_tx_merge([warm_reset(host, epoch') EXCEPT
                         !.pending = IF At(Shanghai) THEN Append(@, "withdrawals") ELSE @])
        /\ did' = IF At(Shanghai) THEN Append(did, [by |-> "withdrawals", epoch |-> block.txs + 1]) ELSE did
        /\ touched' = {} /\ cursor' = 1
        /\ UNCHANGED <<block, code, queue, receipts, remaining, logs_start, outcome, bloom, produced>>
    BY <1>3 DEF apply_block_end_state
  <2>2. PICK n \in Nat : n = block.txs /\ epoch' = n + 1 /\ epoch' \in Nat /\ host.warm_epoch <= n + 1
    <3>1. block.txs \in Nat /\ epoch' = block.txs + 1
      BY <2>1, Numbers DEF PostEpoch
    <3>2. host.warm_epoch = block.txs + 1
      BY <1>1 DEF EpochInv
    <3> QED BY <3>1, <3>2
  <2>3. PICK w : w = warm_reset(host, n + 1)
    OBVIOUS
  <2>4. /\ HostShape(w) /\ Warms(w, {}) /\ w.warm_epoch = n + 2
        /\ w.logs = host.logs /\ w.log_start = host.log_start /\ w.pending = <<>>
    <3>1. HostShape(host) /\ Warms(host, touched) /\ host.pending = <<>> /\ n + 1 \in Nat /\ (n + 1) + 1 = n + 2
      BY DEF HostInv
    <3> QED BY <2>2, <2>3, <3>1, ResetFacts
  <2>5. PICK paid : paid = [w EXCEPT !.pending = IF At(Shanghai) THEN Append(@, "withdrawals") ELSE @]
    OBVIOUS
  <2>6. PICK ok \in BOOLEAN : ok <=> At(Shanghai)
    OBVIOUS
  <2>7. /\ DOMAIN paid = DOMAIN w /\ paid.logs = w.logs /\ paid.log_start = w.log_start
        /\ paid.warm = w.warm /\ paid.warm_epoch = w.warm_epoch
        /\ paid.pending = IF ok THEN <<"withdrawals">> ELSE <<>>
    BY <2>4, <2>5, <2>6 DEF HostShape
  <2>8. HostShape(paid)
    BY <2>4, <2>7 DEF HostShape
  <2>9. /\ MergeInv' /\ HostShape(host') /\ host'.pending = <<>>
        /\ host'.logs = paid.logs /\ host'.log_start = paid.log_start
        /\ host'.warm = paid.warm /\ host'.warm_epoch = paid.warm_epoch
    <3>1. k_tx_merge(paid)
      BY <2>1, <2>2, <2>3, <2>5
    <3>2. did' = IF ok THEN Append(did, [by |-> "withdrawals", epoch |-> epoch']) ELSE did
      BY <2>1, <2>2, <2>6
    <3>3. "withdrawals" \in Callers /\ epoch' \in Nat
      BY <2>2 DEF Callers
    <3> QED BY <2>7, <2>8, <3>1, <3>2, <3>3, MergeFacts
  <2>10. HostInv'
    BY <2>1, <2>4, <2>7, <2>9 DEF HostInv, Warms
  <2>11. EpochInv'
    <3>1. host'.warm_epoch = epoch' + 1
      BY <2>2, <2>4, <2>7, <2>9
    <3> QED BY <1>1, <2>1, <2>2, <3>1 DEF EpochInv, Working, Before
  <2>12. PICK len \in Nat : len = Len(host.logs) /\ logs_start \in Nat /\ logs_start <= len
    BY <1>1, Numbers DEF ReceiptInv, Tiled
  <2>13. result' = [start |-> logs_start, count |-> len - logs_start]
    <3>1. LogRange(host).start + LogRange(host).count = len
      BY <2>12, Numbers DEF LogRange
    <3> QED BY <2>1, <2>12, <3>1 DEF LoopLogs
  <2>14. result' \in [start : Nat, count : Nat] /\ result'.start = logs_start /\ result'.start + result'.count = len
    <3>1. len - logs_start \in Nat /\ logs_start + (len - logs_start) = len
      BY <2>12
    <3> QED BY <2>12, <2>13, <3>1
  <2>15. host'.logs = host.logs
    BY <2>4, <2>7, <2>9
  <2>16. ReceiptInv'
    <3>1. Tiled(len)'
      BY <1>1, <2>1, <2>12, <2>15 DEF ReceiptInv, Tiled, ReceiptLogs
    <3>2. Tiled(result.start + result.count)'
      BY <2>14, <3>1
    <3> QED BY <1>1, <2>1, <2>14, <3>2 DEF ReceiptInv, Executed, Before
  <2>17. DepositInv'
    <3>1. CASE ~At(Prague)
      BY <2>1, <3>1 DEF DepositInv, At
    <3>2. CASE At(Prague)
      <4>1. Answers(host.logs, logs_start, len, block.deposits, <<>>)
        BY <1>1, <1>3, <2>12, <3>2 DEF DepositInv
      <4>2. Answers(host'.logs, logs_start', result'.start + result'.count, block'.deposits, <<>>)
        BY <2>1, <2>14, <2>15, <4>1
      <4> QED BY <2>1, <4>2 DEF DepositInv
    <3> QED BY <3>1, <3>2
  <2>18. StreamInv'
    <3>1. queue = produced
      BY <1>1 DEF StreamInv
    <3> QED BY <1>1, <2>1, <3>1 DEF StreamInv, Before
  <2>19. VerdictInv'
    BY <1>1, <2>1 DEF VerdictInv, Working, Before, PayloadHash, execution_requests_hash, Digests, RequestLists, At
  <2> QED BY <2>9, <2>10, <2>11, <2>16, <2>17, <2>18, <2>19
<1> QED BY <1>2, <1>3

(* A step that leaves the receipts alone once the loop is over.            *)
LEMMA StaysExecuted ==
    ASSUME BlockInv, HostInv', Executed, UNCHANGED <<block, receipts, logs_start, result>>,
           pc' \in {"requests", "check", "ended"},
           Len(host.logs) <= Len(host'.logs), \A i \in 1 .. Len(host.logs) : host'.logs[i] = host.logs[i]
    PROVE  ReceiptInv' /\ DepositInv'
<1> USE DEF BlockInv
<1>1. PICK last \in Nat : last = result.start + result.count
  BY DEF ReceiptInv
<1>2. Tiled(last)
  BY <1>1 DEF ReceiptInv
<1>3. /\ Tiled(last)'
      /\ \A deposits, rest : Answers(host.logs, logs_start, last, deposits, rest)
                               => Answers(host'.logs, logs_start, last, deposits, rest)
  BY <1>2, LogsGrow
<1>4. ReceiptInv'
  BY <1>1, <1>3 DEF ReceiptInv, Before
<1>5. DepositInv'
  <2>1. At(Prague) => Answers(host.logs, logs_start, last, block.deposits, <<>>)
    BY <1>1 DEF DepositInv
  <2>2. At(Prague) => Answers(host'.logs, logs_start, last, block.deposits, <<>>)
    BY <1>3, <2>1
  <2> QED BY <1>1, <2>2 DEF DepositInv, At
<1> QED BY <1>4, <1>5

(* A dequeue takes all that its contract holds, which is what the          *)
(* transactions produced, and it is what the block says.                   *)
LEMMA StreamKeeps ==
    ASSUME BlockInv, validate_request_stream
    PROVE  BlockInv'
<1> USE DEF BlockInv
<1>1. pc = "requests" /\ outcome = "running" /\ cursor <= RequestCount
  BY DEF validate_request_stream
<1> DEFINE s == Streams[cursor]
<1>2. PICK e \in SystemEffects, ok \in BOOLEAN :
         IF system_call_checked(s, ok) = Fatal THEN fatal_error("ExecutionInvalid")
         ELSE IF system_call_checked(s, ok) # block.streams[s] THEN fatal_error("InvalidExecutionRequests")
         ELSE /\ epoch' = epoch
              /\ RunAndMerge(e, s, TRUE)
              /\ Remember(e, s, TRUE, touched)
              /\ queue' = [queue EXCEPT ![s] = <<>>]
              /\ cursor' = cursor + 1
              /\ UNCHANGED <<block, pc, code, receipts, remaining, logs_start, result, outcome, bloom, produced>>
  BY DEF validate_request_stream
<1>3. CASE system_call_checked(s, ok) = Fatal \/ system_call_checked(s, ok) # block.streams[s]
  <2>1. fatal_error("ExecutionInvalid") \/ fatal_error("InvalidExecutionRequests")
    BY <1>2, <1>3
  <2> QED BY <2>1, FatalKeeps
<1>4. CASE ~(system_call_checked(s, ok) = Fatal \/ system_call_checked(s, ok) # block.streams[s])
  <2>1. /\ epoch' = epoch /\ RunAndMerge(e, s, TRUE) /\ Remember(e, s, TRUE, touched)
        /\ queue' = [queue EXCEPT ![s] = <<>>] /\ cursor' = cursor + 1
        /\ UNCHANGED <<block, pc, code, receipts, remaining, logs_start, result, outcome, bloom, produced>>
    BY <1>2, <1>4
  <2>2. cursor \in 1 .. 4
    <3>1. cursor \in Nat /\ cursor >= 1
      BY <1>1, Numbers DEF StreamInv
    <3>2. RequestCount \in {0, 2, 4}
      BY DEF RequestCount
    <3> QED BY <1>1, <3>1, <3>2
  <2>3. s \in Range(Streams) /\ s \in Callers
    <3>1. DOMAIN Streams = 1 .. 4
      BY DEF Streams
    <3> QED BY <2>2, <3>1 DEF Range, Callers
  <2>4. block.streams[s] = produced[s]
    <3>1. queue[s] = produced[s]
      BY <1>1, <2>2 DEF StreamInv
    <3>2. system_call_checked(s, ok) = queue[s]
      BY <1>4 DEF system_call_checked
    <3> QED BY <1>4, <3>1, <3>2
  <2>5. /\ MergeInv' /\ HostInv' /\ host'.warm_epoch = host.warm_epoch
        /\ Len(host.logs) <= Len(host'.logs)
        /\ \A i \in 1 .. Len(host.logs) : host'.logs[i] = host.logs[i]
    <3>1. epoch' \in Nat /\ touched \in SUBSET Addresses /\ e \in Effects \cup SystemEffects /\ TRUE \in BOOLEAN
      BY <2>1, Numbers
    <3>2. k_tx_merge(Frame(host, e, s, TRUE))
      BY <2>1 DEF RunAndMerge
    <3>3. HostShape(host) /\ host.pending = <<>> /\ Warms(host, touched)
      BY DEF HostInv
    <3> HIDE DEF s
    <3> QED BY <2>1, <2>3, <3>1, <3>2, <3>3, RunMerge
  <2>6. EpochInv'
    BY <1>1, <2>1, <2>5, Numbers DEF EpochInv, Working, Before
  <2>7. ReceiptInv' /\ DepositInv'
    <3>1. Executed
      BY <1>1 DEF Executed
    <3>2. pc' = "requests" /\ UNCHANGED <<block, receipts, logs_start, result>>
      BY <1>1, <2>1
    <3> QED BY <2>5, <3>1, <3>2, StaysExecuted
  <2>8. StreamInv'
    <3>1. pc' = "requests" /\ outcome' = "running" /\ cursor' >= 1
      BY <1>1, <2>1, <2>2
    <3>2. DOMAIN queue' = Range(Streams)
      BY <2>1 DEF StreamInv
    <3>3. ASSUME NEW i \in 1 .. 4
          PROVE  IF i < cursor' THEN block'.streams[Streams[i]] = produced'[Streams[i]]
                 ELSE queue'[Streams[i]] = produced'[Streams[i]]
      <4>1. IF i < cursor THEN block.streams[Streams[i]] = produced[Streams[i]]
            ELSE queue[Streams[i]] = produced[Streams[i]]
        BY <1>1 DEF StreamInv
      <4>2. CASE i = cursor
        BY <2>1, <2>2, <2>4, <4>2
      <4>3. CASE i # cursor
        <5>1. Streams[i] # s
          BY <2>2, <4>3 DEF Streams
        <5>2. queue'[Streams[i]] = queue[Streams[i]]
          <6>1. Streams[i] \in Range(Streams)
            <7>1. DOMAIN Streams = 1 .. 4
              BY DEF Streams
            <7> QED BY <7>1 DEF Range
          <6> HIDE DEF s
          <6> QED BY <2>1, <5>1, <6>1 DEF StreamInv
        <5>3. i < cursor' <=> i < cursor
          BY <2>1, <2>2, <4>3
        <5> QED BY <2>1, <4>1, <5>2, <5>3
      <4> QED BY <4>2, <4>3
    <3> QED BY <3>1, <3>2, <3>3 DEF StreamInv, Before
  <2>9. VerdictInv'
    BY <1>1, <2>1 DEF VerdictInv, Working, Before, PayloadHash, execution_requests_hash, Digests, RequestLists, At
  <2> QED BY <2>5, <2>6, <2>7, <2>8, <2>9
<1> QED BY <1>3, <1>4

(* All of this fork's streams have been compared.                          *)
LEMMA RequestsKeep ==
    ASSUME BlockInv, RequestsDone
    PROVE  BlockInv'
<1> USE DEF BlockInv
<1>1. pc = "requests" /\ outcome = "running" /\ cursor > RequestCount
  BY DEF RequestsDone
<1> DEFINE stale == At(Prague) /\ ~At(Amsterdam) /\ \E i \in 3 .. 4 : block.streams[Streams[i]] # <<>>
<1>2. CASE stale
  <2>1. fatal_error("InvalidExecutionRequests")
    BY <1>2 DEF RequestsDone
  <2> QED BY <2>1, FatalKeeps
<1>3. CASE ~stale
  <2>1. /\ pc' = "check"
        /\ UNCHANGED <<block, cursor, epoch, host, merged, code, queue, receipts, remaining, logs_start,
                       result, outcome, bloom, touched, did, produced>>
    BY <1>3 DEF RequestsDone
  <2>2. HostInv'
    BY <2>1 DEF HostInv, HostShape, Warms
  <2>3. EpochInv'
    BY <1>1, <2>1 DEF EpochInv, Working, Before
  <2>4. MergeInv'
    BY <2>1 DEF MergeInv
  <2>5. ReceiptInv' /\ DepositInv'
    <3>1. Executed /\ Len(host.logs) \in Nat
      BY <1>1, Numbers DEF Executed
    <3>2. Len(host.logs) <= Len(host'.logs) /\ \A i \in 1 .. Len(host.logs) : host'.logs[i] = host.logs[i]
      BY <2>1, <3>1
    <3> QED BY <2>1, <2>2, <3>1, <3>2, StaysExecuted
  <2>6. StreamInv'
    <3>1. RequestCount \in 0 .. 4 /\ cursor \in Nat
      BY Numbers DEF RequestCount
    <3>2. \A i \in 1 .. RequestCount : block.streams[Streams[i]] = produced[Streams[i]]
      <4>1. \A i \in 1 .. RequestCount : i \in 1 .. 4 /\ i < cursor
        BY <1>1, <3>1
      <4> QED BY <1>1, <4>1 DEF StreamInv
    <3>3. At(Prague) /\ ~At(Amsterdam) => \A i \in 3 .. 4 : block.streams[Streams[i]] = <<>>
      BY <1>3
    <3>4. RequestCount' = RequestCount
      BY <2>1 DEF RequestCount, At
    <3> HIDE DEF stale
    <3> QED BY <1>1, <2>1, <3>2, <3>3, <3>4 DEF StreamInv, Before, At
  <2>7. VerdictInv'
    BY <1>1, <2>1 DEF VerdictInv, Working, Before, PayloadHash, execution_requests_hash, Digests, RequestLists, At
  <2> QED BY <2>2, <2>3, <2>4, <2>5, <2>6, <2>7
<1> QED BY <1>2, <1>3

(* The verdict.                                                            *)
LEMMA CheckKeeps ==
    ASSUME BlockInv, validate_executed_block
    PROVE  BlockInv'
<1> USE DEF BlockInv
<1>1. pc = "check" /\ outcome = "running"
  BY DEF validate_executed_block
<1>2. CASE \E why \in {"InvalidGasUsed", "InvalidStateRoot", "InvalidReceiptsRoot", "InvalidBlobGasUsed",
                          "InvalidLogsBloom", "InvalidBlockAccessList"} : fatal_error(why)
  BY <1>2, FatalKeeps
<1>3. CASE ~ \E why \in {"InvalidGasUsed", "InvalidStateRoot", "InvalidReceiptsRoot", "InvalidBlobGasUsed",
                            "InvalidLogsBloom", "InvalidBlockAccessList"} : fatal_error(why)
  <2>1. PICK claimed \in HeaderBlooms :
           /\ block_logs_bloom_matches(host.logs, result, claimed)
           /\ outcome' = "valid" /\ bloom' = claimed
           /\ pc' = "ended"
           /\ UNCHANGED <<block, cursor, epoch, host, merged, code, queue, receipts, remaining,
                          logs_start, result, touched, did, produced>>
    BY <1>3 DEF validate_executed_block
  <2>2. HostInv'
    BY <2>1 DEF HostInv, HostShape, Warms
  <2>3. EpochInv'
    BY <1>1, <2>1 DEF EpochInv, Working, Before
  <2>4. MergeInv'
    BY <2>1 DEF MergeInv
  <2>5. ReceiptInv' /\ DepositInv'
    <3>1. Executed /\ Len(host.logs) \in Nat
      BY <1>1, Numbers DEF Executed
    <3>2. Len(host.logs) <= Len(host'.logs) /\ \A i \in 1 .. Len(host.logs) : host'.logs[i] = host.logs[i]
      BY <2>1, <3>1
    <3> QED BY <2>1, <2>2, <3>1, <3>2, StaysExecuted
  <2>6. StreamInv'
    <3>1. RequestCount' = RequestCount
      BY <2>1 DEF RequestCount, At
    <3> QED BY <1>1, <2>1, <3>1 DEF StreamInv, Before, At
  <2>7. VerdictInv'
    <3>1. ~At(Paris) \/ PayloadHash(block) = block.requests_hash
      BY <1>1 DEF VerdictInv, Working, Before
    <3> QED BY <1>1, <2>1, <3>1 DEF VerdictInv, Working, Before, At
  <2> QED BY <2>2, <2>3, <2>4, <2>5, <2>6, <2>7
<1> QED BY <1>2, <1>3

-----------------------------------------------------------------------------
(* What the invariant says of an accepted block. *)

(* The retained logs are logs, so their bits are those of their entries.   *)
LEMMA StoredLogs ==
    ASSUME BlockInv, NEW i \in 1 .. Len(host.logs)
    PROVE  /\ host.logs[i].address \in DOMAIN Hash /\ Range(host.logs[i].topics) \subseteq DOMAIN Hash
           /\ Len(host.logs[i].topics) \in Nat
           /\ DOMAIN host.logs[i].topics = 1 .. Len(host.logs[i].topics)
<1>1. host.logs[i] \in AllLogs
  BY DEF BlockInv, HostInv, HostShape
<1>2. PICK e \in Effects \cup SystemEffects : host.logs[i] \in Range(e.logs)
  BY <1>1 DEF AllLogs
<1>3. host.logs[i].address \in DOMAIN Hash /\ host.logs[i].topics \in Seq(DOMAIN Hash)
  BY <1>2, BlockAssumption
<1>4. PICK t \in Seq(DOMAIN Hash) : t = host.logs[i].topics
  BY <1>3
<1>5. Len(t) \in Nat /\ DOMAIN t = 1 .. Len(t) /\ Range(t) \subseteq DOMAIN Hash
  BY DEF Range
<1> QED BY <1>3, <1>4, <1>5

(* A bit of a bloom is one of 2048.                                        *)
LEMMA BitRange ==
    ASSUME NEW x \in DOMAIN Hash, NEW k \in 1 .. 3
    PROVE  BitIndex(Hash[x], k) \in 0 .. 2047
<1>1. Hash[x] \in [1 .. 6 -> 0 .. 255]
  BY BlockAssumption
<1>2. 2 * k - 1 \in 1 .. 6 /\ 2 * k \in 1 .. 6
  OBVIOUS
<1>3. PICK a \in 0 .. 255, b \in 0 .. 255 : a = Hash[x][2 * k - 1] /\ b = Hash[x][2 * k]
  BY <1>1, <1>2
<1>4. (a % 8) * 256 + b \in 0 .. 2047
  OBVIOUS
<1>5. BitIndex(Hash[x], k) = (a % 8) * 256 + b
  <2>1. BitIndex(Hash[x], k) = (Hash[x][2 * k - 1] % 8) * 256 + Hash[x][2 * k]
    BY DEF BitIndex
  <2> QED BY <1>3, <2>1
<1> QED BY <1>4, <1>5

(* The bloom of an accepted block.                                         *)
LEMMA BloomOfTheReceipts ==
    ASSUME BlockInv
    PROVE  BloomIsOfTheReceipts
<1> SUFFICES ASSUME outcome = "valid" PROVE BloomIsOfTheReceipts
  BY DEF BloomIsOfTheReceipts
<1>1. /\ bloom \in HeaderBlooms
      /\ bloom_add_logs({}, host.logs, result) = {<<255 - p[1], p[2]>> : p \in bloom}
  BY DEF BlockInv, VerdictInv, block_logs_bloom_matches, logs_bloom_from_ref
<1>2. PICK s \in Nat, n \in Nat : result.start = s /\ result.count = n
  BY DEF BlockInv, ReceiptInv, Executed
<1>3. ReceiptLogs = s + 1 .. s + n /\ s + n <= Len(host.logs)
  BY <1>2 DEF BlockInv, ReceiptInv, Executed, Tiled
<1>4. Len(host.logs) \in Nat
  BY Numbers
<1>5. \A i \in ReceiptLogs : i \in 1 .. Len(host.logs)
  BY <1>3, <1>4
<1> DEFINE at(i) == host.logs[i]
           bits == UNION {LogBits(at(i)) : i \in ReceiptLogs}
<1>6. bloom_add_logs({}, host.logs, result) = bits
  <2>1. \A i \in 1 .. n : LogAt(host.logs, result, i) = at(s + i) /\ s + i \in ReceiptLogs
    BY <1>2, <1>3 DEF LogAt
  <2>2. \A i \in 1 .. n : /\ Len(LogAt(host.logs, result, i).topics) \in Nat
                          /\ DOMAIN LogAt(host.logs, result, i).topics
                               = 1 .. Len(LogAt(host.logs, result, i).topics)
    BY <1>5, <2>1, StoredLogs
  <2>3. bloom_add_logs({}, host.logs, result)
          = {} \cup UNION {LogBits(LogAt(host.logs, result, i)) : i \in 1 .. n}
    BY <1>2, <2>2, LogsAdd
  <2>4. {LogBits(LogAt(host.logs, result, i)) : i \in 1 .. n} = {LogBits(at(i)) : i \in ReceiptLogs}
    <3>1. ASSUME NEW j \in ReceiptLogs PROVE \E i \in 1 .. n : j = s + i
      <4>1. j - s \in 1 .. n /\ j = s + (j - s)
        BY <1>3
      <4> QED BY <4>1
    <3> HIDE DEF at
    <3> QED BY <2>1, <3>1
  <2> QED BY <2>3, <2>4
<1> DEFINE entries == UNION {{host.logs[i].address} \cup Range(host.logs[i].topics) : i \in ReceiptLogs}
           marks == UNION {{BitIndex(Hash[x], k) : k \in 1 .. 3} : x \in entries}
<1>7. \A x \in entries : x \in DOMAIN Hash
  BY <1>5, StoredLogs
<1>8. bits = {<<b \div 8, b % 8>> : b \in marks}
  BY DEF LogBits, HashBits
<1>9. \A b \in marks : b \in 0 .. 2047
  BY <1>7, BitRange
<1> HIDE DEF bits, marks, entries
<1>10. \A p \in bloom : p \in (0 .. 255) \X (0 .. 7)
  BY <1>1, BlockAssumption
<1>11. {<<255 - p[1], p[2]>> : p \in bloom} = {<<b \div 8, b % 8>> : b \in marks}
  BY <1>1, <1>6, <1>8
<1>12. ASSUME NEW p \in bloom PROVE p \in {<<255 - (b \div 8), b % 8>> : b \in marks}
  <2>1. PICK u \in 0 .. 255, v \in 0 .. 7 : p = <<u, v>>
    BY <1>10
  <2>2. <<255 - u, v>> \in {<<255 - q[1], q[2]>> : q \in bloom}
    BY <2>1
  <2>3. PICK b \in marks : <<255 - u, v>> = <<b \div 8, b % 8>>
    BY <1>11, <2>2
  <2>4. 255 - u = b \div 8 /\ v = b % 8
    BY <2>3
  <2>5. u = 255 - (b \div 8)
    BY <1>9, <2>4
  <2> QED BY <2>1, <2>4, <2>5
<1>13. ASSUME NEW b \in marks PROVE <<255 - (b \div 8), b % 8>> \in bloom
  <2>1. <<b \div 8, b % 8>> \in {<<255 - q[1], q[2]>> : q \in bloom}
    BY <1>11
  <2>2. PICK q \in bloom : <<b \div 8, b % 8>> = <<255 - q[1], q[2]>>
    BY <2>1
  <2>3. PICK u \in 0 .. 255, v \in 0 .. 7 : q = <<u, v>>
    BY <1>10
  <2>4. b \div 8 = 255 - u /\ b % 8 = v
    BY <2>2, <2>3
  <2>5. 255 - (b \div 8) = u
    BY <2>4
  <2> QED BY <2>3, <2>4, <2>5
<1>14. bloom = {<<255 - (b \div 8), b % 8>> : b \in marks}
  BY <1>12, <1>13
<1> QED BY <1>14 DEF BloomIsOfTheReceipts, marks, entries

(* The deposits of an accepted block.                                      *)
LEMMA DepositsProduced ==
    ASSUME BlockInv, outcome = "valid", At(Prague)
    PROVE  DepositsWereProduced
<1>1. PICK last \in Nat : last = result.start + result.count
  BY DEF BlockInv, ReceiptInv, Executed
<1>2. Tiled(last) /\ logs_start \in Nat
  BY <1>1 DEF BlockInv, ReceiptInv, Executed
<1>3. Answers(host.logs, logs_start, last, block.deposits, <<>>)
  BY <1>1 DEF BlockInv, DepositInv, Executed
<1>4. DepositEvents = Matching(host.logs, logs_start, last)
  BY <1>2 DEF DepositEvents, Matching, Tiled
<1>5. \A i \in DepositEvents : {j \in DepositEvents : j <= i} = Matching(host.logs, logs_start, i)
  BY <1>2, <1>4 DEF Matching
<1>6. Cardinality(DepositEvents) = Len(block.deposits)
  <2>1. PICK n \in Nat : n = Len(block.deposits)
    BY Numbers
  <2>2. PICK k \in Nat : k = Cardinality(DepositEvents)
    <3>1. logs_start <= last
      BY <1>2 DEF Tiled
    <3> QED BY <1>2, <1>4, <3>1, MatchingFacts
  <2>3. k <= n /\ <<>> = SubSeq(block.deposits, k + 1, n)
    BY <1>3, <1>4, <2>1, <2>2 DEF Answers
  <2>4. CASE k < n
    <3>1. Len(SubSeq(block.deposits, k + 1, n)) = n - k
      BY <2>1, <2>4, Numbers
    <3>2. Len(<<>>) = 0
      OBVIOUS
    <3> QED BY <2>3, <2>4, <3>1, <3>2
  <2> QED BY <2>1, <2>2, <2>3, <2>4
<1>7. \A i \in DepositEvents :
         host.logs[i].request = block.deposits[Cardinality({j \in DepositEvents : j <= i})]
  BY <1>3, <1>4, <1>5 DEF Answers
<1>8. \A i \in 2 .. Len(receipts) : receipts[i].start = receipts[i - 1].start + receipts[i - 1].count
  BY <1>2 DEF Tiled
<1> QED BY <1>6, <1>7, <1>8 DEF DepositsWereProduced

(* The request lists of an accepted block.                                 *)
LEMMA ListsProduced ==
    ASSUME BlockInv
    PROVE  AcceptedRequestsWereProduced
<1> SUFFICES ASSUME outcome = "valid", At(Prague) PROVE AcceptedRequestsWereProduced
  BY DEF AcceptedRequestsWereProduced
<1> DEFINE streams == IF At(Amsterdam) THEN 1 .. 4 ELSE 1 .. 2
           used == {1} \cup {i + 1 : i \in streams}
<1>1. DepositsWereProduced
  BY DepositsProduced
<1>2. \A i \in streams : block.streams[Streams[i]] = produced[Streams[i]]
  BY DEF BlockInv, StreamInv, RequestCount
<1>3. At(Paris) /\ ~(block.fork < Prague)
  BY Numbers DEF At, Paris, Prague
<1>4. block.requests_hash = Digests(RequestLists(block), 1 .. 5)
  BY <1>3 DEF BlockInv, VerdictInv, PayloadHash, execution_requests_hash, At
<1>5. used \subseteq 1 .. 5
  OBVIOUS
<1>6. \A i \in (1 .. 5) \ used : RequestLists(block)[i] = <<>>
  <2>1. CASE At(Amsterdam)
    <3>1. \A i \in 2 .. 5 : i - 1 \in streams /\ (i - 1) + 1 = i
      BY <2>1
    <3>2. 1 .. 5 \subseteq used
      BY <3>1
    <3> HIDE DEF used
    <3> QED BY <3>2
  <2>2. CASE ~At(Amsterdam)
    <3>1. block.streams[Streams[3]] = <<>> /\ block.streams[Streams[4]] = <<>>
      BY <2>2 DEF BlockInv, StreamInv
    <3>2. 1 \in streams /\ 2 \in streams
      BY <2>2
    <3>3. 1 \in used /\ 2 \in used /\ 3 \in used
      BY <3>2
    <3>4. \A i \in (1 .. 5) \ used : i = 4 \/ i = 5
      <4> HIDE DEF used
      <4> QED BY <3>3
    <3>5. RequestLists(block)[4] = block.streams[Streams[3]] /\ RequestLists(block)[5] = block.streams[Streams[4]]
      BY DEF RequestLists
    <3> QED BY <3>1, <3>4, <3>5
  <2> QED BY <2>1, <2>2
<1>7. Digests(RequestLists(block), 1 .. 5) = Digests(RequestLists(block), used)
  <2> DEFINE lists == RequestLists(block)
  <2>1. {j \in 1 .. 5 : lists[j] # <<>>} = {j \in used : lists[j] # <<>>}
    <3> HIDE DEF used, lists
    <3> QED BY <1>5, <1>6 DEF lists
  <2> HIDE DEF lists, used
  <2> QED BY <2>1 DEF Digests, lists
<1> QED BY <1>1, <1>2, <1>4, <1>7 DEF AcceptedRequestsWereProduced

-----------------------------------------------------------------------------
(* The theorems. *)

(* The invariant holds of every block: what its logs, its receipts, its    *)
(* deposits and its request streams are at every step of the validator.    *)
THEOREM BlockInvariant == BodySpec => []BlockInv
<1>1. BodyInit => BlockInv
  BY Begins
<1>2. BlockInv /\ [BodyNext]_body => BlockInv'
  <2> SUFFICES ASSUME BlockInv, [BodyNext]_body PROVE BlockInv'
    OBVIOUS
  <2>1. CASE PayloadAccepted \/ PayloadRefused
    BY <2>1, PayloadKeeps
  <2>2. CASE execute_block_body
    BY <2>2, BodyKeeps
  <2>3. CASE \E here \in {"beacon", "history"} : system_call(here)
    BY <2>3, SystemCallKeeps
  <2>4. CASE process_transaction
    BY <2>4, TransactionKeeps
  <2>5. CASE TransactionRefused
    <3>1. fatal_error("WitnessDeficient") \/ fatal_error("ExecutionInvalid")
      BY <2>5 DEF TransactionRefused
    <3> QED BY <3>1, FatalKeeps
  <2>6. CASE apply_block_end_state
    BY <2>6, EndStateKeeps
  <2>7. CASE validate_request_stream
    BY <2>7, StreamKeeps
  <2>8. CASE RequestsDone
    BY <2>8, RequestsKeep
  <2>9. CASE validate_executed_block
    BY <2>9, CheckKeeps
  <2>10. CASE UNCHANGED body
    BY <2>10, StutterKeeps
  <2>11. CASE Done
    BY <2>10, <2>11 DEF Done
  <2> QED BY <2>1, <2>2, <2>3, <2>4, <2>5, <2>6, <2>7, <2>8, <2>9, <2>10, <2>11 DEF BodyNext
<1> QED BY <1>1, <1>2, PTL DEF BodySpec

(* An accepted block's deposits are the deposit events of its receipts, in *)
(* order, its request streams what its transactions queued, and the block  *)
(* hash commits to these lists (validate_execution_requests).              *)
THEOREM RequestsAreProduced == BodySpec => []AcceptedRequestsWereProduced
<1>1. BlockInv => AcceptedRequestsWereProduced
  BY ListsProduced
<1> QED BY <1>1, BlockInvariant, PTL

(* An accepted block's bloom is that of its receipts, every frame that     *)
(* succeeded is merged in its own epoch, and warmth ends with the phase.   *)
THEOREM PhasesApart == BodySpec => []PhasesStayApart
<1>1. BlockInv => PhasesStayApart
  <2>1. BlockInv => EverySuccessIsMerged
    BY DEF BlockInv, MergeInv, EverySuccessIsMerged
  <2>2. BlockInv => WarmthIsOfThisPhase
    BY DEF BlockInv, HostInv, Warms, WarmthIsOfThisPhase
  <2> QED BY <2>1, <2>2, BloomOfTheReceipts DEF PhasesStayApart
<1> QED BY <1>1, BlockInvariant, PTL

-----------------------------------------------------------------------------
(* The headers below a block. *)

(* The hash of a chain's block is its number, and its parent the block     *)
(* before it.                                                              *)
ChainInv ==
    /\ \E S : chain \in Seq(S)
    /\ Len(chain) \in 1 .. MaxChain
    /\ \A i \in 1 .. Len(chain) :
          /\ chain[i].id = i /\ chain[i].parent = i - 1 /\ chain[i].root = i
          /\ chain[i].fields \in Nat /\ chain[i].fields > STATE_ROOT
          /\ {"id", "parent"} \subseteq DOMAIN chain[i]

(* What a hash says of a header: one that a block of the chain has is of   *)
(* that block.                                                             *)
Known(h) ==
    /\ h.id \in Nat \ {0} /\ h.parent \in 0 .. MaxChain
    /\ h.id <= MaxChain => h.id \in 1 .. Len(chain) /\ h = chain[h.id]

IsWitness(w) ==
    /\ \E S : w \in Seq(S)
    /\ Len(w) \in 0 .. Window
    /\ \A k \in 1 .. Len(w) : Known(w[k])

RequestInv ==
    /\ payload.number = Len(chain) + 1
    /\ payload.parent \in {Len(chain), ZERO_HASH}
    /\ IsWitness(witness)

(* The fields of WitnessHeaderIndex. *)
IndexNames == {"at", "previous", "valid", "parent_valid", "state_root",
               "base_fee", "blob", "excess"}

(* The walk has read a prefix of the witness, which hangs together if it   *)
(* was found valid, and filed its hashes by their distance from the end.   *)
IndexInv ==
    /\ DOMAIN index = IndexNames
    /\ index.at \in 0 .. Len(witness)
    /\ index.at # 0 => index.previous = witness[index.at].id
    /\ index.valid =>
         /\ Len(witness) > 0
         /\ \A k \in 2 .. index.at : witness[k].parent = witness[k - 1].id
    /\ index.at = Len(witness) /\ index.parent_valid =>
         /\ Len(witness) > 0 => index.state_root = witness[Len(witness)].root
    /\ \A k \in 1 .. index.at :
          Len(witness) - k < Window => ancestors[Len(witness) - k] = witness[k].id

Indexed ==
    /\ index.at = Len(witness) /\ index.valid /\ index.parent_valid
    /\ k_n_headers = Len(witness)

HeaderInv ==
    /\ ChainInv
    /\ phase = "chain" => answer.number = 0
    /\ phase # "chain" => RequestInv /\ IndexInv
    /\ phase \in {"validate", "execute"} => Indexed
    /\ phase = "execute" => index.previous = payload.parent
    /\ DOMAIN ancestors = 0 .. Window - 1
    /\ BlockhashIsTheAncestor

LEMMA FieldCounts ==
    ASSUME NEW f \in Forks
    PROVE  HeaderFieldCount(f) \in 15 .. 23
<1>1. f \in 5 .. 16
  BY HeaderChainAssumption DEF Berlin, Amsterdam
<1>2. \/ f = Berlin
      \/ f > Berlin /\ f < Shanghai
      \/ f = Shanghai
      \/ f = Cancun
      \/ f > Cancun /\ f < Amsterdam
      \/ f >= Amsterdam
  BY <1>1 DEF Berlin, Shanghai, Cancun, Amsterdam
<1> QED BY <1>1, <1>2 DEF HeaderFieldCount, Berlin, Shanghai, Cancun, Amsterdam

(* The next block has the next number for a hash.                          *)
LEMMA NextBlock ==
    ASSUME ChainInv, NEW b \in NextBlocks
    PROVE  /\ b.id = Len(chain) + 1 /\ b.parent = Len(chain) /\ b.root = Len(chain) + 1
           /\ b.fields \in Nat /\ b.fields > STATE_ROOT
           /\ {"id", "parent"} \subseteq DOMAIN b
<1>1. PICK f \in LaterForks : \E fee, blob, excess :
            b = Block(Len(chain) + 1, Parent.id, f, fee, blob, excess)
  BY DEF NextBlocks
<1>2. f \in Forks
  BY <1>1 DEF LaterForks
<1>3. Parent.id = Len(chain)
  BY DEF ChainInv, Parent
<1>4. /\ b.id = Len(chain) + 1 /\ b.parent = Parent.id /\ b.root = Len(chain) + 1
      /\ b.fields = HeaderFieldCount(f)
      /\ {"id", "parent"} \subseteq DOMAIN b
  BY <1>1 DEF Block
<1> QED BY <1>2, <1>3, <1>4, FieldCounts DEF STATE_ROOT

LEMMA OfTheChain ==
    ASSUME ChainInv, NEW i \in 1 .. Len(chain)
    PROVE  Known(chain[i])
<1>1. Len(chain) \in Nat /\ MaxChain \in Nat /\ Len(chain) <= MaxChain
  BY HeaderChainAssumption DEF ChainInv
<1>2. chain[i].id = i /\ chain[i].parent = i - 1
  BY DEF ChainInv
<1>3. i \in Nat \ {0} /\ i - 1 \in 0 .. MaxChain
  BY <1>1
<1> QED BY <1>2, <1>3 DEF Known

(* A piece of the chain is a witness, whole or damaged.                    *)
LEMMA SuffixFacts ==
    ASSUME ChainInv, NEW n \in 1 .. Len(chain)
    PROVE  /\ \E S : Suffix(n) \in Seq(S)
           /\ Len(Suffix(n)) = n
           /\ \A k \in 1 .. n : Suffix(n)[k] = chain[Len(chain) - n + k]
<1>1. PICK S : chain \in Seq(S)
  BY DEF ChainInv
<1>2. Len(chain) \in Nat
  BY <1>1
<1>3. Len(chain) - n + 1 \in 1 .. Len(chain) + 1 /\ Len(chain) \in Len(chain) - n + 1 - 1 .. Len(chain)
  BY <1>2
<1>4. /\ Suffix(n) \in Seq(S)
      /\ Len(Suffix(n)) = Len(chain) - (Len(chain) - n + 1) + 1
      /\ \A i \in 1 .. Len(chain) - (Len(chain) - n + 1) + 1 :
            Suffix(n)[i] = chain[Len(chain) - n + 1 + i - 1]
  BY <1>1, <1>3, SubSeqProperties DEF Suffix
<1>5. Len(chain) - (Len(chain) - n + 1) + 1 = n
  BY <1>2
<1>6. \A i \in 1 .. n : Len(chain) - n + 1 + i - 1 = Len(chain) - n + i
  BY <1>2
<1> QED BY <1>4, <1>5, <1>6

LEMMA EndLengths ==
    ASSUME ChainInv, NEW w \in ChainEnds
    PROVE  \E n \in 1 .. Len(chain) : n <= Window /\ w = Suffix(n)
<1>1. Len(chain) \in Nat /\ Window \in Nat
  BY HeaderChainAssumption DEF ChainInv
<1> QED BY <1>1 DEF ChainEnds

LEMMA EndsAreWitnesses ==
    ASSUME ChainInv, NEW w \in ChainEnds
    PROVE  IsWitness(w) /\ Len(w) > 0
<1>1. PICK n \in 1 .. Len(chain) : n <= Window /\ w = Suffix(n)
  BY EndLengths
<1>2. Len(chain) \in Nat
  BY DEF ChainInv
<1>3. Window \in Nat
  BY HeaderChainAssumption
<1>4. /\ \E S : w \in Seq(S)
      /\ Len(w) = n
      /\ \A k \in 1 .. n : w[k] = chain[Len(chain) - n + k]
  BY <1>1, SuffixFacts
<1>5. \A k \in 1 .. n : Len(chain) - n + k \in 1 .. Len(chain)
  BY <1>2
<1>6. \A k \in 1 .. n : Known(w[k])
  BY <1>4, <1>5, OfTheChain
<1> QED BY <1>1, <1>2, <1>3, <1>4, <1>6 DEF IsWitness

LEMMA ForgedIsKnown ==
    ASSUME ChainInv, NEW g, Known(g), g.id <= MaxChain, NEW h \in Forged(g)
    PROVE  Known(h)
<1>1. g.id \in Nat \ {0} /\ g.parent \in 0 .. MaxChain /\ MaxChain \in Nat
  BY HeaderChainAssumption DEF Known
<1>2. h.id \in {MaxChain + g.id, 2 * MaxChain + g.id, 3 * MaxChain + g.id} /\ h.parent = g.parent
  <2>1. {"id", "parent"} \subseteq DOMAIN g
    BY DEF Known, ChainInv
  <2> QED BY <2>1 DEF Forged
<1>3. h.id \in Nat \ {0} /\ ~(h.id <= MaxChain)
  BY <1>1, <1>2
<1> QED BY <1>1, <1>2, <1>3 DEF Known

LEMMA DamageIsAWitness ==
    ASSUME ChainInv, NEW s \in ChainEnds, NEW w \in Damaged(s)
    PROVE  IsWitness(w)
<1>1. IsWitness(s) /\ Len(s) > 0
  BY EndsAreWitnesses
<1>2. PICK S : s \in Seq(S)
  BY <1>1 DEF IsWitness
<1>3. Len(s) \in Nat /\ Window \in Nat /\ Len(s) <= Window
  BY <1>1, HeaderChainAssumption DEF IsWitness
<1>4. ASSUME NEW i \in 1 .. Len(s), w = Without(s, i) PROVE IsWitness(w)
  <2>1. ASSUME NEW j \in 1 .. Len(s) - 1
        PROVE  /\ (IF j < i THEN s[j] ELSE s[j + 1]) \in S
               /\ Known(IF j < i THEN s[j] ELSE s[j + 1])
    <3>1. j \in 1 .. Len(s) /\ j + 1 \in 1 .. Len(s)
      BY <1>3
    <3>2. s[j] \in S /\ s[j + 1] \in S /\ Known(s[j]) /\ Known(s[j + 1])
      BY <1>1, <1>2, <3>1 DEF IsWitness
    <3> QED BY <3>2
  <2>2. w = [j \in 1 .. Len(s) - 1 |-> IF j < i THEN s[j] ELSE s[j + 1]]
    BY <1>4 DEF Without
  <2>3. Len(s) - 1 \in Nat
    BY <1>1, <1>3
  <2>4. w \in Seq(S) /\ Len(w) = Len(s) - 1
    BY <2>1, <2>2, <2>3
  <2>5. \A j \in 1 .. Len(w) : Known(w[j])
    BY <2>1, <2>2, <2>4
  <2> QED BY <1>3, <2>3, <2>4, <2>5 DEF IsWitness
<1>5. ASSUME NEW i \in 1 .. Len(s), NEW h, Known(h), w = [s EXCEPT ![i] = h] PROVE IsWitness(w)
  <2>1. w \in Seq(S \cup {h}) /\ Len(w) = Len(s)
    BY <1>2, <1>5
  <2>2. \A j \in 1 .. Len(s) : w[j] = IF j = i THEN h ELSE s[j]
    BY <1>2, <1>5
  <2>3. \A j \in 1 .. Len(s) : Known(w[j])
    BY <1>1, <1>5, <2>2 DEF IsWitness
  <2> QED BY <1>1, <2>1, <2>3 DEF IsWitness
<1>6. CASE \E i \in 1 .. Len(s) : w = Without(s, i)
  BY <1>4, <1>6
<1>7. CASE \E i \in 1 .. Len(s), j \in 1 .. Len(s) : w = [s EXCEPT ![i] = s[j]]
  <2>1. \A j \in 1 .. Len(s) : Known(s[j])
    BY <1>1 DEF IsWitness
  <2> QED BY <1>5, <1>7, <2>1
<1>8. CASE \E i \in 1 .. Len(s) : \E h \in Forged(s[i]) : w = [s EXCEPT ![i] = h]
  <2>1. PICK i \in 1 .. Len(s) : \E h \in Forged(s[i]) : w = [s EXCEPT ![i] = h]
    BY <1>8
  <2>2. PICK h \in Forged(s[i]) : w = [s EXCEPT ![i] = h]
    BY <2>1
  <2>3. Known(s[i]) /\ s[i].id <= MaxChain
    <3>1. PICK n \in 1 .. Len(chain) : n <= Window /\ s = Suffix(n)
      BY EndLengths
    <3>2. Len(s) = n /\ s[i] = chain[Len(chain) - n + i]
      BY <3>1, SuffixFacts
    <3>3. Len(chain) - n + i \in 1 .. Len(chain) /\ Len(chain) <= MaxChain
      BY <3>2, HeaderChainAssumption DEF ChainInv
    <3>4. PICK x \in 1 .. Len(chain) : s[i] = chain[x] /\ x <= MaxChain
      <4>1. Len(chain) \in Nat /\ MaxChain \in Nat
        BY HeaderChainAssumption DEF ChainInv
      <4> QED BY <3>2, <3>3, <4>1
    <3>5. chain[x].id = x
      BY DEF ChainInv
    <3> QED BY <3>4, <3>5, OfTheChain
  <2>4. Known(h)
    BY <2>3, ForgedIsKnown
  <2> QED BY <1>5, <2>2, <2>4
<1> QED BY <1>6, <1>7, <1>8 DEF Damaged

(* Every request names the next block, and the newest block as its parent  *)
(* or none.                                                                *)
LEMMA RequestFacts ==
    ASSUME ChainInv, NEW p \in Honest \cup Dishonest
    PROVE  p.number = Len(chain) + 1 /\ p.parent \in {Len(chain), ZERO_HASH}
<1>1. ASSUME NEW b \in NextBlocks
      PROVE  /\ Request(b).number = Len(chain) + 1 /\ Request(b).parent = Len(chain)
             /\ {"excess", "blob", "parent", "gas_used", "expected_hash", "number"}
                    \subseteq DOMAIN Request(b)
  BY NextBlock DEF Request
<1>2. CASE p \in Honest
  BY <1>1, <1>2 DEF Honest
<1>3. CASE p \in Dishonest
  <2>1. PICK q \in Honest : p \in {[q EXCEPT !.excess = @ + 1], [q EXCEPT !.blob = @ + 1],
             [q EXCEPT !.parent = ZERO_HASH], [q EXCEPT !.gas_used = 2],
             [q EXCEPT !.expected_hash = ZERO_HASH]}
    BY <1>3 DEF Dishonest
  <2>2. /\ q.number = Len(chain) + 1 /\ q.parent = Len(chain)
        /\ {"excess", "blob", "parent", "gas_used", "expected_hash", "number"} \subseteq DOMAIN q
    BY <1>1 DEF Honest
  <2> QED BY <2>1, <2>2
<1> QED BY <1>2, <1>3

-----------------------------------------------------------------------------
(* The steps keep it. *)

LEMMA SubmitKeeps ==
    ASSUME HeaderInv, NEW p \in Honest \cup Dishonest, NEW w, IsWitness(w), Submit(p, w)
    PROVE  HeaderInv'
<1>1. /\ phase = "chain" /\ payload' = p /\ witness' = w /\ index' = EMPTY_INDEX(w)
      /\ chain' = chain /\ answer' = answer /\ ancestors' = ancestors
      /\ phase' \in {"index", "fatal"}
  BY DEF Submit
<1>2. ChainInv' /\ answer'.number = 0
  BY <1>1 DEF HeaderInv, ChainInv
<1>3. RequestInv'
  <2>1. IsWitness(w)'
    BY <1>1 DEF IsWitness, Known
  <2> QED BY <1>1, <2>1, RequestFacts DEF HeaderInv, RequestInv, IsWitness
<1>4. IndexInv'
  <2>1. /\ DOMAIN index' = IndexNames
        /\ index'.at = 0 /\ index'.valid = (w # <<>>) /\ ~index'.parent_valid
    BY <1>1 DEF EMPTY_INDEX, IndexNames
  <2>2. PICK S : w \in Seq(S)
    BY DEF IsWitness
  <2>3. Len(w) \in Nat /\ (w # <<>> => Len(w) > 0)
    BY <2>2
  <2>4. index'.at \in 0 .. Len(witness') /\ ~(index'.at # 0)
    BY <1>1, <2>1, <2>3
  <2>5. 2 .. index'.at = {} /\ 1 .. index'.at = {}
    BY <2>1
  <2> QED BY <1>1, <2>1, <2>3, <2>4, <2>5 DEF IndexInv
<1> QED BY <1>1, <1>2, <1>3, <1>4 DEF HeaderInv, BlockhashIsTheAncestor

LEMMA ExtendKeeps ==
    ASSUME HeaderInv, Len(chain) < MaxChain, NEW b \in NextBlocks, Extend(b)
    PROVE  HeaderInv'
<1>1. /\ phase = "chain" /\ phase' = "chain" /\ chain' = Append(chain, b)
      /\ answer' = answer /\ ancestors' = ancestors
  BY DEF Extend
<1>2. PICK S : chain \in Seq(S)
  BY DEF HeaderInv, ChainInv
<1>3. /\ chain' \in Seq(S \cup {b}) /\ Len(chain') = Len(chain) + 1 /\ Len(chain) \in Nat
      /\ \A i \in 1 .. Len(chain) : chain'[i] = chain[i]
      /\ chain'[Len(chain) + 1] = b
  BY <1>1, <1>2
<1>4. ChainInv'
  <2>1. Len(chain') \in 1 .. MaxChain
    BY <1>3, HeaderChainAssumption
  <2>2. ASSUME NEW i \in 1 .. Len(chain')
        PROVE  /\ chain'[i].id = i /\ chain'[i].parent = i - 1 /\ chain'[i].root = i
               /\ chain'[i].fields \in Nat /\ chain'[i].fields > STATE_ROOT
               /\ {"id", "parent"} \subseteq DOMAIN chain'[i]
    <3>1. CASE i = Len(chain) + 1
      <4>1. Len(chain) + 1 - 1 = Len(chain)
        BY <1>3
      <4> QED BY <1>3, <3>1, <4>1, NextBlock DEF HeaderInv
    <3>2. CASE i \in 1 .. Len(chain)
      BY <1>3, <3>2 DEF HeaderInv, ChainInv
    <3> QED BY <1>3, <3>1, <3>2
  <2> QED BY <1>3, <2>1, <2>2 DEF ChainInv
<1> QED BY <1>1, <1>4 DEF HeaderInv, BlockhashIsTheAncestor

LEMMA RefuseKeeps ==
    ASSUME HeaderInv, phase # "chain", NEW r, Refuse(r)
    PROVE  HeaderInv'
<1>1. /\ phase' = "fatal" /\ UNCHANGED <<chain, payload, witness, index, ancestors, answer>>
  BY DEF Refuse
<1>2. ChainInv' /\ BlockhashIsTheAncestor'
  BY <1>1 DEF HeaderInv, ChainInv, BlockhashIsTheAncestor
<1>3. RequestInv' /\ IndexInv'
  BY <1>1 DEF HeaderInv, RequestInv, IndexInv, IsWitness, Known
<1> QED BY <1>1, <1>2, <1>3 DEF HeaderInv

(* What one header leaves behind (index_witness_header_cursor).            *)
ReadIndex(i, header, last) ==
    LET linked == [i EXCEPT !.valid = @ /\ Linked(i, header)]
        context == IF last THEN ParentContext(linked, header) ELSE linked
    IN  [context EXCEPT !.at = @ + 1, !.previous = keccak256(header)]

LEMMA HeaderRead ==
    ASSUME NEW i, DOMAIN i = IndexNames, NEW header, NEW last \in BOOLEAN
    PROVE  LET next == ReadIndex(i, header, last)
           IN  /\ DOMAIN next = IndexNames
               /\ next.at = i.at + 1 /\ next.previous = header.id
               /\ next.valid = (i.valid /\ Linked(i, header))
               /\ last => /\ next.state_root = Fields(header, STATE_ROOT, header.root)
                          /\ next.parent_valid => Has(header, STATE_ROOT)
<1> DEFINE linked == [i EXCEPT !.valid = @ /\ Linked(i, header)]
           context == IF last THEN ParentContext(linked, header) ELSE linked
<1>1. /\ DOMAIN linked = IndexNames /\ linked.at = i.at
      /\ linked.valid = (i.valid /\ Linked(i, header))
  BY DEF IndexNames
<1>2. /\ DOMAIN context = IndexNames /\ context.at = i.at
      /\ context.valid = (i.valid /\ Linked(i, header))
      /\ last => /\ context.state_root = Fields(header, STATE_ROOT, header.root)
                 /\ context.parent_valid => Has(header, STATE_ROOT)
  <2>1. CASE last
    BY <1>1, <2>1 DEF ParentContext, IndexNames
  <2>2. CASE ~last
    BY <1>1, <2>2
  <2> QED BY <2>1, <2>2
<1> HIDE DEF linked, context
<1>3. ReadIndex(i, header, last) = [context EXCEPT !.at = @ + 1, !.previous = header.id]
  BY DEF ReadIndex, linked, context, keccak256
<1> QED BY <1>2, <1>3 DEF IndexNames

LEMMA CursorKeeps ==
    ASSUME HeaderInv, index_witness_header_cursor
    PROVE  HeaderInv'
<1> DEFINE header == witness[index.at + 1]
           last == index.at + 1 = Len(witness)
           read == index.at # 0 \/ last
           linked == [index EXCEPT !.valid = @ /\ Linked(index, header)]
           context == IF last THEN ParentContext(linked, header) ELSE linked
           distance == Len(witness) - (index.at + 1)
<1>1. phase = "index" /\ index.at < Len(witness)
  BY DEF index_witness_header_cursor
<1>2. ChainInv /\ RequestInv /\ IndexInv /\ phase # "chain"
  BY <1>1 DEF HeaderInv
<1>3. CASE Refuse(RlpDecode)
  BY <1>2, <1>3, RefuseKeeps
<1>4. CASE /\ index' = [context EXCEPT !.at = @ + 1, !.previous = keccak256(header)]
           /\ ancestors' = IF distance < Window
                           THEN [ancestors EXCEPT ![distance] = keccak256(header)]
                           ELSE ancestors
           /\ UNCHANGED <<chain, phase, reason, payload, witness, k_n_headers, answer>>
  <2>1. /\ UNCHANGED <<chain, phase, payload, witness, answer>>
        /\ ancestors' = IF distance < Window
                        THEN [ancestors EXCEPT ![distance] = header.id]
                        ELSE ancestors
    BY <1>4 DEF keccak256
  <2> HIDE DEF linked, context
  <2>2. /\ Len(witness) \in Nat /\ index.at \in Nat /\ index.at + 1 \in 1 .. Len(witness)
        /\ distance = Len(witness) - (index.at + 1) /\ Window \in Nat
    <3>1. Len(witness) \in 0 .. Window /\ index.at \in 0 .. Len(witness) /\ Window \in Nat
      BY <1>2, HeaderChainAssumption DEF IndexInv, RequestInv, IsWitness
    <3> QED BY <1>1, <3>1
  <2>3. /\ DOMAIN index' = IndexNames
        /\ index'.at = index.at + 1 /\ index'.previous = header.id
        /\ index'.valid = (index.valid /\ Linked(index, header))
        /\ last => /\ index'.state_root = Fields(header, STATE_ROOT, header.root)
                   /\ index'.parent_valid => Has(header, STATE_ROOT)
    <3>1. DOMAIN index = IndexNames
      BY <1>2 DEF IndexInv
    <3>2. last \in BOOLEAN
      OBVIOUS
    <3>3. index' = ReadIndex(index, header, last)
      BY <1>4 DEF ReadIndex, linked, context
    <3> HIDE DEF header, last, distance
    <3> QED BY <3>1, <3>2, <3>3, HeaderRead
  <2>4. ChainInv' /\ RequestInv' /\ BlockhashIsTheAncestor'
    <3> HIDE DEF header, distance
    <3>1. ChainInv' /\ BlockhashIsTheAncestor'
      BY <2>1 DEF HeaderInv, ChainInv, BlockhashIsTheAncestor
    <3>2. RequestInv'
      BY <1>2, <2>1 DEF RequestInv, IsWitness, Known
    <3> QED BY <3>1, <3>2
  <2>5. DOMAIN ancestors' = 0 .. Window - 1
    BY <2>1 DEF HeaderInv
  <2>6. index'.valid => /\ Len(witness) > 0
                        /\ \A k \in 2 .. index'.at : witness[k].parent = witness[k - 1].id
    <3> SUFFICES ASSUME index'.valid, NEW k \in 2 .. index.at + 1
                 PROVE  witness[k].parent = witness[k - 1].id
      BY <1>1, <2>2, <2>3
    <3>1. index.valid /\ Linked(index, header)
      BY <2>3
    <3>2. CASE k \in 2 .. index.at
      BY <1>2, <3>1, <3>2 DEF IndexInv
    <3>3. CASE k = index.at + 1
      <4>1. index.at # 0 /\ k - 1 = index.at
        BY <2>2, <3>3
      <4>2. header.parent = index.previous
        BY <3>1, <4>1 DEF Linked
      <4> QED BY <1>2, <3>3, <4>1, <4>2 DEF IndexInv
    <3> QED BY <2>2, <3>2, <3>3
  <2>7. index'.at = Len(witness) /\ index'.parent_valid =>
          index'.state_root = witness[Len(witness)].root
    BY <2>3 DEF Fields
  <2>8. ASSUME NEW k \in 1 .. index'.at, Len(witness) - k < Window
        PROVE  ancestors'[Len(witness) - k] = witness[k].id
    <3>1. k \in 1 .. index.at + 1 /\ k \in 1 .. Len(witness)
      BY <2>2, <2>3
    <3> HIDE DEF header, distance
    <3>2. PICK d \in 0 .. Window - 1 : d = Len(witness) - k
      <4> DEFINE d == Len(witness) - k
      <4>1. Len(witness) \in Nat /\ Window \in Nat /\ k \in Int /\ k <= Len(witness)
        BY <2>2, <3>1
      <4>2. d \in 0 .. Window - 1
        BY <2>8, <4>1
      <4> QED BY <4>2
    <3>3. CASE k = index.at + 1
      <4>1. d = distance /\ distance < Window /\ header = witness[k]
        BY <2>2, <3>2, <3>3 DEF header
      <4> QED BY <2>1, <3>2, <4>1 DEF HeaderInv
    <3>4. CASE k \in 1 .. index.at
      <4>1. d # distance
        BY <2>2, <3>2, <3>4
      <4>2. ancestors'[d] = ancestors[d]
        BY <2>1, <4>1 DEF HeaderInv
      <4> QED BY <1>2, <2>8, <3>2, <3>4, <4>2 DEF IndexInv
    <3> QED BY <2>2, <3>1, <3>3, <3>4
  <2>9. IndexInv'
    <3>1. index'.at \in 0 .. Len(witness')
      BY <2>1, <2>2, <2>3
    <3>2. index'.at # 0 => index'.previous = witness'[index'.at].id
      BY <2>1, <2>3
    <3> HIDE DEF header, last, distance
    <3> QED BY <2>1, <2>3, <2>6, <2>7, <2>8, <3>1, <3>2 DEF IndexInv
  <2> QED BY <1>1, <2>1, <2>4, <2>5, <2>9 DEF HeaderInv
<1> QED BY <1>3, <1>4 DEF index_witness_header_cursor

LEMMA HeadersKeep ==
    ASSUME HeaderInv, index_witness_headers
    PROVE  HeaderInv'
<1>1. /\ phase = "index" /\ index.at = Len(witness) /\ k_n_headers' = Len(witness)
      /\ UNCHANGED <<chain, payload, witness, index, ancestors, answer>>
      /\ phase' \in {"validate", "fatal"}
      /\ phase' = "validate" => reason' = NoReason
  BY DEF index_witness_headers
<1>2. phase' = "validate" => index.valid /\ index.parent_valid
  BY HeaderChainAssumption DEF index_witness_headers
<1>3. ChainInv' /\ RequestInv' /\ IndexInv' /\ BlockhashIsTheAncestor'
  BY <1>1 DEF HeaderInv, ChainInv, RequestInv, IndexInv, IsWitness, Known, BlockhashIsTheAncestor
<1> QED BY <1>1, <1>2, <1>3 DEF HeaderInv, Indexed

LEMMA ValidateKeeps ==
    ASSUME HeaderInv, validate_execution_payload
    PROVE  HeaderInv'
<1>1. /\ phase = "validate" /\ phase' \in {"execute", "fatal"}
      /\ UNCHANGED <<chain, payload, witness, index, ancestors, k_n_headers, answer>>
  BY DEF validate_execution_payload
<1>2. phase' = "execute" => index.previous = payload.parent
  BY HeaderChainAssumption DEF validate_execution_payload
<1>3. ChainInv' /\ RequestInv' /\ IndexInv' /\ Indexed' /\ BlockhashIsTheAncestor'
  BY <1>1 DEF HeaderInv, ChainInv, RequestInv, IndexInv, Indexed, IsWitness, Known, BlockhashIsTheAncestor
<1> QED BY <1>1, <1>2, <1>3 DEF HeaderInv

(* A witness that hangs together and ends in the parent named is the end   *)
(* of the chain: each hash names the block before the next one.            *)
LEMMA LinkedDown ==
    ASSUME HeaderInv, phase = "execute"
    PROVE  /\ Len(witness) \in 1 .. Len(chain) /\ Len(witness) <= Window
           /\ payload.parent = Len(chain)
           /\ \A k \in 1 .. Len(witness) :
                 witness[k] = chain[Len(chain) - Len(witness) + k]
<1> DEFINE n == Len(witness)
           S == {j \in 0 .. n - 1 : witness[n - j].id = Len(chain) - j}
<1>1. ChainInv /\ RequestInv /\ IndexInv /\ Indexed /\ index.previous = payload.parent
  BY DEF HeaderInv
<1>2. n \in Nat /\ n > 0 /\ n <= Window /\ Len(chain) \in Nat /\ Len(chain) <= MaxChain
  /\ Window \in Nat /\ MaxChain \in Nat
  BY <1>1, HeaderChainAssumption DEF ChainInv, RequestInv, IsWitness, IndexInv, Indexed
<1>3. \A k \in 1 .. n : Known(witness[k])
  BY <1>1 DEF RequestInv, IsWitness
<1>4. \A k \in 2 .. n : witness[k].parent = witness[k - 1].id
  BY <1>1 DEF IndexInv, Indexed
<1>5. witness[n].id = Len(chain) /\ payload.parent = Len(chain)
  <2>1. witness[n].id = payload.parent
    BY <1>1, <1>2 DEF IndexInv, Indexed
  <2>2. witness[n].id \in Nat \ {0}
    BY <1>2, <1>3 DEF Known
  <2> QED BY <1>1, <2>1, <2>2 DEF RequestInv, ZERO_HASH
<1> HIDE DEF n
<1>6. ASSUME NEW j \in 0 .. n - 1, witness[n - j].id = Len(chain) - j
      PROVE  /\ Len(chain) - j \in 1 .. Len(chain)
             /\ witness[n - j] = chain[Len(chain) - j]
             /\ j + 1 \in 0 .. n - 1 => witness[n - (j + 1)].id = Len(chain) - (j + 1)
  <2>1. PICK k \in 1 .. n : k = n - j
    BY <1>2
  <2>2. PICK i \in Int : i = Len(chain) - j
    BY <1>2
  <2>3. witness[k].id = i /\ i <= MaxChain
    BY <1>2, <1>6, <2>1, <2>2
  <2>4. i \in 1 .. Len(chain) /\ witness[k] = chain[i]
    BY <1>3, <2>3 DEF Known
  <2>5. chain[i].parent = i - 1
    BY <1>1, <2>4 DEF ChainInv
  <2>6. ASSUME j + 1 \in 0 .. n - 1 PROVE witness[n - (j + 1)].id = Len(chain) - (j + 1)
    <3>1. k \in 2 .. n /\ n - (j + 1) = k - 1 /\ Len(chain) - (j + 1) = i - 1
      BY <1>2, <2>1, <2>2, <2>6
    <3> QED BY <1>4, <2>4, <2>5, <3>1
  <2> QED BY <2>1, <2>2, <2>4, <2>6
<1>7. \A j \in 0 .. n - 1 : j \in S
  <2>1. 0 \in S
    BY <1>2, <1>5
  <2>2. \A j \in 0 .. (n - 1) - 1 : j \in S => j + 1 \in S
    <3> SUFFICES ASSUME NEW j \in 0 .. (n - 1) - 1, j \in S PROVE j + 1 \in S
      OBVIOUS
    <3>1. j \in 0 .. n - 1 /\ j + 1 \in 0 .. n - 1
      BY <1>2
    <3> QED BY <1>6, <3>1
  <2>3. n - 1 \in Nat
    BY <1>2
  <2> HIDE DEF S
  <2> QED BY <2>1, <2>2, <2>3, Climb
<1>8. ASSUME NEW k \in 1 .. n PROVE witness[k] = chain[Len(chain) - n + k]
  <2>1. PICK j \in 0 .. n - 1 : j = n - k
    BY <1>2
  <2>2. k = n - j /\ Len(chain) - n + k = Len(chain) - j
    BY <1>2, <2>1
  <2> QED BY <1>6, <1>7, <2>1, <2>2
<1>9. n \in 1 .. Len(chain)
  <2>1. n - 1 \in 0 .. n - 1
    BY <1>2
  <2>2. Len(chain) - (n - 1) \in 1 .. Len(chain)
    BY <1>6, <1>7, <2>1
  <2> QED BY <1>2, <2>2
<1> QED BY <1>2, <1>5, <1>8, <1>9 DEF n

(* The instruction finds the hash of the block it names.                   *)
LEMMA BlockhashKeeps ==
    ASSUME HeaderInv, NEW number \in 1 .. MaxChain + 1, k_blockhash(number)
    PROVE  HeaderInv'
<1> DEFINE distance == payload.number - number
<1>1. phase = "execute"
  BY DEF k_blockhash
<1>2. CASE Refuse(WitnessDeficient)
  BY <1>1, <1>2, RefuseKeeps
<1>3. CASE /\ ~(number < payload.number /\ distance <= Window /\ k_n_headers < distance)
           /\ answer' = [number |-> number,
                         hash |-> IF number < payload.number /\ distance <= Window
                                  THEN ancestors[distance - 1] ELSE ZERO_HASH]
           /\ UNCHANGED <<chain, phase, reason, payload, witness, index, ancestors, k_n_headers>>
  <2>1. ChainInv /\ RequestInv /\ IndexInv /\ Indexed
    BY <1>1 DEF HeaderInv
  <2>2. /\ payload.number = Len(chain) + 1 /\ Len(chain) \in Nat /\ number \in Nat \ {0}
        /\ Window \in Nat /\ Len(witness) \in Nat /\ k_n_headers = Len(witness)
        /\ index.at = Len(witness)
    <3>1. Len(chain) \in Nat /\ payload.number = Len(chain) + 1
      BY <2>1 DEF ChainInv, RequestInv
    <3>2. Len(witness) \in 0 .. Window /\ Window \in Nat
      BY <2>1, HeaderChainAssumption DEF RequestInv, IsWitness
    <3>3. k_n_headers = Len(witness) /\ index.at = Len(witness)
      BY <2>1 DEF Indexed
    <3> QED BY <3>1, <3>2, <3>3
  <2>3. ASSUME number < payload.number, distance <= Window
        PROVE  ancestors[distance - 1] = chain[number].id
    <3>1. /\ number \in 1 .. Len(chain) /\ distance \in 1 .. Len(witness)
          /\ distance = Len(chain) + 1 - number
      BY <1>3, <2>2, <2>3
    <3>2. PICK k \in 1 .. Len(witness) : k = Len(witness) - (distance - 1)
      <4> HIDE DEF distance
      <4> DEFINE k == Len(witness) - (distance - 1)
      <4>1. Len(witness) \in Nat
        BY <2>2
      <4>2. k \in 1 .. Len(witness)
        BY <3>1, <4>1
      <4> QED BY <4>2
    <3>3. Len(witness) - k = distance - 1 /\ distance - 1 < Window
          /\ Len(chain) - Len(witness) + k = number
      BY <2>2, <2>3, <3>1, <3>2
    <3>4. ancestors[distance - 1] = witness[k].id
      BY <2>1, <2>2, <3>3 DEF IndexInv
    <3>5. witness[k] = chain[number]
      BY <1>1, <3>3, LinkedDown
    <3> QED BY <3>4, <3>5
  <2>4. BlockhashIsTheAncestor'
    BY <1>3, <2>3 DEF BlockhashIsTheAncestor
  <2>5. ChainInv' /\ RequestInv' /\ IndexInv' /\ Indexed'
    BY <1>3, <2>1 DEF ChainInv, RequestInv, IndexInv, Indexed, IsWitness, Known
  <2> QED BY <1>1, <1>3, <2>4, <2>5 DEF HeaderInv
<1> QED BY <1>2, <1>3 DEF k_blockhash

LEMMA HeadersStart == HeaderInit => HeaderInv
<1> SUFFICES ASSUME HeaderInit PROVE HeaderInv
  OBVIOUS
<1>1. /\ phase = "chain" /\ answer.number = 0
      /\ ancestors = [d \in 0 .. Window - 1 |-> ZERO_HASH]
  BY DEF HeaderInit, HeadersUnread
<1>2. PICK f \in Forks : \E fee, blob, excess : chain = <<Block(1, ZERO_HASH, f, fee, blob, excess)>>
  BY DEF HeaderInit
<1>3. PICK b : chain = <<b>> /\ \E fee, blob, excess : b = Block(1, ZERO_HASH, f, fee, blob, excess)
  BY <1>2
<1>4. /\ b.id = 1 /\ b.parent = 0 /\ b.root = 1 /\ b.fields = HeaderFieldCount(f)
      /\ {"id", "parent"} \subseteq DOMAIN b
  BY <1>3 DEF Block, ZERO_HASH
<1>5. b.fields \in Nat /\ b.fields > STATE_ROOT
  BY <1>4, FieldCounts DEF STATE_ROOT
<1>6. chain \in Seq({b}) /\ Len(chain) = 1 /\ chain[1] = b
  BY <1>3
<1>7. ChainInv
  <2>1. 1 \in 1 .. MaxChain /\ 1 .. 1 = {1} /\ 1 - 1 = 0
    BY HeaderChainAssumption
  <2> QED BY <1>4, <1>5, <1>6, <2>1 DEF ChainInv
<1> QED BY <1>1, <1>7 DEF HeaderInv, BlockhashIsTheAncestor
-----------------------------------------------------------------------------
(* The invariant holds of every chain and every witness: what the walk     *)
(* over the headers has read, and what it filed (index_witness_headers).   *)
THEOREM HeaderInvariant == HeaderSpec => []HeaderInv
<1>1. HeaderInv /\ [HeaderNext]_below => HeaderInv'
  <2> SUFFICES ASSUME HeaderInv, [HeaderNext]_below PROVE HeaderInv'
    OBVIOUS
  <2>1. CASE Len(chain) < MaxChain /\ \E b \in NextBlocks : Extend(b)
    BY <2>1, ExtendKeeps
  <2>2. CASE \E p \in Honest : \E w \in ChainEnds \cup UNION {Damaged(s) : s \in ChainEnds} :
                Submit(p, w)
    <3>1. PICK p \in Honest, w \in ChainEnds \cup UNION {Damaged(s) : s \in ChainEnds} : Submit(p, w)
      BY <2>2
    <3>2. ChainInv
      BY DEF HeaderInv
    <3>3. w \in ChainEnds \/ \E s \in ChainEnds : w \in Damaged(s)
      OBVIOUS
    <3>4. IsWitness(w)
      BY <3>2, <3>3, EndsAreWitnesses, DamageIsAWitness
    <3> QED BY <3>1, <3>4, SubmitKeeps
  <2>3. CASE \E p \in Dishonest : \E w \in ChainEnds : Submit(p, w)
    <3>1. PICK p \in Dishonest, w \in ChainEnds : Submit(p, w)
      BY <2>3
    <3>2. IsWitness(w)
      BY EndsAreWitnesses DEF HeaderInv
    <3> QED BY <3>1, <3>2, SubmitKeeps
  <2>4. CASE index_witness_header_cursor
    BY <2>4, CursorKeeps
  <2>5. CASE index_witness_headers
    BY <2>5, HeadersKeep
  <2>6. CASE validate_execution_payload
    BY <2>6, ValidateKeeps
  <2>7. CASE \E n \in 1 .. MaxChain + 1 : k_blockhash(n)
    BY <2>7, BlockhashKeeps
  <2>8. CASE Ended \/ UNCHANGED below
    <3>1. UNCHANGED below
      BY <2>8 DEF Ended
    <3>2. ChainInv' = ChainInv /\ RequestInv' = RequestInv /\ IndexInv' = IndexInv /\ Indexed' = Indexed
      BY <3>1 DEF below, ChainInv, RequestInv, IndexInv, Indexed, IsWitness, Known
    <3> QED BY <3>1, <3>2 DEF below, HeaderInv, BlockhashIsTheAncestor
  <2> QED BY <2>1, <2>2, <2>3, <2>4, <2>5, <2>6, <2>7, <2>8 DEF HeaderNext
<1> QED BY <1>1, HeadersStart, PTL DEF HeaderSpec

(* Only a piece of the chain itself is accepted for a witness, execution   *)
(* starts from the state of the true parent, and BLOCKHASH answers from    *)
(* the chain, for every chain, window and list of headers with the damage  *)
(* modelled (index_witness_headers, validate_execution_payload,            *)
(* k_blockhash).                                                           *)
THEOREM WitnessOfTheChain == HeaderSpec => [](AcceptedIsOfTheChain /\ BlockhashIsTheAncestor)
<1>1. HeaderInv => AcceptedIsOfTheChain
  <2> SUFFICES ASSUME HeaderInv, phase = "execute"
               PROVE  witness \in ChainEnds /\ index.state_root = Parent.root
    BY DEF AcceptedIsOfTheChain
  <2> DEFINE n == Len(witness)
  <2>1. /\ n \in 1 .. Len(chain) /\ n <= Window
        /\ \A k \in 1 .. n : witness[k] = chain[Len(chain) - n + k]
    BY LinkedDown
  <2>2. ChainInv /\ RequestInv /\ IndexInv /\ Indexed /\ Len(chain) \in Nat /\ Window \in Nat
    BY HeaderChainAssumption DEF HeaderInv, ChainInv
  <2>3. witness = Suffix(n)
    <3>1. PICK S, T : witness \in Seq(S) /\ Suffix(n) \in Seq(T)
      BY <2>1, <2>2, SuffixFacts DEF RequestInv, IsWitness
    <3>2. Len(Suffix(n)) = n /\ \A k \in 1 .. n : Suffix(n)[k] = witness[k]
      BY <2>1, <2>2, SuffixFacts
    <3>3. witness = [k \in 1 .. n |-> witness[k]]
      BY <3>1
    <3>4. Suffix(n) = [k \in 1 .. Len(Suffix(n)) |-> Suffix(n)[k]]
      BY <3>1
    <3> QED BY <3>2, <3>3, <3>4
  <2>4. witness \in ChainEnds
    BY <2>1, <2>2, <2>3 DEF ChainEnds
  <2>5. index.state_root = Parent.root
    <3>1. Len(chain) - n + n = Len(chain) /\ n \in 1 .. n
      BY <2>1, <2>2
    <3>2. witness[n] = Parent
      BY <2>1, <3>1 DEF Parent
    <3> QED BY <2>1, <2>2, <3>1, <3>2 DEF IndexInv, Indexed
  <2> QED BY <2>4, <2>5
<1>2. HeaderInv => BlockhashIsTheAncestor
  BY DEF HeaderInv
<1> QED BY <1>1, <1>2, HeaderInvariant, PTL
=============================================================================
