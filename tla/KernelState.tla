---------------------------- MODULE KernelState ----------------------------
(***************************************************************************)
(* The execution-time kernel collections of the specification C host       *)
(* (extractions/c/spec/contract/kernel_state.c and transient_storage.c):   *)
(* the EIP-2929 warm sets, EIP-1153 transient storage, the LOG series with *)
(* its topic and data arenas, and the private undo journal `jrn` that      *)
(* brings them back to a call frame's checkpoint.                          *)
(*                                                                         *)
(* The journal is one flat stream.  A checkpoint and a commit are markers  *)
(* in it; a commit removes nothing, so that an enclosing frame can still   *)
(* undo what its committed children did.  A revert looks for the innermost *)
(* checkpoint no commit has closed and pops entries, newest first, until   *)
(* that marker is on top.                                                  *)
(***************************************************************************)
EXTENDS Naturals, Integers, Sequences, FiniteSets

CONSTANTS
  Addr,        \* account addresses
  Slot,        \* storage slots
  Word,        \* 256-bit words: transient values and log topics
  Zero,        \* the word zero
  TopicLists,  \* the topic operands a LOG instruction may carry
  DataLists,   \* the data payloads a LOG instruction may carry
  MaxJournal,  \* bound on the entries the journal may hold
  MaxLogs      \* bound on the log records kept for the block

ASSUME ZeroAssumption == Zero \in Word
ASSUME PayloadAssumption == TopicLists \subseteq Seq(Word) /\ DataLists \subseteq Seq(Word)
ASSUME BoundAssumption == MaxJournal \in Nat /\ MaxLogs \in Nat

VARIABLES
  warm_addr,     \* the accessed addresses
  warm_slot,     \* the accessed (address, slot) pairs
  transient,     \* the total map of transient words, zero when absent
  logs,          \* log records, each naming its range in the two arenas
  log_topics,    \* topic arena, cut at topics_n
  log_data,      \* data arena, cut at data_n
  tx_log_start,  \* first record of the current transaction
  jrn,           \* the undo journal
  target         \* position of the marker being reverted to, 0 when idle

tables == <<warm_addr, warm_slot, transient, logs, log_topics, log_data>>
vars   == <<tables, tx_log_start, jrn, target>>

Key == Addr \X Slot

(***************************************************************************)
(* Journal entries: the tags of kernel_state.c that this module's tables   *)
(* push.  An entry carries what its inverse needs and nothing else.        *)
(***************************************************************************)
TransientEntry(k, prior) == [tag |-> "TRAN", key |-> k, prior |-> prior]
WarmAddrEntry(a)         == [tag |-> "WARMA", addr |-> a]
WarmSlotEntry(k)         == [tag |-> "WARMS", key |-> k]
LogEntry                 == [tag |-> "LOG"]
CheckpointEntry          == [tag |-> "FRAME_CHECKPOINT"]
CommitEntry              == [tag |-> "FRAME_COMMIT"]

Entry ==
  [tag : {"TRAN"}, key : Key, prior : Word]
    \union [tag : {"WARMA"}, addr : Addr]
    \union [tag : {"WARMS"}, key : Key]
    \union [tag : {"LOG", "FRAME_CHECKPOINT", "FRAME_COMMIT"}]

LogRecord == [addr : Addr, topic_off : Nat, topic_cnt : Nat,
              data_off : Nat, data_len : Nat]

TypeOK ==
  /\ warm_addr \in SUBSET Addr
  /\ warm_slot \in SUBSET Key
  /\ transient \in [Key -> Word]
  /\ logs \in Seq(LogRecord)
  /\ log_topics \in Seq(Word)
  /\ log_data \in Seq(Word)
  /\ tx_log_start \in Nat
  /\ jrn \in Seq(Entry)
  /\ target \in 0 .. Len(jrn)

(***************************************************************************)
(* Committed checkpoints are found by counting: scanning back from the end *)
(* `closed` is the number of commits not yet paired with a checkpoint, so  *)
(* the scan stops at the last checkpoint behind which the two are equal.   *)
(***************************************************************************)
Positions(s, tag, lo, hi) == {i \in (lo + 1) .. hi : s[i].tag = tag}
Count(s, tag, lo, hi) == Cardinality(Positions(s, tag, lo, hi))

(* Commits less checkpoints among the entries after lo, up to hi. *)
Closed(s, lo, hi) == Count(s, "FRAME_COMMIT", lo, hi) - Count(s, "FRAME_CHECKPOINT", lo, hi)

OpenCheckpoints(s) ==
  {i \in 1 .. Len(s) : s[i].tag = "FRAME_CHECKPOINT" /\ Closed(s, i, Len(s)) = 0}

(* Mutant: the scan forgets to pair commits with checkpoints. *)
MutNearestCheckpoint(s) ==
  CHOOSE i \in 1 .. Len(s) :
    /\ s[i].tag = "FRAME_CHECKPOINT"
    /\ \A j \in (i + 1) .. Len(s) : s[j].tag # "FRAME_CHECKPOINT"

state_journal_current_frame_marker(s) ==
  CHOOSE i \in OpenCheckpoints(s) : \A j \in OpenCheckpoints(s) : j <= i

InFrame == OpenCheckpoints(jrn) # {}

----------------------------------------------------------------------------
(* Operations of the interpreter.  None runs while a revert is replaying. *)

Idle == target = 0
Room == Len(jrn) < MaxJournal

account_mark_warm(a) ==
  /\ Idle /\ Room
  /\ a \notin warm_addr
  /\ jrn' = Append(jrn, WarmAddrEntry(a))
  /\ warm_addr' = warm_addr \union {a}
  /\ UNCHANGED <<warm_slot, transient, logs, log_topics, log_data, tx_log_start, target>>

storage_mark_warm(k) ==
  /\ Idle /\ Room
  /\ k \notin warm_slot
  /\ jrn' = Append(jrn, WarmSlotEntry(k))
  /\ warm_slot' = warm_slot \union {k}
  /\ UNCHANGED <<warm_addr, transient, logs, log_topics, log_data, tx_log_start, target>>

(* Mutant: the prior value is looked up after the write. *)
MutTransientPriorLate(k, v) ==
  /\ Idle /\ Room
  /\ jrn' = Append(jrn, TransientEntry(k, v))
  /\ transient' = [transient EXCEPT ![k] = v]
  /\ UNCHANGED <<warm_addr, warm_slot, logs, log_topics, log_data, tx_log_start, target>>

(* The prior value is read before the write, and is pushed even when the   *)
(* write changes nothing.                                                  *)
transient_storage_write(k, v) ==
  /\ Idle /\ Room
  /\ jrn' = Append(jrn, TransientEntry(k, transient[k]))
  /\ transient' = [transient EXCEPT ![k] = v]
  /\ UNCHANGED <<warm_addr, warm_slot, logs, log_topics, log_data, tx_log_start, target>>

(* log_begin, log_add_topic and log_add_data in the one order k_log uses:  *)
(* the record is journalled before its payload reaches the arenas.         *)
k_log(a, topics, data) ==
  /\ Idle /\ Room /\ Len(logs) < MaxLogs
  /\ jrn' = Append(jrn, LogEntry)
  /\ logs' = Append(logs, [addr |-> a,
                           topic_off |-> Len(log_topics), topic_cnt |-> Len(topics),
                           data_off |-> Len(log_data), data_len |-> Len(data)])
  /\ log_topics' = log_topics \o topics
  /\ log_data' = log_data \o data
  /\ UNCHANGED <<warm_addr, warm_slot, transient, tx_log_start, target>>

state_journal_checkpoint ==
  /\ Idle /\ Room
  /\ jrn' = Append(jrn, CheckpointEntry)
  /\ UNCHANGED <<tables, tx_log_start, target>>

(* journal_require_open_frame aborts the process when no frame is open. *)
state_journal_commit ==
  /\ Idle /\ Room /\ InFrame
  /\ jrn' = Append(jrn, CommitEntry)
  /\ UNCHANGED <<tables, tx_log_start, target>>

state_journal_revert ==
  /\ Idle /\ InFrame
  /\ target' = state_journal_current_frame_marker(jrn)
  /\ UNCHANGED <<tables, tx_log_start, jrn>>

(***************************************************************************)
(* One turn of the loop in journal_revert_to: the newest entry is popped   *)
(* and inverted.  Markers of committed children carry no state.            *)
(***************************************************************************)
(* Mutant: the data arena keeps the payload of the removed record. *)
MutDataArenaKept ==
  LET removed == logs[Len(logs)] IN
  /\ logs # <<>>
  /\ logs' = SubSeq(logs, 1, Len(logs) - 1)
  /\ log_topics' = SubSeq(log_topics, 1, removed.topic_off)
  /\ UNCHANGED log_data

logs_revert_last ==
  LET removed == logs[Len(logs)] IN
  /\ logs # <<>>
  /\ logs' = SubSeq(logs, 1, Len(logs) - 1)
  /\ log_topics' = SubSeq(log_topics, 1, removed.topic_off)
  /\ log_data' = SubSeq(log_data, 1, removed.data_off)

Invert(e) ==
  CASE e.tag = "TRAN" ->
         /\ transient' = [transient EXCEPT ![e.key] = e.prior]
         /\ UNCHANGED <<warm_addr, warm_slot, logs, log_topics, log_data>>
    [] e.tag = "WARMA" ->
         /\ warm_addr' = warm_addr \ {e.addr}
         /\ UNCHANGED <<warm_slot, transient, logs, log_topics, log_data>>
    [] e.tag = "WARMS" ->
         /\ e.key \in warm_slot
         /\ warm_slot' = warm_slot \ {e.key}
         /\ UNCHANGED <<warm_addr, transient, logs, log_topics, log_data>>
    [] e.tag = "LOG" ->
         /\ logs_revert_last
         /\ UNCHANGED <<warm_addr, warm_slot, transient>>
    [] OTHER -> UNCHANGED tables

(* Mutant: a marker is skipped without being popped. *)
MutMarkerNotPopped ==
  /\ ~Idle
  /\ Len(jrn) > target
  /\ Invert(jrn[Len(jrn)])
  /\ jrn' = IF jrn[Len(jrn)].tag \in {"FRAME_CHECKPOINT", "FRAME_COMMIT"}
            THEN jrn ELSE SubSeq(jrn, 1, Len(jrn) - 1)
  /\ UNCHANGED <<tx_log_start, target>>

journal_revert_to ==
  /\ ~Idle
  /\ Len(jrn) > target
  /\ Invert(jrn[Len(jrn)])
  /\ jrn' = SubSeq(jrn, 1, Len(jrn) - 1)
  /\ UNCHANGED <<tx_log_start, target>>

(* Mutant: the revert is never marked as over. *)
MutTargetKept ==
  /\ ~Idle
  /\ Len(jrn) = target
  /\ jrn[target].tag = "FRAME_CHECKPOINT"
  /\ jrn' = SubSeq(jrn, 1, target - 1)
  /\ UNCHANGED <<tables, tx_log_start, target>>

(* The loop is over: state_journal_revert drops the marker itself. *)
state_journal_revert_done ==
  /\ ~Idle
  /\ Len(jrn) = target
  /\ jrn[target].tag = "FRAME_CHECKPOINT"
  /\ jrn' = SubSeq(jrn, 1, target - 1)
  /\ target' = 0
  /\ UNCHANGED <<tables, tx_log_start>>

(* Mutant: the start of the transaction's logs taken from the wrong count. *)
MutStartFromTopics ==
  /\ Idle /\ ~InFrame
  /\ warm_addr' = {}
  /\ warm_slot' = {}
  /\ transient' = [k \in Key |-> Zero]
  /\ tx_log_start' = Len(log_topics)
  /\ jrn' = <<>>
  /\ UNCHANGED <<logs, log_topics, log_data, target>>

(* k_tx_reset: warm_reset, transient_reset, logs_tx_reset and              *)
(* state_journal_reset.  The driver calls it between transactions, when    *)
(* every frame has been committed or reverted.                             *)
k_tx_reset ==
  /\ Idle /\ ~InFrame
  /\ warm_addr' = {}
  /\ warm_slot' = {}
  /\ transient' = [k \in Key |-> Zero]
  /\ tx_log_start' = Len(logs)
  /\ jrn' = <<>>
  /\ UNCHANGED <<logs, log_topics, log_data, target>>

----------------------------------------------------------------------------
Init ==
  /\ warm_addr = {}
  /\ warm_slot = {}
  /\ transient = [k \in Key |-> Zero]
  /\ logs = <<>> /\ log_topics = <<>> /\ log_data = <<>>
  /\ tx_log_start = 0
  /\ jrn = <<>>
  /\ target = 0

Mutate ==
  \/ \E a \in Addr : account_mark_warm(a)
  \/ \E k \in Key : storage_mark_warm(k)
  \/ \E k \in Key, v \in Word : transient_storage_write(k, v)
  \/ \E a \in Addr, t \in TopicLists, d \in DataLists : k_log(a, t, d)

Next ==
  \/ Mutate
  \/ state_journal_checkpoint
  \/ state_journal_commit
  \/ state_journal_revert
  \/ journal_revert_to
  \/ state_journal_revert_done
  \/ k_tx_reset

(* The revert loop is straight-line code: once entered it runs to its end. *)
Fairness == WF_vars(journal_revert_to) /\ WF_vars(state_journal_revert_done)

Spec == Init /\ [][Next]_vars
FairSpec == Spec /\ Fairness
=============================================================================
