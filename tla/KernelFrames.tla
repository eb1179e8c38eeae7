---------------------------- MODULE KernelFrames ----------------------------
(***************************************************************************)
(* KernelState with a memory of its own: `saved` and `marks` record, for   *)
(* every open frame, the tables at its checkpoint and the place of its     *)
(* marker in the journal.  They only watch the journal (no guard reads     *)
(* them); with them the journal is shown to implement FrameSnapshots.      *)
(***************************************************************************)
EXTENDS KernelState

VARIABLES
  saved,  \* the tables at the checkpoint of every open frame
  marks   \* the journal position of every open frame's marker

fvars == <<vars, saved, marks>>

Front(s) == SubSeq(s, 1, Len(s) - 1)
Top(s)   == s[Len(s)]

FInit == Init /\ saved = <<>> /\ marks = <<>>

FCheckpoint ==
  /\ state_journal_checkpoint
  /\ saved' = Append(saved, tables)
  /\ marks' = Append(marks, Len(jrn) + 1)

FClose(close) ==
  /\ close
  /\ saved' = Front(saved)
  /\ marks' = Front(marks)

FNext ==
  \/ Mutate /\ UNCHANGED <<saved, marks>>
  \/ FCheckpoint
  \/ FClose(state_journal_commit)
  \/ state_journal_revert /\ UNCHANGED <<saved, marks>>
  \/ journal_revert_to /\ UNCHANGED <<saved, marks>>
  \/ FClose(state_journal_revert_done)
  \/ k_tx_reset /\ UNCHANGED <<saved, marks>>

FSpec == FInit /\ [][FNext]_fvars
FFairSpec ==
  /\ FSpec
  /\ WF_fvars(journal_revert_to /\ UNCHANGED <<saved, marks>>)
  /\ WF_fvars(FClose(state_journal_revert_done))

----------------------------------------------------------------------------
(* The journal, with its flat stream and its counted markers, is a stack   *)
(* of snapshots: state_journal_revert gives back exactly the tables of the *)
(* innermost open checkpoint, whatever was committed inside it.            *)
Snapshots == INSTANCE FrameSnapshots WITH live <- tables, reverting <- ~Idle
RefinesSnapshots == Snapshots!Spec

(* state_journal_current_frame_marker finds the marker of the innermost    *)
(* frame that is still open, and finds none exactly when no frame is.      *)
MarkerIsInnermost ==
  Idle => /\ InFrame <=> marks # <<>>
          /\ InFrame => state_journal_current_frame_marker(jrn) = Top(marks)

(* The ranges of the log records tile the topic and data arenas: a record  *)
(* begins where the one before it ends, and the last one ends where the    *)
(* arena does, so logs_revert_last can cut the arenas at the offsets of    *)
(* the record it removes.                                                  *)
LogArenasTiled ==
  /\ \A i \in 1 .. Len(logs) :
       /\ logs[i].topic_off + logs[i].topic_cnt =
            IF i < Len(logs) THEN logs[i + 1].topic_off ELSE Len(log_topics)
       /\ logs[i].data_off + logs[i].data_len =
            IF i < Len(logs) THEN logs[i + 1].data_off ELSE Len(log_data)
  /\ logs # <<>> => logs[1].topic_off = 0 /\ logs[1].data_off = 0
  /\ logs = <<>> => log_topics = <<>> /\ log_data = <<>>

(* A revert of this transaction's frames never cuts into the records an    *)
(* earlier transaction of the block left for its receipt.                  *)
EarlierLogsKept == tx_log_start <= Len(logs)

(* A revert that has begun replaying comes to its end. *)
RevertCompletes == (target # 0) ~> (target = 0)
----------------------------------------------------------------------------
Saved == (SUBSET Addr) \X (SUBSET Key) \X [Key -> Word]
           \X Seq(LogRecord) \X Seq(Word) \X Seq(Word)

(***************************************************************************)
(* Why the properties hold: an inductive invariant.  A range of the        *)
(* journal is balanced when its commits close exactly its checkpoints and  *)
(* none of them is left open: nothing in it can be taken for the marker of *)
(* an open frame.                                                          *)
(***************************************************************************)
Balanced(s, lo, hi) ==
  /\ Closed(s, lo, hi) = 0
  /\ \A q \in (lo + 1) .. hi : s[q].tag = "FRAME_CHECKPOINT" => Closed(s, q, hi) > 0

Floor(m, i) == IF i = 0 THEN 0 ELSE m[i]

(* The open frames' markers are in the journal in the order they were      *)
(* opened, with only balanced ranges between them.                         *)
Chain(s, m) ==
  /\ \A i \in 1 .. Len(m) :
       /\ m[i] \in 1 .. Len(s)
       /\ s[m[i]].tag = "FRAME_CHECKPOINT"
       /\ Floor(m, i - 1) < m[i]
       /\ Balanced(s, Floor(m, i - 1), m[i] - 1)
  /\ \A i, j \in 1 .. Len(m) : i < j => m[i] < m[j]

FramesNest ==
  /\ marks \in Seq(Nat) /\ saved \in Seq(Saved) /\ Len(saved) = Len(marks)
  /\ Chain(jrn, marks)
  /\ Idle => Balanced(jrn, Floor(marks, Len(marks)), Len(jrn))
  /\ ~Idle => marks # <<>> /\ target = Top(marks)

(* The log records of the block are the earlier transactions' and one for  *)
(* each LOG entry of the journal; their arena offsets never decrease.      *)
LogsJournalled ==
  /\ Len(logs) = tx_log_start + Count(jrn, "LOG", 0, Len(jrn))
  /\ \A i \in 1 .. Len(logs) :
       logs[i].topic_off <= Len(log_topics) /\ logs[i].data_off <= Len(log_data)
  /\ \A i, j \in 1 .. Len(logs) : i <= j =>
       logs[i].topic_off <= logs[j].topic_off /\ logs[i].data_off <= logs[j].data_off

(* The entries above position p, inverted newest first, lead from the      *)
(* present tables to sv: warm marks they made are dropped, a transient key *)
(* gets the prior value of the first entry about it, logs are cut.         *)
WarmedAbove(a, p) == \E q \in (p + 1) .. Len(jrn) : jrn[q].tag = "WARMA" /\ jrn[q].addr = a
WarmedSlotAbove(k, p) == \E q \in (p + 1) .. Len(jrn) : jrn[q].tag = "WARMS" /\ jrn[q].key = k
WritesKey(q, k) == jrn[q].tag = "TRAN" /\ jrn[q].key = k
LogsBelow(p) == Len(logs) - Count(jrn, "LOG", p, Len(jrn))
TopicEnd(m) == IF m = Len(logs) THEN Len(log_topics) ELSE logs[m + 1].topic_off
DataEnd(m) == IF m = Len(logs) THEN Len(log_data) ELSE logs[m + 1].data_off

TransientBefore(p, old) ==
  /\ old \in [Key -> Word]
  /\ \A k \in Key :
       /\ (\A q \in (p + 1) .. Len(jrn) : ~WritesKey(q, k)) => old[k] = transient[k]
       /\ \A q \in (p + 1) .. Len(jrn) :
            WritesKey(q, k) /\ (\A r \in (p + 1) .. (q - 1) : ~WritesKey(r, k)) =>
              old[k] = jrn[q].prior

Undoes(p, sv) ==
  /\ sv = << {a \in warm_addr : ~WarmedAbove(a, p)},
             {k \in warm_slot : ~WarmedSlotAbove(k, p)},
             sv[3],
             SubSeq(logs, 1, LogsBelow(p)),
             SubSeq(log_topics, 1, TopicEnd(LogsBelow(p))),
             SubSeq(log_data, 1, DataEnd(LogsBelow(p))) >>
  /\ TransientBefore(p, sv[3])

FramesUndo == \A i \in 1 .. Len(marks) : Undoes(marks[i], saved[i])

IInv == TypeOK /\ FramesNest /\ LogsJournalled /\ FramesUndo
=============================================================================
