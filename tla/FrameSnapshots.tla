--------------------------- MODULE FrameSnapshots ---------------------------
(***************************************************************************)
(* What the journal promises its callers (sail/host/journal.sail, val      *)
(* state_journal_checkpoint, state_journal_revert, state_journal_commit):  *)
(* call frames nest, a frame that fails leaves the state it was entered    *)
(* with, and a frame that succeeds leaves its effects to its parent, which *)
(* can still undo them.  No journal appears here: every open frame simply  *)
(* owns a copy of the state at its entry.                                  *)
(***************************************************************************)
EXTENDS Naturals, Sequences

VARIABLES
  live,      \* the state the interpreter sees
  saved,     \* the state at the entry of every open frame, outermost first
  reverting  \* a revert of the innermost frame is under way

Outer == SubSeq(saved, 1, Len(saved) - 1)

(* An operation of a frame, or a part of the work of a revert: what it does *)
(* to the live state is left open, the snapshots are out of its reach.      *)
Work == UNCHANGED <<saved, reverting>>

Checkpoint ==
  /\ ~reverting
  /\ saved' = Append(saved, live)
  /\ UNCHANGED <<live, reverting>>

Commit ==
  /\ ~reverting /\ saved # <<>>
  /\ saved' = Outer
  /\ UNCHANGED <<live, reverting>>

BeginRevert ==
  /\ ~reverting /\ saved # <<>>
  /\ reverting' = TRUE
  /\ UNCHANGED <<live, saved>>

(* The one way a revert ends: with the snapshot of the frame it reverts. *)
EndRevert ==
  /\ reverting
  /\ live' = saved[Len(saved)]
  /\ saved' = Outer
  /\ reverting' = FALSE

Init == saved = <<>> /\ reverting = FALSE
Next == Work \/ Checkpoint \/ Commit \/ BeginRevert \/ EndRevert
Spec == Init /\ [][Next]_<<live, saved, reverting>>
=============================================================================
