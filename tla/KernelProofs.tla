---------------------------- MODULE KernelProofs ----------------------------
(***************************************************************************)
(* Proofs about the kernel journal, for every set of addresses, slots and  *)
(* words and every bound: type correctness, that a revert is directed at   *)
(* the innermost open frame, that the log arenas stay tiled, and that the  *)
(* journal implements the stack of snapshots its callers were promised.    *)
(* All of it follows from the inductive invariant IInv of KernelFrames.    *)
(***************************************************************************)
EXTENDS KernelFrames, FiniteSetTheorems, TLAPS

-----------------------------------------------------------------------------
(* Counting the markers in a range of the journal, and what pushing or     *)
(* popping one entry does to the count.                                    *)

(* The number of entries of one tag in a range is a natural number. *)
LEMMA CountType ==
  ASSUME NEW s, NEW t, NEW lo \in Nat, NEW hi \in Nat
  PROVE  /\ IsFiniteSet(Positions(s, t, lo, hi))
         /\ Count(s, t, lo, hi) \in Nat
<1>1. IsFiniteSet((lo + 1) .. hi)
  BY FS_Interval
<1>2. Positions(s, t, lo, hi) \in SUBSET ((lo + 1) .. hi)
  BY DEF Positions
<1>3. IsFiniteSet(Positions(s, t, lo, hi))
  BY <1>1, <1>2, FS_Subset
<1> QED
  BY <1>3, FS_CardinalityType DEF Count

(* Counting is additive over adjacent ranges. *)
LEMMA CountSplit ==
  ASSUME NEW s, NEW t, NEW lo \in Nat, NEW mid \in Nat, NEW hi \in Nat,
         lo <= mid, mid <= hi
  PROVE  Count(s, t, lo, hi) = Count(s, t, lo, mid) + Count(s, t, mid, hi)
<1> DEFINE A == Positions(s, t, lo, mid)
           B == Positions(s, t, mid, hi)
<1>1. Positions(s, t, lo, hi) = A \cup B
  BY DEF Positions
<1>2. A \cap B = {}
  BY DEF Positions
<1>3. IsFiniteSet(A) /\ IsFiniteSet(B)
  BY CountType
<1>4. Cardinality(A) \in Nat /\ Cardinality(B) \in Nat
  BY <1>3, FS_CardinalityType
<1>5. Cardinality(A \cup B) = Cardinality(A) + Cardinality(B) - Cardinality({})
  BY <1>2, <1>3, FS_Union
<1> HIDE DEF A, B
<1>6. Cardinality(A \cup B) = Cardinality(A) + Cardinality(B)
  BY <1>4, <1>5, FS_EmptySet
<1> QED
  BY <1>1, <1>6 DEF Count, A, B

(* An empty range holds no entry, and a range of one entry holds that one. *)
LEMMA CountOne ==
  ASSUME NEW s, NEW t, NEW p \in Nat
  PROVE  /\ Count(s, t, p, p) = 0
         /\ Count(s, t, p, p + 1) = IF s[p + 1].tag = t THEN 1 ELSE 0
<1>1. Positions(s, t, p, p) = {}
  BY DEF Positions
<1>2. Positions(s, t, p, p + 1) = IF s[p + 1].tag = t THEN {p + 1} ELSE {}
  BY DEF Positions
<1> QED
  BY <1>1, <1>2, FS_EmptySet, FS_Singleton DEF Count

(* Two streams that agree on a range have the same positions in it. *)
LEMMA CountAgree ==
  ASSUME NEW s, NEW r, NEW t, NEW lo \in Nat, NEW hi \in Nat,
         \A i \in (lo + 1) .. hi : s[i] = r[i]
  PROVE  /\ Positions(s, t, lo, hi) = Positions(r, t, lo, hi)
         /\ Count(s, t, lo, hi) = Count(r, t, lo, hi)
BY DEF Positions, Count

(* The net count of commits over checkpoints, from the same facts. *)
LEMMA ClosedFacts ==
  ASSUME NEW s, NEW lo \in Nat
  PROVE  /\ \A hi \in Nat : Closed(s, lo, hi) \in Int
         /\ \A mid, hi \in Nat : lo <= mid /\ mid <= hi =>
              Closed(s, lo, hi) = Closed(s, lo, mid) + Closed(s, mid, hi)
         /\ Closed(s, lo, lo) = 0
         /\ s[lo + 1].tag = "FRAME_COMMIT" => Closed(s, lo, lo + 1) = 1
         /\ s[lo + 1].tag = "FRAME_CHECKPOINT" => Closed(s, lo, lo + 1) = -1
         /\ s[lo + 1].tag \notin {"FRAME_COMMIT", "FRAME_CHECKPOINT"} =>
              Closed(s, lo, lo + 1) = 0
<1>1. \A hi \in Nat : Closed(s, lo, hi) \in Int
  BY CountType DEF Closed
<1>2. ASSUME NEW mid \in Nat, NEW hi \in Nat, lo <= mid, mid <= hi
      PROVE  Closed(s, lo, hi) = Closed(s, lo, mid) + Closed(s, mid, hi)
  <2>1. /\ Count(s, "FRAME_COMMIT", lo, hi) =
             Count(s, "FRAME_COMMIT", lo, mid) + Count(s, "FRAME_COMMIT", mid, hi)
        /\ Count(s, "FRAME_CHECKPOINT", lo, hi) =
             Count(s, "FRAME_CHECKPOINT", lo, mid) + Count(s, "FRAME_CHECKPOINT", mid, hi)
    BY <1>2, CountSplit
  <2>2. /\ Count(s, "FRAME_COMMIT", lo, mid) \in Nat
        /\ Count(s, "FRAME_COMMIT", mid, hi) \in Nat
        /\ Count(s, "FRAME_CHECKPOINT", lo, mid) \in Nat
        /\ Count(s, "FRAME_CHECKPOINT", mid, hi) \in Nat
    BY CountType
  <2> QED
    BY <2>1, <2>2 DEF Closed
<1>3. /\ Count(s, "FRAME_COMMIT", lo, lo) = 0
      /\ Count(s, "FRAME_CHECKPOINT", lo, lo) = 0
      /\ Count(s, "FRAME_COMMIT", lo, lo + 1) = IF s[lo + 1].tag = "FRAME_COMMIT" THEN 1 ELSE 0
      /\ Count(s, "FRAME_CHECKPOINT", lo, lo + 1) =
           IF s[lo + 1].tag = "FRAME_CHECKPOINT" THEN 1 ELSE 0
  BY CountOne
<1>4. /\ Closed(s, lo, lo) = 0
      /\ s[lo + 1].tag = "FRAME_COMMIT" => Closed(s, lo, lo + 1) = 1
      /\ s[lo + 1].tag = "FRAME_CHECKPOINT" => Closed(s, lo, lo + 1) = -1
      /\ s[lo + 1].tag \notin {"FRAME_COMMIT", "FRAME_CHECKPOINT"} =>
           Closed(s, lo, lo + 1) = 0
  BY <1>3 DEF Closed
<1> QED
  BY <1>1, <1>2, <1>4
(* The split once more, in the form most proofs use it. *)
LEMMA ClosedSplit ==
  ASSUME NEW s, NEW lo \in Nat, NEW mid \in Nat, NEW hi \in Nat, lo <= mid, mid <= hi
  PROVE  /\ Closed(s, lo, hi) = Closed(s, lo, mid) + Closed(s, mid, hi)
         /\ Closed(s, lo, mid) \in Int /\ Closed(s, mid, hi) \in Int
BY ClosedFacts

----------------------------------------------------------------------------
(* A range does not depend on what the journal holds elsewhere. *)
LEMMA RangeAgree ==
  ASSUME NEW s, NEW r, NEW lo \in Nat, NEW hi \in Nat,
         \A i \in (lo + 1) .. hi : s[i] = r[i]
  PROVE  /\ Closed(s, lo, hi) = Closed(r, lo, hi)
         /\ Balanced(s, lo, hi) <=> Balanced(r, lo, hi)
<1>1. ASSUME NEW p \in lo .. hi
      PROVE  Closed(s, p, hi) = Closed(r, p, hi)
  <2>1. p \in Nat /\ \A i \in (p + 1) .. hi : s[i] = r[i]
    OBVIOUS
  <2> QED
    BY <2>1, CountAgree DEF Closed
<1>2. Closed(s, lo, hi) = Closed(r, lo, hi)
  <2>1. CASE lo <= hi
    BY <1>1, <2>1
  <2>2. CASE ~(lo <= hi)
    BY CountAgree DEF Closed
  <2> QED
    BY <2>1, <2>2
<1>3. \A q \in (lo + 1) .. hi : s[q] = r[q] /\ Closed(s, q, hi) = Closed(r, q, hi)
  BY <1>1
<1> QED
  BY <1>2, <1>3 DEF Balanced

(* The empty range is balanced. *)
LEMMA BalancedEmpty ==
  ASSUME NEW s, NEW lo \in Nat
  PROVE  Balanced(s, lo, lo)
BY ClosedFacts DEF Balanced

(* An entry that is no marker keeps a range balanced. *)
LEMMA BalancedPlain ==
  ASSUME NEW s, NEW lo \in Nat, NEW hi \in Nat, lo <= hi, Balanced(s, lo, hi),
         s[hi + 1].tag \notin {"FRAME_COMMIT", "FRAME_CHECKPOINT"}
  PROVE  Balanced(s, lo, hi + 1)
<1>1. ASSUME NEW p \in lo .. hi
      PROVE  Closed(s, p, hi + 1) = Closed(s, p, hi)
  <2>0. p \in Nat /\ p <= hi /\ hi + 1 \in Nat /\ hi <= hi + 1
    OBVIOUS
  <2>1. Closed(s, p, hi + 1) = Closed(s, p, hi) + Closed(s, hi, hi + 1)
    BY <2>0, ClosedSplit
  <2>2. Closed(s, hi, hi + 1) = 0 /\ Closed(s, p, hi) \in Int
    BY <2>0, ClosedFacts
  <2> QED
    BY <2>1, <2>2
<1>2. Closed(s, lo, hi + 1) = 0
  BY <1>1 DEF Balanced
<1>3. ASSUME NEW q \in (lo + 1) .. (hi + 1), s[q].tag = "FRAME_CHECKPOINT"
      PROVE  Closed(s, q, hi + 1) > 0
  <2>1. q \in (lo + 1) .. hi
    BY <1>3
  <2> QED
    BY <1>1, <1>3, <2>1 DEF Balanced
<1> QED
  BY <1>2, <1>3 DEF Balanced

(* A commit closes the frame whose marker is at p: the frame's range, its  *)
(* marker and the range below it become one balanced range.                *)
LEMMA BalancedCommit ==
  ASSUME NEW s, NEW lo \in Nat, NEW p \in Nat, NEW hi \in Nat, lo < p, p <= hi,
         Balanced(s, lo, p - 1), Balanced(s, p, hi),
         s[p].tag = "FRAME_CHECKPOINT", s[hi + 1].tag = "FRAME_COMMIT"
  PROVE  Balanced(s, lo, hi + 1)
<1> DEFINE m == p - 1
<1>1. m \in Nat /\ m + 1 = p /\ lo <= m
  OBVIOUS
<1> HIDE DEF m
<1>2. Closed(s, m, p) = -1 /\ Closed(s, hi, hi + 1) = 1
  BY <1>1, ClosedFacts
<1>3. Closed(s, p, hi + 1) = 1
  <2>1. Closed(s, p, hi + 1) = Closed(s, p, hi) + Closed(s, hi, hi + 1)
    <3>1. hi + 1 \in Nat /\ hi <= hi + 1
      OBVIOUS
    <3> QED
      BY <3>1, ClosedSplit
  <2> QED
    BY <2>1, <1>2 DEF Balanced
<1>4. Closed(s, m, hi + 1) = 0
  <2>1. Closed(s, m, hi + 1) = Closed(s, m, p) + Closed(s, p, hi + 1)
    <3>1. m <= p /\ p <= hi + 1 /\ hi + 1 \in Nat
      BY <1>1
    <3> QED
      BY <3>1, <1>1, ClosedSplit
  <2> QED
    BY <2>1, <1>2, <1>3
<1>5. ASSUME NEW q \in lo .. m
      PROVE  Closed(s, q, hi + 1) = Closed(s, q, m)
  <2>0. q \in Nat /\ q <= m /\ m <= hi + 1 /\ hi + 1 \in Nat
    BY <1>1
  <2>1. Closed(s, q, hi + 1) = Closed(s, q, m) + Closed(s, m, hi + 1)
    BY <2>0, <1>1, ClosedSplit
  <2>2. Closed(s, q, m) \in Int
    BY <2>0, <1>1, ClosedSplit
  <2> QED
    BY <2>1, <2>2, <1>4
<1>6. Closed(s, lo, hi + 1) = 0
  BY <1>1, <1>5 DEF Balanced, m
<1>7. ASSUME NEW q \in (lo + 1) .. (hi + 1), s[q].tag = "FRAME_CHECKPOINT"
      PROVE  Closed(s, q, hi + 1) > 0
  <2>1. CASE q \in (lo + 1) .. m
    BY <1>1, <1>5, <1>7, <2>1 DEF Balanced, m
  <2>2. CASE q = p
    BY <1>3, <2>2
  <2>3. CASE q \in (p + 1) .. hi
    <3>0. q \in Nat /\ q <= hi /\ hi + 1 \in Nat
      BY <2>3
    <3>1. Closed(s, q, hi + 1) = Closed(s, q, hi) + Closed(s, hi, hi + 1)
      BY <3>0, ClosedSplit
    <3>2. Closed(s, q, hi) > 0
      BY <1>7, <2>3 DEF Balanced
    <3>3. Closed(s, q, hi) \in Int
      BY <3>0, ClosedSplit
    <3> QED
      BY <3>1, <3>2, <3>3, <1>2
  <2>4. q # hi + 1
    BY <1>7
  <2> QED
    BY <1>1, <2>1, <2>2, <2>3, <2>4
<1> QED
  BY <1>6, <1>7 DEF Balanced

(* With a balanced range above it, a checkpoint is the marker the scan of  *)
(* state_journal_current_frame_marker stops at.                            *)
LEMMA BalancedMarker ==
  ASSUME NEW s, Len(s) \in Nat, NEW p \in 1 .. Len(s), Balanced(s, p, Len(s)),
         s[p].tag = "FRAME_CHECKPOINT"
  PROVE  /\ OpenCheckpoints(s) # {}
         /\ state_journal_current_frame_marker(s) = p
<1>1. p \in OpenCheckpoints(s)
  BY DEF OpenCheckpoints, Balanced
<1>2. \A j \in OpenCheckpoints(s) : j <= p
  BY DEF OpenCheckpoints, Balanced
<1>3. \A i \in OpenCheckpoints(s) : i \in Nat
  BY DEF OpenCheckpoints
<1>4. \A i \in OpenCheckpoints(s) : (\A j \in OpenCheckpoints(s) : j <= i) => i = p
  BY <1>1, <1>2, <1>3
<1> HIDE DEF OpenCheckpoints
<1> QED
  BY <1>1, <1>2, <1>4 DEF state_journal_current_frame_marker

(* A journal that is balanced as a whole has no open frame. *)
LEMMA BalancedNone ==
  ASSUME NEW s, Len(s) \in Nat, Balanced(s, 0, Len(s))
  PROVE  OpenCheckpoints(s) = {}
BY DEF OpenCheckpoints, Balanced

-----------------------------------------------------------------------------

(* What Append and SubSeq do to the entries of a sequence. *)
LEMMA Pushed ==
  ASSUME NEW T, NEW s \in Seq(T), NEW e \in T
  PROVE  /\ Append(s, e) \in Seq(T)
         /\ Len(Append(s, e)) = Len(s) + 1
         /\ \A i \in 1 .. Len(s) : Append(s, e)[i] = s[i]
         /\ Append(s, e)[Len(s) + 1] = e
OBVIOUS

LEMMA Cut ==
  ASSUME NEW T, NEW s \in Seq(T), NEW n \in 0 .. Len(s)
  PROVE  /\ SubSeq(s, 1, n) \in Seq(T)
         /\ Len(SubSeq(s, 1, n)) = n
         /\ \A i \in 1 .. n : SubSeq(s, 1, n)[i] = s[i]
OBVIOUS

(* Cutting a sequence twice, or a prolonged one, is cutting it once. *)
LEMMA CutCut ==
  ASSUME NEW T, NEW s \in Seq(T), NEW n \in 0 .. Len(s), NEW m \in 0 .. n
  PROVE  SubSeq(SubSeq(s, 1, n), 1, m) = SubSeq(s, 1, m)
OBVIOUS

LEMMA CutAppend ==
  ASSUME NEW T, NEW s \in Seq(T), NEW e \in T, NEW n \in 0 .. Len(s)
  PROVE  SubSeq(Append(s, e), 1, n) = SubSeq(s, 1, n)
OBVIOUS

LEMMA CutConcat ==
  ASSUME NEW T, NEW s \in Seq(T), NEW r \in Seq(T), NEW n \in 0 .. Len(s)
  PROVE  SubSeq(s \o r, 1, n) = SubSeq(s, 1, n)
OBVIOUS

LEMMA CutAll ==
  ASSUME NEW T, NEW s \in Seq(T)
  PROVE  SubSeq(s, 1, Len(s)) = s
OBVIOUS

(* The fields the inverse of an entry reads. *)
LEMMA EntryFields ==
  ASSUME NEW e \in Entry
  PROVE  /\ e.tag = "TRAN" => e.key \in Key /\ e.prior \in Word
         /\ e.tag = "WARMA" => e.addr \in Addr
         /\ e.tag = "WARMS" => e.key \in Key
         /\ e.tag \in {"TRAN", "WARMA", "WARMS", "LOG", "FRAME_CHECKPOINT", "FRAME_COMMIT"}
BY DEF Entry

LEMMA RecordFields ==
  ASSUME NEW r \in LogRecord
  PROVE  r.topic_off \in Nat /\ r.data_off \in Nat /\ r.topic_cnt \in Nat /\ r.data_len \in Nat
BY DEF LogRecord

(* A sequence that is not empty, without its last element. *)
LEMMA Popped ==
  ASSUME NEW T, NEW s \in Seq(T), Len(s) > 0
  PROVE  /\ Front(s) \in Seq(T) /\ Len(Front(s)) = Len(s) - 1 /\ Top(s) \in T
         /\ \A i \in 1 .. (Len(s) - 1) : Front(s)[i] = s[i]
<1>1. Len(s) - 1 \in 0 .. Len(s) /\ Len(s) \in 1 .. Len(s)
  OBVIOUS
<1>2. /\ Front(s) \in Seq(T) /\ Len(Front(s)) = Len(s) - 1
      /\ \A i \in 1 .. (Len(s) - 1) : Front(s)[i] = s[i]
  BY <1>1, Cut DEF Front
<1>3. Top(s) \in T
  BY <1>1 DEF Top
<1> QED
  BY <1>2, <1>3

(* Two stacks of equal height that are popped together. *)
LEMMA FrontAgree ==
  ASSUME NEW T, NEW U, NEW s \in Seq(T), NEW r \in Seq(U), Len(s) = Len(r), s # <<>>
  PROVE  \A i \in 1 .. Len(Front(s)) :
           i \in 1 .. Len(s) /\ Front(s)[i] = s[i] /\ Front(r)[i] = r[i] /\ i < Len(s)
<1>1. Len(s) > 0 /\ Len(r) > 0
  OBVIOUS
<1>2. Len(Front(s)) = Len(s) - 1 /\ \A i \in 1 .. (Len(s) - 1) : Front(s)[i] = s[i] /\ Front(r)[i] = r[i]
  BY <1>1, Popped
<1> QED
  BY <1>1, <1>2

(* Pushing one entry counts it; popping it uncounts it. *)
LEMMA PushCount ==
  ASSUME NEW s \in Seq(Entry), NEW e \in Entry, NEW t, NEW p \in 0 .. Len(s)
  PROVE  Count(Append(s, e), t, p, Len(s) + 1) =
           Count(s, t, p, Len(s)) + IF e.tag = t THEN 1 ELSE 0
<1> DEFINE r == Append(s, e)
           n == Len(s)
<1>1. n \in Nat /\ n + 1 \in Nat /\ p \in Nat /\ p <= n /\ n <= n + 1
  OBVIOUS
<1>2. r[n + 1] = e /\ \A i \in (p + 1) .. n : r[i] = s[i]
  OBVIOUS
<1> HIDE DEF r, n
<1>3. Count(r, t, p, n + 1) = Count(r, t, p, n) + Count(r, t, n, n + 1)
  BY <1>1, CountSplit
<1>4. Count(r, t, p, n) = Count(s, t, p, n)
  BY <1>1, <1>2, CountAgree
<1>5. Count(r, t, n, n + 1) = IF e.tag = t THEN 1 ELSE 0
  BY <1>1, <1>2, CountOne
<1> QED
  BY <1>3, <1>4, <1>5 DEF r, n

LEMMA PopCount ==
  ASSUME NEW s \in Seq(Entry), NEW t, NEW p \in Nat, p < Len(s)
  PROVE  Count(s, t, p, Len(s)) =
           Count(Front(s), t, p, Len(s) - 1) + IF Top(s).tag = t THEN 1 ELSE 0
<1> DEFINE n == Len(s) - 1
           f == Front(s)
<1>1. n \in Nat /\ n + 1 \in Nat /\ p <= n /\ n <= n + 1 /\ n + 1 = Len(s)
  OBVIOUS
<1>2. \A i \in (p + 1) .. n : f[i] = s[i]
  BY DEF Front
<1> HIDE DEF n, f
<1>3. Count(s, t, p, n + 1) = Count(s, t, p, n) + Count(s, t, n, n + 1)
  BY <1>1, CountSplit
<1>4. Count(f, t, p, n) = Count(s, t, p, n)
  <2>1. Positions(f, t, p, n) = Positions(s, t, p, n)
    BY <1>2 DEF Positions
  <2> QED
    BY <2>1 DEF Count
<1>5. Count(s, t, n, n + 1) = IF s[n + 1].tag = t THEN 1 ELSE 0
  BY <1>1, CountOne
<1> QED
  BY <1>1, <1>3, <1>4, <1>5 DEF n, f, Top

----------------------------------------------------------------------------
(* The chain of markers depends on the journal up to the last of them. *)
LEMMA ChainAgree ==
  ASSUME NEW s \in Seq(Entry), NEW r \in Seq(Entry), NEW m \in Seq(Nat), Chain(s, m),
         m # <<>> => /\ m[Len(m)] <= Len(r)
                     /\ \A i \in 1 .. m[Len(m)] : r[i] = s[i]
  PROVE  Chain(r, m)
<1>1. ASSUME NEW i \in 1 .. Len(m)
      PROVE  /\ m[i] \in 1 .. Len(r)
             /\ r[m[i]].tag = "FRAME_CHECKPOINT"
             /\ Floor(m, i - 1) < m[i]
             /\ Balanced(r, Floor(m, i - 1), m[i] - 1)
  <2>1. m[i] \in 1 .. Len(s) /\ m[i] <= m[Len(m)] /\ m # <<>>
    <3>1. Len(m) \in Nat /\ i \in Nat /\ Len(m) \in 1 .. Len(m) /\ m # <<>>
      OBVIOUS
    <3>2. m[i] \in 1 .. Len(s) /\ m[Len(m)] \in 1 .. Len(s)
      BY <3>1 DEF Chain
    <3>3. i < Len(m) => m[i] < m[Len(m)]
      BY <3>1 DEF Chain
    <3>4. i = Len(m) \/ i < Len(m)
      BY <3>1
    <3> QED
      BY <3>1, <3>2, <3>3, <3>4
  <2>2. Floor(m, i - 1) \in Nat /\ Floor(m, i - 1) < m[i] /\ m[i] - 1 \in Nat
    BY DEF Chain, Floor
  <2>3. \A j \in (Floor(m, i - 1) + 1) .. (m[i] - 1) : r[j] = s[j]
    BY <2>1, <2>2
  <2>4. Balanced(s, Floor(m, i - 1), m[i] - 1) /\ s[m[i]].tag = "FRAME_CHECKPOINT"
    BY DEF Chain
  <2>5. Balanced(r, Floor(m, i - 1), m[i] - 1)
    BY <2>2, <2>3, <2>4, RangeAgree
  <2>6. r[m[i]] = s[m[i]] /\ m[i] <= Len(r)
    BY <2>1
  <2> QED
    BY <2>1, <2>2, <2>4, <2>5, <2>6
<1> QED
  BY <1>1 DEF Chain

(* Opening a frame prolongs the chain; closing one shortens it. *)
LEMMA ChainOpen ==
  ASSUME NEW s \in Seq(Entry), NEW m \in Seq(Nat), Chain(s, m),
         Balanced(s, Floor(m, Len(m)), Len(s))
  PROVE  Chain(Append(s, CheckpointEntry), Append(m, Len(s) + 1))
<1> DEFINE r == Append(s, CheckpointEntry)
           k == Append(m, Len(s) + 1)
           n == Len(m)
<1>1. CheckpointEntry \in Entry /\ CheckpointEntry.tag = "FRAME_CHECKPOINT"
  BY DEF CheckpointEntry, Entry
<1>2. /\ r \in Seq(Entry) /\ Len(r) = Len(s) + 1 /\ r[Len(s) + 1] = CheckpointEntry
      /\ \A i \in 1 .. Len(s) : r[i] = s[i]
  BY <1>1
<1>3. /\ k \in Seq(Nat) /\ Len(k) = n + 1 /\ k[n + 1] = Len(s) + 1 /\ n \in Nat
      /\ \A i \in 1 .. n : k[i] = m[i]
  OBVIOUS
<1> HIDE DEF r, k
<1>4. \A i \in 0 .. n : Floor(k, i) = Floor(m, i)
  BY <1>3 DEF Floor
<1>5. Chain(r, m)
  <2>1. m # <<>> => m[Len(m)] \in 1 .. Len(s)
    BY DEF Chain
  <2> QED
    BY <1>2, <2>1, ChainAgree
<1>6. ASSUME NEW i \in 1 .. n
      PROVE  /\ k[i] \in 1 .. Len(r)
             /\ r[k[i]].tag = "FRAME_CHECKPOINT"
             /\ Floor(k, i - 1) < k[i]
             /\ Balanced(r, Floor(k, i - 1), k[i] - 1)
  <2>1. k[i] = m[i] /\ Floor(k, i - 1) = Floor(m, i - 1)
    BY <1>3, <1>4
  <2>2. /\ m[i] \in 1 .. Len(r)
        /\ r[m[i]].tag = "FRAME_CHECKPOINT"
        /\ Floor(m, i - 1) < m[i]
        /\ Balanced(r, Floor(m, i - 1), m[i] - 1)
    BY <1>5 DEF Chain
  <2> QED
    BY <2>1, <2>2
<1>7. /\ k[n + 1] \in 1 .. Len(r)
      /\ r[k[n + 1]].tag = "FRAME_CHECKPOINT"
      /\ Floor(k, n) < k[n + 1]
      /\ Balanced(r, Floor(k, n), k[n + 1] - 1)
  <2>1. Floor(m, n) \in 0 .. Len(s)
    BY DEF Chain, Floor
  <2>2. Balanced(r, Floor(m, n), Len(s))
    <3>1. Floor(m, n) \in Nat /\ Len(s) \in Nat
      BY <2>1
    <3>2. \A i \in (Floor(m, n) + 1) .. Len(s) : r[i] = s[i]
      BY <1>2, <2>1
    <3> QED
      BY <3>1, <3>2, RangeAgree
  <2> QED
    BY <1>1, <1>2, <1>3, <1>4, <2>1, <2>2
<1>8. \A i, j \in 1 .. Len(k) : i < j => k[i] < k[j]
  <2>0. \A i \in 1 .. n : m[i] \in 1 .. Len(s)
    BY DEF Chain
  <2>1. \A i \in 1 .. n : k[i] <= Len(s) /\ k[i] \in Nat
    <3> SUFFICES ASSUME NEW i \in 1 .. n PROVE k[i] <= Len(s) /\ k[i] \in Nat
      OBVIOUS
    <3>1. k[i] = m[i] /\ m[i] \in 1 .. Len(s)
      BY <1>3, <2>0
    <3>2. Len(s) \in Nat
      OBVIOUS
    <3> QED
      BY <3>1, <3>2
  <2>2. \A i, j \in 1 .. n : i < j => k[i] < k[j]
    <3>1. \A i, j \in 1 .. n : i < j => m[i] < m[j]
      BY DEF Chain
    <3> QED
      BY <1>3, <3>1
  <2>3. TAKE i, j \in 1 .. Len(k)
  <2>4. CASE j = n + 1
    <3>1. i < j => i \in 1 .. n
      BY <1>3, <2>4
    <3> QED
      BY <1>3, <2>1, <2>4, <3>1
  <2>5. CASE j # n + 1
    <3>1. i < j => i \in 1 .. n /\ j \in 1 .. n
      <4>1. Len(k) = n + 1 /\ n \in Nat
        BY <1>3
      <4> HIDE DEF n
      <4> QED
        BY <4>1, <2>5
    <3> QED
      BY <2>2, <3>1
  <2> QED
    BY <2>4, <2>5
<1>9. \A i \in 1 .. Len(k) : i \in 1 .. n \/ (i = n + 1 /\ i - 1 = n)
  BY <1>3
<1>10. \A i \in 1 .. Len(k) :
         /\ k[i] \in 1 .. Len(r)
         /\ r[k[i]].tag = "FRAME_CHECKPOINT"
         /\ Floor(k, i - 1) < k[i]
         /\ Balanced(r, Floor(k, i - 1), k[i] - 1)
  BY <1>6, <1>7, <1>9
<1>11. Chain(r, k)
  BY <1>8, <1>10 DEF Chain
<1> QED
  BY <1>11 DEF r, k

LEMMA ChainClose ==
  ASSUME NEW s \in Seq(Entry), NEW m \in Seq(Nat), Chain(s, m), m # <<>>
  PROVE  Chain(s, Front(m))
<1> DEFINE k == Front(m)
<1>1. /\ k \in Seq(Nat) /\ Len(k) = Len(m) - 1 /\ Len(m) \in Nat
      /\ \A i \in 1 .. (Len(m) - 1) : k[i] = m[i]
  <2>1. Len(m) \in Nat /\ Len(m) - 1 \in 0 .. Len(m)
    OBVIOUS
  <2> QED
    BY <2>1, Cut DEF Front
<1> HIDE DEF k
<1>2. \A i \in 0 .. Len(k) : Floor(k, i) = Floor(m, i)
  BY <1>1 DEF Floor
<1>3. \A i \in 1 .. Len(k) : i \in 1 .. Len(m) /\ i - 1 \in 0 .. Len(k) /\ k[i] = m[i]
  BY <1>1
<1>4. Chain(s, k)
  BY <1>2, <1>3 DEF Chain
<1> QED
  BY <1>4 DEF k
----------------------------------------------------------------------------
(* FramesNest, one kind of step at a time.  First: an operation of a frame *)
(* pushes an entry that is no marker.                                      *)
LEMMA NestPlain ==
  ASSUME TypeOK, FramesNest, Idle, NEW e \in Entry,
         e.tag \notin {"FRAME_CHECKPOINT", "FRAME_COMMIT"},
         jrn' = Append(jrn, e), UNCHANGED <<target, saved, marks>>
  PROVE  FramesNest'
<1> DEFINE n == Len(jrn)
           lo == Floor(marks, Len(marks))
<1>1. /\ jrn \in Seq(Entry) /\ n \in Nat /\ marks \in Seq(Nat)
      /\ Chain(jrn, marks) /\ Balanced(jrn, lo, n)
  BY DEF TypeOK, FramesNest
<1>2. /\ jrn' \in Seq(Entry) /\ Len(jrn') = n + 1 /\ jrn'[n + 1] = e
      /\ \A q \in 1 .. n : jrn'[q] = jrn[q]
  BY <1>1, Pushed
<1>3. lo \in 0 .. n /\ (marks # <<>> => marks[Len(marks)] \in 1 .. n)
  BY <1>1 DEF Chain, Floor
<1> HIDE DEF n, lo
<1>4. Chain(jrn', marks)
  <2>1. marks # <<>> => /\ marks[Len(marks)] <= Len(jrn')
                        /\ \A q \in 1 .. marks[Len(marks)] : jrn'[q] = jrn[q]
    BY <1>1, <1>2, <1>3
  <2> QED
    BY <1>1, <1>2, <2>1, ChainAgree
<1>5. Balanced(jrn', lo, n + 1)
  <2>1. lo \in Nat /\ lo <= n /\ \A q \in (lo + 1) .. n : jrn'[q] = jrn[q]
    BY <1>1, <1>2, <1>3
  <2>2. Balanced(jrn', lo, n)
    BY <1>1, <2>1, RangeAgree
  <2> QED
    BY <1>1, <1>2, <2>1, <2>2, BalancedPlain
<1> QED
  BY <1>2, <1>4, <1>5 DEF FramesNest, Idle, lo

LEMMA NestCheckpoint ==
  ASSUME TypeOK, FramesNest, FCheckpoint
  PROVE  FramesNest'
<1>1. /\ jrn \in Seq(Entry) /\ marks \in Seq(Nat) /\ saved \in Seq(Saved)
      /\ Len(saved) = Len(marks) /\ Idle
      /\ Chain(jrn, marks) /\ Balanced(jrn, Floor(marks, Len(marks)), Len(jrn))
  BY DEF TypeOK, FramesNest, FCheckpoint, state_journal_checkpoint
<1>2. /\ jrn' = Append(jrn, CheckpointEntry) /\ marks' = Append(marks, Len(jrn) + 1)
      /\ saved' = Append(saved, tables) /\ target' = target
  BY DEF FCheckpoint, state_journal_checkpoint
<1>3. Chain(jrn', marks')
  BY <1>1, <1>2, ChainOpen
<1>4. tables \in Saved
  BY DEF TypeOK, tables, Saved
<1>5. Len(jrn') = Len(jrn) + 1 /\ marks' \in Seq(Nat) /\ Len(marks') = Len(marks) + 1
      /\ marks'[Len(marks')] = Len(jrn) + 1
  BY <1>1, <1>2
<1>6. saved' \in Seq(Saved) /\ Len(saved') = Len(saved) + 1
  BY <1>1, <1>2, <1>4
<1>7. Floor(marks', Len(marks')) = Len(jrn')
  BY <1>1, <1>5 DEF Floor
<1>8. Balanced(jrn', Floor(marks', Len(marks')), Len(jrn'))
  BY <1>1, <1>5, <1>7, BalancedEmpty
<1> QED
  BY <1>1, <1>2, <1>3, <1>5, <1>6, <1>8 DEF FramesNest, Idle

LEMMA NestCommit ==
  ASSUME TypeOK, FramesNest, FClose(state_journal_commit)
  PROVE  FramesNest'
<1> DEFINE n == Len(jrn)
           L == Len(marks)
           m == marks[L]
           lo == Floor(marks, L - 1)
<1>1. /\ jrn \in Seq(Entry) /\ n \in Nat /\ marks \in Seq(Nat) /\ L \in Nat
      /\ saved \in Seq(Saved) /\ Len(saved) = L /\ Idle /\ InFrame
      /\ Chain(jrn, marks) /\ Balanced(jrn, Floor(marks, L), n)
  BY DEF TypeOK, FramesNest, FClose, state_journal_commit
<1>2. /\ jrn' = Append(jrn, CommitEntry) /\ marks' = Front(marks)
      /\ saved' = Front(saved) /\ target' = target
  BY DEF FClose, state_journal_commit
<1>3. marks # <<>> /\ L > 0
  <2>1. L # 0
    BY <1>1, BalancedNone DEF Floor, InFrame
  <2> QED
    BY <1>1, <2>1
<1>4. CommitEntry \in Entry /\ CommitEntry.tag = "FRAME_COMMIT"
  BY DEF CommitEntry, Entry
<1>5. /\ jrn' \in Seq(Entry) /\ Len(jrn') = n + 1 /\ jrn'[n + 1].tag = "FRAME_COMMIT"
      /\ \A q \in 1 .. n : jrn'[q] = jrn[q]
  BY <1>1, <1>2, <1>4, Pushed
<1>6. /\ m \in 1 .. n /\ jrn[m].tag = "FRAME_CHECKPOINT" /\ lo < m /\ lo \in Nat
      /\ Balanced(jrn, lo, m - 1) /\ Floor(marks, L) = m
  <2>1. L \in 1 .. Len(marks) /\ L # 0
    BY <1>1, <1>3
  <2>2. /\ m \in 1 .. n /\ jrn[m].tag = "FRAME_CHECKPOINT" /\ lo < m
        /\ Balanced(jrn, lo, m - 1)
    BY <1>1, <2>1 DEF Chain
  <2>3. lo \in Nat
    BY <1>1, <2>1 DEF Floor
  <2> QED
    BY <2>1, <2>2, <2>3 DEF Floor
<1>7. /\ marks' \in Seq(Nat) /\ Len(marks') = L - 1 /\ saved' \in Seq(Saved)
      /\ Len(saved') = L - 1 /\ \A q \in 1 .. (L - 1) : marks'[q] = marks[q]
  <2>1. L - 1 \in 0 .. L
    BY <1>1, <1>3
  <2> QED
    BY <1>1, <1>2, <2>1, Cut DEF Front
<1> HIDE DEF n, m, lo
<1>8. Chain(jrn', marks')
  <2>1. Chain(jrn', marks)
    <3>1. m <= Len(jrn') /\ \A q \in 1 .. m : jrn'[q] = jrn[q]
      BY <1>1, <1>5, <1>6
    <3> QED
      BY <1>1, <1>5, <3>1, ChainAgree DEF m
  <2> QED
    BY <1>1, <1>2, <1>3, <1>5, <2>1, ChainClose
<1>9. Balanced(jrn', lo, n + 1)
  <2>1. \A q \in (lo + 1) .. (m - 1) : jrn'[q] = jrn[q]
    BY <1>1, <1>5, <1>6
  <2>2. Balanced(jrn', lo, m - 1)
    <3>1. m - 1 \in Nat
      BY <1>1, <1>6
    <3> QED
      BY <1>6, <2>1, <3>1, RangeAgree
  <2>3. \A q \in (m + 1) .. n : jrn'[q] = jrn[q]
    BY <1>1, <1>5, <1>6
  <2>4. Balanced(jrn', m, n)
    BY <1>1, <1>6, <2>3, RangeAgree
  <2>5. m \in Nat /\ m <= n /\ jrn'[m].tag = "FRAME_CHECKPOINT"
    BY <1>1, <1>5, <1>6
  <2> QED
    BY <1>1, <1>5, <1>6, <2>2, <2>4, <2>5, BalancedCommit
<1>10. lo = Floor(marks', Len(marks'))
  BY <1>1, <1>3, <1>7 DEF lo, Floor
<1> QED
  BY <1>1, <1>2, <1>5, <1>7, <1>8, <1>9, <1>10 DEF FramesNest, Idle

(* The scan finds the innermost frame, or finds that there is none. *)
LEMMA NestMarker ==
  ASSUME TypeOK, FramesNest
  PROVE  MarkerIsInnermost
<1>1. /\ jrn \in Seq(Entry) /\ Len(jrn) \in Nat /\ marks \in Seq(Nat) /\ Len(marks) \in Nat
      /\ Chain(jrn, marks)
  BY DEF TypeOK, FramesNest
<1>2. CASE Idle /\ marks = <<>>
  BY <1>1, <1>2, BalancedNone DEF MarkerIsInnermost, FramesNest, Floor, InFrame
<1>3. CASE Idle /\ marks # <<>>
  <2>1. Len(marks) \in 1 .. Len(marks)
    BY <1>1, <1>3
  <2>2. /\ Top(marks) \in 1 .. Len(jrn) /\ jrn[Top(marks)].tag = "FRAME_CHECKPOINT"
        /\ Balanced(jrn, Top(marks), Len(jrn))
    BY <1>1, <1>3, <2>1 DEF FramesNest, Chain, Floor, Top
  <2>3. OpenCheckpoints(jrn) # {} /\ state_journal_current_frame_marker(jrn) = Top(marks)
    BY <1>1, <2>2, BalancedMarker
  <2> QED
    BY <1>3, <2>3 DEF MarkerIsInnermost, InFrame
<1> QED
  BY <1>2, <1>3 DEF MarkerIsInnermost
LEMMA NestRevert ==
  ASSUME TypeOK, FramesNest, state_journal_revert, UNCHANGED <<saved, marks>>
  PROVE  FramesNest' /\ target' \in 1 .. Len(jrn)
<1>1. /\ Idle /\ InFrame /\ target' = state_journal_current_frame_marker(jrn)
      /\ jrn' = jrn /\ marks' = marks /\ saved' = saved
  BY DEF state_journal_revert
<1>2. marks # <<>> /\ target' = Top(marks)
  BY <1>1, NestMarker DEF MarkerIsInnermost
<1>3. Top(marks) \in 1 .. Len(jrn)
  <2>1. Len(marks) \in 1 .. Len(marks)
    BY <1>2 DEF FramesNest
  <2> QED
    BY <2>1 DEF FramesNest, Chain, Top
<1> QED
  BY <1>1, <1>2, <1>3 DEF FramesNest, Idle, Top

LEMMA NestPop ==
  ASSUME TypeOK, FramesNest, journal_revert_to, UNCHANGED <<saved, marks>>
  PROVE  FramesNest'
<1> DEFINE n == Len(jrn)
<1>1. /\ jrn \in Seq(Entry) /\ n \in Nat /\ marks \in Seq(Nat) /\ Chain(jrn, marks)
      /\ ~Idle /\ marks # <<>> /\ target = marks[Len(marks)] /\ n > target
      /\ jrn' = SubSeq(jrn, 1, n - 1) /\ target' = target
  BY DEF TypeOK, FramesNest, journal_revert_to, Top
<1>2. marks[Len(marks)] \in Nat
  BY <1>1
<1>3. n - 1 \in 0 .. Len(jrn)
  BY <1>1, <1>2
<1>4. /\ jrn' \in Seq(Entry) /\ Len(jrn') = n - 1
      /\ \A q \in 1 .. (n - 1) : jrn'[q] = jrn[q]
  BY <1>1, <1>3, Cut
<1> HIDE DEF n
<1>5. marks[Len(marks)] <= Len(jrn') /\ \A q \in 1 .. marks[Len(marks)] : jrn'[q] = jrn[q]
  BY <1>1, <1>2, <1>4
<1>6. Chain(jrn', marks)
  BY <1>1, <1>4, <1>5, ChainAgree
<1> QED
  BY <1>1, <1>6 DEF FramesNest, Idle, Top

LEMMA NestDone ==
  ASSUME TypeOK, FramesNest, FClose(state_journal_revert_done)
  PROVE  FramesNest'
<1> DEFINE L == Len(marks)
           m == marks[L]
<1>1. /\ jrn \in Seq(Entry) /\ marks \in Seq(Nat) /\ L \in Nat /\ Chain(jrn, marks)
      /\ saved \in Seq(Saved) /\ Len(saved) = L
      /\ marks # <<>> /\ target = m /\ Len(jrn) = m
      /\ jrn' = SubSeq(jrn, 1, m - 1) /\ target' = 0
      /\ marks' = Front(marks) /\ saved' = Front(saved)
  BY DEF TypeOK, FramesNest, FClose, state_journal_revert_done, Top
<1>2. L \in 1 .. L
  BY <1>1
<1>3. m \in 1 .. Len(jrn) /\ Floor(marks, L - 1) < m /\ Balanced(jrn, Floor(marks, L - 1), m - 1)
  BY <1>1, <1>2 DEF Chain
<1>4. Floor(marks, L - 1) \in Nat /\ m - 1 \in 0 .. Len(jrn) /\ m - 1 \in Nat
  BY <1>1, <1>2, <1>3 DEF Floor
<1>5. /\ jrn' \in Seq(Entry) /\ Len(jrn') = m - 1
      /\ \A q \in 1 .. (m - 1) : jrn'[q] = jrn[q]
  BY <1>1, <1>4, Cut
<1>6. /\ marks' \in Seq(Nat) /\ Len(marks') = L - 1 /\ saved' \in Seq(Saved)
      /\ Len(saved') = L - 1 /\ \A q \in 1 .. (L - 1) : marks'[q] = marks[q]
  <2>1. L - 1 \in 0 .. L
    BY <1>2
  <2> QED
    BY <1>1, <2>1, Cut DEF Front
<1>7. Balanced(jrn', Floor(marks, L - 1), m - 1)
  <2>1. \A q \in (Floor(marks, L - 1) + 1) .. (m - 1) : jrn'[q] = jrn[q]
    BY <1>3, <1>4, <1>5
  <2> QED
    BY <1>3, <1>4, <2>1, RangeAgree
<1>8. Floor(marks', L - 1) = Floor(marks, L - 1)
  BY <1>2, <1>6 DEF Floor
<1>9. Chain(jrn', marks')
  <2>1. Chain(jrn, marks')
    BY <1>1, ChainClose
  <2>2. marks' # <<>> => marks'[Len(marks')] \in Nat /\ marks'[Len(marks')] <= m - 1
    <3>1. SUFFICES ASSUME marks' # <<>> PROVE marks[L - 1] \in Nat /\ marks[L - 1] <= m - 1
      BY <1>6, <1>2
    <3>2. L - 1 \in 1 .. L
      BY <1>2, <1>6, <3>1
    <3>3. \A a, b \in 1 .. L : a < b => marks[a] < marks[b]
      BY <1>1 DEF Chain
    <3>4. marks[L - 1] \in Nat /\ marks[L] \in Nat
      BY <1>1, <1>2, <3>2
    <3> QED
      BY <1>2, <3>2, <3>3, <3>4
  <2> HIDE DEF m, L
  <2>3. marks' # <<>> => /\ marks'[Len(marks')] <= Len(jrn')
                         /\ \A q \in 1 .. marks'[Len(marks')] : jrn'[q] = jrn[q]
    BY <1>4, <1>5, <2>2
  <2> QED
    BY <1>1, <1>5, <1>6, <2>1, <2>3, ChainAgree
<1> HIDE DEF m, L
<1> QED
  BY <1>1, <1>5, <1>6, <1>7, <1>8, <1>9 DEF FramesNest, Idle

LEMMA NestReset ==
  ASSUME TypeOK, FramesNest, k_tx_reset, UNCHANGED <<saved, marks>>
  PROVE  FramesNest' /\ marks = <<>>
<1>1. Idle /\ ~InFrame /\ jrn' = <<>> /\ target' = target
  BY DEF k_tx_reset
<1>2. marks = <<>>
  BY <1>1, NestMarker DEF MarkerIsInnermost
<1>3. jrn' \in Seq(Entry) /\ Len(jrn') = 0
  BY <1>1
<1>4. Balanced(jrn', 0, 0)
  BY BalancedEmpty
<1>5. Len(marks) = 0 /\ Floor(marks, 0) = 0
  BY <1>2 DEF Floor
<1>6. Chain(jrn', marks)
  BY <1>5 DEF Chain
<1> QED
  BY <1>1, <1>2, <1>3, <1>4, <1>5, <1>6 DEF FramesNest, Idle
----------------------------------------------------------------------------
(* The log records counted against the journal. *)
LEMMA LogsPush ==
  ASSUME TypeOK, LogsJournalled, NEW e \in Entry, e.tag # "LOG",
         jrn' = Append(jrn, e), UNCHANGED <<logs, log_topics, log_data, tx_log_start>>
  PROVE  LogsJournalled'
<1>1. jrn \in Seq(Entry) /\ 0 \in 0 .. Len(jrn)
  BY DEF TypeOK
<1>2. Len(jrn') = Len(jrn) + 1
  BY <1>1
<1>3. Count(jrn', "LOG", 0, Len(jrn')) = Count(jrn, "LOG", 0, Len(jrn)) + 0
  BY <1>1, <1>2, PushCount
<1>4. Count(jrn, "LOG", 0, Len(jrn)) \in Nat
  BY <1>1, CountType
<1> QED
  BY <1>3, <1>4 DEF LogsJournalled

LEMMA LogsAppend ==
  ASSUME TypeOK, LogsJournalled,
         NEW a \in Addr, NEW t \in TopicLists, NEW d \in DataLists, k_log(a, t, d)
  PROVE  LogsJournalled' /\ logs' \in Seq(LogRecord)
         /\ log_topics' \in Seq(Word) /\ log_data' \in Seq(Word)
<1> DEFINE rec == [addr |-> a, topic_off |-> Len(log_topics), topic_cnt |-> Len(t),
                   data_off |-> Len(log_data), data_len |-> Len(d)]
           n == Len(logs)
<1>1. /\ jrn \in Seq(Entry) /\ 0 \in 0 .. Len(jrn) /\ logs \in Seq(LogRecord)
      /\ log_topics \in Seq(Word) /\ log_data \in Seq(Word) /\ tx_log_start \in Nat
      /\ t \in Seq(Word) /\ d \in Seq(Word)
  BY PayloadAssumption DEF TypeOK
<1>2. /\ logs' = Append(logs, rec) /\ log_topics' = log_topics \o t
      /\ log_data' = log_data \o d /\ jrn' = Append(jrn, LogEntry)
      /\ tx_log_start' = tx_log_start
  BY DEF k_log
<1>3. /\ rec.topic_off = Len(log_topics) /\ rec.data_off = Len(log_data)
      /\ rec \in LogRecord
  BY <1>1 DEF LogRecord
<1> HIDE DEF rec
<1>4. /\ logs' \in Seq(LogRecord) /\ n \in Nat /\ Len(logs') = n + 1 /\ logs'[n + 1] = rec
      /\ \A i \in 1 .. n : logs'[i] = logs[i]
  BY <1>1, <1>2, <1>3, Pushed
<1>5. /\ log_topics' \in Seq(Word) /\ Len(log_topics') = Len(log_topics) + Len(t)
      /\ log_data' \in Seq(Word) /\ Len(log_data') = Len(log_data) + Len(d)
      /\ Len(log_topics) \in Nat /\ Len(log_data) \in Nat /\ Len(t) \in Nat /\ Len(d) \in Nat
  BY <1>1, <1>2
<1>6. LogEntry \in Entry /\ LogEntry.tag = "LOG"
  BY DEF LogEntry, Entry
<1>7. Len(jrn') = Len(jrn) + 1
  BY <1>1, <1>2, <1>6
<1>8. /\ Count(jrn', "LOG", 0, Len(jrn')) = Count(jrn, "LOG", 0, Len(jrn)) + 1
      /\ Count(jrn, "LOG", 0, Len(jrn)) \in Nat
  BY <1>1, <1>2, <1>6, <1>7, PushCount, CountType
<1>9. \A i \in 1 .. n : /\ logs[i].topic_off \in Nat /\ logs[i].topic_off <= Len(log_topics)
                        /\ logs[i].data_off \in Nat /\ logs[i].data_off <= Len(log_data)
  <2>1. \A i \in 1 .. n : logs[i].topic_off \in Nat /\ logs[i].data_off \in Nat
    BY <1>1, RecordFields
  <2> QED
    BY <2>1 DEF LogsJournalled
<1>10. \A i \in 1 .. Len(logs') : logs'[i].topic_off <= Len(log_topics') /\ logs'[i].data_off <= Len(log_data')
  <2> HIDE DEF n
  <2>1. TAKE i \in 1 .. Len(logs')
  <2>2. CASE i = n + 1
    BY <1>3, <1>4, <1>5, <2>2
  <2>3. CASE i # n + 1
    <3>1. i \in 1 .. n
      BY <1>4, <2>3
    <3>2. logs'[i] = logs[i]
      BY <1>4, <3>1
    <3> QED
      BY <1>5, <1>9, <3>1, <3>2
  <2> QED
    BY <2>2, <2>3
<1>11. \A i, j \in 1 .. Len(logs') : i <= j =>
         logs'[i].topic_off <= logs'[j].topic_off /\ logs'[i].data_off <= logs'[j].data_off
  <2>1. \A i, j \in 1 .. n : i <= j =>
         logs[i].topic_off <= logs[j].topic_off /\ logs[i].data_off <= logs[j].data_off
    BY DEF LogsJournalled
  <2> HIDE DEF n
  <2>2. TAKE i, j \in 1 .. Len(logs')
  <2>3. CASE j = n + 1
    <3>1. CASE i = n + 1
      BY <1>3, <1>4, <1>5, <2>3, <3>1
    <3>2. CASE i # n + 1
      <4>1. i \in 1 .. n
        BY <1>4, <3>2
      <4>2. logs'[i] = logs[i] /\ logs'[j] = rec
        BY <1>4, <2>3, <4>1
      <4> QED
        BY <1>3, <1>9, <4>1, <4>2
    <3> QED
      BY <3>1, <3>2
  <2>4. CASE j # n + 1
    <3>1. i <= j => i \in 1 .. n /\ j \in 1 .. n
      BY <1>4, <2>4
    <3> QED
      BY <1>4, <2>1, <3>1
  <2> QED
    BY <2>3, <2>4
<1>12. Len(logs') = tx_log_start' + Count(jrn', "LOG", 0, Len(jrn'))
  BY <1>1, <1>2, <1>4, <1>8 DEF LogsJournalled
<1> QED
  BY <1>4, <1>5, <1>10, <1>11, <1>12 DEF LogsJournalled

(* logs_revert_last, when the newest entry is LOG. *)
LEMMA LogsCut ==
  ASSUME TypeOK, LogsJournalled, journal_revert_to, Top(jrn).tag = "LOG"
  PROVE  /\ LogsJournalled' /\ logs # <<>>
         /\ logs' \in Seq(LogRecord) /\ log_topics' \in Seq(Word) /\ log_data' \in Seq(Word)
<1> DEFINE n == Len(logs)
<1>1. /\ jrn \in Seq(Entry) /\ target \in Nat /\ Len(jrn) > target /\ Len(jrn) \in Nat
      /\ logs \in Seq(LogRecord) /\ n \in Nat
      /\ log_topics \in Seq(Word) /\ log_data \in Seq(Word) /\ tx_log_start \in Nat
      /\ jrn' = Front(jrn) /\ tx_log_start' = tx_log_start
  BY DEF TypeOK, journal_revert_to, Front
<1>2. /\ logs # <<>> /\ logs' = SubSeq(logs, 1, n - 1)
      /\ log_topics' = SubSeq(log_topics, 1, logs[n].topic_off)
      /\ log_data' = SubSeq(log_data, 1, logs[n].data_off)
  BY DEF journal_revert_to, Invert, Top, logs_revert_last
<1>3. /\ n \in 1 .. n /\ n - 1 \in 0 .. Len(logs)
      /\ logs[n].topic_off \in 0 .. Len(log_topics) /\ logs[n].data_off \in 0 .. Len(log_data)
  <2>1. n \in 1 .. n
    BY <1>1, <1>2
  <2>2. logs[n].topic_off \in Nat /\ logs[n].data_off \in Nat
    BY <1>1, <2>1, RecordFields
  <2> QED
    BY <1>1, <2>1, <2>2 DEF LogsJournalled
<1>4. /\ logs' \in Seq(LogRecord) /\ Len(logs') = n - 1
      /\ \A i \in 1 .. (n - 1) : logs'[i] = logs[i]
  BY <1>1, <1>2, <1>3, Cut
<1>5. /\ log_topics' \in Seq(Word) /\ Len(log_topics') = logs[n].topic_off
      /\ log_data' \in Seq(Word) /\ Len(log_data') = logs[n].data_off
  BY <1>1, <1>2, <1>3, Cut
<1>6. Len(jrn') = Len(jrn) - 1
  <2>1. Len(jrn) > 0
    BY <1>1
  <2> QED
    BY <1>1, <2>1, Popped
<1>7. Count(jrn, "LOG", 0, Len(jrn)) = Count(jrn', "LOG", 0, Len(jrn')) + 1
  <2>1. 0 \in Nat /\ 0 < Len(jrn)
    BY <1>1
  <2> QED
    BY <1>1, <1>6, <2>1, PopCount
<1>8. Count(jrn', "LOG", 0, Len(jrn')) \in Nat
  BY <1>1, <1>6, CountType
<1>9. \A i, j \in 1 .. n : i <= j =>
        logs[i].topic_off <= logs[j].topic_off /\ logs[i].data_off <= logs[j].data_off
  BY DEF LogsJournalled
<1>10. n = tx_log_start + Count(jrn, "LOG", 0, Len(jrn))
  BY DEF LogsJournalled
<1> HIDE DEF n
<1>11. \A i \in 1 .. Len(logs') : i \in 1 .. n /\ logs'[i] = logs[i] /\ i <= n
  BY <1>1, <1>4
<1>12. \A i \in 1 .. Len(logs') : logs'[i].topic_off <= Len(log_topics') /\ logs'[i].data_off <= Len(log_data')
  BY <1>3, <1>5, <1>9, <1>11
<1>13. \A i, j \in 1 .. Len(logs') : i <= j =>
         logs'[i].topic_off <= logs'[j].topic_off /\ logs'[i].data_off <= logs'[j].data_off
  BY <1>9, <1>11
<1>14. Len(logs') = tx_log_start' + Count(jrn', "LOG", 0, Len(jrn'))
  BY <1>1, <1>4, <1>7, <1>8, <1>10
<1> QED
  BY <1>2, <1>4, <1>5, <1>12, <1>13, <1>14 DEF LogsJournalled

(* Any other entry that is popped leaves the logs alone. *)
LEMMA LogsPop ==
  ASSUME TypeOK, LogsJournalled, NEW p \in Nat, p < Len(jrn), jrn' = Front(jrn),
         Top(jrn).tag # "LOG", UNCHANGED <<logs, log_topics, log_data, tx_log_start>>
  PROVE  /\ LogsJournalled' /\ LogsBelow(p)' = LogsBelow(p)
<1>1. jrn \in Seq(Entry) /\ Len(jrn) \in Nat /\ 0 < Len(jrn) /\ Len(jrn') = Len(jrn) - 1
  <2>1. jrn \in Seq(Entry) /\ Len(jrn) \in Nat /\ 0 < Len(jrn)
    BY DEF TypeOK
  <2> QED
    BY <2>1, Popped
<1>2. \A q \in Nat : q < Len(jrn) =>
        /\ Count(jrn, "LOG", q, Len(jrn)) = Count(jrn', "LOG", q, Len(jrn')) + 0
        /\ Count(jrn', "LOG", q, Len(jrn')) \in Nat
  BY <1>1, PopCount, CountType
<1>3. \A q \in Nat : q < Len(jrn) =>
        Count(jrn, "LOG", q, Len(jrn)) = Count(jrn', "LOG", q, Len(jrn'))
  BY <1>2
<1> QED
  BY <1>1, <1>3 DEF LogsJournalled, LogsBelow
----------------------------------------------------------------------------
(* What a pushed or popped entry does to what lies above a position. *)
LEMMA AbovePush ==
  ASSUME TypeOK, NEW e \in Entry, jrn' = Append(jrn, e), NEW p \in 0 .. Len(jrn)
  PROVE  /\ \A a \in Addr : WarmedAbove(a, p)' <=> (WarmedAbove(a, p) \/ (e.tag = "WARMA" /\ e.addr = a))
         /\ \A k \in Key : WarmedSlotAbove(k, p)' <=> (WarmedSlotAbove(k, p) \/ (e.tag = "WARMS" /\ e.key = k))
         /\ Len(jrn') = Len(jrn) + 1
         /\ Count(jrn', "LOG", p, Len(jrn')) =
              Count(jrn, "LOG", p, Len(jrn)) + IF e.tag = "LOG" THEN 1 ELSE 0
<1> DEFINE n == Len(jrn)
<1>1. jrn \in Seq(Entry) /\ n \in Nat /\ p \in Nat /\ p <= n
  BY DEF TypeOK
<1>2. Len(jrn') = n + 1 /\ jrn'[n + 1] = e /\ \A q \in 1 .. n : jrn'[q] = jrn[q]
  BY <1>1, Pushed
<1>3. \A q \in (p + 1) .. Len(jrn') : q = n + 1 \/ (q \in (p + 1) .. n /\ jrn'[q] = jrn[q])
  <2> HIDE DEF n
  <2> QED
    BY <1>1, <1>2
<1>4. n + 1 \in (p + 1) .. Len(jrn') /\ \A q \in (p + 1) .. n : q \in (p + 1) .. Len(jrn') /\ jrn'[q] = jrn[q]
  <2> HIDE DEF n
  <2> QED
    BY <1>1, <1>2
<1>5. Count(jrn', "LOG", p, Len(jrn')) =
        Count(jrn, "LOG", p, Len(jrn)) + IF e.tag = "LOG" THEN 1 ELSE 0
  BY <1>1, <1>2, PushCount
<1>6. ASSUME NEW a \in Addr
      PROVE  WarmedAbove(a, p)' <=> (WarmedAbove(a, p) \/ (e.tag = "WARMA" /\ e.addr = a))
  BY <1>2, <1>3, <1>4 DEF WarmedAbove
<1>7. ASSUME NEW k \in Key
      PROVE  WarmedSlotAbove(k, p)' <=> (WarmedSlotAbove(k, p) \/ (e.tag = "WARMS" /\ e.key = k))
  BY <1>2, <1>3, <1>4 DEF WarmedSlotAbove
<1> QED
  BY <1>2, <1>5, <1>6, <1>7

LEMMA AbovePop ==
  ASSUME TypeOK, jrn' = Front(jrn), NEW p \in Nat, p < Len(jrn)
  PROVE  /\ \A a \in Addr : WarmedAbove(a, p) <=>
              (WarmedAbove(a, p)' \/ (Top(jrn).tag = "WARMA" /\ Top(jrn).addr = a))
         /\ \A k \in Key : WarmedSlotAbove(k, p) <=>
              (WarmedSlotAbove(k, p)' \/ (Top(jrn).tag = "WARMS" /\ Top(jrn).key = k))
         /\ Len(jrn') = Len(jrn) - 1
         /\ Count(jrn, "LOG", p, Len(jrn)) =
              Count(jrn', "LOG", p, Len(jrn')) + IF Top(jrn).tag = "LOG" THEN 1 ELSE 0
<1> DEFINE n == Len(jrn)
<1>1. jrn \in Seq(Entry) /\ n \in Nat /\ p < n /\ n > 0
  BY DEF TypeOK
<1>2. Len(jrn') = n - 1 /\ \A q \in 1 .. (n - 1) : jrn'[q] = jrn[q]
  BY <1>1, Popped
<1>3. \A q \in (p + 1) .. n : q = n \/ (q \in (p + 1) .. Len(jrn') /\ jrn'[q] = jrn[q])
  <2> HIDE DEF n
  <2> QED
    BY <1>1, <1>2
<1>4. n \in (p + 1) .. n /\ \A q \in (p + 1) .. Len(jrn') : q \in (p + 1) .. n /\ jrn'[q] = jrn[q]
  <2> HIDE DEF n
  <2> QED
    BY <1>1, <1>2
<1>5. Count(jrn, "LOG", p, Len(jrn)) =
        Count(jrn', "LOG", p, Len(jrn')) + IF Top(jrn).tag = "LOG" THEN 1 ELSE 0
  BY <1>1, <1>2, PopCount
<1>6. ASSUME NEW a \in Addr
      PROVE  WarmedAbove(a, p) <=>
               (WarmedAbove(a, p)' \/ (Top(jrn).tag = "WARMA" /\ Top(jrn).addr = a))
  BY <1>3, <1>4 DEF WarmedAbove, Top
<1>7. ASSUME NEW k \in Key
      PROVE  WarmedSlotAbove(k, p) <=>
               (WarmedSlotAbove(k, p)' \/ (Top(jrn).tag = "WARMS" /\ Top(jrn).key = k))
  BY <1>3, <1>4 DEF WarmedSlotAbove, Top
<1> QED
  BY <1>2, <1>5, <1>6, <1>7

(* The part of the logs a frame began with lies within the logs. *)
LEMMA BelowType ==
  ASSUME TypeOK, LogsJournalled, NEW p \in 0 .. Len(jrn)
  PROVE  /\ LogsBelow(p) \in 0 .. Len(logs)
         /\ TopicEnd(LogsBelow(p)) \in 0 .. Len(log_topics)
         /\ DataEnd(LogsBelow(p)) \in 0 .. Len(log_data)
<1>1. /\ Len(jrn) \in Nat /\ p \in Nat /\ p <= Len(jrn) /\ 0 <= p
      /\ logs \in Seq(LogRecord) /\ Len(logs) \in Nat /\ tx_log_start \in Nat
      /\ Len(log_topics) \in Nat /\ Len(log_data) \in Nat
  BY DEF TypeOK
<1>2. /\ Count(jrn, "LOG", 0, Len(jrn)) = Count(jrn, "LOG", 0, p) + Count(jrn, "LOG", p, Len(jrn))
      /\ Count(jrn, "LOG", 0, p) \in Nat /\ Count(jrn, "LOG", p, Len(jrn)) \in Nat
  BY <1>1, CountSplit, CountType
<1>3. Len(logs) = tx_log_start + Count(jrn, "LOG", 0, Len(jrn))
  BY DEF LogsJournalled
<1>4. LogsBelow(p) \in 0 .. Len(logs)
  BY <1>1, <1>2, <1>3 DEF LogsBelow
<1>5. ASSUME NEW m \in 0 .. Len(logs)
      PROVE  TopicEnd(m) \in 0 .. Len(log_topics) /\ DataEnd(m) \in 0 .. Len(log_data)
  <2>1. CASE m = Len(logs)
    BY <1>1, <2>1 DEF TopicEnd, DataEnd
  <2>2. CASE m # Len(logs)
    <3>1. m + 1 \in 1 .. Len(logs)
      BY <1>1, <2>2
    <3>2. logs[m + 1].topic_off \in Nat /\ logs[m + 1].data_off \in Nat
      BY <1>1, <3>1, RecordFields
    <3> QED
      BY <1>1, <2>2, <3>1, <3>2 DEF TopicEnd, DataEnd, LogsJournalled
  <2> QED
    BY <2>1, <2>2
<1> QED
  BY <1>4, <1>5
(* Transient storage: the first entry above p about a key tells its value  *)
(* at p, whatever is pushed after it or popped from above it.              *)
LEMMA TransientPush ==
  ASSUME TypeOK, NEW e \in Entry, jrn' = Append(jrn, e), NEW p \in 0 .. Len(jrn), NEW old,
         TransientBefore(p, old),
         \/ e.tag # "TRAN" /\ transient' = transient
         \/ /\ e.tag = "TRAN" /\ e.key \in Key /\ e.prior = transient[e.key]
            /\ \A k \in Key : k # e.key => transient'[k] = transient[k]
  PROVE  TransientBefore(p, old)'
<1> DEFINE n == Len(jrn)
<1>1. jrn \in Seq(Entry) /\ n \in Nat /\ p \in Nat /\ p <= n
  BY DEF TypeOK
<1>2. Len(jrn') = n + 1 /\ jrn'[n + 1] = e /\ \A q \in 1 .. n : jrn'[q] = jrn[q]
  BY <1>1, Pushed
<1> HIDE DEF n
<1>3. ASSUME NEW k \in Key
      PROVE  /\ \A q \in (p + 1) .. n : WritesKey(q, k)' <=> WritesKey(q, k)
             /\ \A q \in Nat : q = n + 1 => (WritesKey(q, k)' <=> (e.tag = "TRAN" /\ e.key = k))
  BY <1>1, <1>2 DEF WritesKey
<1>4. ASSUME NEW k \in Key, \A q \in (p + 1) .. Len(jrn') : ~WritesKey(q, k)'
      PROVE  old[k] = transient'[k]
  <2>1. \A q \in (p + 1) .. n : ~WritesKey(q, k)
    BY <1>1, <1>2, <1>3, <1>4
  <2>2. n + 1 \in (p + 1) .. Len(jrn')
    BY <1>1, <1>2
  <2>3. ~(e.tag = "TRAN" /\ e.key = k)
    <3>1. \E q \in (p + 1) .. Len(jrn') : q \in Nat /\ q = n + 1
      BY <1>1, <2>2
    <3> QED
      BY <1>3, <1>4, <3>1
  <2>4. old[k] = transient[k]
    BY <2>1 DEF TransientBefore, n
  <2> QED
    BY <2>3, <2>4
<1>5. ASSUME NEW k \in Key, NEW q \in (p + 1) .. Len(jrn'), WritesKey(q, k)',
             \A r \in (p + 1) .. (q - 1) : ~WritesKey(r, k)'
      PROVE  old[k] = jrn'[q].prior
  <2>1. CASE q = n + 1
    <3>1. \A r \in (p + 1) .. n : ~WritesKey(r, k)
      BY <1>1, <1>3, <1>5, <2>1
    <3>2. old[k] = transient[k]
      BY <3>1 DEF TransientBefore, n
    <3>3. e.tag = "TRAN" /\ e.key = k
      <4>1. q \in Nat
        BY <1>1, <2>1
      <4> QED
        BY <1>3, <1>5, <2>1, <4>1
    <3> QED
      BY <1>2, <2>1, <3>2, <3>3
  <2>2. CASE q # n + 1
    <3>1. q \in (p + 1) .. n /\ jrn'[q] = jrn[q]
      BY <1>1, <1>2, <2>2
    <3>2. WritesKey(q, k) /\ \A r \in (p + 1) .. (q - 1) : ~WritesKey(r, k)
      BY <1>1, <1>3, <1>5, <3>1
    <3> QED
      BY <3>1, <3>2 DEF TransientBefore, n
  <2> QED
    BY <2>1, <2>2
<1>6. old \in [Key -> Word]
  BY DEF TransientBefore
<1> QED
  BY <1>4, <1>5, <1>6 DEF TransientBefore

LEMMA TransientPop ==
  ASSUME TypeOK, jrn' = Front(jrn), NEW p \in Nat, p < Len(jrn), NEW old,
         TransientBefore(p, old),
         \/ Top(jrn).tag # "TRAN" /\ transient' = transient
         \/ /\ Top(jrn).tag = "TRAN"
            /\ transient' = [transient EXCEPT ![Top(jrn).key] = Top(jrn).prior]
  PROVE  TransientBefore(p, old)'
<1> DEFINE n == Len(jrn)
           e == Top(jrn)
<1>1. jrn \in Seq(Entry) /\ n \in Nat /\ p < n /\ n > 0 /\ transient \in [Key -> Word]
  BY DEF TypeOK
<1>2. Len(jrn') = n - 1 /\ jrn[n] = e /\ \A q \in 1 .. (n - 1) : jrn'[q] = jrn[q]
  BY <1>1, Popped DEF Top
<1>3. /\ \A k \in Key : k # e.key => transient'[k] = transient[k]
      /\ \A k \in Key : e.tag # "TRAN" => transient'[k] = transient[k]
      /\ \A k \in Key : e.tag = "TRAN" /\ k = e.key => transient'[k] = e.prior
  BY <1>1
<1> HIDE DEF n, e
<1>4. ASSUME NEW k \in Key
      PROVE  \A q \in (p + 1) .. Len(jrn') :
               q \in (p + 1) .. n /\ q # n /\ jrn'[q] = jrn[q] /\ (WritesKey(q, k)' <=> WritesKey(q, k))
  BY <1>1, <1>2 DEF WritesKey
<1>5. ASSUME NEW k \in Key, \A q \in (p + 1) .. Len(jrn') : ~WritesKey(q, k)'
      PROVE  old[k] = transient'[k]
  <2>1. \A q \in (p + 1) .. (n - 1) : ~WritesKey(q, k)
    BY <1>1, <1>2, <1>4, <1>5
  <2>2. n \in (p + 1) .. n
    BY <1>1
  <2>3. CASE WritesKey(n, k)
    <3>1. old[k] = e.prior
      BY <1>2, <2>1, <2>2, <2>3 DEF TransientBefore, n
    <3> QED
      BY <1>2, <1>3, <2>3, <3>1 DEF WritesKey
  <2>4. CASE ~WritesKey(n, k)
    <3>1. \A q \in (p + 1) .. n : ~WritesKey(q, k)
      BY <1>1, <2>1, <2>4
    <3>2. old[k] = transient[k]
      BY <3>1 DEF TransientBefore, n
    <3> QED
      BY <1>2, <1>3, <2>4, <3>2 DEF WritesKey
  <2> QED
    BY <2>3, <2>4
<1>6. ASSUME NEW k \in Key, NEW q \in (p + 1) .. Len(jrn'), WritesKey(q, k)',
             \A r \in (p + 1) .. (q - 1) : ~WritesKey(r, k)'
      PROVE  old[k] = jrn'[q].prior
  <2>1. q \in (p + 1) .. n /\ jrn'[q] = jrn[q] /\ WritesKey(q, k)
    BY <1>4, <1>6
  <2>2. \A r \in (p + 1) .. (q - 1) : r \in (p + 1) .. Len(jrn')
    BY <1>1, <1>2
  <2>3. \A r \in (p + 1) .. (q - 1) : ~WritesKey(r, k)
    BY <1>4, <1>6, <2>2
  <2> QED
    BY <2>1, <2>3 DEF TransientBefore, n
<1>7. old \in [Key -> Word]
  BY DEF TransientBefore
<1> QED
  BY <1>5, <1>6, <1>7 DEF TransientBefore
(* The three log components of a frame's snapshot, when the logs grow... *)
LEMMA LogPartsAppend ==
  ASSUME TypeOK, LogsJournalled, NEW p \in 0 .. Len(jrn),
         NEW a \in Addr, NEW t \in TopicLists, NEW d \in DataLists, k_log(a, t, d)
  PROVE  /\ SubSeq(logs, 1, LogsBelow(p))' = SubSeq(logs, 1, LogsBelow(p))
         /\ SubSeq(log_topics, 1, TopicEnd(LogsBelow(p)))' = SubSeq(log_topics, 1, TopicEnd(LogsBelow(p)))
         /\ SubSeq(log_data, 1, DataEnd(LogsBelow(p)))' = SubSeq(log_data, 1, DataEnd(LogsBelow(p)))
<1> DEFINE rec == [addr |-> a, topic_off |-> Len(log_topics), topic_cnt |-> Len(t),
                   data_off |-> Len(log_data), data_len |-> Len(d)]
           n == Len(logs)
           m == LogsBelow(p)
<1>1. /\ jrn \in Seq(Entry) /\ logs \in Seq(LogRecord) /\ n \in Nat
      /\ log_topics \in Seq(Word) /\ log_data \in Seq(Word)
      /\ t \in Seq(Word) /\ d \in Seq(Word)
  BY PayloadAssumption DEF TypeOK
<1>2. /\ logs' = Append(logs, rec) /\ log_topics' = log_topics \o t
      /\ log_data' = log_data \o d /\ jrn' = Append(jrn, LogEntry)
  BY DEF k_log
<1>3. rec.topic_off = Len(log_topics) /\ rec.data_off = Len(log_data) /\ rec \in LogRecord
  BY <1>1 DEF LogRecord
<1>4. LogEntry \in Entry /\ LogEntry.tag = "LOG"
  BY DEF LogEntry, Entry
<1> HIDE DEF rec
<1>5. Len(logs') = n + 1 /\ logs'[n + 1] = rec /\ \A i \in 1 .. n : logs'[i] = logs[i]
  BY <1>1, <1>2, <1>3, Pushed
<1>6. /\ m \in 0 .. n /\ TopicEnd(m) \in 0 .. Len(log_topics)
      /\ DataEnd(m) \in 0 .. Len(log_data)
  BY BelowType
<1>7. LogsBelow(p)' = m
  <2>1. Count(jrn', "LOG", p, Len(jrn')) = Count(jrn, "LOG", p, Len(jrn)) + 1
    BY <1>2, <1>4, AbovePush
  <2>2. Count(jrn, "LOG", p, Len(jrn)) \in Nat
    BY <1>1, CountType
  <2> QED
    BY <1>1, <1>5, <2>1, <2>2 DEF LogsBelow
<1>8. /\ (IF m = Len(logs') THEN Len(log_topics') ELSE logs'[m + 1].topic_off) = TopicEnd(m)
      /\ (IF m = Len(logs') THEN Len(log_data') ELSE logs'[m + 1].data_off) = DataEnd(m)
  <2> HIDE DEF m
  <2>1. CASE m = n
    BY <1>1, <1>3, <1>5, <2>1 DEF TopicEnd, DataEnd
  <2>2. CASE m # n
    <3>1. m # Len(logs') /\ m + 1 \in 1 .. n
      BY <1>1, <1>5, <1>6, <2>2
    <3> QED
      BY <1>5, <2>2, <3>1 DEF TopicEnd, DataEnd
  <2> QED
    BY <2>1, <2>2
<1>9. /\ TopicEnd(LogsBelow(p))' = TopicEnd(m)
      /\ DataEnd(LogsBelow(p))' = DataEnd(m)
  BY <1>7, <1>8 DEF TopicEnd, DataEnd
<1> HIDE DEF m
<1>10. SubSeq(logs', 1, m) = SubSeq(logs, 1, m)
  BY <1>1, <1>2, <1>3, <1>6, CutAppend
<1>11. SubSeq(log_topics', 1, TopicEnd(m)) = SubSeq(log_topics, 1, TopicEnd(m))
  BY <1>1, <1>2, <1>6, CutConcat
<1>12. SubSeq(log_data', 1, DataEnd(m)) = SubSeq(log_data, 1, DataEnd(m))
  BY <1>1, <1>2, <1>6, CutConcat
<1> QED
  BY <1>7, <1>9, <1>10, <1>11, <1>12 DEF m

(* ... and when logs_revert_last cuts them. *)
LEMMA LogPartsCut ==
  ASSUME TypeOK, LogsJournalled, journal_revert_to, Top(jrn).tag = "LOG",
         NEW p \in Nat, p < Len(jrn)
  PROVE  /\ SubSeq(logs, 1, LogsBelow(p))' = SubSeq(logs, 1, LogsBelow(p))
         /\ SubSeq(log_topics, 1, TopicEnd(LogsBelow(p)))' = SubSeq(log_topics, 1, TopicEnd(LogsBelow(p)))
         /\ SubSeq(log_data, 1, DataEnd(LogsBelow(p)))' = SubSeq(log_data, 1, DataEnd(LogsBelow(p)))
<1> DEFINE n == Len(logs)
           m == LogsBelow(p)
<1>1. /\ jrn \in Seq(Entry) /\ Len(jrn) \in Nat /\ p \in 0 .. Len(jrn)
      /\ logs \in Seq(LogRecord) /\ n \in Nat
      /\ log_topics \in Seq(Word) /\ log_data \in Seq(Word) /\ jrn' = Front(jrn)
  BY DEF TypeOK, journal_revert_to, Front
<1>2. /\ logs # <<>> /\ logs' = SubSeq(logs, 1, n - 1)
      /\ log_topics' = SubSeq(log_topics, 1, logs[n].topic_off)
      /\ log_data' = SubSeq(log_data, 1, logs[n].data_off)
  BY DEF journal_revert_to, Invert, Top, logs_revert_last
<1>3. n \in 1 .. n /\ n - 1 \in 0 .. Len(logs)
  BY <1>1, <1>2
<1>4. logs[n].topic_off \in 0 .. Len(log_topics) /\ logs[n].data_off \in 0 .. Len(log_data)
  <2>1. logs[n].topic_off \in Nat /\ logs[n].data_off \in Nat
    BY <1>1, <1>3, RecordFields
  <2> QED
    BY <1>1, <1>3, <2>1 DEF LogsJournalled
<1>5. Len(logs') = n - 1 /\ \A i \in 1 .. (n - 1) : logs'[i] = logs[i]
  BY <1>1, <1>2, <1>3, Cut
<1>6. Len(log_topics') = logs[n].topic_off /\ Len(log_data') = logs[n].data_off
  BY <1>1, <1>2, <1>4, Cut
<1>7. m \in 0 .. (n - 1) /\ LogsBelow(p)' = m
  <2>1. /\ Count(jrn, "LOG", p, Len(jrn)) = Count(jrn', "LOG", p, Len(jrn')) + 1
        /\ Len(jrn') = Len(jrn) - 1
    BY <1>1, AbovePop
  <2>2. Count(jrn', "LOG", p, Len(jrn')) \in Nat
    BY <1>1, <2>1, CountType
  <2>3. m \in 0 .. n
    BY <1>1, BelowType
  <2> QED
    BY <1>1, <1>5, <2>1, <2>2, <2>3 DEF LogsBelow
<1>8. \A i \in 1 .. n : /\ logs[i].topic_off \in Nat /\ logs[i].topic_off <= logs[n].topic_off
                        /\ logs[i].data_off \in Nat /\ logs[i].data_off <= logs[n].data_off
  <2>1. \A i \in 1 .. n : logs[i].topic_off \in Nat /\ logs[i].data_off \in Nat /\ i <= n
    BY <1>1, RecordFields
  <2> QED
    BY <1>3, <2>1 DEF LogsJournalled
<1> HIDE DEF m, n
<1>9. m + 1 \in 1 .. n /\ m # n
  BY <1>3, <1>7
<1>10. TopicEnd(m) = logs[m + 1].topic_off /\ DataEnd(m) = logs[m + 1].data_off
  BY <1>9 DEF TopicEnd, DataEnd, n
<1>11. TopicEnd(m) \in 0 .. logs[n].topic_off /\ DataEnd(m) \in 0 .. logs[n].data_off
  BY <1>4, <1>8, <1>9, <1>10
<1>12. /\ (IF m = Len(logs') THEN Len(log_topics') ELSE logs'[m + 1].topic_off) = TopicEnd(m)
       /\ (IF m = Len(logs') THEN Len(log_data') ELSE logs'[m + 1].data_off) = DataEnd(m)
  <2>1. CASE m = n - 1
    BY <1>3, <1>5, <1>6, <1>10, <2>1
  <2>2. CASE m # n - 1
    <3>1. m + 1 \in 1 .. (n - 1)
      BY <1>3, <1>7, <2>2
    <3> QED
      BY <1>5, <1>10, <2>2, <3>1
  <2> QED
    BY <2>1, <2>2
<1>13. /\ TopicEnd(LogsBelow(p))' = TopicEnd(m)
       /\ DataEnd(LogsBelow(p))' = DataEnd(m)
  BY <1>7, <1>12 DEF TopicEnd, DataEnd
<1>14. SubSeq(logs', 1, m) = SubSeq(logs, 1, m)
  BY <1>1, <1>2, <1>3, <1>7, CutCut
<1>15. SubSeq(log_topics', 1, TopicEnd(m)) = SubSeq(log_topics, 1, TopicEnd(m))
  BY <1>1, <1>2, <1>4, <1>11, CutCut
<1>16. SubSeq(log_data', 1, DataEnd(m)) = SubSeq(log_data, 1, DataEnd(m))
  BY <1>1, <1>2, <1>4, <1>11, CutCut
<1> QED
  BY <1>7, <1>13, <1>14, <1>15, <1>16 DEF m
----------------------------------------------------------------------------
(* An operation of a frame pushes exactly what undoes it. *)
LEMMA UndoMutate ==
  ASSUME TypeOK, LogsJournalled, Mutate, NEW p \in 0 .. Len(jrn), NEW sv, Undoes(p, sv)
  PROVE  Undoes(p, sv)'
<1> DEFINE A == {a \in warm_addr : ~WarmedAbove(a, p)}
           S == {k \in warm_slot : ~WarmedSlotAbove(k, p)}
           G == SubSeq(logs, 1, LogsBelow(p))
           T == SubSeq(log_topics, 1, TopicEnd(LogsBelow(p)))
           D == SubSeq(log_data, 1, DataEnd(LogsBelow(p)))
<1>1. /\ warm_addr \subseteq Addr /\ warm_slot \subseteq Key /\ transient \in [Key -> Word]
  BY DEF TypeOK
<1>2. SUFFICES A' = A /\ S' = S /\ G' = G /\ T' = T /\ D' = D /\ TransientBefore(p, sv[3])'
  BY DEF Undoes
<1>3. TransientBefore(p, sv[3])
  BY DEF Undoes
<1>4. ASSUME NEW e \in Entry, e.tag # "LOG", jrn' = Append(jrn, e),
             UNCHANGED <<logs, log_topics, log_data>>
      PROVE  G' = G /\ T' = T /\ D' = D
  <2>1. Count(jrn', "LOG", p, Len(jrn')) = Count(jrn, "LOG", p, Len(jrn)) + 0
    BY <1>4, AbovePush
  <2>2. Count(jrn, "LOG", p, Len(jrn)) \in Nat
    BY CountType DEF TypeOK
  <2>3. LogsBelow(p)' = LogsBelow(p)
    BY <1>4, <2>1, <2>2 DEF LogsBelow
  <2> QED
    BY <1>4, <2>3 DEF TopicEnd, DataEnd
<1>5. ASSUME NEW a \in Addr, account_mark_warm(a)
      PROVE  A' = A /\ S' = S /\ G' = G /\ T' = T /\ D' = D /\ TransientBefore(p, sv[3])'
  <2> DEFINE e == WarmAddrEntry(a)
  <2>1. e \in Entry /\ e.tag = "WARMA" /\ e.addr = a
    BY DEF WarmAddrEntry, Entry
  <2>2. /\ jrn' = Append(jrn, e) /\ a \notin warm_addr /\ warm_addr' = warm_addr \union {a}
        /\ UNCHANGED <<warm_slot, transient, logs, log_topics, log_data>>
    BY <1>5 DEF account_mark_warm
  <2> HIDE DEF e
  <2>3. /\ \A x \in Addr : WarmedAbove(x, p)' <=> (WarmedAbove(x, p) \/ a = x)
        /\ \A k \in Key : WarmedSlotAbove(k, p)' <=> WarmedSlotAbove(k, p)
    BY <2>1, <2>2, AbovePush
  <2>4. A' = A
    BY <1>1, <2>2, <2>3
  <2>5. S' = S
    BY <1>1, <2>2, <2>3
  <2>6. TransientBefore(p, sv[3])'
    BY <1>3, <2>1, <2>2, TransientPush
  <2> QED
    BY <1>4, <2>1, <2>2, <2>4, <2>5, <2>6
<1>6. ASSUME NEW k \in Key, storage_mark_warm(k)
      PROVE  A' = A /\ S' = S /\ G' = G /\ T' = T /\ D' = D /\ TransientBefore(p, sv[3])'
  <2> DEFINE e == WarmSlotEntry(k)
  <2>1. e \in Entry /\ e.tag = "WARMS" /\ e.key = k
    BY DEF WarmSlotEntry, Entry
  <2>2. /\ jrn' = Append(jrn, e) /\ k \notin warm_slot /\ warm_slot' = warm_slot \union {k}
        /\ UNCHANGED <<warm_addr, transient, logs, log_topics, log_data>>
    BY <1>6 DEF storage_mark_warm
  <2> HIDE DEF e
  <2>3. /\ \A x \in Key : WarmedSlotAbove(x, p)' <=> (WarmedSlotAbove(x, p) \/ k = x)
        /\ \A a \in Addr : WarmedAbove(a, p)' <=> WarmedAbove(a, p)
    BY <2>1, <2>2, AbovePush
  <2>4. A' = A
    BY <1>1, <2>2, <2>3
  <2>5. S' = S
    BY <1>1, <2>2, <2>3
  <2>6. TransientBefore(p, sv[3])'
    BY <1>3, <2>1, <2>2, TransientPush
  <2> QED
    BY <1>4, <2>1, <2>2, <2>4, <2>5, <2>6
<1>7. ASSUME NEW k \in Key, NEW v \in Word, transient_storage_write(k, v)
      PROVE  A' = A /\ S' = S /\ G' = G /\ T' = T /\ D' = D /\ TransientBefore(p, sv[3])'
  <2> DEFINE e == TransientEntry(k, transient[k])
  <2>1. e \in Entry /\ e.tag = "TRAN" /\ e.key = k /\ e.prior = transient[k]
    BY <1>1 DEF TransientEntry, Entry
  <2>2. /\ jrn' = Append(jrn, e) /\ transient' = [transient EXCEPT ![k] = v]
        /\ UNCHANGED <<warm_addr, warm_slot, logs, log_topics, log_data>>
    BY <1>7 DEF transient_storage_write
  <2>3. \A x \in Key : x # k => transient'[x] = transient[x]
    BY <1>1, <2>2
  <2> HIDE DEF e
  <2>4. /\ \A x \in Key : WarmedSlotAbove(x, p)' <=> WarmedSlotAbove(x, p)
        /\ \A a \in Addr : WarmedAbove(a, p)' <=> WarmedAbove(a, p)
    BY <2>1, <2>2, AbovePush
  <2>5. A' = A
    BY <1>1, <2>2, <2>4
  <2>6. S' = S
    BY <1>1, <2>2, <2>4
  <2>7. TransientBefore(p, sv[3])'
    BY <1>3, <2>1, <2>2, <2>3, TransientPush
  <2> QED
    BY <1>4, <2>1, <2>2, <2>5, <2>6, <2>7
<1>8. ASSUME NEW a \in Addr, NEW t \in TopicLists, NEW d \in DataLists, k_log(a, t, d)
      PROVE  A' = A /\ S' = S /\ G' = G /\ T' = T /\ D' = D /\ TransientBefore(p, sv[3])'
  <2>1. LogEntry \in Entry /\ LogEntry.tag = "LOG"
    BY DEF LogEntry, Entry
  <2>2. jrn' = Append(jrn, LogEntry) /\ UNCHANGED <<warm_addr, warm_slot, transient>>
    BY <1>8 DEF k_log
  <2>3. /\ \A x \in Key : WarmedSlotAbove(x, p)' <=> WarmedSlotAbove(x, p)
        /\ \A x \in Addr : WarmedAbove(x, p)' <=> WarmedAbove(x, p)
    BY <2>1, <2>2, AbovePush
  <2>4. A' = A
    BY <1>1, <2>2, <2>3
  <2>5. S' = S
    BY <1>1, <2>2, <2>3
  <2>6. TransientBefore(p, sv[3])'
    BY <1>3, <2>1, <2>2, TransientPush
  <2>7. G' = G /\ T' = T /\ D' = D
    BY <1>8, LogPartsAppend
  <2> QED
    BY <2>4, <2>5, <2>6, <2>7
<1> QED
  BY <1>5, <1>6, <1>7, <1>8 DEF Mutate

(* A marker undoes nothing: pushing one or dropping one changes no frame's *)
(* snapshot.                                                               *)
LEMMA UndoMarkerPush ==
  ASSUME TypeOK, NEW e \in Entry, e.tag \in {"FRAME_CHECKPOINT", "FRAME_COMMIT"},
         jrn' = Append(jrn, e), UNCHANGED tables, NEW p \in 0 .. Len(jrn), NEW sv, Undoes(p, sv)
  PROVE  Undoes(p, sv)'
<1>1. /\ \A a \in Addr : WarmedAbove(a, p)' <=> WarmedAbove(a, p)
      /\ \A k \in Key : WarmedSlotAbove(k, p)' <=> WarmedSlotAbove(k, p)
      /\ Count(jrn', "LOG", p, Len(jrn')) = Count(jrn, "LOG", p, Len(jrn)) + 0
  BY AbovePush
<1>2. Count(jrn, "LOG", p, Len(jrn)) \in Nat
  BY CountType DEF TypeOK
<1>3. LogsBelow(p)' = LogsBelow(p)
  BY <1>1, <1>2 DEF LogsBelow, tables
<1>4. TransientBefore(p, sv[3])'
  BY TransientPush DEF Undoes, tables
<1>5. /\ {a \in warm_addr : ~WarmedAbove(a, p)}' = {a \in warm_addr : ~WarmedAbove(a, p)}
      /\ {k \in warm_slot : ~WarmedSlotAbove(k, p)}' = {k \in warm_slot : ~WarmedSlotAbove(k, p)}
  BY <1>1 DEF TypeOK, tables
<1> QED
  BY <1>3, <1>4, <1>5 DEF Undoes, TopicEnd, DataEnd, tables

LEMMA UndoMarkerPop ==
  ASSUME TypeOK, LogsJournalled, jrn' = Front(jrn), Top(jrn).tag = "FRAME_CHECKPOINT",
         UNCHANGED <<tables, tx_log_start>>, NEW p \in Nat, p < Len(jrn), NEW sv, Undoes(p, sv)
  PROVE  Undoes(p, sv)'
<1>1. /\ \A a \in Addr : WarmedAbove(a, p)' <=> WarmedAbove(a, p)
      /\ \A k \in Key : WarmedSlotAbove(k, p)' <=> WarmedSlotAbove(k, p)
  BY AbovePop
<1>2. LogsBelow(p)' = LogsBelow(p)
  BY LogsPop DEF tables
<1>3. TransientBefore(p, sv[3])'
  BY TransientPop DEF Undoes, tables
<1>4. /\ {a \in warm_addr : ~WarmedAbove(a, p)}' = {a \in warm_addr : ~WarmedAbove(a, p)}
      /\ {k \in warm_slot : ~WarmedSlotAbove(k, p)}' = {k \in warm_slot : ~WarmedSlotAbove(k, p)}
  BY <1>1 DEF TypeOK, tables
<1> QED
  BY <1>2, <1>3, <1>4 DEF Undoes, TopicEnd, DataEnd, tables

(* One turn of the revert loop brings the tables one entry closer to every *)
(* snapshot below it.                                                      *)
LEMMA UndoPop ==
  ASSUME TypeOK, LogsJournalled, journal_revert_to, NEW p \in Nat, p < Len(jrn), NEW sv,
         Undoes(p, sv)
  PROVE  Undoes(p, sv)' /\ LogsJournalled'
<1> DEFINE A == {a \in warm_addr : ~WarmedAbove(a, p)}
           S == {k \in warm_slot : ~WarmedSlotAbove(k, p)}
           G == SubSeq(logs, 1, LogsBelow(p))
           T == SubSeq(log_topics, 1, TopicEnd(LogsBelow(p)))
           D == SubSeq(log_data, 1, DataEnd(LogsBelow(p)))
           e == Top(jrn)
<1>1. /\ warm_addr \subseteq Addr /\ warm_slot \subseteq Key /\ transient \in [Key -> Word]
      /\ jrn \in Seq(Entry) /\ Len(jrn) > 0
  BY DEF TypeOK
<1>2. SUFFICES /\ A' = A /\ S' = S /\ G' = G /\ T' = T /\ D' = D /\ TransientBefore(p, sv[3])'
               /\ LogsJournalled'
  BY DEF Undoes
<1>3. TransientBefore(p, sv[3])
  BY DEF Undoes
<1>4. e \in Entry /\ jrn' = Front(jrn) /\ Invert(e) /\ tx_log_start' = tx_log_start
  BY <1>1, Popped DEF journal_revert_to, Front, Top
<1>5. /\ \A a \in Addr : WarmedAbove(a, p) <=>
           (WarmedAbove(a, p)' \/ (e.tag = "WARMA" /\ e.addr = a))
      /\ \A k \in Key : WarmedSlotAbove(k, p) <=>
           (WarmedSlotAbove(k, p)' \/ (e.tag = "WARMS" /\ e.key = k))
  BY <1>4, AbovePop
<1>6. /\ e.tag = "TRAN" => e.key \in Key /\ e.prior \in Word
      /\ e.tag = "WARMA" => e.addr \in Addr
      /\ e.tag = "WARMS" => e.key \in Key
      /\ e.tag \in {"TRAN", "WARMA", "WARMS", "LOG", "FRAME_CHECKPOINT", "FRAME_COMMIT"}
  BY <1>4, EntryFields
<1>7. e.tag # "LOG" => UNCHANGED <<logs, log_topics, log_data>>
  BY <1>4, <1>6 DEF Invert, tables
<1>8. /\ (e.tag = "WARMA" /\ warm_addr' = warm_addr \ {e.addr}) \/ (e.tag # "WARMA" /\ warm_addr' = warm_addr)
      /\ (e.tag = "WARMS" /\ warm_slot' = warm_slot \ {e.key}) \/ (e.tag # "WARMS" /\ warm_slot' = warm_slot)
      /\ \/ e.tag # "TRAN" /\ transient' = transient
         \/ e.tag = "TRAN" /\ transient' = [transient EXCEPT ![e.key] = e.prior]
  BY <1>4, <1>6 DEF Invert, tables
<1>9. TransientBefore(p, sv[3])'
  BY <1>3, <1>4, <1>8, TransientPop
<1>10. G' = G /\ T' = T /\ D' = D /\ LogsJournalled'
  <2>1. CASE e.tag = "LOG"
    BY <2>1, LogPartsCut, LogsCut
  <2>2. CASE e.tag # "LOG"
    <3>1. LogsJournalled' /\ LogsBelow(p)' = LogsBelow(p)
      BY <1>4, <1>7, <2>2, LogsPop
    <3> QED
      BY <1>7, <2>2, <3>1 DEF TopicEnd, DataEnd
  <2> QED
    BY <2>1, <2>2
<1> HIDE DEF e
<1>11. A' = A
  BY <1>1, <1>5, <1>8
<1>12. S' = S
  BY <1>1, <1>5, <1>8
<1> QED
  BY <1>9, <1>10, <1>11, <1>12
----------------------------------------------------------------------------
(* FramesUndo after a step, from what the step does to one snapshot. *)
LEMMA UndoAll ==
  ASSUME marks' \in Seq(Nat), saved' \in Seq(Saved), Len(saved') = Len(marks'),
         \A p \in Nat, sv \in Saved :
           (\E i \in 1 .. Len(marks') : p = marks'[i] /\ sv = saved'[i]) => Undoes(p, sv)'
  PROVE  FramesUndo'
<1>1. SUFFICES ASSUME NEW i \in 1 .. Len(marks')
               PROVE  Undoes(marks[i], saved[i])'
  BY DEF FramesUndo
<1>2. marks'[i] \in Nat /\ saved'[i] \in Saved
  OBVIOUS
<1>3. PICK p \in Nat, sv \in Saved : p = marks'[i] /\ sv = saved'[i]
  BY <1>2
<1>4. Undoes(p, sv)'
  BY <1>3
<1> QED
  BY <1>3, <1>4 DEF Undoes, TransientBefore, WarmedAbove, WarmedSlotAbove, WritesKey,
                    LogsBelow, TopicEnd, DataEnd

(* Types, one action at a time.  The marker a revert is directed at is in  *)
(* the journal only because the frames nest.                               *)
LEMMA TypeStep ==
  ASSUME TypeOK, FramesNest, LogsJournalled, FNext
  PROVE  TypeOK'
<1>0. /\ warm_addr \in SUBSET Addr /\ warm_slot \in SUBSET Key /\ transient \in [Key -> Word]
      /\ logs \in Seq(LogRecord) /\ log_topics \in Seq(Word) /\ log_data \in Seq(Word)
      /\ tx_log_start \in Nat /\ jrn \in Seq(Entry) /\ Len(jrn) \in Nat
      /\ target \in 0 .. Len(jrn)
  BY DEF TypeOK
<1>1. ASSUME NEW e \in Entry, jrn' = Append(jrn, e), target' = target
      PROVE  jrn' \in Seq(Entry) /\ target' \in 0 .. Len(jrn')
  BY <1>0, <1>1, Pushed
<1>2. ASSUME NEW a \in Addr, account_mark_warm(a)
      PROVE  TypeOK'
  <2>1. WarmAddrEntry(a) \in Entry
    BY DEF WarmAddrEntry, Entry
  <2> QED
    BY <1>0, <1>1, <1>2, <2>1 DEF TypeOK, account_mark_warm
<1>3. ASSUME NEW k \in Key, storage_mark_warm(k)
      PROVE  TypeOK'
  <2>1. WarmSlotEntry(k) \in Entry
    BY DEF WarmSlotEntry, Entry
  <2> QED
    BY <1>0, <1>1, <1>3, <2>1 DEF TypeOK, storage_mark_warm
<1>4. ASSUME NEW k \in Key, NEW v \in Word, transient_storage_write(k, v)
      PROVE  TypeOK'
  <2>1. TransientEntry(k, transient[k]) \in Entry
    BY <1>0 DEF TransientEntry, Entry
  <2> QED
    BY <1>0, <1>1, <1>4, <2>1 DEF TypeOK, transient_storage_write
<1>5. ASSUME NEW a \in Addr, NEW t \in TopicLists, NEW d \in DataLists, k_log(a, t, d)
      PROVE  TypeOK'
  <2>1. LogEntry \in Entry
    BY DEF LogEntry, Entry
  <2>2. logs' \in Seq(LogRecord) /\ log_topics' \in Seq(Word) /\ log_data' \in Seq(Word)
    BY <1>5, LogsAppend
  <2>3. jrn' \in Seq(Entry) /\ target' \in 0 .. Len(jrn')
    BY <1>1, <1>5, <2>1 DEF k_log
  <2> QED
    BY <1>0, <1>5, <2>2, <2>3 DEF TypeOK, k_log
<1>6. ASSUME state_journal_checkpoint \/ state_journal_commit
      PROVE  TypeOK'
  <2>1. CheckpointEntry \in Entry /\ CommitEntry \in Entry
    BY DEF CheckpointEntry, CommitEntry, Entry
  <2> QED
    BY <1>0, <1>1, <1>6, <2>1
    DEF TypeOK, state_journal_checkpoint, state_journal_commit, tables
<1>7. ASSUME state_journal_revert, UNCHANGED <<saved, marks>>
      PROVE  TypeOK'
  <2>1. target' \in 1 .. Len(jrn)
    BY <1>7, NestRevert
  <2> QED
    BY <1>0, <1>7, <2>1 DEF TypeOK, state_journal_revert, tables
<1>8. ASSUME journal_revert_to
      PROVE  TypeOK'
  <2> DEFINE e == Top(jrn)
  <2>1. jrn' = Front(jrn) /\ Len(jrn) > target /\ target' = target /\ Invert(e)
        /\ tx_log_start' = tx_log_start
    BY <1>8 DEF journal_revert_to, Front, Top
  <2>2. Len(jrn) > 0
    BY <1>0, <2>1
  <2>3. e \in Entry /\ jrn' \in Seq(Entry) /\ Len(jrn') = Len(jrn) - 1
    BY <1>0, <2>1, <2>2, Popped
  <2>4. target' \in 0 .. Len(jrn')
    BY <1>0, <2>1, <2>3
  <2>5. e.tag = "LOG" => /\ logs' \in Seq(LogRecord)
                         /\ log_topics' \in Seq(Word) /\ log_data' \in Seq(Word)
                         /\ UNCHANGED <<warm_addr, warm_slot, transient>>
    BY <1>8, <2>1, LogsCut DEF Invert
  <2>6. e.tag = "TRAN" => e.key \in Key /\ e.prior \in Word
    BY <2>3, EntryFields
  <2> HIDE DEF e
  <2>7. /\ warm_addr' \in SUBSET Addr /\ warm_slot' \in SUBSET Key
        /\ transient' \in [Key -> Word] /\ logs' \in Seq(LogRecord)
        /\ log_topics' \in Seq(Word) /\ log_data' \in Seq(Word)
    BY <1>0, <2>1, <2>5, <2>6 DEF Invert, tables
  <2> QED
    BY <1>0, <2>1, <2>3, <2>4, <2>7 DEF TypeOK
<1>9. ASSUME state_journal_revert_done
      PROVE  TypeOK'
  <2>1. target - 1 \in 0 .. Len(jrn) /\ jrn' = SubSeq(jrn, 1, target - 1) /\ target' = 0
    BY <1>0, <1>9 DEF state_journal_revert_done, Idle
  <2>2. jrn' \in Seq(Entry) /\ Len(jrn') \in Nat
    BY <1>0, <2>1, Cut
  <2> QED
    BY <1>0, <1>9, <2>1, <2>2 DEF TypeOK, state_journal_revert_done, tables
<1>10. ASSUME k_tx_reset
       PROVE  TypeOK'
  BY <1>0, <1>10, ZeroAssumption DEF TypeOK, k_tx_reset, Idle
<1> QED
  BY <1>2, <1>3, <1>4, <1>5, <1>6, <1>7, <1>8, <1>9, <1>10
  DEF FNext, Mutate, FCheckpoint, FClose
(* What IInv says of the frame at one position of the stack. *)
LEMMA FrameFacts ==
  ASSUME IInv, NEW i \in 1 .. Len(marks)
  PROVE  /\ marks[i] \in Nat /\ marks[i] \in 1 .. Len(jrn) /\ marks[i] <= marks[Len(marks)]
         /\ saved[i] \in Saved /\ Undoes(marks[i], saved[i])
<1>1. marks \in Seq(Nat) /\ saved \in Seq(Saved) /\ Len(saved) = Len(marks) /\ Chain(jrn, marks)
  BY DEF IInv, FramesNest
<1>2. Len(marks) \in 1 .. Len(marks) /\ (i = Len(marks) \/ i < Len(marks))
  BY <1>1
<1>3. \A a, b \in 1 .. Len(marks) : a < b => marks[a] < marks[b]
  BY <1>1 DEF Chain
<1>4. marks[i] \in Nat /\ marks[Len(marks)] \in Nat
  BY <1>1, <1>2
<1>5. marks[i] <= marks[Len(marks)]
  BY <1>2, <1>3, <1>4
<1>6. marks[i] \in 1 .. Len(jrn)
  BY <1>1 DEF Chain
<1>7. saved[i] \in Saved
  BY <1>1
<1> QED
  BY <1>4, <1>5, <1>6, <1>7 DEF IInv, FramesUndo

(* A step that leaves journal and tables alone. *)
LEMMA UndoStutter ==
  ASSUME IInv, FramesNest', UNCHANGED <<tables, tx_log_start, jrn, saved, marks>>
  PROVE  LogsJournalled' /\ FramesUndo'
<1>1. LogsJournalled'
  BY DEF IInv, LogsJournalled, tables
<1>2. ASSUME NEW p \in Nat, NEW sv, Undoes(p, sv)
      PROVE  Undoes(p, sv)'
  <2>1. LogsBelow(p)' = LogsBelow(p)
    BY DEF LogsBelow, tables
  <2>2. /\ {a \in warm_addr : ~WarmedAbove(a, p)}' = {a \in warm_addr : ~WarmedAbove(a, p)}
        /\ {k \in warm_slot : ~WarmedSlotAbove(k, p)}' = {k \in warm_slot : ~WarmedSlotAbove(k, p)}
    BY DEF tables, WarmedAbove, WarmedSlotAbove
  <2>3. TransientBefore(p, sv[3])'
    BY <1>2 DEF Undoes, TransientBefore, WritesKey, tables
  <2> QED
    BY <1>2, <2>1, <2>2, <2>3 DEF Undoes, TopicEnd, DataEnd, tables
<1>3. \A p \in Nat, sv \in Saved :
        (\E i \in 1 .. Len(marks') : p = marks'[i] /\ sv = saved'[i]) => Undoes(p, sv)'
  BY <1>2, FrameFacts
<1> QED
  BY <1>1, <1>3, UndoAll DEF FramesNest

(* A revert that has popped down to its marker has the marker's snapshot. *)
LEMMA DoneIsSnapshot ==
  ASSUME IInv, state_journal_revert_done
  PROVE  tables = saved[Len(saved)]
<1>1. /\ marks # <<>> /\ target = marks[Len(marks)] /\ Len(jrn) = target
      /\ marks \in Seq(Nat) /\ Len(saved) = Len(marks) /\ TypeOK
  BY DEF IInv, FramesNest, state_journal_revert_done, Top
<1>2. Len(marks) \in 1 .. Len(marks)
  BY <1>1
<1> DEFINE sv == saved[Len(marks)]
           p == Len(jrn)
<1>3. Undoes(p, sv) /\ p \in Nat
  BY <1>1, <1>2, FrameFacts
<1>4. Count(jrn, "LOG", p, Len(jrn)) = 0
  BY <1>3, CountOne
<1>5. \A q \in (p + 1) .. Len(jrn) : FALSE
  BY <1>3
<1>6. LogsBelow(p) = Len(logs)
  BY <1>1, <1>4 DEF LogsBelow, TypeOK
<1>7. TopicEnd(LogsBelow(p)) = Len(log_topics) /\ DataEnd(LogsBelow(p)) = Len(log_data)
  BY <1>6 DEF TopicEnd, DataEnd
<1>8. /\ SubSeq(logs, 1, LogsBelow(p)) = logs
      /\ SubSeq(log_topics, 1, TopicEnd(LogsBelow(p))) = log_topics
      /\ SubSeq(log_data, 1, DataEnd(LogsBelow(p))) = log_data
  BY <1>1, <1>6, <1>7, CutAll DEF TypeOK
<1>9. /\ {a \in warm_addr : ~WarmedAbove(a, p)} = warm_addr
      /\ {k \in warm_slot : ~WarmedSlotAbove(k, p)} = warm_slot
  BY <1>5 DEF WarmedAbove, WarmedSlotAbove
<1>10. sv[3] = transient
  <2>1. sv[3] \in [Key -> Word] /\ transient \in [Key -> Word]
    BY <1>1, <1>3 DEF Undoes, TransientBefore, TypeOK
  <2>2. \A k \in Key : sv[3][k] = transient[k]
    BY <1>3, <1>5 DEF Undoes, TransientBefore
  <2> HIDE DEF sv
  <2> QED
    BY <2>1, <2>2
<1> HIDE DEF sv, p
<1>11. sv = <<warm_addr, warm_slot, transient, logs, log_topics, log_data>>
  BY <1>3, <1>8, <1>9, <1>10 DEF Undoes
<1> QED
  BY <1>1, <1>11 DEF sv, tables

LEMMA InitInv == FInit => IInv
<1> SUFFICES ASSUME FInit PROVE IInv
  OBVIOUS
<1>1. /\ warm_addr = {} /\ warm_slot = {} /\ transient = [k \in Key |-> Zero]
      /\ logs = <<>> /\ log_topics = <<>> /\ log_data = <<>> /\ tx_log_start = 0
      /\ jrn = <<>> /\ target = 0 /\ saved = <<>> /\ marks = <<>>
  BY DEF FInit, Init
<1>2. TypeOK
  BY <1>1, ZeroAssumption DEF TypeOK
<1>3. FramesNest
  <2>1. Balanced(jrn, 0, 0)
    BY BalancedEmpty
  <2>2. Len(marks) = 0 /\ Len(jrn) = 0 /\ Floor(marks, 0) = 0
    BY <1>1 DEF Floor
  <2>3. Chain(jrn, marks)
    BY <2>2 DEF Chain
  <2> QED
    BY <1>1, <2>1, <2>2, <2>3 DEF FramesNest, Idle
<1>4. LogsJournalled
  <2>1. Len(jrn) = 0 /\ Len(logs) = 0 /\ tx_log_start = 0
    BY <1>1
  <2>2. Count(jrn, "LOG", 0, 0) = 0
    BY CountOne
  <2> QED
    BY <2>1, <2>2 DEF LogsJournalled
<1>5. FramesUndo
  BY <1>1 DEF FramesUndo
<1> QED
  BY <1>2, <1>3, <1>4, <1>5 DEF IInv

(* The invariant is inductive. *)
LEMMA StepInv == IInv /\ [FNext]_fvars => IInv'
<1> SUFFICES ASSUME IInv, [FNext]_fvars PROVE IInv'
  OBVIOUS
<1>0. TypeOK /\ FramesNest /\ LogsJournalled /\ FramesUndo
  BY DEF IInv
<1>1. CASE Mutate /\ UNCHANGED <<saved, marks>>
  <2>1. TypeOK'
    BY <1>0, <1>1, TypeStep DEF FNext
  <2>2. PICK e \in Entry : jrn' = Append(jrn, e) /\ e.tag \notin {"FRAME_CHECKPOINT", "FRAME_COMMIT"}
    <3>1. \A a \in Addr : WarmAddrEntry(a) \in Entry /\ WarmAddrEntry(a).tag = "WARMA"
      BY DEF WarmAddrEntry, Entry
    <3>2. \A k \in Key : WarmSlotEntry(k) \in Entry /\ WarmSlotEntry(k).tag = "WARMS"
      BY DEF WarmSlotEntry, Entry
    <3>3. \A k \in Key : TransientEntry(k, transient[k]) \in Entry /\ TransientEntry(k, transient[k]).tag = "TRAN"
      <4>1. transient \in [Key -> Word]
        BY <1>0 DEF TypeOK
      <4> QED
        BY <4>1 DEF TransientEntry, Entry
    <3>4. LogEntry \in Entry /\ LogEntry.tag = "LOG"
      BY DEF LogEntry, Entry
    <3>5. \E e \in Entry : jrn' = Append(jrn, e) /\ e.tag \in {"WARMA", "WARMS", "TRAN", "LOG"}
      BY <1>1, <3>1, <3>2, <3>3, <3>4
      DEF Mutate, account_mark_warm, storage_mark_warm, transient_storage_write, k_log
    <3> QED
      BY <3>5
  <2>3. Idle /\ target' = target
    BY <1>1 DEF Mutate, account_mark_warm, storage_mark_warm, transient_storage_write, k_log
  <2>4. FramesNest'
    BY <1>0, <1>1, <2>2, <2>3, NestPlain
  <2>5. LogsJournalled'
    <3>1. ASSUME NEW a \in Addr, account_mark_warm(a) PROVE LogsJournalled'
      <4>1. WarmAddrEntry(a) \in Entry /\ WarmAddrEntry(a).tag # "LOG"
        BY DEF WarmAddrEntry, Entry
      <4> QED
        BY <1>0, <3>1, <4>1, LogsPush DEF account_mark_warm
    <3>2. ASSUME NEW k \in Key, storage_mark_warm(k) PROVE LogsJournalled'
      <4>1. WarmSlotEntry(k) \in Entry /\ WarmSlotEntry(k).tag # "LOG"
        BY DEF WarmSlotEntry, Entry
      <4> QED
        BY <1>0, <3>2, <4>1, LogsPush DEF storage_mark_warm
    <3>3. ASSUME NEW k \in Key, NEW v \in Word, transient_storage_write(k, v) PROVE LogsJournalled'
      <4>0. transient \in [Key -> Word]
        BY <1>0 DEF TypeOK
      <4>1. TransientEntry(k, transient[k]) \in Entry /\ TransientEntry(k, transient[k]).tag # "LOG"
        BY <4>0 DEF TransientEntry, Entry
      <4> QED
        BY <1>0, <3>3, <4>1, LogsPush DEF transient_storage_write
    <3> QED
      BY <1>0, <1>1, <3>1, <3>2, <3>3, LogsAppend DEF Mutate
  <2>6. FramesUndo'
    <3>1. \A p \in Nat, sv \in Saved :
            (\E i \in 1 .. Len(marks') : p = marks'[i] /\ sv = saved'[i]) => Undoes(p, sv)'
      <4>1. TAKE p \in Nat, sv \in Saved
      <4>2. SUFFICES ASSUME NEW i \in 1 .. Len(marks), p = marks[i], sv = saved[i]
                     PROVE  Undoes(p, sv)'
        BY <1>1
      <4>3. p \in 0 .. Len(jrn) /\ Undoes(p, sv)
        BY <4>2, FrameFacts
      <4> QED
        BY <1>0, <1>1, <4>3, UndoMutate
    <3> QED
      BY <1>0, <1>1, <3>1, UndoAll DEF FramesNest
  <2> QED
    BY <2>1, <2>4, <2>5, <2>6 DEF IInv
<1>2. CASE FCheckpoint
  <2>1. TypeOK' /\ FramesNest'
    BY <1>0, <1>2, TypeStep, NestCheckpoint DEF FNext
  <2>2. /\ jrn' = Append(jrn, CheckpointEntry) /\ UNCHANGED tables /\ UNCHANGED tx_log_start
        /\ saved' = Append(saved, tables) /\ marks' = Append(marks, Len(jrn) + 1)
    BY <1>2 DEF FCheckpoint, state_journal_checkpoint
  <2>3. CheckpointEntry \in Entry /\ CheckpointEntry.tag = "FRAME_CHECKPOINT"
    BY DEF CheckpointEntry, Entry
  <2>4. LogsJournalled'
    BY <1>0, <2>2, <2>3, LogsPush DEF tables
  <2>5. ASSUME NEW p \in 0 .. Len(jrn), NEW sv, Undoes(p, sv)
        PROVE  Undoes(p, sv)'
    BY <1>0, <2>2, <2>3, <2>5, UndoMarkerPush
  <2>6. ASSUME NEW p \in Nat, NEW sv, p = Len(jrn) + 1, sv = tables
        PROVE  Undoes(p, sv)'
    <3>1. jrn \in Seq(Entry) /\ Len(jrn') = p
      BY <1>0, <2>2, <2>3, <2>6, Pushed DEF TypeOK
    <3>2. Count(jrn', "LOG", p, Len(jrn')) = 0
      BY <2>6, <3>1, CountOne
    <3>3. \A q \in (p + 1) .. Len(jrn') : FALSE
      BY <3>1
    <3>4. LogsBelow(p)' = Len(logs)
      BY <1>0, <2>2, <3>2 DEF LogsBelow, TypeOK, tables
    <3>5. TopicEnd(LogsBelow(p))' = Len(log_topics) /\ DataEnd(LogsBelow(p))' = Len(log_data)
      BY <2>2, <3>4 DEF TopicEnd, DataEnd, tables
    <3>6. /\ SubSeq(logs, 1, LogsBelow(p))' = logs
          /\ SubSeq(log_topics, 1, TopicEnd(LogsBelow(p)))' = log_topics
          /\ SubSeq(log_data, 1, DataEnd(LogsBelow(p)))' = log_data
      BY <1>0, <2>2, <3>4, <3>5, CutAll DEF TypeOK, tables
    <3>7. /\ {a \in warm_addr : ~WarmedAbove(a, p)}' = warm_addr
          /\ {k \in warm_slot : ~WarmedSlotAbove(k, p)}' = warm_slot
      BY <2>2, <3>3 DEF WarmedAbove, WarmedSlotAbove, tables
    <3>8. sv[3] = transient
      BY <2>6 DEF tables
    <3>9. TransientBefore(p, sv[3])'
      BY <1>0, <2>2, <3>3, <3>8 DEF TransientBefore, TypeOK, tables
    <3>10. sv = <<warm_addr, warm_slot, sv[3], logs, log_topics, log_data>>
      BY <2>6, <3>8 DEF tables
    <3> QED
      BY <3>6, <3>7, <3>9, <3>10 DEF Undoes
  <2>7. FramesUndo'
    <3>0. marks \in Seq(Nat) /\ saved \in Seq(Saved) /\ Len(saved) = Len(marks) /\ Len(jrn) \in Nat
      BY <1>0 DEF FramesNest, TypeOK
    <3>1. /\ Len(marks') = Len(marks) + 1 /\ marks'[Len(marks) + 1] = Len(jrn) + 1
          /\ \A i \in 1 .. Len(marks) : marks'[i] = marks[i]
      BY <2>2, <3>0
    <3>2. tables \in Saved
      BY <1>0 DEF TypeOK, tables, Saved
    <3>3. saved'[Len(marks) + 1] = tables /\ \A i \in 1 .. Len(marks) : saved'[i] = saved[i]
      BY <2>2, <3>0, <3>2
    <3>4. \A p \in Nat, sv \in Saved :
            (\E i \in 1 .. Len(marks') : p = marks'[i] /\ sv = saved'[i]) => Undoes(p, sv)'
      <4>1. TAKE p \in Nat, sv \in Saved
      <4>2. SUFFICES ASSUME NEW i \in 1 .. Len(marks'), p = marks'[i], sv = saved'[i]
                     PROVE  Undoes(p, sv)'
        OBVIOUS
      <4>3. CASE i = Len(marks) + 1
        BY <2>6, <3>1, <3>3, <4>2, <4>3
      <4>4. CASE i # Len(marks) + 1
        <5>1. i \in 1 .. Len(marks)
          BY <3>0, <3>1, <4>4
        <5>2. p \in 0 .. Len(jrn) /\ Undoes(p, sv)
          BY <3>1, <3>3, <4>2, <5>1, FrameFacts
        <5> QED
          BY <2>5, <5>2
      <4> QED
        BY <4>3, <4>4
    <3> QED
      BY <2>1, <3>4, UndoAll DEF FramesNest
  <2> QED
    BY <2>1, <2>4, <2>7 DEF IInv
<1>3. CASE FClose(state_journal_commit)
  <2>1. TypeOK' /\ FramesNest'
    BY <1>0, <1>3, TypeStep, NestCommit DEF FNext
  <2>2. /\ jrn' = Append(jrn, CommitEntry) /\ UNCHANGED tables /\ UNCHANGED tx_log_start
        /\ saved' = Front(saved) /\ marks' = Front(marks) /\ InFrame /\ Idle
    BY <1>3 DEF FClose, state_journal_commit
  <2>3. CommitEntry \in Entry /\ CommitEntry.tag = "FRAME_COMMIT"
    BY DEF CommitEntry, Entry
  <2>4. LogsJournalled'
    BY <1>0, <2>2, <2>3, LogsPush DEF tables
  <2>5. marks # <<>>
    BY <1>0, <2>2, NestMarker DEF MarkerIsInnermost
  <2>6. \A i \in 1 .. Len(marks') : i \in 1 .. Len(marks) /\ marks'[i] = marks[i] /\ saved'[i] = saved[i]
    BY <1>0, <2>2, <2>5, FrontAgree DEF FramesNest
  <2>7. \A p \in Nat, sv \in Saved :
          (\E i \in 1 .. Len(marks') : p = marks'[i] /\ sv = saved'[i]) => Undoes(p, sv)'
    <3>1. TAKE p \in Nat, sv \in Saved
    <3>2. SUFFICES ASSUME NEW i \in 1 .. Len(marks'), p = marks'[i], sv = saved'[i]
                   PROVE  Undoes(p, sv)'
      OBVIOUS
    <3>3. p \in 0 .. Len(jrn) /\ Undoes(p, sv)
      BY <2>6, <3>2, FrameFacts
    <3> QED
      BY <1>0, <2>2, <2>3, <3>3, UndoMarkerPush
  <2>8. FramesUndo'
    BY <2>1, <2>7, UndoAll DEF FramesNest
  <2> QED
    BY <2>1, <2>4, <2>8 DEF IInv
<1>4. CASE state_journal_revert /\ UNCHANGED <<saved, marks>>
  <2>1. TypeOK' /\ FramesNest'
    BY <1>0, <1>4, TypeStep, NestRevert DEF FNext
  <2>2. UNCHANGED <<tables, tx_log_start, jrn, saved, marks>>
    BY <1>4 DEF state_journal_revert
  <2>3. LogsJournalled' /\ FramesUndo'
    BY <1>0, <2>1, <2>2, UndoStutter
  <2> QED
    BY <2>1, <2>3 DEF IInv
<1>5. CASE journal_revert_to /\ UNCHANGED <<saved, marks>>
  <2>1. TypeOK' /\ FramesNest'
    BY <1>0, <1>5, TypeStep, NestPop DEF FNext
  <2>2. /\ marks # <<>> /\ target = marks[Len(marks)] /\ Len(jrn) > target
        /\ marks \in Seq(Nat) /\ Len(jrn) \in Nat
    BY <1>0, <1>5 DEF FramesNest, journal_revert_to, Top, TypeOK
  <2>3. Len(marks) \in 1 .. Len(marks) /\ marks[Len(marks)] \in Nat
    BY <2>2
  <2>4. \A i \in 1 .. Len(marks) : marks[i] < Len(jrn) /\ Undoes(marks[i], saved[i]) /\ marks[i] \in Nat
    BY <2>2, <2>3, FrameFacts
  <2>5. LogsJournalled'
    BY <1>0, <1>5, <2>3, <2>4, UndoPop
  <2>6. \A p \in Nat, sv \in Saved :
          (\E i \in 1 .. Len(marks') : p = marks'[i] /\ sv = saved'[i]) => Undoes(p, sv)'
    <3>1. TAKE p \in Nat, sv \in Saved
    <3>2. SUFFICES ASSUME NEW i \in 1 .. Len(marks), p = marks[i], sv = saved[i]
                   PROVE  Undoes(p, sv)'
      BY <1>5
    <3>3. p < Len(jrn) /\ Undoes(p, sv)
      BY <2>4, <3>2
    <3> QED
      BY <1>0, <1>5, <3>3, UndoPop
  <2>7. FramesUndo'
    BY <2>1, <2>6, UndoAll DEF FramesNest
  <2> QED
    BY <2>1, <2>5, <2>7 DEF IInv
<1>6. CASE FClose(state_journal_revert_done)
  <2>1. TypeOK' /\ FramesNest'
    BY <1>0, <1>6, TypeStep, NestDone DEF FNext
  <2>2. /\ marks # <<>> /\ target = marks[Len(marks)] /\ Len(jrn) = target
        /\ marks \in Seq(Nat) /\ Len(jrn) \in Nat /\ jrn \in Seq(Entry)
    BY <1>0, <1>6 DEF FramesNest, FClose, state_journal_revert_done, Top, TypeOK
  <2>3. /\ jrn' = Front(jrn) /\ Top(jrn).tag = "FRAME_CHECKPOINT"
        /\ UNCHANGED <<tables, tx_log_start>> /\ saved' = Front(saved) /\ marks' = Front(marks)
    BY <1>6, <2>2 DEF FClose, state_journal_revert_done, Front, Top
  <2>4. Len(marks) \in 1 .. Len(marks) /\ marks[Len(marks)] \in 1 .. Len(jrn)
    <3>1. Len(marks) \in 1 .. Len(marks)
      BY <2>2
    <3> QED
      BY <3>1, FrameFacts
  <2>5. LogsJournalled'
    <3>1. 0 \in Nat /\ 0 < Len(jrn)
      BY <2>2, <2>4
    <3> QED
      BY <1>0, <2>3, <3>1, LogsPop DEF tables
  <2>6. \A i \in 1 .. Len(marks') :
          i \in 1 .. Len(marks) /\ marks'[i] = marks[i] /\ saved'[i] = saved[i] /\ i < Len(marks)
    BY <1>0, <2>2, <2>3, FrontAgree DEF FramesNest
  <2>7. \A p \in Nat, sv \in Saved :
          (\E i \in 1 .. Len(marks') : p = marks'[i] /\ sv = saved'[i]) => Undoes(p, sv)'
    <3>1. TAKE p \in Nat, sv \in Saved
    <3>2. SUFFICES ASSUME NEW i \in 1 .. Len(marks'), p = marks'[i], sv = saved'[i]
                   PROVE  Undoes(p, sv)'
      OBVIOUS
    <3>3. Undoes(p, sv)
      BY <2>6, <3>2, FrameFacts
    <3>4. \A a, b \in 1 .. Len(marks) : a < b => marks[a] < marks[b]
      BY <1>0 DEF FramesNest, Chain
    <3>5. p < Len(jrn)
      BY <2>2, <2>4, <2>6, <3>2, <3>4
    <3> QED
      BY <1>0, <2>3, <3>3, <3>5, UndoMarkerPop
  <2>8. FramesUndo'
    BY <2>1, <2>7, UndoAll DEF FramesNest
  <2> QED
    BY <2>1, <2>5, <2>8 DEF IInv
<1>7. CASE k_tx_reset /\ UNCHANGED <<saved, marks>>
  <2>1. TypeOK' /\ FramesNest' /\ marks = <<>>
    BY <1>0, <1>7, TypeStep, NestReset DEF FNext
  <2>2. jrn' = <<>> /\ tx_log_start' = Len(logs) /\ UNCHANGED <<logs, log_topics, log_data>>
    BY <1>7 DEF k_tx_reset
  <2>3. Count(jrn', "LOG", 0, 0) = 0 /\ Len(jrn') = 0 /\ Len(logs) \in Nat
    BY <1>0, <2>2, CountOne DEF TypeOK
  <2>4. Len(logs') = tx_log_start' + Count(jrn', "LOG", 0, Len(jrn'))
    BY <2>2, <2>3
  <2>5. LogsJournalled'
    BY <1>0, <2>2, <2>4 DEF LogsJournalled
  <2>6. FramesUndo'
    BY <1>7, <2>1 DEF FramesUndo
  <2> QED
    BY <2>1, <2>5, <2>6 DEF IInv
<1>8. CASE UNCHANGED fvars
  <2>1. UNCHANGED <<tables, tx_log_start, jrn, target, saved, marks>>
    BY <1>8 DEF fvars, vars
  <2>2. TypeOK' /\ FramesNest'
    BY <1>0, <2>1 DEF TypeOK, FramesNest, Idle, tables
  <2> QED
    BY <1>0, <2>1, <2>2, UndoStutter DEF IInv
<1> QED
  BY <1>1, <1>2, <1>3, <1>4, <1>5, <1>6, <1>7, <1>8 DEF FNext

THEOREM Invariance == FSpec => []IInv
BY InitInv, StepInv, PTL DEF FSpec

(* Type correctness of the kernel tables and of the journal. *)
THEOREM TypeCorrect == FSpec => []TypeOK
<1>1. IInv => TypeOK
  BY DEF IInv
<1> QED
  BY <1>1, Invariance, PTL

(* state_journal_revert is always directed at the innermost open frame. *)
THEOREM RevertsInnermost == FSpec => []MarkerIsInnermost
<1>1. IInv => MarkerIsInnermost
  BY NestMarker DEF IInv
<1> QED
  BY <1>1, Invariance, PTL

(* No revert reaches the log records of an earlier transaction. *)
THEOREM EarlierLogsSafe == FSpec => []EarlierLogsKept
<1>1. IInv => EarlierLogsKept
  <2> SUFFICES ASSUME IInv PROVE EarlierLogsKept
    OBVIOUS
  <2>1. Count(jrn, "LOG", 0, Len(jrn)) \in Nat
    BY CountType DEF IInv, TypeOK
  <2> QED
    BY <2>1 DEF IInv, TypeOK, LogsJournalled, EarlierLogsKept
<1> QED
  BY <1>1, Invariance, PTL

(* The journal implements the stack of snapshots: whatever was committed   *)
(* inside it, a frame that reverts leaves the tables it was entered with.  *)
THEOREM JournalImplementsSnapshots == FSpec => RefinesSnapshots
<1>1. FInit => Snapshots!Init
  BY DEF FInit, Init, Idle, Snapshots!Init
<1>2. IInv /\ [FNext]_fvars => [Snapshots!Next]_<<tables, saved, ~Idle>>
  <2> SUFFICES ASSUME IInv, [FNext]_fvars
               PROVE  [Snapshots!Next]_<<tables, saved, ~Idle>>
    OBVIOUS
  <2>0. /\ Len(saved) = Len(marks) /\ marks \in Seq(Nat) /\ saved \in Seq(Saved)
        /\ marks # <<>> => saved # <<>>
    BY DEF IInv, FramesNest
  <2>1. CASE saved' = saved /\ target' = target
    BY <2>1 DEF Snapshots!Next, Snapshots!Work, Idle
  <2>2. CASE FCheckpoint
    BY <2>2 DEF FCheckpoint, state_journal_checkpoint, Idle, Snapshots!Next, Snapshots!Checkpoint
  <2>3. CASE FClose(state_journal_commit)
    <3>1. saved # <<>>
      BY <2>0, <2>3, NestMarker DEF IInv, FClose, state_journal_commit, MarkerIsInnermost
    <3> QED
      BY <2>3, <3>1
      DEF FClose, state_journal_commit, Front, Idle, Snapshots!Next, Snapshots!Commit, Snapshots!Outer
  <2>4. CASE state_journal_revert /\ UNCHANGED <<saved, marks>>
    <3>1. saved # <<>>
      BY <2>0, <2>4, NestMarker DEF IInv, state_journal_revert, MarkerIsInnermost
    <3>2. target' # 0
      <4>1. target' \in 1 .. Len(jrn)
        BY <2>4, NestRevert DEF IInv
      <4> QED
        BY <4>1
    <3> QED
      BY <2>4, <3>1, <3>2 DEF state_journal_revert, Idle, Snapshots!Next, Snapshots!BeginRevert
  <2>5. CASE FClose(state_journal_revert_done)
    <3>1. tables' = saved[Len(saved)]
      BY <2>5, DoneIsSnapshot DEF FClose, state_journal_revert_done
    <3> QED
      BY <2>5, <3>1
      DEF FClose, state_journal_revert_done, Front, Idle, Snapshots!Next, Snapshots!EndRevert, Snapshots!Outer
  <2>6. \/ saved' = saved /\ target' = target
        \/ FCheckpoint \/ FClose(state_journal_commit)
        \/ state_journal_revert /\ UNCHANGED <<saved, marks>>
        \/ FClose(state_journal_revert_done)
    BY DEF FNext, fvars, vars, Mutate, account_mark_warm, storage_mark_warm, transient_storage_write,
           k_log, journal_revert_to, k_tx_reset
  <2> QED
    BY <2>1, <2>2, <2>3, <2>4, <2>5, <2>6
<1> QED
  BY <1>1, <1>2, Invariance, PTL DEF FSpec, RefinesSnapshots, Snapshots!Spec

(* The arenas stay tiled by the records: k_log begins a record where the   *)
(* arena ends, and logs_revert_last cuts it there again.                   *)
LEMMA TilingStep ==
  ASSUME IInv, LogArenasTiled, [FNext]_fvars
  PROVE  LogArenasTiled'
<1> DEFINE n == Len(logs)
<1>0. /\ TypeOK /\ LogsJournalled /\ logs \in Seq(LogRecord) /\ n \in Nat
      /\ log_topics \in Seq(Word) /\ log_data \in Seq(Word)
  BY DEF IInv, TypeOK
<1>1. CASE UNCHANGED <<logs, log_topics, log_data>>
  BY <1>1 DEF LogArenasTiled
<1>2. ASSUME NEW a \in Addr, NEW t \in TopicLists, NEW d \in DataLists, k_log(a, t, d)
      PROVE  LogArenasTiled'
  <2> DEFINE rec == [addr |-> a, topic_off |-> Len(log_topics), topic_cnt |-> Len(t),
                     data_off |-> Len(log_data), data_len |-> Len(d)]
  <2>1. /\ logs' = Append(logs, rec) /\ log_topics' = log_topics \o t /\ log_data' = log_data \o d
        /\ t \in Seq(Word) /\ d \in Seq(Word)
    BY <1>2, PayloadAssumption DEF k_log
  <2>2. /\ rec.topic_off = Len(log_topics) /\ rec.data_off = Len(log_data) /\ rec \in LogRecord
        /\ rec.topic_cnt = Len(t) /\ rec.data_len = Len(d)
    BY <1>0, <2>1 DEF LogRecord
  <2> HIDE DEF rec
  <2>3. Len(logs') = n + 1 /\ logs'[n + 1] = rec /\ \A i \in 1 .. n : logs'[i] = logs[i]
    BY <1>0, <2>1, <2>2, Pushed
  <2>4. /\ Len(log_topics') = Len(log_topics) + Len(t) /\ Len(log_data') = Len(log_data) + Len(d)
        /\ n = 0 => Len(log_topics) = 0 /\ Len(log_data) = 0
    BY <1>0, <2>1 DEF LogArenasTiled
  <2>5. \A i \in 1 .. n :
          /\ logs[i].topic_off + logs[i].topic_cnt = IF i < n THEN logs[i + 1].topic_off ELSE Len(log_topics)
          /\ logs[i].data_off + logs[i].data_len = IF i < n THEN logs[i + 1].data_off ELSE Len(log_data)
    BY DEF LogArenasTiled
  <2>6. n > 0 => logs[1].topic_off = 0 /\ logs[1].data_off = 0
    BY <1>0 DEF LogArenasTiled
  <2> HIDE DEF n
  <2>7. ASSUME NEW i \in 1 .. Len(logs')
        PROVE  /\ logs'[i].topic_off + logs'[i].topic_cnt =
                    IF i < Len(logs') THEN logs'[i + 1].topic_off ELSE Len(log_topics')
               /\ logs'[i].data_off + logs'[i].data_len =
                    IF i < Len(logs') THEN logs'[i + 1].data_off ELSE Len(log_data')
    <3>1. CASE i = n + 1
      <4>1. ~(i < Len(logs')) /\ logs'[i] = rec
        BY <1>0, <2>3, <3>1
      <4> QED
        BY <2>2, <2>4, <4>1
    <3>2. CASE i = n
      <4>1. i \in 1 .. n /\ i < Len(logs') /\ ~(i < n)
        BY <1>0, <2>3, <3>2
      <4> QED
        BY <2>2, <2>3, <2>5, <3>2, <4>1
    <3>3. CASE i # n /\ i # n + 1
      <4>1. i \in 1 .. n /\ i + 1 \in 1 .. n /\ i < n /\ i < Len(logs')
        BY <1>0, <2>3, <3>3
      <4> QED
        BY <2>3, <2>5, <4>1
    <3> QED
      BY <3>1, <3>2, <3>3
  <2>8. logs' # <<>> /\ logs'[1].topic_off = 0 /\ logs'[1].data_off = 0
    <3>1. CASE n = 0
      <4>1. logs'[1] = rec /\ Len(logs') = 1
        BY <2>3, <3>1
      <4>2. logs' # <<>>
        BY <4>1
      <4> QED
        BY <2>2, <2>4, <3>1, <4>1, <4>2
    <3>2. CASE n # 0
      <4>1. 1 \in 1 .. n /\ n > 0 /\ Len(logs') # 0
        BY <1>0, <2>3, <3>2
      <4> QED
        BY <2>3, <2>6, <4>1
    <3> QED
      BY <3>1, <3>2
  <2> QED
    BY <2>7, <2>8 DEF LogArenasTiled
<1>3. ASSUME journal_revert_to, Top(jrn).tag = "LOG"
      PROVE  LogArenasTiled'
  <2>1. /\ logs # <<>> /\ logs' = SubSeq(logs, 1, n - 1)
        /\ log_topics' = SubSeq(log_topics, 1, logs[n].topic_off)
        /\ log_data' = SubSeq(log_data, 1, logs[n].data_off)
    BY <1>3 DEF journal_revert_to, Invert, Top, logs_revert_last
  <2>2. /\ n \in 1 .. n /\ n - 1 \in 0 .. Len(logs)
        /\ logs[n].topic_off \in 0 .. Len(log_topics) /\ logs[n].data_off \in 0 .. Len(log_data)
    <3>1. n \in 1 .. n
      BY <1>0, <2>1
    <3>2. logs[n].topic_off \in Nat /\ logs[n].data_off \in Nat
      BY <1>0, <3>1, RecordFields
    <3> QED
      BY <1>0, <3>1, <3>2 DEF LogsJournalled
  <2>3. Len(logs') = n - 1 /\ \A i \in 1 .. (n - 1) : logs'[i] = logs[i]
    BY <1>0, <2>1, <2>2, Cut
  <2>4. /\ Len(log_topics') = logs[n].topic_off /\ log_topics' \in Seq(Word)
        /\ Len(log_data') = logs[n].data_off /\ log_data' \in Seq(Word)
    <3>1. Len(log_topics') = logs[n].topic_off /\ log_topics' \in Seq(Word)
      BY <1>0, <2>1, <2>2, Cut
    <3>2. Len(log_data') = logs[n].data_off /\ log_data' \in Seq(Word)
      BY <1>0, <2>1, <2>2, Cut
    <3> QED
      BY <3>1, <3>2
  <2>5. \A i \in 1 .. n :
          /\ logs[i].topic_off + logs[i].topic_cnt = IF i < n THEN logs[i + 1].topic_off ELSE Len(log_topics)
          /\ logs[i].data_off + logs[i].data_len = IF i < n THEN logs[i + 1].data_off ELSE Len(log_data)
    BY DEF LogArenasTiled
  <2>6. logs[1].topic_off = 0 /\ logs[1].data_off = 0
    BY <2>1 DEF LogArenasTiled
  <2>7. logs' \in Seq(LogRecord)
    BY <1>0, <2>1, <2>2, Cut
  <2> HIDE DEF n
  <2>8. ASSUME NEW i \in 1 .. Len(logs')
        PROVE  /\ logs'[i].topic_off + logs'[i].topic_cnt =
                    IF i < Len(logs') THEN logs'[i + 1].topic_off ELSE Len(log_topics')
               /\ logs'[i].data_off + logs'[i].data_len =
                    IF i < Len(logs') THEN logs'[i + 1].data_off ELSE Len(log_data')
    <3>1. i \in 1 .. n /\ i \in 1 .. (n - 1) /\ i < n
      BY <1>0, <2>3
    <3>2. CASE i = n - 1
      <4>1. ~(i < Len(logs')) /\ i + 1 = n
        BY <1>0, <2>3, <3>2
      <4> QED
        BY <2>3, <2>4, <2>5, <3>1, <4>1
    <3>3. CASE i # n - 1
      <4>1. i < Len(logs') /\ i + 1 \in 1 .. (n - 1)
        BY <1>0, <2>3, <3>1, <3>3
      <4> QED
        BY <2>3, <2>5, <3>1, <4>1
    <3> QED
      BY <3>2, <3>3
  <2>9. logs' # <<>> => logs'[1].topic_off = 0 /\ logs'[1].data_off = 0
    <3>1. SUFFICES ASSUME logs' # <<>> PROVE 1 \in 1 .. (n - 1)
      BY <2>3, <2>6
    <3> QED
      BY <1>0, <2>3, <2>7, <3>1
  <2>10. logs' = <<>> => log_topics' = <<>> /\ log_data' = <<>>
    <3>1. SUFFICES ASSUME logs' = <<>> PROVE log_topics' = <<>> /\ log_data' = <<>>
      OBVIOUS
    <3>2. n = 1
      BY <1>0, <2>2, <2>3, <3>1
    <3>3. Len(log_topics') = 0 /\ Len(log_data') = 0
      BY <2>4, <2>6, <3>2
    <3> QED
      BY <2>4, <3>3
  <2> QED
    BY <2>8, <2>9, <2>10 DEF LogArenasTiled
<1>4. ASSUME journal_revert_to, Top(jrn).tag # "LOG"
      PROVE  UNCHANGED <<logs, log_topics, log_data>>
  BY <1>4 DEF journal_revert_to, Invert, Top, tables
<1>5. \/ UNCHANGED <<logs, log_topics, log_data>>
      \/ \E a \in Addr, t \in TopicLists, d \in DataLists : k_log(a, t, d)
      \/ journal_revert_to
  BY DEF FNext, Mutate, account_mark_warm, storage_mark_warm, transient_storage_write,
         FCheckpoint, FClose, state_journal_checkpoint, state_journal_commit,
         state_journal_revert, state_journal_revert_done, k_tx_reset, fvars, vars, tables
<1> QED
  BY <1>1, <1>2, <1>3, <1>4, <1>5

THEOREM ArenasTiled == FSpec => []LogArenasTiled
<1>1. FInit => LogArenasTiled
  BY DEF FInit, Init, LogArenasTiled
<1>2. IInv /\ LogArenasTiled /\ [FNext]_fvars => LogArenasTiled'
  BY TilingStep
<1> QED
  BY <1>1, <1>2, Invariance, PTL DEF FSpec
=============================================================================
