--------------------------- MODULE OverlayLemmas ---------------------------
(***************************************************************************)
(* What the tables and the journal of AccountStore and the operations of   *)
(* WorldState guarantee, for the proofs about WorldLedger.                 *)
(*                                                                         *)
(* Four parts: the journal, whose entries give back, when they are undone, *)
(* the tables they were pushed over; the relation Overlaid between the     *)
(* overlays, which every operation keeps; what each operation of the       *)
(* kernel does to the world the overlays stand for; and what replaying the *)
(* changes of the access list gives.                                       *)
(***************************************************************************)
EXTENDS WorldLedger, LedgerLemmas

-----------------------------------------------------------------------------
(* Sequences of anything.                                                  *)
IsSeq(s) == Len(s) \in Nat /\ s = [i \in 1 .. Len(s) |-> s[i]]

(* The positions of a sequence.                                            *)
LEMMA SeqDomain ==
  ASSUME NEW s, IsSeq(s)
  PROVE  DOMAIN s = 1 .. Len(s) /\ Len(s) \in Nat
BY DEF IsSeq

(* A sequence is one over any set that has all its elements.               *)
LEMMA SeqOver ==
  ASSUME NEW s, IsSeq(s), NEW S, \A i \in 1 .. Len(s) : s[i] \in S
  PROVE  s \in Seq(S)
BY DEF IsSeq

(* A sequence over a set is one of anything.                               *)
LEMMA SeqBack ==
  ASSUME NEW S, NEW s \in Seq(S)
  PROVE  IsSeq(s)
BY DEF IsSeq

(* Two sequences of one length with the same elements are equal.           *)
LEMMA SeqSame ==
  ASSUME NEW s, IsSeq(s), NEW t, IsSeq(t), Len(s) = Len(t),
         \A i \in 1 .. Len(s) : s[i] = t[i]
  PROVE  s = t
<1> DEFINE n == Len(s)
<1>1. s = [i \in 1 .. n |-> s[i]] /\ t = [i \in 1 .. n |-> t[i]]
  BY DEF IsSeq
<1>2. \A i \in 1 .. n : s[i] = t[i]
  OBVIOUS
<1> HIDE DEF n
<1> QED BY <1>1, <1>2

(* Appending adds the element behind the others.                           *)
LEMMA SeqAppend ==
  ASSUME NEW s, IsSeq(s), NEW e
  PROVE  /\ IsSeq(Append(s, e))
         /\ Len(Append(s, e)) = Len(s) + 1
         /\ \A i \in 1 .. Len(s) : Append(s, e)[i] = s[i]
         /\ Append(s, e)[Len(s) + 1] = e
<1> DEFINE S == {s[i] : i \in 1 .. Len(s)} \union {e}
<1>1. s \in Seq(S)
  BY SeqOver
<1>2. e \in S
  OBVIOUS
<1> HIDE DEF S
<1>3. Append(s, e) \in Seq(S)
  BY <1>1, <1>2
<1>4. IsSeq(Append(s, e))
  BY <1>3, SeqBack
<1> QED BY <1>1, <1>2, <1>4

(* The first n elements.                                                   *)
LEMMA SeqCut ==
  ASSUME NEW s, IsSeq(s), NEW n \in 0 .. Len(s)
  PROVE  /\ IsSeq(SubSeq(s, 1, n))
         /\ Len(SubSeq(s, 1, n)) = n
         /\ \A i \in 1 .. n : SubSeq(s, 1, n)[i] = s[i]
<1> DEFINE S == {s[i] : i \in 1 .. Len(s)}
<1>1. s \in Seq(S)
  BY SeqOver
<1> HIDE DEF S
<1>2. SubSeq(s, 1, n) \in Seq(S)
  BY <1>1 DEF IsSeq
<1>3. IsSeq(SubSeq(s, 1, n))
  BY <1>2, SeqBack
<1> QED BY <1>1, <1>3 DEF IsSeq

(* t is s with v at i.                                                     *)
ReplacedAt(t, s, i, v) == t = [s EXCEPT ![i] = v]

(* Replacing one element leaves the length and the other elements.         *)
LEMMA SeqExcept ==
  ASSUME NEW s, IsSeq(s), NEW i \in 1 .. Len(s), NEW v, NEW t, ReplacedAt(t, s, i, v)
  PROVE  /\ IsSeq(t) /\ Len(t) = Len(s)
         /\ \A k \in 1 .. Len(s) : t[k] = IF k = i THEN v ELSE s[k]
<1> DEFINE S == {s[k] : k \in 1 .. Len(s)} \union {v}
<1>1. s \in Seq(S) /\ v \in S
  BY SeqOver
<1> HIDE DEF S
<1>2. t \in Seq(S)
  BY <1>1 DEF ReplacedAt
<1>3. IsSeq(t)
  BY <1>2, SeqBack
<1>4. Len(t) = Len(s)
  BY <1>1, <1>2 DEF ReplacedAt
<1>5. DOMAIN s = 1 .. Len(s)
  BY SeqDomain
<1>6. \A k \in 1 .. Len(s) : t[k] = IF k = i THEN v ELSE s[k]
  BY <1>5 DEF ReplacedAt
<1> QED BY <1>3, <1>4, <1>6

-----------------------------------------------------------------------------
(* The journal, undone entry by entry.                                     *)
IsHost(d) ==
  d = [account_block |-> d.account_block, account_tx |-> d.account_tx,
       storage_block |-> d.storage_block, storage_tx |-> d.storage_tx,
       generations |-> d.generations, next_generation |-> d.next_generation,
       journal |-> d.journal, bal |-> d.bal]

SameTables(x, y) ==
  x.account_tx = y.account_tx /\ x.storage_tx = y.storage_tx /\ x.generations = y.generations

(* What undoing an entry leaves alone.                                     *)
SameRest(x, y) ==
  /\ x.account_block = y.account_block /\ x.storage_block = y.storage_block
  /\ x.next_generation = y.next_generation /\ x.journal = y.journal /\ x.bal = y.bal

(* The recursive definition of Undone has a solution.                      *)
LEMMA UndoneUnfolds ==
  ASSUME NEW d, Len(d.journal) \in Nat
  PROVE  /\ Undone(d)[Len(d.journal)] = d
         /\ \A n \in 0 .. Len(d.journal) - 1 :
              Undone(d)[n] = _journal_restore(Undone(d)[n + 1], d.journal[n + 1])
<1> DEFINE N == Len(d.journal)
           Back(h, n) == IF n = N THEN d ELSE _journal_restore(h[n + 1], d.journal[n + 1])
           Solves(h, m) == h = [n \in N - m .. N |-> Back(h, n)]
           S == {m \in 0 .. N : \E h : Solves(h, m)}
<1>1. 0 \in S
  <2>1. Solves([n \in {N} |-> d], 0)
    OBVIOUS
  <2>2. 0 \in 0 .. N
    OBVIOUS
  <2> HIDE DEF Solves
  <2> QED BY <2>1, <2>2
<1>2. ASSUME NEW m \in 0 .. N - 1, m \in S PROVE m + 1 \in S
  <2>1. PICK h : Solves(h, m)
    BY <1>2
  <2> DEFINE low == N - (m + 1)
             g == [n \in low .. N |-> IF n = low THEN Back(h, low) ELSE h[n]]
  <2>2. low \in Nat /\ low < N /\ low + 1 = N - m /\ low + 1 \in N - m .. N
    OBVIOUS
  <2>3. ASSUME NEW n \in low .. N PROVE g[n] = Back(g, n)
    <3>1. CASE n = low
      <4>1. n # N /\ g[n + 1] = h[n + 1]
        BY <2>2, <3>1
      <4> QED BY <3>1, <4>1
    <3>2. CASE n # low
      <4>1. n \in N - m .. N
        BY <2>2, <3>2
      <4>2. h[n] = Back(h, n)
        BY <2>1, <4>1
      <4>3. n # N => n + 1 \in low .. N /\ n + 1 # low
        BY <2>2, <4>1
      <4> QED BY <3>2, <4>2, <4>3
    <3> QED BY <3>1, <3>2
  <2>4. Solves(g, m + 1)
    BY <2>3
  <2>5. m + 1 \in 0 .. N
    OBVIOUS
  <2> HIDE DEF Solves, g
  <2> QED BY <2>4, <2>5
<1>3. N \in S
  <2>1. \A i \in 0 .. N - 1 : i \in S => i + 1 \in S
    BY <1>2
  <2>2. N \in Nat /\ N \in 0 .. N
    OBVIOUS
  <2> HIDE DEF S, N
  <2> QED BY <1>1, <2>1, <2>2, Climb
<1>4. \E h : h = [n \in 0 .. N |-> Back(h, n)]
  BY <1>3
<1>5. Undone(d) = [n \in 0 .. N |-> Back(Undone(d), n)]
  <2>1. Undone(d) = CHOOSE h : h = [n \in 0 .. N |-> Back(h, n)]
    BY DEF Undone
  <2> HIDE DEF Back
  <2> QED BY <1>4, <2>1
<1> HIDE DEF Back
<1>6. \A n \in 0 .. N : Undone(d)[n] = Back(Undone(d), n)
  BY <1>5
<1> QED BY <1>6 DEF Back

(* Undoing an entry depends on the tables and changes only them.           *)
LEMMA RestoreTables ==
  ASSUME NEW x, IsHost(x), NEW y, IsHost(y), SameTables(x, y), NEW e
  PROVE  SameTables(_journal_restore(x, e), _journal_restore(y, e))
BY DEF IsHost, SameTables, _journal_restore, RestoreGeneration,
   SetCleared, SetAccount, SetSlot, acct_tx_get, acct_tx_found

(* Undoing an entry leaves everything but the three transaction tables     *)
(* alone.                                                                  *)
LEMMA RestoreHost ==
  ASSUME NEW x, IsHost(x), NEW e
  PROVE  IsHost(_journal_restore(x, e)) /\ SameRest(_journal_restore(x, e), x)
BY DEF IsHost, SameRest, _journal_restore, RestoreGeneration,
   SetCleared, SetAccount, SetSlot

(* So does undoing any number of entries.                                  *)
LEMMA UndoneHost ==
  ASSUME NEW d, IsHost(d), Len(d.journal) \in Nat, NEW n \in 0 .. Len(d.journal)
  PROVE  IsHost(Undone(d)[n]) /\ SameRest(Undone(d)[n], d)
<1> DEFINE N == Len(d.journal)
           Good(m) == IsHost(Undone(d)[N - m]) /\ SameRest(Undone(d)[N - m], d)
           S == {m \in 0 .. N : Good(m)}
<1>1. 0 \in S
  <2>1. Undone(d)[N - 0] = d
    BY UndoneUnfolds
  <2>2. SameRest(d, d)
    BY DEF SameRest
  <2> QED BY <2>1, <2>2
<1>2. ASSUME NEW m \in 0 .. N - 1, m \in S PROVE m + 1 \in S
  <2> DEFINE x == Undone(d)[N - m]
             e == d.journal[N - m]
             y == Undone(d)[N - (m + 1)]
  <2>1. y = _journal_restore(x, e)
    <3>1. N - (m + 1) \in 0 .. N - 1 /\ N - (m + 1) + 1 = N - m
      OBVIOUS
    <3> QED BY <3>1, UndoneUnfolds
  <2>2. IsHost(x) /\ SameRest(x, d)
    BY <1>2
  <2> HIDE DEF x, e, y
  <2>3. IsHost(y) /\ SameRest(y, x)
    BY <2>1, <2>2, RestoreHost
  <2>4. SameRest(y, d)
    BY <2>2, <2>3 DEF SameRest
  <2> QED BY <2>3, <2>4 DEF y
<1>3. \A m \in 0 .. N : m \in S
  <2>1. \A m \in 0 .. N - 1 : m \in S => m + 1 \in S
    BY <1>2
  <2> HIDE DEF S
  <2> QED BY <1>1, <2>1, Climb
<1>4. N - n \in 0 .. N /\ N - (N - n) = n
  OBVIOUS
<1> QED BY <1>3, <1>4

(* Two hosts that agree where one part of their journals ends agree at     *)
(* every place before it.                                                  *)
LEMMA UndoneAgree ==
  ASSUME NEW x, IsHost(x), NEW y, IsHost(y),
         Len(x.journal) \in Nat, Len(y.journal) \in Nat,
         NEW M \in Nat, M <= Len(x.journal), M <= Len(y.journal),
         \A i \in 1 .. M : x.journal[i] = y.journal[i],
         SameTables(Undone(x)[M], Undone(y)[M]),
         NEW n \in 0 .. M
  PROVE  SameTables(Undone(x)[n], Undone(y)[n])
<1> DEFINE S == {m \in 0 .. M : SameTables(Undone(x)[M - m], Undone(y)[M - m])}
<1>1. 0 \in S
  OBVIOUS
<1>2. ASSUME NEW m \in 0 .. M - 1, m \in S PROVE m + 1 \in S
  <2> DEFINE k == M - (m + 1)
  <2>1. /\ k \in 0 .. Len(x.journal) - 1 /\ k \in 0 .. Len(y.journal) - 1
        /\ k + 1 = M - m /\ k + 1 \in 1 .. M
        /\ k + 1 \in 0 .. Len(x.journal) /\ k + 1 \in 0 .. Len(y.journal)
    OBVIOUS
  <2>2. SameTables(Undone(x)[k + 1], Undone(y)[k + 1])
    BY <1>2, <2>1
  <2>3. IsHost(Undone(x)[k + 1]) /\ IsHost(Undone(y)[k + 1])
    BY <2>1, UndoneHost
  <2> HIDE DEF k
  <2>4. SameTables(_journal_restore(Undone(x)[k + 1], x.journal[k + 1]),
                   _journal_restore(Undone(y)[k + 1], x.journal[k + 1]))
    BY <2>2, <2>3, RestoreTables
  <2>5. /\ Undone(x)[k] = _journal_restore(Undone(x)[k + 1], x.journal[k + 1])
        /\ Undone(y)[k] = _journal_restore(Undone(y)[k + 1], y.journal[k + 1])
    BY <2>1, UndoneUnfolds
  <2>6. x.journal[k + 1] = y.journal[k + 1]
    BY <2>1
  <2>7. SameTables(Undone(x)[k], Undone(y)[k])
    BY <2>4, <2>5, <2>6
  <2> QED BY <2>7 DEF k
<1>3. \A m \in 0 .. M : m \in S
  <2>1. \A m \in 0 .. M - 1 : m \in S => m + 1 \in S
    BY <1>2
  <2> HIDE DEF S
  <2> QED BY <1>1, <2>1, Climb
<1>4. M - n \in 0 .. M /\ M - (M - n) = n
  OBVIOUS
<1> QED BY <1>3, <1>4

(* A host that appends an entry whose undoing gives the tables back agrees *)
(* with the old one at every earlier place.                                *)
LEMMA UndonePush ==
  ASSUME NEW x, IsHost(x), IsSeq(x.journal), NEW y, IsHost(y), NEW e,
         y.journal = Append(x.journal, e),
         SameTables(_journal_restore(y, e), x),
         NEW n \in 0 .. Len(x.journal)
  PROVE  SameTables(Undone(x)[n], Undone(y)[n])
<1> DEFINE N == Len(x.journal)
<1>1. /\ N \in Nat /\ IsSeq(y.journal) /\ Len(y.journal) = N + 1
      /\ \A i \in 1 .. N : y.journal[i] = x.journal[i]
      /\ y.journal[N + 1] = e
  BY SeqAppend DEF IsSeq
<1>2. Undone(x)[N] = x /\ Undone(y)[N + 1] = y
  BY <1>1, UndoneUnfolds
<1>3. Undone(y)[N] = _journal_restore(y, e)
  <2>1. N \in 0 .. Len(y.journal) - 1
    BY <1>1
  <2>2. Undone(y)[N] = _journal_restore(Undone(y)[N + 1], y.journal[N + 1])
    <3>1. \A k \in 0 .. Len(y.journal) - 1 :
            Undone(y)[k] = _journal_restore(Undone(y)[k + 1], y.journal[k + 1])
      <4>1. Len(y.journal) \in Nat
        BY <1>1
      <4> QED BY <4>1, UndoneUnfolds
    <3> QED BY <2>1, <3>1
  <2> QED BY <1>1, <1>2, <2>2
<1>4. SameTables(Undone(x)[N], Undone(y)[N])
  BY <1>2, <1>3 DEF SameTables
<1> QED BY <1>1, <1>4, UndoneAgree

(* Hosts with one journal and the same tables agree at every place.        *)
LEMMA UndoneSame ==
  ASSUME NEW x, IsHost(x), IsSeq(x.journal), NEW y, IsHost(y),
         y.journal = x.journal, SameTables(x, y),
         NEW n \in 0 .. Len(x.journal)
  PROVE  SameTables(Undone(x)[n], Undone(y)[n])
<1> DEFINE N == Len(x.journal)
<1>1. N \in Nat
  BY DEF IsSeq
<1>2. SameTables(Undone(x)[N], Undone(y)[N])
  BY <1>1, UndoneUnfolds
<1> QED BY <1>1, <1>2, UndoneAgree

-----------------------------------------------------------------------------
(* The open scopes.                                                        *)
LEMMA OpenUnfolds ==
  ASSUME NEW j, Len(j) \in Nat
  PROVE  /\ OpenAfter(j)[0] = <<>>
         /\ \A n \in 1 .. Len(j) :
              OpenAfter(j)[n] = CASE j[n].tag = "Checkpointed" -> Append(OpenAfter(j)[n - 1], n)
                                  [] j[n].tag = "Committed" -> Pop(OpenAfter(j)[n - 1])
                                  [] OTHER -> OpenAfter(j)[n - 1]
<1> DEFINE N == Len(j)
           After(h, n) == IF n = 0 THEN <<>>
                          ELSE CASE j[n].tag = "Checkpointed" -> Append(h[n - 1], n)
                                 [] j[n].tag = "Committed" -> Pop(h[n - 1])
                                 [] OTHER -> h[n - 1]
           Solves(h, m) == h = [n \in 0 .. m |-> After(h, n)]
           S == {m \in 0 .. N : \E h : Solves(h, m)}
<1>1. 0 \in S
  <2>1. Solves([n \in {0} |-> <<>>], 0)
    OBVIOUS
  <2>2. 0 \in 0 .. N
    OBVIOUS
  <2> HIDE DEF Solves
  <2> QED BY <2>1, <2>2
<1>2. ASSUME NEW m \in 0 .. N - 1, m \in S PROVE m + 1 \in S
  <2>1. PICK h : Solves(h, m)
    BY <1>2
  <2> DEFINE g == [n \in 0 .. m + 1 |-> IF n = m + 1 THEN After(h, n) ELSE h[n]]
  <2>2. ASSUME NEW n \in 0 .. m + 1 PROVE g[n] = After(g, n)
    <3>1. n # 0 => n - 1 \in 0 .. m + 1 /\ n - 1 # m + 1
      OBVIOUS
    <3>2. n # 0 => g[n - 1] = h[n - 1]
      BY <3>1
    <3>3. After(g, n) = After(h, n)
      <4> HIDE DEF g
      <4> QED BY <3>2
    <3>4. n # m + 1 => n \in 0 .. m
      OBVIOUS
    <3>5. n # m + 1 => h[n] = After(h, n)
      <4> HIDE DEF After, g
      <4> QED BY <2>1, <3>4
    <3>6. g[n] = IF n = m + 1 THEN After(h, n) ELSE h[n]
      <4> HIDE DEF After
      <4> QED OBVIOUS
    <3> HIDE DEF After, g
    <3> QED BY <3>3, <3>5, <3>6
  <2>3. Solves(g, m + 1)
    <3> HIDE DEF After
    <3> QED BY <2>2
  <2>4. m + 1 \in 0 .. N
    OBVIOUS
  <2> HIDE DEF Solves, g
  <2> QED BY <2>3, <2>4
<1>3. N \in S
  <2>1. \A i \in 0 .. N - 1 : i \in S => i + 1 \in S
    BY <1>2
  <2>2. N \in Nat /\ N \in 0 .. N
    OBVIOUS
  <2> HIDE DEF S, N
  <2> QED BY <1>1, <2>1, <2>2, Climb
<1>4. \E h : h = [n \in 0 .. N |-> After(h, n)]
  BY <1>3
<1>5. OpenAfter(j) = [n \in 0 .. N |-> After(OpenAfter(j), n)]
  <2>1. OpenAfter(j) = CHOOSE h : h = [n \in 0 .. N |-> After(h, n)]
    BY DEF OpenAfter
  <2> HIDE DEF After
  <2> QED BY <1>4, <2>1
<1>6. \A n \in 0 .. N : OpenAfter(j)[n] = After(OpenAfter(j), n)
  <2> HIDE DEF After
  <2> QED BY <1>5
<1>7. OpenAfter(j)[0] = <<>>
  BY <1>6
<1>8. ASSUME NEW n \in 1 .. N
      PROVE  OpenAfter(j)[n] = CASE j[n].tag = "Checkpointed" -> Append(OpenAfter(j)[n - 1], n)
                                  [] j[n].tag = "Committed" -> Pop(OpenAfter(j)[n - 1])
                                  [] OTHER -> OpenAfter(j)[n - 1]
  <2>1. n \in 0 .. N /\ n # 0
    OBVIOUS
  <2> QED BY <1>6, <2>1
<1> QED BY <1>7, <1>8

(* The stack after n entries: checkpoints in order, each with the stack it *)
(* found beneath it.                                                       *)
Stacked(j, n) ==
  LET o == OpenAfter(j)[n]
  IN /\ o \in Seq(1 .. n)
     /\ \A p \in 1 .. Len(o) : /\ j[o[p]].tag = "Checkpointed"
                               /\ OpenAfter(j)[o[p] - 1] = SubSeq(o, 1, p - 1)

(* What Pop leaves of a sequence.                                          *)
LEMMA PopSeq ==
  ASSUME NEW S, NEW s \in Seq(S)
  PROVE  /\ Pop(s) \in Seq(S)
         /\ s # <<>> => Len(Pop(s)) = Len(s) - 1
         /\ s = <<>> => Pop(s) = <<>>
         /\ \A p \in 1 .. Len(Pop(s)) : Pop(s)[p] = s[p] /\ p \in 1 .. Len(s)
<1>1. CASE s = <<>>
  BY <1>1 DEF Pop
<1>2. CASE s # <<>>
  <2>1. Pop(s) = Front(s)
    BY DEF Pop, Front
  <2> QED BY <1>2, <2>1, PopFacts
<1> QED BY <1>1, <1>2

(* Sequences that agree on their first n elements have the same prefix of  *)
(* that length.                                                            *)
LEMMA SubSeqSame ==
  ASSUME NEW S, NEW s \in Seq(S), NEW T, NEW t \in Seq(T), NEW n \in Nat, n <= Len(s), n <= Len(t),
         \A i \in 1 .. n : s[i] = t[i]
  PROVE  SubSeq(s, 1, n) = SubSeq(t, 1, n)
<1>1. IsSeq(s) /\ IsSeq(t) /\ n \in 0 .. Len(s) /\ n \in 0 .. Len(t)
  BY SeqBack
<1>2. /\ IsSeq(SubSeq(s, 1, n)) /\ Len(SubSeq(s, 1, n)) = n
      /\ \A i \in 1 .. n : SubSeq(s, 1, n)[i] = s[i]
  BY <1>1, SeqCut
<1>3. /\ IsSeq(SubSeq(t, 1, n)) /\ Len(SubSeq(t, 1, n)) = n
      /\ \A i \in 1 .. n : SubSeq(t, 1, n)[i] = t[i]
  BY <1>1, SeqCut
<1> QED BY <1>2, <1>3, SeqSame

(* The open checkpoints are stacked after every entry.                     *)
LEMMA OpenStacked ==
  ASSUME NEW j, Len(j) \in Nat, NEW n \in 0 .. Len(j)
  PROVE  Stacked(j, n)
<1> DEFINE N == Len(j)
           S == {m \in 0 .. N : Stacked(j, m)}
<1>1. 0 \in S
  <2>1. OpenAfter(j)[0] = <<>> /\ <<>> \in Seq(1 .. 0) /\ Len(<<>>) = 0
    BY OpenUnfolds
  <2>2. Stacked(j, 0)
    BY <2>1 DEF Stacked
  <2> QED BY <2>2
<1>2. ASSUME NEW m \in 0 .. N - 1, m \in S PROVE m + 1 \in S
  <2> DEFINE o == OpenAfter(j)[m]
             q == OpenAfter(j)[m + 1]
  <2>1. /\ m + 1 \in 1 .. N /\ (m + 1) - 1 = m
        /\ q = CASE j[m + 1].tag = "Checkpointed" -> Append(o, m + 1)
                 [] j[m + 1].tag = "Committed" -> Pop(o)
                 [] OTHER -> o
    BY OpenUnfolds
  <2>2. /\ o \in Seq(1 .. m)
        /\ \A p \in 1 .. Len(o) : /\ j[o[p]].tag = "Checkpointed"
                                  /\ OpenAfter(j)[o[p] - 1] = SubSeq(o, 1, p - 1)
    BY <1>2 DEF Stacked
  <2>3. o \in Seq(1 .. m + 1)
    <3>1. IsSeq(o) /\ \A p \in 1 .. Len(o) : o[p] \in 1 .. m + 1
      BY <2>2, SeqBack
    <3> QED BY <3>1, SeqOver
  <2> DEFINE Below(s) == \A p \in 1 .. Len(s) : /\ j[s[p]].tag = "Checkpointed"
                                                /\ OpenAfter(j)[s[p] - 1] = SubSeq(s, 1, p - 1)
  <2>4. q \in Seq(1 .. m + 1) /\ Below(q)
    <3>1. CASE j[m + 1].tag = "Checkpointed"
      <4>1. q = Append(o, m + 1)
        BY <2>1, <3>1
      <4> HIDE DEF q, o
      <4>2. /\ q \in Seq(1 .. m + 1) /\ Len(q) = Len(o) + 1 /\ Len(o) \in Nat
            /\ \A p \in 1 .. Len(o) : q[p] = o[p]
            /\ q[Len(o) + 1] = m + 1
        <5>1. m + 1 \in 1 .. m + 1
          OBVIOUS
        <5> QED BY <2>3, <4>1, <5>1, PushFacts
      <4>3. ASSUME NEW p \in 1 .. Len(q)
            PROVE  SubSeq(q, 1, p - 1) = SubSeq(o, 1, p - 1)
        <5>1. /\ p - 1 \in Nat /\ p - 1 <= Len(q) /\ p - 1 <= Len(o)
              /\ \A k \in 1 .. p - 1 : q[k] = o[k]
          BY <4>2
        <5>2. ASSUME NEW c \in Nat, c = p - 1 PROVE SubSeq(q, 1, c) = SubSeq(o, 1, c)
          BY <2>3, <4>2, <5>1, <5>2, SubSeqSame
        <5> QED BY <5>1, <5>2
      <4>4. SubSeq(o, 1, Len(o)) = o
        BY <2>3
      <4>5. ASSUME NEW p \in 1 .. Len(q)
            PROVE  /\ j[q[p]].tag = "Checkpointed"
                   /\ OpenAfter(j)[q[p] - 1] = SubSeq(q, 1, p - 1)
        <5>1. CASE p = Len(o) + 1
          <6>1. q[p] = m + 1 /\ p - 1 = Len(o)
            BY <4>2, <5>1
          <6> QED BY <2>1, <3>1, <4>3, <4>4, <6>1 DEF o
        <5>2. CASE p # Len(o) + 1
          <6>1. p \in 1 .. Len(o) /\ q[p] = o[p]
            BY <4>2, <5>2
          <6> QED BY <2>2, <4>3, <6>1
        <5> QED BY <5>1, <5>2
      <4> QED BY <4>2, <4>5
    <3>2. CASE j[m + 1].tag = "Committed"
      <4>1. q = Pop(o)
        BY <2>1, <3>2
      <4> HIDE DEF q, o
      <4>2. /\ q \in Seq(1 .. m + 1)
            /\ \A p \in 1 .. Len(q) : q[p] = o[p] /\ p \in 1 .. Len(o)
        BY <2>3, <4>1, PopSeq
      <4>3. ASSUME NEW p \in 1 .. Len(q)
            PROVE  SubSeq(q, 1, p - 1) = SubSeq(o, 1, p - 1)
        <5>1. /\ p - 1 \in Nat /\ p - 1 <= Len(q) /\ p - 1 <= Len(o)
              /\ \A k \in 1 .. p - 1 : q[k] = o[k]
          <6>1. p \in 1 .. Len(o) /\ Len(o) \in Nat /\ Len(q) \in Nat
            BY <2>3, <4>2
          <6>2. \A k \in 1 .. p - 1 : k \in 1 .. Len(q)
            BY <4>2
          <6> QED BY <4>2, <6>1, <6>2
        <5>2. ASSUME NEW c \in Nat, c = p - 1 PROVE SubSeq(q, 1, c) = SubSeq(o, 1, c)
          BY <2>3, <4>2, <5>1, <5>2, SubSeqSame
        <5> QED BY <5>1, <5>2
      <4> QED BY <2>2, <4>2, <4>3
    <3>3. CASE j[m + 1].tag \notin {"Checkpointed", "Committed"}
      <4>1. q = o
        BY <2>1, <3>3
      <4> HIDE DEF q, o
      <4> QED BY <2>2, <2>3, <4>1
    <3> QED BY <3>1, <3>2, <3>3
  <2>5. Stacked(j, m + 1)
    BY <2>4 DEF Stacked
  <2> QED BY <2>5
<1>3. \A m \in 0 .. N : m \in S
  <2>1. \A m \in 0 .. N - 1 : m \in S => m + 1 \in S
    BY <1>2
  <2> HIDE DEF S
  <2> QED BY <1>1, <2>1, Climb
<1> QED BY <1>3

(* Journals that agree up to an entry have the same open scopes there.     *)
LEMMA OpenAgree ==
  ASSUME NEW j, Len(j) \in Nat, NEW k, Len(k) \in Nat,
         NEW M \in Nat, M <= Len(j), M <= Len(k), \A i \in 1 .. M : j[i] = k[i]
  PROVE  \A n \in 0 .. M : OpenAfter(j)[n] = OpenAfter(k)[n]
<1> DEFINE S == {n \in 0 .. M : OpenAfter(j)[n] = OpenAfter(k)[n]}
<1>1. 0 \in S
  BY OpenUnfolds
<1>2. ASSUME NEW n \in 0 .. M - 1, n \in S PROVE n + 1 \in S
  <2>1. /\ n + 1 \in 1 .. Len(j) /\ n + 1 \in 1 .. Len(k) /\ (n + 1) - 1 = n
        /\ n + 1 \in 0 .. M /\ j[n + 1] = k[n + 1]
    OBVIOUS
  <2>2. OpenAfter(j)[n] = OpenAfter(k)[n]
    BY <1>2
  <2> DEFINE Next1(h, e) == CASE e.tag = "Checkpointed" -> Append(h[n], n + 1)
                             [] e.tag = "Committed" -> Pop(h[n])
                             [] OTHER -> h[n]
  <2>3. OpenAfter(j)[n + 1] = Next1(OpenAfter(j), j[n + 1])
    BY <2>1, OpenUnfolds
  <2>4. OpenAfter(k)[n + 1] = Next1(OpenAfter(k), k[n + 1])
    BY <2>1, OpenUnfolds
  <2> QED BY <2>1, <2>2, <2>3, <2>4
<1> HIDE DEF S
<1>3. \A n \in 0 .. M : n \in S
  BY <1>1, <1>2, Climb
<1> QED BY <1>3 DEF S

Plain(e) == e.tag # "Checkpointed" /\ e.tag # "Committed"

(* What one more entry does to the open scopes.                            *)
LEMMA OpenPush ==
  ASSUME NEW j, IsSeq(j), NEW e
  PROVE  OpenScopes(Append(j, e)) = CASE e.tag = "Checkpointed" -> Append(OpenScopes(j), Len(j) + 1)
                                      [] e.tag = "Committed" -> Pop(OpenScopes(j))
                                      [] OTHER -> OpenScopes(j)
<1> DEFINE k == Append(j, e)
           N == Len(j)
<1>1. /\ N \in Nat /\ Len(k) = N + 1 /\ k[N + 1] = e
      /\ \A i \in 1 .. N : k[i] = j[i]
  BY SeqAppend DEF IsSeq
<1> HIDE DEF k, N
<1>2. OpenAfter(k)[N] = OpenAfter(j)[N]
  BY <1>1, OpenAgree DEF N
<1>3. N + 1 \in 1 .. Len(k) /\ (N + 1) - 1 = N
  BY <1>1
<1>4. OpenAfter(k)[N + 1] = CASE e.tag = "Checkpointed" -> Append(OpenAfter(k)[N], N + 1)
                              [] e.tag = "Committed" -> Pop(OpenAfter(k)[N])
                              [] OTHER -> OpenAfter(k)[N]
  <2>1. \A n \in 1 .. Len(k) :
              OpenAfter(k)[n] = CASE k[n].tag = "Checkpointed" -> Append(OpenAfter(k)[n - 1], n)
                                  [] k[n].tag = "Committed" -> Pop(OpenAfter(k)[n - 1])
                                  [] OTHER -> OpenAfter(k)[n - 1]
    BY <1>1, OpenUnfolds
  <2> QED BY <1>1, <1>3, <2>1
<1> QED BY <1>1, <1>2, <1>4 DEF OpenScopes, N, k

(* Cutting the journal below the innermost open checkpoint closes its      *)
(* scope and no other.                                                     *)
LEMMA OpenCut ==
  ASSUME NEW j, IsSeq(j), OpenScopes(j) # <<>>
  PROVE  LET m == OpenScopes(j)[Len(OpenScopes(j))]
         IN /\ m \in 1 .. Len(j)
            /\ j[m].tag = "Checkpointed"
            /\ OpenScopes(SubSeq(j, 1, m - 1)) = Pop(OpenScopes(j))
<1> DEFINE o == OpenScopes(j)
           m == o[Len(o)]
           k == SubSeq(j, 1, m - 1)
<1>1. Len(j) \in Nat /\ Len(j) \in 0 .. Len(j)
  BY DEF IsSeq
<1>2. Stacked(j, Len(j))
  BY <1>1, OpenStacked
<1>3. /\ o \in Seq(1 .. Len(j))
      /\ \A p \in 1 .. Len(o) : /\ j[o[p]].tag = "Checkpointed"
                                /\ OpenAfter(j)[o[p] - 1] = SubSeq(o, 1, p - 1)
  BY <1>2 DEF Stacked, OpenScopes
<1>4. Len(o) \in 1 .. Len(o) /\ m \in 1 .. Len(j)
  BY <1>3
<1>5. j[m].tag = "Checkpointed" /\ OpenAfter(j)[m - 1] = Pop(o)
  BY <1>3, <1>4 DEF Pop
<1>6. m - 1 \in 0 .. Len(j)
  BY <1>4
<1>7. Len(k) = m - 1 /\ \A i \in 1 .. m - 1 : k[i] = j[i]
  BY <1>6, SeqCut
<1> HIDE DEF k
<1>8. OpenAfter(k)[m - 1] = OpenAfter(j)[m - 1]
  <2>1. m - 1 \in Nat /\ m - 1 <= Len(j) /\ m - 1 <= Len(k) /\ m - 1 \in 0 .. m - 1
    BY <1>6, <1>7
  <2> QED BY <1>1, <1>7, <2>1, OpenAgree
<1>9. OpenScopes(k) = Pop(o)
  BY <1>5, <1>7, <1>8 DEF OpenScopes
<1> QED BY <1>4, <1>5, <1>9 DEF k

(* The scan of _open_checkpoint_index finds the innermost open checkpoint. *)
LEMMA ScanUnfolds ==
  ASSUME NEW j, Len(j) \in Nat
  PROVE  \E scan :
           /\ _open_checkpoint_index(j) = scan[<<Len(j), 0>>]
           /\ \A i \in 1 .. Len(j), c \in Nat :
                scan[<<i, c>>] = IF j[i].tag = "Committed" THEN scan[<<i - 1, c + 1>>]
                             ELSE IF j[i].tag # "Checkpointed" THEN scan[<<i - 1, c>>]
                             ELSE IF c = 0 THEN i
                             ELSE scan[<<i - 1, c - 1>>]
<1> DEFINE N == Len(j)
           Found(h, i, c) == IF i = 0 THEN 0
                             ELSE IF j[i].tag = "Committed" THEN h[<<i - 1, c + 1>>]
                             ELSE IF j[i].tag # "Checkpointed" THEN h[<<i - 1, c>>]
                             ELSE IF c = 0 THEN i
                             ELSE h[<<i - 1, c - 1>>]
           Solves(h, m) == h = [p \in (0 .. m) \X Nat |-> Found(h, p[1], p[2])]
           S == {m \in 0 .. N : \E h : Solves(h, m)}
<1>1. 0 \in S
  <2>1. Solves([p \in (0 .. 0) \X Nat |-> 0], 0)
    OBVIOUS
  <2>2. 0 \in 0 .. N
    OBVIOUS
  <2> HIDE DEF Solves
  <2> QED BY <2>1, <2>2
<1>2. ASSUME NEW m \in 0 .. N - 1, m \in S PROVE m + 1 \in S
  <2>1. PICK h : Solves(h, m)
    BY <1>2
  <2> DEFINE g == [p \in (0 .. m + 1) \X Nat |-> IF p[1] = m + 1 THEN Found(h, p[1], p[2]) ELSE h[p]]
  <2>2. ASSUME NEW i \in 0 .. m + 1, NEW c \in Nat PROVE g[<<i, c>>] = Found(g, i, c)
    <3>1. ASSUME NEW b \in Nat, i # 0 PROVE g[<<i - 1, b>>] = h[<<i - 1, b>>]
      <4>1. i - 1 \in 0 .. m + 1 /\ i - 1 # m + 1
        BY <3>1
      <4> HIDE DEF Found
      <4> QED BY <4>1
    <3>2. Found(g, i, c) = Found(h, i, c)
      <4>1. c + 1 \in Nat /\ (c # 0 => c - 1 \in Nat)
        OBVIOUS
      <4> HIDE DEF g
      <4> QED BY <3>1, <4>1
    <3>3. i # m + 1 => i \in 0 .. m
      OBVIOUS
    <3>4. i # m + 1 => h[<<i, c>>] = Found(h, i, c)
      <4> HIDE DEF Found, g
      <4> QED BY <2>1, <3>3
    <3>5. g[<<i, c>>] = IF i = m + 1 THEN Found(h, i, c) ELSE h[<<i, c>>]
      <4> HIDE DEF Found
      <4> QED OBVIOUS
    <3> HIDE DEF Found, g
    <3> QED BY <3>2, <3>4, <3>5
  <2>3. Solves(g, m + 1)
    <3>1. ASSUME NEW p \in (0 .. m + 1) \X Nat PROVE g[p] = Found(g, p[1], p[2])
      <4>1. p[1] \in 0 .. m + 1 /\ p[2] \in Nat /\ p = <<p[1], p[2]>>
        OBVIOUS
      <4> HIDE DEF Found, g
      <4> QED BY <2>2, <4>1
    <3>2. g = [p \in (0 .. m + 1) \X Nat |-> g[p]]
      <4> HIDE DEF Found
      <4> QED OBVIOUS
    <3> HIDE DEF Found, g
    <3> QED BY <3>1, <3>2
  <2>4. m + 1 \in 0 .. N
    OBVIOUS
  <2> HIDE DEF Solves, g
  <2> QED BY <2>3, <2>4
<1>3. N \in S
  <2>1. \A i \in 0 .. N - 1 : i \in S => i + 1 \in S
    BY <1>2
  <2>2. N \in Nat /\ N \in 0 .. N
    OBVIOUS
  <2> HIDE DEF S, N
  <2> QED BY <1>1, <2>1, <2>2, Climb
<1> DEFINE scan == CHOOSE h : h = [p \in (0 .. N) \X Nat |-> Found(h, p[1], p[2])]
<1>4. \E h : h = [p \in (0 .. N) \X Nat |-> Found(h, p[1], p[2])]
  BY <1>3
<1>5. _open_checkpoint_index(j) = scan[<<N, 0>>]
  BY DEF _open_checkpoint_index
<1>6. scan = [p \in (0 .. N) \X Nat |-> Found(scan, p[1], p[2])]
  <2> HIDE DEF Found
  <2> QED BY <1>4
<1> HIDE DEF scan
<1>7. ASSUME NEW i \in 1 .. N, NEW c \in Nat PROVE scan[<<i, c>>] = Found(scan, i, c)
  <2>1. i \in 0 .. N
    OBVIOUS
  <2> HIDE DEF Found
  <2> QED BY <1>6, <2>1
<1>8. ASSUME NEW i \in 1 .. N, NEW c \in Nat
      PROVE  scan[<<i, c>>] = IF j[i].tag = "Committed" THEN scan[<<i - 1, c + 1>>]
                             ELSE IF j[i].tag # "Checkpointed" THEN scan[<<i - 1, c>>]
                             ELSE IF c = 0 THEN i
                             ELSE scan[<<i - 1, c - 1>>]
  BY <1>7
<1> QED BY <1>5, <1>8

(* With c commits still to be paired, the scan from entry i ends at the    *)
(* open checkpoint that has c others above it.                             *)
LEMMA ScanFinds ==
  ASSUME NEW j, IsSeq(j), OpenScopes(j) # <<>>
  PROVE  _open_checkpoint_index(j) = OpenScopes(j)[Len(OpenScopes(j))]
<1> DEFINE N == Len(j)
           o(i) == OpenAfter(j)[i]
<1>1. N \in Nat
  BY DEF IsSeq
<1>2. PICK scan :
           /\ _open_checkpoint_index(j) = scan[<<N, 0>>]
           /\ \A i \in 1 .. N, c \in Nat :
                scan[<<i, c>>] = IF j[i].tag = "Committed" THEN scan[<<i - 1, c + 1>>]
                             ELSE IF j[i].tag # "Checkpointed" THEN scan[<<i - 1, c>>]
                             ELSE IF c = 0 THEN i
                             ELSE scan[<<i - 1, c - 1>>]
  BY <1>1, ScanUnfolds
<1> DEFINE Finds(i) == \A c \in Nat : c < Len(o(i)) => scan[<<i, c>>] = o(i)[Len(o(i)) - c]
           S == {i \in 0 .. N : Finds(i)}
<1>3. \A i \in 0 .. N : o(i) \in Seq(1 .. i)
  BY <1>1, OpenStacked DEF Stacked
<1>4. 0 \in S
  <2>1. o(0) = <<>> /\ Len(<<>>) = 0
    BY <1>1, OpenUnfolds
  <2> QED BY <1>1, <2>1
<1>5. ASSUME NEW i \in 0 .. N - 1, i \in S PROVE i + 1 \in S
  <2>1. /\ i + 1 \in 1 .. N /\ (i + 1) - 1 = i /\ i + 1 \in 0 .. N /\ i \in 0 .. N
    BY <1>1
  <2>2. o(i) \in Seq(1 .. i) /\ o(i + 1) \in Seq(1 .. i + 1)
    BY <1>3, <2>1
  <2>3. o(i + 1) = CASE j[i + 1].tag = "Checkpointed" -> Append(o(i), i + 1)
                     [] j[i + 1].tag = "Committed" -> Pop(o(i))
                     [] OTHER -> o(i)
    BY <1>1, <2>1, OpenUnfolds
  <2>4. Finds(i)
    BY <1>5
  <2>5. \A c \in Nat :
          scan[<<i + 1, c>>] = IF j[i + 1].tag = "Committed" THEN scan[<<i, c + 1>>]
                           ELSE IF j[i + 1].tag # "Checkpointed" THEN scan[<<i, c>>]
                           ELSE IF c = 0 THEN i + 1
                           ELSE scan[<<i, c - 1>>]
    BY <1>2, <2>1
  <2> HIDE DEF o
  <2>6. ASSUME NEW c \in Nat, c < Len(o(i + 1))
        PROVE  scan[<<i + 1, c>>] = o(i + 1)[Len(o(i + 1)) - c]
    <3>1. CASE j[i + 1].tag = "Checkpointed"
      <4>1. o(i + 1) = Append(o(i), i + 1)
        BY <2>3, <3>1
      <4>2. IsSeq(o(i)) /\ Len(o(i)) \in Nat
        BY <2>2, SeqBack
      <4>3. /\ Len(o(i + 1)) = Len(o(i)) + 1
            /\ \A p \in 1 .. Len(o(i)) : o(i + 1)[p] = o(i)[p]
            /\ o(i + 1)[Len(o(i)) + 1] = i + 1
        BY <4>1, <4>2, SeqAppend
      <4>4. CASE c = 0
        <5>1. scan[<<i + 1, c>>] = i + 1
          BY <2>5, <3>1, <4>4
        <5>2. Len(o(i + 1)) - c = Len(o(i)) + 1
          BY <4>2, <4>3, <4>4
        <5> QED BY <4>3, <5>1, <5>2
      <4>5. CASE c # 0
        <5>1. c - 1 \in Nat /\ c - 1 < Len(o(i)) /\ Len(o(i)) - (c - 1) = Len(o(i + 1)) - c
              /\ Len(o(i)) - (c - 1) \in 1 .. Len(o(i))
          BY <2>6, <4>2, <4>3, <4>5
        <5>2. scan[<<i + 1, c>>] = scan[<<i, c - 1>>]
          BY <2>5, <3>1, <4>5
        <5>3. scan[<<i, c - 1>>] = o(i)[Len(o(i)) - (c - 1)]
          BY <2>4, <5>1
        <5> QED BY <4>3, <5>1, <5>2, <5>3
      <4> QED BY <4>4, <4>5
    <3>2. CASE j[i + 1].tag = "Committed"
      <4>1. o(i + 1) = Pop(o(i))
        BY <2>3, <3>2
      <4>2. /\ Pop(o(i)) \in Seq(1 .. i)
            /\ o(i) # <<>> => Len(Pop(o(i))) = Len(o(i)) - 1
            /\ o(i) = <<>> => Pop(o(i)) = <<>>
            /\ \A p \in 1 .. Len(Pop(o(i))) : Pop(o(i))[p] = o(i)[p] /\ p \in 1 .. Len(o(i))
        BY <2>2, PopSeq
      <4>3. o(i) # <<>>
        BY <2>6, <4>1, <4>2
      <4>4. c + 1 \in Nat /\ c + 1 < Len(o(i)) /\ Len(o(i)) - (c + 1) = Len(o(i + 1)) - c
            /\ Len(o(i + 1)) - c \in 1 .. Len(o(i + 1))
        BY <2>2, <2>6, <4>1, <4>2, <4>3
      <4>5. scan[<<i + 1, c>>] = scan[<<i, c + 1>>]
        BY <2>5, <3>2
      <4>6. scan[<<i, c + 1>>] = o(i)[Len(o(i)) - (c + 1)]
        BY <2>4, <4>4
      <4> QED BY <4>1, <4>2, <4>4, <4>5, <4>6
    <3>3. CASE j[i + 1].tag \notin {"Checkpointed", "Committed"}
      <4>1. o(i + 1) = o(i) /\ scan[<<i + 1, c>>] = scan[<<i, c>>]
        BY <2>3, <2>5, <3>3
      <4> QED BY <2>4, <2>6, <4>1
    <3> QED BY <3>1, <3>2, <3>3
  <2> QED BY <2>1, <2>6
<1>6. \A i \in 0 .. N : i \in S
  <2> HIDE DEF S
  <2> QED BY <1>1, <1>4, <1>5, Climb
<1>7. N \in 0 .. N /\ Finds(N)
  <2>1. N \in 0 .. N
    BY <1>1
  <2> QED BY <1>6, <2>1
<1>8. o(N) \in Seq(1 .. N) /\ o(N) # <<>>
  BY <1>3, <1>7 DEF OpenScopes
<1>9. 0 \in Nat /\ 0 < Len(o(N)) /\ Len(o(N)) - 0 = Len(o(N))
  BY <1>8
<1>10. scan[<<N, 0>>] = o(N)[Len(o(N)) - 0]
  BY <1>7, <1>9
<1> QED BY <1>2, <1>9, <1>10 DEF OpenScopes

-----------------------------------------------------------------------------
(* The rows of the transaction overlay.                                    *)
IsAccount(acc) ==
  /\ acc = [nonce |-> acc.nonce, balance |-> acc.balance, code |-> acc.code,
            present |-> acc.present, created |-> acc.created,
            selfdestructed |-> acc.selfdestructed, storage_cleared |-> acc.storage_cleared]
  /\ acc.nonce \in Nat /\ acc.balance \in Nat
  /\ acc.present \in BOOLEAN /\ acc.created \in BOOLEAN
  /\ acc.selfdestructed \in BOOLEAN /\ acc.storage_cleared \in BOOLEAN

Unique(rows) == \A i, k \in 1 .. Len(rows) : rows[i].key = rows[k].key => i = k

AccountRows(rows) ==
  /\ IsSeq(rows) /\ Unique(rows)
  /\ \A i \in 1 .. Len(rows) :
       /\ rows[i] = [key |-> rows[i].key, current |-> rows[i].current, original |-> rows[i].original]
       /\ rows[i].key \in Addr
       /\ IsAccount(rows[i].current) /\ IsAccount(rows[i].original)

StorageRows(rows) ==
  /\ IsSeq(rows) /\ Unique(rows)
  /\ \A i \in 1 .. Len(rows) :
       /\ rows[i] = [key |-> rows[i].key, curr |-> rows[i].curr, orig |-> rows[i].orig,
                     generation |-> rows[i].generation]
       /\ rows[i].key \in Addr \X Slot

(* The position that is chosen for a listed key is that of a row with this *)
(* key.                                                                    *)
LEMMA RowFound ==
  ASSUME NEW rows, IsSeq(rows), NEW key, Listed(rows, key)
  PROVE  RowOf(rows, key) \in 1 .. Len(rows) /\ rows[RowOf(rows, key)].key = key
<1>1. \E i \in DOMAIN rows : rows[i].key = key
  BY DEF Listed
<1>2. RowOf(rows, key) \in DOMAIN rows /\ rows[RowOf(rows, key)].key = key
  BY <1>1 DEF RowOf
<1> QED BY <1>2, SeqDomain

(* With unique keys there is only one such row.                            *)
LEMMA RowIs ==
  ASSUME NEW rows, IsSeq(rows), Unique(rows), NEW i \in 1 .. Len(rows)
  PROVE  Listed(rows, rows[i].key) /\ RowOf(rows, rows[i].key) = i
<1>1. Listed(rows, rows[i].key)
  BY SeqDomain DEF Listed
<1>2. /\ RowOf(rows, rows[i].key) \in 1 .. Len(rows)
      /\ rows[RowOf(rows, rows[i].key)].key = rows[i].key
  BY <1>1, RowFound
<1> QED BY <1>1, <1>2 DEF Unique

(* Rows with the keys of others are found where those are.                 *)
LEMMA RowsKeep ==
  ASSUME NEW rows, IsSeq(rows), Unique(rows), NEW new, IsSeq(new), Len(new) = Len(rows),
         \A i \in 1 .. Len(rows) : new[i].key = rows[i].key
  PROVE  /\ Unique(new)
         /\ \A b : Listed(new, b) <=> Listed(rows, b)
         /\ \A b : Listed(rows, b) => RowOf(new, b) = RowOf(rows, b)
<1>1. Unique(new)
  BY DEF Unique
<1>2. ASSUME NEW b PROVE Listed(new, b) <=> Listed(rows, b)
  BY SeqDomain DEF Listed
<1>3. ASSUME NEW b, Listed(rows, b) PROVE RowOf(new, b) = RowOf(rows, b)
  <2>1. /\ RowOf(rows, b) \in 1 .. Len(rows) /\ rows[RowOf(rows, b)].key = b
    BY <1>3, RowFound
  <2>2. Listed(new, b)
    BY <1>2, <1>3
  <2>3. /\ RowOf(new, b) \in 1 .. Len(rows) /\ new[RowOf(new, b)].key = b
    BY <2>2, RowFound
  <2> QED BY <2>1, <2>3 DEF Unique
<1> QED BY <1>1, <1>2, <1>3

(* A row with a new key, behind the others, changes no other row.          *)
LEMMA RowsGrow ==
  ASSUME NEW rows, IsSeq(rows), Unique(rows), NEW row, ~Listed(rows, row.key)
  PROVE  /\ IsSeq(Append(rows, row)) /\ Unique(Append(rows, row))
         /\ \A b : Listed(Append(rows, row), b) <=> Listed(rows, b) \/ b = row.key
         /\ \A b : Listed(rows, b) => RowOf(Append(rows, row), b) = RowOf(rows, b)
         /\ RowOf(Append(rows, row), row.key) = Len(rows) + 1
<1> DEFINE new == Append(rows, row)
           N == Len(rows)
<1>1. /\ N \in Nat /\ IsSeq(new) /\ Len(new) = N + 1 /\ new[N + 1] = row
      /\ \A i \in 1 .. N : new[i] = rows[i]
  BY SeqAppend DEF IsSeq
<1>2. \A i \in 1 .. N : rows[i].key # row.key
  BY SeqDomain DEF Listed
<1> HIDE DEF new
<1>3. Unique(new)
  <2>1. SUFFICES ASSUME NEW i \in 1 .. N + 1, NEW k \in 1 .. N + 1, new[i].key = new[k].key
                 PROVE  i = k
    BY <1>1 DEF Unique
  <2>2. CASE i \in 1 .. N /\ k \in 1 .. N
    BY <1>1, <2>1, <2>2 DEF Unique
  <2>3. CASE i = N + 1 /\ k \in 1 .. N
    BY <1>1, <1>2, <2>1, <2>3
  <2>4. CASE i \in 1 .. N /\ k = N + 1
    BY <1>1, <1>2, <2>1, <2>4
  <2>5. CASE i = N + 1 /\ k = N + 1
    BY <2>5
  <2> QED BY <1>1, <2>2, <2>3, <2>4, <2>5
<1>4. ASSUME NEW b PROVE Listed(new, b) <=> Listed(rows, b) \/ b = row.key
  <2>1. DOMAIN new = 1 .. N + 1 /\ DOMAIN rows = 1 .. N
    BY <1>1, SeqDomain
  <2>2. N + 1 \in 1 .. N + 1 /\ \A i \in 1 .. N : i \in 1 .. N + 1
    BY <1>1
  <2>3. \A i \in 1 .. N + 1 : i \in 1 .. N \/ i = N + 1
    BY <1>1
  <2> QED BY <1>1, <2>1, <2>2, <2>3 DEF Listed
<1>5. ASSUME NEW b, Listed(rows, b) PROVE RowOf(new, b) = RowOf(rows, b)
  <2>1. RowOf(rows, b) \in 1 .. N /\ rows[RowOf(rows, b)].key = b
    BY <1>5, RowFound
  <2>2. RowOf(rows, b) \in 1 .. Len(new) /\ new[RowOf(rows, b)].key = b
    BY <1>1, <2>1
  <2> QED BY <1>1, <1>3, <2>2, RowIs
<1>6. RowOf(new, row.key) = N + 1
  <2>1. N + 1 \in 1 .. Len(new)
    BY <1>1
  <2> QED BY <1>1, <1>3, <2>1, RowIs
<1> QED BY <1>1, <1>3, <1>4, <1>5, <1>6 DEF new

(* Removing what was appended.                                             *)
LEMMA PopAppend ==
  ASSUME NEW s, IsSeq(s), NEW e
  PROVE  Pop(Append(s, e)) = s
<1>1. /\ Len(s) \in Nat /\ IsSeq(Append(s, e)) /\ Len(Append(s, e)) = Len(s) + 1
      /\ \A i \in 1 .. Len(s) : Append(s, e)[i] = s[i]
  BY SeqAppend DEF IsSeq
<1>2. Len(s) \in 0 .. Len(Append(s, e))
  BY <1>1
<1>3. /\ IsSeq(SubSeq(Append(s, e), 1, Len(s))) /\ Len(SubSeq(Append(s, e), 1, Len(s))) = Len(s)
      /\ \A i \in 1 .. Len(s) : SubSeq(Append(s, e), 1, Len(s))[i] = Append(s, e)[i]
  BY <1>1, <1>2, SeqCut
<1>4. SubSeq(Append(s, e), 1, Len(s)) = s
  BY <1>1, <1>3, SeqSame
<1>5. Len(Append(s, e)) - 1 = Len(s)
  BY <1>1
<1> QED BY <1>4, <1>5 DEF Pop

-----------------------------------------------------------------------------
(* A host extends another when undoing what it has journalled since gives  *)
(* the other's tables back, and no scope was opened or closed.             *)
Extends(x, y) ==
  /\ IsHost(y) /\ IsSeq(y.journal)
  /\ OpenScopes(y.journal) = OpenScopes(x.journal)
  /\ Len(x.journal) <= Len(y.journal)
  /\ \A n \in 0 .. Len(x.journal) : SameTables(Undone(x)[n], Undone(y)[n])

(* A host with the same journal and tables extends the other.              *)
LEMMA ExtendsSame ==
  ASSUME NEW x, IsHost(x), IsSeq(x.journal), NEW y, IsHost(y),
         y.journal = x.journal, SameTables(x, y)
  PROVE  Extends(x, y)
BY UndoneSame DEF Extends, IsSeq

(* Extending is transitive.                                                *)
LEMMA ExtendsStep ==
  ASSUME NEW x, NEW y, NEW z, IsSeq(x.journal), Extends(x, y), Extends(y, z)
  PROVE  Extends(x, z)
<1>1. /\ Len(x.journal) \in Nat /\ Len(y.journal) \in Nat /\ Len(z.journal) \in Nat
      /\ Len(x.journal) <= Len(y.journal) /\ Len(y.journal) <= Len(z.journal)
  BY DEF Extends, IsSeq
<1>2. ASSUME NEW n \in 0 .. Len(x.journal) PROVE SameTables(Undone(x)[n], Undone(z)[n])
  <2>1. n \in 0 .. Len(y.journal)
    BY <1>1
  <2> QED BY <2>1 DEF Extends, SameTables
<1> QED BY <1>1, <1>2 DEF Extends

(* One entry whose undoing gives the tables back extends the host, unless  *)
(* it opens or closes a scope.                                             *)
LEMMA ExtendsPush ==
  ASSUME NEW x, IsHost(x), IsSeq(x.journal), NEW y, IsHost(y), NEW e, Plain(e),
         y.journal = Append(x.journal, e), SameTables(_journal_restore(y, e), x)
  PROVE  Extends(x, y)
<1>1. /\ IsSeq(y.journal) /\ Len(y.journal) = Len(x.journal) + 1 /\ Len(x.journal) \in Nat
  BY SeqAppend DEF IsSeq
<1>2. OpenScopes(y.journal) = OpenScopes(x.journal)
  BY OpenPush DEF Plain
<1>3. \A n \in 0 .. Len(x.journal) : SameTables(Undone(x)[n], Undone(y)[n])
  BY UndonePush
<1> QED BY <1>1, <1>2, <1>3 DEF Extends

(* The parts of a host that the account operations leave alone.            *)
SameOthers(x, y) ==
  /\ y.storage_tx = x.storage_tx /\ y.generations = x.generations
  /\ y.account_block = x.account_block /\ y.storage_block = x.storage_block
  /\ y.next_generation = x.next_generation /\ y.bal = x.bal

Orig(d, a) == d.account_tx[RowOf(d.account_tx, a)].original

(* y is x with acc as the transaction's account at a.                      *)
Puts(x, y, a, acc) ==
  /\ SameOthers(x, y) /\ AccountRows(y.account_tx)
  /\ \A b : acct_tx_found(y, b) <=> acct_tx_found(x, b) \/ b = a
  /\ \A b : acct_tx_found(y, b) =>
       /\ acct_tx_get(y, b) = IF b = a THEN acc ELSE acct_tx_get(x, b)
       /\ Orig(y, b) = IF acct_tx_found(x, b) THEN Orig(x, b) ELSE acct_block_get(x, a)

(* Changing the account of a row.                                          *)
LEMMA RowSet ==
  ASSUME NEW rows, AccountRows(rows), NEW a, Listed(rows, a), NEW acc, IsAccount(acc)
  PROVE  LET new == SetRow(rows, a, acc)
         IN /\ AccountRows(new)
            /\ \A b : Listed(new, b) <=> Listed(rows, b)
            /\ \A b : Listed(rows, b) =>
                 /\ RowOf(new, b) = RowOf(rows, b)
                 /\ new[RowOf(new, b)].current = IF b = a THEN acc ELSE rows[RowOf(rows, b)].current
                 /\ new[RowOf(new, b)].original = rows[RowOf(rows, b)].original
            /\ SetRow(new, a, rows[RowOf(rows, a)].current) = rows
<1> DEFINE i == RowOf(rows, a)
           row == [rows[i] EXCEPT !.current = acc]
           new == [rows EXCEPT ![i].current = acc]
<1>1. /\ IsSeq(rows) /\ Unique(rows)
      /\ \A k \in 1 .. Len(rows) :
           /\ rows[k] = [key |-> rows[k].key, current |-> rows[k].current, original |-> rows[k].original]
           /\ rows[k].key \in Addr
           /\ IsAccount(rows[k].current) /\ IsAccount(rows[k].original)
  BY DEF AccountRows
<1>2. i \in 1 .. Len(rows) /\ rows[i].key = a
  BY <1>1, RowFound
<1>3. row = [key |-> a, current |-> acc, original |-> rows[i].original]
  <2>1. rows[i] = [key |-> rows[i].key, current |-> rows[i].current, original |-> rows[i].original]
    BY <1>1, <1>2
  <2> HIDE DEF i
  <2> QED BY <1>2, <2>1
<1>4. new = [rows EXCEPT ![i] = row]
  OBVIOUS
<1> HIDE DEF i, row, new
<1>5. /\ IsSeq(new) /\ Len(new) = Len(rows)
      /\ \A k \in 1 .. Len(rows) : new[k] = IF k = i THEN row ELSE rows[k]
  <2>1. IsSeq(rows) /\ i \in 1 .. Len(rows)
    BY <1>1, <1>2
  <2>2. ReplacedAt(new, rows, i, row)
    BY <1>4 DEF ReplacedAt
  <2> QED BY <2>1, <2>2, SeqExcept
<1>6. \A k \in 1 .. Len(rows) : new[k].key = rows[k].key
  BY <1>2, <1>3, <1>5
<1>7. /\ Unique(new)
      /\ \A b : Listed(new, b) <=> Listed(rows, b)
      /\ \A b : Listed(rows, b) => RowOf(new, b) = RowOf(rows, b)
  BY <1>1, <1>5, <1>6, RowsKeep
<1>8. AccountRows(new)
  <2>1. ASSUME NEW k \in 1 .. Len(rows)
        PROVE  /\ new[k] = [key |-> new[k].key, current |-> new[k].current, original |-> new[k].original]
               /\ new[k].key \in Addr
               /\ IsAccount(new[k].current) /\ IsAccount(new[k].original)
    <3>1. CASE k = i
      <4>1. new[k] = row /\ a \in Addr /\ IsAccount(rows[i].original)
        BY <1>1, <1>2, <1>5, <3>1
      <4>2. /\ row = [key |-> row.key, current |-> row.current, original |-> row.original]
            /\ row.key = a /\ row.current = acc /\ row.original = rows[i].original
        BY <1>3
      <4> QED BY <4>1, <4>2
    <3>2. CASE k # i
      BY <1>1, <1>5, <3>2
    <3> QED BY <3>1, <3>2
  <2> QED BY <1>5, <1>7, <2>1 DEF AccountRows
<1>9. ASSUME NEW b, Listed(rows, b)
      PROVE  /\ new[RowOf(new, b)].current = IF b = a THEN acc ELSE rows[RowOf(rows, b)].current
             /\ new[RowOf(new, b)].original = rows[RowOf(rows, b)].original
  <2>1. RowOf(rows, b) \in 1 .. Len(rows) /\ rows[RowOf(rows, b)].key = b
    BY <1>1, <1>9, RowFound
  <2>2. RowOf(rows, b) = i <=> b = a
    BY <1>1, <1>2, <2>1 DEF i, Unique
  <2>3. new[RowOf(new, b)] = IF b = a THEN row ELSE rows[RowOf(rows, b)]
    BY <1>5, <1>7, <1>9, <2>1, <2>2
  <2>4. CASE b = a
    BY <1>2, <1>3, <2>2, <2>3, <2>4
  <2>5. CASE b # a
    BY <2>3, <2>5
  <2> QED BY <2>4, <2>5
<1>10. [new EXCEPT ![i].current = rows[i].current] = rows
  <2> DEFINE back == [new EXCEPT ![i].current = rows[i].current]
             old == [new[i] EXCEPT !.current = rows[i].current]
  <2>1. back = [new EXCEPT ![i] = old]
    OBVIOUS
  <2>2. i \in 1 .. Len(new) /\ new[i] = row
    BY <1>2, <1>5
  <2>3. old = rows[i]
    <3>1. rows[i] = [key |-> rows[i].key, current |-> rows[i].current, original |-> rows[i].original]
      BY <1>1, <1>2
    <3> QED BY <1>2, <1>3, <2>2, <3>1
  <2> HIDE DEF back, old
  <2>4. /\ IsSeq(back) /\ Len(back) = Len(rows)
        /\ \A k \in 1 .. Len(rows) : back[k] = IF k = i THEN old ELSE new[k]
    <3>1. IsSeq(new) /\ i \in 1 .. Len(new) /\ Len(new) = Len(rows)
      BY <1>5, <2>2
    <3>2. /\ IsSeq(back) /\ Len(back) = Len(new)
          /\ \A k \in 1 .. Len(new) : back[k] = IF k = i THEN old ELSE new[k]
      <4>1. ReplacedAt(back, new, i, old)
        BY <2>1 DEF ReplacedAt
      <4> QED BY <3>1, <4>1, SeqExcept
    <3> QED BY <3>1, <3>2
  <2>5. \A k \in 1 .. Len(rows) : back[k] = rows[k]
    BY <1>5, <2>3, <2>4
  <2>6. back = rows
    BY <1>1, <2>4, <2>5, SeqSame
  <2> QED BY <2>6 DEF back
<1>11. RowOf(new, a) = i
  BY <1>7 DEF i
<1>12. SetRow(new, a, rows[i].current) = rows
  BY <1>10, <1>11 DEF SetRow
<1> QED BY <1>7, <1>8, <1>9, <1>12 DEF i, new, SetRow

(* The tables of a host have rows of the right form.                       *)
Shaped(d) ==
  /\ IsHost(d) /\ IsSeq(d.journal)
  /\ AccountRows(d.account_tx) /\ StorageRows(d.storage_tx)
  /\ d.generations \in [Addr -> Nat] /\ d.next_generation \in Nat
  /\ DOMAIN d.account_block \subseteq Addr

(* Replacing an account keeps the tables in shape.                         *)
LEMMA PutsShaped ==
  ASSUME NEW x, Shaped(x), NEW y, Extends(x, y), NEW a, NEW acc, Puts(x, y, a, acc)
  PROVE  Shaped(y)
BY DEF Shaped, Extends, Puts, SameOthers

(* A host with another journal and other account rows.                     *)
Relisted(y, x, journal, rows) == y = [x EXCEPT !.journal = journal, !.account_tx = rows]

(* The parts of such a host.                                               *)
LEMMA RelistedHost ==
  ASSUME NEW x, IsHost(x), NEW y, NEW journal, NEW rows, Relisted(y, x, journal, rows)
  PROVE  IsHost(y) /\ y.journal = journal /\ y.account_tx = rows /\ SameOthers(x, y)
BY DEF IsHost, Relisted, SameOthers

(* Setting a field back gives the account back.                            *)
LEMMA AccountFieldSet ==
  ASSUME NEW acc, IsAccount(acc), NEW field \in AccountFields, NEW v
  PROVE  [[acc EXCEPT ![field] = v] EXCEPT ![field] = acc[field]] = acc
BY DEF IsAccount, AccountFields

(* A first write lists the account: what is journalled removes the row     *)
(* again.                                                                  *)
LEMMA ListAccountPuts ==
  ASSUME NEW x, Shaped(x), NEW a \in Addr, ~acct_tx_found(x, a), NEW acc, IsAccount(acc),
         IsAccount(acct_block_get(x, a))
  PROVE  Extends(x, ListAccount(x, a, acc)) /\ Puts(x, ListAccount(x, a, acc), a, acc)
<1> DEFINE y == ListAccount(x, a, acc)
           row == [key |-> a, current |-> acc, original |-> acct_block_get(x, a)]
           e == [tag |-> "AccountListed", key |-> a, prior |-> NoPrior]
           rows == x.account_tx
<1>1. /\ IsHost(y) /\ y.journal = Append(x.journal, e) /\ y.account_tx = Append(rows, row)
      /\ SameOthers(x, y)
  <2>1. Relisted(y, x, Append(x.journal, e), Append(rows, row))
    <3>1. IsHost(x)
      BY DEF Shaped
    <3> HIDE DEF row
    <3>2. y = [Push(x, "AccountListed", a, NoPrior) EXCEPT !.account_tx = Append(@, row)]
      BY DEF ListAccount, row
    <3> HIDE DEF y
    <3> QED BY <3>1, <3>2 DEF Relisted, IsHost, Push
  <2> HIDE DEF y, e, row, rows
  <2> QED BY <2>1, RelistedHost DEF Shaped
<1>2. /\ IsSeq(rows) /\ Unique(rows) /\ row.key = a /\ ~Listed(rows, row.key)
  BY DEF Shaped, AccountRows, acct_tx_found
<1>3. Extends(x, y)
  <2>1. Plain(e)
    BY DEF Plain
  <2>2. _journal_restore(y, e) = [y EXCEPT !.account_tx = Pop(@)]
    BY DEF _journal_restore, AccountFields
  <2>3. Pop(y.account_tx) = rows
    BY <1>1, <1>2, PopAppend
  <2>4. SameTables(_journal_restore(y, e), x)
    BY <1>1, <2>2, <2>3 DEF SameTables, SameOthers, IsHost
  <2>5. IsHost(x) /\ IsSeq(x.journal)
    BY DEF Shaped
  <2> QED BY <1>1, <2>1, <2>4, <2>5, ExtendsPush
<1> HIDE DEF row
<1>4. /\ IsSeq(Append(rows, row)) /\ Unique(Append(rows, row))
      /\ \A b : Listed(Append(rows, row), b) <=> Listed(rows, b) \/ b = row.key
      /\ \A b : Listed(rows, b) => RowOf(Append(rows, row), b) = RowOf(rows, b)
      /\ RowOf(Append(rows, row), row.key) = Len(rows) + 1
  BY <1>2, RowsGrow
<1>5. /\ Len(Append(rows, row)) = Len(rows) + 1 /\ Len(rows) \in Nat
      /\ \A i \in 1 .. Len(rows) : Append(rows, row)[i] = rows[i]
      /\ Append(rows, row)[Len(rows) + 1] = row
  BY <1>2, SeqAppend DEF IsSeq
<1> HIDE DEF y, rows
<1>6. AccountRows(y.account_tx)
  <2>1. ASSUME NEW i \in 1 .. Len(rows) + 1
        PROVE  LET r == Append(rows, row)[i]
               IN /\ r = [key |-> r.key, current |-> r.current, original |-> r.original]
                  /\ r.key \in Addr /\ IsAccount(r.current) /\ IsAccount(r.original)
    <3>1. CASE i = Len(rows) + 1
      <4>1. Append(rows, row)[i] = row
        BY <1>5, <3>1
      <4>2. /\ row = [key |-> row.key, current |-> row.current, original |-> row.original]
            /\ row.key \in Addr /\ IsAccount(row.current) /\ IsAccount(row.original)
        BY DEF row
      <4> QED BY <4>1, <4>2
    <3>2. CASE i # Len(rows) + 1
      <4>1. i \in 1 .. Len(rows)
        BY <1>5, <3>2
      <4>2. Append(rows, row)[i] = rows[i]
        BY <1>5, <4>1
      <4> QED BY <4>1, <4>2 DEF Shaped, AccountRows, rows
    <3> QED BY <3>1, <3>2
  <2> QED BY <1>1, <1>4, <1>5, <2>1 DEF AccountRows
<1>7. \A b : acct_tx_found(y, b) <=> acct_tx_found(x, b) \/ b = a
  BY <1>1, <1>2, <1>4 DEF acct_tx_found, rows
<1>8. ASSUME NEW b, acct_tx_found(y, b)
      PROVE  /\ acct_tx_get(y, b) = IF b = a THEN acc ELSE acct_tx_get(x, b)
             /\ Orig(y, b) = IF acct_tx_found(x, b) THEN Orig(x, b) ELSE acct_block_get(x, a)
  <2>1. CASE b = a
    <3>1. y.account_tx[RowOf(y.account_tx, b)] = row
      BY <1>1, <1>2, <1>4, <1>5, <2>1
    <3>2. row.current = acc /\ row.original = acct_block_get(x, a)
      BY DEF row
    <3> QED BY <2>1, <3>1, <3>2 DEF acct_tx_get, Orig
  <2>2. CASE b # a
    <3>1. acct_tx_found(x, b) /\ Listed(rows, b)
      BY <1>7, <1>8, <2>2 DEF acct_tx_found, rows
    <3>2. RowOf(rows, b) \in 1 .. Len(rows)
      BY <1>2, <3>1, RowFound
    <3>3. y.account_tx[RowOf(y.account_tx, b)] = rows[RowOf(rows, b)]
      BY <1>1, <1>4, <1>5, <3>1, <3>2
    <3> QED BY <2>2, <3>1, <3>3 DEF acct_tx_get, Orig, rows
  <2> QED BY <2>1, <2>2
<1> QED BY <1>1, <1>3, <1>6, <1>7, <1>8 DEF Puts, y

(* Replacing the account of a listed row, whatever the journal says.       *)
LEMMA SetRowPuts ==
  ASSUME NEW x, Shaped(x), NEW a, acct_tx_found(x, a), NEW acc, IsAccount(acc), NEW y,
         y.account_tx = SetRow(x.account_tx, a, acc), SameOthers(x, y)
  PROVE  Puts(x, y, a, acc)
<1> DEFINE rows == x.account_tx
           new == SetRow(rows, a, acc)
<1>1. AccountRows(rows) /\ Listed(rows, a)
  BY DEF Shaped, acct_tx_found
<1>2. /\ AccountRows(new)
      /\ \A b : Listed(new, b) <=> Listed(rows, b)
      /\ \A b : Listed(rows, b) =>
           /\ RowOf(new, b) = RowOf(rows, b)
           /\ new[RowOf(new, b)].current = IF b = a THEN acc ELSE rows[RowOf(rows, b)].current
           /\ new[RowOf(new, b)].original = rows[RowOf(rows, b)].original
  BY <1>1, RowSet
<1>3. y.account_tx = new
  OBVIOUS
<1> HIDE DEF new
<1> QED BY <1>1, <1>2, <1>3 DEF Puts, acct_tx_found, acct_tx_get, Orig

(* A field of a listed account is journalled with its prior value when it  *)
(* changes.                                                                *)
LEMMA SetFieldPuts ==
  ASSUME NEW x, Shaped(x), NEW a, acct_tx_found(x, a), NEW field \in AccountFields, NEW v,
         IsAccount([acct_tx_get(x, a) EXCEPT ![field] = v])
  PROVE  /\ Extends(x, SetField(x, a, field, v))
         /\ Puts(x, SetField(x, a, field, v), a, [acct_tx_get(x, a) EXCEPT ![field] = v])
<1> DEFINE rows == x.account_tx
           cur == acct_tx_get(x, a)
           acc == [cur EXCEPT ![field] = v]
           y == SetField(x, a, field, v)
<1>1. /\ IsHost(x) /\ IsSeq(x.journal) /\ AccountRows(rows) /\ Listed(rows, a)
  BY DEF Shaped, acct_tx_found
<1>2. RowOf(rows, a) \in 1 .. Len(rows) /\ cur = rows[RowOf(rows, a)].current /\ IsAccount(cur)
  <2>1. RowOf(rows, a) \in 1 .. Len(rows)
    BY <1>1, RowFound DEF AccountRows
  <2> QED BY <1>1, <2>1 DEF AccountRows, acct_tx_get
<1>3. CASE cur[field] = v
  <2>1. y = x
    BY <1>3 DEF SetField
  <2>2. Extends(x, x)
    BY <1>1, ExtendsSame DEF SameTables
  <2>3. acc = cur
    BY <1>2, <1>3 DEF IsAccount, AccountFields
  <2>4. Puts(x, x, a, cur)
    BY <1>1 DEF Puts, SameOthers, acct_tx_found
  <2> QED BY <2>1, <2>2, <2>3, <2>4
<1>4. CASE cur[field] # v
  <2> DEFINE e == [tag |-> field, key |-> a, prior |-> cur[field]]
  <2>1. y = SetAccount(Push(x, field, a, cur[field]), a, acc)
    BY <1>4 DEF SetField
  <2>2. /\ IsHost(y) /\ y.journal = Append(x.journal, e) /\ SameOthers(x, y)
        /\ y.account_tx = SetRow(rows, a, acc)
    <3>1. Relisted(y, x, Append(x.journal, e), SetRow(rows, a, acc))
      <4>1. Push(x, field, a, cur[field]) = [x EXCEPT !.journal = Append(x.journal, e)]
        BY <1>1 DEF Push
      <4> HIDE DEF y, acc, e, cur
      <4> QED BY <1>1, <2>1, <4>1 DEF Relisted, IsHost, SetAccount
    <3> HIDE DEF y, acc, e, cur, rows
    <3> QED BY <1>1, <3>1, RelistedHost
  <2>3. IsAccount(acc) /\ SetRow(SetRow(rows, a, acc), a, cur) = rows
        /\ RowOf(SetRow(rows, a, acc), a) = RowOf(rows, a)
        /\ SetRow(rows, a, acc)[RowOf(rows, a)].current = acc
    <3>1. IsAccount(acc)
      OBVIOUS
    <3> HIDE DEF acc, cur
    <3> QED BY <1>1, <1>2, <3>1, RowSet
  <2>4. Puts(x, y, a, acc)
    <3> HIDE DEF acc, cur, y
    <3> QED BY <2>2, <2>3, SetRowPuts
  <2>5. Plain(e)
    BY DEF Plain, AccountFields
  <2>6. _journal_restore(y, e) = SetAccount(y, a, [acct_tx_get(y, a) EXCEPT ![field] = cur[field]])
    BY DEF _journal_restore, AccountFields
  <2>7. [acc EXCEPT ![field] = cur[field]] = cur
    BY <1>2, AccountFieldSet
  <2>8. acct_tx_get(y, a) = acc
    BY <2>2, <2>3 DEF acct_tx_get
  <2>9. _journal_restore(y, e) = SetAccount(y, a, cur)
    BY <2>6, <2>7, <2>8
  <2>10. SameTables(_journal_restore(y, e), x)
    <3> HIDE DEF y, acc, e, cur
    <3> QED BY <2>2, <2>3, <2>9 DEF SetAccount, SameTables, SameOthers, IsHost
  <2>11. Extends(x, y)
    <3> HIDE DEF y, e
    <3> QED BY <1>1, <2>2, <2>5, <2>10, ExtendsPush
  <2> QED BY <2>4, <2>11
<1> QED BY <1>3, <1>4

(* Two replacements of one account, the later one counting.                *)
LEMMA PutsStep ==
  ASSUME NEW x, NEW y, NEW z, NEW a, NEW c, NEW acc, Puts(x, y, a, c), Puts(y, z, a, acc)
  PROVE  Puts(x, z, a, acc)
<1>1. SameOthers(x, z) /\ AccountRows(z.account_tx)
  BY DEF Puts, SameOthers
<1>2. \A b : acct_tx_found(z, b) <=> acct_tx_found(x, b) \/ b = a
  BY DEF Puts
<1>3. ASSUME NEW b, acct_tx_found(z, b)
      PROVE  /\ acct_tx_get(z, b) = IF b = a THEN acc ELSE acct_tx_get(x, b)
             /\ Orig(z, b) = IF acct_tx_found(x, b) THEN Orig(x, b) ELSE acct_block_get(x, a)
  BY <1>3 DEF Puts
<1> QED BY <1>1, <1>2, <1>3 DEF Puts

(* The field that acct_tx_update sets next becomes that of the new         *)
(* account.                                                                *)
LEMMA FieldStep ==
  ASSUME NEW x, Shaped(x), NEW y, NEW a, NEW c, Extends(x, y), Puts(x, y, a, c),
         NEW field \in AccountFields, NEW v, IsAccount([c EXCEPT ![field] = v])
  PROVE  /\ Extends(x, SetField(y, a, field, v))
         /\ Puts(x, SetField(y, a, field, v), a, [c EXCEPT ![field] = v])
<1> DEFINE z == SetField(y, a, field, v)
           acc == [c EXCEPT ![field] = v]
<1>1. Shaped(y) /\ acct_tx_found(y, a) /\ acct_tx_get(y, a) = c
  BY PutsShaped DEF Puts
<1>2. Extends(y, z) /\ Puts(y, z, a, acc)
  BY <1>1, SetFieldPuts
<1>3. IsSeq(x.journal)
  BY DEF Shaped
<1> HIDE DEF z, acc
<1>4. Extends(x, z) /\ Puts(x, z, a, acc)
  BY <1>2, <1>3, ExtendsStep, PutsStep
<1> QED BY <1>4 DEF z, acc

(* The six journalled fields of an account, one after the other.           *)
AllFields(d, a, acc) ==
  LET set(e, field) == SetField(e, a, field, acc[field])
      info(e) == set(set(set(e, "balance"), "nonce"), "code")
      flags(e) == set(set(set(e, "present"), "created"), "selfdestructed")
  IN flags(info(d))

(* An account that agrees in all seven fields is the account.              *)
LEMMA AllFieldsPut ==
  ASSUME NEW x, Shaped(x), NEW y, NEW a, NEW c, IsAccount(c), Extends(x, y), Puts(x, y, a, c),
         NEW acc, IsAccount(acc), acc.storage_cleared = c.storage_cleared
  PROVE  Extends(x, AllFields(y, a, acc)) /\ Puts(x, AllFields(y, a, acc), a, acc)
<1> DEFINE Set(e, f) == SetField(e, a, f, acc[f])
           With(g, f) == [g EXCEPT ![f] = acc[f]]
           c1 == With(c, "balance")
           c2 == With(c1, "nonce")
           c3 == With(c2, "code")
           c4 == With(c3, "present")
           c5 == With(c4, "created")
           c6 == With(c5, "selfdestructed")
<1>1. ASSUME NEW e, Extends(x, e), NEW g, Puts(x, e, a, g), IsAccount(g), NEW f \in AccountFields
      PROVE  Extends(x, Set(e, f)) /\ Puts(x, Set(e, f), a, With(g, f)) /\ IsAccount(With(g, f))
             /\ With(g, f).storage_cleared = g.storage_cleared
  <2>1. IsAccount(With(g, f)) /\ With(g, f).storage_cleared = g.storage_cleared
    <3>1. /\ f = "balance" \/ f = "nonce" \/ f = "code"
             \/ f = "present" \/ f = "created" \/ f = "selfdestructed"
          /\ IsAccount(g) /\ IsAccount(acc)
      BY <1>1 DEF AccountFields
    <3>2. CASE f = "balance"
      <4>1. With(g, f) = [g EXCEPT !.balance = acc.balance]
        BY <3>2
      <4> HIDE DEF With
      <4> QED BY <3>1, <4>1 DEF IsAccount
    <3>3. CASE f = "nonce"
      <4>1. With(g, f) = [g EXCEPT !.nonce = acc.nonce]
        BY <3>3
      <4> HIDE DEF With
      <4> QED BY <3>1, <4>1 DEF IsAccount
    <3>4. CASE f = "code"
      <4>1. With(g, f) = [g EXCEPT !.code = acc.code]
        BY <3>4
      <4> HIDE DEF With
      <4> QED BY <3>1, <4>1 DEF IsAccount
    <3>5. CASE f = "present"
      <4>1. With(g, f) = [g EXCEPT !.present = acc.present]
        BY <3>5
      <4> HIDE DEF With
      <4> QED BY <3>1, <4>1 DEF IsAccount
    <3>6. CASE f = "created"
      <4>1. With(g, f) = [g EXCEPT !.created = acc.created]
        BY <3>6
      <4> HIDE DEF With
      <4> QED BY <3>1, <4>1 DEF IsAccount
    <3>7. CASE f = "selfdestructed"
      <4>1. With(g, f) = [g EXCEPT !.selfdestructed = acc.selfdestructed]
        BY <3>7
      <4> HIDE DEF With
      <4> QED BY <3>1, <4>1 DEF IsAccount
    <3> QED BY <3>1, <3>2, <3>3, <3>4, <3>5, <3>6, <3>7
  <2> QED BY <1>1, <2>1, FieldStep
<1>2. /\ "balance" \in AccountFields /\ "nonce" \in AccountFields /\ "code" \in AccountFields
      /\ "present" \in AccountFields /\ "created" \in AccountFields
      /\ "selfdestructed" \in AccountFields
  BY DEF AccountFields
<1>3. c6 = acc
  BY DEF IsAccount
<1>4. AllFields(y, a, acc) = Set(Set(Set(Set(Set(Set(y, "balance"), "nonce"), "code"), "present"), "created"), "selfdestructed")
  BY DEF AllFields
<1> HIDE DEF Set, With
<1>5. /\ Extends(x, Set(y, "balance")) /\ Puts(x, Set(y, "balance"), a, c1) /\ IsAccount(c1)
  BY <1>1, <1>2
<1>6. LET z == Set(Set(y, "balance"), "nonce")
      IN Extends(x, z) /\ Puts(x, z, a, c2) /\ IsAccount(c2)
  BY <1>1, <1>2, <1>5
<1>7. LET z == Set(Set(Set(y, "balance"), "nonce"), "code")
      IN Extends(x, z) /\ Puts(x, z, a, c3) /\ IsAccount(c3)
  BY <1>1, <1>2, <1>6
<1>8. LET z == Set(Set(Set(Set(y, "balance"), "nonce"), "code"), "present")
      IN Extends(x, z) /\ Puts(x, z, a, c4) /\ IsAccount(c4)
  BY <1>1, <1>2, <1>7
<1>9. LET z == Set(Set(Set(Set(Set(y, "balance"), "nonce"), "code"), "present"), "created")
      IN Extends(x, z) /\ Puts(x, z, a, c5) /\ IsAccount(c5)
  BY <1>1, <1>2, <1>8
<1>10. LET z == Set(Set(Set(Set(Set(Set(y, "balance"), "nonce"), "code"), "present"), "created"), "selfdestructed")
       IN Extends(x, z) /\ Puts(x, z, a, c6)
  BY <1>1, <1>2, <1>9
<1> QED BY <1>3, <1>4, <1>10

(* acct_tx_update when the cleared flag of a listed account stays.         *)
LEMMA UpdatePuts ==
  ASSUME NEW x, Shaped(x), NEW a \in Addr, NEW acc, IsAccount(acc),
         acct_tx_found(x, a) => acc.storage_cleared = acct_tx_get(x, a).storage_cleared,
         ~acct_tx_found(x, a) => IsAccount(acct_block_get(x, a))
  PROVE  Extends(x, acct_tx_update(x, a, acc)) /\ Puts(x, acct_tx_update(x, a, acc), a, acc)
<1>1. CASE ~acct_tx_found(x, a)
  <2>1. acct_tx_update(x, a, acc) = ListAccount(x, a, acc)
    BY <1>1 DEF acct_tx_update
  <2> QED BY <1>1, <2>1, ListAccountPuts
<1>2. CASE acct_tx_found(x, a)
  <2> DEFINE cur == acct_tx_get(x, a)
             y == SetCleared(x, a, acc.storage_cleared)
  <2>1. /\ IsHost(x) /\ IsSeq(x.journal) /\ AccountRows(x.account_tx) /\ IsAccount(cur)
    <3>1. RowOf(x.account_tx, a) \in 1 .. Len(x.account_tx)
      BY <1>2, RowFound DEF Shaped, AccountRows, acct_tx_found
    <3> QED BY <3>1 DEF Shaped, AccountRows, acct_tx_get
  <2>2. [cur EXCEPT !.storage_cleared = acc.storage_cleared] = cur
    BY <1>2, <2>1 DEF IsAccount
  <2>3. y = SetAccount(x, a, cur)
    BY <2>2 DEF SetCleared
  <2>4. Relisted(y, x, x.journal, SetRow(x.account_tx, a, cur))
    <3> HIDE DEF cur, y
    <3> QED BY <2>1, <2>3 DEF SetAccount, Relisted, IsHost
  <2>5. /\ IsHost(y) /\ y.journal = x.journal /\ SameOthers(x, y)
        /\ y.account_tx = SetRow(x.account_tx, a, cur)
    <3> HIDE DEF cur, y
    <3> QED BY <2>1, <2>4, RelistedHost
  <2>6. SetRow(x.account_tx, a, cur) = x.account_tx
    <3>1. Listed(x.account_tx, a) /\ x.account_tx[RowOf(x.account_tx, a)].current = cur
      BY <1>2 DEF acct_tx_found, acct_tx_get
    <3> HIDE DEF cur
    <3> DEFINE rows == x.account_tx
               i == RowOf(rows, a)
    <3>2. IsSeq(rows) /\ i \in 1 .. Len(rows)
          /\ rows[i] = [key |-> rows[i].key, current |-> rows[i].current, original |-> rows[i].original]
      BY <2>1, <3>1, RowFound DEF AccountRows
    <3> HIDE DEF i, rows
    <3>3. [rows[i] EXCEPT !.current = rows[i].current] = rows[i]
      BY <3>2
    <3>4. SetRow(rows, a, cur) = [rows EXCEPT ![i] = [rows[i] EXCEPT !.current = rows[i].current]]
      BY <3>1, <3>2, SeqDomain DEF SetRow, i, rows
    <3>5. [rows EXCEPT ![i] = rows[i]] = rows
      BY <3>2 DEF IsSeq
    <3> QED BY <3>3, <3>4, <3>5 DEF rows
  <2> HIDE DEF y, cur
  <2>7. Extends(x, y)
    BY <2>1, <2>5, <2>6, ExtendsSame DEF SameTables, SameOthers
  <2>8. Puts(x, y, a, cur)
    BY <1>2, <2>1, <2>5, SetRowPuts
  <2>9. acct_tx_update(x, a, acc) = AllFields(y, a, acc)
    BY <1>2 DEF acct_tx_update, AllFields, y
  <2>10. acc.storage_cleared = cur.storage_cleared
    BY <1>2 DEF cur
  <2> QED BY <2>1, <2>7, <2>8, <2>9, <2>10, AllFieldsPut
<1> QED BY <1>1, <1>2

(* The cleared flag of an account may be any.                              *)
LEMMA AccountCleared ==
  ASSUME NEW c, IsAccount(c), NEW b \in BOOLEAN
  PROVE  IsAccount([c EXCEPT !.storage_cleared = b])
BY DEF IsAccount

(* Leaving a listed account alone replaces it by itself.                   *)
LEMMA PutsSelf ==
  ASSUME NEW x, Shaped(x), NEW a, acct_tx_found(x, a)
  PROVE  Extends(x, x) /\ Puts(x, x, a, acct_tx_get(x, a)) /\ IsAccount(acct_tx_get(x, a))
<1>1. Extends(x, x)
  BY ExtendsSame DEF SameTables, Shaped
<1>2. Puts(x, x, a, acct_tx_get(x, a))
  BY DEF Puts, SameOthers, Shaped
<1>3. RowOf(x.account_tx, a) \in 1 .. Len(x.account_tx)
  BY RowFound DEF Shaped, AccountRows, acct_tx_found
<1> QED BY <1>1, <1>2, <1>3 DEF Shaped, AccountRows, acct_tx_get

(* The account of a takes a generation of its own: what clearing its       *)
(* storage does besides journalling it.                                    *)
Renewed(d, a) ==
  [d EXCEPT !.generations = [@ EXCEPT ![a] = d.next_generation + 1], !.next_generation = @ + 1]

(* p with another journal and other account rows, in the same terms.       *)
Rejoined(y, p, journal, rows) ==
  /\ IsHost(y) /\ y.journal = journal /\ y.account_tx = rows /\ SameOthers(p, y)

(* A new generation changes neither the rows nor the journal.              *)
LEMMA RenewedShaped ==
  ASSUME NEW x, Shaped(x), NEW a \in Addr
  PROVE  /\ Shaped(Renewed(x, a)) /\ Renewed(x, a).account_tx = x.account_tx
         /\ Renewed(x, a).journal = x.journal /\ Renewed(x, a).storage_tx = x.storage_tx
         /\ Renewed(x, a).generations = [x.generations EXCEPT ![a] = x.next_generation + 1]
         /\ Renewed(x, a).account_block = x.account_block
         /\ Renewed(x, a).storage_block = x.storage_block
         /\ Renewed(x, a).bal = x.bal
<1> DEFINE p == Renewed(x, a)
<1>1. IsHost(x) /\ x.generations \in [Addr -> Nat] /\ x.next_generation \in Nat
  BY DEF Shaped
<1>2. /\ p.account_tx = x.account_tx /\ p.journal = x.journal /\ p.storage_tx = x.storage_tx
      /\ p.generations = [x.generations EXCEPT ![a] = x.next_generation + 1]
      /\ p.next_generation = x.next_generation + 1
      /\ p.account_block = x.account_block /\ p.storage_block = x.storage_block
      /\ p.bal = x.bal /\ IsHost(p)
  <2> DEFINE g == [x.generations EXCEPT ![a] = x.next_generation + 1]
             n == x.next_generation + 1
  <2>1. p = [x EXCEPT !.generations = g, !.next_generation = n]
    BY DEF Renewed
  <2> HIDE DEF p, g, n
  <2>2. /\ p.account_tx = x.account_tx /\ p.journal = x.journal /\ p.storage_tx = x.storage_tx
        /\ p.generations = g /\ p.next_generation = n
        /\ p.account_block = x.account_block /\ p.storage_block = x.storage_block
        /\ p.bal = x.bal /\ IsHost(p)
    BY <1>1, <2>1 DEF IsHost
  <2> QED BY <2>2 DEF g, n
<1>3. p.generations \in [Addr -> Nat] /\ p.next_generation \in Nat
  BY <1>1, <1>2
<1> HIDE DEF p
<1>4. Shaped(p)
  BY <1>2, <1>3 DEF Shaped
<1> QED BY <1>2, <1>4 DEF p

(* The prior generation that is journalled gives the generations back.     *)
LEMMA GenerationBack ==
  ASSUME NEW x, Shaped(x), NEW a \in Addr
  PROVE  [Renewed(x, a).generations EXCEPT ![a] = x.generations[a]] = x.generations
<1>1. Renewed(x, a).generations = [x.generations EXCEPT ![a] = x.next_generation + 1]
  BY RenewedShaped
<1>2. x.generations \in [Addr -> Nat]
  BY DEF Shaped
<1> QED BY <1>1, <1>2

(* storage_tx_clear and acct_tx_update together: undoing the two restores  *)
(* the cleared flag, which is not journalled, from the generation.         *)
LEMMA ClearUpdatePuts ==
  ASSUME NEW x, Shaped(x), NEW a \in Addr, NEW acc, IsAccount(acc), acc.storage_cleared = TRUE,
         acct_tx_found(x, a) =>
           acct_tx_get(x, a).storage_cleared = (Orig(x, a).storage_cleared \/ x.generations[a] # 0),
         ~acct_tx_found(x, a) => IsAccount(acct_block_get(x, a))
  PROVE  LET y == acct_tx_update(storage_tx_clear(x, a), a, acc)
         IN Extends(x, y) /\ Puts(Renewed(x, a), y, a, acc)
<1> DEFINE p == Renewed(x, a)
           c == storage_tx_clear(x, a)
           y == acct_tx_update(c, a, acc)
           prior == x.generations[a]
           e == [tag |-> "AccountGeneration", key |-> a, prior |-> prior]
           rows == x.account_tx
<1>1. /\ IsHost(x) /\ IsSeq(x.journal) /\ AccountRows(rows) /\ prior \in Nat
      /\ x.next_generation \in Nat /\ x.generations \in [Addr -> Nat]
  BY DEF Shaped
<1>2. /\ Shaped(p) /\ p.account_tx = x.account_tx /\ p.journal = x.journal
      /\ p.storage_tx = x.storage_tx /\ IsHost(p) /\ p.account_block = x.account_block
      /\ [p.generations EXCEPT ![a] = prior] = x.generations
  <2>1. [p.generations EXCEPT ![a] = prior] = x.generations
    BY GenerationBack
  <2>2. IsHost(p)
    BY RenewedShaped DEF Shaped
  <2> HIDE DEF prior
  <2> QED BY <2>1, <2>2, RenewedShaped
<1>3. c = [p EXCEPT !.journal = Append(x.journal, e)]
  BY <1>1 DEF storage_tx_clear, Push, IsHost, Renewed
<1>4. Rejoined(c, p, Append(x.journal, e), rows)
  <2> HIDE DEF c, p, e, rows
  <2> QED BY <1>2, <1>3 DEF Rejoined, IsHost, SameOthers, rows
<1>5. Plain(e)
  BY DEF Plain
<1>6. IsSeq(Append(x.journal, e))
  BY <1>1, SeqAppend
<1>7. Shaped(c)
  <2> HIDE DEF c, p, e, rows
  <2> QED BY <1>2, <1>4, <1>6 DEF Rejoined, SameOthers, Shaped, rows
<1>8. CASE ~acct_tx_found(x, a)
  <2>1. ~acct_tx_found(c, a)
    BY <1>4, <1>8 DEF Rejoined, acct_tx_found
  <2>2. _journal_restore(c, e) = [c EXCEPT !.generations = [@ EXCEPT ![a] = prior]]
    BY <2>1 DEF _journal_restore, RestoreGeneration, AccountFields
  <2>3. SameTables(_journal_restore(c, e), x)
    <3> HIDE DEF c, p, e, rows, prior
    <3> QED BY <1>2, <1>4, <2>2 DEF Rejoined, SameTables, SameOthers, IsHost, rows
  <2>4. Extends(x, c)
    <3> HIDE DEF c, p, e, rows
    <3> QED BY <1>1, <1>4, <1>5, <2>3, ExtendsPush DEF Rejoined
  <2>5. IsAccount(acct_block_get(c, a))
    <3> HIDE DEF c, p, e
    <3> QED BY <1>2, <1>4, <1>8 DEF Rejoined, SameOthers, acct_block_get
  <2>6. y = ListAccount(c, a, acc)
    BY <2>1 DEF acct_tx_update
  <2> HIDE DEF c, p, e, y
  <2>7. Extends(c, y) /\ Puts(c, y, a, acc)
    BY <1>7, <2>1, <2>5, <2>6, ListAccountPuts
  <2>8. Extends(x, y)
    BY <1>1, <2>4, <2>7, ExtendsStep
  <2>9. Puts(p, y, a, acc)
    <3>1. SameOthers(p, c) /\ p.account_tx = c.account_tx
      BY <1>2, <1>4 DEF Rejoined, rows
    <3> QED BY <2>7, <3>1 DEF Puts, SameOthers, acct_tx_found, acct_tx_get, Orig, acct_block_get
  <2> QED BY <2>8, <2>9 DEF y, c, p
<1>9. CASE acct_tx_found(x, a)
  <2> DEFINE cur == acct_tx_get(x, a)
             new == [cur EXCEPT !.storage_cleared = TRUE]
             z == SetCleared(c, a, TRUE)
             flag == Orig(x, a).storage_cleared \/ prior # 0
  <2>1. IsAccount(cur) /\ IsAccount(new) /\ [new EXCEPT !.storage_cleared = flag] = cur
        /\ Listed(rows, a)
    <3>1. IsAccount(cur) /\ cur.storage_cleared = flag
      BY <1>9, PutsSelf
    <3> HIDE DEF cur, flag
    <3>2. IsAccount(new)
      BY <3>1, AccountCleared
    <3>3. [new EXCEPT !.storage_cleared = cur.storage_cleared] = cur
      <4>1. cur = [cur EXCEPT !.storage_cleared = cur.storage_cleared]
        BY <3>1 DEF IsAccount
      <4>2. [new EXCEPT !.storage_cleared = cur.storage_cleared] = [cur EXCEPT !.storage_cleared = cur.storage_cleared]
        BY <3>1 DEF IsAccount
      <4> QED BY <4>1, <4>2
    <3> HIDE DEF new
    <3> QED BY <1>9, <3>1, <3>2, <3>3 DEF acct_tx_found
  <2>2. Rejoined(z, p, Append(x.journal, e), SetRow(rows, a, new))
    <3>1. acct_tx_get(c, a) = cur /\ c.account_tx = rows
      BY <1>4 DEF Rejoined, acct_tx_get
    <3>2. z = [c EXCEPT !.account_tx = SetRow(rows, a, new)]
      BY <3>1 DEF SetCleared, SetAccount
    <3> HIDE DEF c, p, e, rows, new, z
    <3> QED BY <1>4, <3>2 DEF Rejoined, IsHost, SameOthers
  <2>3. /\ RowOf(SetRow(rows, a, new), a) = RowOf(rows, a)
        /\ SetRow(rows, a, new)[RowOf(rows, a)].current = new
        /\ SetRow(rows, a, new)[RowOf(rows, a)].original = rows[RowOf(rows, a)].original
        /\ SetRow(SetRow(rows, a, new), a, cur) = rows
        /\ Listed(SetRow(rows, a, new), a)
    <3>1. cur = rows[RowOf(rows, a)].current
      BY DEF acct_tx_get
    <3> HIDE DEF new, cur, rows
    <3> QED BY <1>1, <2>1, <3>1, RowSet DEF rows
  <2>4. SameTables(_journal_restore(z, e), x)
    <3> DEFINE back == [z EXCEPT !.generations = [@ EXCEPT ![a] = prior]]
               t == SetRow(rows, a, new)
    <3>1. z.account_tx = t /\ acct_tx_found(z, a) /\ z.generations = p.generations
          /\ z.storage_tx = p.storage_tx /\ IsHost(z)
      BY <2>2, <2>3 DEF Rejoined, acct_tx_found, SameOthers
    <3>2. z.account_tx[RowOf(z.account_tx, a)].original = Orig(x, a)
      BY <2>3, <3>1 DEF Orig
    <3>3. _journal_restore(z, e) = SetCleared(back, a, flag)
      BY <3>1, <3>2 DEF _journal_restore, RestoreGeneration, AccountFields, InitialGeneration
    <3> HIDE DEF z, e, t, p, cur, new, flag, prior, rows
    <3>4. back.account_tx = t /\ back.generations = x.generations
          /\ back.storage_tx = x.storage_tx /\ IsHost(back)
      BY <1>2, <3>1 DEF IsHost
    <3>5. acct_tx_get(back, a) = new
      BY <2>3, <3>4 DEF acct_tx_get, t
    <3> HIDE DEF back
    <3>6. SetCleared(back, a, flag) = [back EXCEPT !.account_tx = SetRow(t, a, cur)]
      BY <2>1, <3>4, <3>5 DEF SetCleared, SetAccount
    <3> QED BY <2>3, <3>3, <3>4, <3>6 DEF SameTables, IsHost, t, rows
  <2>5. Extends(x, z)
    <3> HIDE DEF z, e, p, rows, new
    <3> QED BY <1>1, <1>5, <2>2, <2>4, ExtendsPush DEF Rejoined
  <2>6. Puts(p, z, a, new)
    <3>1. acct_tx_found(p, a)
      BY <1>2, <1>9 DEF acct_tx_found
    <3> HIDE DEF z, e, p, new
    <3> QED BY <1>2, <2>1, <2>2, <3>1, SetRowPuts DEF Rejoined
  <2>7. Shaped(z)
    <3>1. IsSeq(z.journal) /\ IsHost(z) /\ SameOthers(p, z)
      BY <1>6, <2>2 DEF Rejoined
    <3> HIDE DEF z, e, p, rows, new
    <3> QED BY <1>2, <2>6, <3>1 DEF Shaped, Puts, SameOthers
  <2>8. acct_tx_found(c, a)
    BY <1>4, <1>9 DEF Rejoined, acct_tx_found
  <2>9. y = AllFields(z, a, acc)
    BY <2>8 DEF acct_tx_update, AllFields
  <2>10. acct_tx_found(z, a) /\ acct_tx_get(z, a) = new
    BY <2>6 DEF Puts
  <2>11. acc.storage_cleared = new.storage_cleared
    BY <2>1 DEF IsAccount
  <2> HIDE DEF z, e, p, c, rows, new, y
  <2>12. Extends(z, y) /\ Puts(z, y, a, acc)
    BY <2>1, <2>7, <2>9, <2>10, <2>11, PutsSelf, AllFieldsPut
  <2>13. Extends(x, y) /\ Puts(p, y, a, acc)
    BY <1>1, <2>5, <2>6, <2>12, ExtendsStep, PutsStep
  <2> QED BY <2>13 DEF y, c, p
<1> QED BY <1>8, <1>9

-----------------------------------------------------------------------------
(* The account and the value that the transaction began with.              *)
Base(d, a) == IF acct_block_found(d, a) THEN acct_block_get(d, a) ELSE stateless_account_by_key(a)
Anchor(d, k) == IF Base(d, k[1]).storage_cleared THEN 0 ELSE Parent[k[1]].storage[k[2]]
SlotBase(d, k) == IF k \in DOMAIN d.storage_block THEN d.storage_block[k].curr ELSE Anchor(d, k)
Born(d, k) == IF d.generations[k[1]] # 0 THEN 0 ELSE SlotBase(d, k)

Alive(acc) == acc.nonce # 0 \/ acc.code # NoCode
Fine(acc) == IsAccount(acc) /\ (acc.present <=> ~account_info_empty(acc))

(* The block overlay: rows of finished accounts, storage only of accounts  *)
(* with a nonce or code, everything on the access list.                    *)
IsBal(b) ==
  b = [accounts |-> b.accounts, reads |-> b.reads, storage |-> b.storage,
       balance |-> b.balance, nonce |-> b.nonce, code |-> b.code]

BlockOK(d) ==
  /\ \A a \in DOMAIN d.account_block :
       /\ a \in Addr /\ Fine(d.account_block[a].curr)
       /\ ~d.account_block[a].curr.created /\ ~d.account_block[a].curr.selfdestructed
       /\ \/ account_changed(d.account_block[a].curr, d.account_block[a].orig)
          \/ d.account_block[a].curr = stateless_account_by_key(a)
  /\ \A k \in DOMAIN d.storage_block :
       k \in Addr \X Slot /\ k[1] \in DOMAIN d.account_block /\ d.storage_block[k].orig = Anchor(d, k)
  /\ \A k \in Addr \X Slot : ~Alive(Base(d, k[1])) => SlotBase(d, k) = Anchor(d, k)
  /\ DOMAIN d.account_block \subseteq d.bal.accounts /\ IsBal(d.bal)

AccountOK(d, a) ==
  /\ acct_tx_found(d, a) =>
       /\ acct_block_found(d, a) /\ Orig(d, a) = Base(d, a) /\ Fine(acct_tx_get(d, a))
       /\ acct_tx_get(d, a).storage_cleared = (Base(d, a).storage_cleared \/ d.generations[a] # 0)
       /\ Alive(Base(d, a)) => Alive(acct_tx_get(d, a))
  /\ d.generations[a] # 0 => acct_tx_found(d, a) /\ ~Alive(Base(d, a))

Row(d, k) == d.storage_tx[RowOf(d.storage_tx, k)]
StorageOK(d, k) ==
  Listed(d.storage_tx, k) =>
    /\ Row(d, k).generation = d.generations[k[1]] /\ Row(d, k).orig = Born(d, k)
    /\ Alive(Loaded(d, k[1])) /\ acct_block_found(d, k[1]) /\ k \in d.bal.reads

Overlaid(d) ==
  /\ Shaped(d) /\ BlockOK(d)
  /\ \A a \in Addr : AccountOK(d, a)
  /\ \A k \in Addr \X Slot : StorageOK(d, k)

(* What a transaction's operations do to the rest of the host.             *)
Grows(x, y) ==
  /\ \A a \in Addr : Base(y, a) = Base(x, a)
  /\ \A k \in Addr \X Slot : SlotBase(y, k) = SlotBase(x, k)
  /\ DOMAIN x.account_block \subseteq DOMAIN y.account_block
  /\ x.bal.accounts \subseteq y.bal.accounts /\ x.bal.reads \subseteq y.bal.reads
  /\ y.bal.storage = x.bal.storage /\ y.bal.balance = x.bal.balance
  /\ y.bal.nonce = x.bal.nonce /\ y.bal.code = x.bal.code

Reaches(x, y) == Overlaid(y) /\ Extends(x, y) /\ Grows(x, y)

(* What a transaction's operations leave alone is left alone by two of     *)
(* them.                                                                   *)
LEMMA GrowsStep ==
  ASSUME NEW x, NEW y, NEW z, Grows(x, y), Grows(y, z)
  PROVE  Grows(x, z)
BY DEF Grows

(* Reaching is transitive.                                                 *)
LEMMA ReachesStep ==
  ASSUME NEW x, Overlaid(x), NEW y, NEW z, Reaches(x, y), Reaches(y, z)
  PROVE  Reaches(x, z)
BY ExtendsStep, GrowsStep DEF Reaches, Overlaid, Shaped

(* An account of the parent state is in order: it is present exactly when  *)
(* it is not empty.                                                        *)
LEMMA StatelessFine ==
  ASSUME NEW a \in Addr
  PROVE  /\ Fine(stateless_account_by_key(a))
         /\ ~stateless_account_by_key(a).created /\ ~stateless_account_by_key(a).selfdestructed
BY ParentAssumption DEF stateless_account_by_key, Fine, IsAccount, EmptyAccount, account_info_empty

(* So is one of the block overlay.                                         *)
LEMMA BaseFine ==
  ASSUME NEW d, BlockOK(d), NEW a \in Addr
  PROVE  Fine(Base(d, a)) /\ ~Base(d, a).created /\ ~Base(d, a).selfdestructed
BY StatelessFine DEF Base, BlockOK, acct_block_found, acct_block_get

(* What k_aload returns: the transaction's account if there is one, else   *)
(* that of the block.                                                      *)
LEMMA LoadedIs ==
  ASSUME NEW d, Overlaid(d), NEW a \in Addr
  PROVE  /\ Loaded(d, a) = IF acct_tx_found(d, a) THEN acct_tx_get(d, a) ELSE Base(d, a)
         /\ Fine(Loaded(d, a))
         /\ Loaded(d, a).storage_cleared = (Base(d, a).storage_cleared \/ d.generations[a] # 0)
         /\ Alive(Base(d, a)) => Alive(Loaded(d, a))
         /\ d.generations[a] # 0 => ~Alive(Base(d, a))
<1>1. Loaded(d, a) = IF acct_tx_found(d, a) THEN acct_tx_get(d, a) ELSE Base(d, a)
  BY DEF Loaded, Base
<1>2. AccountOK(d, a) /\ BlockOK(d)
  BY DEF Overlaid
<1>3. Fine(Base(d, a))
  BY <1>2, BaseFine
<1>4. CASE acct_tx_found(d, a)
  BY <1>1, <1>2, <1>4 DEF AccountOK
<1>5. CASE ~acct_tx_found(d, a)
  <2>1. d.generations[a] = 0 /\ Base(d, a).storage_cleared \in BOOLEAN
    BY <1>2, <1>3, <1>5 DEF AccountOK, Fine, IsAccount
  <2> QED BY <1>1, <1>3, <1>5, <2>1
<1> QED BY <1>1, <1>4, <1>5

(* What k_sload returns: the transaction's value if there is one, else the *)
(* value the transaction began with, which a new generation makes zero.    *)
LEMMA SlotIs ==
  ASSUME NEW d, Overlaid(d), NEW a \in Addr, NEW s \in Slot
  PROVE  SlotValue(d, <<a, s>>) =
           [curr |-> IF Listed(d.storage_tx, <<a, s>>) THEN Row(d, <<a, s>>).curr ELSE Born(d, <<a, s>>),
            orig |-> Born(d, <<a, s>>)]
<1> DEFINE k == <<a, s>>
<1>1. k \in Addr \X Slot /\ k[1] = a /\ k[2] = s
  OBVIOUS
<1>2. StorageOK(d, k)
  BY <1>1 DEF Overlaid
<1> HIDE DEF k
<1>3. CASE Listed(d.storage_tx, k)
  <2>1. storage_tx_hit(d, k)
    <3>1. IsSeq(d.storage_tx)
      BY DEF Overlaid, Shaped, StorageRows
    <3>2. Row(d, k).key = k
      BY <1>3, <3>1, RowFound DEF Row
    <3> QED BY <1>2, <1>3, <3>2 DEF storage_tx_hit, StorageLive, StorageOK, Row
  <2>2. storage_tx_get(d, k) = [curr |-> Row(d, k).curr, orig |-> Row(d, k).orig]
    BY DEF storage_tx_get, Row
  <2>3. Row(d, k).orig = Born(d, k)
    BY <1>2, <1>3 DEF StorageOK
  <2> QED BY <1>3, <2>1, <2>2, <2>3 DEF SlotValue, k
<1>4. CASE ~Listed(d.storage_tx, k)
  <2>1. ~storage_tx_hit(d, k)
    BY <1>4 DEF storage_tx_hit
  <2>2. storage_tx_cleared(d, k) <=> d.generations[a] # 0
    BY <1>1 DEF storage_tx_cleared, InitialGeneration
  <2>3. d.generations[a] = 0 => Loaded(d, a).storage_cleared = Base(d, a).storage_cleared
    <3>1. Base(d, a).storage_cleared \in BOOLEAN
      BY BaseFine DEF Overlaid, Fine, IsAccount
    <3> QED BY <3>1, LoadedIs
  <2> QED BY <1>1, <1>4, <2>1, <2>2, <2>3 DEF SlotValue, Born, SlotBase, Anchor, k
<1> QED BY <1>3, <1>4 DEF k

(* Hosts with the same tables over the same bases show the same world.     *)
LEMMA SameView ==
  ASSUME NEW u, Overlaid(u), NEW v, Overlaid(v), SameTables(u, v), Grows(u, v)
  PROVE  View(v) = View(u) /\ \A a \in Addr : Loaded(v, a) = Loaded(u, a)
<1>1. ASSUME NEW a \in Addr PROVE Loaded(v, a) = Loaded(u, a)
  <2>1. Base(v, a) = Base(u, a)
    BY DEF Grows
  <2>2. /\ acct_tx_found(v, a) <=> acct_tx_found(u, a)
        /\ acct_tx_get(v, a) = acct_tx_get(u, a)
    BY DEF SameTables, acct_tx_found, acct_tx_get
  <2> QED BY <2>1, <2>2, LoadedIs
<1>2. ASSUME NEW a \in Addr, NEW s \in Slot PROVE SlotValue(v, <<a, s>>) = SlotValue(u, <<a, s>>)
  <2>1. SlotBase(v, <<a, s>>) = SlotBase(u, <<a, s>>)
    BY DEF Grows
  <2>2. /\ Born(v, <<a, s>>) = Born(u, <<a, s>>) /\ Row(v, <<a, s>>) = Row(u, <<a, s>>)
        /\ Listed(v.storage_tx, <<a, s>>) <=> Listed(u.storage_tx, <<a, s>>)
    BY <2>1 DEF SameTables, Born, Row
  <2> QED BY <2>2, SlotIs
<1> QED BY <1>1, <1>2 DEF View

(* A host that differs in what is not restored, over the same bases, is in *)
(* order as well.                                                          *)
LEMMA Carry ==
  ASSUME NEW u, Overlaid(u), NEW v, IsHost(v), IsSeq(v.journal), v.next_generation \in Nat,
         SameTables(u, v), Grows(u, v), BlockOK(v)
  PROVE  Overlaid(v)
<1>1. Shaped(v)
  BY DEF Overlaid, Shaped, SameTables, BlockOK
<1>2. ASSUME NEW a \in Addr PROVE AccountOK(v, a)
  <2>1. AccountOK(u, a)
    BY DEF Overlaid
  <2>2. /\ Base(v, a) = Base(u, a) /\ v.generations = u.generations /\ Orig(v, a) = Orig(u, a)
        /\ acct_tx_found(v, a) <=> acct_tx_found(u, a)
        /\ acct_tx_get(v, a) = acct_tx_get(u, a)
        /\ acct_block_found(u, a) => acct_block_found(v, a)
    BY DEF Grows, SameTables, Orig, acct_tx_found, acct_tx_get, acct_block_found
  <2> QED BY <2>1, <2>2 DEF AccountOK
<1>3. ASSUME NEW k \in Addr \X Slot PROVE StorageOK(v, k)
  <2>1. StorageOK(u, k) /\ k[1] \in Addr
    BY DEF Overlaid
  <2>2. /\ Base(v, k[1]) = Base(u, k[1]) /\ SlotBase(v, k) = SlotBase(u, k)
        /\ v.generations = u.generations /\ Row(v, k) = Row(u, k) /\ v.storage_tx = u.storage_tx
        /\ acct_block_found(u, k[1]) => acct_block_found(v, k[1])
        /\ u.bal.reads \subseteq v.bal.reads
    BY <2>1 DEF Grows, SameTables, Row, acct_block_found
  <2>3. Loaded(v, k[1]) = Loaded(u, k[1])
    BY <2>1, <2>2 DEF Loaded, Base, SameTables, acct_tx_found, acct_tx_get
  <2> QED BY <2>1, <2>2, <2>3 DEF StorageOK, Born
<1> QED BY <1>1, <1>2, <1>3 DEF Overlaid

(* A step that leaves the tables alone.                                    *)
LEMMA Quiet ==
  ASSUME NEW x, Overlaid(x), NEW y, IsHost(y), y.journal = x.journal,
         y.next_generation = x.next_generation, SameTables(x, y), Grows(x, y), BlockOK(y)
  PROVE  Reaches(x, y) /\ View(y) = View(x) /\ \A a \in Addr : Loaded(y, a) = Loaded(x, a)
<1>1. Shaped(x)
  BY DEF Overlaid
<1>2. Overlaid(y)
  BY <1>1, Carry DEF Shaped
<1>3. Extends(x, y)
  BY <1>1, ExtendsSame DEF Shaped
<1> QED BY <1>2, <1>3, SameView DEF Reaches

-----------------------------------------------------------------------------
(* What View shows of an account.                                          *)
Shown(acc, storage, orig) ==
  [nonce |-> acc.nonce, balance |-> acc.balance, code |-> acc.code,
   created |-> acc.created, doomed |-> acc.selfdestructed, storage |-> storage, orig |-> orig]
Slots(d, a) ==
  [s \in Slot |-> IF Listed(d.storage_tx, <<a, s>>) THEN Row(d, <<a, s>>).curr ELSE Born(d, <<a, s>>)]
Births(d, a) == [s \in Slot |-> Born(d, <<a, s>>)]
Zeros == [s \in Slot |-> 0]

(* The world of a host in order, without the CHOOSE of its rows.           *)
LEMMA ViewIs ==
  ASSUME NEW d, Overlaid(d)
  PROVE  View(d) = [a \in Addr |-> Shown(Loaded(d, a), Slots(d, a), Births(d, a))]
<1>1. ASSUME NEW a \in Addr
      PROVE  /\ [s \in Slot |-> SlotValue(d, <<a, s>>).curr] = Slots(d, a)
             /\ [s \in Slot |-> SlotValue(d, <<a, s>>).orig] = Births(d, a)
  <2>1. ASSUME NEW s \in Slot
        PROVE  /\ SlotValue(d, <<a, s>>).curr = IF Listed(d.storage_tx, <<a, s>>) THEN Row(d, <<a, s>>).curr
                                                ELSE Born(d, <<a, s>>)
               /\ SlotValue(d, <<a, s>>).orig = Born(d, <<a, s>>)
    <3>1. SlotValue(d, <<a, s>>) =
            [curr |-> IF Listed(d.storage_tx, <<a, s>>) THEN Row(d, <<a, s>>).curr ELSE Born(d, <<a, s>>),
             orig |-> Born(d, <<a, s>>)]
      BY SlotIs
    <3> QED BY <3>1
  <2> QED BY <2>1 DEF Slots, Births
<1>2. View(d) = [a \in Addr |-> Shown(Loaded(d, a), [s \in Slot |-> SlotValue(d, <<a, s>>).curr],
                                      [s \in Slot |-> SlotValue(d, <<a, s>>).orig])]
  BY DEF View, Shown
<1> QED BY <1>1, <1>2

(* A world that differs at one account.                                    *)
LEMMA ViewAt ==
  ASSUME NEW x, Overlaid(x), NEW y, Overlaid(y), NEW a \in Addr, NEW shown,
         Shown(Loaded(y, a), Slots(y, a), Births(y, a)) = shown,
         \A b \in Addr \ {a} : /\ Loaded(y, b) = Loaded(x, b)
                               /\ Slots(y, b) = Slots(x, b) /\ Births(y, b) = Births(x, b)
  PROVE  View(y) = [View(x) EXCEPT ![a] = shown]
<1>1. View(x) = [b \in Addr |-> Shown(Loaded(x, b), Slots(x, b), Births(x, b))]
  BY ViewIs
<1>2. View(y) = [b \in Addr |-> Shown(Loaded(y, b), Slots(y, b), Births(y, b))]
  BY ViewIs
<1> QED BY <1>1, <1>2

(* A step that leaves the block overlay and the access list alone.         *)
LEMMA SameGrows ==
  ASSUME NEW x, NEW y, y.account_block = x.account_block, y.storage_block = x.storage_block,
         y.bal = x.bal
  PROVE  Grows(x, y) /\ (BlockOK(x) => BlockOK(y))
BY DEF Grows, BlockOK, Base, SlotBase, Anchor, acct_block_found, acct_block_get

LoadsAs(x, y, a, acc) == \A b \in Addr : Loaded(y, b) = IF b = a THEN acc ELSE Loaded(x, b)

(* An account is replaced in a transaction and keeps its storage.          *)
LEMMA PutPlain ==
  ASSUME NEW x, Overlaid(x), NEW a \in Addr, acct_block_found(x, a), NEW acc, Fine(acc),
         acc.storage_cleared = Loaded(x, a).storage_cleared, Alive(Loaded(x, a)) => Alive(acc),
         NEW y, Extends(x, y), Puts(x, y, a, acc)
  PROVE  /\ Reaches(x, y)
         /\ View(y) = [View(x) EXCEPT ![a] = Shown(acc, View(x)[a].storage, View(x)[a].orig)]
         /\ LoadsAs(x, y, a, acc)
<1>1. SameOthers(x, y) /\ Shaped(x) /\ BlockOK(x) /\ Shaped(y)
  BY PutsShaped DEF Puts, Overlaid
<1>2. Grows(x, y) /\ BlockOK(y)
  BY <1>1, SameGrows DEF SameOthers
<1>3. \A b \in Addr : Base(y, b) = Base(x, b)
  BY <1>2 DEF Grows
<1>4. ASSUME NEW b \in Addr PROVE Loaded(y, b) = IF b = a THEN acc ELSE Loaded(x, b)
  <2>1. /\ acct_tx_found(y, b) <=> acct_tx_found(x, b) \/ b = a
        /\ acct_tx_found(y, b) => acct_tx_get(y, b) = IF b = a THEN acc ELSE acct_tx_get(x, b)
    BY DEF Puts
  <2>2. Base(y, b) = Base(x, b)
    BY <1>3
  <2> QED BY <2>1, <2>2 DEF Loaded, Base
<1>5. ASSUME NEW b \in Addr PROVE AccountOK(y, b)
  <2>1. /\ AccountOK(x, b) /\ Base(y, b) = Base(x, b) /\ y.generations = x.generations
        /\ acct_block_found(y, b) <=> acct_block_found(x, b)
        /\ acct_tx_found(y, b) <=> acct_tx_found(x, b) \/ b = a
        /\ acct_tx_found(y, b) =>
             /\ acct_tx_get(y, b) = IF b = a THEN acc ELSE acct_tx_get(x, b)
             /\ Orig(y, b) = IF acct_tx_found(x, b) THEN Orig(x, b) ELSE acct_block_get(x, a)
    BY <1>1, <1>3 DEF Overlaid, SameOthers, acct_block_found, Puts
  <2>2. CASE b # a
    BY <2>1, <2>2 DEF AccountOK
  <2>3. CASE b = a
    <3>1. Base(x, a) = acct_block_get(x, a)
      BY DEF Base
    <3>2. /\ acc.storage_cleared = (Base(x, a).storage_cleared \/ x.generations[a] # 0)
          /\ Alive(Base(x, a)) => Alive(acc)
          /\ x.generations[a] # 0 => ~Alive(Base(x, a))
      BY LoadedIs
    <3> QED BY <2>1, <2>3, <3>1, <3>2 DEF AccountOK
  <2> QED BY <2>2, <2>3
<1>6. ASSUME NEW k \in Addr \X Slot PROVE StorageOK(y, k) /\ Born(y, k) = Born(x, k) /\ Row(y, k) = Row(x, k)
  <2>1. /\ StorageOK(x, k) /\ k[1] \in Addr /\ SlotBase(y, k) = SlotBase(x, k)
        /\ y.storage_tx = x.storage_tx /\ y.generations = x.generations /\ y.bal = x.bal
        /\ acct_block_found(y, k[1]) <=> acct_block_found(x, k[1])
    BY <1>1, <1>2 DEF Overlaid, SameOthers, acct_block_found, Grows
  <2>2. Row(y, k) = Row(x, k) /\ Born(y, k) = Born(x, k)
    BY <2>1 DEF Row, Born
  <2>3. Alive(Loaded(x, k[1])) => Alive(Loaded(y, k[1]))
    BY <1>4, <2>1
  <2> QED BY <2>1, <2>2, <2>3 DEF StorageOK
<1>7. Overlaid(y)
  BY <1>1, <1>2, <1>5, <1>6 DEF Overlaid
<1>8. \A b \in Addr : Slots(y, b) = Slots(x, b) /\ Births(y, b) = Births(x, b)
  <2>1. ASSUME NEW b \in Addr, NEW s \in Slot
        PROVE  /\ Born(y, <<b, s>>) = Born(x, <<b, s>>) /\ Row(y, <<b, s>>) = Row(x, <<b, s>>)
               /\ Listed(y.storage_tx, <<b, s>>) <=> Listed(x.storage_tx, <<b, s>>)
    <3>1. <<b, s>> \in Addr \X Slot
      OBVIOUS
    <3> QED BY <1>1, <1>6, <3>1 DEF SameOthers
  <2> QED BY <2>1 DEF Slots, Births
<1>9. View(x)[a] = Shown(Loaded(x, a), Slots(x, a), Births(x, a))
  BY ViewIs
<1>10. View(x)[a].storage = Slots(x, a) /\ View(x)[a].orig = Births(x, a)
  BY <1>9 DEF Shown
<1>11. View(y) = [View(x) EXCEPT ![a] = Shown(acc, View(x)[a].storage, View(x)[a].orig)]
  BY <1>4, <1>7, <1>8, <1>10, ViewAt
<1> QED BY <1>2, <1>4, <1>7, <1>11 DEF Reaches, LoadsAs

(* An account is replaced and loses its storage.                           *)
ClearedAs(x, y, a, acc) ==
  /\ Reaches(x, y) /\ LoadsAs(x, y, a, acc)
  /\ View(y) = [View(x) EXCEPT ![a] = Shown(acc, Zeros, Zeros)]

(* An account is replaced and every value of its storage hidden, by one    *)
(* new generation.                                                         *)
LEMMA PutCleared ==
  ASSUME NEW x, Overlaid(x), NEW a \in Addr, acct_block_found(x, a), NEW acc, Fine(acc),
         acc.storage_cleared = TRUE, ~Alive(Loaded(x, a)),
         NEW y, Extends(x, y), Puts(Renewed(x, a), y, a, acc)
  PROVE  ClearedAs(x, y, a, acc)
<1> DEFINE p == Renewed(x, a)
<1>1. Shaped(x) /\ BlockOK(x) /\ x.next_generation \in Nat /\ x.generations \in [Addr -> Nat]
  BY DEF Overlaid, Shaped
<1>2. /\ Shaped(p) /\ p.account_tx = x.account_tx /\ p.storage_tx = x.storage_tx
      /\ p.generations = [x.generations EXCEPT ![a] = x.next_generation + 1]
      /\ p.account_block = x.account_block /\ p.storage_block = x.storage_block /\ p.bal = x.bal
  BY <1>1, RenewedShaped
<1>3. p.generations[a] # 0 /\ \A b \in Addr \ {a} : p.generations[b] = x.generations[b]
  BY <1>1, <1>2
<1> HIDE DEF p
<1>4. Puts(p, y, a, acc)
  BY DEF p
<1>5. /\ y.storage_tx = x.storage_tx /\ y.generations = p.generations
      /\ y.account_block = x.account_block /\ y.storage_block = x.storage_block /\ y.bal = x.bal
      /\ y.next_generation = p.next_generation
  BY <1>2, <1>4 DEF Puts, SameOthers
<1>6. Shaped(y)
  BY <1>2, <1>4, <1>5 DEF Puts, Shaped, Extends
<1>7. Grows(x, y) /\ BlockOK(y)
  BY <1>1, <1>5, SameGrows
<1>8. \A b \in Addr : Base(y, b) = Base(x, b)
  BY <1>7 DEF Grows
<1>9. ASSUME NEW b \in Addr
      PROVE  /\ acct_tx_found(y, b) <=> acct_tx_found(x, b) \/ b = a
             /\ acct_tx_found(y, b) =>
                  /\ acct_tx_get(y, b) = IF b = a THEN acc ELSE acct_tx_get(x, b)
                  /\ Orig(y, b) = IF acct_tx_found(x, b) THEN Orig(x, b) ELSE acct_block_get(x, a)
  <2>1. /\ acct_tx_found(p, b) <=> acct_tx_found(x, b)
        /\ acct_tx_get(p, b) = acct_tx_get(x, b) /\ Orig(p, b) = Orig(x, b)
        /\ acct_block_get(p, a) = acct_block_get(x, a)
    BY <1>2 DEF acct_tx_found, acct_tx_get, Orig, acct_block_get
  <2> QED BY <1>4, <2>1 DEF Puts
<1>10. ASSUME NEW b \in Addr PROVE Loaded(y, b) = IF b = a THEN acc ELSE Loaded(x, b)
  BY <1>8, <1>9 DEF Loaded, Base
<1>11. ~Alive(Base(x, a)) /\ Base(x, a) = acct_block_get(x, a)
  BY LoadedIs DEF Base
<1>12. ASSUME NEW b \in Addr PROVE AccountOK(y, b)
  <2>1. /\ AccountOK(x, b) /\ Base(y, b) = Base(x, b)
        /\ acct_block_found(y, b) <=> acct_block_found(x, b)
    BY <1>5, <1>8 DEF Overlaid, acct_block_found
  <2>2. CASE b # a
    <3>1. y.generations[b] = x.generations[b]
      BY <1>3, <1>5, <2>2
    <3> QED BY <1>9, <2>1, <2>2, <3>1 DEF AccountOK
  <2>3. CASE b = a
    <3>1. y.generations[a] # 0
      BY <1>3, <1>5
    <3> QED BY <1>9, <1>11, <2>1, <2>3, <3>1 DEF AccountOK
  <2> QED BY <2>2, <2>3
<1>13. ASSUME NEW k \in Addr \X Slot
       PROVE  /\ StorageOK(y, k) /\ Row(y, k) = Row(x, k)
              /\ k[1] # a => Born(y, k) = Born(x, k)
              /\ k[1] = a => ~Listed(y.storage_tx, k) /\ Born(y, k) = 0
  <2>1. /\ StorageOK(x, k) /\ k[1] \in Addr /\ SlotBase(y, k) = SlotBase(x, k)
        /\ acct_block_found(y, k[1]) <=> acct_block_found(x, k[1])
    BY <1>5, <1>7 DEF Overlaid, acct_block_found, Grows
  <2>2. Row(y, k) = Row(x, k)
    BY <1>5 DEF Row
  <2>3. CASE k[1] = a
    <3>1. ~Listed(x.storage_tx, k)
      BY <2>1, <2>3 DEF StorageOK
    <3> QED BY <1>3, <1>5, <2>2, <2>3, <3>1 DEF StorageOK, Born
  <2>4. CASE k[1] # a
    <3>1. y.generations[k[1]] = x.generations[k[1]] /\ Loaded(y, k[1]) = Loaded(x, k[1])
      BY <1>3, <1>5, <1>10, <2>1, <2>4
    <3>2. Born(y, k) = Born(x, k)
      BY <2>1, <3>1 DEF Born
    <3> QED BY <1>5, <2>1, <2>2, <2>4, <3>1, <3>2 DEF StorageOK
  <2> QED BY <2>3, <2>4
<1>14. Overlaid(y)
  BY <1>6, <1>7, <1>12, <1>13 DEF Overlaid
<1>15. ASSUME NEW b \in Addr \ {a} PROVE Slots(y, b) = Slots(x, b) /\ Births(y, b) = Births(x, b)
  <2>1. ASSUME NEW s \in Slot
        PROVE  /\ Born(y, <<b, s>>) = Born(x, <<b, s>>) /\ Row(y, <<b, s>>) = Row(x, <<b, s>>)
               /\ Listed(y.storage_tx, <<b, s>>) <=> Listed(x.storage_tx, <<b, s>>)
    <3>1. <<b, s>> \in Addr \X Slot /\ <<b, s>>[1] # a
      OBVIOUS
    <3> QED BY <1>5, <1>13, <3>1
  <2> QED BY <2>1 DEF Slots, Births
<1>16. Slots(y, a) = Zeros /\ Births(y, a) = Zeros
  <2>1. ASSUME NEW s \in Slot
        PROVE  Born(y, <<a, s>>) = 0 /\ ~Listed(y.storage_tx, <<a, s>>)
    <3>1. <<a, s>> \in Addr \X Slot /\ <<a, s>>[1] = a
      OBVIOUS
    <3> QED BY <1>13, <3>1
  <2> QED BY <2>1 DEF Slots, Births, Zeros
<1>17. View(y) = [View(x) EXCEPT ![a] = Shown(acc, Zeros, Zeros)]
  BY <1>10, <1>14, <1>15, <1>16, ViewAt
<1> QED BY <1>7, <1>10, <1>14, <1>17 DEF Reaches, LoadsAs, ClearedAs

-----------------------------------------------------------------------------
(* Reading an account.                                                     *)
(* The access list grows by an account, or by a slot and its account.      *)
Touching(x, y, accounts, reads) ==
  /\ IsHost(y) /\ SameTables(x, y) /\ y.journal = x.journal
  /\ y.next_generation = x.next_generation /\ IsBal(y.bal)
  /\ y.bal.accounts = x.bal.accounts \union accounts /\ y.bal.reads = x.bal.reads \union reads
  /\ y.bal.storage = x.bal.storage /\ y.bal.balance = x.bal.balance
  /\ y.bal.nonce = x.bal.nonce /\ y.bal.code = x.bal.code

(* bal_account_touch changes the access list alone.                        *)
LEMMA TouchAccount ==
  ASSUME NEW x, Overlaid(x), NEW a
  PROVE  LET y == [x EXCEPT !.bal = bal_account_touch(@, a)]
         IN /\ Touching(x, y, {a}, {})
            /\ y.account_block = x.account_block /\ y.storage_block = x.storage_block
<1> DEFINE t == bal_account_touch(x.bal, a)
           y == [x EXCEPT !.bal = t]
<1>1. IsHost(x) /\ IsBal(x.bal)
  BY DEF Overlaid, Shaped, BlockOK
<1>2. /\ IsBal(t) /\ t.accounts = x.bal.accounts \union {a} /\ t.reads = x.bal.reads \union {}
      /\ t.storage = x.bal.storage /\ t.balance = x.bal.balance
      /\ t.nonce = x.bal.nonce /\ t.code = x.bal.code
  BY <1>1 DEF IsBal, bal_account_touch
<1> HIDE DEF t
<1>3. /\ IsHost(y) /\ SameTables(x, y) /\ y.journal = x.journal /\ y.bal = t
      /\ y.next_generation = x.next_generation
      /\ y.account_block = x.account_block /\ y.storage_block = x.storage_block
  BY <1>1 DEF IsHost, SameTables
<1> HIDE DEF y
<1>4. Touching(x, y, {a}, {})
  BY <1>2, <1>3 DEF Touching
<1> QED BY <1>3, <1>4 DEF y, t

(* So does bal_storage_read.                                               *)
LEMMA TouchSlot ==
  ASSUME NEW x, Overlaid(x), NEW a, NEW s
  PROVE  LET y == [x EXCEPT !.bal = bal_storage_read(@, a, s)]
         IN /\ Touching(x, y, {a}, {<<a, s>>})
            /\ y.account_block = x.account_block /\ y.storage_block = x.storage_block
<1> DEFINE t == bal_storage_read(x.bal, a, s)
           y == [x EXCEPT !.bal = t]
<1>1. IsHost(x) /\ IsBal(x.bal)
  BY DEF Overlaid, Shaped, BlockOK
<1>2. /\ IsBal(t) /\ t.accounts = x.bal.accounts \union {a} /\ t.reads = x.bal.reads \union {<<a, s>>}
      /\ t.storage = x.bal.storage /\ t.balance = x.bal.balance
      /\ t.nonce = x.bal.nonce /\ t.code = x.bal.code
  <2> DEFINE u == bal_account_touch(x.bal, a)
  <2>1. /\ IsBal(u) /\ u.accounts = x.bal.accounts \union {a} /\ u.reads = x.bal.reads
        /\ u.storage = x.bal.storage /\ u.balance = x.bal.balance
        /\ u.nonce = x.bal.nonce /\ u.code = x.bal.code
    BY <1>1 DEF IsBal, bal_account_touch
  <2>2. t = [u EXCEPT !.reads = @ \union {<<a, s>>}]
    BY DEF bal_storage_read
  <2> HIDE DEF t, u
  <2> QED BY <2>1, <2>2 DEF IsBal
<1> HIDE DEF t
<1>3. /\ IsHost(y) /\ SameTables(x, y) /\ y.journal = x.journal /\ y.bal = t
      /\ y.next_generation = x.next_generation
      /\ y.account_block = x.account_block /\ y.storage_block = x.storage_block
  BY <1>1 DEF IsHost, SameTables
<1> HIDE DEF y
<1>4. Touching(x, y, {a}, {<<a, s>>})
  BY <1>2, <1>3 DEF Touching
<1> QED BY <1>3, <1>4 DEF y, t

(* A host reached without changing the world.                              *)
Reads(x, y) ==
  Reaches(x, y) /\ View(y) = View(x) /\ \A a \in Addr : Loaded(y, a) = Loaded(x, a)

(* Reading is transitive.                                                  *)
LEMMA ReadsStep ==
  ASSUME NEW x, Overlaid(x), NEW y, NEW z, Reads(x, y), Reads(y, z)
  PROVE  Reads(x, z)
BY ReachesStep DEF Reads

(* Doing nothing reads nothing.                                            *)
LEMMA ReadsSelf ==
  ASSUME NEW x, Overlaid(x)
  PROVE  Reads(x, x)
<1>1. Grows(x, x)
  BY DEF Grows
<1>2. Extends(x, x)
  BY ExtendsSame DEF Overlaid, Shaped, SameTables
<1> QED BY <1>1, <1>2 DEF Reads, Reaches

(* Growing the access list does not change the world.                      *)
LEMMA TouchReads ==
  ASSUME NEW x, Overlaid(x), NEW accounts, NEW reads, NEW y, Touching(x, y, accounts, reads),
         y.account_block = x.account_block, y.storage_block = x.storage_block
  PROVE  Reads(x, y)
<1>1. Grows(x, y)
  BY DEF Grows, Touching, Base, SlotBase, Anchor, acct_block_found, acct_block_get
<1>2. BlockOK(y)
  <2>1. BlockOK(x)
    BY DEF Overlaid
  <2>2. \A k : SlotBase(y, k) = SlotBase(x, k) /\ Anchor(y, k) = Anchor(x, k)
               /\ Base(y, k[1]) = Base(x, k[1])
    BY DEF Base, SlotBase, Anchor, acct_block_found, acct_block_get
  <2> QED BY <2>1, <2>2 DEF BlockOK, Touching
<1> QED BY <1>1, <1>2, Quiet DEF Reads, Touching

(* Caching an account of the parent state in the block overlay does not    *)
(* change the world.                                                       *)
LEMMA CacheAccount ==
  ASSUME NEW x, Overlaid(x), NEW a \in Addr, a \in x.bal.accounts, NEW y,
         y = acct_block_cache(x, a, stateless_account_by_key(a))
  PROVE  Reads(x, y) /\ acct_block_found(y, a)
<1>1. CASE acct_block_found(x, a)
  BY <1>1, ReadsSelf DEF acct_block_cache
<1>2. CASE ~acct_block_found(x, a)
  <2> DEFINE acc == stateless_account_by_key(a)
             blocks == Over(x.account_block, [z \in {a} |-> [curr |-> acc, orig |-> acc]])
  <2>1. /\ IsHost(y) /\ SameTables(x, y) /\ y.journal = x.journal /\ y.bal = x.bal
        /\ y.next_generation = x.next_generation
        /\ y.account_block = blocks /\ y.storage_block = x.storage_block
    <3>1. IsHost(x)
      BY DEF Overlaid, Shaped
    <3>2. y = [x EXCEPT !.account_block = blocks]
      BY <1>2, <3>1 DEF acct_block_cache, IsHost
    <3> HIDE DEF blocks
    <3> QED BY <3>1, <3>2 DEF IsHost, SameTables
  <2>2. /\ DOMAIN blocks = DOMAIN x.account_block \union {a}
        /\ blocks[a] = [curr |-> acc, orig |-> acc]
        /\ \A b \in DOMAIN x.account_block : blocks[b] = x.account_block[b]
    BY <1>2 DEF Over, acct_block_found
  <2> HIDE DEF blocks
  <2>3. \A b : Base(y, b) = Base(x, b)
    BY <1>2, <2>1, <2>2 DEF Base, acct_block_found, acct_block_get
  <2>4. \A k : Anchor(y, k) = Anchor(x, k) /\ SlotBase(y, k) = SlotBase(x, k)
    BY <2>1, <2>3 DEF SlotBase, Anchor
  <2>5. Grows(x, y)
    BY <2>1, <2>2, <2>3, <2>4 DEF Grows
  <2>6. BlockOK(y)
    <3>1. BlockOK(x)
      BY DEF Overlaid
    <3>2. ASSUME NEW b \in DOMAIN y.account_block
          PROVE  /\ b \in Addr /\ Fine(y.account_block[b].curr)
                 /\ ~y.account_block[b].curr.created /\ ~y.account_block[b].curr.selfdestructed
                 /\ \/ account_changed(y.account_block[b].curr, y.account_block[b].orig)
                    \/ y.account_block[b].curr = stateless_account_by_key(b)
      <4>1. CASE b = a
        <5>1. y.account_block[b].curr = acc
          BY <2>1, <2>2, <4>1
        <5> QED BY <4>1, <5>1, StatelessFine
      <4>2. CASE b # a
        <5>1. b \in DOMAIN x.account_block /\ y.account_block[b] = x.account_block[b]
          BY <2>1, <2>2, <4>2
        <5> QED BY <3>1, <5>1 DEF BlockOK
      <4> QED BY <4>1, <4>2
    <3>3. ASSUME NEW k \in DOMAIN y.storage_block
          PROVE  k \in Addr \X Slot /\ k[1] \in DOMAIN y.account_block /\ y.storage_block[k].orig = Anchor(y, k)
      BY <2>1, <2>2, <2>4, <3>1 DEF BlockOK
    <3>4. \A k \in Addr \X Slot : ~Alive(Base(y, k[1])) => SlotBase(y, k) = Anchor(y, k)
      BY <2>3, <2>4, <3>1 DEF BlockOK
    <3>5. DOMAIN y.account_block \subseteq y.bal.accounts /\ IsBal(y.bal)
      BY <2>1, <2>2, <3>1 DEF BlockOK
    <3> QED BY <3>2, <3>3, <3>4, <3>5 DEF BlockOK
  <2>7. acct_block_found(y, a)
    BY <2>1, <2>2 DEF acct_block_found
  <2> QED BY <2>1, <2>5, <2>6, <2>7, Quiet DEF Reads
<1> QED BY <1>1, <1>2

(* k_aload changes no account, caches the one it loads and lists it as     *)
(* accessed.                                                               *)
LEMMA Aload ==
  ASSUME NEW x, Overlaid(x), NEW a \in Addr
  PROVE  /\ Reads(x, k_aload(x, a)) /\ acct_block_found(k_aload(x, a), a)
         /\ Overlaid(k_aload(x, a)) /\ a \in k_aload(x, a).bal.accounts
<1> DEFINE y == k_aload(x, a)
<1>1. Reads(x, y) /\ acct_block_found(y, a)
  <2>1. CASE acct_tx_found(x, a)
    <3>1. AccountOK(x, a)
      BY DEF Overlaid
    <3> QED BY <2>1, <3>1, ReadsSelf DEF k_aload, AccountOK
  <2>2. CASE ~acct_tx_found(x, a)
    <3> DEFINE t == [x EXCEPT !.bal = bal_account_touch(@, a)]
    <3>1. y = acct_block_cache(t, a, stateless_account_by_key(a))
      BY <2>2 DEF k_aload
    <3>2. Touching(x, t, {a}, {}) /\ t.account_block = x.account_block /\ t.storage_block = x.storage_block
      BY TouchAccount
    <3> HIDE DEF t, y
    <3>3. Reads(x, t)
      BY <3>2, TouchReads
    <3>4. Overlaid(t) /\ a \in t.bal.accounts
      BY <3>2, <3>3 DEF Reads, Reaches, Touching
    <3>5. Reads(t, y) /\ acct_block_found(y, a)
      BY <3>1, <3>4, CacheAccount
    <3> QED BY <3>3, <3>5, ReadsStep
  <2> QED BY <2>1, <2>2
<1>2. Overlaid(y) /\ DOMAIN y.account_block \subseteq y.bal.accounts
  BY <1>1 DEF Reads, Reaches, Overlaid, BlockOK
<1> QED BY <1>1, <1>2 DEF acct_block_found

(* No row of the transaction is dead: an account that is cleared has no    *)
(* rows of its own.                                                        *)
LEMMA HitIs ==
  ASSUME NEW d, Overlaid(d), NEW k \in Addr \X Slot
  PROVE  storage_tx_hit(d, k) <=> Listed(d.storage_tx, k)
<1>1. StorageOK(d, k) /\ IsSeq(d.storage_tx)
  BY DEF Overlaid, Shaped, StorageRows
<1>2. Listed(d.storage_tx, k) => Row(d, k).key = k
  BY <1>1, RowFound DEF Row
<1> QED BY <1>1, <1>2 DEF storage_tx_hit, StorageLive, StorageOK, Row

(* Caching a slot does not change the world.                               *)
LEMMA CacheSlot ==
  ASSUME NEW x, Overlaid(x), NEW k \in Addr \X Slot, acct_block_found(x, k[1]), NEW v,
         v = Anchor(x, k), NEW y, y = storage_block_cache(x, k, v)
  PROVE  Reads(x, y) /\ y.account_block = x.account_block /\ y.bal = x.bal
<1>1. CASE k \in DOMAIN x.storage_block
  BY <1>1, ReadsSelf DEF storage_block_cache
<1>2. CASE k \notin DOMAIN x.storage_block
  <2> DEFINE slots == Over(x.storage_block, [z \in {k} |-> [curr |-> v, orig |-> v]])
  <2>1. /\ IsHost(y) /\ SameTables(x, y) /\ y.journal = x.journal /\ y.bal = x.bal
        /\ y.next_generation = x.next_generation
        /\ y.account_block = x.account_block /\ y.storage_block = slots
    <3>1. IsHost(x)
      BY DEF Overlaid, Shaped
    <3>2. y = [x EXCEPT !.storage_block = slots]
      BY <1>2, <3>1 DEF storage_block_cache, IsHost
    <3> HIDE DEF slots
    <3> QED BY <3>1, <3>2 DEF IsHost, SameTables
  <2>2. /\ DOMAIN slots = DOMAIN x.storage_block \union {k}
        /\ slots[k] = [curr |-> v, orig |-> v]
        /\ \A n \in DOMAIN x.storage_block : slots[n] = x.storage_block[n]
    BY <1>2 DEF Over
  <2> HIDE DEF slots
  <2>3. \A n : Base(y, n) = Base(x, n)
    BY <2>1 DEF Base, acct_block_found, acct_block_get
  <2>4. \A n : Anchor(y, n) = Anchor(x, n)
    BY <2>3 DEF Anchor
  <2>5. \A n \in Addr \X Slot : SlotBase(y, n) = SlotBase(x, n)
    BY <1>2, <2>1, <2>2, <2>4 DEF SlotBase
  <2>6. Grows(x, y)
    BY <2>1, <2>3, <2>5 DEF Grows
  <2>7. BlockOK(y)
    <3>1. BlockOK(x)
      BY DEF Overlaid
    <3>2. ASSUME NEW n \in DOMAIN y.storage_block
          PROVE  n \in Addr \X Slot /\ n[1] \in DOMAIN y.account_block /\ y.storage_block[n].orig = Anchor(y, n)
      <4>1. CASE n = k
        BY <2>1, <2>2, <2>4, <4>1 DEF acct_block_found
      <4>2. CASE n # k
        BY <2>1, <2>2, <2>4, <3>1, <4>2 DEF BlockOK
      <4> QED BY <4>1, <4>2
    <3>3. \A n \in Addr \X Slot : ~Alive(Base(y, n[1])) => SlotBase(y, n) = Anchor(y, n)
      BY <2>3, <2>4, <2>5, <3>1 DEF BlockOK
    <3> QED BY <2>1, <3>1, <3>2, <3>3 DEF BlockOK
  <2> QED BY <2>1, <2>6, <2>7, Quiet DEF Reads
<1> QED BY <1>1, <1>2

(* k_sload changes no value and lists the slot as read, whatever overlay   *)
(* answers.                                                                *)
LEMMA SloadReads ==
  ASSUME NEW x, Overlaid(x), NEW a \in Addr, NEW s \in Slot
  PROVE  /\ Reads(x, k_sload(x, a, s)) /\ acct_block_found(k_sload(x, a, s), a)
         /\ <<a, s>> \in k_sload(x, a, s).bal.reads /\ Overlaid(k_sload(x, a, s))
<1> DEFINE k == <<a, s>>
           y == k_sload(x, a, s)
           e == [x EXCEPT !.bal = bal_storage_read(@, a, s)]
<1>1. k \in Addr \X Slot /\ k[1] = a
  OBVIOUS
<1>2. Touching(x, e, {a}, {k}) /\ e.account_block = x.account_block /\ e.storage_block = x.storage_block
  BY TouchSlot
<1>3. y = IF storage_tx_hit(x, k) THEN x
          ELSE IF storage_tx_cleared(x, k) \/ k \in DOMAIN x.storage_block THEN e
          ELSE storage_block_cache(k_aload(e, a), k, SlotValue(x, k).curr)
  BY DEF k_sload
<1> HIDE DEF e, y
<1>4. Reads(x, e)
  BY <1>2, TouchReads
<1>5. Overlaid(e) /\ k \in e.bal.reads /\ Grows(x, e)
  BY <1>2, <1>4 DEF Reads, Reaches, Touching
<1>6. CASE Listed(x.storage_tx, k)
  <2>1. StorageOK(x, k) /\ y = x
    BY <1>1, <1>3, <1>6, HitIs DEF Overlaid
  <2> QED BY <1>1, <1>6, <2>1, ReadsSelf DEF StorageOK, k, y
<1>7. CASE ~Listed(x.storage_tx, k) /\ (storage_tx_cleared(x, k) \/ k \in DOMAIN x.storage_block)
  <2>1. y = e
    BY <1>1, <1>3, <1>7, HitIs
  <2>2. acct_block_found(x, a)
    <3>1. CASE k \in DOMAIN x.storage_block
      BY <1>1, <3>1 DEF Overlaid, BlockOK, acct_block_found
    <3>2. CASE storage_tx_cleared(x, k)
      <4>1. x.generations[a] # 0 /\ AccountOK(x, a)
        BY <1>1, <3>2 DEF storage_tx_cleared, InitialGeneration, Overlaid
      <4> QED BY <4>1 DEF AccountOK
    <3> QED BY <1>7, <3>1, <3>2
  <2>3. acct_block_found(e, a)
    BY <1>2, <2>2 DEF acct_block_found
  <2> QED BY <1>4, <1>5, <2>1, <2>3 DEF k, y
<1>8. CASE ~Listed(x.storage_tx, k) /\ ~storage_tx_cleared(x, k) /\ k \notin DOMAIN x.storage_block
  <2> DEFINE f == k_aload(e, a)
             v == SlotValue(x, k).curr
  <2>1. y = storage_block_cache(f, k, v)
    BY <1>1, <1>3, <1>8, HitIs
  <2>2. v = Anchor(x, k)
    <3>1. x.generations[k[1]] = 0
      BY <1>8 DEF storage_tx_cleared, InitialGeneration
    <3>2. Born(x, k) = Anchor(x, k)
      BY <1>8, <3>1 DEF Born, SlotBase
    <3>3. SlotValue(x, k) = [curr |-> IF Listed(x.storage_tx, k) THEN Row(x, k).curr ELSE Born(x, k),
                             orig |-> Born(x, k)]
      BY SlotIs
    <3> QED BY <1>8, <3>2, <3>3
  <2>3. Reads(e, f) /\ acct_block_found(f, a) /\ Overlaid(f)
    BY <1>5, Aload
  <2> HIDE DEF f, v
  <2>4. Reads(x, f)
    BY <1>4, <2>3, ReadsStep
  <2>5. Base(f, a) = Base(x, a)
    BY <2>4 DEF Reads, Reaches, Grows
  <2>6. v = Anchor(f, k)
    BY <1>1, <2>2, <2>5 DEF Anchor
  <2>7. Reads(f, y) /\ y.account_block = f.account_block /\ y.bal = f.bal
    BY <1>1, <2>1, <2>3, <2>6, CacheSlot
  <2>8. Reads(x, y)
    BY <2>4, <2>7, ReadsStep
  <2>9. k \in y.bal.reads /\ acct_block_found(y, a)
    BY <1>5, <2>3, <2>7 DEF Reads, Reaches, Grows, acct_block_found
  <2> QED BY <2>8, <2>9 DEF k, y, Reads, Reaches
<1> QED BY <1>6, <1>7, <1>8

-----------------------------------------------------------------------------
(* Writing a slot.                                                         *)
IsSlotRow(row) ==
  row = [key |-> row.key, curr |-> row.curr, orig |-> row.orig, generation |-> row.generation]

(* y is x with the row as the transaction's row of its slot.               *)
PutsSlot(x, y, row) ==
  /\ y.account_tx = x.account_tx /\ y.generations = x.generations
  /\ y.account_block = x.account_block /\ y.storage_block = x.storage_block
  /\ y.next_generation = x.next_generation /\ y.bal = x.bal /\ StorageRows(y.storage_tx)
  /\ \A n : Listed(y.storage_tx, n) <=> Listed(x.storage_tx, n) \/ n = row.key
  /\ \A n : Listed(y.storage_tx, n) => Row(y, n) = IF n = row.key THEN row ELSE Row(x, n)

(* A host with another journal and other storage rows.                     *)
Restored(y, x, journal, rows) == y = [x EXCEPT !.journal = journal, !.storage_tx = rows]

(* The parts of such a host.                                               *)
LEMMA RestoredHost ==
  ASSUME NEW x, IsHost(x), NEW y, NEW journal, NEW rows, Restored(y, x, journal, rows)
  PROVE  /\ IsHost(y) /\ y.journal = journal /\ y.storage_tx = rows
         /\ y.account_tx = x.account_tx /\ y.generations = x.generations
         /\ y.account_block = x.account_block /\ y.storage_block = x.storage_block
         /\ y.next_generation = x.next_generation /\ y.bal = x.bal
BY DEF IsHost, Restored

(* The newest row of the account of the last row is the last row.          *)
LEMMA RemoveLast ==
  ASSUME NEW rows, IsSeq(rows), NEW row
  PROVE  RemoveNewest(Append(rows, row), row.key[1]) = rows
<1> DEFINE new == Append(rows, row)
           N == Len(rows)
           S == {i \in DOMAIN new : new[i].key[1] = row.key[1]}
<1>1. /\ N \in Nat /\ IsSeq(new) /\ Len(new) = N + 1 /\ new[N + 1] = row
      /\ DOMAIN new = 1 .. N + 1
  <2>1. /\ N \in Nat /\ IsSeq(new) /\ Len(new) = N + 1 /\ new[N + 1] = row
    BY SeqAppend DEF IsSeq
  <2> QED BY <2>1, SeqDomain
<1> HIDE DEF new
<1>2. N + 1 \in S /\ \A i \in S : i \in Nat /\ N + 1 >= i
  BY <1>1
<1>3. Max(S) = N + 1
  <2> HIDE DEF S
  <2>1. \E m \in S : \A i \in S : m >= i
    BY <1>2
  <2>2. Max(S) \in S /\ \A i \in S : Max(S) >= i
    BY <2>1 DEF Max
  <2>3. Max(S) \in Nat /\ N + 1 >= Max(S) /\ Max(S) >= N + 1
    BY <1>2, <2>2
  <2> QED BY <1>1, <2>3
<1>4. RemoveNewest(new, row.key[1]) = SubSeq(new, 1, N) \o SubSeq(new, N + 2, N + 1)
  <2>1. RemoveNewest(new, row.key[1]) = RemoveAt(new, Max(S))
    BY DEF RemoveNewest
  <2>2. N + 1 - 1 = N /\ N + 1 + 1 = N + 2
    BY <1>1
  <2> HIDE DEF S
  <2> QED BY <1>1, <1>3, <2>1, <2>2 DEF RemoveAt
<1>5. SubSeq(new, 1, N) = rows
  <2>1. Pop(new) = rows
    BY PopAppend DEF new
  <2>2. Len(new) - 1 = N
    BY <1>1
  <2> QED BY <2>1, <2>2 DEF Pop
<1>6. SubSeq(new, N + 2, N + 1) = <<>>
  <2>1. new \in Seq({new[i] : i \in 1 .. N + 1})
    BY <1>1, SeqOver
  <2> QED BY <1>1, <2>1
<1>7. rows \o <<>> = rows
  <2>1. rows \in Seq({rows[i] : i \in 1 .. N})
    BY <1>1, SeqOver
  <2> QED BY <2>1
<1> QED BY <1>4, <1>5, <1>6, <1>7 DEF new

(* A first write lists the slot; the undo removes the newest row of its    *)
(* account, which is that row.                                             *)
LEMMA ListSlotPuts ==
  ASSUME NEW x, Shaped(x), NEW k \in Addr \X Slot, ~Listed(x.storage_tx, k), NEW row, IsSlotRow(row),
         row.key = k
  PROVE  Extends(x, ListSlot(x, k, row)) /\ PutsSlot(x, ListSlot(x, k, row), row)
<1> DEFINE y == ListSlot(x, k, row)
           rows == x.storage_tx
           e == [tag |-> "StorageListed", key |-> k[1], prior |-> NoPrior]
<1>1. IsHost(x) /\ IsSeq(x.journal) /\ StorageRows(rows) /\ IsSeq(rows) /\ Unique(rows)
  BY DEF Shaped, StorageRows
<1>2. Restored(y, x, Append(x.journal, e), Append(rows, row))
  BY <1>1 DEF Restored, ListSlot, Push, IsHost
<1> HIDE DEF y, rows, e
<1>3. /\ IsHost(y) /\ y.journal = Append(x.journal, e) /\ y.storage_tx = Append(rows, row)
      /\ y.account_tx = x.account_tx /\ y.generations = x.generations
      /\ y.account_block = x.account_block /\ y.storage_block = x.storage_block
      /\ y.next_generation = x.next_generation /\ y.bal = x.bal
  BY <1>1, <1>2, RestoredHost
<1>4. ~Listed(rows, row.key)
  BY DEF rows
<1>5. /\ IsSeq(Append(rows, row)) /\ Unique(Append(rows, row))
      /\ \A n : Listed(Append(rows, row), n) <=> Listed(rows, n) \/ n = row.key
      /\ \A n : Listed(rows, n) => RowOf(Append(rows, row), n) = RowOf(rows, n)
      /\ RowOf(Append(rows, row), row.key) = Len(rows) + 1
  BY <1>1, <1>4, RowsGrow
<1>6. /\ Len(Append(rows, row)) = Len(rows) + 1 /\ Len(rows) \in Nat
      /\ \A i \in 1 .. Len(rows) : Append(rows, row)[i] = rows[i]
      /\ Append(rows, row)[Len(rows) + 1] = row
  BY <1>1, SeqAppend DEF IsSeq
<1>7. StorageRows(y.storage_tx)
  <2>1. ASSUME NEW i \in 1 .. Len(rows) + 1
        PROVE  IsSlotRow(Append(rows, row)[i]) /\ Append(rows, row)[i].key \in Addr \X Slot
    <3>1. CASE i = Len(rows) + 1
      BY <1>6, <3>1
    <3>2. CASE i # Len(rows) + 1
      <4>1. i \in 1 .. Len(rows)
        BY <1>6, <3>2
      <4> QED BY <1>1, <1>6, <4>1 DEF StorageRows, IsSlotRow
    <3> QED BY <3>1, <3>2
  <2> QED BY <1>3, <1>5, <1>6, <2>1 DEF StorageRows, IsSlotRow
<1>8. ASSUME NEW n, Listed(y.storage_tx, n)
      PROVE  Row(y, n) = IF n = row.key THEN row ELSE Row(x, n)
  <2>1. CASE n = row.key
    BY <1>3, <1>5, <1>6, <2>1 DEF Row
  <2>2. CASE n # row.key
    <3>1. Listed(rows, n)
      BY <1>3, <1>5, <1>8, <2>2
    <3>2. RowOf(rows, n) \in 1 .. Len(rows)
      BY <1>1, <3>1, RowFound
    <3> QED BY <1>3, <1>5, <1>6, <2>2, <3>1, <3>2 DEF Row, rows
  <2> QED BY <2>1, <2>2
<1>9. Extends(x, y)
  <2>1. Plain(e)
    BY DEF Plain, e
  <2>2. _journal_restore(y, e) = [y EXCEPT !.storage_tx = RemoveNewest(@, k[1])]
    BY DEF _journal_restore, AccountFields, e
  <2>3. RemoveNewest(y.storage_tx, k[1]) = rows
    BY <1>1, <1>3, RemoveLast
  <2>4. SameTables(_journal_restore(y, e), x)
    BY <1>3, <2>2, <2>3 DEF SameTables, IsHost, rows
  <2> QED BY <1>1, <1>3, <2>1, <2>4, ExtendsPush
<1>10. PutsSlot(x, y, row)
  BY <1>3, <1>5, <1>7, <1>8 DEF PutsSlot, rows
<1> QED BY <1>9, <1>10 DEF y

(* A later write is journalled with the value it replaces.                 *)
LEMMA SetSlotPuts ==
  ASSUME NEW x, Shaped(x), NEW k \in Addr \X Slot, Listed(x.storage_tx, k), NEW v
  PROVE  LET old == Row(x, k)
             row == [old EXCEPT !.curr = v]
             y == SetSlot(Push(x, "StorageValue", k, old.curr), k, row)
         IN Extends(x, y) /\ PutsSlot(x, y, row) /\ IsSlotRow(old) /\ old.key = k /\ row.key = k
<1> DEFINE rows == x.storage_tx
           i == RowOf(rows, k)
           old == Row(x, k)
           row == [old EXCEPT !.curr = v]
           e == [tag |-> "StorageValue", key |-> k, prior |-> old.curr]
           new == [rows EXCEPT ![i] = row]
           y == SetSlot(Push(x, "StorageValue", k, old.curr), k, row)
<1>1. IsHost(x) /\ IsSeq(x.journal) /\ StorageRows(rows) /\ IsSeq(rows) /\ Unique(rows)
  BY DEF Shaped, StorageRows
<1>2. i \in 1 .. Len(rows) /\ rows[i].key = k /\ old = rows[i]
  BY <1>1, RowFound DEF Row
<1>3. IsSlotRow(old) /\ old.key = k
  BY <1>1, <1>2 DEF StorageRows, IsSlotRow
<1>4. IsSlotRow(row) /\ row.key = k /\ [row EXCEPT !.curr = old.curr] = old
  <2> DEFINE o == [key |-> k, curr |-> old.curr, orig |-> old.orig, generation |-> old.generation]
  <2> HIDE DEF old
  <2>1. old = o
    BY <1>3 DEF IsSlotRow
  <2>2. row = [key |-> k, curr |-> v, orig |-> old.orig, generation |-> old.generation]
    BY <2>1
  <2> HIDE DEF row
  <2>3. IsSlotRow(row) /\ row.key = k
    BY <2>2 DEF IsSlotRow
  <2>4. [row EXCEPT !.curr = old.curr] = o
    BY <2>2
  <2> HIDE DEF o
  <2> QED BY <2>1, <2>3, <2>4
<1>5. Restored(y, x, Append(x.journal, e), new)
  <2>1. Push(x, "StorageValue", k, old.curr) = [x EXCEPT !.journal = Append(x.journal, e)]
    BY <1>1 DEF Push
  <2> HIDE DEF row, old, e
  <2> QED BY <1>1, <2>1 DEF Restored, SetSlot, IsHost
<1>6. ReplacedAt(new, rows, i, row)
  BY DEF ReplacedAt
<1> HIDE DEF row, old, e, new, y, i, rows
<1>7. /\ IsHost(y) /\ y.journal = Append(x.journal, e) /\ y.storage_tx = new
      /\ y.account_tx = x.account_tx /\ y.generations = x.generations
      /\ y.account_block = x.account_block /\ y.storage_block = x.storage_block
      /\ y.next_generation = x.next_generation /\ y.bal = x.bal
  BY <1>1, <1>5, RestoredHost
<1>8. /\ IsSeq(new) /\ Len(new) = Len(rows)
      /\ \A n \in 1 .. Len(rows) : new[n] = IF n = i THEN row ELSE rows[n]
  BY <1>1, <1>2, <1>6, SeqExcept
<1>9. \A n \in 1 .. Len(rows) : new[n].key = rows[n].key
  BY <1>2, <1>4, <1>8
<1>10. /\ Unique(new)
       /\ \A b : Listed(new, b) <=> Listed(rows, b)
       /\ \A b : Listed(rows, b) => RowOf(new, b) = RowOf(rows, b)
  BY <1>1, <1>8, <1>9, RowsKeep
<1>11. StorageRows(new)
  <2>1. ASSUME NEW n \in 1 .. Len(new)
        PROVE  IsSlotRow(new[n]) /\ new[n].key \in Addr \X Slot
    <3>1. CASE n = i
      BY <1>4, <1>8, <3>1
    <3>2. CASE n # i
      BY <1>1, <1>8, <3>2 DEF StorageRows, IsSlotRow
    <3> QED BY <3>1, <3>2
  <2> QED BY <1>8, <1>10, <2>1 DEF StorageRows, IsSlotRow
<1>12. Listed(rows, k)
  BY DEF rows
<1>13. ASSUME NEW n, Listed(y.storage_tx, n)
       PROVE  Row(y, n) = IF n = row.key THEN row ELSE Row(x, n)
  <2>1. Listed(rows, n) /\ RowOf(rows, n) \in 1 .. Len(rows) /\ rows[RowOf(rows, n)].key = n
    BY <1>1, <1>7, <1>10, <1>13, RowFound
  <2>2. RowOf(rows, n) = i <=> n = k
    BY <1>2, <2>1 DEF i
  <2>3. new[RowOf(new, n)] = IF n = k THEN row ELSE rows[RowOf(rows, n)]
    BY <1>8, <1>10, <2>1, <2>2
  <2> QED BY <1>4, <1>7, <2>3 DEF Row, rows
<1>14. PutsSlot(x, y, row)
  BY <1>4, <1>7, <1>10, <1>11, <1>12, <1>13 DEF PutsSlot, rows
<1>15. Extends(x, y)
  <2>1. Plain(e)
    BY DEF Plain, e
  <2>2. Row(y, k) = row /\ RowOf(new, k) = i
    BY <1>4, <1>7, <1>10, <1>12, <1>13 DEF i
  <2>3. _journal_restore(y, e) = SetSlot(y, k, [Row(y, k) EXCEPT !.curr = old.curr])
    BY DEF _journal_restore, AccountFields, e, Row
  <2>4. @ = [y EXCEPT !.storage_tx = [new EXCEPT ![i] = old]]
    BY <1>4, <1>7, <2>2 DEF SetSlot, IsHost
  <2>5. [new EXCEPT ![i] = old] = rows
    <3> DEFINE back == [new EXCEPT ![i] = old]
    <3>1. ReplacedAt(back, new, i, old) /\ i \in 1 .. Len(new)
      BY <1>2, <1>8 DEF ReplacedAt
    <3> HIDE DEF back
    <3>2. /\ IsSeq(back) /\ Len(back) = Len(new)
          /\ \A n \in 1 .. Len(new) : back[n] = IF n = i THEN old ELSE new[n]
      BY <1>8, <3>1, SeqExcept
    <3>3. \A n \in 1 .. Len(back) : back[n] = rows[n]
      BY <1>2, <1>8, <3>2
    <3>4. back = rows
      BY <1>1, <1>8, <3>2, <3>3, SeqSame
    <3> QED BY <3>4 DEF back
  <2>6. SameTables(_journal_restore(y, e), x)
    BY <1>7, <2>3, <2>4, <2>5 DEF SameTables, IsHost, rows
  <2> QED BY <1>1, <1>7, <2>1, <2>6, ExtendsPush
<1> QED BY <1>3, <1>4, <1>14, <1>15 DEF y, row, old

(* A slot of an account with a nonce or code takes another value.          *)
LEMMA PutSlot ==
  ASSUME NEW x, Overlaid(x), NEW a \in Addr, NEW s \in Slot, NEW row, row.key = <<a, s>>,
         row.orig = Born(x, <<a, s>>), row.generation = x.generations[a],
         Alive(Loaded(x, a)), acct_block_found(x, a), <<a, s>> \in x.bal.reads,
         NEW y, Extends(x, y), PutsSlot(x, y, row)
  PROVE  /\ Reaches(x, y) /\ View(y) = [View(x) EXCEPT ![a].storage[s] = row.curr]
         /\ \A b \in Addr : Loaded(y, b) = Loaded(x, b)
<1> DEFINE k == <<a, s>>
<1>0. k \in Addr \X Slot /\ k[1] = a
  OBVIOUS
<1>1. /\ y.account_tx = x.account_tx /\ y.generations = x.generations
      /\ y.account_block = x.account_block /\ y.storage_block = x.storage_block
      /\ y.next_generation = x.next_generation /\ y.bal = x.bal /\ StorageRows(y.storage_tx)
  BY DEF PutsSlot
<1>2. \A n : /\ Listed(y.storage_tx, n) <=> Listed(x.storage_tx, n) \/ n = k
             /\ Listed(y.storage_tx, n) => Row(y, n) = IF n = k THEN row ELSE Row(x, n)
  BY DEF PutsSlot
<1>3. Grows(x, y) /\ BlockOK(y)
  BY <1>1, SameGrows DEF Overlaid
<1>4. \A b \in Addr : Base(y, b) = Base(x, b)
  BY <1>3 DEF Grows
<1>5. ASSUME NEW b \in Addr
      PROVE  Loaded(y, b) = Loaded(x, b) /\ AccountOK(y, b)
  <2>1. /\ acct_tx_found(y, b) <=> acct_tx_found(x, b)
        /\ acct_tx_get(y, b) = acct_tx_get(x, b) /\ Orig(y, b) = Orig(x, b)
        /\ acct_block_found(y, b) <=> acct_block_found(x, b)
        /\ acct_block_get(y, b) = acct_block_get(x, b)
    BY <1>1 DEF acct_tx_found, acct_tx_get, Orig, acct_block_found, acct_block_get
  <2>2. AccountOK(x, b)
    BY DEF Overlaid
  <2> QED BY <1>1, <1>4, <2>1, <2>2 DEF Loaded, AccountOK
<1>6. ASSUME NEW n \in Addr \X Slot PROVE StorageOK(y, n) /\ Born(y, n) = Born(x, n)
  <2>1. /\ StorageOK(x, n) /\ n[1] \in Addr /\ SlotBase(y, n) = SlotBase(x, n)
        /\ acct_block_found(y, n[1]) <=> acct_block_found(x, n[1])
    BY <1>1, <1>3 DEF Overlaid, acct_block_found, Grows
  <2>2. Born(y, n) = Born(x, n)
    BY <1>1, <2>1 DEF Born
  <2>3. CASE n = k
    BY <1>0, <1>1, <1>2, <1>5, <2>1, <2>2, <2>3 DEF StorageOK
  <2>4. CASE n # k
    BY <1>1, <1>2, <1>5, <2>1, <2>2, <2>4 DEF StorageOK
  <2> QED BY <2>2, <2>3, <2>4
<1>7. Overlaid(y)
  <2>1. Shaped(y)
    BY <1>1 DEF Overlaid, Shaped, Extends
  <2> QED BY <1>3, <1>5, <1>6, <2>1 DEF Overlaid
<1>8. ASSUME NEW b \in Addr, NEW t \in Slot
      PROVE  /\ Born(y, <<b, t>>) = Born(x, <<b, t>>)
             /\ <<b, t>> # k => /\ Row(y, <<b, t>>) = Row(x, <<b, t>>) \/ ~Listed(y.storage_tx, <<b, t>>)
                                /\ Listed(y.storage_tx, <<b, t>>) <=> Listed(x.storage_tx, <<b, t>>)
  BY <1>2, <1>6
<1>9. \A b \in Addr \ {a} : Slots(y, b) = Slots(x, b)
  <2>1. ASSUME NEW b \in Addr \ {a}, NEW t \in Slot
        PROVE  /\ Born(y, <<b, t>>) = Born(x, <<b, t>>)
               /\ Row(y, <<b, t>>) = Row(x, <<b, t>>) \/ ~Listed(y.storage_tx, <<b, t>>)
               /\ Listed(y.storage_tx, <<b, t>>) <=> Listed(x.storage_tx, <<b, t>>)
    <3>1. <<b, t>> # k
      OBVIOUS
    <3> QED BY <1>8, <3>1
  <2> QED BY <2>1 DEF Slots
<1>10. \A b \in Addr : Births(y, b) = Births(x, b)
  BY <1>8 DEF Births
<1>11. Slots(y, a) = [Slots(x, a) EXCEPT ![s] = row.curr]
  <2>1. ASSUME NEW t \in Slot
        PROVE  (IF Listed(y.storage_tx, <<a, t>>) THEN Row(y, <<a, t>>).curr ELSE Born(y, <<a, t>>))
                 = IF t = s THEN row.curr
                   ELSE IF Listed(x.storage_tx, <<a, t>>) THEN Row(x, <<a, t>>).curr ELSE Born(x, <<a, t>>)
    <3>1. CASE t = s
      BY <1>2, <3>1
    <3>2. CASE t # s
      <4>1. <<a, t>> # k
        BY <3>2
      <4> QED BY <1>8, <3>2, <4>1
    <3> QED BY <3>1, <3>2
  <2> QED BY <2>1 DEF Slots
<1>12. View(x)[a] = Shown(Loaded(x, a), Slots(x, a), Births(x, a))
  BY ViewIs
<1>13. [View(x)[a] EXCEPT !.storage = Slots(y, a)] = Shown(Loaded(y, a), Slots(y, a), Births(y, a))
  BY <1>5, <1>10, <1>12 DEF Shown
<1>14. View(y) = [View(x) EXCEPT ![a] = [View(x)[a] EXCEPT !.storage = Slots(y, a)]]
  BY <1>5, <1>7, <1>9, <1>10, <1>13, ViewAt
<1>15. View(x)[a].storage = Slots(x, a)
  BY <1>12 DEF Shown
<1>16. [View(x) EXCEPT ![a] = [View(x)[a] EXCEPT !.storage = [View(x)[a].storage EXCEPT ![s] = row.curr]]]
         = [View(x) EXCEPT ![a].storage[s] = row.curr]
  OBVIOUS
<1> QED BY <1>3, <1>5, <1>7, <1>11, <1>14, <1>15, <1>16 DEF Reaches

(* execute_sstore writes the slot, or leaves it when the value is the      *)
(* same, and lists it as read.                                             *)
LEMMA Sstored ==
  ASSUME NEW x, Overlaid(x), NEW a \in Addr, NEW s \in Slot, NEW v, Alive(Loaded(x, a))
  PROVE  /\ Reaches(x, execute_sstore(x, a, s, v))
         /\ View(execute_sstore(x, a, s, v)) = [View(x) EXCEPT ![a].storage[s] = v]
         /\ <<a, s>> \in execute_sstore(x, a, s, v).bal.reads
<1> DEFINE k == <<a, s>>
           e == k_sload(x, a, s)
           entry == SlotValue(e, k)
           y == execute_sstore(x, a, s, v)
<1>0. k \in Addr \X Slot /\ k[1] = a
  OBVIOUS
<1>1. Reads(x, e) /\ acct_block_found(e, a) /\ k \in e.bal.reads /\ Overlaid(e)
  BY SloadReads
<1>2. y = IF entry.curr = v THEN e ELSE storage_tx_update(e, k, v, entry.orig)
  BY DEF execute_sstore, k_sstore
<1> HIDE DEF e, y
<1>3. /\ entry.curr = IF Listed(e.storage_tx, k) THEN Row(e, k).curr ELSE Born(e, k)
      /\ entry.orig = Born(e, k)
  <2>1. entry = [curr |-> IF Listed(e.storage_tx, k) THEN Row(e, k).curr ELSE Born(e, k),
                 orig |-> Born(e, k)]
    BY <1>1, SlotIs
  <2> QED BY <2>1
<1>4. Alive(Loaded(e, a)) /\ View(e) = View(x) /\ Reaches(x, e) /\ Shaped(e) /\ StorageOK(e, k)
  BY <1>0, <1>1 DEF Reads, Overlaid
<1> HIDE DEF entry, k
<1>5. CASE entry.curr = v
  <2>1. y = e
    BY <1>2, <1>5
  <2>2. View(e) = [View(e) EXCEPT ![a].storage[s] = v]
    <3>1. View(e)[a] = Shown(Loaded(e, a), Slots(e, a), Births(e, a)) /\ View(e) = [b \in Addr |-> View(e)[b]]
      BY <1>1, ViewIs
    <3>2. View(e)[a].storage = Slots(e, a) /\ View(e)[a] = [View(e)[a] EXCEPT !.storage = Slots(e, a)]
      BY <3>1 DEF Shown
    <3>3. Slots(e, a) = [Slots(e, a) EXCEPT ![s] = v]
      BY <1>3, <1>5 DEF Slots, k
    <3> HIDE DEF Slots
    <3>4. [View(e) EXCEPT ![a].storage[s] = v]
            = [View(e) EXCEPT ![a] = [View(e)[a] EXCEPT !.storage = [View(e)[a].storage EXCEPT ![s] = v]]]
      OBVIOUS
    <3>5. @ = [View(e) EXCEPT ![a] = View(e)[a]]
      BY <3>2, <3>3
    <3> QED BY <3>1, <3>4, <3>5
  <2> QED BY <1>1, <1>4, <2>1, <2>2 DEF y, k
<1>6. CASE entry.curr # v /\ ~Listed(e.storage_tx, k)
  <2> DEFINE row == [key |-> k, curr |-> v, orig |-> entry.orig, generation |-> e.generations[a]]
  <2>1. y = ListSlot(e, k, row)
    BY <1>0, <1>2, <1>6 DEF storage_tx_update
  <2>2. IsSlotRow(row) /\ row.key = k /\ row.orig = Born(e, k) /\ row.generation = e.generations[a] /\ row.curr = v
    BY <1>3 DEF IsSlotRow
  <2> HIDE DEF row
  <2>3. Extends(e, y) /\ PutsSlot(e, y, row)
    BY <1>0, <1>4, <1>6, <2>1, <2>2, ListSlotPuts
  <2>4. Reaches(e, y) /\ View(y) = [View(e) EXCEPT ![a].storage[s] = v] /\ y.bal = e.bal
    BY <1>1, <1>4, <2>2, <2>3, PutSlot DEF k, PutsSlot
  <2> QED BY <1>1, <1>4, <2>4, ReachesStep DEF y, k
<1>7. CASE entry.curr # v /\ Listed(e.storage_tx, k)
  <2> DEFINE old == Row(e, k)
             row == [old EXCEPT !.curr = v]
             f == Push(e, "StorageValue", k, old.curr)
  <2>1. old.generation = e.generations[a] /\ old.orig = Born(e, k) /\ old.curr # v
    BY <1>0, <1>3, <1>4, <1>7 DEF StorageOK
  <2>2. /\ Extends(e, SetSlot(f, k, row)) /\ PutsSlot(e, SetSlot(f, k, row), row)
        /\ IsSlotRow(old) /\ row.key = k
    BY <1>0, <1>4, <1>7, SetSlotPuts
  <2>3. [old EXCEPT !.curr = v, !.generation = e.generations[a]] = row
    <3> HIDE DEF old
    <3> QED BY <2>1, <2>2 DEF IsSlotRow
  <2>4. row.curr = v /\ row.orig = Born(e, k) /\ row.generation = e.generations[a]
    <3> HIDE DEF old
    <3> QED BY <2>1, <2>2 DEF IsSlotRow
  <2>5. y = SetSlot(f, k, row)
    BY <1>0, <1>2, <1>7, <2>1, <2>3 DEF storage_tx_update, PushIf, Row
  <2> HIDE DEF row, old, f
  <2>6. Reaches(e, y) /\ View(y) = [View(e) EXCEPT ![a].storage[s] = v] /\ y.bal = e.bal
    <3>1. Extends(e, y) /\ PutsSlot(e, y, row) /\ row.key = <<a, s>>
      BY <2>2, <2>5 DEF k
    <3>2. row.orig = Born(e, <<a, s>>) /\ <<a, s>> \in e.bal.reads
      BY <1>1, <2>4 DEF k
    <3> QED BY <1>1, <1>4, <2>4, <3>1, <3>2, PutSlot DEF PutsSlot
  <2> QED BY <1>1, <1>4, <2>6, ReachesStep DEF y, k
<1> QED BY <1>5, <1>6, <1>7

-----------------------------------------------------------------------------
(* Setting the flags of an account, and deleting it.                       *)
LEMMA WithPresent ==
  ASSUME NEW acc, IsAccount(acc), NEW t \in BOOLEAN
  PROVE  LET y == [acc EXCEPT !.present = t]
         IN /\ IsAccount(y) /\ y.present = t
            /\ y.nonce = acc.nonce /\ y.balance = acc.balance /\ y.code = acc.code
            /\ y.created = acc.created /\ y.selfdestructed = acc.selfdestructed /\ y.storage_cleared = acc.storage_cleared
BY DEF IsAccount

(* An account that becomes present.                                        *)
LEMMA BecomesPresent ==
  ASSUME NEW acc, IsAccount(acc)
  PROVE  LET y == [acc EXCEPT !.present = TRUE]
         IN /\ IsAccount(y) /\ y.present = TRUE
            /\ y.nonce = acc.nonce /\ y.balance = acc.balance /\ y.code = acc.code
            /\ y.created = acc.created /\ y.selfdestructed = acc.selfdestructed /\ y.storage_cleared = acc.storage_cleared
<1>1. TRUE \in BOOLEAN
  OBVIOUS
<1> QED BY <1>1, WithPresent, Zenon

(* An account with another created flag.                                   *)
LEMMA WithCreated ==
  ASSUME NEW acc, IsAccount(acc), NEW t \in BOOLEAN
  PROVE  LET y == [acc EXCEPT !.created = t]
         IN /\ IsAccount(y) /\ y.created = t
            /\ y.nonce = acc.nonce /\ y.balance = acc.balance /\ y.code = acc.code
            /\ y.present = acc.present /\ y.selfdestructed = acc.selfdestructed /\ y.storage_cleared = acc.storage_cleared
BY DEF IsAccount

(* An account that is marked as created.                                   *)
LEMMA BecomesCreated ==
  ASSUME NEW acc, IsAccount(acc)
  PROVE  LET y == [acc EXCEPT !.created = TRUE]
         IN /\ IsAccount(y) /\ y.created = TRUE
            /\ y.nonce = acc.nonce /\ y.balance = acc.balance /\ y.code = acc.code
            /\ y.present = acc.present /\ y.selfdestructed = acc.selfdestructed /\ y.storage_cleared = acc.storage_cleared
<1>1. TRUE \in BOOLEAN
  OBVIOUS
<1> QED BY <1>1, WithCreated, Zenon

(* An account with another selfdestructed flag.                            *)
LEMMA WithDoomed ==
  ASSUME NEW acc, IsAccount(acc), NEW t \in BOOLEAN
  PROVE  LET y == [acc EXCEPT !.selfdestructed = t]
         IN /\ IsAccount(y) /\ y.selfdestructed = t
            /\ y.nonce = acc.nonce /\ y.balance = acc.balance /\ y.code = acc.code
            /\ y.present = acc.present /\ y.created = acc.created /\ y.storage_cleared = acc.storage_cleared
BY DEF IsAccount

(* An account that is marked as self-destructed.                           *)
LEMMA BecomesDoomed ==
  ASSUME NEW acc, IsAccount(acc)
  PROVE  LET y == [acc EXCEPT !.selfdestructed = TRUE]
         IN /\ IsAccount(y) /\ y.selfdestructed = TRUE
            /\ y.nonce = acc.nonce /\ y.balance = acc.balance /\ y.code = acc.code
            /\ y.present = acc.present /\ y.created = acc.created /\ y.storage_cleared = acc.storage_cleared
<1>1. TRUE \in BOOLEAN
  OBVIOUS
<1> QED BY <1>1, WithDoomed, Zenon

(* An account with another cleared flag.                                   *)
LEMMA WithCleared ==
  ASSUME NEW acc, IsAccount(acc), NEW t \in BOOLEAN
  PROVE  LET y == [acc EXCEPT !.storage_cleared = t]
         IN /\ IsAccount(y) /\ y.storage_cleared = t
            /\ y.nonce = acc.nonce /\ y.balance = acc.balance /\ y.code = acc.code
            /\ y.present = acc.present /\ y.created = acc.created /\ y.selfdestructed = acc.selfdestructed
BY DEF IsAccount

(* An account that is marked as cleared.                                   *)
LEMMA BecomesCleared ==
  ASSUME NEW acc, IsAccount(acc)
  PROVE  LET y == [acc EXCEPT !.storage_cleared = TRUE]
         IN /\ IsAccount(y) /\ y.storage_cleared = TRUE
            /\ y.nonce = acc.nonce /\ y.balance = acc.balance /\ y.code = acc.code
            /\ y.present = acc.present /\ y.created = acc.created /\ y.selfdestructed = acc.selfdestructed
<1>1. TRUE \in BOOLEAN
  OBVIOUS
<1> QED BY <1>1, WithCleared, Zenon

(* An account with five other fields.                                      *)
LEMMA WithDeletion ==
  ASSUME NEW acc, IsAccount(acc), NEW n \in Nat, NEW v \in Nat, NEW c, NEW t \in BOOLEAN, NEW u \in BOOLEAN
  PROVE  LET y == [acc EXCEPT !.nonce = n, !.balance = v, !.code = c, !.present = t, !.storage_cleared = u]
         IN IsAccount(y) /\ y.present = t /\ y.nonce = n /\ y.balance = v /\ y.code = c /\ y.created = acc.created
                   /\ y.selfdestructed = acc.selfdestructed /\ y.storage_cleared = u
<1> DEFINE y1 == [acc EXCEPT !.nonce = n]
           y2 == [y1 EXCEPT !.balance = v]
           y3 == [y2 EXCEPT !.code = c]
           y4 == [y3 EXCEPT !.present = t]
           y5 == [y4 EXCEPT !.storage_cleared = u]
           same(y) == y.created = acc.created /\ y.selfdestructed = acc.selfdestructed
<1>1. IsAccount(y1) /\ y1.nonce = n /\ same(y1)
  BY DEF IsAccount
<1> HIDE DEF y1
<1>2. IsAccount(y2) /\ y2.nonce = n /\ y2.balance = v /\ same(y2)
  BY <1>1 DEF IsAccount
<1> HIDE DEF y2
<1>3. IsAccount(y3) /\ y3.nonce = n /\ y3.balance = v /\ y3.code = c /\ same(y3)
  BY <1>2 DEF IsAccount
<1> HIDE DEF y3
<1>4. IsAccount(y4) /\ y4.nonce = n /\ y4.balance = v /\ y4.code = c /\ y4.present = t /\ same(y4)
  BY <1>3 DEF IsAccount
<1> HIDE DEF y4
<1>5. /\ IsAccount(y5) /\ y5.nonce = n /\ y5.balance = v /\ y5.code = c /\ y5.present = t
      /\ y5.storage_cleared = u /\ same(y5)
  BY <1>4 DEF IsAccount
<1>6. [acc EXCEPT !.nonce = n, !.balance = v, !.code = c, !.present = t, !.storage_cleared = u] = y5
  BY Zenon DEF y1, y2, y3, y4
<1> QED BY <1>5, <1>6, Zenon

(* account_delete leaves an empty account that is not present.             *)
LEMMA Deletion ==
  ASSUME NEW acc, IsAccount(acc)
  PROVE  LET y == account_delete(acc)
         IN /\ Fine(y) /\ account_info_empty(y) /\ ~Alive(y)
            /\ y.present = FALSE /\ y.nonce = 0 /\ y.balance = 0 /\ y.code = NoCode
            /\ y.created = acc.created /\ y.selfdestructed = acc.selfdestructed /\ y.storage_cleared = TRUE
<1>1. TRUE \in BOOLEAN /\ FALSE \in BOOLEAN /\ 0 \in Nat
  OBVIOUS
<1>2. LET z == account_delete(acc)
      IN IsAccount(z) /\ z.present = FALSE /\ z.nonce = 0 /\ z.balance = 0 /\ z.code = NoCode /\ z.created = acc.created
          /\ z.selfdestructed = acc.selfdestructed /\ z.storage_cleared = TRUE
  BY <1>1, WithDeletion, Zenon DEF account_delete
<1> DEFINE y == account_delete(acc)
<1> HIDE DEF y
<1>3. /\ IsAccount(y) /\ y.present = FALSE /\ y.nonce = 0 /\ y.balance = 0 /\ y.code = NoCode
      /\ y.created = acc.created /\ y.selfdestructed = acc.selfdestructed /\ y.storage_cleared = TRUE
  BY <1>2 DEF y
<1>4. Fine(y) /\ account_info_empty(y) /\ ~Alive(y)
  BY <1>3 DEF Fine, account_info_empty, Alive
<1> QED BY <1>3, <1>4, Zenon DEF y

-----------------------------------------------------------------------------
(* Writing an account.                                                     *)
(* The account of a becomes acc; without nonce, balance and code it has    *)
(* no storage either.                                                      *)
Writes(x, y, a, acc) ==
  /\ Reaches(x, y) /\ LoadsAs(x, y, a, acc)
  /\ View(y) = [View(x) EXCEPT ![a] =
                  AsLedger!Exist(Shown(acc, View(x)[a].storage, View(x)[a].orig))]

(* An account without nonce, balance and code shows no storage.            *)
LEMMA ExistShown ==
  ASSUME NEW acc, NEW storage, NEW orig
  PROVE  AsLedger!Exist(Shown(acc, storage, orig)) =
           IF account_info_empty(acc) THEN Shown(acc, Zeros, Zeros) ELSE Shown(acc, storage, orig)
<1> DEFINE shown == Shown(acc, storage, orig)
<1>1. AsLedger!Empty(shown) <=> account_info_empty(acc)
  BY DEF AsLedger!Empty, Shown, account_info_empty
<1>2. AsLedger!NoStorage = Zeros
  BY DEF AsLedger!NoStorage, Zeros
<1>3. AsLedger!Exist(shown) = IF AsLedger!Empty(shown) THEN [shown EXCEPT !.storage = Zeros, !.orig = Zeros] ELSE shown
  BY <1>2 DEF AsLedger!Exist
<1>4. ASSUME NEW t PROVE [shown EXCEPT !.storage = t, !.orig = t] = Shown(acc, t, t)
  <2> DEFINE once == Shown(acc, t, orig)
  <2>1. [shown EXCEPT !.storage = t] = once
    BY DEF Shown
  <2>2. [once EXCEPT !.orig = t] = Shown(acc, t, t)
    BY DEF Shown
  <2> HIDE DEF shown, once
  <2> QED BY <2>1, <2>2
<1> QED BY <1>1, <1>3, <1>4

(* The host in which the transaction's account at a is c: none written yet *)
(* when it is the one that is loaded.                                      *)
Holds(x, y, a, c) ==
  \/ y = x /\ c = Loaded(x, a)
  \/ Extends(x, y) /\ Puts(x, y, a, c)

(* acct_tx_set on an account that may not be listed yet.                   *)
LEMMA HoldsField ==
  ASSUME NEW x, Overlaid(x), NEW a \in Addr, acct_block_found(x, a), NEW y, NEW c, IsAccount(c),
         Holds(x, y, a, c), NEW field \in {"balance", "nonce", "code"}, NEW v,
         IsAccount([c EXCEPT ![field] = v])
  PROVE  Holds(x, acct_tx_set(y, a, field, v), a, [c EXCEPT ![field] = v])
<1>1. Shaped(x) /\ field \in AccountFields
  BY DEF Overlaid, AccountFields
<1>2. CASE Extends(x, y) /\ Puts(x, y, a, c)
  <2>1. acct_tx_found(y, a)
    BY <1>2 DEF Puts
  <2>2. acct_tx_set(y, a, field, v) = SetField(y, a, field, v)
    BY <2>1 DEF acct_tx_set, _account_tx_required
  <2> QED BY <1>1, <1>2, <2>2, FieldStep DEF Holds
<1>3. CASE y = x /\ c = Loaded(x, a) /\ acct_tx_found(x, a)
  <2>1. acct_tx_set(y, a, field, v) = SetField(x, a, field, v)
    BY <1>3 DEF acct_tx_set, _account_tx_required
  <2>2. c = acct_tx_get(x, a)
    BY <1>3 DEF Loaded
  <2> QED BY <1>1, <1>3, <2>1, <2>2, SetFieldPuts DEF Holds
<1>4. CASE y = x /\ c = Loaded(x, a) /\ ~acct_tx_found(x, a)
  <2> DEFINE z == ListAccount(x, a, c)
  <2>1. c = acct_block_get(x, a)
    BY <1>4 DEF Loaded
  <2>2. acct_tx_set(y, a, field, v) = SetField(z, a, field, v)
    BY <1>4, <2>1 DEF acct_tx_set, _account_tx_required
  <2>3. Extends(x, z) /\ Puts(x, z, a, c)
    BY <1>1, <1>4, <2>1, ListAccountPuts
  <2> HIDE DEF z
  <2> QED BY <1>1, <2>2, <2>3, FieldStep DEF Holds
<1> QED BY <1>2, <1>3, <1>4 DEF Holds

(* What an account of the transaction is that keeps its storage.           *)
LEMMA HoldsWrites ==
  ASSUME NEW x, Overlaid(x), NEW a \in Addr, acct_block_found(x, a), NEW y, NEW acc, Fine(acc),
         ~account_info_empty(acc),
         acc.storage_cleared = Loaded(x, a).storage_cleared, Alive(Loaded(x, a)) => Alive(acc),
         Holds(x, y, a, acc)
  PROVE  Writes(x, y, a, acc)
<1>1. AsLedger!Exist(Shown(acc, View(x)[a].storage, View(x)[a].orig))
        = Shown(acc, View(x)[a].storage, View(x)[a].orig)
  BY ExistShown
<1>2. CASE Extends(x, y) /\ Puts(x, y, a, acc)
  BY <1>1, <1>2, PutPlain DEF Writes
<1>3. CASE y = x /\ acc = Loaded(x, a)
  <2>1. Reaches(x, y)
    BY <1>3, ReadsSelf DEF Reads
  <2>2. View(x) = [b \in Addr |-> Shown(Loaded(x, b), Slots(x, b), Births(x, b))]
    BY ViewIs
  <2>3. View(x)[a] = Shown(acc, View(x)[a].storage, View(x)[a].orig)
    BY <1>3, <2>2 DEF Shown
  <2>4. View(x) = [View(x) EXCEPT ![a] = View(x)[a]]
    BY <2>2
  <2>5. LoadsAs(x, y, a, acc)
    BY <1>3 DEF LoadsAs
  <2> QED BY <1>1, <1>3, <2>1, <2>3, <2>4, <2>5 DEF Writes
<1> QED BY <1>2, <1>3 DEF Holds

(* Three fields of an account, taken over where they differ.               *)
TakeBalance(c, n) == IF n.balance = c.balance THEN c ELSE [c EXCEPT !.balance = n.balance]
TakeNonce(c, n) == IF n.nonce = c.nonce THEN c ELSE [c EXCEPT !.nonce = n.nonce]
TakeCode(c, n) == IF n.code = c.code THEN c ELSE [c EXCEPT !.code = n.code]

(* Taking over the three fields makes the account the new one.             *)
LEMMA ThreeFields ==
  ASSUME NEW c, IsAccount(c), NEW n, IsAccount(n), n.present = c.present, n.created = c.created,
         n.selfdestructed = c.selfdestructed, n.storage_cleared = c.storage_cleared
  PROVE  /\ IsAccount(TakeBalance(c, n)) /\ TakeBalance(c, n).nonce = c.nonce /\ TakeBalance(c, n).code = c.code
         /\ IsAccount(TakeNonce(TakeBalance(c, n), n)) /\ TakeNonce(TakeBalance(c, n), n).code = c.code
         /\ TakeCode(TakeNonce(TakeBalance(c, n), n), n) = n
<1> DEFINE acc(x, y, z) == [nonce |-> x, balance |-> y, code |-> z, present |-> c.present, created |-> c.created,
                            selfdestructed |-> c.selfdestructed, storage_cleared |-> c.storage_cleared]
           b == TakeBalance(c, n)
           m == TakeNonce(b, n)
           k == TakeCode(m, n)
<1>1. c = acc(c.nonce, c.balance, c.code) /\ n = acc(n.nonce, n.balance, n.code)
  BY DEF IsAccount
<1>2. b = acc(c.nonce, n.balance, c.code)
  <2>1. [c EXCEPT !.balance = n.balance] = acc(c.nonce, n.balance, c.code)
    BY <1>1
  <2> HIDE DEF acc
  <2> QED BY <1>1, <2>1 DEF TakeBalance
<1> HIDE DEF b
<1>3. m = acc(n.nonce, n.balance, c.code)
  <2>1. [b EXCEPT !.nonce = n.nonce] = acc(n.nonce, n.balance, c.code) /\ b.nonce = c.nonce
    BY <1>2
  <2> HIDE DEF acc
  <2> QED BY <1>2, <2>1 DEF TakeNonce
<1>8. b.nonce = c.nonce /\ b.code = c.code /\ m.code = c.code
  BY <1>2, <1>3
<1> HIDE DEF m
<1>4. k = acc(n.nonce, n.balance, n.code)
  <2>1. [m EXCEPT !.code = n.code] = acc(n.nonce, n.balance, n.code) /\ m.code = c.code
    BY <1>3
  <2> HIDE DEF acc
  <2> QED BY <1>3, <2>1 DEF TakeCode
<1> HIDE DEF k
<1>5. IsAccount(b)
  BY <1>2 DEF IsAccount
<1>6. IsAccount(m)
  BY <1>3 DEF IsAccount
<1> QED BY <1>1, <1>4, <1>5, <1>6, <1>8 DEF b, m, k

(* What k_aload gives.                                                     *)
Current(x, a, cur) == cur = Loaded(x, a)

(* store_account_info on what k_aload gave.                                *)
LEMMA InfoWrites ==
  ASSUME NEW x, Overlaid(x), NEW a \in Addr, acct_block_found(x, a), NEW cur, Current(x, a, cur),
         NEW info, IsAccount(info), info.present = cur.present, info.created = cur.created,
         info.selfdestructed = cur.selfdestructed, info.storage_cleared = cur.storage_cleared,
         Alive(cur) => Alive(info), ~account_info_empty(info)
  PROVE  Writes(x, store_account_info(x, a, cur, info), a, [info EXCEPT !.present = TRUE])
<1> DEFINE next == [info EXCEPT !.present = TRUE]
           y == store_account_info(x, a, cur, info)
<1>1. /\ Fine(cur) /\ Shaped(x) /\ IsAccount(cur)
      /\ cur = IF acct_tx_found(x, a) THEN acct_tx_get(x, a) ELSE Base(x, a)
  BY LoadedIs DEF Overlaid, Fine, Current
<1>2. account_set_info(cur, info) = next
  BY DEF account_set_info
<1>3. /\ IsAccount(next) /\ next.present = TRUE
      /\ next.nonce = info.nonce /\ next.balance = info.balance /\ next.code = info.code
      /\ next.created = info.created /\ next.selfdestructed = info.selfdestructed
      /\ next.storage_cleared = info.storage_cleared
  BY BecomesPresent
<1> HIDE DEF next
<1>4. /\ Fine(next) /\ IsAccount(next) /\ ~account_info_empty(next) /\ next.present = TRUE
      /\ next.created = cur.created /\ next.selfdestructed = cur.selfdestructed
      /\ next.storage_cleared = cur.storage_cleared
      /\ Alive(cur) => Alive(next)
  BY <1>1, <1>3 DEF Fine, account_info_empty, Alive
<1> DEFINE set(f, field) == IF next[field] # cur[field] THEN acct_tx_set(f, a, field, next[field]) ELSE f
<1>5. y = IF next.present # cur.present \/ next.storage_cleared # cur.storage_cleared
          THEN acct_tx_update(x, a, next) ELSE set(set(set(x, "balance"), "nonce"), "code")
  BY <1>2 DEF store_account_info
<1> HIDE DEF y, set
<1>6. CASE next.present # cur.present
  <2>1. y = acct_tx_update(x, a, next)
    BY <1>5, <1>6
  <2>2. ~acct_tx_found(x, a) => IsAccount(acct_block_get(x, a))
    BY <1>1 DEF Base
  <2>3. acct_tx_found(x, a) => next.storage_cleared = acct_tx_get(x, a).storage_cleared
    BY <1>1, <1>4
  <2>4. Holds(x, y, a, next)
    BY <1>1, <1>4, <2>1, <2>2, <2>3, UpdatePuts DEF Holds
  <2> QED BY <1>4, <2>4, HoldsWrites DEF y, next, Current
<1>7. CASE next.present = cur.present
  <2> DEFINE b == TakeBalance(cur, next)
             m == TakeNonce(b, next)
             k == TakeCode(m, next)
             f == set(x, "balance")
             g == set(f, "nonce")
             h == set(g, "code")
  <2>1. /\ IsAccount(b) /\ b.nonce = cur.nonce /\ IsAccount(m) /\ m.code = cur.code
        /\ k = next /\ IsAccount(k)
    BY <1>1, <1>4, <1>7, ThreeFields
  <2>2. Holds(x, x, a, cur)
    BY DEF Holds, Current
  <2>3. Holds(x, f, a, b)
    <3>1. CASE next.balance = cur.balance
      BY <2>2, <3>1 DEF set, TakeBalance
    <3>2. CASE next.balance # cur.balance
      <4>1. f = acct_tx_set(x, a, "balance", next.balance) /\ b = [cur EXCEPT !.balance = next.balance]
        BY <3>2 DEF set, TakeBalance
      <4>2. [cur EXCEPT !["balance"] = next.balance] = b /\ IsAccount(b)
        BY <2>1, <4>1
      <4> HIDE DEF b, f
      <4> QED BY <1>1, <2>2, <4>1, <4>2, HoldsField
    <3> QED BY <3>1, <3>2
  <2> HIDE DEF b, f
  <2>4. Holds(x, g, a, m)
    <3>1. CASE next.nonce = cur.nonce
      BY <2>1, <2>3, <3>1 DEF set, TakeNonce
    <3>2. CASE next.nonce # cur.nonce
      <4>1. g = acct_tx_set(f, a, "nonce", next.nonce) /\ m = [b EXCEPT !.nonce = next.nonce]
        BY <2>1, <3>2 DEF set, TakeNonce
      <4>2. [b EXCEPT !["nonce"] = next.nonce] = m /\ IsAccount(m)
        BY <2>1, <4>1
      <4> HIDE DEF m, g
      <4> QED BY <2>1, <2>3, <4>1, <4>2, HoldsField
    <3> QED BY <3>1, <3>2
  <2> HIDE DEF m, g
  <2>5. Holds(x, h, a, k)
    <3>1. CASE next.code = cur.code
      BY <2>1, <2>4, <3>1 DEF set, TakeCode
    <3>2. CASE next.code # cur.code
      <4>1. h = acct_tx_set(g, a, "code", next.code) /\ k = [m EXCEPT !.code = next.code]
        BY <2>1, <3>2 DEF set, TakeCode
      <4>2. [m EXCEPT !["code"] = next.code] = k /\ IsAccount(k)
        BY <2>1, <4>1
      <4> HIDE DEF k, h
      <4> QED BY <2>1, <2>4, <4>1, <4>2, HoldsField
    <3> QED BY <3>1, <3>2
  <2>6. y = h
    BY <1>4, <1>5, <1>7 DEF f, g
  <2> QED BY <1>4, <2>1, <2>5, <2>6, HoldsWrites DEF y, next, Current
<1> QED BY <1>6, <1>7

(* An account that ends without nonce, balance and code is deleted.        *)
LEMMA InfoDeletes ==
  ASSUME NEW x, Overlaid(x), NEW a \in Addr, acct_block_found(x, a), NEW cur, Current(x, a, cur),
         NEW info, account_info_empty(info), ~Alive(cur), ~account_info_empty(cur)
  PROVE  Writes(x, store_account_info(x, a, cur, info), a, account_delete(cur))
<1> DEFINE next == account_delete(cur)
           y == store_account_info(x, a, cur, info)
<1>1. Fine(cur) /\ Shaped(x) /\ IsAccount(cur) /\ cur.present = TRUE /\ AccountOK(x, a)
  BY LoadedIs DEF Overlaid, Fine, IsAccount, Current
<1>2. /\ Fine(next) /\ IsAccount(next) /\ account_info_empty(next) /\ ~Alive(next)
      /\ next.present = FALSE /\ next.storage_cleared = TRUE
  BY <1>1, Deletion DEF Fine
<1>3. y = acct_tx_update(storage_tx_clear(x, a), a, next)
  <2>1. account_set_info(cur, info) = next
    BY DEF account_set_info
  <2>2. next.present # cur.present
    BY <1>1, <1>2
  <2> HIDE DEF next
  <2> QED BY <2>1, <2>2 DEF store_account_info
<1> HIDE DEF next, y
<1>5. /\ acct_tx_found(x, a) =>
           acct_tx_get(x, a).storage_cleared = (Orig(x, a).storage_cleared \/ x.generations[a] # 0)
      /\ ~acct_tx_found(x, a) => IsAccount(acct_block_get(x, a))
  <2>1. ~acct_tx_found(x, a) => cur = acct_block_get(x, a)
    BY DEF Loaded, Current
  <2> QED BY <1>1, <2>1 DEF AccountOK
<1>6. Extends(x, y) /\ Puts(Renewed(x, a), y, a, next)
  BY <1>1, <1>2, <1>3, <1>5, ClearUpdatePuts
<1>7. ClearedAs(x, y, a, next)
  <2>1. ~Alive(Loaded(x, a))
    BY DEF Current
  <2> QED BY <1>2, <1>6, <2>1, PutCleared
<1>8. AsLedger!Exist(Shown(next, View(x)[a].storage, View(x)[a].orig)) = Shown(next, Zeros, Zeros)
  BY <1>2, ExistShown
<1> QED BY <1>7, <1>8 DEF Writes, ClearedAs, next, y

-----------------------------------------------------------------------------
(* The operations of the kernel, as steps from a world to a world.         *)
Acts(x, y, w) == Reaches(x, y) /\ View(y) = w

(* Two operations, one after the other.                                    *)
LEMMA ActsStep ==
  ASSUME NEW x, Overlaid(x), NEW y, NEW z, NEW w, NEW u, Acts(x, y, w), Acts(y, z, u)
  PROVE  Acts(x, z, u)
BY ReachesStep DEF Acts

(* An operation after a read.                                              *)
LEMMA ReadsActs ==
  ASSUME NEW x, Overlaid(x), NEW y, NEW z, NEW w, Reads(x, y), Acts(y, z, w)
  PROVE  Acts(x, z, w)
BY ReachesStep DEF Acts, Reads

(* The fields of an account of the world are those k_aload returns.        *)
LEMMA ViewOf ==
  ASSUME NEW x, Overlaid(x)
  PROVE  /\ View(x) = [b \in Addr |-> View(x)[b]]
         /\ \A a \in Addr :
              /\ View(x)[a] = Shown(Loaded(x, a), View(x)[a].storage, View(x)[a].orig)
              /\ View(x)[a].nonce = Loaded(x, a).nonce /\ View(x)[a].balance = Loaded(x, a).balance
              /\ View(x)[a].code = Loaded(x, a).code /\ View(x)[a].created = Loaded(x, a).created
              /\ View(x)[a].doomed = Loaded(x, a).selfdestructed
              /\ View(x)[a].nonce \in Nat /\ View(x)[a].balance \in Nat
<1>1. View(x) = [b \in Addr |-> Shown(Loaded(x, b), Slots(x, b), Births(x, b))]
  BY ViewIs
<1>2. ASSUME NEW a \in Addr
      PROVE  /\ View(x)[a] = Shown(Loaded(x, a), View(x)[a].storage, View(x)[a].orig)
             /\ View(x)[a].nonce = Loaded(x, a).nonce /\ View(x)[a].balance = Loaded(x, a).balance
             /\ View(x)[a].code = Loaded(x, a).code /\ View(x)[a].created = Loaded(x, a).created
             /\ View(x)[a].doomed = Loaded(x, a).selfdestructed
             /\ View(x)[a].nonce \in Nat /\ View(x)[a].balance \in Nat
  <2>1. View(x)[a] = Shown(Loaded(x, a), Slots(x, a), Births(x, a))
    BY <1>1
  <2>2. IsAccount(Loaded(x, a))
    BY LoadedIs DEF Fine
  <2> QED BY <2>1, <2>2 DEF Shown, IsAccount
<1> QED BY <1>1, <1>2

(* Everything but a stays as it is.                                        *)
Spares(x, y, a) == \A b \in Addr \ {a} : Loaded(y, b) = Loaded(x, b)

(* store_account_info, whatever the outcome.                               *)
LEMMA StoreInfo ==
  ASSUME NEW x, Overlaid(x), NEW a \in Addr, acct_block_found(x, a), NEW cur, Current(x, a, cur),
         NEW info, IsAccount(info), info.present = cur.present, info.created = cur.created,
         info.selfdestructed = cur.selfdestructed, info.storage_cleared = cur.storage_cleared,
         Alive(cur) => Alive(info), account_info_empty(info) => ~account_info_empty(cur)
  PROVE  LET y == store_account_info(x, a, cur, info)
             shown == Shown(info, View(x)[a].storage, View(x)[a].orig)
         IN Acts(x, y, [View(x) EXCEPT ![a] = AsLedger!Exist(shown)]) /\ Spares(x, y, a)
<1> DEFINE y == store_account_info(x, a, cur, info)
<1>1. ASSUME NEW acc, Writes(x, y, a, acc), acc.nonce = info.nonce, acc.balance = info.balance,
             acc.code = info.code, acc.created = info.created, acc.selfdestructed = info.selfdestructed
      PROVE  /\ Acts(x, y, [View(x) EXCEPT ![a] =
                              AsLedger!Exist(Shown(info, View(x)[a].storage, View(x)[a].orig))])
             /\ Spares(x, y, a)
  <2>1. \A s, o : Shown(acc, s, o) = Shown(info, s, o)
    BY <1>1 DEF Shown
  <2>2. Spares(x, y, a)
    BY <1>1 DEF Writes, LoadsAs, Spares
  <2> QED BY <1>1, <2>1, <2>2 DEF Writes, Acts
<1>2. CASE ~account_info_empty(info)
  <2> DEFINE next == [info EXCEPT !.present = TRUE]
  <2>1. Writes(x, y, a, next)
    BY <1>2, InfoWrites
  <2>2. /\ next.nonce = info.nonce /\ next.balance = info.balance /\ next.code = info.code
        /\ next.created = info.created /\ next.selfdestructed = info.selfdestructed
    BY BecomesPresent
  <2> HIDE DEF next, y
  <2> QED BY <1>1, <2>1, <2>2 DEF y
<1>3. CASE account_info_empty(info)
  <2> DEFINE next == account_delete(cur)
  <2>1. ~Alive(cur) /\ ~account_info_empty(cur)
    BY <1>3 DEF Alive, account_info_empty
  <2>2. Writes(x, y, a, next)
    BY <1>3, <2>1, InfoDeletes
  <2>3. IsAccount(cur)
    BY LoadedIs DEF Current, Fine
  <2>4. /\ next.nonce = info.nonce /\ next.balance = info.balance /\ next.code = info.code
        /\ next.created = info.created /\ next.selfdestructed = info.selfdestructed
    BY <1>3, <2>3, Deletion DEF account_info_empty
  <2> HIDE DEF next, y
  <2> QED BY <1>1, <2>2, <2>4 DEF y
<1> QED BY <1>2, <1>3

(* An account with another balance or nonce.                               *)
LEMMA WithNumber ==
  ASSUME NEW acc, IsAccount(acc), NEW n \in Nat
  PROVE  /\ LET y == [acc EXCEPT !.balance = n]
            IN /\ IsAccount(y) /\ y.balance = n /\ y.nonce = acc.nonce /\ y.code = acc.code
               /\ y.present = acc.present /\ y.created = acc.created
               /\ y.selfdestructed = acc.selfdestructed /\ y.storage_cleared = acc.storage_cleared
         /\ LET y == [acc EXCEPT !.nonce = n]
            IN /\ IsAccount(y) /\ y.nonce = n /\ y.balance = acc.balance /\ y.code = acc.code
               /\ y.present = acc.present /\ y.created = acc.created
               /\ y.selfdestructed = acc.selfdestructed /\ y.storage_cleared = acc.storage_cleared
BY DEF IsAccount

(* An account with another code hash.                                      *)
LEMMA WithCode ==
  ASSUME NEW acc, IsAccount(acc), NEW c
  PROVE  LET y == [acc EXCEPT !.code = c]
         IN /\ IsAccount(y) /\ y.code = c /\ y.nonce = acc.nonce /\ y.balance = acc.balance
            /\ y.present = acc.present /\ y.created = acc.created
            /\ y.selfdestructed = acc.selfdestructed /\ y.storage_cleared = acc.storage_cleared
BY DEF IsAccount

(* An account as k_aload returns it, and as the world shows it.            *)
LEMMA CurrentIs ==
  ASSUME NEW x, Overlaid(x), NEW a \in Addr, NEW cur, Current(x, a, cur)
  PROVE  /\ IsAccount(cur) /\ Fine(cur)
         /\ View(x)[a] = Shown(cur, View(x)[a].storage, View(x)[a].orig)
         /\ View(x)[a].nonce = cur.nonce /\ View(x)[a].balance = cur.balance
         /\ View(x)[a].code = cur.code /\ View(x)[a].created = cur.created
         /\ cur.nonce \in Nat /\ cur.balance \in Nat
BY LoadedIs, ViewOf DEF Current, Fine, IsAccount

(* store_account_info with another balance: an account it leaves empty is  *)
(* deleted and loses its storage.                                          *)
LEMMA BalanceStored ==
  ASSUME NEW x, Overlaid(x), NEW a \in Addr, acct_block_found(x, a), NEW cur, Current(x, a, cur),
         NEW v \in Nat, v = 0 => cur.balance # 0
  PROVE  LET y == store_account_info(x, a, cur, [cur EXCEPT !.balance = v])
         IN /\ Acts(x, y, [View(x) EXCEPT ![a] = AsLedger!Exist([View(x)[a] EXCEPT !.balance = v])])
            /\ Spares(x, y, a)
<1> DEFINE info == [cur EXCEPT !.balance = v]
           y == store_account_info(x, a, cur, info)
<1>1. IsAccount(cur) /\ View(x)[a] = Shown(cur, View(x)[a].storage, View(x)[a].orig)
  BY CurrentIs
<1>2. /\ IsAccount(info) /\ info.balance = v /\ info.nonce = cur.nonce /\ info.code = cur.code
      /\ info.present = cur.present /\ info.created = cur.created
      /\ info.selfdestructed = cur.selfdestructed /\ info.storage_cleared = cur.storage_cleared
  BY <1>1, WithNumber
<1> HIDE DEF info
<1>3. \A s, o : Shown(info, s, o) = [Shown(cur, s, o) EXCEPT !.balance = v]
  BY <1>2, CurrentIs DEF Shown, IsAccount
<1>4. Shown(info, View(x)[a].storage, View(x)[a].orig) = [View(x)[a] EXCEPT !.balance = v]
  BY <1>1, <1>3
<1>5. /\ Alive(cur) => Alive(info)
      /\ account_info_empty(info) => ~account_info_empty(cur)
  BY <1>2 DEF Alive, account_info_empty
<1>6. /\ Acts(x, y, [View(x) EXCEPT ![a] =
                       AsLedger!Exist(Shown(info, View(x)[a].storage, View(x)[a].orig))])
      /\ Spares(x, y, a)
  BY <1>2, <1>5, StoreInfo
<1> HIDE DEF y
<1> QED BY <1>4, <1>6 DEF y, info

(* A world in which an account is what it was.                             *)
LEMMA SameWorld ==
  ASSUME NEW x, Overlaid(x), NEW a \in Addr, NEW acc, acc = View(x)[a]
  PROVE  [View(x) EXCEPT ![a] = acc] = View(x)
BY ViewOf

(* Adding nothing changes nothing.                                         *)
LEMMA NothingAdded ==
  ASSUME NEW x, Overlaid(x), NEW a \in Addr
  PROVE  AsLedger!Credit(View(x), a, 0) = View(x)
<1>1. /\ View(x)[a] = Shown(Loaded(x, a), View(x)[a].storage, View(x)[a].orig)
      /\ View(x)[a].balance \in Nat /\ View(x)[a].balance = Loaded(x, a).balance
  BY ViewOf
<1>2. [View(x)[a] EXCEPT !.balance = View(x)[a].balance + 0] = View(x)[a]
  <2>1. View(x)[a].balance + 0 = Loaded(x, a).balance
    BY <1>1
  <2>2. \A acc, s, o : [Shown(acc, s, o) EXCEPT !.balance = acc.balance] = Shown(acc, s, o)
    BY DEF Shown
  <2> QED BY <1>1, <2>1, <2>2
<1>3. AsLedger!Credit(View(x), a, 0) = [View(x) EXCEPT ![a] = [View(x)[a] EXCEPT !.balance = View(x)[a].balance + 0]]
  BY DEF AsLedger!Credit
<1> QED BY <1>2, <1>3, SameWorld

(* k_add_balance.                                                          *)
LEMMA Added ==
  ASSUME NEW x, Overlaid(x), NEW a \in Addr, NEW v \in Nat
  PROVE  /\ Acts(x, k_add_balance(x, a, v), AsLedger!Credit(View(x), a, v))
         /\ a \in k_add_balance(x, a, v).bal.accounts
<1> DEFINE e == k_aload(x, a)
           cur == Loaded(e, a)
           y == k_add_balance(x, a, v)
<1>1. Reads(x, e) /\ acct_block_found(e, a) /\ Overlaid(e) /\ a \in e.bal.accounts
  BY Aload
<1>2. y = IF v = 0 THEN e ELSE store_account_info(e, a, cur, [cur EXCEPT !.balance = cur.balance + v])
  BY DEF k_add_balance
<1>3. Current(e, a, cur)
  BY DEF Current
<1> HIDE DEF e, cur, y
<1>4. View(e) = View(x) /\ View(e)[a].balance = cur.balance /\ cur.balance \in Nat
  BY <1>1, <1>3, CurrentIs DEF Reads
<1>5. CASE v = 0
  BY <1>1, <1>2, <1>5, NothingAdded DEF Reads, Acts, e, y
<1>6. CASE v # 0
  <2>1. cur.balance + v \in Nat /\ cur.balance + v # 0
    BY <1>4, <1>6
  <2> DEFINE t == cur.balance + v
             shown == [View(e)[a] EXCEPT !.balance = t]
  <2>2. Acts(e, y, [View(e) EXCEPT ![a] = AsLedger!Exist(shown)])
    <3>1. y = store_account_info(e, a, cur, [cur EXCEPT !.balance = t])
      BY <1>2, <1>6
    <3>2. t \in Nat /\ t # 0
      BY <2>1
    <3> HIDE DEF t
    <3> QED BY <1>1, <1>3, <3>1, <3>2, BalanceStored
  <2>3. AsLedger!Exist(shown) = shown
    <3>1. shown.balance = t
      <4>1. View(e)[a] = Shown(cur, View(e)[a].storage, View(e)[a].orig)
        BY <1>1, <1>3, CurrentIs
      <4> HIDE DEF t
      <4> QED BY <4>1 DEF Shown
    <3> HIDE DEF shown
    <3> QED BY <2>1, <3>1 DEF AsLedger!Exist, AsLedger!Empty
  <2>4. [View(e) EXCEPT ![a] = shown] = AsLedger!Credit(View(x), a, v)
    BY <1>4 DEF AsLedger!Credit
  <2>5. a \in y.bal.accounts
    BY <1>1, <2>2 DEF Acts, Reaches, Grows
  <2> HIDE DEF shown
  <2> QED BY <1>1, <2>2, <2>3, <2>4, <2>5, ReadsActs DEF y
<1> QED BY <1>5, <1>6

(* Taking an amount that is there.                                         *)
LEMMA BalanceTaken ==
  ASSUME NEW x, Overlaid(x), NEW a \in Addr, acct_block_found(x, a), NEW cur, Current(x, a, cur),
         NEW v \in Nat, v # 0, v <= cur.balance
  PROVE  LET y == store_account_info(x, a, cur, [cur EXCEPT !.balance = cur.balance - v])
         IN Acts(x, y, AsLedger!Debit(View(x), a, v)) /\ Spares(x, y, a)
<1> DEFINE t == cur.balance - v
           y == store_account_info(x, a, cur, [cur EXCEPT !.balance = t])
<1>1. cur.balance \in Nat /\ View(x)[a].balance = cur.balance
  BY CurrentIs
<1>2. t \in Nat /\ (t = 0 => cur.balance # 0)
  BY <1>1
<1>3. AsLedger!Debit(View(x), a, v) = [View(x) EXCEPT ![a] = AsLedger!Exist([View(x)[a] EXCEPT !.balance = t])]
  <2>1. t = View(x)[a].balance - v
    BY <1>1
  <2> HIDE DEF t
  <2> QED BY <2>1 DEF AsLedger!Debit
<1> HIDE DEF t
<1>4. /\ Acts(x, y, [View(x) EXCEPT ![a] = AsLedger!Exist([View(x)[a] EXCEPT !.balance = t])])
      /\ Spares(x, y, a)
  BY <1>2, BalanceStored
<1> HIDE DEF y
<1> QED BY <1>3, <1>4 DEF y, t

(* k_sub_balance.                                                          *)
LEMMA Subtracted ==
  ASSUME NEW x, Overlaid(x), NEW a \in Addr, NEW v \in Nat, v <= View(x)[a].balance
  PROVE  Acts(x, k_add_balance(x, a, 0 - v), AsLedger!Debit(View(x), a, v))
<1> DEFINE e == k_aload(x, a)
           cur == Loaded(e, a)
           y == k_add_balance(x, a, 0 - v)
<1>1. Reads(x, e) /\ acct_block_found(e, a) /\ Overlaid(e)
  BY Aload
<1>2. y = IF 0 - v = 0 THEN e ELSE store_account_info(e, a, cur, [cur EXCEPT !.balance = cur.balance + (0 - v)])
  BY DEF k_add_balance
<1>3. Current(e, a, cur)
  BY DEF Current
<1> HIDE DEF e, cur, y
<1>4. View(e) = View(x) /\ View(e)[a].balance = cur.balance /\ cur.balance \in Nat
  BY <1>1, <1>3, CurrentIs DEF Reads
<1>5. CASE v = 0
  <2>1. y = e /\ AsLedger!Debit(View(x), a, v) = View(x)
    BY <1>2, <1>5 DEF AsLedger!Debit
  <2> QED BY <1>1, <2>1 DEF Reads, Acts, y
<1>6. CASE v # 0
  <2>1. 0 - v # 0 /\ cur.balance + (0 - v) = cur.balance - v
    BY <1>4, <1>6
  <2>2. y = store_account_info(e, a, cur, [cur EXCEPT !.balance = cur.balance - v])
    BY <1>2, <2>1
  <2>3. Acts(e, y, AsLedger!Debit(View(e), a, v))
    BY <1>1, <1>3, <1>4, <1>6, <2>2, BalanceTaken
  <2> QED BY <1>1, <1>4, <2>3, ReadsActs DEF y
<1> QED BY <1>5, <1>6

(* k_zero_balance.                                                         *)
LEMMA Zeroed ==
  ASSUME NEW x, Overlaid(x), NEW a \in Addr
  PROVE  Acts(x, k_zero_balance(x, a), AsLedger!Debit(View(x), a, View(x)[a].balance))
<1> DEFINE e == k_aload(x, a)
           cur == Loaded(e, a)
           y == k_zero_balance(x, a)
<1>1. Reads(x, e) /\ acct_block_found(e, a) /\ Overlaid(e)
  BY Aload
<1>2. y = IF cur.balance = 0 THEN e ELSE store_account_info(e, a, cur, [cur EXCEPT !.balance = 0])
  BY DEF k_zero_balance
<1>3. Current(e, a, cur)
  BY DEF Current
<1> HIDE DEF e, cur, y
<1>4. View(e) = View(x) /\ View(e)[a].balance = cur.balance /\ cur.balance \in Nat
  BY <1>1, <1>3, CurrentIs DEF Reads
<1>5. CASE cur.balance = 0
  <2>1. y = e /\ AsLedger!Debit(View(x), a, View(x)[a].balance) = View(x)
    BY <1>2, <1>4, <1>5 DEF AsLedger!Debit
  <2> QED BY <1>1, <2>1 DEF Reads, Acts, y
<1>6. CASE cur.balance # 0
  <2> DEFINE t == cur.balance - cur.balance
  <2>1. t = 0 /\ cur.balance <= cur.balance
    BY <1>4
  <2>2. y = store_account_info(e, a, cur, [cur EXCEPT !.balance = t])
    BY <1>2, <1>6, <2>1
  <2>3. Acts(e, y, AsLedger!Debit(View(e), a, cur.balance))
    BY <1>1, <1>3, <1>4, <1>6, <2>1, <2>2, BalanceTaken
  <2> QED BY <1>1, <1>4, <2>3, ReadsActs DEF y
<1> QED BY <1>5, <1>6

(* k_transfer.                                                             *)
LEMMA Transferred ==
  ASSUME NEW x, Overlaid(x), NEW src \in Addr, NEW dst \in Addr, NEW v \in Nat, v <= View(x)[src].balance
  PROVE  /\ Acts(x, k_transfer(x, src, dst, v), AsLedger!Pay(View(x), src, dst, v))
         /\ src \in k_transfer(x, src, dst, v).bal.accounts
         /\ dst \in k_transfer(x, src, dst, v).bal.accounts
<1> DEFINE f == k_aload(x, src)
           e == k_aload(f, dst)
           cur == Loaded(e, src)
           acc == Loaded(e, dst)
           paid == store_account_info(e, src, cur, [cur EXCEPT !.balance = cur.balance - v])
           y == k_transfer(x, src, dst, v)
<1>1. Reads(x, f) /\ Overlaid(f) /\ acct_block_found(f, src) /\ src \in f.bal.accounts
  BY Aload
<1> HIDE DEF f
<1>2. Reads(f, e) /\ Overlaid(e) /\ acct_block_found(e, dst) /\ dst \in e.bal.accounts
  BY <1>1, Aload
<1> HIDE DEF e
<1>3. Reads(x, e) /\ acct_block_found(e, src) /\ src \in e.bal.accounts
  BY <1>1, <1>2, ReadsStep DEF Reads, Reaches, Grows, acct_block_found
<1>4. y = IF v = 0 \/ src = dst THEN e
          ELSE store_account_info(paid, dst, acc, [acc EXCEPT !.balance = acc.balance + v])
  BY DEF k_transfer, f, e
<1>5. Current(e, src, cur)
  BY DEF Current
<1>6. Current(e, dst, acc)
  BY DEF Current
<1> HIDE DEF y, cur, acc
<1>7. /\ View(e) = View(x) /\ View(e)[src].balance = cur.balance
      /\ acc.balance \in Nat /\ View(e)[dst].balance = acc.balance
  BY <1>2, <1>3, <1>5, <1>6, CurrentIs DEF Reads
<1>8. CASE v = 0 \/ src = dst
  <2>1. y = e
    BY <1>4, <1>8
  <2>2. AsLedger!Pay(View(x), src, dst, v) = View(x)
    <3>1. AsLedger!Credit(View(x), dst, 0) = View(x)
      BY NothingAdded
    <3> QED BY <1>8, <3>1 DEF AsLedger!Pay, AsLedger!Debit
  <2> QED BY <1>2, <1>3, <2>1, <2>2 DEF Reads, Acts, y
<1>9. CASE v # 0 /\ src # dst
  <2>1. Acts(e, paid, AsLedger!Debit(View(e), src, v)) /\ Spares(e, paid, src)
    BY <1>2, <1>3, <1>5, <1>7, <1>9, BalanceTaken
  <2> HIDE DEF paid
  <2>2. Overlaid(paid) /\ acct_block_found(paid, dst)
    BY <1>2, <2>1 DEF Acts, Reaches, Grows, acct_block_found
  <2>3. Current(paid, dst, acc)
    BY <1>6, <1>9, <2>1 DEF Current, Spares
  <2> DEFINE t == acc.balance + v
             shown == [View(paid)[dst] EXCEPT !.balance = t]
  <2>4. t \in Nat /\ t # 0
    BY <1>7, <1>9
  <2>5. y = store_account_info(paid, dst, acc, [acc EXCEPT !.balance = t])
    BY <1>4, <1>9
  <2>6. View(paid)[dst].balance = acc.balance /\ View(paid)[dst] = Shown(acc, View(paid)[dst].storage, View(paid)[dst].orig)
    BY <2>2, <2>3, CurrentIs
  <2>7. AsLedger!Credit(View(paid), dst, v) = [View(paid) EXCEPT ![dst] = shown]
    BY <2>6 DEF AsLedger!Credit
  <2> HIDE DEF t
  <2>8. Acts(paid, y, [View(paid) EXCEPT ![dst] = AsLedger!Exist(shown)])
    BY <2>2, <2>3, <2>4, <2>5, BalanceStored
  <2>9. AsLedger!Exist(shown) = shown
    <3>1. shown.balance = t
      BY <2>6 DEF Shown
    <3> HIDE DEF shown
    <3> QED BY <2>4, <3>1 DEF AsLedger!Exist, AsLedger!Empty
  <2> HIDE DEF shown
  <2>10. Acts(paid, y, AsLedger!Credit(View(paid), dst, v))
    BY <2>7, <2>8, <2>9
  <2>11. View(paid) = AsLedger!Debit(View(x), src, v)
    BY <1>7, <2>1 DEF Acts
  <2>12. AsLedger!Credit(View(paid), dst, v) = AsLedger!Pay(View(x), src, dst, v)
    BY <1>9, <2>11 DEF AsLedger!Pay
  <2>13. Acts(x, y, AsLedger!Pay(View(x), src, dst, v))
    BY <1>2, <1>3, <2>1, <2>10, <2>12, ActsStep, ReadsActs
  <2>14. Grows(e, paid) /\ Grows(paid, y)
    BY <2>1, <2>10 DEF Acts, Reaches
  <2> QED BY <1>2, <1>3, <2>13, <2>14 DEF Grows, y
<1> QED BY <1>8, <1>9

-----------------------------------------------------------------------------
(* A value that leaves an account with a nonce or code is written.         *)
LEMMA ExistAlive ==
  ASSUME NEW shown, shown.nonce # 0 \/ shown.code # NoCode
  PROVE  AsLedger!Exist(shown) = shown
BY DEF AsLedger!Exist, AsLedger!Empty

(* k_bump_nonce.                                                           *)
LEMMA Bumped ==
  ASSUME NEW x, Overlaid(x), NEW a \in Addr
  PROVE  /\ Acts(x, k_bump_nonce(x, a), AsLedger!Bump(View(x), a))
         /\ acct_block_found(k_bump_nonce(x, a), a) /\ a \in k_bump_nonce(x, a).bal.accounts
<1> DEFINE e == k_aload(x, a)
           cur == Loaded(e, a)
           t == cur.nonce + 1
           info == [cur EXCEPT !.nonce = t]
           y == k_bump_nonce(x, a)
<1>1. Reads(x, e) /\ acct_block_found(e, a) /\ Overlaid(e) /\ a \in e.bal.accounts
  BY Aload
<1>2. y = store_account_info(e, a, cur, info)
  BY DEF k_bump_nonce
<1>3. Current(e, a, cur)
  BY DEF Current
<1> HIDE DEF e, cur, y
<1>4. /\ View(e) = View(x) /\ View(e)[a].nonce = cur.nonce /\ IsAccount(cur) /\ cur.nonce \in Nat
      /\ View(e)[a] = Shown(cur, View(e)[a].storage, View(e)[a].orig)
  BY <1>1, <1>3, CurrentIs DEF Reads
<1>5. t \in Nat /\ t # 0
  BY <1>4
<1>6. AsLedger!Bump(View(x), a) = [View(e) EXCEPT ![a] = [View(e)[a] EXCEPT !.nonce = t]]
  BY <1>4 DEF AsLedger!Bump
<1> HIDE DEF t
<1>7. /\ IsAccount(info) /\ info.nonce = t /\ info.balance = cur.balance /\ info.code = cur.code
      /\ info.present = cur.present /\ info.created = cur.created
      /\ info.selfdestructed = cur.selfdestructed /\ info.storage_cleared = cur.storage_cleared
  BY <1>4, <1>5, WithNumber
<1> HIDE DEF info
<1> DEFINE shown == Shown(info, View(e)[a].storage, View(e)[a].orig)
<1>8. shown = [View(e)[a] EXCEPT !.nonce = t] /\ shown.nonce = t
  <2>1. \A s, o : Shown(info, s, o) = [Shown(cur, s, o) EXCEPT !.nonce = t] /\ Shown(info, s, o).nonce = t
    BY <1>7 DEF Shown
  <2> QED BY <1>4, <2>1
<1>9. /\ Alive(cur) => Alive(info)
      /\ account_info_empty(info) => ~account_info_empty(cur)
  BY <1>5, <1>7 DEF Alive, account_info_empty
<1>10. Acts(e, y, [View(e) EXCEPT ![a] = AsLedger!Exist(shown)])
  BY <1>1, <1>2, <1>3, <1>7, <1>9, StoreInfo
<1>11. AsLedger!Exist(shown) = shown
  BY <1>5, <1>8, ExistAlive
<1>12. Acts(e, y, AsLedger!Bump(View(x), a))
  BY <1>6, <1>8, <1>10, <1>11
<1>13. Grows(e, y) /\ Acts(x, y, AsLedger!Bump(View(x), a))
  BY <1>1, <1>12, ReadsActs DEF Acts, Reaches
<1> QED BY <1>1, <1>13 DEF Grows, acct_block_found, y

(* k_deploy_code on an account that has a nonce, so that no code does not  *)
(* delete it.                                                              *)
LEMMA CodeDeployed ==
  ASSUME NEW x, Overlaid(x), NEW a \in Addr, NEW c, View(x)[a].nonce # 0
  PROVE  Acts(x, k_deploy_code(x, a, c), [View(x) EXCEPT ![a].code = c])
<1> DEFINE e == k_aload(x, a)
           cur == Loaded(e, a)
           info == [cur EXCEPT !.code = c]
           y == k_deploy_code(x, a, c)
<1>1. Reads(x, e) /\ acct_block_found(e, a) /\ Overlaid(e)
  BY Aload
<1>2. y = store_account_info(e, a, cur, info)
  BY DEF k_deploy_code
<1>3. Current(e, a, cur)
  BY DEF Current
<1> HIDE DEF e, cur, y
<1>4. /\ View(e) = View(x) /\ View(e)[a].nonce = cur.nonce /\ IsAccount(cur) /\ cur.nonce \in Nat
      /\ View(e)[a] = Shown(cur, View(e)[a].storage, View(e)[a].orig)
  BY <1>1, <1>3, CurrentIs DEF Reads
<1>6. [View(x) EXCEPT ![a].code = c] = [View(e) EXCEPT ![a] = [View(e)[a] EXCEPT !.code = c]]
  BY <1>4
<1>7. /\ IsAccount(info) /\ info.code = c /\ info.nonce = cur.nonce /\ info.balance = cur.balance
      /\ info.present = cur.present /\ info.created = cur.created
      /\ info.selfdestructed = cur.selfdestructed /\ info.storage_cleared = cur.storage_cleared
  BY <1>4, WithCode
<1> HIDE DEF info
<1> DEFINE shown == Shown(info, View(e)[a].storage, View(e)[a].orig)
<1>8. shown = [View(e)[a] EXCEPT !.code = c] /\ shown.nonce = cur.nonce
  <2>1. \A s, o : Shown(info, s, o) = [Shown(cur, s, o) EXCEPT !.code = c] /\ Shown(info, s, o).nonce = cur.nonce
    BY <1>7 DEF Shown
  <2> QED BY <1>4, <2>1
<1>9. /\ Alive(cur) => Alive(info)
      /\ account_info_empty(info) => ~account_info_empty(cur)
  BY <1>4, <1>7 DEF Alive, account_info_empty
<1>10. Acts(e, y, [View(e) EXCEPT ![a] = AsLedger!Exist(shown)])
  BY <1>1, <1>2, <1>3, <1>7, <1>9, StoreInfo
<1>11. AsLedger!Exist(shown) = shown
  BY <1>4, <1>8, ExistAlive
<1>12. Acts(e, y, [View(x) EXCEPT ![a].code = c])
  BY <1>6, <1>8, <1>10, <1>11
<1> QED BY <1>1, <1>12, ReadsActs DEF y

-----------------------------------------------------------------------------
(* Flags.                                                                  *)
LEMMA ShownCreated ==
  ASSUME NEW cur, IsAccount(cur), NEW b \in BOOLEAN, NEW s, NEW o
  PROVE  [Shown(cur, s, o) EXCEPT !.created = b] = Shown([cur EXCEPT !.created = b], s, o)
<1> DEFINE acc == [cur EXCEPT !.created = b]
<1>1. /\ acc.created = b /\ acc.nonce = cur.nonce /\ acc.balance = cur.balance /\ acc.code = cur.code
      /\ acc.selfdestructed = cur.selfdestructed
  BY WithCreated
<1> HIDE DEF acc
<1>2. [Shown(cur, s, o) EXCEPT !.created = b] = Shown(acc, s, o)
  BY <1>1 DEF Shown
<1> QED BY <1>2 DEF acc

(* The world shows the selfdestructed flag as doomed.                      *)
LEMMA ShownDoomed ==
  ASSUME NEW cur, IsAccount(cur), NEW b \in BOOLEAN, NEW s, NEW o
  PROVE  [Shown(cur, s, o) EXCEPT !.doomed = b] = Shown([cur EXCEPT !.selfdestructed = b], s, o)
<1> DEFINE acc == [cur EXCEPT !.selfdestructed = b]
<1>1. /\ acc.selfdestructed = b /\ acc.nonce = cur.nonce /\ acc.balance = cur.balance /\ acc.code = cur.code
      /\ acc.created = cur.created
  BY WithDoomed
<1> HIDE DEF acc
<1>2. [Shown(cur, s, o) EXCEPT !.doomed = b] = Shown(acc, s, o)
  BY <1>1 DEF Shown
<1> QED BY <1>2 DEF acc

(* The same for the created flag that is set.                              *)
LEMMA BecomesShownCreated ==
  ASSUME NEW cur, IsAccount(cur)
  PROVE  \A s, o : [Shown(cur, s, o) EXCEPT !.created = TRUE] = Shown([cur EXCEPT !.created = TRUE], s, o)
<1>1. TRUE \in BOOLEAN
  OBVIOUS
<1> QED BY <1>1, ShownCreated, Zenon

(* The same for the selfdestructed flag that is set.                       *)
LEMMA BecomesShownDoomed ==
  ASSUME NEW cur, IsAccount(cur)
  PROVE  \A s, o : [Shown(cur, s, o) EXCEPT !.doomed = TRUE] = Shown([cur EXCEPT !.selfdestructed = TRUE], s, o)
<1>1. TRUE \in BOOLEAN
  OBVIOUS
<1> QED BY <1>1, ShownDoomed, Zenon

(* acct_tx_update with an account that differs in its flags only.          *)
LEMMA FlagsPut ==
  ASSUME NEW x, Overlaid(x), NEW a \in Addr, acct_block_found(x, a), NEW cur, Current(x, a, cur),
         NEW acc, IsAccount(acc), acc.nonce = cur.nonce, acc.balance = cur.balance, acc.code = cur.code,
         acc.present = cur.present, acc.storage_cleared = cur.storage_cleared
  PROVE  LET y == acct_tx_update(x, a, acc)
         IN /\ Acts(x, y, [View(x) EXCEPT ![a] = Shown(acc, View(x)[a].storage, View(x)[a].orig)])
            /\ LoadsAs(x, y, a, acc)
<1> DEFINE y == acct_tx_update(x, a, acc)
<1>1. Fine(cur) /\ Shaped(x) /\ IsAccount(cur)
  BY CurrentIs DEF Overlaid
<1>2. cur = IF acct_tx_found(x, a) THEN acct_tx_get(x, a) ELSE acct_block_get(x, a)
  BY DEF Current, Loaded
<1>3. Fine(acc) /\ (Alive(cur) => Alive(acc))
  BY <1>1 DEF Fine, account_info_empty, Alive
<1>4. Extends(x, y) /\ Puts(x, y, a, acc)
  BY <1>1, <1>2, UpdatePuts
<1> HIDE DEF y
<1>5. acc.storage_cleared = Loaded(x, a).storage_cleared /\ (Alive(Loaded(x, a)) => Alive(acc))
  BY <1>3 DEF Current
<1>6. /\ Reaches(x, y) /\ LoadsAs(x, y, a, acc)
      /\ View(y) = [View(x) EXCEPT ![a] = Shown(acc, View(x)[a].storage, View(x)[a].orig)]
  BY <1>3, <1>4, <1>5, PutPlain
<1> QED BY <1>6 DEF Acts, y

(* k_selfdestruct.                                                         *)
LEMMA MarkedDoomed ==
  ASSUME NEW x, Overlaid(x), NEW a \in Addr
  PROVE  Acts(x, k_selfdestruct(x, a), [View(x) EXCEPT ![a].doomed = TRUE])
<1> DEFINE e == k_aload(x, a)
           cur == Loaded(e, a)
           acc == [cur EXCEPT !.selfdestructed = TRUE]
           y == k_selfdestruct(x, a)
<1>1. Reads(x, e) /\ acct_block_found(e, a) /\ Overlaid(e)
  BY Aload
<1>2. y = IF cur.selfdestructed THEN e ELSE acct_tx_update(e, a, acc)
  BY DEF k_selfdestruct
<1>3. Current(e, a, cur)
  BY DEF Current
<1> HIDE DEF e, cur, y
<1>4. /\ View(e) = View(x) /\ IsAccount(cur)
      /\ View(e)[a] = Shown(cur, View(e)[a].storage, View(e)[a].orig)
  BY <1>1, <1>3, CurrentIs DEF Reads
<1>5. /\ IsAccount(acc) /\ acc.selfdestructed = TRUE
      /\ acc.nonce = cur.nonce /\ acc.balance = cur.balance /\ acc.code = cur.code
      /\ acc.present = cur.present /\ acc.created = cur.created /\ acc.storage_cleared = cur.storage_cleared
  BY <1>4, BecomesDoomed
<1> HIDE DEF acc
<1> DEFINE shown == Shown(acc, View(e)[a].storage, View(e)[a].orig)
<1>6. [View(e)[a] EXCEPT !.doomed = TRUE] = shown
  <2>1. IsAccount(cur)
    BY <1>4
  <2>2. [Shown(cur, View(e)[a].storage, View(e)[a].orig) EXCEPT !.doomed = TRUE] = shown
    BY <2>1, BecomesShownDoomed, Zenon DEF acc
  <2> QED BY <1>4, <2>2, Zenon
<1>7. CASE ~cur.selfdestructed
  <2>1. Acts(e, y, [View(e) EXCEPT ![a] = shown])
    BY <1>1, <1>2, <1>3, <1>5, <1>7, FlagsPut
  <2>2. [View(x) EXCEPT ![a].doomed = TRUE] = [View(e) EXCEPT ![a] = shown]
    <3>1. [View(x) EXCEPT ![a].doomed = TRUE] = [View(e) EXCEPT ![a] = [View(e)[a] EXCEPT !.doomed = TRUE]]
      BY <1>4, Zenon
    <3> QED BY <1>6, <3>1
  <2> QED BY <1>1, <2>1, <2>2, ReadsActs DEF y
<1>8. CASE cur.selfdestructed
  <2>1. acc.selfdestructed = cur.selfdestructed
    BY <1>4, <1>5, <1>8 DEF IsAccount
  <2>2. shown = View(e)[a]
    BY <1>4, <1>5, <2>1 DEF Shown
  <2>3. [View(x) EXCEPT ![a].doomed = TRUE] = [View(e) EXCEPT ![a] = [View(e)[a] EXCEPT !.doomed = TRUE]]
    BY <1>4, Zenon
  <2>4. [View(x) EXCEPT ![a].doomed = TRUE] = View(e)
    BY <1>1, <1>6, <2>2, <2>3, SameWorld
  <2> QED BY <1>1, <1>2, <1>4, <1>8, <2>4 DEF Reads, Acts, y
<1> QED BY <1>7, <1>8

(* k_mark_created.                                                         *)
LEMMA MarkedCreated ==
  ASSUME NEW x, Overlaid(x), NEW a \in Addr
  PROVE  LET y == k_mark_created(x, a)
         IN /\ Acts(x, y, [View(x) EXCEPT ![a].created = TRUE])
            /\ View(y)[a] = [View(x)[a] EXCEPT !.created = TRUE]
<1> DEFINE e == k_aload(x, a)
           cur == Loaded(e, a)
           acc == [cur EXCEPT !.created = TRUE]
           y == k_mark_created(x, a)
<1>1. Reads(x, e) /\ acct_block_found(e, a) /\ Overlaid(e)
  BY Aload
<1>2. y = acct_tx_update(e, a, acc)
  BY DEF k_mark_created
<1>3. Current(e, a, cur)
  BY DEF Current
<1> HIDE DEF e, cur, y
<1>4. /\ View(e) = View(x) /\ IsAccount(cur)
      /\ View(e)[a] = Shown(cur, View(e)[a].storage, View(e)[a].orig)
  BY <1>1, <1>3, CurrentIs DEF Reads
<1>5. /\ IsAccount(acc) /\ acc.created = TRUE
      /\ acc.nonce = cur.nonce /\ acc.balance = cur.balance /\ acc.code = cur.code
      /\ acc.present = cur.present /\ acc.storage_cleared = cur.storage_cleared
  BY <1>4, BecomesCreated
<1> HIDE DEF acc
<1> DEFINE shown == Shown(acc, View(e)[a].storage, View(e)[a].orig)
<1>6. [View(e)[a] EXCEPT !.created = TRUE] = shown
  <2>1. IsAccount(cur)
    BY <1>4
  <2>2. [Shown(cur, View(e)[a].storage, View(e)[a].orig) EXCEPT !.created = TRUE] = shown
    BY <2>1, BecomesShownCreated, Zenon DEF acc
  <2> QED BY <1>4, <2>2, Zenon
<1>7. Acts(e, y, [View(e) EXCEPT ![a] = shown])
  BY <1>1, <1>2, <1>3, <1>5, FlagsPut
<1>8. [View(x) EXCEPT ![a].created = TRUE] = [View(e) EXCEPT ![a] = shown]
  <2>1. [View(x) EXCEPT ![a].created = TRUE] = [View(e) EXCEPT ![a] = [View(e)[a] EXCEPT !.created = TRUE]]
    BY <1>4, Zenon
  <2> QED BY <1>6, <2>1
<1>9. View(y)[a] = shown
  <2> HIDE DEF shown
  <2>1. View(y) = [View(e) EXCEPT ![a] = shown] /\ View(e) = [b \in Addr |-> View(e)[b]]
    BY <1>1, <1>7, ViewOf DEF Acts
  <2> QED BY <2>1
<1>10. View(y)[a] = [View(x)[a] EXCEPT !.created = TRUE]
  BY <1>4, <1>6, <1>9, Zenon
<1> QED BY <1>1, <1>7, <1>8, <1>10, ReadsActs DEF y

-----------------------------------------------------------------------------
(* The accounts of a world, field by field.                                *)
Entry(n, b, c, t, d, s, o) ==
  [nonce |-> n, balance |-> b, code |-> c, created |-> t, doomed |-> d, storage |-> s, orig |-> o]
WithNonce(r, v) == [r EXCEPT !.nonce = v]
Flagged(r, v) == [r EXCEPT !.created = v]
Stored(r, v) == [r EXCEPT !.storage = v]
Origin(r, v) == [r EXCEPT !.orig = v]
Bare(r, z) == [r EXCEPT !.storage = z, !.orig = z]

(* An account of the world, field by field.                                *)
LEMMA EntryFields ==
  ASSUME NEW n, NEW b, NEW c, NEW t, NEW d, NEW s, NEW o, NEW v
  PROVE  /\ Entry(n, b, c, t, d, s, o).nonce = n
         /\ WithNonce(Entry(n, b, c, t, d, s, o), v) = Entry(v, b, c, t, d, s, o)
         /\ Flagged(Entry(n, b, c, t, d, s, o), v) = Entry(n, b, c, v, d, s, o)
         /\ Stored(Entry(n, b, c, t, d, s, o), v) = Entry(n, b, c, t, d, v, o)
         /\ Origin(Entry(n, b, c, t, d, s, o), v) = Entry(n, b, c, t, d, s, v)
BY DEF Entry, WithNonce, Flagged, Stored, Origin

(* Giving an account its storage is setting the two fields one after the   *)
(* other.                                                                  *)
LEMMA BareSteps ==
  ASSUME NEW r, NEW z
  PROVE  Bare(r, z) = Origin(Stored(r, z), z)
BY Zenon DEF Bare, Stored, Origin

(* What an account shows whose storage is cleared.                         *)
LEMMA BareShown ==
  ASSUME NEW acc, NEW s, NEW o, NEW z
  PROVE  Bare(Shown(acc, s, o), z) = Shown(acc, z, z)
<1>1. \A u, v : Shown(acc, u, v)
                = Entry(acc.nonce, acc.balance, acc.code, acc.created, acc.selfdestructed, u, v)
  BY DEF Shown, Entry
<1> QED BY <1>1, BareSteps, EntryFields

(* k_clear_storage: the account starts anew, whatever its rows and the     *)
(* parent state hold.                                                      *)
LEMMA StorageCleared ==
  ASSUME NEW x, Overlaid(x), NEW a \in Addr, ~Alive(View(x)[a])
  PROVE  LET y == k_clear_storage(x, a)
         IN /\ Acts(x, y, [View(x) EXCEPT ![a] = Bare(View(x)[a], Zeros)])
            /\ View(y)[a] = Bare(View(x)[a], Zeros)
<1> DEFINE e == k_aload(x, a)
           cur == Loaded(e, a)
           acc == account_clear_storage(cur)
           y == k_clear_storage(x, a)
<1>1. Reads(x, e) /\ acct_block_found(e, a) /\ Overlaid(e)
  BY Aload
<1>2. y = acct_tx_update(storage_tx_clear(e, a), a, acc)
  BY DEF k_clear_storage
<1>3. Current(e, a, cur) /\ cur = Loaded(e, a)
  BY DEF Current
<1> HIDE DEF e, cur, y
<1>4. /\ View(e) = View(x) /\ Fine(cur) /\ IsAccount(cur)
      /\ View(e)[a] = Shown(cur, View(e)[a].storage, View(e)[a].orig)
      /\ View(e)[a].nonce = cur.nonce /\ View(e)[a].code = cur.code
  BY <1>1, <1>3, CurrentIs DEF Reads
<1>5. /\ IsAccount(acc) /\ acc.storage_cleared = TRUE
      /\ acc.nonce = cur.nonce /\ acc.balance = cur.balance /\ acc.code = cur.code
      /\ acc.present = cur.present /\ acc.created = cur.created /\ acc.selfdestructed = cur.selfdestructed
  BY <1>4, BecomesCleared DEF account_clear_storage
<1> HIDE DEF acc
<1>6. Fine(acc) /\ ~Alive(Loaded(e, a))
  BY <1>3, <1>4, <1>5 DEF Fine, Alive, account_info_empty
<1>7. Shaped(e) /\ AccountOK(e, a) /\ BlockOK(e)
  BY <1>1 DEF Overlaid
<1>8. IsAccount(acct_block_get(e, a))
  BY <1>1, <1>7, BaseFine DEF Base, Fine
<1>9. Extends(e, y) /\ Puts(Renewed(e, a), y, a, acc)
  BY <1>2, <1>5, <1>7, <1>8, ClearUpdatePuts DEF AccountOK
<1>10. ClearedAs(e, y, a, acc)
  <2>1. acc.storage_cleared = TRUE
    BY <1>5
  <2>2. acct_block_found(e, a) /\ Overlaid(e)
    BY <1>1
  <2> QED BY <1>6, <1>9, <2>1, <2>2, PutCleared
<1>11. Shown(acc, Zeros, Zeros) = Bare(View(x)[a], Zeros)
  <2>1. \A s, o : Shown(acc, s, o) = Shown(cur, s, o)
    BY <1>5 DEF Shown
  <2> QED BY <1>4, <2>1, BareShown
<1>12. View(y)[a] = Shown(acc, Zeros, Zeros)
  <2>1. View(e) = [b \in Addr |-> View(e)[b]]
    BY <1>1, ViewOf
  <2> QED BY <1>10, <2>1 DEF ClearedAs
<1>13. Acts(e, y, [View(x) EXCEPT ![a] = Bare(View(x)[a], Zeros)])
  BY <1>4, <1>10, <1>11 DEF Acts, ClearedAs
<1> QED BY <1>1, <1>11, <1>12, <1>13, ReadsActs DEF y

(* What an account becomes that is marked, cleared and given its nonce.    *)
Fresh(r, yes, z) == [r EXCEPT !.nonce = r.nonce + 1, !.created = yes, !.storage = z, !.orig = z]

(* The four fields, set one after the other.                               *)
LEMMA FreshSteps ==
  ASSUME NEW r, NEW yes, NEW z
  PROVE  Fresh(r, yes, z) = Origin(Stored(Flagged(WithNonce(r, r.nonce + 1), yes), z), z)
BY Zenon DEF Fresh, Stored, Origin, Flagged, WithNonce

(* Marking, clearing and bumping is setting the four fields at once.       *)
LEMMA FreshEntry ==
  ASSUME NEW acc, NEW s, NEW o, NEW yes, NEW z
  PROVE  LET r == Shown(acc, s, o)
             b == Bare(Flagged(r, yes), z)
         IN WithNonce(b, b.nonce + 1) = Fresh(r, yes, z)
<1> DEFINE e(n, t, u, v) == Entry(n, acc.balance, acc.code, t, acc.selfdestructed, u, v)
           k == acc.nonce + 1
<1>1. Shown(acc, s, o) = e(acc.nonce, acc.created, s, o)
  BY DEF Shown, Entry
<1>2. Bare(Flagged(Shown(acc, s, o), yes), z) = e(acc.nonce, yes, z, z)
  BY <1>1, BareSteps, EntryFields
<1>3. Fresh(Shown(acc, s, o), yes, z) = e(k, yes, z, z)
  BY <1>1, FreshSteps, EntryFields
<1> QED BY <1>2, <1>3, EntryFields

(* An account that Ledger lets be born is set in those fields.             *)
LEMMA NewbornFresh ==
  ASSUME NEW r
  PROVE  AsLedger!Newborn(r) = Fresh(r, TRUE, Zeros)
<1>1. AsLedger!NoStorage = Zeros
  BY DEF AsLedger!NoStorage, Zeros
<1> QED BY <1>1, Zenon DEF Fresh, AsLedger!Newborn

(* So the kernel's three calls make the account the ledger's newborn.      *)
LEMMA NewbornSteps ==
  ASSUME NEW r, \E acc, s, o : r = Shown(acc, s, o)
  PROVE  \A b : b = Bare([r EXCEPT !.created = TRUE], Zeros) =>
               [b EXCEPT !.nonce = b.nonce + 1] = AsLedger!Newborn(r)
<1>1. \A yes : LET b == Bare(Flagged(r, yes), Zeros)
               IN WithNonce(b, b.nonce + 1) = Fresh(r, yes, Zeros)
  <2>1. PICK acc, s, o : r = Shown(acc, s, o)
    OBVIOUS
  <2> QED BY <2>1, FreshEntry
<1>2. LET b == Bare(Flagged(r, TRUE), Zeros)
      IN WithNonce(b, b.nonce + 1) = Fresh(r, TRUE, Zeros)
  BY <1>1, Zenon
<1> QED BY <1>2, NewbornFresh, Zenon DEF Flagged, WithNonce

(* What EnterCreate does to the new account before the transfer.           *)
LEMMA Entered ==
  ASSUME NEW x, Overlaid(x), NEW a \in Addr, ~Alive(View(x)[a])
  PROVE  Acts(x, k_bump_nonce(k_clear_storage(k_mark_created(x, a), a), a),
              [View(x) EXCEPT ![a] = AsLedger!Newborn(View(x)[a])])
<1> DEFINE m == k_mark_created(x, a)
           c == k_clear_storage(m, a)
           y == k_bump_nonce(c, a)
           r == View(x)[a]
<1>1. View(x) = [b \in Addr |-> View(x)[b]] /\ r = Shown(Loaded(x, a), r.storage, r.orig)
  BY ViewOf
<1>2. Acts(x, m, [View(x) EXCEPT ![a].created = TRUE]) /\ View(m)[a] = [r EXCEPT !.created = TRUE]
  BY MarkedCreated
<1> HIDE DEF m
<1>3. Overlaid(m)
  BY <1>2 DEF Acts, Reaches
<1>4. ~Alive(View(m)[a])
  BY <1>1, <1>2 DEF Alive, Shown
<1>5. Acts(m, c, [View(m) EXCEPT ![a] = Bare(View(m)[a], Zeros)]) /\ View(c)[a] = Bare(View(m)[a], Zeros)
  BY <1>3, <1>4, StorageCleared
<1> HIDE DEF c
<1>6. Overlaid(c)
  BY <1>5 DEF Acts, Reaches
<1>7. Acts(c, y, AsLedger!Bump(View(c), a))
  BY <1>6, Bumped
<1>8. Acts(x, y, AsLedger!Bump(View(c), a))
  BY <1>2, <1>3, <1>5, <1>7, ActsStep
<1>9. AsLedger!Bump(View(c), a) = [View(x) EXCEPT ![a] = AsLedger!Newborn(r)]
  <2> DEFINE b == View(c)[a]
  <2>1. [b EXCEPT !.nonce = b.nonce + 1] = AsLedger!Newborn(r)
    <3>1. b = Bare([r EXCEPT !.created = TRUE], Zeros)
      BY <1>2, <1>5, Zenon
    <3>2. \E acc, s, o : r = Shown(acc, s, o)
      BY <1>1
    <3> HIDE DEF r
    <3>3. \A n : n = Bare([r EXCEPT !.created = TRUE], Zeros) =>
                [n EXCEPT !.nonce = n.nonce + 1] = AsLedger!Newborn(r)
      BY <3>2, NewbornSteps, Zenon
    <3> QED BY <3>1, <3>3, Zenon
  <2>2. AsLedger!Bump(View(c), a) = [View(c) EXCEPT ![a] = [b EXCEPT !.nonce = b.nonce + 1]]
    BY DEF AsLedger!Bump
  <2>3. /\ View(c) = [View(m) EXCEPT ![a] = Bare(View(m)[a], Zeros)]
        /\ View(m) = [View(x) EXCEPT ![a].created = TRUE]
    BY <1>2, <1>5 DEF Acts
  <2> DEFINE N == AsLedger!Newborn(r)
             B == Bare(View(m)[a], Zeros)
             M == [r EXCEPT !.created = TRUE]
  <2>4. AsLedger!Bump(View(c), a) = [View(c) EXCEPT ![a] = N]
    BY <2>1, <2>2
  <2>5. [View(x) EXCEPT ![a].created = TRUE] = [View(x) EXCEPT ![a] = M]
    OBVIOUS
  <2>6. View(m) = [View(x) EXCEPT ![a] = M] /\ View(c) = [View(m) EXCEPT ![a] = B]
    BY <2>3, <2>5
  <2> HIDE DEF N, B, M
  <2>7. [View(c) EXCEPT ![a] = N] = [View(x) EXCEPT ![a] = N]
    BY <1>1, <2>6
  <2> QED BY <2>4, <2>7 DEF N
<1> QED BY <1>8, <1>9 DEF y, c, m
(* EnterCreate.                                                            *)
LEMMA CreateEntered ==
  ASSUME NEW x, Overlaid(x), NEW creator \in Addr, NEW a \in Addr, NEW v \in Nat,
         v <= View(x)[creator].balance, ~Alive(View(x)[a])
  PROVE  /\ Acts(x, EnterCreate(x, creator, a, v), AsLedger!Born(View(x), creator, a, v))
         /\ creator \in EnterCreate(x, creator, a, v).bal.accounts
         /\ a \in EnterCreate(x, creator, a, v).bal.accounts
<1> DEFINE b == k_bump_nonce(k_clear_storage(k_mark_created(x, a), a), a)
           new == AsLedger!Newborn(View(x)[a])
           w == [View(x) EXCEPT ![a] = new]
<1>1. Acts(x, b, w)
  BY Entered
<1>2. EnterCreate(x, creator, a, v) = k_transfer(b, creator, a, v)
  BY DEF EnterCreate
<1>3. AsLedger!Born(View(x), creator, a, v) = AsLedger!Pay(w, creator, a, v)
  BY Zenon DEF AsLedger!Born
<1>4. new.balance = View(x)[a].balance
  <2>1. View(x)[a] = Shown(Loaded(x, a), View(x)[a].storage, View(x)[a].orig)
    BY ViewOf
  <2>2. \A acc, s, o, yes : Fresh(Shown(acc, s, o), yes, Zeros).balance = Shown(acc, s, o).balance
    BY DEF Fresh, Shown
  <2>3. \A yes : Fresh(View(x)[a], yes, Zeros).balance = View(x)[a].balance
    BY <2>1, <2>2
  <2>4. Fresh(View(x)[a], TRUE, Zeros).balance = View(x)[a].balance
    BY <2>3, Zenon
  <2>5. new = Fresh(View(x)[a], TRUE, Zeros)
    BY NewbornFresh, Zenon
  <2> QED BY <2>4, <2>5, Zenon
<1> HIDE DEF b, new
<1>5. Overlaid(b) /\ View(b) = w
  BY <1>1 DEF Acts, Reaches
<1>6. v <= View(b)[creator].balance
  <2>1. View(x) = [c \in Addr |-> View(x)[c]]
    BY ViewOf
  <2>2. View(b)[creator] = IF creator = a THEN new ELSE View(x)[creator]
    BY <1>5, <2>1
  <2> QED BY <1>4, <2>2
<1> HIDE DEF w
<1>7. /\ Acts(b, k_transfer(b, creator, a, v), AsLedger!Pay(w, creator, a, v))
      /\ creator \in k_transfer(b, creator, a, v).bal.accounts
      /\ a \in k_transfer(b, creator, a, v).bal.accounts
  BY <1>5, <1>6, Transferred
<1>8. Acts(x, k_transfer(b, creator, a, v), AsLedger!Pay(w, creator, a, v))
  BY <1>1, <1>7, ActsStep
<1> QED BY <1>2, <1>3, <1>7, <1>8

(* k_account_occupied.                                                     *)
LEMMA OccupiedIs ==
  ASSUME NEW x, Overlaid(x), NEW a \in Addr
  PROVE  k_account_occupied(x, a) <=> AsLedger!Occupied(View(x)[a])
<1> DEFINE acc == Loaded(x, a)
<1>1. /\ View(x)[a] = Shown(acc, Slots(x, a), Births(x, a))
      /\ acc.storage_cleared = (Base(x, a).storage_cleared \/ x.generations[a] # 0)
      /\ Alive(Base(x, a)) => Alive(acc)
  BY ViewIs, LoadedIs
<1>2. AsLedger!Occupied(View(x)[a]) <=> Alive(acc) \/ Slots(x, a) # Zeros
  BY <1>1 DEF AsLedger!Occupied, AsLedger!NoStorage, Zeros, Alive, Shown
<1>3. k_account_occupied(x, a) <=>
        Alive(acc) \/ (~acc.storage_cleared /\ Anchored(a)) \/ storage_has_writes(x, a)
  BY DEF k_account_occupied, Alive
<1> HIDE DEF acc
<1>4. ASSUME ~Alive(acc)
      PROVE  Slots(x, a) # Zeros <=> (~acc.storage_cleared /\ Anchored(a)) \/ storage_has_writes(x, a)
  <2>1. /\ StorageRows(x.storage_tx) /\ \A k \in Addr \X Slot : StorageOK(x, k)
        /\ BlockOK(x) /\ x.generations[a] \in Nat
    BY DEF Overlaid, Shaped
  <2>2. ASSUME NEW k \in Addr \X Slot, k[1] = a
        PROVE  ~Listed(x.storage_tx, k)
    BY <1>4, <2>1, <2>2 DEF StorageOK, acc
  <2>3. ASSUME NEW s \in Slot
        PROVE  Slots(x, a)[s] = IF acc.storage_cleared THEN 0 ELSE Parent[a].storage[s]
    <3>1. <<a, s>> \in Addr \X Slot /\ <<a, s>>[1] = a /\ <<a, s>>[2] = s
      OBVIOUS
    <3>2. SlotBase(x, <<a, s>>) = Anchor(x, <<a, s>>)
      BY <1>1, <1>4, <2>1, <3>1 DEF BlockOK
    <3>3. Slots(x, a)[s] = Born(x, <<a, s>>)
      BY <2>2, <3>1 DEF Slots
    <3> QED BY <1>1, <3>1, <3>2, <3>3 DEF Born, Anchor
  <2>4. Slots(x, a) # Zeros <=> ~acc.storage_cleared /\ Anchored(a)
    <3>1. Slots(x, a) = [s \in Slot |-> IF acc.storage_cleared THEN 0 ELSE Parent[a].storage[s]]
      BY <2>3 DEF Slots
    <3> QED BY <3>1 DEF Zeros, Anchored
  <2>5. storage_has_writes(x, a) => Slots(x, a) # Zeros
    <3>1. ~\E i \in 1 .. Len(x.storage_tx) : x.storage_tx[i].key[1] = a
      <4>1. ASSUME NEW i \in 1 .. Len(x.storage_tx), x.storage_tx[i].key[1] = a
            PROVE  FALSE
        BY <2>1, <2>2, <4>1, RowIs DEF StorageRows
      <4> QED BY <4>1
    <3>2. ASSUME x.generations[a] = 0, NEW k \in DOMAIN x.storage_block, k[1] = a, x.storage_block[k].curr # 0
          PROVE  Slots(x, a) # Zeros
      <4>1. PICK s \in Slot : k = <<a, s>>
        BY <2>1, <3>2 DEF BlockOK
      <4>2. Slots(x, a)[s] = Born(x, k)
        BY <2>2, <4>1 DEF Slots
      <4>3. Slots(x, a)[s] # 0
        BY <3>2, <4>1, <4>2 DEF Born, SlotBase
      <4> QED BY <4>3 DEF Zeros
    <3> QED BY <3>1, <3>2 DEF storage_has_writes, InitialGeneration
  <2> QED BY <2>4, <2>5
<1> QED BY <1>2, <1>3, <1>4

-----------------------------------------------------------------------------
(* What the operations of the ledger leave of an account.                  *)
IsEntry(r) == r = Entry(r.nonce, r.balance, r.code, r.created, r.doomed, r.storage, r.orig)
IsWorld(w) == w = [b \in Addr |-> w[b]] /\ \A b \in Addr : IsEntry(w[b])

(* Two accounts of a world that differ in balance and storage at most.     *)
SameSelf(p, q) == p.nonce = q.nonce /\ p.code = q.code /\ p.created = q.created /\ p.doomed = q.doomed

(* What a host shows is a world.                                           *)
LEMMA ViewWorld ==
  ASSUME NEW x, Overlaid(x)
  PROVE  IsWorld(View(x))
<1>1. View(x) = [b \in Addr |-> View(x)[b]]
  BY ViewOf
<1>2. ASSUME NEW b \in Addr
      PROVE  IsEntry(View(x)[b])
  <2>1. View(x)[b] = Shown(Loaded(x, b), View(x)[b].storage, View(x)[b].orig)
    BY ViewOf
  <2>2. \A acc, s, o : IsEntry(Shown(acc, s, o))
    BY DEF IsEntry, Shown, Entry
  <2> QED BY <2>1, <2>2
<1> QED BY <1>1, <1>2 DEF IsWorld

Valued(r, v) == [r EXCEPT !.balance = v]
Doomed(r, v) == [r EXCEPT !.doomed = v]

(* Replacing the balance or the doom of an account of the world.           *)
LEMMA EntryMore ==
  ASSUME NEW n, NEW b, NEW c, NEW t, NEW d, NEW s, NEW o, NEW v
  PROVE  LET r == Entry(n, b, c, t, d, s, o)
         IN /\ r.nonce = n /\ r.balance = b /\ r.code = c /\ r.created = t /\ r.doomed = d
            /\ r.storage = s /\ r.orig = o
            /\ Valued(r, v) = Entry(n, v, c, t, d, s, o)
            /\ Doomed(r, v) = Entry(n, b, c, t, v, s, o)
BY DEF Entry, Valued, Doomed

(* What becomes of an account when it may be empty.                        *)
LEMMA BareExist ==
  ASSUME NEW r
  PROVE  AsLedger!Exist(r) = IF r.nonce = 0 /\ r.balance = 0 /\ r.code = NoCode THEN Bare(r, Zeros) ELSE r
<1>1. AsLedger!NoStorage = Zeros
  BY DEF AsLedger!NoStorage, Zeros
<1> HIDE DEF Zeros
<1> QED BY <1>1, Zenon DEF AsLedger!Exist, AsLedger!Empty, Bare

(* The same, field by field.                                               *)
LEMMA ExistEntry ==
  ASSUME NEW n, NEW b, NEW c, NEW t, NEW d, NEW s, NEW o
  PROVE  AsLedger!Exist(Entry(n, b, c, t, d, s, o)) =
           IF n = 0 /\ b = 0 /\ c = NoCode THEN Entry(n, b, c, t, d, Zeros, Zeros)
           ELSE Entry(n, b, c, t, d, s, o)
<1> DEFINE r == Entry(n, b, c, t, d, s, o)
<1>1. r.nonce = n /\ r.balance = b /\ r.code = c
  BY EntryMore
<1>2. Bare(r, Zeros) = Entry(n, b, c, t, d, Zeros, Zeros)
  BY BareSteps, EntryFields
<1> HIDE DEF r
<1>3. AsLedger!Exist(r) = IF r.nonce = 0 /\ r.balance = 0 /\ r.code = NoCode THEN Bare(r, Zeros) ELSE r
  BY BareExist
<1> QED BY <1>1, <1>2, <1>3 DEF r

(* An account that loses a part of its balance.                            *)
Poorer(r, v) == AsLedger!Exist(Valued(r, r.balance - v))

(* Losing balance leaves nonce, code and flags.                            *)
LEMMA PoorerKeeps ==
  ASSUME NEW r, IsEntry(r), NEW v
  PROVE  IsEntry(Poorer(r, v)) /\ SameSelf(Poorer(r, v), r)
<1> DEFINE b == r.balance - v
<1>1. Valued(r, b) = Entry(r.nonce, b, r.code, r.created, r.doomed, r.storage, r.orig)
  <2> HIDE DEF b
  <2> QED BY EntryMore DEF IsEntry
<1> HIDE DEF b
<1>2. \E s, o : AsLedger!Exist(Valued(r, b)) = Entry(r.nonce, b, r.code, r.created, r.doomed, s, o)
  BY <1>1, ExistEntry
<1>3. \E s, o : Poorer(r, v) = Entry(r.nonce, b, r.code, r.created, r.doomed, s, o)
  BY <1>2 DEF Poorer, b
<1> QED BY <1>3, EntryMore DEF IsEntry, SameSelf

(* Doom and loss of balance commute.                                       *)
LEMMA DoomedPoorer ==
  ASSUME NEW r, IsEntry(r), NEW v, NEW yes
  PROVE  Poorer(Doomed(r, yes), v) = Doomed(Poorer(r, v), yes) /\ Doomed(r, yes).balance = r.balance
<1> DEFINE b == r.balance - v
           e(d, s, o) == Entry(r.nonce, b, r.code, r.created, d, s, o)
<1>1. Doomed(r, yes).balance = r.balance
  BY EntryMore DEF IsEntry
<1>2. /\ Valued(r, b) = e(r.doomed, r.storage, r.orig)
      /\ Valued(Doomed(r, yes), b) = e(yes, r.storage, r.orig)
  <2> HIDE DEF b
  <2> QED BY EntryMore DEF IsEntry
<1>3. Poorer(Doomed(r, yes), v) = AsLedger!Exist(Valued(Doomed(r, yes), b))
      /\ Poorer(r, v) = AsLedger!Exist(Valued(r, b))
  BY <1>1 DEF Poorer
<1> HIDE DEF b
<1> QED BY <1>1, <1>2, <1>3, ExistEntry, EntryMore

(* A debit of the ledger is the loss of one account.                       *)
LEMMA DebitIs ==
  ASSUME NEW w, NEW a, NEW v
  PROVE  AsLedger!Debit(w, a, v) = IF v = 0 THEN w ELSE [w EXCEPT ![a] = Poorer(w[a], v)]
BY Zenon DEF AsLedger!Debit, Poorer, Valued

(* A debit leaves nonces, codes and flags.                                 *)
LEMMA DebitKeeps ==
  ASSUME NEW w, IsWorld(w), NEW a \in Addr, NEW v
  PROVE  LET p == AsLedger!Debit(w, a, v)
         IN IsWorld(p) /\ \A b \in Addr : SameSelf(p[b], w[b])
<1> DEFINE p == AsLedger!Debit(w, a, v)
<1>1. p = IF v = 0 THEN w ELSE [w EXCEPT ![a] = Poorer(w[a], v)]
  BY DebitIs
<1>2. IsEntry(Poorer(w[a], v)) /\ SameSelf(Poorer(w[a], v), w[a])
  BY PoorerKeeps DEF IsWorld
<1> HIDE DEF p
<1>3. \A b \in Addr : SameSelf(w[b], w[b])
  BY DEF SameSelf
<1> QED BY <1>1, <1>2, <1>3 DEF IsWorld, p

(* So does a credit.                                                       *)
LEMMA CreditKeeps ==
  ASSUME NEW w, IsWorld(w), NEW a \in Addr, NEW v
  PROVE  LET p == AsLedger!Credit(w, a, v)
         IN IsWorld(p) /\ \A b \in Addr : SameSelf(p[b], w[b])
<1> DEFINE p == AsLedger!Credit(w, a, v)
           u == w[a].balance + v
<1>1. p = [w EXCEPT ![a] = Valued(w[a], u)]
  BY Zenon DEF AsLedger!Credit, Valued
<1> HIDE DEF p, u
<1>2. IsEntry(Valued(w[a], u)) /\ SameSelf(Valued(w[a], u), w[a])
  BY EntryMore DEF IsWorld, IsEntry, SameSelf
<1>3. \A b \in Addr : SameSelf(w[b], w[b])
  BY DEF SameSelf
<1> QED BY <1>1, <1>2, <1>3 DEF IsWorld, p

(* And so does a payment.                                                  *)
LEMMA PayKeeps ==
  ASSUME NEW w, IsWorld(w), NEW src \in Addr, NEW dst \in Addr, NEW v
  PROVE  LET p == AsLedger!Pay(w, src, dst, v)
         IN IsWorld(p) /\ \A b \in Addr : SameSelf(p[b], w[b])
<1> DEFINE q == AsLedger!Debit(w, src, v)
           p == AsLedger!Credit(q, dst, v)
<1>1. IsWorld(q) /\ \A b \in Addr : SameSelf(q[b], w[b])
  BY DebitKeeps
<1>2. AsLedger!Pay(w, src, dst, v) = IF src = dst THEN w ELSE p
  BY DEF AsLedger!Pay
<1> HIDE DEF q
<1>3. IsWorld(p) /\ \A b \in Addr : SameSelf(p[b], q[b])
  BY <1>1, CreditKeeps
<1> HIDE DEF p
<1>4. \A b \in Addr : SameSelf(w[b], w[b]) /\ SameSelf(p[b], w[b])
  BY <1>1, <1>3 DEF SameSelf
<1> QED BY <1>2, <1>3, <1>4

-----------------------------------------------------------------------------
(* Self-destruction.                                                       *)
Dooms(w, a, yes) == [w EXCEPT ![a] = Doomed(w[a], yes)]

(* Marking the account and burning its balance may be done in either       *)
(* order: the kernel burns first.                                          *)
LEMMA DoomThenDebit ==
  ASSUME NEW p, IsWorld(p), NEW a \in Addr, NEW yes
  PROVE  LET doom == Dooms(p, a, yes)
         IN AsLedger!Debit(doom, a, doom[a].balance) = Dooms(AsLedger!Debit(p, a, p[a].balance), a, yes)
<1> DEFINE v == p[a].balance
           doom == Dooms(p, a, yes)
           rest == AsLedger!Debit(p, a, v)
           last == AsLedger!Debit(doom, a, v)
<1>1. /\ Poorer(Doomed(p[a], yes), v) = Doomed(Poorer(p[a], v), yes)
      /\ Doomed(p[a], yes).balance = v
  BY DoomedPoorer DEF IsWorld
<1>2. /\ rest = IF v = 0 THEN p ELSE [p EXCEPT ![a] = Poorer(p[a], v)]
      /\ last = IF v = 0 THEN doom ELSE [doom EXCEPT ![a] = Poorer(doom[a], v)]
  BY DebitIs
<1>3. p = [b \in Addr |-> p[b]]
  BY DEF IsWorld
<1>4. doom[a] = Doomed(p[a], yes) /\ doom[a].balance = v /\ DOMAIN doom = Addr
      /\ \A c \in Addr \ {a} : doom[c] = p[c]
  BY <1>1, <1>3 DEF Dooms
<1> HIDE DEF v, doom, rest, last
<1>5. ASSUME v = 0 PROVE last = Dooms(rest, a, yes)
  BY <1>2, <1>5 DEF doom
<1>6. ASSUME v # 0 PROVE last = Dooms(rest, a, yes)
  <2>1. rest = [p EXCEPT ![a] = Poorer(p[a], v)] /\ last = [doom EXCEPT ![a] = Doomed(Poorer(p[a], v), yes)]
    BY <1>1, <1>2, <1>4, <1>6
  <2> DEFINE r == Poorer(p[a], v)
             q == Doomed(r, yes)
             final == Dooms(rest, a, yes)
  <2>2. rest[a] = r /\ DOMAIN rest = Addr /\ \A c \in Addr \ {a} : rest[c] = p[c]
    BY <1>3, <2>1
  <2>3. final = [rest EXCEPT ![a] = q]
    BY <2>2 DEF Dooms
  <2>4. rest = [p EXCEPT ![a] = r] /\ last = [doom EXCEPT ![a] = q]
    BY <2>1
  <2> HIDE DEF r, q, final
  <2>5. final = [c \in Addr |-> IF c = a THEN q ELSE p[c]]
    BY <2>2, <2>3, <2>4, <1>3
  <2>6. doom = [c \in Addr |-> doom[c]]
    BY <1>3 DEF doom, Dooms
  <2>7. last = [c \in Addr |-> IF c = a THEN q ELSE p[c]]
    BY <1>4, <2>4, <2>6
  <2> QED BY <2>5, <2>7 DEF final
<1>7. last = Dooms(rest, a, yes)
  BY <1>5, <1>6
<1> QED BY <1>4, <1>7 DEF rest, last, doom, v

(* execute_selfdestruct.                                                   *)
LEMMA Destructed ==
  ASSUME NEW x, Overlaid(x), NEW a \in Addr, NEW b \in Addr, fork \in DOMAIN Blocks
  PROVE  Acts(x, execute_selfdestruct(x, a, b), AsLedger!Destruct(View(x), a, b))
<1> DEFINE l == k_aload(x, b)
           v == Loaded(x, a).balance
           e == k_transfer(l, a, b, v)
           z == k_zero_balance(e, a)
           y == execute_selfdestruct(x, a, b)
           w == View(x)
           paid == AsLedger!Pay(w, a, b, w[a].balance)
           rest == AsLedger!Debit(paid, a, paid[a].balance)
           doom == [paid EXCEPT ![a].doomed = TRUE]
<1>1. Reads(x, l) /\ Overlaid(l) /\ View(l) = w /\ v \in Nat /\ v = w[a].balance
  BY Aload, ViewOf DEF Reads
<1>2. y = IF delete_only_created /\ ~Loaded(e, a).created THEN e
          ELSE IF fork = "Amsterdam" THEN k_selfdestruct(e, a) ELSE k_selfdestruct(z, a)
  BY DEF execute_selfdestruct
<1>3. AsLedger!Destruct(w, a, b) = IF fork # "Shanghai" /\ ~w[a].created THEN paid
                                   ELSE IF fork = "Amsterdam" THEN doom
                                   ELSE AsLedger!Debit(doom, a, doom[a].balance)
  BY Zenon DEF AsLedger!Destruct
<1> HIDE DEF l, v, e, z, y
<1>4. Acts(l, e, AsLedger!Pay(View(l), a, b, v))
  <2>1. v <= View(l)[a].balance
    BY <1>1
  <2> QED BY <1>1, <2>1, Transferred DEF e
<1>5. Acts(x, e, paid) /\ Overlaid(e) /\ View(e) = paid
  BY <1>1, <1>4, ReadsActs DEF Acts, Reaches
<1> HIDE DEF w
<1>6. IsWorld(paid) /\ SameSelf(paid[a], w[a])
  BY <1>1, <1>5, ViewWorld, PayKeeps DEF w
<1>7. Loaded(e, a).created = w[a].created
  BY <1>5, <1>6, ViewOf DEF SameSelf
<1>8. /\ fork # "Shanghai" <=> delete_only_created
      /\ fork = "Amsterdam" => delete_only_created
  BY ForkAssumption DEF delete_only_created
<1>9. CASE delete_only_created /\ ~w[a].created
  BY <1>2, <1>3, <1>5, <1>7, <1>8, <1>9 DEF w, y
<1>10. CASE ~(delete_only_created /\ ~w[a].created) /\ fork = "Amsterdam"
  <2>1. y = k_selfdestruct(e, a) /\ AsLedger!Destruct(w, a, b) = doom
    BY <1>2, <1>3, <1>7, <1>8, <1>10
  <2>2. Acts(e, y, [View(e) EXCEPT ![a].doomed = TRUE])
    BY <1>5, <2>1, MarkedDoomed
  <2>3. [View(e) EXCEPT ![a].doomed = TRUE] = doom
    BY <1>5, Zenon
  <2>4. Acts(x, y, AsLedger!Destruct(w, a, b))
    <3>1. Acts(e, y, AsLedger!Destruct(w, a, b))
      BY <2>1, <2>2, <2>3, Zenon
    <3> QED BY <1>5, <3>1, ActsStep
  <2> QED BY <2>4 DEF w, y
<1>11. CASE ~(delete_only_created /\ ~w[a].created) /\ fork # "Amsterdam"
  <2>1. y = k_selfdestruct(z, a) /\ AsLedger!Destruct(w, a, b) = AsLedger!Debit(doom, a, doom[a].balance)
    BY <1>2, <1>3, <1>7, <1>8, <1>11
  <2>2. Acts(e, z, rest)
    BY <1>5, Zeroed DEF z
  <2>3. Overlaid(z) /\ View(z) = rest
    BY <2>2 DEF Acts, Reaches
  <2>4. Acts(z, y, [View(z) EXCEPT ![a].doomed = TRUE])
    BY <2>1, <2>3, MarkedDoomed
  <2>5. [View(z) EXCEPT ![a].doomed = TRUE] = AsLedger!Debit(doom, a, doom[a].balance)
    <3>1. doom = Dooms(paid, a, TRUE)
      BY Zenon DEF Doomed, Dooms
    <3> HIDE DEF doom, paid
    <3>2. \A yes : AsLedger!Debit(Dooms(paid, a, yes), a, Dooms(paid, a, yes)[a].balance) = Dooms(rest, a, yes)
      BY <1>6, DoomThenDebit
    <3>3. [View(z) EXCEPT ![a].doomed = TRUE] = Dooms(rest, a, TRUE)
      BY <2>3, Zenon DEF Doomed, Dooms
    <3> QED BY <3>1, <3>2, <3>3, Zenon
  <2>6. Acts(z, y, AsLedger!Destruct(w, a, b))
    BY <2>1, <2>4, <2>5, Zenon
  <2>7. Acts(x, z, rest)
    BY <1>5, <2>2, ActsStep
  <2>8. Acts(x, y, AsLedger!Destruct(w, a, b))
    BY <2>6, <2>7, ActsStep
  <2> QED BY <2>8 DEF w, y
<1> QED BY <1>9, <1>10, <1>11

-----------------------------------------------------------------------------
(* The scopes.                                                             *)
ScopesOf(d) == OpenScopes(d.journal)
At(d, p) == Undone(d)[ScopesOf(d)[p]]

(* The host is in order, and so is what it would go back to at each scope. *)
Good(d) == Overlaid(d) /\ \A p \in 1 .. Len(ScopesOf(d)) : Overlaid(At(d, p))

(* The open scopes are places of the journal.                              *)
LEMMA ScopesAre ==
  ASSUME NEW d, IsSeq(d.journal)
  PROVE  /\ ScopesOf(d) \in Seq(1 .. Len(d.journal)) /\ Len(ScopesOf(d)) \in Nat
         /\ Len(d.journal) \in Nat
         /\ \A p \in 1 .. Len(ScopesOf(d)) : ScopesOf(d)[p] \in 1 .. Len(d.journal)
<1>1. Len(d.journal) \in Nat /\ Len(d.journal) \in 0 .. Len(d.journal)
  BY SeqDomain
<1>2. Stacked(d.journal, Len(d.journal))
  BY <1>1, OpenStacked
<1> QED BY <1>1, <1>2 DEF Stacked, ScopesOf, OpenScopes

(* What is left alone does not depend on the tables that are restored.     *)
LEMMA GrowsRest ==
  ASSUME NEW x, NEW y, Grows(x, y), NEW u, SameRest(u, x), NEW v, SameRest(v, y)
  PROVE  Grows(u, v) /\ (BlockOK(y) => BlockOK(v))
<1>1. \A a : Base(u, a) = Base(x, a) /\ Base(v, a) = Base(y, a)
  BY DEF Base, acct_block_found, acct_block_get, SameRest
<1>2. \A k : Anchor(u, k) = Anchor(x, k) /\ Anchor(v, k) = Anchor(y, k)
  BY <1>1 DEF Anchor
<1>3. \A k : SlotBase(u, k) = SlotBase(x, k) /\ SlotBase(v, k) = SlotBase(y, k)
  BY <1>2 DEF SlotBase, SameRest
<1> QED BY <1>1, <1>2, <1>3 DEF Grows, BlockOK, SameRest

(* The journal stays while its entries are undone.                         *)
LEMMA UndoneSeq ==
  ASSUME NEW d, Overlaid(d), NEW n \in 0 .. Len(d.journal)
  PROVE  /\ IsHost(Undone(d)[n]) /\ SameRest(Undone(d)[n], d) /\ IsSeq(Undone(d)[n].journal)
         /\ Undone(d)[n].next_generation \in Nat /\ BlockOK(Undone(d)[n])
<1>1. IsHost(d) /\ IsSeq(d.journal) /\ d.next_generation \in Nat /\ BlockOK(d) /\ Len(d.journal) \in Nat
  BY SeqDomain DEF Overlaid, Shaped
<1>2. IsHost(Undone(d)[n]) /\ SameRest(Undone(d)[n], d)
  BY <1>1, UndoneHost
<1>3. Grows(d, d)
  BY DEF Grows
<1>4. SameRest(d, d)
  BY DEF SameRest
<1>5. BlockOK(Undone(d)[n])
  BY <1>1, <1>2, <1>3, <1>4, GrowsRest
<1> QED BY <1>1, <1>2, <1>5 DEF SameRest

(* Cutting the journal of a host to nothing but what it goes back to.      *)
LEMMA UndoToIs ==
  ASSUME NEW d, Overlaid(d), NEW m \in 1 .. Len(d.journal), Overlaid(Undone(d)[m])
  PROVE  LET v == UndoTo(d, m)
         IN /\ Overlaid(v) /\ View(v) = View(Undone(d)[m])
            /\ v.journal = SubSeq(d.journal, 1, m - 1) /\ SameTables(v, Undone(d)[m])
            /\ v.bal = d.bal /\ v.account_block = d.account_block /\ v.storage_block = d.storage_block
            /\ \A a \in Addr : Loaded(v, a) = Loaded(Undone(d)[m], a)
<1> DEFINE u == Undone(d)[m]
           v == UndoTo(d, m)
           j == SubSeq(d.journal, 1, m - 1)
<1>1. IsSeq(d.journal) /\ Len(d.journal) \in Nat /\ m \in 0 .. Len(d.journal) /\ m - 1 \in 0 .. Len(d.journal)
  BY SeqDomain DEF Overlaid, Shaped
<1>2. IsHost(u) /\ SameRest(u, d) /\ u.next_generation \in Nat /\ BlockOK(u)
  BY <1>1, UndoneSeq
<1>3. IsSeq(j)
  BY <1>1, SeqCut
<1>4. v = [u EXCEPT !.journal = j]
  BY Zenon DEF UndoTo
<1> HIDE DEF u, v, j
<1>5. /\ IsHost(v) /\ v.journal = j /\ v.next_generation = u.next_generation /\ SameTables(u, v)
      /\ v.account_block = u.account_block /\ v.storage_block = u.storage_block /\ v.bal = u.bal
  BY <1>2, <1>4 DEF IsHost, SameTables
<1>6. Grows(u, v) /\ BlockOK(v)
  BY <1>2, <1>5, SameGrows
<1>7. Overlaid(u)
  BY DEF u
<1>8. Overlaid(v)
  BY <1>2, <1>3, <1>5, <1>6, <1>7, Carry
<1>9. View(v) = View(u) /\ \A a \in Addr : Loaded(v, a) = Loaded(u, a)
  BY <1>5, <1>6, <1>7, <1>8, SameView
<1> QED BY <1>2, <1>5, <1>8, <1>9 DEF u, v, j, SameRest, SameTables

(* The worlds the scopes go back to, read off the tables undone so far.    *)
LEMMA SavedIs ==
  ASSUME NEW d, Good(d)
  PROVE  SavedViews(d) = [p \in 1 .. Len(ScopesOf(d)) |-> View(At(d, p))]
<1>1. Overlaid(d) /\ IsSeq(d.journal)
  BY DEF Good, Overlaid, Shaped
<1>2. ASSUME NEW p \in 1 .. Len(ScopesOf(d))
      PROVE  View(UndoTo(d, ScopesOf(d)[p])) = View(At(d, p))
  <2>1. ScopesOf(d)[p] \in 1 .. Len(d.journal)
    BY <1>1, ScopesAre
  <2> QED BY <1>1, <2>1, UndoToIs DEF Good, At
<1>3. SavedViews(d) = [p \in 1 .. Len(ScopesOf(d)) |-> View(UndoTo(d, ScopesOf(d)[p]))]
  BY DEF SavedViews, ScopesOf
<1> QED BY <1>2, <1>3

(* Two hosts with the same tables at a place of both their journals.       *)
LEMMA SameAt ==
  ASSUME NEW x, Overlaid(x), NEW y, Overlaid(y), Grows(x, y), NEW m \in Nat, m <= Len(x.journal), m <= Len(y.journal),
         NEW n \in Nat, n <= Len(y.journal), n <= Len(y.journal),
         SameTables(Undone(x)[m], Undone(y)[n]), Overlaid(Undone(x)[m])
  PROVE  Overlaid(Undone(y)[n]) /\ View(Undone(y)[n]) = View(Undone(x)[m])
<1>1. Len(x.journal) \in Nat /\ Len(y.journal) \in Nat
  BY SeqDomain DEF Overlaid, Shaped
<1>2. /\ SameRest(Undone(x)[m], x)
      /\ IsHost(Undone(y)[n]) /\ SameRest(Undone(y)[n], y) /\ IsSeq(Undone(y)[n].journal)
      /\ Undone(y)[n].next_generation \in Nat /\ BlockOK(Undone(y)[n])
  <2>1. m \in 0 .. Len(x.journal) /\ n \in 0 .. Len(y.journal)
    BY <1>1
  <2> QED BY <2>1, UndoneSeq
<1>3. Grows(Undone(x)[m], Undone(y)[n])
  BY <1>2, GrowsRest
<1>4. Overlaid(Undone(y)[n])
  BY <1>2, <1>3, Carry
<1> QED BY <1>3, <1>4, SameView

(* A step within a scope leaves what the scopes go back to.                *)
LEMMA GoodReaches ==
  ASSUME NEW x, Good(x), NEW y, Reaches(x, y)
  PROVE  Good(y) /\ SavedViews(y) = SavedViews(x) /\ Len(ScopesOf(y)) = Len(ScopesOf(x))
<1>1. Overlaid(x) /\ Overlaid(y) /\ Extends(x, y) /\ Grows(x, y) /\ IsSeq(x.journal) /\ IsSeq(y.journal)
  BY DEF Good, Reaches, Overlaid, Shaped
<1>2. ScopesOf(y) = ScopesOf(x) /\ Len(x.journal) <= Len(y.journal) /\ Len(x.journal) \in Nat /\ Len(y.journal) \in Nat
  BY <1>1, SeqDomain DEF Extends, ScopesOf
<1>3. ASSUME NEW p \in 1 .. Len(ScopesOf(x))
      PROVE  Overlaid(At(y, p)) /\ View(At(y, p)) = View(At(x, p))
  <2> DEFINE m == ScopesOf(x)[p]
  <2>1. m \in 1 .. Len(x.journal)
    BY <1>1, ScopesAre
  <2>2. Overlaid(Undone(x)[m]) /\ SameTables(Undone(x)[m], Undone(y)[m])
    BY <1>1, <1>2, <2>1 DEF Good, At, Extends
  <2> HIDE DEF m
  <2>3. m \in Nat /\ m <= Len(x.journal) /\ m <= Len(y.journal)
    BY <1>2, <2>1
  <2>4. Overlaid(Undone(y)[m]) /\ View(Undone(y)[m]) = View(Undone(x)[m])
    BY <1>1, <2>2, <2>3, SameAt
  <2> QED BY <1>2, <2>4 DEF At, m
<1>4. Good(y)
  BY <1>1, <1>2, <1>3 DEF Good
<1> QED BY <1>2, <1>3, <1>4, SavedIs

(* A host that has journalled an entry that restores nothing.              *)
Marks(x, y, tag) ==
  /\ IsHost(y) /\ SameTables(x, y) /\ y.next_generation = x.next_generation
  /\ y.account_block = x.account_block /\ y.storage_block = x.storage_block /\ y.bal = x.bal
  /\ y.journal = Append(x.journal, [tag |-> tag, key |-> NoPrior, prior |-> NoPrior])

(* Pushing a checkpoint or a commit is such a step.                        *)
LEMMA PushMarks ==
  ASSUME NEW x, IsHost(x), NEW tag
  PROVE  Marks(x, Push(x, tag, NoPrior, NoPrior), tag)
<1> DEFINE j == Append(x.journal, [tag |-> tag, key |-> NoPrior, prior |-> NoPrior])
           y == Push(x, tag, NoPrior, NoPrior)
<1>1. y = [x EXCEPT !.journal = j]
  BY DEF Push
<1> HIDE DEF y, j
<1>2. /\ IsHost(y) /\ SameTables(x, y) /\ y.next_generation = x.next_generation
      /\ y.account_block = x.account_block /\ y.storage_block = x.storage_block /\ y.bal = x.bal
      /\ y.journal = j
  BY <1>1 DEF IsHost, SameTables
<1> QED BY <1>2 DEF Marks, y, j

(* It changes no account and no slot, and the earlier places keep their    *)
(* tables.                                                                 *)
LEMMA Marked ==
  ASSUME NEW x, Good(x), NEW tag \in {"Checkpointed", "Committed"}, NEW y, Marks(x, y, tag)
  PROVE  /\ Overlaid(y) /\ View(y) = View(x) /\ Grows(x, y) /\ y.bal = x.bal
         /\ \A a \in Addr : Loaded(y, a) = Loaded(x, a)
         /\ \A n \in 0 .. Len(x.journal) : SameTables(Undone(x)[n], Undone(y)[n])
         /\ Undone(y)[Len(x.journal) + 1] = y
         /\ Len(y.journal) = Len(x.journal) + 1
         /\ Len(x.journal) \in Nat
<1> DEFINE e == [tag |-> tag, key |-> NoPrior, prior |-> NoPrior]
<1>1. Overlaid(x) /\ IsHost(x) /\ IsSeq(x.journal) /\ BlockOK(x) /\ x.next_generation \in Nat
  BY DEF Good, Overlaid, Shaped
<1>2. Grows(x, y) /\ BlockOK(y)
  BY <1>1, SameGrows DEF Marks
<1>3. /\ y.journal = Append(x.journal, e) /\ IsSeq(y.journal) /\ Len(y.journal) = Len(x.journal) + 1
      /\ Len(x.journal) \in Nat
  BY <1>1, SeqAppend, SeqDomain DEF Marks
<1>4. Overlaid(y)
  BY <1>1, <1>2, <1>3, Carry DEF Marks
<1>5. View(y) = View(x) /\ \A a \in Addr : Loaded(y, a) = Loaded(x, a)
  BY <1>1, <1>2, <1>4, SameView DEF Marks
<1>6. SameTables(_journal_restore(y, e), x)
  <2>1. tag \notin AccountFields /\ e.tag = tag
        /\ tag \notin {"AccountListed", "StorageListed", "StorageValue", "RowGeneration", "AccountGeneration"}
    BY DEF AccountFields
  <2> HIDE DEF e
  <2>2. _journal_restore(y, e) = y
    BY <2>1 DEF _journal_restore
  <2> QED BY <2>2 DEF Marks, SameTables
<1>7. \A n \in 0 .. Len(x.journal) : SameTables(Undone(x)[n], Undone(y)[n])
  <2> HIDE DEF e
  <2> QED BY <1>1, <1>3, <1>6, UndonePush DEF Marks
<1>8. Undone(y)[Len(x.journal) + 1] = y
  <2>1. Len(y.journal) \in Nat
    BY <1>3
  <2> QED BY <1>3, <2>1, UndoneUnfolds
<1> QED BY <1>2, <1>3, <1>4, <1>5, <1>7, <1>8 DEF Marks

(* state_journal_checkpoint.                                               *)
LEMMA Checkpointed ==
  ASSUME NEW x, Good(x)
  PROVE  LET y == state_journal_checkpoint(x)
         IN /\ Good(y) /\ View(y) = View(x) /\ Grows(x, y) /\ SavedViews(y) = Append(SavedViews(x), View(x))
            /\ Len(ScopesOf(y)) = Len(ScopesOf(x)) + 1
            /\ \A a \in Addr : Loaded(y, a) = Loaded(x, a)
<1> DEFINE y == state_journal_checkpoint(x)
           e == [tag |-> "Checkpointed", key |-> NoPrior, prior |-> NoPrior]
           k == Len(ScopesOf(x))
<1>1. Overlaid(x) /\ IsHost(x) /\ IsSeq(x.journal) /\ \A p \in 1 .. k : Overlaid(At(x, p))
  BY DEF Good, Overlaid, Shaped
<1>2. Marks(x, y, "Checkpointed")
  BY <1>1, PushMarks DEF state_journal_checkpoint
<1> HIDE DEF y
<1>3. /\ Overlaid(y) /\ View(y) = View(x) /\ Grows(x, y)
      /\ \A a \in Addr : Loaded(y, a) = Loaded(x, a)
      /\ \A n \in 0 .. Len(x.journal) : SameTables(Undone(x)[n], Undone(y)[n])
      /\ Undone(y)[Len(x.journal) + 1] = y /\ Len(y.journal) = Len(x.journal) + 1
      /\ Len(x.journal) \in Nat
  BY <1>2, Marked
<1>4. ScopesOf(y) = Append(ScopesOf(x), Len(x.journal) + 1)
  <2>1. y.journal = Append(x.journal, e) /\ e.tag = "Checkpointed"
    BY <1>2 DEF Marks
  <2> HIDE DEF e
  <2> QED BY <1>1, <2>1, OpenPush DEF ScopesOf
<1>5. /\ ScopesOf(x) \in Seq(1 .. Len(x.journal)) /\ k \in Nat
      /\ \A p \in 1 .. k : ScopesOf(x)[p] \in 1 .. Len(x.journal)
  BY <1>1, ScopesAre
<1>6. /\ Len(ScopesOf(y)) = k + 1 /\ ScopesOf(y)[k + 1] = Len(x.journal) + 1
      /\ \A p \in 1 .. k : ScopesOf(y)[p] = ScopesOf(x)[p]
  BY <1>4, <1>5
<1>7. ASSUME NEW p \in 1 .. k
      PROVE  Overlaid(At(y, p)) /\ View(At(y, p)) = View(At(x, p))
  <2> DEFINE m == ScopesOf(x)[p]
  <2>1. m \in 1 .. Len(x.journal)
    BY <1>5
  <2>2. Overlaid(Undone(x)[m]) /\ SameTables(Undone(x)[m], Undone(y)[m])
    BY <1>1, <1>3, <2>1 DEF At
  <2> HIDE DEF m
  <2>3. m \in Nat /\ m <= Len(x.journal) /\ m <= Len(y.journal)
    BY <1>3, <2>1
  <2>4. Overlaid(Undone(y)[m]) /\ View(Undone(y)[m]) = View(Undone(x)[m])
    BY <1>1, <1>3, <2>2, <2>3, SameAt
  <2> QED BY <1>6, <2>4 DEF At, m
<1>8. At(y, k + 1) = y
  BY <1>3, <1>6 DEF At
<1> HIDE DEF k
<1>9. ASSUME NEW p \in 1 .. Len(ScopesOf(y))
      PROVE  Overlaid(At(y, p)) /\ View(At(y, p)) = IF p = k + 1 THEN View(x) ELSE View(At(x, p))
  BY <1>3, <1>5, <1>6, <1>7, <1>8
<1>10. Good(y)
  BY <1>3, <1>9 DEF Good
<1>11. /\ SavedViews(x) = [p \in 1 .. k |-> View(At(x, p))]
       /\ SavedViews(y) = [p \in 1 .. k + 1 |-> View(At(y, p))]
  BY <1>6, <1>10, SavedIs DEF k
<1>12. SavedViews(y) = Append(SavedViews(x), View(x))
  <2> DEFINE s == SavedViews(x)
             t == SavedViews(y)
             u == Append(s, View(x))
  <2>1. IsSeq(s) /\ Len(s) = k /\ \A p \in 1 .. k : s[p] = View(At(x, p))
    BY <1>5, <1>11 DEF IsSeq
  <2>2. IsSeq(t) /\ Len(t) = k + 1 /\ \A p \in 1 .. k + 1 : t[p] = IF p = k + 1 THEN View(x) ELSE View(At(x, p))
    BY <1>5, <1>6, <1>9, <1>11 DEF IsSeq
  <2> HIDE DEF s, t
  <2>3. IsSeq(u) /\ Len(u) = k + 1 /\ (\A p \in 1 .. k : u[p] = s[p]) /\ u[k + 1] = View(x)
    BY <2>1, SeqAppend
  <2> HIDE DEF u
  <2>4. \A p \in 1 .. k + 1 : t[p] = u[p]
    BY <1>5, <2>1, <2>2, <2>3
  <2>5. t = u
    BY <2>2, <2>3, <2>4, SeqSame
  <2> QED BY <2>5 DEF s, t, u
<1> QED BY <1>3, <1>6, <1>10, <1>12 DEF k, y

(* What Pop leaves of a sequence of anything.                              *)
LEMMA PopCut ==
  ASSUME NEW s, IsSeq(s), Len(s) > 0
  PROVE  IsSeq(Pop(s)) /\ Len(Pop(s)) = Len(s) - 1 /\ \A p \in 1 .. Len(s) - 1 : Pop(s)[p] = s[p]
<1>1. Len(s) \in Nat /\ Len(s) - 1 \in 0 .. Len(s)
  BY SeqDomain
<1> QED BY <1>1, SeqCut DEF Pop

(* The saved worlds without the innermost.                                 *)
LEMMA SavedPop ==
  ASSUME NEW x, Good(x), Len(ScopesOf(x)) > 0, NEW y, Overlaid(y), ScopesOf(y) = Pop(ScopesOf(x)),
         \A p \in 1 .. Len(ScopesOf(x)) - 1 : Overlaid(At(y, p)) /\ View(At(y, p)) = View(At(x, p))
  PROVE  Good(y) /\ SavedViews(y) = Pop(SavedViews(x)) /\ Len(ScopesOf(y)) = Len(ScopesOf(x)) - 1
<1> DEFINE k == Len(ScopesOf(x))
<1>1. IsSeq(x.journal)
  BY DEF Good, Overlaid, Shaped
<1>2. ScopesOf(x) \in Seq(1 .. Len(x.journal)) /\ k \in Nat
  BY <1>1, ScopesAre
<1>3. IsSeq(ScopesOf(x))
  BY <1>2, SeqBack
<1>4. Len(ScopesOf(y)) = k - 1
  BY <1>3, PopCut
<1>5. Good(y)
  BY <1>4 DEF Good
<1>6. /\ SavedViews(x) = [p \in 1 .. k |-> View(At(x, p))]
      /\ SavedViews(y) = [p \in 1 .. k - 1 |-> View(At(y, p))]
  BY <1>4, <1>5, SavedIs
<1> DEFINE s == SavedViews(x)
           t == SavedViews(y)
           u == Pop(s)
<1>7. k > 0
  OBVIOUS
<1> HIDE DEF k
<1>8. IsSeq(s) /\ Len(s) = k /\ \A p \in 1 .. k : s[p] = View(At(x, p))
  BY <1>2, <1>6 DEF IsSeq
<1>9. IsSeq(t) /\ Len(t) = k - 1 /\ \A p \in 1 .. k - 1 : t[p] = View(At(x, p))
  <2>1. k - 1 \in Nat
    BY <1>2, <1>7
  <2> QED BY <1>6, <2>1 DEF IsSeq, k
<1> HIDE DEF s, t
<1>10. IsSeq(u) /\ Len(u) = k - 1 /\ \A p \in 1 .. k - 1 : u[p] = s[p]
  BY <1>7, <1>8, PopCut
<1> HIDE DEF u
<1>11. t = u
  <2>1. \A p \in 1 .. k - 1 : t[p] = u[p]
    BY <1>2, <1>8, <1>9, <1>10
  <2> QED BY <1>9, <1>10, <2>1, SeqSame
<1> QED BY <1>4, <1>5, <1>11 DEF k, s, t, u

(* state_journal_commit.                                                   *)
LEMMA Committed ==
  ASSUME NEW x, Good(x), Len(ScopesOf(x)) > 0
  PROVE  LET y == state_journal_commit(x)
         IN /\ Good(y) /\ View(y) = View(x) /\ Grows(x, y) /\ SavedViews(y) = Pop(SavedViews(x))
            /\ Len(ScopesOf(y)) = Len(ScopesOf(x)) - 1
            /\ \A a \in Addr : Loaded(y, a) = Loaded(x, a)
<1> DEFINE y == state_journal_commit(x)
           e == [tag |-> "Committed", key |-> NoPrior, prior |-> NoPrior]
           k == Len(ScopesOf(x))
<1>1. Overlaid(x) /\ IsHost(x) /\ IsSeq(x.journal) /\ \A p \in 1 .. k : Overlaid(At(x, p))
  BY DEF Good, Overlaid, Shaped
<1>2. Marks(x, y, "Committed")
  BY <1>1, PushMarks DEF state_journal_commit
<1> HIDE DEF y
<1>3. /\ Overlaid(y) /\ View(y) = View(x) /\ Grows(x, y)
      /\ \A a \in Addr : Loaded(y, a) = Loaded(x, a)
      /\ \A n \in 0 .. Len(x.journal) : SameTables(Undone(x)[n], Undone(y)[n])
      /\ Len(y.journal) = Len(x.journal) + 1 /\ Len(x.journal) \in Nat
  BY <1>2, Marked
<1>4. ScopesOf(y) = Pop(ScopesOf(x))
  <2>1. y.journal = Append(x.journal, e) /\ e.tag = "Committed"
    BY <1>2 DEF Marks
  <2> HIDE DEF e
  <2> QED BY <1>1, <2>1, OpenPush DEF ScopesOf
<1>5. /\ ScopesOf(x) \in Seq(1 .. Len(x.journal)) /\ k \in Nat
      /\ \A p \in 1 .. k : ScopesOf(x)[p] \in 1 .. Len(x.journal)
  BY <1>1, ScopesAre
<1>6. \A p \in 1 .. k - 1 : ScopesOf(y)[p] = ScopesOf(x)[p] /\ p \in 1 .. k
  <2>1. IsSeq(ScopesOf(x))
    BY <1>5, SeqBack
  <2> QED BY <1>4, <1>5, <2>1, PopCut
<1>7. ASSUME NEW p \in 1 .. k - 1
      PROVE  Overlaid(At(y, p)) /\ View(At(y, p)) = View(At(x, p))
  <2> DEFINE m == ScopesOf(x)[p]
  <2>1. m \in 1 .. Len(x.journal) /\ p \in 1 .. k
    BY <1>5, <1>6
  <2>2. Overlaid(Undone(x)[m]) /\ SameTables(Undone(x)[m], Undone(y)[m])
    BY <1>1, <1>3, <2>1 DEF At
  <2> HIDE DEF m
  <2>3. m \in Nat /\ m <= Len(x.journal) /\ m <= Len(y.journal)
    BY <1>3, <2>1
  <2>4. Overlaid(Undone(y)[m]) /\ View(Undone(y)[m]) = View(Undone(x)[m])
    BY <1>1, <1>3, <2>2, <2>3, SameAt
  <2> QED BY <1>6, <2>4 DEF At, m
<1> QED BY <1>3, <1>4, <1>7, SavedPop DEF y

(* state_journal_revert.                                                   *)
LEMMA Reverted ==
  ASSUME NEW x, Good(x), Len(ScopesOf(x)) > 0
  PROVE  LET y == state_journal_revert(x)
         IN /\ Good(y) /\ View(y) = SavedViews(x)[Len(SavedViews(x))] /\ Grows(x, y)
            /\ SavedViews(y) = Pop(SavedViews(x))
            /\ Len(ScopesOf(y)) = Len(ScopesOf(x)) - 1
<1> DEFINE y == state_journal_revert(x)
           j == x.journal
           k == Len(ScopesOf(x))
           m == ScopesOf(x)[k]
<1>1. Overlaid(x) /\ IsHost(x) /\ IsSeq(j) /\ \A p \in 1 .. k : Overlaid(At(x, p))
  BY DEF Good, Overlaid, Shaped
<1>2. /\ ScopesOf(x) \in Seq(1 .. Len(j)) /\ k \in Nat /\ k > 0 /\ Len(j) \in Nat
      /\ \A p \in 1 .. k : ScopesOf(x)[p] \in 1 .. Len(j)
  BY <1>1, ScopesAre
<1>3. ScopesOf(x) # <<>> /\ k \in 1 .. k
  BY <1>2
<1>4. m \in 1 .. Len(j) /\ j[m].tag = "Checkpointed" /\ OpenScopes(SubSeq(j, 1, m - 1)) = Pop(ScopesOf(x))
  BY <1>1, <1>3, OpenCut DEF ScopesOf
<1>5. y = UndoTo(x, m)
  BY <1>1, <1>3, ScanFinds DEF state_journal_revert, ScopesOf
<1>6. Overlaid(Undone(x)[m])
  BY <1>1, <1>3 DEF At
<1> HIDE DEF y
<1>7. /\ Overlaid(y) /\ View(y) = View(Undone(x)[m])
      /\ y.journal = SubSeq(j, 1, m - 1) /\ SameTables(y, Undone(x)[m])
      /\ y.bal = x.bal /\ y.account_block = x.account_block /\ y.storage_block = x.storage_block
  BY <1>1, <1>4, <1>5, <1>6, UndoToIs
<1>8. Grows(x, y)
  BY <1>7, SameGrows
<1>9. View(y) = SavedViews(x)[Len(SavedViews(x))]
  <2>1. SavedViews(x) = [p \in 1 .. k |-> View(At(x, p))]
    BY SavedIs
  <2>2. Len(SavedViews(x)) = k
    BY <1>2, <2>1
  <2>3. SavedViews(x)[k] = View(At(x, k))
    BY <1>3, <2>1
  <2> QED BY <1>7, <2>2, <2>3 DEF At
<1>10. ScopesOf(y) = Pop(ScopesOf(x))
  BY <1>4, <1>7 DEF ScopesOf
<1>11. IsSeq(y.journal) /\ Len(y.journal) = m - 1 /\ (\A i \in 1 .. m - 1 : y.journal[i] = j[i]) /\ m \in Nat
  <2>1. m - 1 \in 0 .. Len(j)
    BY <1>2, <1>4
  <2> QED BY <1>1, <1>2, <1>4, <1>7, <2>1, SeqCut
<1>12. SameTables(Undone(x)[m - 1], Undone(y)[m - 1])
  <2>1. Undone(x)[m - 1] = _journal_restore(Undone(x)[m], j[m])
    <3>1. m - 1 \in 0 .. Len(j) - 1 /\ (m - 1) + 1 = m
      BY <1>2, <1>4
    <3> QED BY <1>2, <3>1, UndoneUnfolds
  <2>2. _journal_restore(Undone(x)[m], j[m]) = Undone(x)[m]
    <3>1. j[m].tag \notin AccountFields
          /\ j[m].tag \notin {"AccountListed", "StorageListed", "StorageValue", "RowGeneration", "AccountGeneration"}
      BY <1>4 DEF AccountFields
    <3> QED BY <3>1 DEF _journal_restore
  <2>3. Undone(y)[m - 1] = y
    <3>1. Len(y.journal) \in Nat
      BY <1>4, <1>2, <1>11
    <3> QED BY <1>11, <3>1, UndoneUnfolds
  <2> QED BY <1>7, <2>1, <2>2, <2>3 DEF SameTables
<1>13. ASSUME NEW n \in 0 .. m - 1
       PROVE  SameTables(Undone(x)[n], Undone(y)[n])
  <2> DEFINE M == m - 1
  <2>1. M \in Nat /\ M <= Len(j) /\ M <= Len(y.journal) /\ Len(y.journal) \in Nat
    BY <1>2, <1>4, <1>11
  <2>2. IsHost(y) /\ \A i \in 1 .. M : j[i] = y.journal[i]
    BY <1>7, <1>11 DEF Overlaid, Shaped
  <2>3. n \in 0 .. M /\ SameTables(Undone(x)[M], Undone(y)[M])
    BY <1>12
  <2> HIDE DEF M
  <2> QED BY <1>1, <1>2, <2>1, <2>2, <2>3, UndoneAgree
<1>14. ASSUME NEW p \in 1 .. k - 1
       PROVE  Overlaid(At(y, p)) /\ View(At(y, p)) = View(At(x, p))
  <2> DEFINE n == ScopesOf(x)[p]
  <2>1. IsSeq(ScopesOf(x))
    BY <1>2, SeqBack
  <2>2. ScopesOf(y)[p] = n /\ p \in 1 .. k
    BY <1>2, <1>10, <2>1, PopCut
  <2>3. n \in 0 .. m - 1
    <3>1. IsSeq(Pop(ScopesOf(x))) /\ p \in 1 .. Len(Pop(ScopesOf(x)))
      BY <1>2, <2>1, PopCut
    <3>2. ScopesOf(y)[p] \in 1 .. Len(y.journal)
      BY <1>10, <1>11, <3>1, ScopesAre
    <3> QED BY <1>11, <2>2, <3>2
  <2>4. SameTables(Undone(x)[n], Undone(y)[n]) /\ Overlaid(Undone(x)[n])
    BY <1>1, <1>13, <2>2, <2>3 DEF At
  <2> HIDE DEF n
  <2>5. n \in Nat /\ n <= Len(x.journal) /\ n <= Len(y.journal)
    BY <1>2, <1>4, <1>11, <2>3
  <2>6. Overlaid(Undone(y)[n]) /\ View(Undone(y)[n]) = View(Undone(x)[n])
    <3>1. Overlaid(x) /\ Overlaid(y)
      BY <1>1, <1>7
    <3> HIDE DEF j, k, m
    <3> QED BY <1>8, <2>4, <2>5, <3>1, SameAt
  <2> QED BY <2>2, <2>6 DEF At, n
<1> QED BY <1>7, <1>8, <1>9, <1>10, <1>14, SavedPop DEF y

-----------------------------------------------------------------------------
(* Replaying the changes of one account or slot from a table of the access *)
(* list.                                                                   *)

(* A set of numbers up to j has a largest one.                             *)
LEMMA TopOf ==
  ASSUME NEW j \in Nat, NEW T, T \subseteq 0 .. j, T # {}
  PROVE  Max(T) \in T /\ \A n \in T : Max(T) >= n
<1> DEFINE U == {j - n : n \in T}
<1>1. \A n \in T : n \in Int /\ j - n \in Nat
  OBVIOUS
<1>2. U \subseteq Nat /\ U # {}
  BY <1>1
<1>3. \E x \in U : \A y \in U : ~(<<y, x>> \in OpToRel(<, Nat))
  <2> HIDE DEF U
  <2> QED BY <1>2, NatLessThanWellFounded, WFMin, Zenon
<1>4. \A x, y \in Nat : <<y, x>> \in OpToRel(<, Nat) <=> y < x
  BY DEF OpToRel
<1>5. PICK x \in U : \A y \in U : ~(y < x)
  BY <1>2, <1>3, <1>4
<1>6. PICK n \in T : x = j - n
  OBVIOUS
<1>7. ASSUME NEW m \in T PROVE n >= m
  <2>1. j - m \in U
    OBVIOUS
  <2>2. ~(j - m < j - n)
    BY <1>5, <1>6, <2>1
  <2> QED BY <1>1, <2>2
<1>8. \E t \in T : \A m \in T : t >= m
  BY <1>7
<1> HIDE DEF U
<1> QED BY <1>8, Zenon DEF Max

(* The table has an entry for the key at index n.                          *)
Noted(table, key, n) == Append(key, n) \in DOMAIN table

(* Replayed on base up to index i the table gives the value val, nothing   *)
(* is recorded at a later index, and each change of a transaction, of      *)
(* which there are m, is one.                                              *)
Told(table, key, base, val, i, m) ==
  /\ \A n \in Nat : n > i => ~Noted(table, key, n)
  /\ Latest(table, key, i, base) = val
  /\ \A n \in 1 .. m : Noted(table, key, n) =>
       table[Append(key, n)] # Latest(table, key, n - 1, base)

(* Nothing is recorded between two indices: they give the same value.      *)
LEMMA LatestLater ==
  ASSUME NEW table, NEW key, NEW base, NEW i \in Nat, NEW j \in Nat, i <= j,
         \A n \in Nat : n > i => ~Noted(table, key, n)
  PROVE  Latest(table, key, j, base) = Latest(table, key, i, base)
<1>1. {n \in 0 .. j : Append(key, n) \in DOMAIN table} = {n \in 0 .. i : Append(key, n) \in DOMAIN table}
  BY DEF Noted
<1> QED BY <1>1 DEF Latest

(* Without changes there is nothing to replay: the table tells the same at *)
(* a later index.                                                          *)
LEMMA ToldLater ==
  ASSUME NEW table, NEW key, NEW base, NEW val, NEW i \in Nat, NEW j \in Nat, i <= j, NEW m,
         Told(table, key, base, val, i, m)
  PROVE  Told(table, key, base, val, j, m)
<1>1. Latest(table, key, j, base) = Latest(table, key, i, base)
  BY LatestLater DEF Told
<1> QED BY <1>1 DEF Told

(* Two tables agree on an index.                                           *)
Agree(t, u, key, n) ==
  /\ Noted(u, key, n) <=> Noted(t, key, n)
  /\ Noted(t, key, n) => u[Append(key, n)] = t[Append(key, n)]

(* Tables that agree up to an index give the same value there.             *)
LEMMA LatestAgrees ==
  ASSUME NEW t, NEW u, NEW key, NEW base, NEW j \in Nat, \A n \in 0 .. j : Agree(t, u, key, n)
  PROVE  Latest(u, key, j, base) = Latest(t, key, j, base)
<1> DEFINE T == {n \in 0 .. j : Append(key, n) \in DOMAIN t}
           U == {n \in 0 .. j : Append(key, n) \in DOMAIN u}
<1>1. U = T
  BY DEF Agree, Noted
<1>2. T # {} => Max(T) \in T
  BY TopOf
<1>3. T # {} => u[Append(key, Max(T))] = t[Append(key, Max(T))]
  <2> SUFFICES ASSUME T # {} PROVE u[Append(key, Max(T))] = t[Append(key, Max(T))]
    OBVIOUS
  <2>1. Max(T) \in 0 .. j /\ Noted(t, key, Max(T))
    BY <1>2 DEF Noted
  <2> HIDE DEF T
  <2> QED BY <2>1 DEF Agree
<1>4. Latest(t, key, j, base) = IF T = {} THEN base ELSE t[Append(key, Max(T))]
  BY Zenon DEF Latest
<1>5. Latest(u, key, j, base) = IF U = {} THEN base ELSE u[Append(key, Max(U))]
  BY Zenon DEF Latest
<1> HIDE DEF T, U
<1> QED BY <1>1, <1>3, <1>4, <1>5

(* The highest index whose changes a merge at index i may find recorded: a *)
(* transaction is alone at its own, the system calls before the first and  *)
(* after the last share one.                                               *)
Before(i, m) == IF i \in 1 .. m THEN i - 1 ELSE i

(* A merge at index i records a value that has changed.                    *)
LEMMA ToldMerged ==
  ASSUME NEW t, NEW u, NEW key, NEW base, NEW val, NEW new, NEW i \in Nat, NEW m \in Nat,
         Told(t, key, base, val, Before(i, m), m),
         \A n \in Nat : n # i => Agree(t, u, key, n),
         new # val => Noted(u, key, i) /\ u[Append(key, i)] = new,
         new = val => Agree(t, u, key, i)
  PROVE  Told(u, key, base, new, i, m)
<1> DEFINE l == Before(i, m)
<1>1. l \in Nat /\ l <= i /\ (i \in 1 .. m => l = i - 1)
  BY DEF Before
<1> HIDE DEF l
<1>2. Told(t, key, base, val, l, m)
  BY DEF l
<1>3. \A n \in Nat : n > i => ~Noted(u, key, n)
  BY <1>1, <1>2 DEF Told, Agree
<1>4. \A n \in Nat : n < i => Latest(u, key, n, base) = Latest(t, key, n, base)
  <2> SUFFICES ASSUME NEW n \in Nat, n < i PROVE Latest(u, key, n, base) = Latest(t, key, n, base)
    OBVIOUS
  <2>1. \A k \in 0 .. n : k \in Nat /\ k # i
    OBVIOUS
  <2> QED BY <2>1, LatestAgrees
<1>5. CASE new = val
  <2>1. \A n \in Nat : Agree(t, u, key, n)
    BY <1>5
  <2>2. Latest(u, key, i, base) = Latest(t, key, i, base)
    BY <2>1, LatestAgrees
  <2>3. Latest(t, key, i, base) = val
    <3>1. Told(t, key, base, val, i, m)
      BY <1>1, <1>2, ToldLater
    <3> QED BY <3>1 DEF Told
  <2>4. ASSUME NEW n \in 1 .. m, Noted(u, key, n)
        PROVE  u[Append(key, n)] # Latest(u, key, n - 1, base)
    <3>1. n \in Nat /\ n - 1 \in Nat
      OBVIOUS
    <3>2. Latest(u, key, n - 1, base) = Latest(t, key, n - 1, base)
      BY <2>1, <3>1, LatestAgrees
    <3>3. Noted(t, key, n) /\ u[Append(key, n)] = t[Append(key, n)]
      BY <2>1, <2>4, <3>1 DEF Agree
    <3> QED BY <1>2, <3>2, <3>3 DEF Told
  <2> QED BY <1>3, <1>5, <2>2, <2>3, <2>4 DEF Told
<1>6. CASE new # val
  <2>1. Noted(u, key, i) /\ u[Append(key, i)] = new
    BY <1>6
  <2>2. Latest(u, key, i, base) = new
    <3> DEFINE U == {n \in 0 .. i : Append(key, n) \in DOMAIN u}
    <3>1. i \in U
      BY <2>1 DEF Noted
    <3>2. Max(U) \in U /\ Max(U) >= i
      BY <3>1, TopOf
    <3>3. Max(U) = i
      BY <3>2
    <3>4. Latest(u, key, i, base) = IF U = {} THEN base ELSE u[Append(key, Max(U))]
      BY Zenon DEF Latest
    <3> HIDE DEF U
    <3> QED BY <2>1, <3>1, <3>3, <3>4
  <2>3. ASSUME NEW n \in 1 .. m, Noted(u, key, n)
        PROVE  u[Append(key, n)] # Latest(u, key, n - 1, base)
    <3>1. n \in Nat /\ n - 1 \in Nat /\ n - 1 < n /\ n <= i
      BY <1>3, <2>3
    <3>2. Latest(u, key, n - 1, base) = Latest(t, key, n - 1, base)
      BY <1>4, <3>1
    <3>3. CASE n = i
      <4>1. l = n - 1
        BY <1>1, <3>3
      <4>2. Latest(t, key, n - 1, base) = val
        BY <1>2, <4>1 DEF Told
      <4> QED BY <1>6, <2>1, <3>2, <3>3, <4>2
    <3>4. CASE n # i
      <4>1. Noted(t, key, n) /\ u[Append(key, n)] = t[Append(key, n)]
        BY <2>3, <3>1, <3>4 DEF Agree
      <4> QED BY <1>2, <3>2, <4>1 DEF Told
    <3> QED BY <3>3, <3>4
  <2> QED BY <1>3, <2>2, <2>3 DEF Told
<1> QED BY <1>5, <1>6
=============================================================================
