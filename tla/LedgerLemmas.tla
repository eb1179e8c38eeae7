---------------------------- MODULE LedgerLemmas ----------------------------
(***************************************************************************)
(* What the proofs share: least numbers, pushing and popping a stack, and  *)
(* sums over a finite set.  SumFunction of the library adds the values     *)
(* of a function in an order that is left open; a sum over a finite domain *)
(* is a number, it changes by as much as one value changes, and a function *)
(* that is zero everywhere sums to zero.  The facts about sums are proved  *)
(* for all subsets of the domain by their smallest counterexample.         *)
(***************************************************************************)
EXTENDS Integers, SequencesExt, Functions, FiniteSetTheorems, WellFoundedInduction, TLAPS

-----------------------------------------------------------------------------
(* Natural numbers. *)

(* A set of natural numbers that is not empty has a least element.         *)
LEMMA LeastNumber ==
  ASSUME NEW T \in SUBSET Nat, T # {}
  PROVE  \E x \in T : \A y \in T : x <= y
<1> DEFINE Below == OpToRel(<, Nat)
<1>1. IsWellFoundedOn(Below, Nat)
  BY NatLessThanWellFounded
<1>2. PICK x \in T : \A y \in T : ~ (<<y, x>> \in Below)
  <2> HIDE DEF Below
  <2> QED BY <1>1, WFMin, Zenon
<1>3. ASSUME NEW y \in T PROVE x <= y
  <2>1. x \in Nat /\ y \in Nat
    OBVIOUS
  <2>2. ~ (<<y, x>> \in Below)
    BY <1>2
  <2>3. ~ (y < x)
    BY <2>1, <2>2 DEF OpToRel
  <2> QED BY <2>1, <2>3
<1> QED BY <1>3

(* Induction up to n, for the members of a set.                            *)
LEMMA Climb ==
  ASSUME NEW n \in Nat, NEW S, 0 \in S, \A i \in 0..n - 1 : i \in S => i + 1 \in S
  PROVE  \A i \in 0..n : i \in S
<1> DEFINE T == {i \in 0..n : i \notin S}
<1>1. SUFFICES ASSUME T # {} PROVE FALSE
  OBVIOUS
<1>2. PICK m \in T : \A y \in T : m <= y
  <2>1. T \in SUBSET Nat
    OBVIOUS
  <2> HIDE DEF T
  <2> QED BY <1>1, <2>1, LeastNumber, Zenon
<1>3. m \in 0..n /\ m \notin S /\ m # 0
  OBVIOUS
<1>4. m - 1 \in 0..n - 1 /\ (m - 1) + 1 = m
  BY <1>3
<1>5. m - 1 \notin T
  BY <1>2, <1>3
<1>6. m - 1 \in S
  BY <1>4, <1>5
<1> QED BY <1>3, <1>4, <1>6

-----------------------------------------------------------------------------
(* Sequences.                                                              *)
LEMMA PushFacts ==
  ASSUME NEW S, NEW s \in Seq(S), NEW x \in S
  PROVE  /\ Append(s, x) \in Seq(S)
         /\ Len(Append(s, x)) = Len(s) + 1
         /\ \A i \in 1..Len(s) : Append(s, x)[i] = s[i]
         /\ Append(s, x)[Len(s) + 1] = x
         /\ Last(Append(s, x)) = x
         /\ Len(s) \in Nat
BY DEF Last

(* A sequence that has a length is not empty.                              *)
LEMMA NotEmpty ==
  ASSUME NEW s, Len(s) # 0
  PROVE  s # <<>>
<1>1. Len(<<>>) = 0
  OBVIOUS
<1> QED  BY <1>1

(* Front and Last of a nonempty sequence.                                  *)
LEMMA PopFacts ==
  ASSUME NEW S, NEW s \in Seq(S), s # <<>>
  PROVE  /\ Front(s) \in Seq(S)
         /\ Len(Front(s)) = Len(s) - 1
         /\ \A i \in 1..Len(s) - 1 : Front(s)[i] = s[i]
         /\ Last(s) = s[Len(s)] /\ Last(s) \in S
         /\ Len(s) \in Nat /\ Len(s) > 0
<1>1. Len(s) \in Nat /\ Len(s) > 0 /\ s[Len(s)] \in S
  OBVIOUS
<1>2. /\ SubSeq(s, 1, Len(s) - 1) \in Seq(S)
      /\ Len(SubSeq(s, 1, Len(s) - 1)) = Len(s) - 1
      /\ \A i \in 1..Len(s) - 1 : SubSeq(s, 1, Len(s) - 1)[i] = s[i]
  <2>1. PICK n : n = Len(s) - 1
    OBVIOUS
  <2>2. n \in 0..Len(s)
    BY <1>1, <2>1
  <2>3. /\ SubSeq(s, 1, n) \in Seq(S) /\ Len(SubSeq(s, 1, n)) = n
        /\ \A i \in 1..n : SubSeq(s, 1, n)[i] = s[i]
    BY <2>2
  <2> QED BY <2>1, <2>3
<1> QED BY <1>1, <1>2 DEF Front, Last

-----------------------------------------------------------------------------
Some(s) == CHOOSE x \in s : TRUE

(* The recursion that SumFunction unfolds to, for the subsets of s.        *)
SumsWithin(f, s, g) ==
    g = [u \in SUBSET s |-> IF u = {} THEN 0
                            ELSE f[Some(u)] + g[u \ {Some(u)}]]

Sums(f) == CHOOSE g : SumsWithin(f, DOMAIN f, g)

-----------------------------------------------------------------------------
(* A set of subsets of a finite set has a smallest member.                 *)
LEMMA Smallest ==
    ASSUME NEW S, IsFiniteSet(S), NEW T, T \subseteq SUBSET S, T # {}
    PROVE  \E u \in T : \A v \in T : v \subseteq u => v = u
<1>1. T \subseteq FiniteSubsetsOf(S)
  BY FS_Subset DEF FiniteSubsetsOf
<1>2. IsWellFoundedOn(StrictSubsetOrdering(S), FiniteSubsetsOf(S))
  BY FS_StrictSubsetOrderingWellFounded
<1>3. PICK u \in T : \A v \in T : ~(<<v, u>> \in StrictSubsetOrdering(S))
  BY <1>1, <1>2, WFMin
<1>4. ASSUME NEW v \in T, v \subseteq u, v # u
      PROVE  FALSE
  <2>1. <<v, u>> \in StrictSubsetOrdering(S)
    BY <1>4 DEF StrictSubsetOrdering
  <2> QED  BY <2>1, <1>3
<1> QED  BY <1>4

(* The element that is taken out belongs to the set.                       *)
LEMMA SomeMember ==
    ASSUME NEW u, u # {}
    PROVE  /\ Some(u) \in u
           /\ u \ {Some(u)} \subseteq u
           /\ u \ {Some(u)} # u
<1>1. Some(u) \in u
  BY DEF Some
<1> QED  BY <1>1

(* Two solutions agree where both are defined.                             *)
LEMMA SumsAgree ==
    ASSUME NEW f, NEW S, IsFiniteSet(S),
           NEW s \in SUBSET S, NEW t \in SUBSET S, NEW g, NEW h,
           SumsWithin(f, s, g), SumsWithin(f, t, h)
    PROVE  \A u \in SUBSET (s \cap t) : g[u] = h[u]
<1> DEFINE T == {u \in SUBSET (s \cap t) : g[u] # h[u]}
<1> SUFFICES ASSUME T # {} PROVE FALSE  OBVIOUS
<1>1. T \subseteq SUBSET S
  OBVIOUS
<1>2. PICK u \in T : \A v \in T : v \subseteq u => v = u
  <2> HIDE DEF T
  <2> QED  BY <1>1, Smallest
<1>3. CASE u = {}
  BY <1>3 DEF SumsWithin
<1>4. CASE u # {}
  <2> DEFINE v == u \ {Some(u)}
  <2>1. v \subseteq u /\ v # u
    BY <1>4, SomeMember
  <2>2. v \in SUBSET (s \cap t)
    BY <2>1
  <2>3. g[v] = h[v]
    BY <2>1, <2>2, <1>2
  <2>4. g[u] = f[Some(u)] + g[v] /\ h[u] = f[Some(u)] + h[v]
    BY <1>4 DEF SumsWithin
  <2> QED  BY <2>3, <2>4
<1> QED  BY <1>3, <1>4

(* A solution exists on every subset of a finite set.                      *)
LEMMA SumsExist ==
    ASSUME NEW f, NEW S, IsFiniteSet(S)
    PROVE  \E g : SumsWithin(f, S, g)
<1> DEFINE T == {s \in SUBSET S : ~ \E g : SumsWithin(f, s, g)}
<1> SUFFICES ASSUME T # {} PROVE FALSE
  <2>1. S \in SUBSET S
    OBVIOUS
  <2> QED  BY <2>1
<1>1. PICK s \in T : \A v \in T : v \subseteq s => v = s
  <2>1. T \subseteq SUBSET S
    OBVIOUS
  <2> HIDE DEF T
  <2> QED  BY <2>1, Smallest
<1> DEFINE G(v) == CHOOSE g : SumsWithin(f, v, g)
           rest(u) == u \ {Some(u)}
           h == [u \in SUBSET s |-> IF u = {} THEN 0
                                    ELSE f[Some(u)] + G(rest(u))[rest(u)]]
<1>2. ASSUME NEW v \in SUBSET s, v # s
      PROVE  SumsWithin(f, v, G(v))
  <2>1. \E g : SumsWithin(f, v, g)
    BY <1>1, <1>2
  <2> QED  BY <2>1
<1>3. ASSUME NEW u \in SUBSET s, u # {}
      PROVE  h[rest(u)] = G(rest(u))[rest(u)]
  <2> DEFINE v == rest(u)
  <2>1. v \in SUBSET s /\ v # s
    BY <1>3, SomeMember
  <2>2. SumsWithin(f, v, G(v))
    BY <2>1, <1>2
  <2>3. CASE v = {}
    <3>1. h[v] = 0
      BY <2>1, <2>3
    <3>2. G(v)[v] = 0
      BY <2>2, <2>3 DEF SumsWithin
    <3> QED  BY <3>1, <3>2
  <2>4. CASE v # {}
    <3> DEFINE w == rest(v)
    <3>1. w \in SUBSET v /\ w # v
      BY <2>4, SomeMember
    <3>2. SumsWithin(f, w, G(w))
      BY <3>1, <2>1, <1>2
    <3>3. G(v)[v] = f[Some(v)] + G(v)[w]
      <4> HIDE DEF G
      <4> QED  BY <2>2, <2>4 DEF SumsWithin
    <3>4. h[v] = f[Some(v)] + G(w)[w]
      BY <2>1, <2>4
    <3>5. G(v)[w] = G(w)[w]
      <4>1. v \in SUBSET S /\ w \in SUBSET S /\ w \in SUBSET (v \cap w)
        BY <2>1, <3>1, <1>1
      <4> HIDE DEF G, T, h, v, w
      <4>2. \A x \in SUBSET (v \cap w) : G(v)[x] = G(w)[x]
        BY <4>1, <2>2, <3>2, SumsAgree
      <4> QED  BY <4>1, <4>2
    <3> QED  BY <3>3, <3>4, <3>5
  <2> QED  BY <2>3, <2>4
<1>4. SumsWithin(f, s, h)
  <2>1. ASSUME NEW u \in SUBSET s
        PROVE  h[u] = IF u = {} THEN 0 ELSE f[Some(u)] + h[rest(u)]
    <3> HIDE DEF G, rest
    <3> QED  BY <1>3
  <2> HIDE DEF G
  <2> QED  BY <2>1 DEF SumsWithin
<1> QED  BY <1>1, <1>4

(* The library's sum is the solution at the whole domain.                  *)
LEMMA SumUnfolds ==
    ASSUME NEW f, IsFiniteSet(DOMAIN f)
    PROVE  /\ SumFunction(f) = Sums(f)[DOMAIN f]
           /\ Sums(f)[{}] = 0
           /\ \A u \in SUBSET DOMAIN f :
                 u # {} => Sums(f)[u] = f[Some(u)] + Sums(f)[u \ {Some(u)}]
<1>1. SumFunction(f) = Sums(f)[DOMAIN f]
  BY DEF SumFunction, SumFunctionOnSet, FoldFunctionOnSet, MapThenFoldSet, Sums,
         SumsWithin, Some
<1>2. SumsWithin(f, DOMAIN f, Sums(f))
  <2>1. \E g : SumsWithin(f, DOMAIN f, g)
    BY SumsExist
  <2> QED  BY <2>1 DEF Sums
<1> HIDE DEF Sums
<1>3. Sums(f)[{}] = 0
  BY <1>2 DEF SumsWithin
<1>4. \A u \in SUBSET DOMAIN f :
         u # {} => Sums(f)[u] = f[Some(u)] + Sums(f)[u \ {Some(u)}]
  BY <1>2 DEF SumsWithin
<1> QED  BY <1>1, <1>3, <1>4

LEMMA SumsType ==
    ASSUME NEW S, IsFiniteSet(S), NEW f \in [S -> Int]
    PROVE  \A u \in SUBSET S : Sums(f)[u] \in Int
<1> DEFINE T == {u \in SUBSET S : Sums(f)[u] \notin Int}
<1> SUFFICES ASSUME T # {} PROVE FALSE  OBVIOUS
<1>1. PICK u \in T : \A v \in T : v \subseteq u => v = u
  <2>1. T \subseteq SUBSET S
    OBVIOUS
  <2> HIDE DEF T
  <2> QED  BY <2>1, Smallest
<1>2. DOMAIN f = S
  OBVIOUS
<1>3. CASE u = {}
  BY <1>2, <1>3, SumUnfolds
<1>4. CASE u # {}
  <2> DEFINE v == u \ {Some(u)}
  <2>1. Some(u) \in u /\ v \subseteq u /\ v # u
    BY <1>4, SomeMember
  <2>2. Sums(f)[v] \in Int
    BY <2>1, <1>1
  <2>3. Sums(f)[u] = f[Some(u)] + Sums(f)[v]
    BY <1>2, <1>4, SumUnfolds
  <2>4. f[Some(u)] \in Int
    BY <2>1
  <2> QED  BY <2>2, <2>3, <2>4
<1> QED  BY <1>3, <1>4

-----------------------------------------------------------------------------
(* A sum over a finite domain is a number.                                 *)
LEMMA SumType ==
    ASSUME NEW S, IsFiniteSet(S), NEW f \in [S -> Int]
    PROVE  SumFunction(f) \in Int
<1>1. DOMAIN f = S
  OBVIOUS
<1>2. SumFunction(f) = Sums(f)[S]
  BY <1>1, SumUnfolds
<1> QED  BY <1>2, SumsType

(* When one value changes, the sum changes by as much.                     *)
LEMMA SumChange ==
    ASSUME NEW S, IsFiniteSet(S), NEW f \in [S -> Int], NEW g \in [S -> Int],
           NEW a \in S, NEW d \in Int,
           g[a] = f[a] + d, \A x \in S \ {a} : g[x] = f[x]
    PROVE  SumFunction(g) = SumFunction(f) + d
<1> DEFINE gain(u) == IF a \in u THEN d ELSE 0
           T == {u \in SUBSET S : Sums(g)[u] # Sums(f)[u] + gain(u)}
<1>1. DOMAIN f = S /\ DOMAIN g = S
  OBVIOUS
<1>2. T = {}
  <2> SUFFICES ASSUME T # {} PROVE FALSE  OBVIOUS
  <2>1. PICK u \in T : \A v \in T : v \subseteq u => v = u
    <3>1. T \subseteq SUBSET S
      OBVIOUS
    <3> HIDE DEF T
    <3> QED  BY <3>1, Smallest
  <2>2. CASE u = {}
    <3>1. Sums(f)[u] = 0 /\ Sums(g)[u] = 0
      BY <1>1, <2>2, SumUnfolds
    <3> QED  BY <3>1, <2>2
  <2>3. CASE u # {}
    <3> DEFINE v == u \ {Some(u)}
    <3>1. Some(u) \in u /\ v \subseteq u /\ v # u
      BY <2>3, SomeMember
    <3>2. Sums(g)[v] = Sums(f)[v] + gain(v)
      BY <3>1, <2>1
    <3>3. /\ Sums(f)[u] = f[Some(u)] + Sums(f)[v]
          /\ Sums(g)[u] = g[Some(u)] + Sums(g)[v]
      BY <1>1, <2>3, SumUnfolds
    <3>4. Sums(f)[v] \in Int /\ Sums(f)[u] \in Int /\ f[Some(u)] \in Int
      <4>1. u \in SUBSET S /\ v \in SUBSET S
        BY <3>1
      <4> QED  BY <4>1, <3>1, SumsType
    <3>5. CASE Some(u) = a
      <4>1. a \in u /\ a \notin v
        BY <3>1, <3>5
      <4>2. g[a] = f[a] + d
        OBVIOUS
      <4>3. gain(u) = d /\ gain(v) = 0
        BY <4>1
      <4> HIDE DEF gain, v
      <4>4. Sums(g)[u] = Sums(f)[u] + gain(u)
        BY <3>2, <3>3, <3>4, <3>5, <4>2, <4>3
      <4> QED  BY <4>4, <2>1
    <3>6. CASE Some(u) # a
      <4>1. a \in u <=> a \in v
        BY <3>6
      <4>2. g[Some(u)] = f[Some(u)]
        BY <3>1, <3>6
      <4>3. gain(u) = gain(v) /\ gain(v) \in Int
        BY <4>1
      <4> HIDE DEF gain, v
      <4>4. Sums(g)[u] = Sums(f)[u] + gain(u)
        BY <3>2, <3>3, <3>4, <4>2, <4>3
      <4> QED  BY <4>4, <2>1
    <3> QED  BY <3>5, <3>6
  <2> QED  BY <2>2, <2>3
<1>3. Sums(g)[S] = Sums(f)[S] + gain(S)
  BY <1>2
<1> QED  BY <1>1, <1>3, SumUnfolds

(* The sum of zeros.                                                       *)
LEMMA SumZero ==
    ASSUME NEW S, IsFiniteSet(S), NEW f \in [S -> Int], \A a \in S : f[a] = 0
    PROVE  SumFunction(f) = 0
<1> DEFINE T == {u \in SUBSET S : Sums(f)[u] # 0}
<1>1. DOMAIN f = S
  OBVIOUS
<1>2. T = {}
  <2> SUFFICES ASSUME T # {} PROVE FALSE  OBVIOUS
  <2>1. PICK u \in T : \A v \in T : v \subseteq u => v = u
    <3>1. T \subseteq SUBSET S
      OBVIOUS
    <3> HIDE DEF T
    <3> QED  BY <3>1, Smallest
  <2>2. CASE u = {}
    BY <1>1, <2>2, SumUnfolds
  <2>3. CASE u # {}
    <3> DEFINE v == u \ {Some(u)}
    <3>1. Some(u) \in u /\ v \subseteq u /\ v # u
      BY <2>3, SomeMember
    <3>2. Sums(f)[v] = 0
      BY <3>1, <2>1
    <3>3. Sums(f)[u] = f[Some(u)] + Sums(f)[v]
      BY <1>1, <2>3, SumUnfolds
    <3> QED  BY <3>1, <3>2, <3>3
  <2> QED  BY <2>2, <2>3
<1> QED  BY <1>1, <1>2, SumUnfolds
=============================================================================
