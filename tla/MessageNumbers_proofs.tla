----------------------- MODULE MessageNumbers_proofs ------------------------
(***************************************************************************)
(* Lemmas about message numbers, for every finite maildrop.                *)
(***************************************************************************)
EXTENDS MessageNumbers, FiniteSetTheorems, SequenceTheorems, TLAPS

(* A maildrop of natural numbers below some bound is finite, and has no    *)
(* more messages than that.                                                *)
LEMMA BoundedMaildrop ==
  ASSUME NEW m \in Nat, NEW S \in SUBSET (1 .. m)
  PROVE  IsFiniteSet(S) /\ Cardinality(S) \in Nat /\ Cardinality(S) <= m
<1>1. IsFiniteSet(1 .. m) /\ Cardinality(1 .. m) = m
  <2>1. 1 \in Int /\ m \in Int
    OBVIOUS
  <2>2. IsFiniteSet(1 .. m) /\ Cardinality(1 .. m) = IF 1 > m THEN 0 ELSE m - 1 + 1
    BY <2>1, FS_Interval
  <2> QED BY <2>2
<1> QED BY <1>1, FS_Subset, FS_CardinalityType

(* The rank of a message is its number: between 1 and the size of the      *)
(* maildrop, and greater for a message that arrived later.                 *)
LEMMA RankRange ==
  ASSUME NEW S \in SUBSET Nat, IsFiniteSet(S), NEW u \in S
  PROVE  Rank(S, u) \in Numbers(S)
<1> DEFINE below == {v \in S : v <= u}
<1>1. IsFiniteSet(below) /\ Cardinality(below) <= Cardinality(S)
  BY FS_Subset
<1>2. Cardinality(below) \in Nat /\ Cardinality(S) \in Nat
  BY <1>1, FS_CardinalityType
<1>3. u \in below
  OBVIOUS
<1>4. Cardinality(below) # 0
  BY <1>1, <1>3, FS_EmptySet
<1> QED BY <1>1, <1>2, <1>4 DEF Rank, Numbers

LEMMA RankIncreases ==
  ASSUME NEW S \in SUBSET Nat, IsFiniteSet(S), NEW u \in S, NEW w \in S, u < w
  PROVE  Rank(S, u) < Rank(S, w)
<1> DEFINE belowU == {v \in S : v <= u}
           belowW == {v \in S : v <= w}
<1>1. IsFiniteSet(belowW) /\ belowU \in SUBSET belowW
  <2>1. belowW \in SUBSET S
    OBVIOUS
  <2>2. IsFiniteSet(belowW)
    BY <2>1, FS_Subset
  <2>3. \A v \in S : v <= u => v <= w
    BY SMT
  <2> QED BY <2>2, <2>3
<1>2. IsFiniteSet(belowU) /\ Cardinality(belowU) <= Cardinality(belowW)
      /\ (Cardinality(belowW) = Cardinality(belowU) => belowW = belowU)
  BY <1>1, FS_Subset
<1>3. w \in belowW /\ w \notin belowU
  OBVIOUS
<1>4. Cardinality(belowU) \in Nat /\ Cardinality(belowW) \in Nat
  BY <1>1, <1>2, FS_CardinalityType
<1> QED BY <1>2, <1>3, <1>4 DEF Rank

(* Every number of the maildrop names one message, every message has one.  *)
LEMMA Numbering ==
  ASSUME NEW S \in SUBSET Nat, IsFiniteSet(S)
  PROVE  /\ Cardinality(S) \in Nat
         /\ \A n \in Numbers(S) : Nth(S, n) \in S /\ Rank(S, Nth(S, n)) = n
         /\ \A u \in S : Rank(S, u) \in Numbers(S) /\ Nth(S, Rank(S, u)) = u
<1> DEFINE c == Cardinality(S)
           f == [u \in S |-> Rank(S, u)]
<1>1. c \in Nat /\ IsFiniteSet(1 .. c) /\ Cardinality(1 .. c) = c
  <2>1. c \in Nat /\ 1 \in Int /\ c \in Int
    BY FS_CardinalityType
  <2>2. IsFiniteSet(1 .. c) /\ Cardinality(1 .. c) = IF 1 > c THEN 0 ELSE c - 1 + 1
    BY <2>1, FS_Interval
  <2> QED BY <2>1, <2>2
<1>2. f \in [S -> 1 .. c]
  BY RankRange DEF Numbers
<1>3. ASSUME NEW u \in S, NEW w \in S, Rank(S, u) = Rank(S, w)
      PROVE  u = w
  <2>1. u \in Nat /\ w \in Nat /\ Rank(S, u) \in Nat /\ Rank(S, w) \in Nat
    BY <1>1, RankRange DEF Numbers
  <2>2. CASE u < w
    BY <1>3, <2>1, <2>2, RankIncreases
  <2>3. CASE w < u
    BY <1>3, <2>1, <2>3, RankIncreases
  <2> QED BY <2>1, <2>2, <2>3
<1>4. f \in Injection(S, 1 .. c)
  BY <1>2, <1>3 DEF Injection, IsInjective
<1>5. f \in Surjection(S, 1 .. c)
  BY <1>1, <1>4, FS_Injection
<1>6. \A n \in 1 .. c : \E u \in S : Rank(S, u) = n
  BY <1>5 DEF Surjection
<1>7. ASSUME NEW n \in Numbers(S)
      PROVE  Nth(S, n) \in S /\ Rank(S, Nth(S, n)) = n
  BY <1>6 DEF Nth, Numbers
<1>8. ASSUME NEW u \in S
      PROVE  Rank(S, u) \in Numbers(S) /\ Nth(S, Rank(S, u)) = u
  <2>1. Rank(S, u) \in Numbers(S)
    BY RankRange
  <2> QED BY <1>3, <1>7, <2>1
<1> QED BY <1>1, <1>7, <1>8

(* Numbers name messages of the maildrop only.                             *)
LEMMA NamedIsSubset ==
  ASSUME NEW S \in SUBSET Nat, IsFiniteSet(S), NEW ns
  PROVE  Named(S, ns) \subseteq S
BY Numbering DEF Named

(* What is taken out of a sequence at some positions is a sequence of      *)
(* elements of those positions.                                            *)
LEMMA EntriesAtPositions ==
  ASSUME NEW E, NEW l \in Seq(E), NEW S \in SUBSET (DOMAIN l)
  PROVE  /\ EntriesAt(l, S) \in Seq(E)
         /\ \A k \in DOMAIN EntriesAt(l, S) : \E i \in S : EntriesAt(l, S)[k] = l[i]
<1>1. PICK m \in Nat : DOMAIN l = 1 .. m
  OBVIOUS
<1>2. S \in SUBSET Nat /\ IsFiniteSet(S)
  BY <1>1, BoundedMaildrop
<1>3. Cardinality(S) \in Nat /\ \A k \in Numbers(S) : Nth(S, k) \in S
  BY <1>2, Numbering
<1>4. EntriesAt(l, S) \in [1 .. Cardinality(S) -> E]
  BY <1>3 DEF EntriesAt, Numbers
<1>5. EntriesAt(l, S) \in Seq(E)
  BY <1>3, <1>4, SeqDef
<1> QED BY <1>3, <1>5 DEF EntriesAt
=============================================================================
