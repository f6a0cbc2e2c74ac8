---------------------------- MODULE CommonLemmas ----------------------------
(***************************************************************************)
(* What the proofs about several components cite: what the ends of a queue *)
(* may rely on, and the least-number principle, by which the proofs about  *)
(* sequences and recursive functions go by induction.                      *)
(***************************************************************************)
EXTENDS Naturals, Sequences, Functions, WellFoundedInduction, TLAPS

(* Every set of numbers that is not empty has a least element.             *)
LEMMA Least ==
    ASSUME NEW S \in SUBSET Nat, S # {}
    PROVE  \E n \in S : \A m \in S : n <= m
  <1> DEFINE R == {ss \in Nat \X Nat : ss[1] < ss[2]}
  <1>1. IsWellFoundedOn(R, Nat)
    BY NatLessThanWellFounded DEF OpToRel
  <1> HIDE DEF R
  <1>2. PICK x \in S : \A y \in S : ~(<<y, x>> \in R)
    BY <1>1, WFMin
  <1>3. \A y \in S : ~(y < x)
    BY <1>2 DEF R
  <1> QED
    BY <1>3

(* What one end of a pair adds to the queue is all it adds.                *)
LEMMA AppendRange ==
    ASSUME NEW S, NEW q \in Seq(S), NEW e \in S
    PROVE  /\ Append(q, e) \in Seq(S)
           /\ Range(Append(q, e)) = Range(q) \cup {e}
  <1>1. Append(q, e) \in Seq(S)
    OBVIOUS
  <1>2. DOMAIN Append(q, e) = DOMAIN q \cup {Len(q) + 1}
    OBVIOUS
  <1>3. \A i \in DOMAIN q : Append(q, e)[i] = q[i]
    OBVIOUS
  <1>4. Append(q, e)[Len(q) + 1] = e
    OBVIOUS
  <1> QED
    BY <1>1, <1>2, <1>3, <1>4 DEF Range

(* A queue just written to is not empty.                                   *)
LEMMA AppendNotEmpty ==
    ASSUME NEW S, NEW q \in Seq(S), NEW e \in S
    PROVE  Append(q, e) # <<>>
  <1>1. Len(Append(q, e)) = Len(q) + 1 /\ Len(q) \in Nat /\ Len(<<>>) = 0
    OBVIOUS
  <1> QED
    BY <1>1

(* What the other end reads was in the queue, and nothing is added.        *)
LEMMA TailRange ==
    ASSUME NEW S, NEW q \in Seq(S), q # <<>>
    PROVE  /\ Head(q) \in S
           /\ Head(q) \in Range(q)
           /\ Tail(q) \in Seq(S)
           /\ Range(Tail(q)) \subseteq Range(q)
  <1>1. Head(q) \in S /\ Tail(q) \in Seq(S)
    OBVIOUS
  <1>2. 1 \in DOMAIN q /\ Head(q) = q[1]
    OBVIOUS
  <1>3. \A i \in DOMAIN Tail(q) : i + 1 \in DOMAIN q /\ Tail(q)[i] = q[i + 1]
    OBVIOUS
  <1> QED
    BY <1>1, <1>2, <1>3 DEF Range

(* A queue is its first message and the rest.                              *)
LEMMA HeadAndTail ==
    ASSUME NEW S, NEW q \in Seq(S), q # <<>>
    PROVE  Range(q) = {Head(q)} \cup Range(Tail(q))
  <1>1. /\ DOMAIN q = 1..Len(q) /\ Len(q) \in Nat \ {0}
        /\ DOMAIN Tail(q) = 1..(Len(q) - 1)
        /\ \A i \in DOMAIN Tail(q) : Tail(q)[i] = q[i + 1]
        /\ Head(q) = q[1]
    OBVIOUS
  <1>2. \A i \in DOMAIN q : i = 1 \/ (i - 1 \in DOMAIN Tail(q) /\ q[i] = Tail(q)[i - 1])
    BY <1>1
  <1>3. Range(q) \subseteq {Head(q)} \cup Range(Tail(q))
    BY <1>1, <1>2 DEF Range
  <1> QED
    BY <1>3, TailRange

=============================================================================
