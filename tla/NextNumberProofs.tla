---------------------------- MODULE NextNumberProofs ----------------------------
(***************************************************************************)
(* The number that follows the highest one in use exists, and so does the  *)
(* lowest one.                                                             *)
(***************************************************************************)
EXTENDS Integers, WellFoundedInduction, TLAPS

\* Among the numbers up to a bound and the next one, there is one that follows all
\* of a set, and no more than one beyond its highest: what _load_from_persistence of
\* both MemoryStore and TelemetryStore goes on from.
LEMMA NextAfterExists ==
    ASSUME NEW N \in Nat, NEW T, T \subseteq 1..N
    PROVE  \E n \in 1..(N + 1) :
                /\ \A id \in T : id < n
                /\ n = 1 \/ n - 1 \in T
<1> DEFINE less == {p \in Nat \X Nat : p[1] < p[2]}
           above == {n \in Nat : \A id \in T : id < n}
<1>1. IsWellFoundedOn(less, Nat)
  BY NatLessThanWellFounded DEF OpToRel
<1>2. above \subseteq Nat /\ N + 1 \in above
  BY SMT
<1>3. PICK n \in above : \A m \in above : <<m, n>> \notin less
  <2> HIDE DEF less, above
  <2> QED BY <1>1, <1>2, WFMin
<1>4. n \in Nat /\ (\A m \in above : ~ (m < n)) /\ n <= N + 1
  <2>1. \A m \in above : ~ (m < n)
    BY <1>2, <1>3
  <2> QED BY <1>2, <2>1
<1>5. CASE n <= 1
  <2>1. \A id \in T : id < 1
    BY <1>4, <1>5, SMT
  <2> QED BY <2>1, SMT
<1>6. CASE n > 1
  <2>1. n - 1 \in Nat /\ n - 1 \notin above
    BY <1>4, <1>6, SMT
  <2>2. PICK id \in T : ~ (id < n - 1)
    BY <2>1
  <2>3. id = n - 1
    BY <1>4, <2>2, SMT
  <2> QED BY <1>4, <1>6, <2>3, SMT
<1> QED BY <1>4, <1>5, <1>6, SMT

\* A set of numbers that has members has a least one.
LEMMA LeastExists ==
    ASSUME NEW T, T \subseteq Nat, T # {}
    PROVE  \E r \in T : \A s \in T : r <= s
<1> DEFINE less == {p \in Nat \X Nat : p[1] < p[2]}
<1>1. IsWellFoundedOn(less, Nat)
  BY NatLessThanWellFounded DEF OpToRel
<1>2. PICK r \in T : \A s \in T : <<s, r>> \notin less
  <2> HIDE DEF less
  <2> QED BY <1>1, WFMin
<1>3. \A s \in T : ~ (s < r)
  BY <1>2
<1> QED BY <1>2, <1>3
=============================================================================
