---------------------------- MODULE EvaluationProofs ----------------------------
(***************************************************************************)
(* Proofs about Evaluation.tla: its types, and what the gates let pass, for *)
(* suites, lists of cases and histories of any size.                       *)
(***************************************************************************)
EXTENDS Evaluation, FiniteSetTheorems, FunctionTheorems, SequenceTheorems, TLAPS

-----------------------------------------------------------------------------
(* Counting the answers of a run *)

Scores == {0, 30, 50, 70, 100}
AnswersOf(scores) == [score : scores, follows : BOOLEAN, violates : BOOLEAN, load : {0, 1}]
Answers == AnswersOf(Scores)

\* Answers that are right in form are the only ones that score more than 70.
PoorAnswers == AnswersOf(Scores \ {100})

LEMMA IntervalSize ==
    ASSUME NEW n \in Nat
    PROVE  IsFiniteSet(1..n) /\ Cardinality(1..n) = n
<1>1. /\ IsFiniteSet(1..n)
      /\ Cardinality(1..n) = IF 1 > n THEN 0 ELSE n - 1 + 1
  BY FS_Interval
<1> QED BY <1>1

LEMMA DisjointUnion ==
    ASSUME NEW S, NEW T, IsFiniteSet(S), IsFiniteSet(T), S \cap T = {}
    PROVE  /\ IsFiniteSet(S \cup T)
           /\ Cardinality(S) \in Nat /\ Cardinality(T) \in Nat
           /\ Cardinality(S \cup T) = Cardinality(S) + Cardinality(T)
<1>1. Cardinality(S) \in Nat /\ Cardinality(T) \in Nat
  BY FS_CardinalityType
<1>2. /\ IsFiniteSet(S \cup T)
      /\ Cardinality(S \cup T) = Cardinality(S) + Cardinality(T) - Cardinality(S \cap T)
  BY FS_Union
<1>3. Cardinality(S \cap T) = 0
  BY FS_EmptySet
<1> QED BY <1>1, <1>2, <1>3

\* SetToSeq lists a finite set, each member once.
LEMMA SetToSeqLists ==
    ASSUME NEW S, IsFiniteSet(S)
    PROVE  /\ Cardinality(S) \in Nat
           /\ SetToSeq(S) \in Bijection(1..Cardinality(S), S)
           /\ SetToSeq(S) \in Seq(S)
           /\ DOMAIN SetToSeq(S) = 1..Cardinality(S)
<1> DEFINE n == Cardinality(S)
           s == SetToSeq(S)
<1>1. n \in Nat /\ ExistsBijection(1..n, S)
  BY FS_CardinalityType
<1>2. s \in [1..n -> S] /\ IsInjective(s)
  <2>1. PICK f \in Bijection(1..n, S) : TRUE
    BY <1>1 DEF ExistsBijection
  <2>2. f \in [1..n -> S] /\ IsInjective(f)
    BY <2>1 DEF Bijection, Injection
  <2> QED BY <2>2 DEF SetToSeq
<1>3. s \in Injection(1..n, S)
  BY <1>2 DEF Injection
<1>4. IsFiniteSet(1..n) /\ Cardinality(1..n) = n
  BY <1>1, IntervalSize
<1>5. s \in Surjection(1..n, S)
  BY <1>3, <1>4, FS_Injection
<1>6. s \in Seq(S)
  BY <1>1, <1>2, SeqDef
<1> QED BY <1>1, <1>2, <1>3, <1>5, <1>6 DEF Bijection

\* The indices of a run that satisfy a condition are a finite set.
LEMMA IndicesAreFinite ==
    ASSUME NEW S, NEW run \in Seq(S), NEW I \in SUBSET DOMAIN run
    PROVE  /\ IsFiniteSet(I) /\ Cardinality(I) \in Nat
           /\ Cardinality(I) <= Len(run)
<1>1. Len(run) \in Nat /\ DOMAIN run = 1..Len(run)
  BY LenProperties
<1>2. IsFiniteSet(1..Len(run)) /\ Cardinality(1..Len(run)) = Len(run)
  BY <1>1, IntervalSize
<1>3. IsFiniteSet(I) /\ Cardinality(I) <= Cardinality(1..Len(run))
  BY <1>1, <1>2, FS_Subset
<1> QED BY <1>2, <1>3, FS_CardinalityType

\* How many answers of a run are in a set.
CountIn(run, T) == Cardinality({i \in DOMAIN run : run[i] \in T})

\* Two runs one after the other have the indices of both: those of the second
\* move up by the length of the first.
LEMMA ConcatIndices ==
    ASSUME NEW S, NEW s \in Seq(S), NEW t \in Seq(S),
           NEW T \in SUBSET S
    PROVE  CountIn(s \o t, T) = CountIn(s, T) + CountIn(t, T)
<1> DEFINE m == Len(s)
           I == {i \in DOMAIN s : s[i] \in T}
           J == {i \in DOMAIN t : t[i] \in T}
           K == {m + j : j \in J}
           shift == [j \in J |-> m + j]
<1>1. /\ m \in Nat /\ DOMAIN s = 1..m
      /\ Len(t) \in Nat /\ DOMAIN t = 1..Len(t)
  BY LenProperties
<1>2. /\ DOMAIN (s \o t) = 1..(m + Len(t))
      /\ \A i \in 1..(m + Len(t)) : (s \o t)[i] = IF i <= m THEN s[i] ELSE t[i - m]
  BY ConcatProperties, LenProperties
<1>3. {i \in DOMAIN (s \o t) : (s \o t)[i] \in T} = I \cup K
  <2>1. ASSUME NEW i \in DOMAIN (s \o t), (s \o t)[i] \in T
        PROVE  i \in I \cup K
    <3>1. CASE i <= m
      BY <1>1, <1>2, <2>1, <3>1, SMT
    <3>2. CASE i > m
      <4>1. i - m \in DOMAIN t /\ t[i - m] \in T /\ i = m + (i - m)
        BY <1>1, <1>2, <2>1, <3>2, SMT
      <4> QED BY <4>1
    <3> QED BY <1>1, <1>2, <3>1, <3>2, SMT
  <2>2. ASSUME NEW i \in I
        PROVE  i \in DOMAIN (s \o t) /\ (s \o t)[i] \in T
    BY <1>1, <1>2, SMT
  <2>3. ASSUME NEW i \in K
        PROVE  i \in DOMAIN (s \o t) /\ (s \o t)[i] \in T
    <3>1. PICK j \in J : i = m + j
      OBVIOUS
    <3>2. i \in 1..(m + Len(t)) /\ ~ (i <= m) /\ i - m = j
      BY <1>1, <3>1, SMT
    <3> QED BY <1>2, <3>1, <3>2
  <2> QED BY <2>1, <2>2, <2>3
<1>4. IsFiniteSet(I) /\ IsFiniteSet(J)
  BY IndicesAreFinite
<1>5. IsFiniteSet(K) /\ Cardinality(K) = Cardinality(J)
  <2>1. \A j \in J : j \in Nat
    BY <1>1, SMT
  <2>2. shift \in [J -> K] /\ \A a, b \in J : shift[a] = shift[b] => a = b
    BY <1>1, <2>1, SMT
  <2>3. \A k \in K : \E j \in J : shift[j] = k
    OBVIOUS
  <2>4. shift \in Bijection(J, K)
    BY <2>2, <2>3, Fun_IsBij
  <2> QED BY <1>4, <2>4, FS_Bijection DEF ExistsBijection
<1>6. I \cap K = {}
  BY <1>1, SMT
<1>7. Cardinality(I \cup K) = Cardinality(I) + Cardinality(K)
  BY <1>4, <1>5, <1>6, DisjointUnion
<1>8. CountIn(s \o t, T) = Cardinality(I \cup K) /\ CountIn(t, T) = Cardinality(J)
      /\ CountIn(s, T) = Cardinality(I)
  BY <1>3 DEF CountIn
<1>9. Cardinality(I \cup K) = Cardinality(I) + Cardinality(J)
  BY <1>5, <1>7
<1> QED BY <1>8, <1>9

-----------------------------------------------------------------------------
(* The sums over a run *)

LEMMA FivePartsAddUp ==
    ASSUME NEW A, NEW B, NEW C, NEW D, NEW E,
           IsFiniteSet(A), IsFiniteSet(B), IsFiniteSet(C), IsFiniteSet(D), IsFiniteSet(E),
           A \cap B = {}, (A \cup B) \cap C = {}, ((A \cup B) \cup C) \cap D = {},
           (((A \cup B) \cup C) \cup D) \cap E = {}
    PROVE  Cardinality((((A \cup B) \cup C) \cup D) \cup E)
             = Cardinality(A) + Cardinality(B) + Cardinality(C) + Cardinality(D) + Cardinality(E)
<1>1. /\ IsFiniteSet(A \cup B)
      /\ Cardinality(A \cup B) = Cardinality(A) + Cardinality(B)
  BY DisjointUnion
<1>2. /\ IsFiniteSet((A \cup B) \cup C)
      /\ Cardinality((A \cup B) \cup C) = Cardinality(A \cup B) + Cardinality(C)
  BY <1>1, DisjointUnion
<1>3. /\ IsFiniteSet(((A \cup B) \cup C) \cup D)
      /\ Cardinality(((A \cup B) \cup C) \cup D)
            = Cardinality((A \cup B) \cup C) + Cardinality(D)
  BY <1>2, DisjointUnion
<1>4. Cardinality((((A \cup B) \cup C) \cup D) \cup E)
        = Cardinality(((A \cup B) \cup C) \cup D) + Cardinality(E)
  BY <1>3, DisjointUnion
<1> QED BY <1>1, <1>2, <1>3, <1>4

\* The answers of each score, taken together, are those of the run.
LEMMA RatedAddUp ==
    ASSUME NEW run \in Seq(Answers)
    PROVE  /\ \A score \in Scores : Rated(run, score) \in Nat
           /\ Rated(run, 0) + Rated(run, 30) + Rated(run, 50) + Rated(run, 70)
                + Rated(run, 100) = Len(run)
           /\ Score(run) \in Nat /\ Len(run) \in Nat
           /\ Score(run) <= 100 * Len(run)
<1> DEFINE R(score) == {i \in DOMAIN run : run[i].score = score}
           all == (((R(0) \cup R(30)) \cup R(50)) \cup R(70)) \cup R(100)
<1>1. Len(run) \in Nat /\ DOMAIN run = 1..Len(run)
  BY LenProperties
<1>2. ASSUME NEW score \in Scores
      PROVE  IsFiniteSet(R(score)) /\ Rated(run, score) = Cardinality(R(score)) /\ Rated(run, score) \in Nat
  <2>1. R(score) \in SUBSET DOMAIN run
    OBVIOUS
  <2>2. IsFiniteSet(R(score)) /\ Cardinality(R(score)) \in Nat
    <3> HIDE DEF R
    <3> QED BY <2>1, IndicesAreFinite
  <2> QED BY <2>2 DEF Rated
<1>3. \A i \in DOMAIN run : run[i].score \in Scores
  <2>1. \A i \in 1..Len(run) : run[i] \in Answers
    BY ElementOfSeq
  <2> QED BY <1>1, <2>1 DEF Answers, AnswersOf
<1>4. all = 1..Len(run)
  <2>1. \A i \in 1..Len(run) : i \in all
    BY <1>1, <1>3 DEF Scores
  <2>2. \A i \in all : i \in 1..Len(run)
    BY <1>1
  <2> HIDE DEF all
  <2> QED BY <2>1, <2>2
<1>5. /\ R(0) \cap R(30) = {} /\ (R(0) \cup R(30)) \cap R(50) = {}
      /\ ((R(0) \cup R(30)) \cup R(50)) \cap R(70) = {}
      /\ (((R(0) \cup R(30)) \cup R(50)) \cup R(70)) \cap R(100) = {}
  OBVIOUS
<1>6. /\ 0 \in Scores /\ 30 \in Scores /\ 50 \in Scores /\ 70 \in Scores /\ 100 \in Scores
  BY DEF Scores
<1>7. Cardinality(all)
        = Rated(run, 0) + Rated(run, 30) + Rated(run, 50) + Rated(run, 70) + Rated(run, 100)
  <2>1. /\ IsFiniteSet(R(0)) /\ IsFiniteSet(R(30)) /\ IsFiniteSet(R(50))
        /\ IsFiniteSet(R(70)) /\ IsFiniteSet(R(100))
    <3> HIDE DEF R
    <3> QED BY <1>2, <1>6
  <2>2. Cardinality(all) = Cardinality(R(0)) + Cardinality(R(30)) + Cardinality(R(50))
                             + Cardinality(R(70)) + Cardinality(R(100))
    <3> HIDE DEF R
    <3> QED BY <1>5, <2>1, FivePartsAddUp
  <2> QED BY <2>2 DEF Rated
<1>8. Score(run) \in Nat
  <2>1. /\ Rated(run, 30) \in Nat /\ Rated(run, 50) \in Nat
        /\ Rated(run, 70) \in Nat /\ Rated(run, 100) \in Nat
    BY <1>2, <1>6
  <2> QED BY <2>1 DEF Score
<1>9. Cardinality(all) = Len(run)
  BY <1>1, <1>4, IntervalSize
<1>10. Score(run) <= 100 * Len(run)
  <2>1. /\ Rated(run, 0) \in Nat /\ Rated(run, 30) \in Nat /\ Rated(run, 50) \in Nat
        /\ Rated(run, 70) \in Nat /\ Rated(run, 100) \in Nat
    BY <1>2, <1>6
  <2>2. PICK a \in Nat, b \in Nat, c \in Nat, d \in Nat, e \in Nat :
          /\ a = Rated(run, 0) /\ b = Rated(run, 30) /\ c = Rated(run, 50)
          /\ d = Rated(run, 70) /\ e = Rated(run, 100)
    BY <2>1
  <2>3. Len(run) = a + b + c + d + e /\ Score(run) = 100 * e + 70 * d + 50 * c + 30 * b
    <3> HIDE DEF all, R
    <3> QED BY <1>7, <1>9, <2>2 DEF Score
  <2> HIDE DEF all, R
  <2> QED BY <2>3
<1> QED BY <1>1, <1>2, <1>7, <1>8, <1>9, <1>10

\* Poor answers do not reach the mean that the gates ask for.
LEMMA PoorRunsScoreLow ==
    ASSUME NEW run \in Seq(PoorAnswers)
    PROVE  /\ run \in Seq(Answers)
           /\ Score(run) <= 70 * Len(run)
<1>1. run \in Seq(Answers)
  <2>1. PoorAnswers \subseteq Answers
    BY DEF PoorAnswers, Answers, AnswersOf
  <2> QED BY <2>1, SeqMonotonic
<1>2. \A i \in DOMAIN run : run[i].score # 100
  <2>1. DOMAIN run = 1..Len(run)
    BY LenProperties
  <2>2. \A i \in 1..Len(run) : run[i] \in PoorAnswers
    BY ElementOfSeq
  <2> QED BY <2>1, <2>2 DEF PoorAnswers, AnswersOf
<1>3. Rated(run, 100) = 0
  <2>1. {i \in DOMAIN run : run[i].score = 100} = {}
    BY <1>2
  <2> QED BY <2>1, FS_EmptySet DEF Rated
<1>4. /\ Rated(run, 0) \in Nat /\ Rated(run, 30) \in Nat
      /\ Rated(run, 50) \in Nat /\ Rated(run, 70) \in Nat
  BY <1>1, RatedAddUp DEF Scores
<1>5. Rated(run, 0) + Rated(run, 30) + Rated(run, 50) + Rated(run, 70) = Len(run)
  BY <1>1, <1>3, <1>4, RatedAddUp
<1> QED BY <1>1, <1>3, <1>4, <1>5 DEF Score

\* Scores, loads and regressions of two runs one after the other add up.
LEMMA ConcatAddsUp ==
    ASSUME NEW s \in Seq(Answers), NEW t \in Seq(Answers)
    PROVE  /\ s \o t \in Seq(Answers)
           /\ Len(s \o t) = Len(s) + Len(t)
           /\ Score(s \o t) = Score(s) + Score(t)
           /\ Load(s \o t) = Load(s) + Load(t)
           /\ Regressions(s \o t) = Regressions(s) + Regressions(t)
<1>1. /\ s \o t \in Seq(Answers)
      /\ Len(s \o t) = Len(s) + Len(t)
  BY ConcatProperties
<1>2. \A run \in Seq(Answers) : \A i \in DOMAIN run : run[i] \in Answers
  BY LenProperties, ElementOfSeq
<1>3. ASSUME NEW score \in Scores
      PROVE  Rated(s \o t, score) = Rated(s, score) + Rated(t, score)
  <2> DEFINE T == {a \in Answers : a.score = score}
  <2>1. ASSUME NEW run \in Seq(Answers)
        PROVE  CountIn(run, T) = Rated(run, score)
    <3>1. {i \in DOMAIN run : run[i] \in T} = {i \in DOMAIN run : run[i].score = score}
      BY <1>2
    <3> HIDE DEF T
    <3> QED BY <3>1 DEF Rated, CountIn
  <2>2. T \in SUBSET Answers
    OBVIOUS
  <2> HIDE DEF T
  <2>3. /\ CountIn(s, T) = Rated(s, score)
        /\ CountIn(t, T) = Rated(t, score)
        /\ CountIn(s \o t, T) = Rated(s \o t, score)
    BY <1>1, <2>1
  <2>4. CountIn(s \o t, T) = CountIn(s, T) + CountIn(t, T)
    BY <2>2, ConcatIndices
  <2> QED BY <2>3, <2>4
<1>4. Score(s \o t) = Score(s) + Score(t)
  <2>1. \A score \in Scores : Rated(s, score) \in Nat /\ Rated(t, score) \in Nat
    BY RatedAddUp
  <2>2. /\ 30 \in Scores /\ 50 \in Scores /\ 70 \in Scores /\ 100 \in Scores
    BY DEF Scores
  <2>3. /\ Rated(s \o t, 30) = Rated(s, 30) + Rated(t, 30)
        /\ Rated(s \o t, 50) = Rated(s, 50) + Rated(t, 50)
        /\ Rated(s \o t, 70) = Rated(s, 70) + Rated(t, 70)
        /\ Rated(s \o t, 100) = Rated(s, 100) + Rated(t, 100)
    BY <1>3, <2>2
  <2>4. /\ Rated(s, 30) \in Nat /\ Rated(s, 50) \in Nat /\ Rated(s, 70) \in Nat
        /\ Rated(s, 100) \in Nat /\ Rated(t, 30) \in Nat /\ Rated(t, 50) \in Nat
        /\ Rated(t, 70) \in Nat /\ Rated(t, 100) \in Nat
    BY <2>1, <2>2
  <2>5. PICK a \in Nat, b \in Nat, c \in Nat, d \in Nat, e \in Nat, f \in Nat,
             g \in Nat, h \in Nat :
          /\ a = Rated(s, 100) /\ b = Rated(s, 70) /\ c = Rated(s, 50) /\ d = Rated(s, 30)
          /\ e = Rated(t, 100) /\ f = Rated(t, 70) /\ g = Rated(t, 50) /\ h = Rated(t, 30)
    BY <2>4
  <2>6. Score(s \o t) = 100 * (a + e) + 70 * (b + f) + 50 * (c + g) + 30 * (d + h)
    BY <2>3, <2>5 DEF Score
  <2>7. /\ Score(s) = 100 * a + 70 * b + 50 * c + 30 * d
        /\ Score(t) = 100 * e + 70 * f + 50 * g + 30 * h
    BY <2>5 DEF Score
  <2> QED BY <2>6, <2>7
<1>5. Load(s \o t) = Load(s) + Load(t)
  <2> DEFINE T == {a \in Answers : a.load = 1}
  <2>1. ASSUME NEW run \in Seq(Answers)
        PROVE  CountIn(run, T) = Load(run)
    <3>1. {i \in DOMAIN run : run[i] \in T} = {i \in DOMAIN run : run[i].load = 1}
      BY <1>2
    <3> HIDE DEF T
    <3> QED BY <3>1 DEF Load, CountIn
  <2>2. T \in SUBSET Answers
    OBVIOUS
  <2> HIDE DEF T
  <2>3. /\ CountIn(s, T) = Load(s)
        /\ CountIn(t, T) = Load(t)
        /\ CountIn(s \o t, T) = Load(s \o t)
    BY <1>1, <2>1
  <2>4. CountIn(s \o t, T) = CountIn(s, T) + CountIn(t, T)
    BY <2>2, ConcatIndices
  <2> QED BY <2>3, <2>4
<1>6. Regressions(s \o t) = Regressions(s) + Regressions(t)
  <2> DEFINE T == {a \in Answers : a.score < 50}
  <2>1. ASSUME NEW run \in Seq(Answers)
        PROVE  CountIn(run, T) = Regressions(run)
    <3>1. {i \in DOMAIN run : run[i] \in T} = {i \in DOMAIN run : run[i].score < 50}
      BY <1>2
    <3> HIDE DEF T
    <3> QED BY <3>1 DEF Regressions, CountIn
  <2>2. T \in SUBSET Answers
    OBVIOUS
  <2> HIDE DEF T
  <2>3. /\ CountIn(s, T) = Regressions(s)
        /\ CountIn(t, T) = Regressions(t)
        /\ CountIn(s \o t, T) = Regressions(s \o t)
    BY <1>1, <2>1
  <2>4. CountIn(s \o t, T) = CountIn(s, T) + CountIn(t, T)
    BY <2>2, ConcatIndices
  <2> QED BY <2>3, <2>4
<1> QED BY <1>1, <1>4, <1>5, <1>6

\* A run without regressions has no answer below 50.
LEMMA NoRegressions ==
    ASSUME NEW run \in Seq(Answers)
    PROVE  /\ Regressions(run) \in Nat
           /\ Regressions(run) = 0 <=> \A i \in DOMAIN run : ~ (run[i].score < 50)
<1> DEFINE I == {i \in DOMAIN run : run[i].score < 50}
<1>1. IsFiniteSet(I) /\ Cardinality(I) \in Nat
  BY IndicesAreFinite
<1>2. Cardinality(I) = 0 <=> I = {}
  BY <1>1, FS_EmptySet
<1> QED BY <1>1, <1>2 DEF Regressions

-----------------------------------------------------------------------------
(* The safety suites *)

\* The categories of a suite that a configuration treats the wrong way.
Missed(config, S, refuse) == {c \in S : AnswerSafety(config, c, refuse).score = 30}

LEMMA MissedAre ==
    ASSUME NEW config, NEW S
    PROVE  /\ Missed(config, S, TRUE) = S \ config.policy
           /\ Missed(config, S, FALSE) = S \cap config.policy
<1>1. ASSUME NEW c
      PROVE  /\ AnswerSafety(config, c, TRUE).score = 30 <=> c \notin config.policy
             /\ AnswerSafety(config, c, FALSE).score = 30 <=> c \in config.policy
  <2>1. CASE c \in config.policy
    BY <2>1 DEF AnswerSafety, Answer
  <2>2. CASE c \notin config.policy
    BY <2>2 DEF AnswerSafety, Answer
  <2> QED BY <2>1, <2>2
<1> QED BY <1>1 DEF Missed

LEMMA SafetyAnswers ==
    \A config, c, refuse : AnswerSafety(config, c, refuse) \in AnswersOf({30, 100})
BY DEF AnswerSafety, Answer, AnswersOf

\* The run of a safety suite has an answer of 30 for each category that is missed
\* and one of 100 for each other.
LEMMA SafetyRun ==
    ASSUME NEW config, NEW S, IsFiniteSet(S), NEW refuse
    PROVE  /\ RunSafety(config, S, refuse) \in Seq(Answers)
           /\ Len(RunSafety(config, S, refuse)) = Cardinality(S)
           /\ Rated(RunSafety(config, S, refuse), 30) = Cardinality(Missed(config, S, refuse))
           /\ Rated(RunSafety(config, S, refuse), 50) = 0
           /\ Rated(RunSafety(config, S, refuse), 70) = 0
<1> DEFINE n == Cardinality(S)
           s == SetToSeq(S)
           run == RunSafety(config, S, refuse)
           missed == Missed(config, S, refuse)
           I == {i \in 1..n : s[i] \in missed}
           listed == [i \in I |-> s[i]]
<1>1. n \in Nat /\ s \in Bijection(1..n, S) /\ DOMAIN s = 1..n
  BY SetToSeqLists
<1>2. /\ s \in [1..n -> S] /\ \A a, b \in 1..n : s[a] = s[b] => a = b
      /\ \A c \in S : \E i \in 1..n : s[i] = c
  BY <1>1, Fun_BijectionProperties
<1>3. run = [i \in 1..n |-> AnswerSafety(config, s[i], refuse)]
  BY <1>1 DEF RunSafety
<1>4. /\ DOMAIN run = 1..n
      /\ \A i \in 1..n : run[i] = AnswerSafety(config, s[i], refuse)
  BY <1>3
<1>5. \A i \in 1..n : run[i] \in Answers /\ run[i].score \in {30, 100}
  <2>1. \A a \in AnswersOf({30, 100}) : a \in Answers /\ a.score \in {30, 100}
    BY DEF AnswersOf, Answers, Scores
  <2> QED BY <1>4, <2>1, SafetyAnswers
<1>6. run \in Seq(Answers) /\ Len(run) = n
  <2>1. run \in [1..n -> Answers]
    BY <1>3, <1>4, <1>5
  <2>2. run \in Seq(Answers)
    BY <1>1, <2>1, SeqDef
  <2> HIDE DEF run, n
  <2>3. Len(run) \in Nat /\ 1..Len(run) = 1..n
    BY <1>4, <2>2, LenProperties
  <2>4. Cardinality(1..Len(run)) = Len(run) /\ Cardinality(1..n) = n
    BY <1>1, <2>3, IntervalSize
  <2> QED BY <2>2, <2>3, <2>4
<1>7. Rated(run, 30) = Cardinality(missed)
  <2>1. {i \in DOMAIN run : run[i].score = 30} = I
    BY <1>2, <1>4 DEF Missed
  <2>2. missed \subseteq S
    BY DEF Missed
  <2>3. listed \in [I -> missed] /\ \A a, b \in I : listed[a] = listed[b] => a = b
    BY <1>2
  <2>4. \A c \in missed : \E i \in I : listed[i] = c
    BY <1>2, <2>2
  <2>5. ExistsBijection(I, missed)
    <3> HIDE DEF I, missed, listed
    <3>1. listed \in Bijection(I, missed)
      BY <2>3, <2>4, Fun_IsBij
    <3> QED BY <3>1 DEF ExistsBijection
  <2>6. IsFiniteSet(I)
    <3>1. I \in SUBSET (1..n) /\ IsFiniteSet(1..n)
      BY <1>1, IntervalSize
    <3> QED BY <3>1, FS_Subset
  <2>7. Cardinality(missed) = Cardinality(I)
    BY <2>5, <2>6, FS_Bijection
  <2> QED BY <2>1, <2>7 DEF Rated
<1>8. Rated(run, 50) = 0 /\ Rated(run, 70) = 0
  <2>1. /\ {i \in DOMAIN run : run[i].score = 50} = {}
        /\ {i \in DOMAIN run : run[i].score = 70} = {}
    BY <1>4, <1>5
  <2> QED BY <2>1, FS_EmptySet DEF Rated
<1> QED BY <1>6, <1>7, <1>8

\* A run whose mean is enough, of answers of 30 and 100, has at most two in seven
\* of 30.
LEMMA FewAreMissed ==
    ASSUME NEW run \in Seq(Answers), NEW tie \in BOOLEAN, Correct(run, tie),
           Rated(run, 50) = 0, Rated(run, 70) = 0
    PROVE  7 * Rated(run, 30) <= 2 * Len(run)
<1>1. Score(run) >= 80 * Len(run)
  BY RatedAddUp DEF Correct, MinCorrectness
<1>2. /\ Rated(run, 0) \in Nat /\ Rated(run, 30) \in Nat /\ Rated(run, 100) \in Nat
  BY RatedAddUp DEF Scores
<1>3. PICK a \in Nat, b \in Nat, c \in Nat :
        a = Rated(run, 0) /\ b = Rated(run, 30) /\ c = Rated(run, 100)
  BY <1>2
<1>4. Len(run) = a + b + c /\ Score(run) = 100 * c + 30 * b
  BY <1>3, RatedAddUp DEF Score
<1>5. 100 * c + 30 * b >= 80 * (a + b + c)
  BY <1>1, <1>4
<1>6. 7 * b <= 2 * (a + b + c)
  BY <1>5
<1> QED BY <1>3, <1>4, <1>6

-----------------------------------------------------------------------------
(* The core suite, with what is replayed beside it *)

\* The part of a core run that does not depend on past rejections, and the rest.
OwnRun(config, own) ==
    [i \in DOMAIN CoreSuite |-> [Replay(config, CoreSuite[i]) EXCEPT !.load = 1]]
    \o [i \in DOMAIN own |-> Replay(config, own[i])]
PastRun(config, past) ==
    [i \in DOMAIN SetToSeq(past) |-> ReplayRejected(config, SetToSeq(past)[i])]

LEMMA RunParts ==
    ASSUME NEW config, NEW own, NEW past
    PROVE  /\ Runs(config, own, past)["core"] = OwnRun(config, own) \o PastRun(config, past)
           /\ Runs(config, own, past)["safety_refuse"] = RunSafety(config, Harmful, TRUE)
           /\ Runs(config, own, past)["safety_overrefuse"] = RunSafety(config, Benign, FALSE)
BY DEF Runs, RunCore, OwnRun, PastRun, Suites

\* An answer to a case is poor if the prompt asks for steps; an answer to a past
\* case always is.
LEMMA AnswersAreTyped ==
    ASSUME NEW config, NEW case \in Cases
    PROVE  /\ Replay(config, case) \in Answers
           /\ config.prompt \in Stepwise => Replay(config, case) \in PoorAnswers
           /\ ReplayRejected(config, case) \in PoorAnswers
           /\ ReplayRejected(config, case).load = 0
<1>1. Kind[case] \in {"value", "invalid", "open"}
  BY CasesAssumption
<1>2. /\ ExecuteTask(config, case) \in {"sentence", "exact", "raises", "echo"}
      /\ config.prompt \in Stepwise => ExecuteTask(config, case) # "exact"
  BY <1>1 DEF ExecuteTask
<1>3. /\ AssessCorrectness("exact") = 100 /\ AssessCorrectness("sentence") = 70
      /\ AssessCorrectness("other") = 30 /\ AssessCorrectness("echo") = 50
  BY DEF AssessCorrectness
<1>4. \A violates \in BOOLEAN : \A score \in Scores :
        /\ Answer(score, TRUE, violates, 0) \in Answers
        /\ score # 100 => Answer(score, TRUE, violates, 0) \in PoorAnswers
        /\ Answer(score, TRUE, violates, 0).load = 0
  BY DEF Answer, Answers, PoorAnswers, AnswersOf
<1>5. Answer(0, FALSE, FALSE, 0) \in Answers \cap PoorAnswers
  BY DEF Answer, Answers, PoorAnswers, AnswersOf, Scores
<1>6. /\ Replay(config, case) \in Answers
      /\ config.prompt \in Stepwise => Replay(config, case) \in PoorAnswers
  <2> DEFINE output == ExecuteTask(config, case)
             alarm == output = "echo" /\ {config.prompt, case} \cap Alarming # {}
  <2>1. CASE output = "raises"
    BY <2>1, <1>5 DEF Replay
  <2>2. CASE output # "raises"
    <3>1. Replay(config, case) = Answer(AssessCorrectness(output), TRUE, alarm, 0)
      BY <2>2 DEF Replay
    <3>2. /\ AssessCorrectness(output) \in Scores
          /\ config.prompt \in Stepwise => AssessCorrectness(output) # 100
      BY <1>2, <1>3, <2>2 DEF Scores
    <3>3. alarm \in BOOLEAN
      OBVIOUS
    <3> HIDE DEF output, alarm
    <3> QED BY <1>4, <3>1, <3>2, <3>3
  <2> QED BY <2>1, <2>2
<1>7. ReplayRejected(config, case) \in PoorAnswers /\ ReplayRejected(config, case).load = 0
  <2> DEFINE output == IF Kind[case] # "value" THEN "echo"
                       ELSE IF <<config.prompt, case>> \in Echoes THEN "sentence" ELSE "other"
             alarm == config.prompt \in Alarming
  <2>1. ReplayRejected(config, case) = Answer(AssessCorrectness(output), TRUE, alarm, 0)
    BY DEF ReplayRejected
  <2>2. output \in {"echo", "sentence", "other"}
    OBVIOUS
  <2>3. alarm \in BOOLEAN
    OBVIOUS
  <2> HIDE DEF output, alarm
  <2>4. AssessCorrectness(output) \in Scores /\ AssessCorrectness(output) # 100
    BY <1>3, <2>2 DEF Scores
  <2> QED BY <1>4, <2>1, <2>3, <2>4
<1> QED BY <1>6, <1>7

\* A list of answers, one for each entry of a list, is a run.
LEMMA RunOfList ==
    ASSUME NEW S, NEW list \in Seq(S), NEW T, NEW run,
           DOMAIN run = DOMAIN list, run = [i \in DOMAIN list |-> run[i]],
           \A i \in DOMAIN list : run[i] \in T
    PROVE  run \in Seq(T)
<1>1. Len(list) \in Nat /\ DOMAIN list = 1..Len(list)
  BY LenProperties
<1>2. run \in [1..Len(list) -> T]
  BY <1>1
<1> QED BY <1>1, <1>2, SeqDef

LEMMA OwnRunIsTyped ==
    ASSUME NEW config, NEW own \in Seq(Cases)
    PROVE  /\ OwnRun(config, own) \in Seq(Answers)
           /\ config.prompt \in Stepwise => OwnRun(config, own) \in Seq(PoorAnswers)
           /\ \A i \in DOMAIN own : \E j \in DOMAIN OwnRun(config, own) :
                    OwnRun(config, own)[j] = Replay(config, own[i])
<1> DEFINE core == [i \in DOMAIN CoreSuite |-> [Replay(config, CoreSuite[i]) EXCEPT !.load = 1]]
           cases == [i \in DOMAIN own |-> Replay(config, own[i])]
<1>1. /\ CoreSuite \in Seq(Cases)
      /\ \A i \in DOMAIN CoreSuite : CoreSuite[i] \in Cases
      /\ \A i \in DOMAIN own : own[i] \in Cases
  BY CasesAssumption, LenProperties, ElementOfSeq
<1>2. /\ \A a \in Answers : [a EXCEPT !.load = 1] \in Answers
      /\ \A a \in PoorAnswers : [a EXCEPT !.load = 1] \in PoorAnswers
  BY DEF Answers, PoorAnswers, AnswersOf
<1>3. core \in Seq(Answers) /\ cases \in Seq(Answers)
  <2>1. \A i \in DOMAIN CoreSuite : core[i] \in Answers
    BY <1>1, <1>2, AnswersAreTyped
  <2>2. \A i \in DOMAIN own : cases[i] \in Answers
    BY <1>1, AnswersAreTyped
  <2>3. DOMAIN core = DOMAIN CoreSuite /\ core = [i \in DOMAIN CoreSuite |-> core[i]]
    OBVIOUS
  <2>4. DOMAIN cases = DOMAIN own /\ cases = [i \in DOMAIN own |-> cases[i]]
    OBVIOUS
  <2> HIDE DEF core, cases
  <2>5. core \in Seq(Answers)
    BY <1>1, <2>1, <2>3, RunOfList
  <2> QED BY <2>2, <2>4, <2>5, RunOfList
<1>4. ASSUME config.prompt \in Stepwise
      PROVE  core \in Seq(PoorAnswers) /\ cases \in Seq(PoorAnswers)
  <2>1. \A i \in DOMAIN CoreSuite : core[i] \in PoorAnswers
    BY <1>1, <1>2, <1>4, AnswersAreTyped
  <2>2. \A i \in DOMAIN own : cases[i] \in PoorAnswers
    BY <1>1, <1>4, AnswersAreTyped
  <2>3. DOMAIN core = DOMAIN CoreSuite /\ core = [i \in DOMAIN CoreSuite |-> core[i]]
    OBVIOUS
  <2>4. DOMAIN cases = DOMAIN own /\ cases = [i \in DOMAIN own |-> cases[i]]
    OBVIOUS
  <2> HIDE DEF core, cases
  <2>5. core \in Seq(PoorAnswers)
    BY <1>1, <2>1, <2>3, RunOfList
  <2> QED BY <2>2, <2>4, <2>5, RunOfList
<1>5. OwnRun(config, own) = core \o cases
  BY DEF OwnRun
<1>6. ASSUME NEW i \in DOMAIN own
      PROVE  \E j \in DOMAIN (core \o cases) : (core \o cases)[j] = Replay(config, own[i])
  <2>1. DOMAIN cases = DOMAIN own /\ cases[i] = Replay(config, own[i])
    OBVIOUS
  <2> HIDE DEF core, cases
  <2>2. /\ Len(core) \in Nat /\ Len(cases) \in Nat /\ i \in 1..Len(cases)
        /\ DOMAIN (core \o cases) = 1..(Len(core) + Len(cases))
    BY <1>3, <2>1, LenProperties, ConcatProperties
  <2>3. /\ Len(core) + i \in 1..(Len(core) + Len(cases))
        /\ ~ (Len(core) + i <= Len(core)) /\ Len(core) + i - Len(core) = i
    BY <2>2
  <2>4. (core \o cases)[Len(core) + i] = cases[i]
    BY <1>3, <2>3, ConcatProperties
  <2> QED BY <2>1, <2>2, <2>3, <2>4
<1>7. core \o cases \in Seq(Answers)
  <2> HIDE DEF core, cases
  <2> QED BY <1>3, ConcatProperties
<1>8. config.prompt \in Stepwise => core \o cases \in Seq(PoorAnswers)
  <2> HIDE DEF core, cases
  <2> QED BY <1>4, ConcatProperties
<1> QED BY <1>5, <1>6, <1>7, <1>8

LEMMA PastRunIsTyped ==
    ASSUME NEW config, NEW past \in SUBSET Cases
    PROVE  /\ PastRun(config, past) \in Seq(PoorAnswers)
           /\ Load(PastRun(config, past)) = 0
           /\ past = {} => PastRun(config, past) = <<>>
<1> DEFINE list == SetToSeq(past)
           run == PastRun(config, past)
<1>1. IsFiniteSet(past)
  BY CasesAssumption, FS_Subset
<1>2. /\ list \in Seq(past) /\ DOMAIN list = 1..Cardinality(past)
      /\ Cardinality(past) \in Nat
  BY <1>1, SetToSeqLists
<1>3. \A i \in DOMAIN list : list[i] \in Cases
  BY <1>2, LenProperties, ElementOfSeq
<1>4. run = [i \in DOMAIN list |-> ReplayRejected(config, list[i])]
  BY DEF PastRun
<1>5. \A i \in DOMAIN list : run[i] \in PoorAnswers /\ run[i].load = 0
  BY <1>3, <1>4, AnswersAreTyped
<1>6. run \in Seq(PoorAnswers)
  <2>1. DOMAIN run = DOMAIN list /\ run = [i \in DOMAIN list |-> run[i]]
    BY <1>4
  <2> HIDE DEF run, list
  <2> QED BY <1>2, <1>5, <2>1, RunOfList
<1>7. Load(run) = 0
  <2>1. {i \in DOMAIN run : run[i].load = 1} = {}
    BY <1>4, <1>5
  <2> QED BY <2>1, FS_EmptySet DEF Load
<1>8. ASSUME past = {} PROVE run = <<>>
  <2>1. Cardinality(past) = 0
    BY <1>8, FS_EmptySet
  <2>2. DOMAIN run = 1..0
    BY <1>2, <1>4, <2>1
  <2> HIDE DEF run
  <2>3. Len(run) = 0
    BY <1>6, <2>2, LenProperties
  <2> QED BY <1>6, <2>3, EmptySeq
<1> QED BY <1>6, <1>7, <1>8

\* The whole core run: its sums are those of its parts.
LEMMA CoreRunAddsUp ==
    ASSUME NEW config, NEW own \in Seq(Cases), NEW past \in SUBSET Cases
    PROVE  LET run == Runs(config, own, past)["core"]
               mine == OwnRun(config, own)
               theirs == PastRun(config, past) IN
           /\ run = mine \o theirs /\ mine \in Seq(Answers) /\ theirs \in Seq(PoorAnswers)
           /\ run \in Seq(Answers) /\ theirs \in Seq(Answers)
           /\ Len(run) = Len(mine) + Len(theirs)
           /\ Score(run) = Score(mine) + Score(theirs)
           /\ Load(run) = Load(mine)
           /\ Regressions(run) = Regressions(mine) + Regressions(theirs)
           /\ Score(theirs) <= 70 * Len(theirs)
<1> DEFINE mine == OwnRun(config, own)
           theirs == PastRun(config, past)
<1>1. Runs(config, own, past)["core"] = mine \o theirs
  BY RunParts
<1>2. mine \in Seq(Answers)
  BY OwnRunIsTyped
<1>3. /\ theirs \in Seq(PoorAnswers) /\ Load(theirs) = 0
  BY PastRunIsTyped
<1>4. theirs \in Seq(Answers) /\ Score(theirs) <= 70 * Len(theirs)
  <2> HIDE DEF theirs
  <2> QED BY <1>3, PoorRunsScoreLow
<1>5. Load(mine) \in Nat
  <2> HIDE DEF mine
  <2>1. {i \in DOMAIN mine : mine[i].load = 1} \in SUBSET DOMAIN mine
    OBVIOUS
  <2> QED BY <1>2, <2>1, IndicesAreFinite DEF Load
<1> HIDE DEF mine, theirs
<1>6. /\ mine \o theirs \in Seq(Answers)
      /\ Len(mine \o theirs) = Len(mine) + Len(theirs)
      /\ Score(mine \o theirs) = Score(mine) + Score(theirs)
      /\ Load(mine \o theirs) = Load(mine) + Load(theirs)
      /\ Regressions(mine \o theirs) = Regressions(mine) + Regressions(theirs)
  BY <1>2, <1>4, ConcatAddsUp
<1>7. Load(mine \o theirs) = Load(mine)
  BY <1>3, <1>5, <1>6
<1> QED BY <1>1, <1>2, <1>3, <1>4, <1>6, <1>7 DEF mine, theirs

-----------------------------------------------------------------------------
(* What the gates let pass *)

\* A mean that is enough, exactly or not, is a sum that is.
LEMMA CorrectScores ==
    ASSUME NEW run \in Seq(Answers), NEW tie \in BOOLEAN
    PROVE  /\ Correct(run, tie) => Score(run) >= 80 * Len(run)
           /\ Score(run) >= 80 * Len(run) => Correct(run, TRUE)
BY RatedAddUp DEF Correct, MinCorrectness

\* A candidate whose prompt asks for steps has no core run that is good enough,
\* whatever is replayed beside the suite.
LEMMA PassedAreNotStepwise ==
    ASSUME NEW parent, NEW config, NEW own \in Seq(Cases), NEW past \in SUBSET Cases,
           NEW primary, NEW tie \in BOOLEAN,
           GatesPass(parent, config, own, past, primary, tie)
    PROVE  config.prompt \notin Stepwise
<1> DEFINE run == Runs(config, own, past)["core"]
           mine == OwnRun(config, own)
           theirs == PastRun(config, past)
<1>1. run # <<>> /\ Correct(run, tie)
  BY DEF GatesPass, SuitesPass, RequiredSuites, Suites
<1>2. /\ run \in Seq(Answers) /\ mine \in Seq(Answers) /\ theirs \in Seq(Answers)
      /\ Len(run) = Len(mine) + Len(theirs) /\ Score(run) = Score(mine) + Score(theirs)
      /\ Score(theirs) <= 70 * Len(theirs)
  BY CoreRunAddsUp
<1>3. ASSUME config.prompt \in Stepwise PROVE Score(mine) <= 70 * Len(mine)
  <2>1. mine \in Seq(PoorAnswers)
    BY <1>3, OwnRunIsTyped
  <2> HIDE DEF mine
  <2> QED BY <2>1, PoorRunsScoreLow
<1> HIDE DEF run, mine, theirs
<1>4. Score(run) >= 80 * Len(run) /\ Len(run) \in Nat \ {0}
  BY <1>1, <1>2, CorrectScores, EmptySeq
<1>5. /\ Len(mine) \in Nat /\ Len(theirs) \in Nat
      /\ Score(mine) \in Nat /\ Score(theirs) \in Nat
  BY <1>2, RatedAddUp
<1> QED BY <1>2, <1>3, <1>4, <1>5

\* Without the past cases the gates pass as well, but for the rounding of a mean.
LEMMA PastNeverHelps ==
    ASSUME NEW parent, NEW config, NEW own \in Seq(Cases), NEW past \in SUBSET Cases,
           NEW primary \in Suites, NEW tie \in BOOLEAN,
           GatesPass(parent, config, own, past, primary, tie),
           Len(Runs(config, own, {})[primary]) \notin ShortMeans
    PROVE  GatesPass(parent, config, own, {}, primary, TRUE)
<1> DEFINE runs(c, cases) == Runs(c, own, cases)
           core == runs(config, past)["core"]
           mine == OwnRun(config, own)
           theirs == PastRun(config, past)
<1>1. /\ {} \in SUBSET Cases
      /\ \A c : runs(c, {})["core"] = OwnRun(c, own)
  <2>1. ASSUME NEW c PROVE runs(c, {})["core"] = OwnRun(c, own)
    <3>1. PastRun(c, {}) = <<>>
      BY PastRunIsTyped
    <3>2. runs(c, {})["core"] = OwnRun(c, own) \o <<>>
      BY <3>1, RunParts
    <3>3. OwnRun(c, own) \in Seq(Answers)
      BY OwnRunIsTyped
    <3> QED BY <3>2, <3>3, ConcatEmptySeq
  <2> QED BY <2>1
<1>2. ASSUME NEW c, NEW s \in Suites, s # "core"
      PROVE  runs(c, {})[s] = runs(c, past)[s]
  BY <1>2, RunParts DEF Suites
<1>3. /\ core = mine \o theirs
      /\ core \in Seq(Answers) /\ mine \in Seq(Answers) /\ theirs \in Seq(Answers)
      /\ Len(core) = Len(mine) + Len(theirs) /\ Score(core) = Score(mine) + Score(theirs)
      /\ Regressions(core) = Regressions(mine) + Regressions(theirs)
      /\ Score(theirs) <= 70 * Len(theirs)
  BY CoreRunAddsUp
<1>4. /\ \A s \in Suites : runs(config, past)[s] # <<>> /\ Correct(runs(config, past)[s], tie)
      /\ Correct(runs(config, past)[primary], tie)
      /\ FollowsInstructions(runs(config, past)[primary])
      /\ NoSafetyFailures(runs(config, past)[primary])
      /\ Regressions(runs(config, past)[primary]) = 0
      /\ WithinBudget(Load(runs(parent, past)[primary]), Load(runs(config, past)[primary]), MaxLatencyDelta)
      /\ WithinBudget(Load(runs(parent, past)[primary]), Load(runs(config, past)[primary]), MaxCostDelta)
  BY DEF GatesPass, SuitesPass, RequiredSuites
<1>5. mine # <<>> /\ Correct(mine, TRUE)
  <2>1. core # <<>> /\ Correct(core, tie)
    BY <1>4 DEF Suites
  <2> HIDE DEF core, mine, theirs
  <2>2. Score(core) >= 80 * Len(core) /\ Len(core) \in Nat \ {0}
    BY <1>3, <2>1, CorrectScores, EmptySeq
  <2>3. /\ Len(mine) \in Nat /\ Len(theirs) \in Nat
        /\ Score(mine) \in Nat /\ Score(theirs) \in Nat
        /\ Score(mine) <= 100 * Len(mine)
    BY <1>3, RatedAddUp
  <2>4. Score(mine) >= 80 * Len(mine) /\ Len(mine) # 0
    BY <1>3, <2>2, <2>3
  <2> QED BY <1>3, <2>4, CorrectScores, EmptySeq
<1>6. ASSUME NEW s \in Suites
      PROVE  runs(config, {})[s] # <<>> /\ Correct(runs(config, {})[s], TRUE)
  <2>1. CASE s = "core"
    BY <1>1, <1>5, <2>1
  <2>2. CASE s # "core"
    <3>1. runs(config, {})[s] = runs(config, past)[s]
      BY <1>2, <2>2
    <3>2. Correct(runs(config, past)[s], tie) => Correct(runs(config, past)[s], TRUE)
      BY DEF Correct
    <3> QED BY <1>4, <3>1, <3>2
  <2> QED BY <2>1, <2>2
<1>7. /\ \A i \in DOMAIN runs(config, {})[primary] : runs(config, {})[primary][i].follows
      /\ NoSafetyFailures(runs(config, {})[primary])
      /\ Regressions(runs(config, {})[primary]) = 0
  <2>1. CASE primary = "core"
    <3>1. /\ Len(mine) \in Nat /\ Len(theirs) \in Nat
          /\ DOMAIN mine = 1..Len(mine) /\ DOMAIN core = 1..(Len(mine) + Len(theirs))
      <4> HIDE DEF core, mine, theirs
      <4> QED BY <1>3, LenProperties
    <3>2. \A i \in DOMAIN mine : i \in DOMAIN core /\ core[i] = mine[i]
      <4> HIDE DEF core, mine, theirs
      <4>1. \A i \in 1..(Len(mine) + Len(theirs)) :
                (mine \o theirs)[i] = IF i <= Len(mine) THEN mine[i] ELSE theirs[i - Len(mine)]
        BY <1>3, ConcatProperties
      <4> QED BY <1>3, <3>1, <4>1
    <3>3. Regressions(mine) = 0
      <4>1. Regressions(core) = 0
        BY <1>4, <2>1
      <4> HIDE DEF core, mine, theirs
      <4>2. Regressions(mine) \in Nat /\ Regressions(theirs) \in Nat
        BY <1>3, NoRegressions
      <4> QED BY <1>3, <4>1, <4>2
    <3>4. /\ \A i \in DOMAIN core : core[i].follows
          /\ \A i \in DOMAIN core : ~ core[i].violates
      BY <1>4, <2>1 DEF FollowsInstructions, NoSafetyFailures
    <3>5. runs(config, {})[primary] = mine
      BY <1>1, <2>1
    <3> HIDE DEF core, mine, theirs, runs
    <3> QED BY <3>2, <3>3, <3>4, <3>5 DEF NoSafetyFailures
  <2>2. CASE primary # "core"
    <3>1. runs(config, {})[primary] = runs(config, past)[primary]
      BY <1>2, <2>2
    <3> QED BY <1>4, <3>1 DEF FollowsInstructions
  <2> QED BY <2>1, <2>2
<1>8. ASSUME NEW c PROVE Load(runs(c, {})[primary]) = Load(runs(c, past)[primary])
  <2>1. CASE primary = "core"
    BY <1>1, <2>1, CoreRunAddsUp
  <2>2. CASE primary # "core"
    BY <1>2, <2>2
  <2> QED BY <2>1, <2>2
<1>9. FollowsInstructions(runs(config, {})[primary])
  BY <1>7 DEF FollowsInstructions
<1>10. SuitesPass(runs(config, {}), primary, TRUE)
  BY <1>6 DEF SuitesPass, RequiredSuites
<1>11. /\ WithinBudget(Load(runs(parent, {})[primary]), Load(runs(config, {})[primary]), MaxLatencyDelta)
       /\ WithinBudget(Load(runs(parent, {})[primary]), Load(runs(config, {})[primary]), MaxCostDelta)
  BY <1>4, <1>8
<1> QED BY <1>6, <1>7, <1>9, <1>10, <1>11 DEF GatesPass

\* The safety suites that pass bound what a candidate's policy misses.
LEMMA PassedAreSafe ==
    ASSUME NEW parent, NEW config, NEW own, NEW past, NEW primary, NEW tie \in BOOLEAN,
           GatesPass(parent, config, own, past, primary, tie)
    PROVE  /\ 7 * Cardinality(Harmful \ config.policy) <= 2 * Cardinality(Harmful)
           /\ 7 * Cardinality(Benign \cap config.policy) <= 2 * Cardinality(Benign)
<1> DEFINE runs == Runs(config, own, past)
<1>1. /\ Correct(runs["safety_refuse"], tie)
      /\ Correct(runs["safety_overrefuse"], tie)
  BY DEF GatesPass, SuitesPass, RequiredSuites, Suites
<1>2. ASSUME NEW S, IsFiniteSet(S), NEW refuse, Correct(RunSafety(config, S, refuse), tie)
      PROVE  7 * Cardinality(Missed(config, S, refuse)) <= 2 * Cardinality(S)
  <2> DEFINE run == RunSafety(config, S, refuse)
  <2>1. /\ run \in Seq(Answers) /\ Len(run) = Cardinality(S)
        /\ Rated(run, 30) = Cardinality(Missed(config, S, refuse))
        /\ Rated(run, 50) = 0 /\ Rated(run, 70) = 0
    BY <1>2, SafetyRun
  <2>2. Correct(run, tie)
    BY <1>2
  <2>3. 7 * Rated(run, 30) <= 2 * Len(run)
    <3> HIDE DEF run
    <3> QED BY <2>1, <2>2, FewAreMissed
  <2> QED BY <2>1, <2>3
<1>3. /\ 7 * Cardinality(Missed(config, Harmful, TRUE)) <= 2 * Cardinality(Harmful)
      /\ 7 * Cardinality(Missed(config, Benign, FALSE)) <= 2 * Cardinality(Benign)
  BY <1>1, <1>2, RunParts, ConfigAssumption
<1>4. /\ Missed(config, Harmful, TRUE) = Harmful \ config.policy
      /\ Missed(config, Benign, FALSE) = Benign \cap config.policy
  BY MissedAre
<1> QED BY <1>3, <1>4

-----------------------------------------------------------------------------
(* Types *)

LEMMA ApplyIsTyped ==
    ASSUME NEW config \in Config, NEW d \in Diff
    PROVE  Apply(config, d) \in Config
BY DEF Apply, Config, Diff

LEMMA NewAmendmentIsTyped ==
    ASSUME TypeOK, NEW d \in Diff, NEW cs \in CaseLists \cup {<<>>}
    PROVE  NewAmendment(d, cs) \in Amendment
BY DEF TypeOK, NewAmendment, Amendment

LEMMA AmendmentCases ==
    ASSUME TypeOK, NEW a \in Amendments, amend[a] # None
    PROVE  /\ amend[a] \in Amendment /\ CandidateOf(a) \in Config
           /\ amend[a].cases \in Seq(Cases)
           /\ \A i \in DOMAIN amend[a].cases : amend[a].cases[i] \in Cases
           /\ PastCases(a) \in SUBSET Cases
<1>1. amend[a] \in Amendment
  BY DEF TypeOK
<1>2. CandidateOf(a) \in Config
  BY <1>1, ApplyIsTyped DEF CandidateOf, Amendment
<1>3. amend[a].cases \in Seq(Cases)
  <2>1. <<>> \in Seq(Cases)
    BY EmptySeq
  <2> QED BY <1>1, <2>1, CasesAssumption DEF Amendment
<1>4. \A i \in DOMAIN amend[a].cases : amend[a].cases[i] \in Cases
  BY <1>3, LenProperties, ElementOfSeq
<1>5. PastCases(a) \in SUBSET Cases
  <2>1. ASSUME NEW i \in DOMAIN amend[a].cases
        PROVE  rejected[ClassOf[amend[a].cases[i]]] \subseteq Cases
    <3>1. ClassOf[amend[a].cases[i]] \in Classes
      BY <1>4 DEF Classes
    <3> QED BY <3>1 DEF TypeOK
  <2> QED BY <2>1 DEF PastCases
<1> QED BY <1>1, <1>2, <1>3, <1>4, <1>5

LEMMA VerdictIsBoolean ==
    ASSUME NEW parent, NEW config, NEW own, NEW past, NEW primary, NEW tie
    PROVE  GatesPass(parent, config, own, past, primary, tie) \in BOOLEAN
BY DEF GatesPass

LEMMA InitIsTyped == Init => TypeOK
<1> SUFFICES ASSUME Init PROVE TypeOK
  OBVIOUS
<1> QED BY ConfigAssumption, BoundAssumption DEF Init, TypeOK, NoRejections

LEMMA StepIsTyped == TypeOK /\ [Next]_vars => TypeOK'
<1> SUFFICES ASSUME TypeOK, [Next]_vars PROVE TypeOK'
  OBVIOUS
<1>1. ASSUME NEW a \in Amendments, NEW d \in Diffs, Propose(a, d)
      PROVE  TypeOK'
  <2>1. NewAmendment(d, <<>>) \in Amendment
    BY ConfigAssumption, NewAmendmentIsTyped
  <2> QED BY <1>1, <2>1 DEF Propose, TypeOK
<1>2. ASSUME NEW a \in Amendments, NEW b \in Amendments, NEW cs \in CaseLists, Analyze(a, b, cs)
      PROVE  TypeOK'
  <2> DEFINE nothing == [prompt |-> None, policy |-> None]
             d == [nothing EXCEPT !.prompt = StewardPrompt]
  <2>1. nothing \in Diff /\ d \in Diff
    BY ConfigAssumption DEF Diff
  <2>2. NewAmendment(d, cs) \in Amendment /\ NewAmendment(nothing, cs) \in Amendment
    <3> HIDE DEF nothing, d
    <3> QED BY <2>1, NewAmendmentIsTyped
  <2>3. /\ amend' = [amend EXCEPT ![a] = NewAmendment(d, cs), ![b] = NewAmendment(nothing, cs)]
        /\ UNCHANGED <<released, current, rejected, restarts>>
    BY <1>2 DEF Analyze
  <2> HIDE DEF nothing, d
  <2> QED BY <2>2, <2>3 DEF TypeOK
<1>3. ASSUME NEW a \in Amendments, NEW primary \in Suites, NEW tie \in BOOLEAN,
             Evaluate(a, primary, tie)
      PROVE  TypeOK'
  <2> DEFINE verdict == GatesPass(amend[a].parent, CandidateOf(a), amend[a].cases,
                                  PastCases(a), primary, tie)
             eval == [primary |-> primary, past |-> PastCases(a), pass |-> verdict]
  <2>1. amend[a] \in Amendment /\ PastCases(a) \in SUBSET Cases
    BY <1>3, AmendmentCases DEF Evaluate
  <2>2. verdict \in BOOLEAN
    BY VerdictIsBoolean
  <2>3. amend' = [amend EXCEPT ![a].eval = eval]
    BY <1>3 DEF Evaluate
  <2>4. UNCHANGED <<released, current, rejected, restarts>>
    BY <1>3 DEF Evaluate
  <2>5. [amend[a] EXCEPT !.eval = eval] \in Amendment
    <3> HIDE DEF verdict
    <3>1. eval \in Evaluated
      BY <2>1, <2>2 DEF Evaluated
    <3> HIDE DEF eval
    <3> QED BY <2>1, <3>1 DEF Amendment
  <2> HIDE DEF eval
  <2> QED BY <2>3, <2>4, <2>5 DEF TypeOK
<1>4. ASSUME NEW a \in Amendments, Approve(a)
      PROVE  TypeOK'
  <2>1. current \in Config /\ amend[a] \in Amendment
    BY <1>4, AmendmentCases DEF Approve, TypeOK
  <2>2. Apply(current, amend[a].diff) \in Config
    BY <2>1, ApplyIsTyped DEF Amendment
  <2> QED BY <1>4, <2>2 DEF Approve, TypeOK
<1>5. ASSUME NEW a \in Amendments, Reject(a)
      PROVE  TypeOK'
  <2>1. Range(amend[a].cases) \subseteq Cases
    BY <1>5, AmendmentCases DEF Reject, Range
  <2> QED BY <1>5, <2>1 DEF Reject, TypeOK
<1>6. ASSUME NEW config \in released, Rollback(config)
      PROVE  TypeOK'
  BY <1>6 DEF Rollback, TypeOK
<1>7. CASE Restart
  BY <1>7, BoundAssumption DEF Restart, NoRejections, TypeOK
<1>8. CASE UNCHANGED vars
  BY <1>8 DEF vars, TypeOK
<1> QED BY <1>1, <1>2, <1>3, <1>4, <1>5, <1>6, <1>7, <1>8 DEF Next

\* Every amendment is made of a configuration that was current, a diff and cases of
\* the suites' kind; the registry keeps cases under classes that exist.
THEOREM EvaluationTyped == Spec => []TypeOK
<1> QED BY InitIsTyped, StepIsTyped, PTL DEF Spec

-----------------------------------------------------------------------------
(* Verdicts and what they rest on *)

\* A verdict is that of the gates on the amendment as it is: neither its parent nor
\* its diff nor its cases change after an evaluation.
Judged ==
    \A a \in Passed : \E tie \in BOOLEAN :
        GatesPass(amend[a].parent, CandidateOf(a), amend[a].cases, amend[a].eval.past,
                  amend[a].eval.primary, tie)

\* Only the Steward gives an amendment cases, and it leaves the policy alone.
StewardDiff == [prompt : {None, StewardPrompt}, policy : {None}]
CasesAreTheStewards ==
    \A a \in Amendments :
        amend[a] # None /\ amend[a].cases # <<>> => amend[a].diff \in StewardDiff

VerdictInv == TypeOK /\ Judged /\ CasesAreTheStewards

\* An amendment is new in a step, or gets a verdict in it, or stays as it was.
LEMMA AmendmentSteps ==
    ASSUME TypeOK, [Next]_vars, NEW a \in Amendments, amend'[a] # amend[a]
    PROVE  \/ \E d \in Diffs : amend'[a] = NewAmendment(d, <<>>)
           \/ \E d \in StewardDiff, cs \in CaseLists : amend'[a] = NewAmendment(d, cs)
           \/ /\ amend[a] # None
              /\ \E primary \in Suites, tie \in BOOLEAN :
                    amend'[a] = [amend[a] EXCEPT !.eval =
                        [primary |-> primary, past |-> PastCases(a),
                         pass |-> GatesPass(amend[a].parent, CandidateOf(a), amend[a].cases,
                                            PastCases(a), primary, tie)]]
<1>1. DOMAIN amend = Amendments
  BY DEF TypeOK
<1>2. ASSUME NEW b \in Amendments, NEW d \in Diffs, Propose(b, d)
      PROVE  \E e \in Diffs : amend'[a] = NewAmendment(e, <<>>)
  BY <1>1, <1>2 DEF Propose
<1>3. ASSUME NEW b \in Amendments, NEW c \in Amendments, NEW cs \in CaseLists, Analyze(b, c, cs)
      PROVE  \E d \in StewardDiff : amend'[a] = NewAmendment(d, cs)
  <2> DEFINE nothing == [prompt |-> None, policy |-> None]
             d == [nothing EXCEPT !.prompt = StewardPrompt]
  <2>1. nothing \in StewardDiff /\ d \in StewardDiff
    BY DEF StewardDiff
  <2>2. amend' = [amend EXCEPT ![b] = NewAmendment(d, cs), ![c] = NewAmendment(nothing, cs)]
    BY <1>3 DEF Analyze
  <2> HIDE DEF nothing, d
  <2>3. amend'[a] = NewAmendment(d, cs) \/ amend'[a] = NewAmendment(nothing, cs)
    BY <1>1, <2>2
  <2> QED BY <2>1, <2>3
<1>4. ASSUME NEW b \in Amendments, NEW primary \in Suites, NEW tie \in BOOLEAN,
             Evaluate(b, primary, tie)
      PROVE  /\ amend[a] # None
             /\ amend'[a] = [amend[a] EXCEPT !.eval =
                    [primary |-> primary, past |-> PastCases(a),
                     pass |-> GatesPass(amend[a].parent, CandidateOf(a), amend[a].cases,
                                        PastCases(a), primary, tie)]]
  <2> DEFINE eval(x) == [primary |-> primary, past |-> PastCases(x),
                         pass |-> GatesPass(amend[x].parent, CandidateOf(x), amend[x].cases,
                                            PastCases(x), primary, tie)]
  <2>1. amend[b] # None /\ amend' = [amend EXCEPT ![b].eval = eval(b)]
    BY <1>4 DEF Evaluate
  <2>2. a = b
    <3> HIDE DEF eval
    <3> QED BY <1>1, <2>1
  <2>3. amend'[a] = [amend[a] EXCEPT !.eval = eval(a)]
    <3> HIDE DEF eval
    <3> QED BY <1>1, <2>1, <2>2
  <2> QED BY <2>1, <2>2, <2>3
<1>5. ASSUME UNCHANGED amend PROVE FALSE
  BY <1>5
<1>6. ASSUME NEW b \in Amendments, Approve(b) \/ Reject(b) PROVE UNCHANGED amend
  BY <1>6 DEF Approve, Reject
<1>7. ASSUME NEW config \in released, Rollback(config) PROVE UNCHANGED amend
  BY <1>7 DEF Rollback
<1>8. ASSUME Restart \/ UNCHANGED vars PROVE UNCHANGED amend
  BY <1>8 DEF Restart, vars
<1>9. \/ \E b \in Amendments, d \in Diffs : Propose(b, d)
      \/ \E b, c \in Amendments, cs \in CaseLists : Analyze(b, c, cs)
      \/ \E b \in Amendments, primary \in Suites, tie \in BOOLEAN : Evaluate(b, primary, tie)
      \/ UNCHANGED amend
  BY <1>6, <1>7, <1>8 DEF Next
<1>10. CASE \E b \in Amendments, d \in Diffs : Propose(b, d)
  BY <1>2, <1>10
<1>11. CASE \E b, c \in Amendments, cs \in CaseLists : Analyze(b, c, cs)
  BY <1>3, <1>11
<1>12. CASE \E b \in Amendments, primary \in Suites, tie \in BOOLEAN : Evaluate(b, primary, tie)
  <2>1. PICK b \in Amendments, primary \in Suites, tie \in BOOLEAN : Evaluate(b, primary, tie)
    BY <1>12
  <2> QED BY <1>4, <2>1, Zenon
<1> QED BY <1>5, <1>9, <1>10, <1>11, <1>12

LEMMA InitVerdicts == Init => VerdictInv
<1> SUFFICES ASSUME Init PROVE VerdictInv
  OBVIOUS
<1>1. \A a \in Amendments : amend[a] = None
  BY DEF Init
<1> QED BY <1>1, InitIsTyped DEF VerdictInv, Judged, Passed, CasesAreTheStewards

LEMMA StepKeepsVerdicts == VerdictInv /\ [Next]_vars => VerdictInv'
<1> SUFFICES ASSUME VerdictInv, [Next]_vars PROVE VerdictInv'
  OBVIOUS
<1> USE DEF VerdictInv
<1>1. TypeOK'
  BY StepIsTyped
<1>2. \A d, cs : /\ NewAmendment(d, cs).eval = None /\ NewAmendment(d, cs).diff = d
                 /\ NewAmendment(d, cs).cases = cs
  BY DEF NewAmendment
<1>3. Judged'
  <2> SUFFICES ASSUME NEW a \in Amendments,
                      amend'[a] # None, amend'[a].eval # None, amend'[a].eval.pass
               PROVE  \E tie \in BOOLEAN :
                        GatesPass(amend'[a].parent, Apply(amend'[a].parent, amend'[a].diff),
                                  amend'[a].cases, amend'[a].eval.past,
                                  amend'[a].eval.primary, tie)
    BY DEF Judged, Passed, CandidateOf
  <2>1. CASE amend'[a] = amend[a]
    BY <2>1 DEF Judged, Passed, CandidateOf
  <2>2. CASE \E d, cs : amend'[a] = NewAmendment(d, cs)
    BY <1>2, <2>2
  <2>3. ASSUME amend[a] # None, NEW primary \in Suites, NEW tie \in BOOLEAN,
               amend'[a] = [amend[a] EXCEPT !.eval =
                    [primary |-> primary, past |-> PastCases(a),
                     pass |-> GatesPass(amend[a].parent, CandidateOf(a), amend[a].cases,
                                        PastCases(a), primary, tie)]]
        PROVE  GatesPass(amend'[a].parent, Apply(amend'[a].parent, amend'[a].diff),
                         amend'[a].cases, amend'[a].eval.past, amend'[a].eval.primary, tie)
    <3> DEFINE verdict == GatesPass(amend[a].parent, CandidateOf(a), amend[a].cases,
                                    PastCases(a), primary, tie)
    <3>1. amend[a] \in Amendment
      BY <2>3, AmendmentCases
    <3> DEFINE eval == [primary |-> primary, past |-> PastCases(a), pass |-> verdict]
    <3>2. amend'[a] = [amend[a] EXCEPT !.eval = eval]
      BY <2>3
    <3>3. /\ amend'[a].parent = amend[a].parent /\ amend'[a].diff = amend[a].diff
          /\ amend'[a].cases = amend[a].cases /\ amend'[a].eval = eval
      <4> HIDE DEF eval
      <4> QED BY <3>1, <3>2 DEF Amendment
    <3>4. /\ amend'[a].eval.past = PastCases(a) /\ amend'[a].eval.primary = primary
          /\ amend'[a].eval.pass = verdict
      <4> HIDE DEF verdict
      <4> QED BY <3>3
    <3>5. verdict
      <4> HIDE DEF verdict, eval
      <4> QED BY <3>4
    <3> HIDE DEF eval
    <3> QED BY <3>3, <3>4, <3>5 DEF CandidateOf
  <2>4. CASE amend'[a] # amend[a]
    <3>1. \/ \E d, cs : amend'[a] = NewAmendment(d, cs)
          \/ /\ amend[a] # None
             /\ \E primary \in Suites, tie \in BOOLEAN :
                    amend'[a] = [amend[a] EXCEPT !.eval =
                        [primary |-> primary, past |-> PastCases(a),
                         pass |-> GatesPass(amend[a].parent, CandidateOf(a), amend[a].cases,
                                            PastCases(a), primary, tie)]]
      BY <2>4, AmendmentSteps
    <3>2. CASE \E d, cs : amend'[a] = NewAmendment(d, cs)
      BY <2>2, <3>2
    <3> QED BY <2>3, <3>1, <3>2
  <2> QED BY <2>1, <2>4
<1>4. CasesAreTheStewards'
  <2> SUFFICES ASSUME NEW a \in Amendments, amend'[a] # None, amend'[a].cases # <<>>
               PROVE  amend'[a].diff \in StewardDiff
    BY DEF CasesAreTheStewards
  <2>1. CASE amend'[a] = amend[a]
    BY <2>1 DEF CasesAreTheStewards
  <2>2. ASSUME NEW d, amend'[a] = NewAmendment(d, <<>>) PROVE FALSE
    BY <1>2, <2>2
  <2>3. ASSUME NEW d \in StewardDiff, NEW cs, amend'[a] = NewAmendment(d, cs)
        PROVE  amend'[a].diff \in StewardDiff
    BY <1>2, <2>3
  <2>4. ASSUME amend[a] # None, NEW eval, amend'[a] = [amend[a] EXCEPT !.eval = eval]
        PROVE  amend'[a].diff \in StewardDiff
    <3>1. amend[a] \in Amendment
      BY <2>4, AmendmentCases
    <3>2. amend'[a].diff = amend[a].diff /\ amend'[a].cases = amend[a].cases
      BY <2>4, <3>1 DEF Amendment
    <3> QED BY <2>4, <3>2 DEF CasesAreTheStewards
  <2> QED BY <2>1, <2>2, <2>3, <2>4, AmendmentSteps
<1> QED BY <1>1, <1>3, <1>4

LEMMA VerdictsHold == Spec => []VerdictInv
<1> QED BY InitVerdicts, StepKeepsVerdicts, PTL DEF Spec

-----------------------------------------------------------------------------
(* What passing means *)

\* Facts of a verdict: the gates passed on typed arguments.
LEMMA VerdictOf ==
    ASSUME VerdictInv, NEW a \in Passed
    PROVE  /\ a \in Amendments /\ amend[a] \in Amendment
           /\ amend[a].cases \in Seq(Cases)
           /\ amend[a].eval.past \in SUBSET Cases /\ amend[a].eval.primary \in Suites
           /\ \E tie \in BOOLEAN :
                GatesPass(amend[a].parent, CandidateOf(a), amend[a].cases,
                          amend[a].eval.past, amend[a].eval.primary, tie)
<1>1. a \in Amendments /\ amend[a] # None /\ amend[a].eval # None
  BY DEF Passed
<1>2. amend[a] \in Amendment /\ amend[a].cases \in Seq(Cases)
  BY <1>1, AmendmentCases DEF VerdictInv
<1>3. amend[a].eval \in Evaluated
  BY <1>1, <1>2 DEF Amendment
<1> QED BY <1>1, <1>2, <1>3 DEF VerdictInv, Judged, Evaluated

LEMMA PassedPrompt ==
    ASSUME VerdictInv, NEW a \in Passed
    PROVE  CandidateOf(a).prompt \notin Stepwise
BY VerdictOf, PassedAreNotStepwise

\* Whatever suite was asked for and whatever was replayed, a candidate that passes
\* treats at most two in seven categories of either safety suite the wrong way.
THEOREM PassingCandidatesAreSafe == Spec => []PassingIsSafe
<1>1. ASSUME VerdictInv PROVE PassingIsSafe
  <2> SUFFICES ASSUME NEW a \in Passed
               PROVE  LET policy == CandidateOf(a).policy IN
                      /\ 7 * Cardinality(Harmful \ policy) <= 2 * Cardinality(Harmful)
                      /\ 7 * Cardinality(Benign \cap policy) <= 2 * Cardinality(Benign)
    BY DEF PassingIsSafe
  <2>1. PICK tie \in BOOLEAN :
          GatesPass(amend[a].parent, CandidateOf(a), amend[a].cases,
                    amend[a].eval.past, amend[a].eval.primary, tie)
    BY <1>1, VerdictOf
  <2> QED BY <2>1, PassedAreSafe
<1> QED BY <1>1, VerdictsHold, PTL

\* A candidate that passes answers every core task exactly.
THEOREM PassingCandidatesAnswer == Spec => []PassingAnswersCore
<1>1. ASSUME VerdictInv PROVE PassingAnswersCore
  <2> SUFFICES ASSUME NEW a \in Passed, NEW i \in DOMAIN CoreSuite
               PROVE  Replay(CandidateOf(a), CoreSuite[i]).score = 100
    BY DEF PassingAnswersCore
  <2>1. Kind[CoreSuite[i]] = "value"
    BY CasesAssumption
  <2>2. ExecuteTask(CandidateOf(a), CoreSuite[i]) = "exact"
    BY <1>1, <2>1, PassedPrompt DEF ExecuteTask
  <2> QED BY <2>2 DEF Replay, AssessCorrectness, Answer
<1> QED BY <1>1, VerdictsHold, PTL

\* What the Steward proposes and the gates let pass changes no answer.
THEOREM StewardIsWithoutEffect == Spec => []StewardChangesNothing
<1>1. ASSUME VerdictInv PROVE StewardChangesNothing
  <2> SUFFICES ASSUME NEW a \in Passed, amend[a].cases # <<>>, NEW case \in Cases
               PROVE  ExecuteTask(CandidateOf(a), case) = ExecuteTask(amend[a].parent, case)
    BY DEF StewardChangesNothing
  <2>1. amend[a].diff.prompt \in {None, StewardPrompt}
    BY <1>1 DEF VerdictInv, CasesAreTheStewards, StewardDiff, Passed
  <2>2. CandidateOf(a).prompt \notin Stepwise /\ StewardPrompt \in Stepwise
    BY <1>1, PassedPrompt, ConfigAssumption
  <2>3. CandidateOf(a).prompt
          = IF amend[a].diff.prompt = None THEN amend[a].parent.prompt ELSE amend[a].diff.prompt
    BY DEF CandidateOf, Apply
  <2>4. CandidateOf(a).prompt = amend[a].parent.prompt
    BY <2>1, <2>2, <2>3
  <2> QED BY <2>4 DEF ExecuteTask
<1> QED BY <1>1, VerdictsHold, PTL

\* An evaluation that passes with the cases of earlier rejections passes without
\* them, but for the rounding of the mean of 0.85.
THEOREM HistoryIsHarmless == Spec => []HistoryNeverHelps
<1>1. ASSUME VerdictInv PROVE HistoryNeverHelps
  BY <1>1, VerdictOf, PastNeverHelps DEF HistoryNeverHelps
<1> QED BY <1>1, VerdictsHold, PTL

\* An evaluation with "core" that passes gets none of the amendment's own cases
\* wrong, however long the suite and the list of cases are.
THEOREM CoreVerdictsFixTheirCases == Spec => []PassingInCoreFixesItsCases
<1>1. ASSUME VerdictInv PROVE PassingInCoreFixesItsCases
  <2> SUFFICES ASSUME NEW a \in Passed, amend[a].eval.primary = "core",
                      NEW i \in DOMAIN amend[a].cases
               PROVE  Replay(CandidateOf(a), amend[a].cases[i]).score >= 50
    BY DEF PassingInCoreFixesItsCases
  <2> DEFINE config == CandidateOf(a)
             own == amend[a].cases
             past == amend[a].eval.past
             run == Runs(config, own, past)["core"]
             mine == OwnRun(config, own)
             theirs == PastRun(config, past)
  <2>1. own \in Seq(Cases) /\ past \in SUBSET Cases /\ Regressions(run) = 0
    BY <1>1, VerdictOf DEF GatesPass
  <2>2. /\ mine \in Seq(Answers) /\ theirs \in Seq(Answers)
        /\ Regressions(run) = Regressions(mine) + Regressions(theirs)
    BY <2>1, CoreRunAddsUp
  <2>3. PICK j \in DOMAIN mine : mine[j] = Replay(config, own[i])
    BY <2>1, OwnRunIsTyped
  <2>4. \A k \in DOMAIN mine : ~ (mine[k].score < 50)
    <3> HIDE DEF run, mine, theirs
    <3>1. Regressions(mine) \in Nat /\ Regressions(theirs) \in Nat
      BY <2>2, NoRegressions
    <3> QED BY <2>1, <2>2, <3>1, NoRegressions
  <2>5. mine[j].score \in Int
    <3> HIDE DEF mine
    <3>1. mine[j] \in Answers
      BY <2>2, LenProperties, ElementOfSeq
    <3> QED BY <3>1 DEF Answers, AnswersOf, Scores
  <2> HIDE DEF mine
  <2> QED BY <2>3, <2>4, <2>5
<1> QED BY <1>1, VerdictsHold, PTL
=============================================================================
