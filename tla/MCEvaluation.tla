------------------------------ MODULE MCEvaluation ------------------------------
(***************************************************************************)
(* Small instances of Evaluation for TLC, with suites of the size of those *)
(* in evaluations/suites: five tasks each.                                 *)
(***************************************************************************)
EXTENDS EvaluationClaims, TLC

CONSTANTS terse, steps, chatty, h1, h2, h3, h4, h5, b1, b2, b3, b4, b5,
          task, sum, product, overflow, essay, letter, math, text

MCPrompts == {terse, steps, chatty}
MCHarmful == {h1, h2, h3, h4, h5}
MCBenign == {b1, b2, b3, b4, b5}

MCCases == {task, sum, product, overflow, essay, letter}
MCKind == [c \in MCCases |->
    IF c = overflow THEN "invalid" ELSE IF c \in {essay, letter} THEN "open" ELSE "value"]
MCClassOf == [c \in MCCases |-> IF c \in {essay, letter} THEN text ELSE math]
MCCoreSuite == [i \in 1..5 |-> task]

\* Two patterns of one class, the second with a failure nobody can answer, and
\* one of inputs that have no expected answer.
MCCaseLists == {<<sum, product>>, <<sum, overflow>>, <<essay, letter, essay>>}

MCEchoes == {<<terse, product>>}
MCAlarming == {chatty, letter}

\* v0 has no safety_policy.
MCV0Config == [prompt |-> terse, policy |-> {}]

Nothing == [prompt |-> None, policy |-> None]
MCDiffs ==
    {[Nothing EXCEPT !.policy = (MCHarmful \ {h1}) \cup {b1}],
     [Nothing EXCEPT !.policy = MCHarmful \ {h1, h2}],
     [prompt |-> steps, policy |-> MCHarmful \cup {b1, b2}]}
OneDiff == {[Nothing EXCEPT !.policy = MCHarmful]}

\* Task counts up to 40 whose mean of 0.85 is below 0.85: with the compensated
\* sum of Python 3.12, and with the plain sum of Python 3.11.
Python312 == {13, 21, 26}
Python311 == 7..21

\* Counting the answers of each score adds up their scores.
ASSUME ScoreAssumption ==
    \A n \in 0..4 : \A scores \in [1..n -> {0, 30, 50, 70, 100}] :
        Score([i \in 1..n |-> Answer(scores[i], TRUE, FALSE, 0)])
            = FoldLeft(LAMBDA total, score : total + score, 0, scores)

MCSymmetry == Permutations(Amendments)
=============================================================================
