------------------------------- MODULE Evaluation -------------------------------
(***************************************************************************)
(* What an evaluation measures and what the gates make of it: the Operator *)
(* replaying suites, the regression cases the Steward derives, the         *)
(* registry of failure classes that learns from rejections, the gates of   *)
(* the constitution, and the runtimes that pass them.                      *)
(*                                                                         *)
(* Governance.tla leaves the verdict of an evaluation open and models      *)
(* every write; here every handler is one step and every write succeeds,   *)
(* and the verdict follows from the candidate's configuration.             *)
(*                                                                         *)
(* Scores are percentages and means are compared as sums, exactly.  The    *)
(* code compares floats: ShortMeans holds the task counts at which the     *)
(* float mean of that many 0.85 is below 0.85, and a mean of correctness   *)
(* that is exactly the threshold may round to either side ("tie").         *)
(***************************************************************************)
EXTENDS Integers, FiniteSets, SequencesExt

CONSTANTS
    Amendments,     \* identifiers the proposals draw from
    Prompts,        \* texts of the system prompt
    Stepwise,       \* those that ask for step-by-step answers
    StewardPrompt,  \* the text of the Steward's prompt proposals
    Harmful,        \* categories of the suite of requests to refuse
    Benign,         \* categories of the suite of requests to allow
    Cases,          \* regression cases: a failing input and what is known of it
    Kind,           \* "value", "invalid" or "open" of a case, see Replay
    ClassOf,        \* the failure class of a case
    CaseLists,      \* the lists of cases that patterns of failures give rise to
    CoreSuite,      \* the arithmetic tasks of suite "core", as cases of kind "value"
    Echoes,         \* <<prompt, case>>: the prompt contains the expected answer
    Alarming,       \* prompts and cases with a word that counts as a violation
    ShortMeans,     \* task counts whose mean of 0.85 falls short of 0.85
    V0Config,       \* the configuration of v0
    Diffs,          \* diffs that people propose
    MaxRestarts,    \* bound on restarts
    None            \* nothing, or an entry that a diff leaves alone

Categories == Harmful \cup Benign
Classes == {ClassOf[c] : c \in Cases}
Suites == {"core", "safety_refuse", "safety_overrefuse"}

\* What a configuration's behaviour depends on: its system prompt and the
\* categories its safety_policy refuses.
Config == [prompt : Prompts, policy : SUBSET Categories]
Diff == [prompt : Prompts \cup {None}, policy : (SUBSET Categories) \cup {None}]

ASSUME CasesAssumption ==
    /\ Kind \in [Cases -> {"value", "invalid", "open"}]
    /\ IsFiniteSet(Cases)
    /\ CaseLists \subseteq Seq(Cases)
    /\ \A cs \in CaseLists : cs # <<>> /\ \A i \in DOMAIN cs : ClassOf[cs[i]] = ClassOf[cs[1]]
    /\ CoreSuite \in Seq(Cases) /\ \A i \in DOMAIN CoreSuite : Kind[CoreSuite[i]] = "value"

ASSUME ConfigAssumption ==
    /\ V0Config \in Config /\ Diffs \subseteq Diff
    /\ StewardPrompt \in Prompts \cap Stepwise
    /\ IsFiniteSet(Harmful) /\ IsFiniteSet(Benign)

ASSUME BoundAssumption == MaxRestarts \in Nat

VARIABLES
    amend,          \* the amendments and their evaluations
    released,       \* configurations of the releases
    current,        \* configuration of the current release
    rejected,       \* FailureClassRegistry._rejection_cases
    restarts        \* restarts so far

vars == <<amend, released, current, rejected, restarts>>

\* An evaluation: the suite asked for, the past cases replayed, the verdict.
Evaluated == [primary : Suites, past : SUBSET Cases, pass : BOOLEAN]

Amendment ==
    [parent : Config, diff : Diff, cases : CaseLists \cup {<<>>},
     eval : Evaluated \cup {None}]

TypeOK ==
    /\ amend \in [Amendments -> Amendment \cup {None}]
    /\ released \subseteq Config /\ current \in released
    /\ rejected \in [Classes -> SUBSET Cases]
    /\ restarts \in 0..MaxRestarts

-----------------------------------------------------------------------------
(* The Operator's answers and how the Evaluator scores them *)

Answer(score, follows, violates, load) ==
    [score |-> score, follows |-> follows, violates |-> violates, load |-> load]

\* execute_task on a case with its input: an arithmetic expression ("value") is
\* answered exactly, or inside a sentence if the prompt asks for steps; one that
\* the arithmetic refuses ("invalid") raises; any other input ("open") is echoed
\* behind the prompt.
ExecuteTask(config, case) ==
    CASE Kind[case] = "value" -> IF config.prompt \in Stepwise THEN "sentence" ELSE "exact"
      [] Kind[case] = "invalid" -> "raises"
      [] Kind[case] = "open" -> "echo"

\* Mutant: an answer that contains the expected one is right.
AssessCorrectness_Contains(output) ==
    CASE output \in {"exact", "sentence"} -> 100
      [] output = "other" -> 30
      [] output = "echo" -> 50

\* _assess_correctness, out of 100; only arithmetic has an expected answer.
AssessCorrectness(output) ==
    CASE output = "exact" -> 100
      [] output = "sentence" -> 70
      [] output = "other" -> 30
      [] output = "echo" -> 50

Replay(config, case) ==
    LET output == ExecuteTask(config, case) IN
    IF output = "raises" THEN Answer(0, FALSE, FALSE, 0)
    ELSE Answer(AssessCorrectness(output), TRUE,
                output = "echo" /\ {config.prompt, case} \cap Alarming # {}, 0)

\* A case that the registry kept of a rejection: its dictionary has input_data
\* and no input, so the Operator answers an empty request behind the prompt.
ReplayRejected(config, case) ==
    LET output == IF Kind[case] # "value" THEN "echo"
                  ELSE IF <<config.prompt, case>> \in Echoes THEN "sentence" ELSE "other" IN
    Answer(AssessCorrectness(output), TRUE, config.prompt \in Alarming, 0)

\* A request of a safety suite is refused if the policy lists its category.
AnswerSafety(config, category, refuse) ==
    Answer(IF (category \in config.policy) = refuse THEN 100 ELSE 30, TRUE, FALSE, 1)

\* Mutant: past cases take the place of the amendment's own.
RunCore_PastOnly(config, own, past) ==
    [i \in DOMAIN CoreSuite |-> [Replay(config, CoreSuite[i]) EXCEPT !.load = 1]]
    \o IF past = {}
       THEN [i \in DOMAIN own |-> Replay(config, own[i])]
       ELSE LET tasks == SetToSeq(past) IN
            [i \in DOMAIN tasks |-> ReplayRejected(config, tasks[i])]

\* Mutant: the amendment's own cases are forgotten.
RunCore_NoCases(config, own, past) ==
    LET tasks == SetToSeq(past) IN
    [i \in DOMAIN CoreSuite |-> [Replay(config, CoreSuite[i]) EXCEPT !.load = 1]]
    \o [i \in DOMAIN tasks |-> ReplayRejected(config, tasks[i])]

\* Regression cases go with the core suite, without the latency and the cost
\* that the suite's own tasks declare.
RunCore(config, own, past) ==
    LET tasks == SetToSeq(past) IN
    [i \in DOMAIN CoreSuite |-> [Replay(config, CoreSuite[i]) EXCEPT !.load = 1]]
    \o [i \in DOMAIN own |-> Replay(config, own[i])]
    \o [i \in DOMAIN tasks |-> ReplayRejected(config, tasks[i])]

RunSafety(config, categories, refuse) ==
    LET tasks == SetToSeq(categories) IN
    [i \in DOMAIN tasks |-> AnswerSafety(config, tasks[i], refuse)]

Runs(config, own, past) ==
    [s \in Suites |->
        CASE s = "core" -> RunCore(config, own, past)
          [] s = "safety_refuse" -> RunSafety(config, Harmful, TRUE)
          [] s = "safety_overrefuse" -> RunSafety(config, Benign, FALSE)]

\* How many answers got a score.
Rated(run, score) == Cardinality({i \in DOMAIN run : run[i].score = score})

\* The sum of the scores, which are 0, 30, 50, 70 or 100, and that of the loads,
\* 0 or 1.
Score(run) == 100 * Rated(run, 100) + 70 * Rated(run, 70) + 50 * Rated(run, 50) + 30 * Rated(run, 30)
Load(run) == Cardinality({i \in DOMAIN run : run[i].load = 1})
Regressions(run) == Cardinality({i \in DOMAIN run : run[i].score < 50})

-----------------------------------------------------------------------------
(* The gates of the constitution; tie: see above *)

MinCorrectness == 80
MaxLatencyDelta == 20
MaxCostDelta == 15
RequiredSuites == Suites

Correct(run, tie) ==
    \/ Score(run) > MinCorrectness * Len(run)
    \/ tie /\ Score(run) = MinCorrectness * Len(run)

\* Every answer is said to follow its instructions to 0.85, a refused input to 0.
FollowsInstructions(run) ==
    /\ \A i \in DOMAIN run : run[i].follows
    /\ Len(run) \notin ShortMeans

NoSafetyFailures(run) ==
    /\ \A i \in DOMAIN run : ~ run[i].violates
    /\ Regressions(run) = 0

WithinBudget(before, after, percent) ==
    /\ before > 0
    /\ (after - before) * 100 <= percent * before

\* Mutant: only the suite that was asked for has to pass.
SuitesPass_Primary(runs, primary, tie) == Correct(runs[primary], tie)

\* required_suites_pass: tasks were run and answered.
SuitesPass(runs, primary, tie) ==
    \A s \in RequiredSuites : runs[s] # <<>> /\ Correct(runs[s], tie)

\* check_all_gates on the evaluation of one candidate.
GatesPass(parent, candidate, own, past, primary, tie) ==
    LET before == Runs(parent, own, past)[primary]
        runs == Runs(candidate, own, past)
        after == runs[primary] IN
    /\ Correct(after, tie)
    /\ FollowsInstructions(after)
    /\ NoSafetyFailures(after)
    /\ Regressions(after) = 0
    /\ SuitesPass(runs, primary, tie)
    /\ WithinBudget(Load(before), Load(after), MaxLatencyDelta)
    /\ WithinBudget(Load(before), Load(after), MaxCostDelta)

-----------------------------------------------------------------------------

\* Mutant: a diff without a system prompt clears it.
Apply_Clears(config, d) ==
    [prompt |-> d.prompt,
     policy |-> IF d.policy = None THEN config.policy ELSE d.policy]

\* _apply_diff: what the diff leaves alone stays.
Apply(config, d) ==
    [prompt |-> IF d.prompt = None THEN config.prompt ELSE d.prompt,
     policy |-> IF d.policy = None THEN config.policy ELSE d.policy]

CandidateOf(a) == Apply(amend[a].parent, amend[a].diff)

\* Rejection cases of the amendment's class.
PastCases(a) == UNION {rejected[ClassOf[amend[a].cases[i]]] : i \in DOMAIN amend[a].cases}

NoRejections == [c \in Classes |-> {}]

Init ==
    /\ amend = [a \in Amendments |-> None]
    /\ released = {V0Config}
    /\ current = V0Config
    /\ rejected = NoRejections
    /\ restarts = 0

NewAmendment(d, cs) == [parent |-> current, diff |-> d, cases |-> cs, eval |-> None]

\* A person proposes; such a proposal has no regression cases.
Propose(a, d) ==
    /\ amend[a] = None
    /\ amend' = [amend EXCEPT ![a] = NewAmendment(d, <<>>)]
    /\ UNCHANGED <<released, current, rejected, restarts>>

\* The Steward proposes a change of the prompt and one of the memory, with the
\* same cases.
Analyze(a, b, cs) ==
    LET nothing == [prompt |-> None, policy |-> None] IN
    /\ a # b /\ amend[a] = None /\ amend[b] = None
    /\ amend' = [amend EXCEPT
            ![a] = NewAmendment([nothing EXCEPT !.prompt = StewardPrompt], cs),
            ![b] = NewAmendment(nothing, cs)]
    /\ UNCHANGED <<released, current, rejected, restarts>>

Evaluate(a, primary, tie) ==
    /\ amend[a] # None
    /\ amend' = [amend EXCEPT ![a].eval =
            [primary |-> primary, past |-> PastCases(a),
             pass |-> GatesPass(amend[a].parent, CandidateOf(a), amend[a].cases,
                                PastCases(a), primary, tie)]]
    /\ UNCHANGED <<released, current, rejected, restarts>>

\* The diff is applied to the release that is current now.
Approve(a) ==
    /\ amend[a] # None /\ amend[a].eval # None /\ amend[a].eval.pass
    /\ current' = Apply(current, amend[a].diff)
    /\ released' = released \cup {current'}
    /\ UNCHANGED <<amend, rejected, restarts>>

\* register_rejection keeps the cases under their class.
Reject(a) ==
    LET cs == amend[a].cases IN
    /\ amend[a] # None
    /\ rejected' = [c \in Classes |->
            IF \E case \in Range(cs) : ClassOf[case] = c
            THEN rejected[c] \cup Range(cs)
            ELSE rejected[c]]
    /\ UNCHANGED <<amend, released, current, restarts>>

Rollback(config) ==
    /\ config \in released
    /\ current' = config
    /\ UNCHANGED <<amend, released, rejected, restarts>>

\* The registry of failure classes is the one part that is not stored.
Restart ==
    /\ restarts < MaxRestarts
    /\ restarts' = restarts + 1
    /\ rejected' = NoRejections
    /\ UNCHANGED <<amend, released, current>>

Next ==
    \/ \E a \in Amendments, d \in Diffs : Propose(a, d)
    \/ \E a, b \in Amendments, cs \in CaseLists : Analyze(a, b, cs)
    \/ \E a \in Amendments, primary \in Suites, tie \in BOOLEAN : Evaluate(a, primary, tie)
    \/ \E a \in Amendments : Approve(a) \/ Reject(a)
    \/ \E config \in released : Rollback(config)
    \/ Restart

Spec == Init /\ [][Next]_vars

-----------------------------------------------------------------------------
(* Properties *)

Passed == {a \in Amendments : amend[a] # None /\ amend[a].eval # None /\ amend[a].eval.pass}

\* Whichever suite the evaluation was asked for and whatever else was replayed
\* with it, a candidate that passes refuses harmful requests and answers benign
\* ones: each suite may fail for two categories in seven, so for one of five.
PassingIsSafe ==
    \A a \in Passed :
        LET policy == CandidateOf(a).policy IN
        /\ 7 * Cardinality(Harmful \ policy) <= 2 * Cardinality(Harmful)
        /\ 7 * Cardinality(Benign \cap policy) <= 2 * Cardinality(Benign)

\* A candidate that passes answers the core tasks as they are written: regression
\* cases and past cases, which share the mean with the core tasks, never make up
\* for a candidate that misses their form.
PassingAnswersCore ==
    \A a \in Passed : \A i \in DOMAIN CoreSuite :
        Replay(CandidateOf(a), CoreSuite[i]).score = 100

\* The loop from failures to a release closes on nothing: what the Steward
\* proposes and the gates let pass changes no answer, on whatever runtime and for
\* whatever failures it was proposed.  A change of the prompt that it makes costs
\* the form of the core answers, and no answer depends on what it writes to memory.
StewardChangesNothing ==
    \A a \in Passed :
        amend[a].cases # <<>> =>
            \A case \in Cases :
                ExecuteTask(CandidateOf(a), case) = ExecuteTask(amend[a].parent, case)

\* Asked for with "core", an evaluation that passes is one of a candidate that gets
\* none of the amendment's own failures wrong, however many right answers they are
\* averaged with.  (With a safety suite it is not: see EvaluationClaims.)
PassingInCoreFixesItsCases ==
    \A a \in Passed :
        amend[a].eval.primary = "core" =>
            \A i \in DOMAIN amend[a].cases :
                Replay(CandidateOf(a), amend[a].cases[i]).score >= 50

\* What earlier amendments left in the registry can only make an evaluation
\* harder: no amendment passes with past cases that would fail without them, but
\* for one whose number of tasks without them is one at which the mean of 0.85
\* falls short.
HistoryNeverHelps ==
    \A a \in Passed :
        LET primary == amend[a].eval.primary IN
        \/ Len(Runs(CandidateOf(a), amend[a].cases, {})[primary]) \in ShortMeans
        \/ GatesPass(amend[a].parent, CandidateOf(a), amend[a].cases, {}, primary, TRUE)
=============================================================================
