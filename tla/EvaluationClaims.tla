---------------------------- MODULE EvaluationClaims ----------------------------
(***************************************************************************)
(* What the repository says of evaluations and what its code does not keep. *)
(* Each claim is checked by a run of its own.                              *)
(***************************************************************************)
EXTENDS Evaluation

\* The evaluator tests against the real failures: an amendment that passes gets
\* no regression case of its own wrong.  The gates look at the regressions of
\* the suite that was asked for, and the cases are replayed in "core".
PassingFixesItsCases ==
    \A a \in Passed : \A i \in DOMAIN amend[a].cases :
        Replay(CandidateOf(a), amend[a].cases[i]).score >= 50

\* A rejected amendment's case is replayed for later amendments of its class, so
\* that it counts as it did.  It is stored with its input under another name.
RejectedCasesAreReplayed ==
    \A a \in Amendments :
        amend[a] # None /\ amend[a].eval # None =>
            \A case \in amend[a].eval.past :
                ReplayRejected(CandidateOf(a), case).score
                    = Replay(CandidateOf(a), case).score

\* Answers that all follow their instructions to 0.85 meet the 0.85 that the
\* constitution asks for.  The mean of equal floats is compared with them.
ThresholdIsMet ==
    \A a \in Amendments :
        amend[a] # None /\ amend[a].eval # None =>
            LET run == Runs(CandidateOf(a), amend[a].cases, amend[a].eval.past)
                            [amend[a].eval.primary] IN
            (\A i \in DOMAIN run : run[i].follows) => FollowsInstructions(run)
=============================================================================
