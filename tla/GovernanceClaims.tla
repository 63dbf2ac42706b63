---------------------------- MODULE GovernanceClaims ----------------------------
(***************************************************************************)
(* What the repository's documents, comments and tests say of the pipeline *)
(* and what its code does not keep.  Each claim is checked by a run of its *)
(* own, which ends in a counterexample; README.md tells each story.        *)
(***************************************************************************)
EXTENDS Governance

\* A release is the exact sandbox candidate that was evaluated.  The promotion
\* applies the diff to the runtime that is current, not to the evaluated parent.
ExactCandidatePromoted ==
    \A v \in ReleasedOn(dReleased) \ {0} :
        dReleased[v].config = dCandidates[dReleased[v].amendment].config

\* Approval requires status "review" or "approved".  The handler sets "approved"
\* before the Governor looks, so a rejected or a promoted amendment passes too.
ApprovalNeedsReview ==
    [][\A a \in Amendments :
        pc = "idle" /\ pc' = "approve.save" /\ req'.amendment = a
            /\ Approvable(a, req.reviewer, req.cites)' =>
                amend[a].status \in {"review", "approved"}]_vars
=============================================================================
