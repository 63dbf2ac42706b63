------------------------------ MODULE MCGovernance ------------------------------
(***************************************************************************)
(* Small instances of Governance for TLC.  Two entries stand for a prompt, *)
(* which amendments change, and for the model identifier, which they may   *)
(* not; the diffs are two changes of the prompt and one of the model.      *)
(***************************************************************************)
EXTENDS GovernanceClaims, TLC

CONSTANTS prompt, memory_rule, model, old, new, steward

MCKeys == {prompt, memory_rule, model}
MCValues == {old, new}
MCV0Config == [k \in MCKeys |-> old]
MCForbidden == {model}

PromptDiff == prompt :> new
MemoryDiff == memory_rule :> new
ModelDiff == model :> new

MCDiffs == {PromptDiff, MemoryDiff, ModelDiff}
LegalDiffs == {PromptDiff, MemoryDiff}

\* BOUNDS of gov_faults: nothing is rejected, and the history is one of these.
\* Two amendments of the prompt, whatever fails and whoever approves.
TwoAmendments ==
    /\ Cardinality(issued) <= 2
    /\ \A a \in issued : amend[a] # None => amend[a].diff = PromptDiff

\* Three amendments, one of the memory among the first two, where the write that
\* fails is that of a release and the crash comes after it; nothing is rolled back,
\* evaluations pass, the human approves.
LostRelease ==
    /\ faults = 0 => Cardinality(issued) <= 2
    /\ faults = 1 => \E a \in Amendments : dAmend[a] # None /\ dAmend[a].diff = MemoryDiff
    /\ faults = 1 /\ crashes = 0 => released # dReleased
    /\ crashes = 1 => faults = 1
    /\ req.reviewer # steward
    /\ \A i \in 1..Len(trail) : trail[i].action = "promote"
    /\ \A a \in Amendments :
        amend[a] # None =>
            amend[a].reviewer # steward /\ (amend[a].eval = None \/ amend[a].eval.pass)

FailingWrites == learned = {} /\ (TwoAmendments \/ LostRelease)

MCSymmetry == Permutations(Amendments)
=============================================================================
