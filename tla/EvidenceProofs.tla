---------------------------- MODULE EvidenceProofs ----------------------------
(***************************************************************************)
(* Theorems about Governance while no handler's write fails: an evaluation *)
(* stays the evaluation of what would be promoted, a release is what was   *)
(* evaluated; and, until anything fails, the audit log alone tells which   *)
(* runtime is current.                                                     *)
(***************************************************************************)
EXTENDS RestartProofs

\* build_candidate of an amendment's record over some table of releases.
CandidateFrom(record, a, rows) ==
    [parent    |-> record.parent,
     config    |-> ApplyDiff(rows[record.parent].config, record.diff),
     amendment |-> a]

\* Attached evaluations are about what build_candidate gives.
Bound(table, rows) ==
    \A a \in Amendments :
        table[a] # None /\ table[a].eval # None =>
            /\ Has(rows, table[a].parent)
            /\ CandidateFrom(table[a], a, rows) = table[a].eval.candidate

EvidenceInv ==
    /\ Up => Bound(amend, released)
    /\ Bound(dAmend, dReleased)
    /\ pc \in {"evaluate.candidate", "evaluate.run"} =>
            /\ CanBuild(req.amendment)
            /\ candidates[req.amendment] = BuildCandidate(req.amendment)

\* Releases that are added leave the evaluations bound.
LEMMA BoundStays ==
    ASSUME NEW table, NEW rows, NEW more, Bound(table, rows),
           \A v \in Versions : Has(rows, v) => more[v] = rows[v]
    PROVE  Bound(table, more)
BY DEF Bound, CandidateFrom, Has

\* So does an amendment that keeps its parent, its diff and its evaluation.
LEMMA BoundMoves ==
    ASSUME TypeOK, NEW a \in Amendments, NEW record, Bound(amend, released),
           amend' = [amend EXCEPT ![a] = record],
           \/ record.eval = None
           \/ /\ amend[a] # None
              /\ record.eval = amend[a].eval
              /\ record.parent = amend[a].parent /\ record.diff = amend[a].diff
    PROVE  Bound(amend', released)
<1>1. ASSUME NEW b \in Amendments, amend'[b] # None, amend'[b].eval # None
      PROVE  /\ Has(released, amend'[b].parent)
             /\ CandidateFrom(amend'[b], b, released) = amend'[b].eval.candidate
  <2>1. CASE b = a
    <3>1. amend'[b] = record
      BY <2>1 DEF TypeOK
    <3> QED BY <1>1, <2>1, <3>1 DEF Bound, CandidateFrom
  <2>2. CASE b # a
    BY <1>1, <2>2 DEF Bound, CandidateFrom, TypeOK
  <2> QED BY <2>1, <2>2
<1> QED BY <1>1 DEF Bound

\* The steps that change an amendment in memory.
LEMMA AmendmentsChange ==
    ASSUME [Next]_vars, amend' # amend
    PROVE  \/ Boot \/ Crash \/ BootFails
           \/ \E a \in Amendments, d \in Diffs, p \in Proposers : Propose(a, d, p)
           \/ \E a \in Amendments : Evaluate(a)
           \/ \E pass \in BOOLEAN : RunSuites(pass)
           \/ \E a \in Amendments, r \in Reviewers, cites \in BOOLEAN : Approve(a, r, cites)
           \/ PromotionSavesCurrent
           \/ \E a \in Amendments : Reject(a)
BY DEF Next, BootNext, BootstrapV0, BootSavesRuntime, BootSavesCurrent, AnswerError,
   ProposeNext, SaveProposal, EvaluateNext, SaveSandboxManifest, SuiteIsUnknown,
   SaveEvaluation, ApproveNext, ApprovalRefused, ApprovalGranted, PromotionSavesRuntime,
   PromotionSavesAudit, SavePromotion, RejectNext, SaveRejection, RollbackNext, Rollback,
   RollbackSavesCurrent, RollbackSavesAudit, FailureNext, HandlerFails, memory, vars

\* Releases in memory are only added, but for the end of the process.
LEMMA MemoryOnlyGrows ==
    ASSUME TypeInv, [Next]_vars, ~ Boot, ~ Crash, ~ BootFails,
           NEW v \in Versions, Has(released, v)
    PROVE  released'[v] = released[v]
<1>1. CASE released' = released
  BY <1>1
<1>2. CASE BootstrapV0
  BY <1>2 DEF BootstrapV0, CreateRuntime, HasVersion, Has, TypeInv, TypeOK, RegistryTypeOK
<1>3. CASE ApprovalGranted
  BY <1>3, GrantedRelease DEF Has, TypeInv, TypeOK, RegistryTypeOK
<1> QED BY <1>1, <1>2, <1>3, MemoryRowsChange

LEMMA EvidenceInMemory ==
    ASSUME ~ HandlerFails, TypeInv, EvidenceInv, [Next]_vars, Up'
    PROVE  Bound(amend', released')
<1>1. CASE Boot
  BY <1>1 DEF Boot, RegistryLoads, EvidenceInv
<1>2. CASE Crash \/ BootFails
  BY <1>2 DEF Crash, BootFails, MemoryIsLost, Up
<1>3. CASE ~ Boot /\ ~ Crash /\ ~ BootFails
  <2>1. \A v \in Versions : Has(released, v) => released'[v] = released[v]
    BY <1>3, MemoryOnlyGrows
  <2>2. Up
    <3>1. CASE UNCHANGED vars
      BY <3>1 DEF vars, Up
    <3>2. CASE Next
      BY <1>3, <3>2 DEF Up, Next, BootNext, BootstrapV0, BootSavesRuntime, BootSavesCurrent,
         AnswerError, ProposeNext, Propose, SaveProposal, EvaluateNext, Evaluate,
         SaveSandboxManifest, SuiteIsUnknown, RunSuites, SaveEvaluation, ApproveNext, Approve,
         ApprovalRefused, ApprovalGranted, PromotionSavesRuntime, PromotionSavesCurrent,
         PromotionSavesAudit, SavePromotion, RejectNext, Reject, SaveRejection, RollbackNext,
         Rollback, RollbackSavesCurrent, RollbackSavesAudit, FailureNext, HandlerFails,
         HandlerWrites, HandlerSteps, Handle
    <3> QED BY <3>1, <3>2
  <2>3. Bound(amend, released)
    BY <2>2 DEF EvidenceInv
  <2>4. SUFFICES Bound(amend', released)
    BY <2>1, BoundStays
  <2>5. CASE amend' = amend
    BY <2>3, <2>5
  <2>6. ASSUME NEW a \in Amendments, NEW d \in Diffs, NEW p \in Proposers, Propose(a, d, p)
        PROVE  Bound(amend', released)
    <3> DEFINE new == [status |-> "proposed", parent |-> current, diff |-> d, proposer |-> p,
                       reviewer |-> None, eval |-> None, resulting |-> None]
    <3>1. new.eval = None /\ amend' = [amend EXCEPT ![a] = new]
      BY <2>6 DEF Propose
    <3> HIDE DEF new
    <3> QED BY <2>3, <3>1, BoundMoves DEF TypeInv
  <2>7. ASSUME NEW a \in Amendments, amend[a] # None, NEW record,
               amend' = [amend EXCEPT ![a] = record],
               record.eval = amend[a].eval,
               record.parent = amend[a].parent, record.diff = amend[a].diff
        PROVE  Bound(amend', released)
    BY <2>3, <2>7, BoundMoves DEF TypeInv
  <2>8. ASSUME NEW a \in Amendments, Evaluate(a) PROVE Bound(amend', released)
    <3> DEFINE record == [amend[a] EXCEPT !.status = "sandbox"]
    <3>1. amend[a] \in Amendment /\ amend[a] # None /\ amend' = [amend EXCEPT ![a] = record]
      BY <2>8 DEF Evaluate, TypeInv, TypeOK
    <3>2. record.eval = amend[a].eval /\ record.parent = amend[a].parent
          /\ record.diff = amend[a].diff
      BY <3>1 DEF Amendment
    <3> HIDE DEF record
    <3> QED BY <2>7, <3>1, <3>2
  <2>9. ASSUME NEW a \in Amendments, NEW r \in Reviewers, NEW cites \in BOOLEAN,
               Approve(a, r, cites)
        PROVE  Bound(amend', released)
    <3> DEFINE record == [amend[a] EXCEPT !.status = "approved", !.reviewer = r]
    <3>1. amend[a] \in Amendment /\ amend[a] # None /\ amend' = [amend EXCEPT ![a] = record]
      BY <2>9 DEF Approve, TypeInv, TypeOK
    <3>2. record.eval = amend[a].eval /\ record.parent = amend[a].parent
          /\ record.diff = amend[a].diff
      BY <3>1 DEF Amendment
    <3> HIDE DEF record
    <3> QED BY <2>7, <3>1, <3>2
  <2>10. ASSUME NEW a \in Amendments, Reject(a) PROVE Bound(amend', released)
    <3> DEFINE record == [amend[a] EXCEPT !.status = "rejected"]
    <3>1. amend[a] \in Amendment /\ amend[a] # None /\ amend' = [amend EXCEPT ![a] = record]
      BY <2>10 DEF Reject, TypeInv, TypeOK
    <3>2. record.eval = amend[a].eval /\ record.parent = amend[a].parent
          /\ record.diff = amend[a].diff
      BY <3>1 DEF Amendment
    <3> HIDE DEF record
    <3> QED BY <2>7, <3>1, <3>2
  <2>11. CASE PromotionSavesCurrent
    <3> DEFINE a == req.amendment
               record == [amend[a] EXCEPT !.status = "promoted", !.resulting = req.version,
                                          !.reviewer = req.reviewer]
    <3>1. a \in Amendments /\ amend[a] \in Amendment /\ amend[a] # None
      BY <2>11 DEF PromotionSavesCurrent, TypeInv, TypeOK, Control, AmendmentSteps,
         HandlerSteps, Request
    <3>2. amend' = [amend EXCEPT ![a] = record]
      BY <2>11, <3>1 DEF PromotionSavesCurrent
    <3>3. record.eval = amend[a].eval /\ record.parent = amend[a].parent
          /\ record.diff = amend[a].diff
      BY <3>1 DEF Amendment
    <3> HIDE DEF record
    <3> QED BY <2>7, <3>1, <3>2, <3>3
  <2>12. ASSUME NEW pass \in BOOLEAN, RunSuites(pass) PROVE Bound(amend', released)
    <3> DEFINE a == req.amendment
               e == [pass |-> pass, candidate |-> candidates[a]]
               record == [amend[a] EXCEPT !.eval = e, !.status = "review"]
    <3>1. a \in Amendments /\ amend[a] \in Amendment /\ amend[a] # None
      BY <2>12 DEF RunSuites, TypeInv, TypeOK, Control, AmendmentSteps, HandlerSteps, Request
    <3>2. amend' = [amend EXCEPT ![a] = record]
      BY <2>12, <3>1 DEF RunSuites
    <3>3. record.eval = e /\ record.parent = amend[a].parent /\ record.diff = amend[a].diff
      BY <3>1 DEF Amendment
    <3>4. HasVersion(amend[a].parent) /\ e.candidate = BuildCandidate(a)
      BY <2>12 DEF RunSuites, EvidenceInv, CanBuild
    <3>5. amend'[a] = record /\ \A b \in Amendments : b # a => amend'[b] = amend[b]
      BY <3>1, <3>2 DEF TypeInv, TypeOK
    <3> HIDE DEF record, e
    <3>6. CandidateFrom(record, a, released) = record.eval.candidate
      BY <3>3, <3>4 DEF CandidateFrom, BuildCandidate
    <3>7. Has(released, record.parent)
      BY <3>3, <3>4 DEF HasVersion
    <3> QED BY <2>3, <3>5, <3>6, <3>7 DEF Bound
  <2> QED BY <1>3, <2>5, <2>6, <2>8, <2>9, <2>10, <2>11, <2>12, AmendmentsChange
<1> QED BY <1>1, <1>2, <1>3

LEMMA EvidenceInStore ==
    ASSUME ~ HandlerFails, TypeInv, StoreInv, Agree, EvidenceInv, [Next]_vars
    PROVE  Bound(dAmend', dReleased')
<1>1. \A v \in Versions : Has(dReleased, v) => dReleased'[v] = dReleased[v]
  BY StoredRowIsNew DEF Has, TypeInv, TypeOK, RegistryTypeOK
<1>2. SUFFICES Bound(dAmend', dReleased)
  BY <1>1, BoundStays
<1>3. CASE dAmend' = dAmend
  BY <1>3 DEF EvidenceInv
<1>4. CASE dAmend' # dAmend
  <2>1. /\ dAmend' = [dAmend EXCEPT ![req.amendment] = amend[req.amendment]]
        /\ pc \in {"propose.save", "evaluate.save", "approve.save", "promote.save",
                   "reject.save"}
    BY <1>4, StoredAmendmentsChange
  <2>2. Bound(amend, dReleased)
    BY <2>1 DEF EvidenceInv, Agree, ReleasesAgree, Up
  <2>3. \A a \in Amendments : dAmend'[a] \in {dAmend[a], amend[a]}
    BY <2>1 DEF TypeInv, TypeOK
  <2> QED BY <2>2, <2>3 DEF Bound, EvidenceInv
<1> QED BY <1>3, <1>4

\* While an evaluation runs, its sandbox manifest is what build_candidate gives.
LEMMA EvaluatedIsBuilt ==
    ASSUME ~ HandlerFails, TypeInv, EvidenceInv, [Next]_vars,
           pc' \in {"evaluate.candidate", "evaluate.run"}
    PROVE  CanBuild(req.amendment)'
           /\ (candidates[req.amendment] = BuildCandidate(req.amendment))'
<1>1. CASE \E a \in Amendments : Evaluate(a)
  <2>1. PICK a \in Amendments : Evaluate(a)
    BY <1>1
  <2>2. /\ amend[a] \in Amendment /\ amend' = [amend EXCEPT ![a].status = "sandbox"]
        /\ req'.amendment = a /\ released' = released /\ CanBuild(a)
        /\ BuildCandidate(a).amendment = a
    BY <2>1, RequestType
       DEF Evaluate, Handle, RegisterCandidate, memRegistry, TypeInv, TypeOK, BuildCandidate
  <2>3. amend'[a].parent = amend[a].parent /\ amend'[a].diff = amend[a].diff
    BY <2>2 DEF TypeInv, TypeOK, Amendment
  <2>4. candidates'[a] = BuildCandidate(a)
    BY <2>1, <2>2 DEF Evaluate, Handle, RegisterCandidate, memRegistry, TypeInv, TypeOK,
       RegistryTypeOK
  <2> QED BY <2>2, <2>3, <2>4 DEF CanBuild, HasVersion, BuildCandidate
<1>2. CASE SaveSandboxManifest \/ UNCHANGED vars
  <2>1. UNCHANGED <<amend, released, candidates, req>>
        /\ pc \in {"evaluate.candidate", "evaluate.run"}
    BY <1>2 DEF SaveSandboxManifest, vars, memory, memRegistry
  <2> QED BY <2>1 DEF EvidenceInv, CanBuild, HasVersion, BuildCandidate
<1>3. CASE ~ (\E a \in Amendments : Evaluate(a)) /\ ~ SaveSandboxManifest /\ ~ UNCHANGED vars
  <2>1. pc' \notin {"evaluate.candidate", "evaluate.run"}
    BY <1>3 DEF Next, BootNext, Boot, BootstrapV0, BootSavesRuntime,
       BootSavesCurrent, AnswerError, ProposeNext, Propose, SaveProposal, EvaluateNext,
       SuiteIsUnknown, RunSuites, SaveEvaluation, ApproveNext,
       Approve, ApprovalRefused, ApprovalGranted, PromotionSavesRuntime, PromotionSavesCurrent,
       PromotionSavesAudit, SavePromotion, RejectNext, Reject, SaveRejection, RollbackNext,
       Rollback, RollbackSavesCurrent, RollbackSavesAudit, FailureNext, Crash, BootFails, MemoryIsLost,
       Handle, Return, Goto
  <2> QED BY <2>1
<1> QED BY <1>1, <1>2, <1>3

LEMMA EvidenceHolds == Spec /\ HandlersSucceed => []EvidenceInv
<1>1. Init => EvidenceInv
  BY DEF Init, EvidenceInv, Bound, Up
<1>2. /\ TypeInv /\ StoreInv /\ Agree /\ EvidenceInv /\ [Next]_vars /\ [~ HandlerFails]_vars
      => EvidenceInv'
  BY EvidenceInMemory, EvidenceInStore, EvaluatedIsBuilt, NoHandlerFails DEF EvidenceInv
<1> QED
  BY <1>1, <1>2, TypeInvariant, StoreInvariant, AgreeHolds, PTL DEF Spec, HandlersSucceed

\* What was evaluated can be rebuilt for as long as the amendment lives: an
\* approval is never refused because the candidate changed since its evaluation,
\* as long as no handler's write fails.
THEOREM EvidenceIsBound == Spec /\ HandlersSucceed => []EvidenceStaysBound
<1>1. EvidenceInv => EvidenceStaysBound
  BY DEF EvidenceInv, Bound, CandidateFrom, EvidenceStaysBound, BuildCandidate
<1> QED BY <1>1, EvidenceHolds, PTL

-----------------------------------------------------------------------------
(* A release is what was evaluated *)

\* The sandbox manifest of an attached evaluation is kept.
ManifestsKept(table, cands) ==
    \A a \in Amendments :
        table[a] # None /\ table[a].eval # None => cands[a] = table[a].eval.candidate

\* A release on the version its manifest was built on has the manifest's content.
MadeAsEvaluated(rows, cands) ==
    \A v \in ReleasedOn(rows) \ {0} :
        /\ rows[v].amendment \in Amendments
        /\ cands[rows[v].amendment] # None
        /\ cands[rows[v].amendment].parent = rows[v].parent =>
                cands[rows[v].amendment].config = rows[v].config

ContentInv ==
    /\ Up => ManifestsKept(amend, candidates) /\ MadeAsEvaluated(released, candidates)
    /\ ManifestsKept(dAmend, dCandidates) /\ MadeAsEvaluated(dReleased, dCandidates)

\* The sandbox manifests in memory are only added.
LEMMA ManifestsOnlyGrow ==
    ASSUME TypeInv, [Next]_vars, ~ Boot, ~ Crash, ~ BootFails,
           NEW a \in Amendments, candidates[a] # None
    PROVE  candidates'[a] = candidates[a]
<1>1. CASE \E b \in Amendments : Evaluate(b)
  <2>1. PICK b \in Amendments : Evaluate(b)
    BY <1>1
  <2>2. BuildCandidate(b).amendment = b
    BY DEF BuildCandidate
  <2>3. \/ candidates' = candidates
        \/ candidates[b] = None /\ candidates' = [candidates EXCEPT ![b] = BuildCandidate(b)]
    BY <2>1, <2>2 DEF Evaluate, RegisterCandidate, memRegistry
  <2> QED BY <2>3 DEF TypeInv, TypeOK, RegistryTypeOK
<1>2. CASE ~ \E b \in Amendments : Evaluate(b)
  <2>1. candidates' = candidates
    BY <1>2 DEF Next, BootNext, BootstrapV0, BootSavesRuntime, BootSavesCurrent, CreateRuntime,
       AnswerError, ProposeNext, Propose, SaveProposal, EvaluateNext, SaveSandboxManifest,
       SuiteIsUnknown, RunSuites, SaveEvaluation, ApproveNext, Approve, ApprovalRefused,
       ApprovalGranted, PromotionSavesRuntime, PromotionSavesCurrent, PromotionSavesAudit,
       SavePromotion, RejectNext, Reject, SaveRejection, RollbackNext, Rollback, RollbackTo,
       RollbackSavesCurrent, RollbackSavesAudit, FailureNext, HandlerFails, memory,
       memRegistry, vars
  <2> QED BY <2>1
<1> QED BY <1>1, <1>2

\* A process that comes up from another one is a boot.
LEMMA OnlyBootsStart ==
    ASSUME ~ HandlerFails, TypeInv, [Next]_vars, Up', ~ Boot
    PROVE  Up /\ ~ Crash /\ ~ BootFails
<1>1. CASE UNCHANGED vars
  BY <1>1 DEF vars, failures, Up, Crash, BootFails, TypeInv, TypeOK
<1>2. CASE Next
  BY <1>2 DEF Up, Next, BootNext, BootstrapV0, BootSavesRuntime, BootSavesCurrent,
     AnswerError, ProposeNext, Propose, SaveProposal, EvaluateNext, Evaluate,
     SaveSandboxManifest, SuiteIsUnknown, RunSuites, SaveEvaluation, ApproveNext, Approve,
     ApprovalRefused, ApprovalGranted, PromotionSavesRuntime, PromotionSavesCurrent,
     PromotionSavesAudit, SavePromotion, RejectNext, Reject, SaveRejection, RollbackNext,
     Rollback, RollbackSavesCurrent, RollbackSavesAudit, FailureNext, Crash, BootFails, MemoryIsLost,
     Handle
<1> QED BY <1>1, <1>2

\* An evaluation in memory is an old one or the one that a run has just attached.
LEMMA EvaluationsChange ==
    ASSUME ~ HandlerFails, TypeInv, [Next]_vars, Up', ~ Boot,
           NEW a \in Amendments, amend'[a] # None, amend'[a].eval # None
    PROVE  \/ amend[a] # None /\ amend[a].eval = amend'[a].eval
           \/ candidates' = candidates /\ amend'[a].eval.candidate = candidates[a]
<1>0. ~ Crash /\ ~ BootFails
  BY OnlyBootsStart
<1>1. CASE amend' = amend
  BY <1>1
<1>2. ASSUME NEW b \in Amendments, NEW d \in Diffs, NEW p \in Proposers, Propose(b, d, p)
      PROVE  amend[a] # None /\ amend[a].eval = amend'[a].eval
  BY <1>2 DEF Propose, TypeInv, TypeOK
<1>3. ASSUME NEW b \in Amendments, NEW record, amend[b] # None,
             amend' = [amend EXCEPT ![b] = record], record.eval = amend[b].eval
      PROVE  amend[a] # None /\ amend[a].eval = amend'[a].eval
  BY <1>3 DEF TypeInv, TypeOK
<1>5. ASSUME NEW b \in Amendments, Evaluate(b)
      PROVE  amend[a] # None /\ amend[a].eval = amend'[a].eval
  <2> DEFINE record == [amend[b] EXCEPT !.status = "sandbox"]
  <2>1. amend[b] \in Amendment /\ amend[b] # None /\ amend' = [amend EXCEPT ![b] = record]
    BY <1>5 DEF Evaluate, TypeInv, TypeOK
  <2>2. record.eval = amend[b].eval
    BY <2>1 DEF Amendment
  <2> HIDE DEF record
  <2> QED BY <1>3, <2>1, <2>2
<1>6. ASSUME NEW b \in Amendments, NEW r \in Reviewers, NEW cites \in BOOLEAN,
             Approve(b, r, cites)
      PROVE  amend[a] # None /\ amend[a].eval = amend'[a].eval
  <2> DEFINE record == [amend[b] EXCEPT !.status = "approved", !.reviewer = r]
  <2>1. amend[b] \in Amendment /\ amend[b] # None /\ amend' = [amend EXCEPT ![b] = record]
    BY <1>6 DEF Approve, TypeInv, TypeOK
  <2>2. record.eval = amend[b].eval
    BY <2>1 DEF Amendment
  <2> HIDE DEF record
  <2> QED BY <1>3, <2>1, <2>2
<1>7. ASSUME NEW b \in Amendments, Reject(b)
      PROVE  amend[a] # None /\ amend[a].eval = amend'[a].eval
  <2> DEFINE record == [amend[b] EXCEPT !.status = "rejected"]
  <2>1. amend[b] \in Amendment /\ amend[b] # None /\ amend' = [amend EXCEPT ![b] = record]
    BY <1>7 DEF Reject, TypeInv, TypeOK
  <2>2. record.eval = amend[b].eval
    BY <2>1 DEF Amendment
  <2> HIDE DEF record
  <2> QED BY <1>3, <2>1, <2>2
<1>8. CASE PromotionSavesCurrent
  <2> DEFINE b == req.amendment
             record == [amend[b] EXCEPT !.status = "promoted", !.resulting = req.version,
                                        !.reviewer = req.reviewer]
  <2>1. b \in Amendments /\ amend[b] \in Amendment /\ amend[b] # None
    BY <1>8 DEF PromotionSavesCurrent, TypeInv, TypeOK, Control, AmendmentSteps,
       HandlerSteps, Request
  <2>2. amend' = [amend EXCEPT ![b] = record]
    BY <1>8, <2>1 DEF PromotionSavesCurrent
  <2>3. record.eval = amend[b].eval
    BY <2>1 DEF Amendment
  <2> HIDE DEF record
  <2> QED BY <1>3, <2>1, <2>2, <2>3
<1>4. ASSUME NEW pass \in BOOLEAN, RunSuites(pass)
      PROVE  \/ amend[a] # None /\ amend[a].eval = amend'[a].eval
             \/ candidates' = candidates /\ amend'[a].eval.candidate = candidates[a]
  <2> DEFINE b == req.amendment
             e == [pass |-> pass, candidate |-> candidates[b]]
  <2>1. b \in Amendments /\ amend[b] \in Amendment
    BY <1>4 DEF RunSuites, TypeInv, TypeOK, Control, AmendmentSteps, HandlerSteps, Request
  <2>2. amend' = [amend EXCEPT ![b].eval = e, ![b].status = "review"] /\ candidates' = candidates
    BY <1>4 DEF RunSuites, memRegistry
  <2>3. amend'[b].eval = e /\ \A c \in Amendments \ {b} : amend'[c] = amend[c]
    BY <2>1, <2>2 DEF TypeInv, TypeOK, Amendment
  <2>4. e.candidate = candidates[b]
    OBVIOUS
  <2> HIDE DEF e
  <2>5. CASE a = b
    BY <2>2, <2>3, <2>4, <2>5
  <2>6. CASE a # b
    BY <2>3, <2>6
  <2> QED BY <2>5, <2>6
<1>9. CASE amend' # amend
  <2>1. \/ \E b \in Amendments, d \in Diffs, p \in Proposers : Propose(b, d, p)
        \/ \E b \in Amendments : Evaluate(b)
        \/ \E pass \in BOOLEAN : RunSuites(pass)
        \/ \E b \in Amendments, r \in Reviewers, cites \in BOOLEAN : Approve(b, r, cites)
        \/ PromotionSavesCurrent
        \/ \E b \in Amendments : Reject(b)
    BY <1>0, <1>9, AmendmentsChange
  <2> QED BY <1>2, <1>4, <1>5, <1>6, <1>7, <1>8, <2>1, Zenon
<1> QED BY <1>1, <1>9

LEMMA ContentInMemory ==
    ASSUME ~ HandlerFails, TypeInv, EvidenceInv, ContentInv, [Next]_vars, Up'
    PROVE  ManifestsKept(amend', candidates') /\ MadeAsEvaluated(released', candidates')
<1>1. CASE Boot
  BY <1>1 DEF Boot, RegistryLoads, ContentInv
<1>2. CASE ~ Boot
  <2>1. Up /\ ~ Crash /\ ~ BootFails
    BY <1>2, OnlyBootsStart
  <2>2. \A a \in Amendments : candidates[a] # None => candidates'[a] = candidates[a]
    BY <1>2, <2>1, ManifestsOnlyGrow
  <2>3. \A a \in Amendments : amend[a] # None /\ amend[a].eval # None =>
            amend[a].eval.candidate # None
    BY NoneAssumption DEF TypeInv, TypeOK, Amendment, Evaluation
  <2>4. ManifestsKept(amend', candidates')
    <3> SUFFICES ASSUME NEW a \in Amendments, amend'[a] # None, amend'[a].eval # None
                 PROVE  candidates'[a] = amend'[a].eval.candidate
      BY DEF ManifestsKept
    <3>1. CASE amend[a] # None /\ amend[a].eval = amend'[a].eval
      <4>1. candidates[a] = amend[a].eval.candidate
        BY <2>1, <3>1 DEF ContentInv, ManifestsKept
      <4> QED BY <2>2, <2>3, <3>1, <4>1
    <3> QED BY <1>2, <3>1, EvaluationsChange
  <2>5. MadeAsEvaluated(released, candidates')
    BY <2>1, <2>2 DEF ContentInv, MadeAsEvaluated
  <2>6. MadeAsEvaluated(released', candidates')
    <3>1. CASE released' = released
      BY <2>5, <3>1
    <3>2. CASE BootstrapV0
      <4>1. \A v \in Versions \ {0} : released'[v] = released[v]
        BY <3>2 DEF BootstrapV0, CreateRuntime, TypeInv, TypeOK, RegistryTypeOK
      <4> QED BY <2>5, <4>1 DEF MadeAsEvaluated, ReleasedOn
    <3>3. CASE ApprovalGranted
      <4> DEFINE a == req.amendment
                 m == [parent    |-> current,
                       config    |-> ApplyDiff(released[current].config, amend[a].diff),
                       amendment |-> a,
                       createdBy |-> req.reviewer]
      <4>1. PICK v \in Versions : released' = [released EXCEPT ![v] = m]
        BY <3>3, GrantedRelease
      <4>2. /\ a \in Amendments /\ amend[a] # None /\ amend[a].eval # None
            /\ BuildCandidate(a) = amend[a].eval.candidate
        BY <3>3 DEF ApprovalGranted, Approvable, TypeInv, TypeOK, Control, AmendmentSteps,
           HandlerSteps, Request
      <4>3. candidates[a] = BuildCandidate(a) /\ candidates[a] # None
        BY <2>1, <2>3, <4>2 DEF ContentInv, ManifestsKept
      <4>4. candidates'[a] = BuildCandidate(a) /\ candidates'[a] # None
        BY <2>2, <4>2, <4>3
      <4>5. BuildCandidate(a).parent = current => BuildCandidate(a).config = m.config
        BY DEF BuildCandidate
      <4>6. m.amendment = a /\ m.parent = current
        OBVIOUS
      <4>7. \A w \in Versions : released'[w] = IF w = v THEN m ELSE released[w]
        BY <4>1 DEF TypeInv, TypeOK, RegistryTypeOK
      <4> HIDE DEF m, a
      <4> QED BY <2>5, <4>2, <4>4, <4>5, <4>6, <4>7 DEF MadeAsEvaluated, ReleasedOn
    <3> QED BY <1>2, <2>1, <3>1, <3>2, <3>3, MemoryRowsChange
  <2> QED BY <2>4, <2>6
<1> QED BY <1>1, <1>2

LEMMA StoredCandidatesChange ==
    ASSUME [Next]_vars, dCandidates' # dCandidates PROVE SaveSandboxManifest
BY DEF Next, BootNext, Boot, BootstrapV0, BootSavesRuntime, BootSavesCurrent, AnswerError,
   ProposeNext, Propose, SaveProposal, EvaluateNext, Evaluate, SuiteIsUnknown, RunSuites,
   SaveEvaluation, ApproveNext, Approve, ApprovalRefused, ApprovalGranted,
   PromotionSavesRuntime, PromotionSavesCurrent, PromotionSavesAudit, SavePromotion, RejectNext,
   Reject, SaveRejection, RollbackNext, Rollback, RollbackSavesCurrent, RollbackSavesAudit,
   FailureNext, Crash, HandlerFails, BootFails, SaveAmendment, SaveRuntime, SaveCurrentVersion,
   SaveAudit, store, diskRegistry, vars

LEMMA ContentInStore ==
    ASSUME ~ HandlerFails, TypeInv, StoreInv, Agree, ContentInv, [Next]_vars
    PROVE  ManifestsKept(dAmend', dCandidates') /\ MadeAsEvaluated(dReleased', dCandidates')
<1>1. CASE SaveSandboxManifest
  <2>1. dAmend' = dAmend /\ dReleased' = dReleased /\ pc = "evaluate.candidate"
        /\ dCandidates' = [dCandidates EXCEPT ![req.amendment] = candidates[req.amendment]]
        /\ dCandidates[req.amendment] = None
    BY <1>1 DEF SaveSandboxManifest, SaveCandidate, Agree, CandidatesAgree
  <2>2. \A a \in Amendments : dCandidates[a] # None => dCandidates'[a] = dCandidates[a]
    BY <2>1 DEF TypeInv, TypeOK, RegistryTypeOK
  <2>3. \A a \in Amendments : dAmend[a] # None /\ dAmend[a].eval # None =>
            dAmend[a].eval.candidate # None
    BY NoneAssumption DEF TypeInv, TypeOK, Amendment, Evaluation
  <2> QED BY <2>1, <2>2, <2>3 DEF ContentInv, ManifestsKept, MadeAsEvaluated
<1>2. CASE dCandidates' = dCandidates
  <2>1. ManifestsKept(dAmend', dCandidates)
    <3>1. CASE dAmend' = dAmend
      BY <3>1 DEF ContentInv
    <3>2. CASE dAmend' # dAmend
      <4>1. /\ dAmend' = [dAmend EXCEPT ![req.amendment] = amend[req.amendment]]
            /\ pc \in {"propose.save", "evaluate.save", "approve.save", "promote.save",
                       "reject.save"}
        BY <3>2, StoredAmendmentsChange
      <4>2. ManifestsKept(amend, dCandidates)
        BY <4>1 DEF ContentInv, Agree, CandidatesAgree, Up
      <4>3. \A a \in Amendments : dAmend'[a] \in {dAmend[a], amend[a]}
        BY <4>1 DEF TypeInv, TypeOK
      <4> QED BY <4>2, <4>3 DEF ManifestsKept, ContentInv
    <3> QED BY <3>1, <3>2
  <2>2. MadeAsEvaluated(dReleased', dCandidates)
    <3>1. CASE dReleased' = dReleased
      BY <3>1 DEF ContentInv
    <3>2. CASE BootSavesRuntime \/ PromotionSavesRuntime
      <4>1. dReleased' = released /\ candidates = dCandidates /\ Up
        BY <3>2 DEF BootSavesRuntime, PromotionSavesRuntime, SaveRuntime, Agree, ReleasesAgree,
           CandidatesAgree, Up
      <4> QED BY <4>1 DEF ContentInv
    <3> QED BY <3>1, <3>2, StoredRowsChange
  <2> QED BY <1>2, <2>1, <2>2
<1> QED BY <1>1, <1>2, StoredCandidatesChange

\* A stored release made on the runtime its amendment was evaluated against has the
\* content of the stored sandbox manifest, as long as no handler's write fails.
THEOREM ReleasesAreTheCandidates == Spec /\ HandlersSucceed => []ReleaseIsTheCandidate
<1>1. Init => ContentInv
  BY DEF Init, RegistryInit, NoRuntimes, ContentInv, ManifestsKept, MadeAsEvaluated,
     ReleasedOn, Up
<1>2. /\ TypeInv /\ StoreInv /\ Agree /\ EvidenceInv /\ ContentInv
      /\ [Next]_vars /\ [~ HandlerFails]_vars
      => ContentInv'
  BY ContentInMemory, ContentInStore, NoHandlerFails DEF ContentInv
<1>3. ContentInv => ReleaseIsTheCandidate
  BY DEF ContentInv, MadeAsEvaluated, ReleaseIsTheCandidate
<1> QED
  BY <1>1, <1>2, <1>3, TypeInvariant, StoreInvariant, AgreeHolds, EvidenceHolds, PTL
  DEF Spec, HandlersSucceed

-----------------------------------------------------------------------------
(* The audit log alone tells which runtime is current *)

\* Where the first i entries of a log lead.
Position(log, i) == IF i = 0 THEN 0 ELSE log[i].to

\* As long as nothing fails.
ChainInv ==
    crashes = 0 /\ faults = 0 =>
        /\ \A i \in 1..Len(trail) : trail[i].from = Position(trail, i - 1)
        /\ pc \in ({"idle"} \cup HandlerSteps) \ Moving =>
                current = Position(trail, Len(trail))
        /\ pc \in Moving => req.from = Position(trail, Len(trail))
        /\ pc \in {"down"} \cup BootSteps => trail = <<>> /\ dTrail = <<>>
        /\ pc = "down" => \A v \in Versions : dReleased[v] = None

\* An entry that starts where the log leads continues it.
LEMMA ChainGrows ==
    ASSUME NEW log \in Seq(Entry), NEW e \in Entry,
           \A i \in 1..Len(log) : log[i].from = Position(log, i - 1),
           e.from = Position(log, Len(log)),
           NEW longer, longer = Append(log, e)
    PROVE  /\ \A i \in 1..Len(longer) : longer[i].from = Position(longer, i - 1)
           /\ Position(longer, Len(longer)) = e.to
<1>1. /\ Len(longer) = Len(log) + 1 /\ Len(log) \in Nat
      /\ longer[Len(longer)] = e
      /\ \A i \in 1..Len(log) : longer[i] = log[i]
  BY LastOfAppend, LenProperties
<1>2. \A i \in 0..Len(log) : Position(longer, i) = Position(log, i)
  BY <1>1 DEF Position
<1>3. ASSUME NEW i \in 1..Len(longer) PROVE longer[i].from = Position(longer, i - 1)
  <2>1. CASE i = Len(longer)
    <3>1. i - 1 = Len(log)
      BY <1>1, <2>1
    <3> QED BY <1>1, <1>2, <2>1, <3>1
  <2>2. CASE i # Len(longer)
    <3>1. i \in 1..Len(log) /\ i - 1 \in 0..Len(log)
      BY <1>1, <2>2
    <3> QED BY <1>1, <1>2, <3>1
  <2> QED BY <2>1, <2>2
<1>4. Position(longer, Len(longer)) = e.to
  BY <1>1 DEF Position
<1> QED BY <1>3, <1>4

\* A write that failed stays counted.
LEMMA NothingFailed ==
    ASSUME TypeInv, [Next]_vars, faults' = 0
    PROVE  faults = 0 /\ ~ HandlerFails /\ ~ BootFails
<1>1. ~ HandlerFails /\ ~ BootFails
  BY DEF TypeInv, TypeOK, HandlerFails, BootFails
<1>2. faults' = faults
  BY <1>1 DEF Next, BootNext, Boot, BootstrapV0, BootSavesRuntime, BootSavesCurrent,
     AnswerError, ProposeNext, Propose, SaveProposal, EvaluateNext, Evaluate,
     SaveSandboxManifest, SuiteIsUnknown, RunSuites, SaveEvaluation, ApproveNext, Approve,
     ApprovalRefused, ApprovalGranted, PromotionSavesRuntime, PromotionSavesCurrent,
     PromotionSavesAudit, SavePromotion, RejectNext, Reject, SaveRejection, RollbackNext,
     Rollback, RollbackSavesCurrent, RollbackSavesAudit, FailureNext, Crash, vars, failures
<1> QED BY <1>1, <1>2

LEMMA ChainInductive ==
    TypeInv /\ (faults = 0 => Agree) /\ ChainInv /\ [Next]_vars => ChainInv'
<1> SUFFICES ASSUME TypeInv, faults = 0 => Agree, ChainInv, [Next]_vars, crashes' = 0, faults' = 0
             PROVE  ChainInv'
  BY DEF ChainInv
<1>0. faults = 0 /\ Agree /\ ~ HandlerFails /\ ~ BootFails
  BY NothingFailed
<1> USE DEF Handle, Return, Goto, memory, memRegistry, Moving, HandlerSteps, BootSteps
<1>1. CASE Boot
  <2>1. crashes = 0 /\ trail' = <<>> /\ dTrail' = <<>> /\ \A v \in Versions : dReleased[v] = None
    BY <1>0, <1>1 DEF Boot, ChainInv, failures, store
  <2>2. CurrentOf(dReleased, dCurrent) = None
    BY <2>1 DEF CurrentOf, Has
  <2>3. pc' = "boot.bootstrap"
    BY <1>1, <2>2 DEF Boot
  <2> QED BY <1>0, <2>1, <2>3, EmptySeq DEF ChainInv
<1>2. CASE BootstrapV0 \/ BootSavesRuntime
  BY <1>0, <1>2, EmptySeq DEF BootstrapV0, BootSavesRuntime, ChainInv, failures, store
<1>3. CASE BootSavesCurrent
  <2>1. /\ crashes = 0 /\ trail' = <<>> /\ current' = current /\ pc' = "idle"
        /\ pc = "boot.current"
    BY <1>0, <1>3 DEF BootSavesCurrent, ChainInv, failures
  <2>2. current = 0
    BY <2>1 DEF TypeInv, Control, BootWrites
  <2> QED BY <1>0, <2>1, <2>2, EmptySeq DEF ChainInv, Position
<1>4. CASE PromotionSavesCurrent \/ RollbackSavesCurrent
  <2>1. req.version \in Versions /\ req \in Request
    BY <1>0, <1>4 DEF PromotionSavesCurrent, RollbackSavesCurrent, TypeInv, TypeOK, Control,
       VersionSteps, Request
  <2>2. PICK e \in Entry : e.from = req.from /\ e.to = req.version /\ trail' = Append(trail, e)
    <3>1. CASE PromotionSavesCurrent
      <4> DEFINE e == PromoteEntry(req.amendment, req.reviewer, req.from, req.version)
      <4>1. e \in Entry /\ e.from = req.from /\ e.to = req.version
        BY <2>1, <3>1 DEF PromoteEntry, Entry, Request
      <4> QED BY <3>1, <4>1 DEF PromotionSavesCurrent
    <3>2. CASE RollbackSavesCurrent
      <4> DEFINE e == RollbackEntry(req.from, req.version)
      <4>1. e \in Entry /\ e.from = req.from /\ e.to = req.version
        BY <2>1, <3>2 DEF RollbackEntry, Entry, Request
      <4> QED BY <3>2, <4>1 DEF RollbackSavesCurrent
    <3> QED BY <1>4, <3>1, <3>2
  <2>3. /\ crashes = 0 /\ pc \in Moving /\ current' = current /\ current = req.version
        /\ pc' \in {"promote.audit", "rollback.audit"}
    BY <1>0, <1>4 DEF PromotionSavesCurrent, RollbackSavesCurrent, failures, Agree, CurrentAgrees
  <2>4. trail \in Seq(Entry)
    BY DEF TypeInv, TypeOK
  <2>5. /\ \A i \in 1..Len(trail') : trail'[i].from = Position(trail', i - 1)
        /\ Position(trail', Len(trail')) = e.to
    BY <1>0, <2>2, <2>3, <2>4, ChainGrows DEF ChainInv
  <2> QED BY <1>0, <2>2, <2>3, <2>5 DEF ChainInv, Position
<1>5. CASE ApprovalGranted
  <2>1. PICK v \in Versions : req' = [req EXCEPT !.version = v, !.from = current]
    BY <1>5, GrantedRelease
  <2>2. req'.from = current /\ crashes = 0 /\ trail' = trail /\ pc = "approve.save"
        /\ pc' = "promote.runtime"
    BY <1>5, <2>1 DEF ApprovalGranted, TypeInv, TypeOK, Request, failures
  <2> QED BY <1>0, <2>2 DEF ChainInv, Position
<1>6. ASSUME NEW v \in Versions, Rollback(v) PROVE ChainInv'
  <2>1. req'.from = current /\ crashes = 0 /\ trail' = trail /\ pc = "idle"
        /\ pc' = "rollback.current"
    BY <1>0, <1>6 DEF Rollback, NoRequest, failures
  <2> QED BY <1>0, <2>1 DEF ChainInv, Position
<1>7. CASE PromotionSavesRuntime
  BY <1>0, <1>7 DEF PromotionSavesRuntime, ChainInv, Position, failures
<1>8. CASE Crash
  BY <1>0, <1>8 DEF Crash, TypeInv, TypeOK
<1>9. CASE \/ ProposeNext
           \/ EvaluateNext
           \/ \E a \in Amendments, r \in Reviewers, cites \in BOOLEAN : Approve(a, r, cites)
           \/ ApprovalRefused
           \/ PromotionSavesAudit
           \/ SavePromotion
           \/ RejectNext
           \/ RollbackSavesAudit
  <2>1. crashes = 0 /\ UNCHANGED <<trail, current>>
    BY <1>0, <1>9 DEF ProposeNext, Propose, SaveProposal, EvaluateNext, Evaluate, RegisterCandidate,
       SaveSandboxManifest, SuiteIsUnknown, RunSuites, SaveEvaluation, Approve, ApprovalRefused,
       PromotionSavesAudit, SavePromotion, RejectNext, Reject, SaveRejection, RollbackSavesAudit,
       failures
  <2>2. /\ pc \in ({"idle"} \cup HandlerSteps) \ Moving
        /\ pc' \in ({"idle"} \cup HandlerSteps) \ Moving
    BY <1>0, <1>9 DEF ProposeNext, Propose, SaveProposal, EvaluateNext, Evaluate,
       SaveSandboxManifest, SuiteIsUnknown, RunSuites, SaveEvaluation, Approve, ApprovalRefused,
       PromotionSavesAudit, SavePromotion, RejectNext, Reject, SaveRejection, RollbackSavesAudit
  <2> QED BY <1>0, <2>1, <2>2 DEF ChainInv, Position
<1>10. CASE AnswerError \/ UNCHANGED vars
  BY <1>0, <1>10 DEF AnswerError, vars, ChainInv, Position, failures, store, diskRegistry
<1> QED
  BY <1>0, <1>1, <1>2, <1>3, <1>4, <1>5, <1>6, <1>7, <1>8, <1>9, <1>10
  DEF Next, BootNext, ApproveNext, RollbackNext, FailureNext

\* As long as nothing fails, replaying promotion_log and rollback_log from v0 leads
\* to the current runtime, over any sequence of promotions and rollbacks.
THEOREM TrailIsReplayed == Spec => []TrailReplaysCurrent
<1>1. Init => ChainInv
  BY EmptySeq DEF Init, RegistryInit, NoRuntimes, ChainInv, Moving, HandlerSteps, BootSteps
<1>2. ChainInv => TrailReplaysCurrent
  BY DEF ChainInv, TrailReplaysCurrent, Position, Moving
<1>3. Init => Agree
  BY DownAgrees DEF Init
<1>4. TypeInv /\ (faults = 0 => Agree) /\ [Next]_vars => (faults = 0 => Agree)'
  <2> SUFFICES ASSUME TypeInv, faults = 0 => Agree, [Next]_vars, faults' = 0
               PROVE  Agree'
    OBVIOUS
  <2>1. faults = 0 /\ ~ HandlerFails
    BY NothingFailed
  <2> QED BY <2>1, AgreeInductive
<1> QED BY <1>1, <1>2, <1>3, <1>4, ChainInductive, TypeInvariant, PTL DEF Spec
=============================================================================
