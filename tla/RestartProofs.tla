----------------------------- MODULE RestartProofs -----------------------------
(***************************************************************************)
(* Theorems about Governance while no handler's write fails, whatever      *)
(* crashes and whatever boot a failed write ends: what a restart finds,    *)
(* what the store's reader may rely on, and that the registry implements   *)
(* the ledger of releases.                                                 *)
(***************************************************************************)
EXTENDS GovernanceProofs

\* From here on every write of a handler succeeds.
HandlersSucceed == [][~ HandlerFails]_vars

LEMMA NoHandlerFails ==
    ASSUME TypeInv, [~ HandlerFails]_vars PROVE ~ HandlerFails
BY DEF TypeInv, TypeOK, HandlerFails, vars, failures

-----------------------------------------------------------------------------
(* Memory is what is stored, but for the write that comes next *)

ReleasesAgree ==
    /\ Up /\ pc \notin {"promote.runtime", "boot.runtime"} => released = dReleased
    /\ pc = "promote.runtime" =>
            released = [dReleased EXCEPT ![req.version] = released[req.version]]
    /\ pc = "boot.runtime" => released = [dReleased EXCEPT ![0] = released[0]]

CandidatesAgree ==
    /\ Up /\ pc # "evaluate.candidate" => candidates = dCandidates
    /\ pc = "evaluate.candidate" =>
            /\ candidates = [dCandidates EXCEPT ![req.amendment] = candidates[req.amendment]]
            /\ dCandidates[req.amendment] = None

TrailAgrees ==
    /\ Up /\ pc \notin {"promote.audit", "rollback.audit"} => trail = dTrail
    /\ pc \in {"promote.audit", "rollback.audit"} => trail = Append(dTrail, trail[Len(trail)])

\* The pointer moves in memory before it is stored.
Moving == {"promote.runtime", "promote.current", "rollback.current"}

CurrentAgrees ==
    /\ pc \in ({"idle", "boot.bootstrap"} \cup HandlerSteps) \ Moving =>
            current = CurrentOf(dReleased, dCurrent)
    /\ pc \in Moving => current = req.version
    /\ pc = "boot.bootstrap" => current = None

LEMMA ReleasesAgreeInductive ==
    ASSUME ~ HandlerFails
    PROVE  TypeInv /\ ReleasesAgree /\ [Next]_vars => ReleasesAgree'
<1> SUFFICES ASSUME TypeInv, ReleasesAgree, [Next]_vars
             PROVE  ReleasesAgree'
  OBVIOUS
<1> USE DEF ReleasesAgree, Up, Handle, Return, Goto
<1> USE DEF memory, memRegistry, store, diskRegistry
<1>1. CASE Boot
  BY <1>1 DEF Boot, RegistryLoads
<1>2. CASE BootstrapV0
  BY <1>2, MaxVersionAssumption
     DEF BootstrapV0, CreateRuntime, Versions, TypeInv, TypeOK, RegistryTypeOK
<1>3. CASE BootSavesRuntime \/ BootSavesCurrent
  BY <1>3 DEF BootSavesRuntime, BootSavesCurrent, SaveRuntime, SaveCurrentVersion
<1>4. CASE ApprovalGranted
  <2>1. PICK v \in Versions : \E m :
            /\ released' = [released EXCEPT ![v] = m]
            /\ req' = [req EXCEPT !.version = v, !.from = current]
    BY <1>4, GrantedRelease
  <2>2. req'.version = v /\ released'[v] = released'[req'.version]
    BY <2>1 DEF TypeInv, TypeOK, Request
  <2>3. released = dReleased /\ dReleased' = dReleased /\ pc' = "promote.runtime"
    BY <1>4 DEF ApprovalGranted, SaveAmendment
  <2> QED BY <2>1, <2>2, <2>3 DEF TypeInv, TypeOK, RegistryTypeOK
<1>5. CASE PromotionSavesRuntime
  BY <1>5 DEF PromotionSavesRuntime, SaveRuntime
<1>6. CASE Crash \/ BootFails
  BY <1>6 DEF Crash, BootFails, MemoryIsLost
<1>7. CASE ProposeNext \/ EvaluateNext
  BY <1>7 DEF ProposeNext, EvaluateNext, Propose, SaveProposal, Evaluate, RegisterCandidate,
     SaveSandboxManifest, SaveCandidate, SuiteIsUnknown, RunSuites, SaveEvaluation,
     SaveAmendment
<1>8. CASE \/ \E a \in Amendments, r \in Reviewers, cites \in BOOLEAN : Approve(a, r, cites)
           \/ ApprovalRefused
           \/ PromotionSavesCurrent
           \/ PromotionSavesAudit
           \/ SavePromotion
  BY <1>8 DEF Approve, ApprovalRefused, PromotionSavesCurrent, PromotionSavesAudit,
     SavePromotion, SaveAmendment, SaveCurrentVersion, SaveAudit
<1>9. CASE RejectNext \/ RollbackNext
  BY <1>9 DEF RejectNext, RollbackNext, Reject, SaveRejection, Rollback, RollbackTo,
     RollbackSavesCurrent, RollbackSavesAudit, SaveAmendment, SaveCurrentVersion, SaveAudit
<1>10. CASE AnswerError \/ UNCHANGED vars
  BY <1>10 DEF AnswerError, vars
<1> QED
  BY <1>1, <1>2, <1>3, <1>4, <1>5, <1>6, <1>7, <1>8, <1>9, <1>10
  DEF Next, BootNext, ApproveNext, FailureNext

LEMMA CandidatesAgreeInductive ==
    ASSUME ~ HandlerFails
    PROVE  TypeInv /\ CandidatesAgree /\ [Next]_vars => CandidatesAgree'
<1> SUFFICES ASSUME TypeInv, CandidatesAgree, [Next]_vars
             PROVE  CandidatesAgree'
  OBVIOUS
<1> USE DEF CandidatesAgree, Up, Handle, Return, Goto
<1> USE DEF memory, memRegistry, store, diskRegistry
<1>1. CASE Boot
  BY <1>1 DEF Boot, RegistryLoads
<1>2. CASE BootstrapV0 \/ BootSavesRuntime \/ BootSavesCurrent
  BY <1>2 DEF BootstrapV0, CreateRuntime, BootSavesRuntime, BootSavesCurrent, SaveRuntime,
     SaveCurrentVersion
<1>3. ASSUME NEW a \in Amendments, Evaluate(a) PROVE CandidatesAgree'
  <2>1. candidates = dCandidates /\ dCandidates' = dCandidates
    BY <1>3 DEF Evaluate
  <2>2. CASE RegisterCandidate(BuildCandidate(a)) /\ Handle("evaluate.candidate", AmendmentRequest(a))
    <3>1. BuildCandidate(a).amendment = a /\ req'.amendment = a
      BY <2>2, RequestType DEF BuildCandidate
    <3>2. candidates[a] = None /\ candidates' = [candidates EXCEPT ![a] = BuildCandidate(a)]
      BY <2>2, <3>1 DEF RegisterCandidate
    <3> QED BY <2>1, <2>2, <3>1, <3>2 DEF TypeInv, TypeOK, RegistryTypeOK
  <2>3. CASE UNCHANGED memRegistry /\ pc' # "evaluate.candidate"
    BY <2>1, <2>3
  <2> QED BY <1>3, <2>2, <2>3 DEF Evaluate
<1>4. CASE SaveSandboxManifest
  BY <1>4 DEF SaveSandboxManifest, SaveCandidate
<1>5. CASE \/ ProposeNext
           \/ SuiteIsUnknown
           \/ \E pass \in BOOLEAN : RunSuites(pass)
           \/ SaveEvaluation
  BY <1>5 DEF ProposeNext, Propose, SaveProposal, SuiteIsUnknown, RunSuites, SaveEvaluation,
     SaveAmendment
<1>6. CASE ApproveNext
  BY <1>6 DEF ApproveNext, Approve, ApprovalRefused, ApprovalGranted, CreateRuntime,
     PromotionSavesRuntime, PromotionSavesCurrent, PromotionSavesAudit, SavePromotion,
     SaveAmendment, SaveRuntime, SaveCurrentVersion, SaveAudit
<1>7. CASE RejectNext \/ RollbackNext
  BY <1>7 DEF RejectNext, RollbackNext, Reject, SaveRejection, Rollback, RollbackTo,
     RollbackSavesCurrent, RollbackSavesAudit, SaveAmendment, SaveCurrentVersion, SaveAudit
<1>8. CASE Crash \/ BootFails
  BY <1>8 DEF Crash, BootFails, MemoryIsLost
<1>9. CASE AnswerError \/ UNCHANGED vars
  BY <1>9 DEF AnswerError, vars
<1> QED
  BY <1>1, <1>2, <1>3, <1>4, <1>5, <1>6, <1>7, <1>8, <1>9
  DEF Next, BootNext, EvaluateNext, FailureNext

LEMMA TrailAgreesInductive ==
    ASSUME ~ HandlerFails
    PROVE  TypeInv /\ TrailAgrees /\ [Next]_vars => TrailAgrees'
<1> SUFFICES ASSUME TypeInv, TrailAgrees, [Next]_vars
             PROVE  TrailAgrees'
  OBVIOUS
<1> USE DEF TrailAgrees, Up, Handle, Return, Goto, memory, store
<1>1. CASE BootNext
  BY <1>1 DEF BootNext, Boot, BootstrapV0, BootSavesRuntime, BootSavesCurrent
<1>2. CASE ProposeNext \/ EvaluateNext
  BY <1>2 DEF ProposeNext, EvaluateNext, Propose, SaveProposal, Evaluate,
     SaveSandboxManifest, SuiteIsUnknown, RunSuites, SaveEvaluation, SaveAmendment
<1>3. CASE PromotionSavesCurrent \/ RollbackSavesCurrent
  <2>1. PICK e : trail' = Append(trail, e)
    BY <1>3 DEF PromotionSavesCurrent, RollbackSavesCurrent
  <2>2. trail'[Len(trail')] = e
    BY <2>1, LastOfAppend DEF TypeInv, TypeOK
  <2>3. trail = dTrail /\ dTrail' = dTrail /\ pc' \in {"promote.audit", "rollback.audit"}
    BY <1>3 DEF PromotionSavesCurrent, RollbackSavesCurrent
  <2> QED BY <2>1, <2>2, <2>3
<1>4. CASE PromotionSavesAudit \/ RollbackSavesAudit
  BY <1>4 DEF PromotionSavesAudit, RollbackSavesAudit, SaveAudit
<1>5. CASE ApproveNext /\ ~ PromotionSavesCurrent /\ ~ PromotionSavesAudit
  BY <1>5 DEF ApproveNext, Approve, ApprovalRefused, ApprovalGranted, PromotionSavesRuntime,
     SavePromotion, SaveAmendment
<1>6. CASE RejectNext \/ \E v \in Versions : Rollback(v)
  BY <1>6 DEF RejectNext, Reject, SaveRejection, Rollback, SaveAmendment
<1>7. CASE Crash \/ BootFails
  BY <1>7 DEF Crash, BootFails, MemoryIsLost
<1>8. CASE AnswerError \/ UNCHANGED vars
  BY <1>8 DEF AnswerError, vars
<1> QED
  BY <1>1, <1>2, <1>3, <1>4, <1>5, <1>6, <1>7, <1>8
  DEF Next, RollbackNext, FailureNext

\* A stored pointer to a release is what a boot starts from.
LEMMA PointerResolves ==
    ASSUME NEW rows, NEW v, Has(rows, v) PROVE CurrentOf(rows, v) = v
BY DEF CurrentOf

LEMMA CurrentAgreesInductive ==
    ASSUME ~ HandlerFails
    PROVE  TypeInv /\ ReleasesAgree /\ CurrentAgrees /\ [Next]_vars => CurrentAgrees'
<1> SUFFICES ASSUME TypeInv, ReleasesAgree, CurrentAgrees, [Next]_vars
             PROVE  CurrentAgrees'
  OBVIOUS
<1> USE DEF CurrentAgrees, Moving, Handle, Return, Goto, HandlerSteps
<1> USE DEF memory, memRegistry, store, diskRegistry
<1>1. CASE Boot
  BY <1>1 DEF Boot, RegistryLoads
<1>2. CASE BootstrapV0 \/ BootSavesRuntime
  BY <1>2 DEF BootstrapV0, BootSavesRuntime
<1>3. CASE BootSavesCurrent
  <2>1. current = 0 /\ released = dReleased /\ Has(released, 0)
    BY <1>3, MaxVersionAssumption
       DEF BootSavesCurrent, ReleasesAgree, Up, TypeInv, Control, BootWrites, BootSteps, Has,
           Versions
  <2> QED BY <1>3, <2>1, PointerResolves DEF BootSavesCurrent, SaveCurrentVersion
<1>4. CASE PromotionSavesCurrent \/ RollbackSavesCurrent
  <2>1. /\ released = dReleased /\ current = req.version /\ Has(released, current)
        /\ dCurrent' = req.version /\ dReleased' = dReleased /\ current' = current
        /\ pc' \in {"promote.audit", "rollback.audit"}
    BY <1>4 DEF PromotionSavesCurrent, RollbackSavesCurrent, SaveCurrentVersion, ReleasesAgree,
       Up, TypeInv, Control
  <2> QED BY <2>1, PointerResolves
<1>5. CASE ApprovalGranted
  <2>1. PICK v \in Versions :
            req' = [req EXCEPT !.version = v, !.from = current] /\ current' = v
    BY <1>5, GrantedRelease
  <2>2. req'.version = v /\ pc' = "promote.runtime"
    BY <1>5, <2>1 DEF ApprovalGranted, TypeInv, TypeOK, Request
  <2> QED BY <2>1, <2>2
<1>6. CASE PromotionSavesRuntime
  BY <1>6 DEF PromotionSavesRuntime
<1>7. ASSUME NEW v \in Versions, Rollback(v) PROVE CurrentAgrees'
  <2>1. current' = v /\ req'.version = v /\ pc' = "rollback.current"
    BY <1>7 DEF Rollback, RollbackTo, NoRequest
  <2> QED BY <2>1
<1>8. CASE ProposeNext \/ EvaluateNext
  BY <1>8 DEF ProposeNext, EvaluateNext, Propose, SaveProposal, Evaluate, RegisterCandidate,
     SaveSandboxManifest, SaveCandidate, SuiteIsUnknown, RunSuites, SaveEvaluation,
     SaveAmendment
<1>9. CASE \/ \E a \in Amendments, r \in Reviewers, cites \in BOOLEAN : Approve(a, r, cites)
           \/ ApprovalRefused
           \/ PromotionSavesAudit
           \/ SavePromotion
           \/ RejectNext
           \/ RollbackSavesAudit
  BY <1>9 DEF Approve, ApprovalRefused, PromotionSavesAudit, SavePromotion, RejectNext, Reject,
     SaveRejection, RollbackSavesAudit, SaveAmendment, SaveAudit
<1>10. CASE Crash \/ BootFails
  BY <1>10 DEF Crash, BootFails, MemoryIsLost
<1>11. CASE AnswerError \/ UNCHANGED vars
  BY <1>11 DEF AnswerError, vars
<1> QED
  BY <1>1, <1>2, <1>3, <1>4, <1>5, <1>6, <1>7, <1>8, <1>9, <1>10, <1>11
  DEF Next, BootNext, ApproveNext, RollbackNext, FailureNext

Agree == ReleasesAgree /\ CandidatesAgree /\ TrailAgrees /\ CurrentAgrees

\* Nothing is in memory while the process is down.
LEMMA DownAgrees == pc = "down" => Agree
BY DEF Agree, ReleasesAgree, CandidatesAgree, TrailAgrees, CurrentAgrees, Up, Moving,
   HandlerSteps

LEMMA AgreeInductive ==
    TypeInv /\ Agree /\ [Next]_vars /\ [~ HandlerFails]_vars => Agree'
BY ReleasesAgreeInductive, CandidatesAgreeInductive, TrailAgreesInductive,
   CurrentAgreesInductive, NoHandlerFails DEF Agree

LEMMA AgreeFromDown ==
    Spec => [](pc = "down" => (HandlersSucceed => []Agree))
BY DownAgrees, AgreeInductive, TypeInvariant, PTL DEF Spec, HandlersSucceed

LEMMA AgreeHolds == Spec /\ HandlersSucceed => []Agree
<1>1. Init => pc = "down"
  BY DEF Init
<1> QED BY <1>1, AgreeFromDown, PTL DEF Spec

\* Whatever failed before, a process that starts over brings memory and store
\* together: from then on, for as long as no handler's write fails, a boot would
\* load between any two handlers what memory has, wherever later processes die
\* and whichever boots a failed write ends.
THEOREM RestartIsInvisible ==
    Spec => [](pc = "down" => (HandlersSucceed => []RestartRestores))
<1>1. Agree => RestartRestores
  BY DEF Agree, ReleasesAgree, CandidatesAgree, TrailAgrees, CurrentAgrees, Up, Moving,
     RestartRestores
<1> QED BY <1>1, AgreeFromDown, PTL DEF HandlersSucceed

-----------------------------------------------------------------------------
(* Lineage *)

Lineage(rows) ==
    \A v \in ReleasedOn(rows) \ {0} :
        rows[v].parent \in ReleasedOn(rows) /\ rows[v].parent < v

\* In memory and in the store, and v0 is nobody's child.
LineageInv ==
    /\ Lineage(released) /\ Lineage(dReleased)
    /\ pc = "boot.runtime" => released[0].parent = None
    /\ pc = "promote.runtime" => req.version # 0

\* The number that a granted approval gives is above the current one.
LEMMA GrantedIsNewer ==
    ASSUME TypeInv, ApprovalGranted, NEW v \in Versions,
           req' = [req EXCEPT !.version = v, !.from = current]
    PROVE  current \in Versions /\ current < v
<1>1. PICK w \in Versions :
          IsNextVersion(w) /\ req' = [req EXCEPT !.version = w, !.from = current]
  BY DEF ApprovalGranted
<1>2. v = w
  BY <1>1 DEF TypeInv, TypeOK, Request
<1> QED BY <1>1, <1>2 DEF IsNextVersion

LEMMA LineageInductive ==
    ASSUME ~ HandlerFails
    PROVE  TypeInv /\ Agree /\ LineageInv /\ [Next]_vars => LineageInv'
<1> SUFFICES ASSUME TypeInv, Agree, LineageInv, [Next]_vars
             PROVE  LineageInv'
  OBVIOUS
<1>1. Lineage(released')
  <2>1. CASE released' = released
    BY <2>1 DEF LineageInv
  <2>2. CASE Boot
    BY <2>2 DEF Boot, RegistryLoads, LineageInv
  <2>3. CASE BootstrapV0
    <3>1. \A v \in Versions \ {0} : released'[v] = released[v]
      BY <2>3 DEF BootstrapV0, CreateRuntime, TypeInv, TypeOK, RegistryTypeOK
    <3>2. released'[0] # None
      <4>1. TypeInv'
        BY TypeInvInductive
      <4> QED BY <2>3, <4>1 DEF BootstrapV0, Goto, TypeInv, Control, BootWrites, BootSteps
    <3> QED BY <3>1, <3>2 DEF LineageInv, Lineage, ReleasedOn
  <2>4. CASE ApprovalGranted
    <3> DEFINE m == [parent    |-> current,
                     config    |-> ApplyDiff(released[current].config,
                                             amend[req.amendment].diff),
                     amendment |-> req.amendment,
                     createdBy |-> req.reviewer]
    <3>1. PICK v \in Versions :
            /\ released[v] = None /\ released' = [released EXCEPT ![v] = m]
            /\ req' = [req EXCEPT !.version = v, !.from = current]
            /\ current \in Versions /\ released[current] # None
      BY <2>4, GrantedRelease
    <3>2. current < v
      BY <2>4, <3>1, GrantedIsNewer
    <3>3. released'[v].parent = current /\ released'[current] = released[current]
      BY <3>1 DEF TypeInv, TypeOK, RegistryTypeOK
    <3>4. \A w \in Versions \ {v} : released'[w] = released[w]
      BY <3>1 DEF TypeInv, TypeOK, RegistryTypeOK
    <3> HIDE DEF m
    <3>5. ASSUME NEW w \in ReleasedOn(released') \ {0}
          PROVE  released'[w].parent \in ReleasedOn(released') /\ released'[w].parent < w
      <4>1. CASE w = v
        BY <3>1, <3>2, <3>3, <4>1 DEF ReleasedOn
      <4>2. CASE w # v
        BY <3>1, <3>4, <4>2 DEF ReleasedOn, LineageInv, Lineage
      <4> QED BY <4>1, <4>2
    <3> QED BY <3>5 DEF Lineage
  <2>5. CASE Crash \/ BootFails
    BY <2>5 DEF Crash, BootFails, MemoryIsLost, RegistryForgets, NoRuntimes, Lineage, ReleasedOn
  <2> QED BY <2>1, <2>2, <2>3, <2>4, <2>5, MemoryRowsChange
<1>2. Lineage(dReleased')
  <2>1. CASE dReleased' = dReleased
    BY <2>1 DEF LineageInv
  <2>2. CASE BootSavesRuntime \/ PromotionSavesRuntime
    <3>1. dReleased' = released
      BY <2>2 DEF BootSavesRuntime, PromotionSavesRuntime, SaveRuntime, Agree, ReleasesAgree
    <3> QED BY <3>1 DEF LineageInv
  <2> QED BY <2>1, <2>2, StoredRowsChange
<1>3. pc' = "boot.runtime" => released'[0].parent = None
  <2>1. CASE BootstrapV0
    <3>1. current = None /\ 0 \in Versions
      BY <2>1, MaxVersionAssumption DEF BootstrapV0, Agree, CurrentAgrees, Versions
    <3> QED BY <2>1, <3>1 DEF BootstrapV0, CreateRuntime, TypeInv, TypeOK, RegistryTypeOK
  <2>2. CASE UNCHANGED vars
    BY <2>2 DEF vars, memory, memRegistry, LineageInv
  <2>3. CASE ~ BootstrapV0 /\ ~ UNCHANGED vars
    <3>1. pc' # "boot.runtime"
      BY <2>3 DEF Next, BootNext, Boot, BootSavesRuntime, BootSavesCurrent,
         AnswerError, ProposeNext, Propose, SaveProposal, EvaluateNext, Evaluate,
         SaveSandboxManifest, SuiteIsUnknown, RunSuites, SaveEvaluation, ApproveNext, Approve,
         ApprovalRefused, ApprovalGranted, PromotionSavesRuntime, PromotionSavesCurrent,
         PromotionSavesAudit, SavePromotion, RejectNext, Reject, SaveRejection, RollbackNext,
         Rollback, RollbackSavesCurrent, RollbackSavesAudit, FailureNext, Crash, BootFails, MemoryIsLost,
         Handle, Return, Goto
    <3> QED BY <3>1
  <2> QED BY <2>1, <2>2, <2>3
<1>4. pc' = "promote.runtime" => req'.version # 0
  <2>1. CASE ApprovalGranted
    <3>1. PICK v \in Versions : req' = [req EXCEPT !.version = v, !.from = current]
      BY <2>1, GrantedRelease
    <3>2. current < v /\ current \in Versions /\ req'.version = v
      BY <2>1, <3>1, GrantedIsNewer DEF TypeInv, TypeOK, Request
    <3> QED BY <3>2, MaxVersionAssumption, SMT DEF Versions
  <2>2. CASE UNCHANGED vars
    BY <2>2 DEF vars, LineageInv
  <2>3. CASE ~ ApprovalGranted /\ ~ UNCHANGED vars
    <3>1. pc' # "promote.runtime"
      BY <2>3 DEF Next, BootNext, Boot, BootstrapV0, BootSavesRuntime,
         BootSavesCurrent, AnswerError, ProposeNext, Propose, SaveProposal, EvaluateNext,
         Evaluate, SaveSandboxManifest, SuiteIsUnknown, RunSuites, SaveEvaluation, ApproveNext,
         Approve, ApprovalRefused, PromotionSavesRuntime, PromotionSavesCurrent,
         PromotionSavesAudit, SavePromotion, RejectNext, Reject, SaveRejection, RollbackNext,
         Rollback, RollbackSavesCurrent, RollbackSavesAudit, FailureNext, Crash, BootFails, MemoryIsLost,
         Handle, Return, Goto
    <3> QED BY <3>1
  <2> QED BY <2>1, <2>2, <2>3
<1> QED BY <1>1, <1>2, <1>3, <1>4 DEF LineageInv

LEMMA LineageHolds == Spec /\ HandlersSucceed => []LineageInv
<1>1. Init => LineageInv
  BY DEF Init, RegistryInit, NoRuntimes, LineageInv, Lineage, ReleasedOn
<1>2. /\ TypeInv /\ Agree /\ LineageInv /\ [Next]_vars /\ [~ HandlerFails]_vars
      => LineageInv'
  BY LineageInductive, NoHandlerFails
<1> QED BY <1>1, <1>2, AgreeHolds, TypeInvariant, PTL DEF Spec, HandlersSucceed

\* From every stored release get_amendment_chain walks down to v0 over stored
\* releases, after any crashes and failed boots, as long as no handler's write
\* fails.
THEOREM LineageIsStored == Spec /\ HandlersSucceed => []LineageReachesV0
<1>1. LineageInv => LineageReachesV0
  BY DEF LineageInv, Lineage, LineageReachesV0
<1> QED BY <1>1, LineageHolds, PTL

-----------------------------------------------------------------------------
(* The registry implements the ledger *)

LEMMA InitReleaseLedger == Init => Ledger!Init
BY DEF Init, RegistryInit, NoRuntimes, Ledger!Init

LEMMA StoredPointerChanges ==
    ASSUME [Next]_vars, dCurrent' # dCurrent
    PROVE  BootSavesCurrent \/ PromotionSavesCurrent \/ RollbackSavesCurrent
<1> USE DEF memory, memRegistry, store, diskRegistry
<1>1. CASE BootNext
  BY <1>1 DEF BootNext, Boot, BootstrapV0, BootSavesRuntime, SaveRuntime
<1>2. CASE ProposeNext \/ EvaluateNext
  BY <1>2 DEF ProposeNext, EvaluateNext, Propose, SaveProposal, Evaluate,
     SaveSandboxManifest, SaveCandidate, SuiteIsUnknown, RunSuites, SaveEvaluation,
     SaveAmendment
<1>3. CASE ApproveNext
  BY <1>3 DEF ApproveNext, Approve, ApprovalRefused, ApprovalGranted, PromotionSavesRuntime,
     PromotionSavesAudit, SavePromotion, SaveAmendment, SaveRuntime, SaveAudit
<1>4. CASE RejectNext \/ RollbackNext
  BY <1>4 DEF RejectNext, RollbackNext, Reject, SaveRejection, Rollback,
     RollbackSavesAudit, SaveAmendment, SaveAudit
<1>5. CASE FailureNext
  BY <1>5 DEF FailureNext, Crash, HandlerFails, BootFails
<1>6. CASE AnswerError \/ UNCHANGED vars
  BY <1>6 DEF AnswerError, vars
<1> QED BY <1>1, <1>2, <1>3, <1>4, <1>5, <1>6 DEF Next

\* A stored release is a release of the ledger.
LEMMA ReleaseIsALedgerStep ==
    ASSUME ~ HandlerFails, TypeInv, StoreInv, ScopePreserved, Agree, LineageInv, [Next]_vars,
           dReleased' # dReleased
    PROVE  Ledger!Next
<1>1. PICK v \in Versions :
          /\ dReleased[v] = None
          /\ dReleased' = [dReleased EXCEPT ![v] = released[v]]
          /\ \/ v = 0 /\ BootSavesRuntime
             \/ v = req.version /\ PromotionSavesRuntime
  BY StoredRowIsNew
<1>2. dReleased'[v] = released[v] /\ released' = released /\ dCurrent' = dCurrent
      /\ dReleased' = released
  BY <1>1 DEF BootSavesRuntime, PromotionSavesRuntime, SaveRuntime, memory, memRegistry, TypeInv,
     TypeOK, RegistryTypeOK, Agree, ReleasesAgree
<1>3. released[v] # None
  BY <1>1, <1>2 DEF TypeInv, TypeOK, RegistryTypeOK
<1>4. released[v] \in Manifest
  BY <1>3 DEF TypeInv, TypeOK, RegistryTypeOK
<1>5. Ledger!KeepsScope(released[v])
  BY <1>3 DEF ScopePreserved, ReleasedOn, Ledger!KeepsScope
<1>6. CASE v = 0
  <2>1. BootSavesRuntime
    <3>1. pc = "promote.runtime" => req.version # 0
      BY DEF LineageInv
    <3> QED BY <1>1, <1>6, <3>1 DEF PromotionSavesRuntime
  <2>2. released[0].parent = None
    BY <2>1 DEF BootSavesRuntime, LineageInv
  <2> QED BY <1>1, <1>2, <1>4, <1>5, <1>6, <2>2 DEF Ledger!Next, Ledger!Release, Ledger!Released
<1>7. CASE v # 0
  <2>1. released[v].parent \in ReleasedOn(released) /\ released[v].parent < v
    BY <1>3, <1>7 DEF LineageInv, Lineage, ReleasedOn
  <2>2. released[v].parent # v
    BY <2>1, MaxVersionAssumption, SMT DEF Versions, ReleasedOn
  <2>3. released[v].parent \in {w \in Versions : w < v /\ Ledger!Released(w)}
    BY <1>1, <1>2, <2>1, <2>2 DEF ReleasedOn, Ledger!Released, TypeInv, TypeOK, RegistryTypeOK
  <2> QED BY <1>1, <1>2, <1>4, <1>5, <1>7, <2>3 DEF Ledger!Next, Ledger!Release, Ledger!Released
<1> QED BY <1>6, <1>7

\* A stored pointer names a stored release.
LEMMA PointerIsALedgerStep ==
    ASSUME TypeInv, Agree, [Next]_vars, dCurrent' # dCurrent
    PROVE  Ledger!Next
<1>1. /\ dCurrent' = current /\ dReleased' = dReleased /\ released = dReleased
      /\ Has(released, current)
  <2>1. CASE BootSavesCurrent
    BY <2>1, MaxVersionAssumption
       DEF BootSavesCurrent, SaveCurrentVersion, Agree, ReleasesAgree, Up, TypeInv, Control,
           BootWrites, BootSteps, Has, Versions
  <2>2. CASE PromotionSavesCurrent \/ RollbackSavesCurrent
    BY <2>2 DEF PromotionSavesCurrent, RollbackSavesCurrent, SaveCurrentVersion, Agree,
       ReleasesAgree, CurrentAgrees, Moving, Up, TypeInv, Control, HandlerSteps
  <2> QED BY <2>1, <2>2, StoredPointerChanges
<1> QED BY <1>1 DEF Has, Ledger!Next, Ledger!Point, Ledger!Released

\* Where no handler's write fails, the rows of the registry are a ledger that only
\* grows and a pointer into it, whatever is promoted, rolled back or crashes.
THEOREM RegistryIsALedger == Spec /\ HandlersSucceed => LedgerSpec
<1>1. /\ TypeInv /\ StoreInv /\ ScopePreserved /\ Agree /\ LineageInv
      /\ [Next]_vars /\ [~ HandlerFails]_vars
      => [Ledger!Next]_<<dReleased, dCurrent>>
  BY ReleaseIsALedgerStep, PointerIsALedgerStep, NoHandlerFails
<1> QED
  BY <1>1, InitReleaseLedger, TypeInvariant, StoreInvariant, ScopeIsPreserved, AgreeHolds,
     LineageHolds, PTL DEF Spec, HandlersSucceed, LedgerSpec, Ledger!Spec
=============================================================================
