---------------------------- MODULE GovernanceProofs ----------------------------
(***************************************************************************)
(* Theorems about Governance, for every value of its constants.            *)
(***************************************************************************)
EXTENDS Governance, SequenceTheorems, FiniteSetTheorems, WellFoundedInduction, TLAPS

AmendmentSteps == HandlerSteps \ {"rollback.current", "rollback.audit"}

VersionSteps ==
    {"promote.runtime", "promote.current", "promote.audit", "promote.save",
     "rollback.current", "rollback.audit"}

\* What the locals of a handler and the tables it works on are at each of its
\* writes.
Control ==
    /\ pc \in BootWrites => current = 0 /\ released[0] # None
    /\ pc \in HandlerSteps \cup {"idle"} => Has(released, current)
    /\ pc \in AmendmentSteps => req.amendment # None /\ amend[req.amendment] # None
    /\ pc \in {"evaluate.candidate", "evaluate.run"} => candidates[req.amendment] # None
    /\ pc \in VersionSteps => req.version # None
    /\ pc \in {"promote.audit", "rollback.audit"} => trail # <<>>

TypeInv == TypeOK /\ Control

-----------------------------------------------------------------------------
(* Lemmas about the operators *)

\* A table with a release has a newest one, since version numbers are bounded.
LEMMA LatestExists ==
    ASSUME NEW rows, NEW x \in Versions, rows[x] # None
    PROVE  \E v \in Versions : IsLatest(rows, v)
<1> DEFINE less == {p \in Nat \X Nat : p[1] < p[2]}
           room == {n \in Versions : rows[MaxVersion - n] # None}
<1>1. IsWellFoundedOn(less, Nat)
  BY NatLessThanWellFounded DEF OpToRel
<1>2. room \subseteq Nat /\ MaxVersion - x \in room
  BY MaxVersionAssumption, SMT DEF Versions
<1>3. PICK n \in room : \A m \in room : <<m, n>> \notin less
  <2> HIDE DEF less, room
  <2> QED BY <1>1, <1>2, WFMin
<1>4. \A m \in room : ~ (m < n)
  BY <1>2, <1>3
<1>5. MaxVersion - n \in Versions /\ rows[MaxVersion - n] # None
  BY MaxVersionAssumption, SMT DEF Versions
<1>6. ASSUME NEW w \in Versions, Has(rows, w) PROVE w <= MaxVersion - n
  <2>1. MaxVersion - w \in Versions /\ MaxVersion - (MaxVersion - w) = w
    BY MaxVersionAssumption, SMT DEF Versions
  <2>2. MaxVersion - w \in room
    BY <1>6, <2>1 DEF Has
  <2> QED BY <1>4, <2>1, <2>2, MaxVersionAssumption, SMT DEF Versions
<1> QED BY <1>5, <1>6 DEF IsLatest, Has

\* The version a boot starts from is a release, if there is any.
LEMMA CurrentOfResolves ==
    ASSUME NEW rows, NEW pointer, CurrentOf(rows, pointer) # None
    PROVE  Has(rows, CurrentOf(rows, pointer))
<1>1. CASE \E v \in Versions : Has(rows, v)
  <2>1. \E v \in Versions : IsLatest(rows, v)
    BY <1>1, LatestExists DEF Has
  <2>2. Has(rows, CHOOSE v \in Versions : IsLatest(rows, v))
    BY <2>1 DEF IsLatest
  <2> QED BY <2>2 DEF CurrentOf
<1>2. CASE ~ \E v \in Versions : Has(rows, v)
  BY <1>2 DEF CurrentOf, Has
<1> QED BY <1>1, <1>2

\* A diff applied to a configuration gives a configuration.
LEMMA ApplyDiffType ==
    ASSUME NEW c \in Config, NEW d \in Diffs
    PROVE  ApplyDiff(c, d) \in Config
BY DiffsAssumption DEF ApplyDiff, Config

\* build_candidate gives a candidate manifest of the amendment.
LEMMA BuildCandidateType ==
    ASSUME TypeOK, NEW a \in Amendments, amend[a] # None, CanBuild(a)
    PROVE  BuildCandidate(a) \in Candidate
<1>1. amend[a] \in Amendment
  BY DEF TypeOK
<1>2. released[amend[a].parent] \in Manifest
  BY DEF CanBuild, HasVersion, Has, TypeOK, RegistryTypeOK
<1>3. released[amend[a].parent].config \in Config /\ amend[a].diff \in Diffs
  BY <1>1, <1>2 DEF Manifest, Amendment
<1> QED BY <1>1, <1>3, ApplyDiffType DEF BuildCandidate, Candidate, Amendment

\* The last entry of a non-empty log is one of its entries.
LEMMA LastType ==
    ASSUME NEW S, NEW s \in Seq(S), s # <<>>
    PROVE  s[Len(s)] \in S
<1>1. Len(s) \in 1..Len(s)
  BY EmptySeq, SMT
<1> QED BY <1>1, ElementOfSeq

\* Appending to a log puts the entry last and keeps the others where they were.
LEMMA LastOfAppend ==
    ASSUME NEW s, NEW S, s \in Seq(S), NEW e
    PROVE  /\ Append(s, e)[Len(Append(s, e))] = e
           /\ Len(Append(s, e)) \in 1..Len(Append(s, e))
           /\ Len(Append(s, e)) = Len(s) + 1
           /\ \A i \in 1..Len(s) :
                i \in 1..Len(Append(s, e)) /\ Append(s, e)[i] = s[i]
<1>1. s \in Seq(S \cup {e}) /\ Len(s) \in Nat
  BY SeqMonotonic, LenProperties
<1> QED BY <1>1, AppendProperties

\* The locals of a handler that was given an amendment.
LEMMA RequestType ==
    ASSUME NEW a \in Amendments
    PROVE  /\ AmendmentRequest(a) \in Request
           /\ AmendmentRequest(a).amendment = a
BY DEF AmendmentRequest, NoRequest, Request

\* What is left of memory after a death has its type.
LEMMA ForgottenIsTyped ==
    ASSUME MemoryIsLost
    PROVE  /\ released' \in [Versions -> Manifest \cup {None}]
           /\ candidates' \in [Amendments -> Candidate \cup {None}]
           /\ current' = None
           /\ amend' \in [Amendments -> Amendment \cup {None}]
           /\ trail' \in Seq(Entry)
           /\ promoting' = None
           /\ learned' = {}
           /\ pc' = "down"
           /\ req' \in Request
BY EmptySeq DEF MemoryIsLost, RegistryForgets, NoRuntimes, NoCandidates, NoRequest, Request

\* The locals of no handler.
LEMMA NoRequestType == NoRequest \in Request
BY DEF NoRequest, Request

-----------------------------------------------------------------------------
(* Type correctness *)

\* Before the first boot every variable has its type.
LEMMA InitTypeInv == Init => TypeInv
BY BoundsAssumption, EmptySeq
   DEF Init, RegistryInit, TypeInv, TypeOK, Control, RegistryTypeOK, NoRuntimes,
       NoCandidates, NoRequest, Request, BootSteps, BootWrites, HandlerSteps,
       AmendmentSteps, VersionSteps

\* Every step of every handler, death and failed write keeps the types and what
\* the locals are at each write.
LEMMA TypeInvInductive == TypeInv /\ [Next]_vars => TypeInv'
<1> SUFFICES ASSUME TypeInv, [Next]_vars
             PROVE  TypeInv'
  OBVIOUS
<1> USE DEF TypeInv, TypeOK, RegistryTypeOK, Control
<1> USE DEF BootSteps, BootWrites, HandlerSteps, AmendmentSteps, VersionSteps
<1> USE DEF Handle, Return, Goto
<1> USE DEF memory, memRegistry, store, diskRegistry, failures
<1>1. CASE Boot
  <2>1. CurrentOf(dReleased, dCurrent) \in Versions \cup {None}
    BY CurrentOfResolves DEF Has
  <2>2. TypeOK'
    BY <1>1, <2>1 DEF Boot, RegistryLoads
  <2>3. Control'
    BY <1>1, CurrentOfResolves DEF Boot, RegistryLoads
  <2> QED BY <2>2, <2>3
<1>2. CASE BootstrapV0
  <2>1. /\ released' = [released EXCEPT ![0] =
                [parent |-> current, config |-> V0Config,
                 amendment |-> None, createdBy |-> System]]
        /\ [parent |-> current, config |-> V0Config,
            amendment |-> None, createdBy |-> System] \in Manifest
        /\ 0 \in Versions
    BY <1>2, V0ConfigAssumption, MaxVersionAssumption
       DEF BootstrapV0, CreateRuntime, Manifest, Versions
  <2>2. released' \in [Versions -> Manifest \cup {None}] /\ released'[0] # None
    BY <2>1, NoneAssumption
  <2> QED BY <1>2, <2>1, <2>2 DEF BootstrapV0, CreateRuntime
<1>3. CASE BootSavesRuntime
  BY <1>3, MaxVersionAssumption DEF BootSavesRuntime, SaveRuntime, Versions
<1>4. CASE BootSavesCurrent
  BY <1>4, MaxVersionAssumption DEF BootSavesCurrent, SaveCurrentVersion, Versions, Has
<1>5. ASSUME NEW a \in Amendments, NEW d \in Diffs, NEW p \in Proposers, Propose(a, d, p)
      PROVE  TypeInv'
  <2> DEFINE new == [status |-> "proposed", parent |-> current, diff |-> d, proposer |-> p,
                     reviewer |-> None, eval |-> None, resulting |-> None]
  <2>1. new \in Amendment
    BY <1>5 DEF Propose, Amendment, Status, Has
  <2>2. new # None
    BY <2>1, NoneIsNoRecord
  <2> HIDE DEF new
  <2>3. amend' = [amend EXCEPT ![a] = new]
    BY <1>5 DEF Propose, new
  <2>4. TypeOK'
    BY <1>5, RequestType, <2>1, <2>3 DEF Propose
  <2>5. Control'
    BY <1>5, RequestType, NoneAssumption, <2>1, <2>2, <2>3 DEF Propose, Has
  <2> QED BY <2>4, <2>5
<1>6. CASE SaveProposal
  BY <1>6, NoRequestType DEF SaveProposal, SaveAmendment, Has, Request
<1>7. ASSUME NEW a \in Amendments, Evaluate(a)
      PROVE  TypeInv'
  <2>1. amend[a] \in Amendment /\ amend[a] # None /\ pc = "idle"
    BY <1>7 DEF Evaluate
  <2>2. BuildCandidate(a) \in Candidate /\ BuildCandidate(a).amendment = a
    BY <1>7, BuildCandidateType DEF Evaluate, BuildCandidate
  <2>3. /\ amend' \in [Amendments -> Amendment \cup {None}]
        /\ amend'[a] # None
    BY <1>7, <2>1, NoneIsNoRecord DEF Evaluate, Amendment, Status
  <2>4. /\ candidates' \in [Amendments -> Candidate \cup {None}]
        /\ pc' # "idle" => candidates'[a] # None
    BY <1>7, <2>1, <2>2, NoneAssumption DEF Evaluate, RegisterCandidate
  <2>5. /\ released' = released /\ current' = current
        /\ \/ pc' \in {"evaluate.candidate", "evaluate.run"} /\ req' = AmendmentRequest(a)
           \/ pc' = "idle" /\ req' = NoRequest
    BY <1>7 DEF Evaluate, RegisterCandidate
  <2>6. TypeOK'
    BY <1>7, <2>3, <2>4, <2>5, RequestType, NoRequestType DEF Evaluate
  <2>7. Control'
    BY <2>1, <2>3, <2>4, <2>5, RequestType, NoneAssumption DEF Has
  <2> QED BY <2>6, <2>7
<1>8. CASE SaveSandboxManifest
  BY <1>8 DEF SaveSandboxManifest, SaveCandidate, Has, Request
<1>9. CASE SuiteIsUnknown
  BY <1>9, NoRequestType DEF SuiteIsUnknown, Has
<1>10. ASSUME NEW pass \in BOOLEAN, RunSuites(pass)
       PROVE  TypeInv'
  <2> DEFINE a == req.amendment
             e == [pass |-> pass, candidate |-> candidates[a]]
  <2>1. a \in Amendments /\ amend[a] \in Amendment /\ amend[a] # None
    BY <1>10 DEF RunSuites, Request
  <2>2. e \in Evaluation
    BY <1>10, <2>1 DEF RunSuites, Evaluation
  <2>3. /\ amend' = [amend EXCEPT ![a] = [amend[a] EXCEPT !.eval = e, !.status = "review"]]
        /\ [amend[a] EXCEPT !.eval = e, !.status = "review"] \in Amendment
    BY <1>10, <2>1, <2>2 DEF RunSuites, Amendment, Status
  <2>4. amend' \in [Amendments -> Amendment \cup {None}] /\ amend'[a] # None
    BY <2>1, <2>3, NoneIsNoRecord
  <2> QED BY <1>10, <2>4 DEF RunSuites, Has
<1>11. CASE SaveEvaluation
  BY <1>11, NoRequestType DEF SaveEvaluation, SaveAmendment, Has, Request
<1>12. ASSUME NEW a \in Amendments, NEW r \in Reviewers, NEW cites \in BOOLEAN,
              Approve(a, r, cites)
       PROVE  TypeInv'
  <2> DEFINE q == [AmendmentRequest(a) EXCEPT !.reviewer = r, !.cites = cites]
  <2>1. amend[a] \in Amendment /\ pc = "idle"
    BY <1>12 DEF Approve
  <2>2. q \in Request /\ q.amendment = a
    BY RequestType DEF Request
  <2>3. amend' \in [Amendments -> Amendment \cup {None}] /\ amend'[a] # None
    BY <1>12, <2>1, NoneIsNoRecord DEF Approve, Amendment, Status
  <2>4. req' = q /\ pc' = "approve.save"
    BY <1>12 DEF Approve
  <2> HIDE DEF q
  <2>5. /\ memRegistry' = memRegistry
        /\ UNCHANGED <<store, trail, promoting, learned, issued, failures>>
    BY <1>12 DEF Approve
  <2>6. TypeOK'
    BY <2>2, <2>3, <2>4, <2>5
  <2>7. Control'
    BY <2>1, <2>2, <2>3, <2>4, <2>5, NoneAssumption DEF Has
  <2> QED BY <2>6, <2>7
<1>13. CASE ApprovalRefused
  BY <1>13, NoRequestType DEF ApprovalRefused, SaveAmendment, Has, Request
<1>14. CASE ApprovalGranted
  <2> DEFINE a == req.amendment
             config == ApplyDiff(released[current].config, amend[a].diff)
  <2>1. /\ a \in Amendments /\ amend[a] \in Amendment
        /\ current \in Versions /\ released[current] \in Manifest
    BY <1>14 DEF ApprovalGranted, Request, Has
  <2>2. config \in Config
    BY <2>1, ApplyDiffType DEF Manifest, Amendment
  <2>3. req.reviewer \in Principals
    BY <1>14, PrincipalsAssumption DEF ApprovalGranted, Approvable, Request
  <2>4. PICK v \in Versions :
            /\ CreateRuntime(v, config, req.reviewer, a)
            /\ req' = [req EXCEPT !.version = v, !.from = current]
    BY <1>14 DEF ApprovalGranted
  <2> DEFINE m == [parent |-> current, config |-> config,
                   amendment |-> a, createdBy |-> req.reviewer]
  <2>5. m \in Manifest /\ m # None
    <3>1. m \in Manifest
      BY <2>1, <2>2, <2>3 DEF Manifest
    <3> QED BY <3>1, NoneAssumption
  <2>6. released' = [released EXCEPT ![v] = m] /\ current' = v /\ candidates' = candidates
    BY <2>4 DEF CreateRuntime
  <2> HIDE DEF m, config
  <2>7. released' \in [Versions -> Manifest \cup {None}] /\ released'[v] # None
    BY <2>5, <2>6
  <2>8. /\ req' \in Request
        /\ req'.version \in Versions /\ req'.amendment = a
    BY <2>1, <2>4 DEF Request
  <2>9. req'.version # None
    BY <2>8, NoneAssumption
  <2> QED
    BY <1>14, <2>1, <2>6, <2>7, <2>8, <2>9 DEF ApprovalGranted, SaveAmendment, Has
<1>15. CASE PromotionSavesRuntime
  BY <1>15 DEF PromotionSavesRuntime, SaveRuntime, Has, Request
<1>16. CASE PromotionSavesCurrent
  <2> DEFINE a == req.amendment
             e == PromoteEntry(a, req.reviewer, req.from, req.version)
  <2>1. /\ a \in Amendments /\ amend[a] \in Amendment /\ amend[a] # None
        /\ req.version \in Versions
    BY <1>16 DEF PromotionSavesCurrent, Request
  <2>2. amend' \in [Amendments -> Amendment \cup {None}] /\ amend'[a] # None
    BY <1>16, <2>1, NoneIsNoRecord DEF PromotionSavesCurrent, Amendment, Status, Request
  <2>3. e \in Entry
    BY <2>1 DEF PromoteEntry, Entry, Request
  <2>4. trail' = Append(trail, e)
    BY <1>16 DEF PromotionSavesCurrent
  <2> HIDE DEF e
  <2>5. trail' \in Seq(Entry) /\ trail' # <<>>
    BY <2>3, <2>4, AppendProperties
  <2> QED
    BY <1>16, <2>1, <2>2, <2>5 DEF PromotionSavesCurrent, SaveCurrentVersion, Has
<1>17. CASE PromotionSavesAudit
  <2>1. dTrail' \in Seq(Entry)
    BY <1>17, LastType, AppendProperties DEF PromotionSavesAudit, SaveAudit
  <2> QED BY <1>17, <2>1 DEF PromotionSavesAudit, SaveAudit, Has
<1>18. CASE SavePromotion
  BY <1>18, NoRequestType DEF SavePromotion, SaveAmendment, Has, Request
<1>19. ASSUME NEW a \in Amendments, Reject(a)
       PROVE  TypeInv'
  <2>1. amend[a] \in Amendment /\ amend[a] # None /\ pc = "idle"
    BY <1>19 DEF Reject
  <2>2. amend' \in [Amendments -> Amendment \cup {None}] /\ amend'[a] # None
    BY <1>19, <2>1, NoneIsNoRecord DEF Reject, Amendment, Status
  <2> QED BY <1>19, <2>1, <2>2, RequestType, NoneAssumption DEF Reject, Has
<1>20. CASE SaveRejection
  BY <1>20, NoRequestType DEF SaveRejection, SaveAmendment, Has, Request
<1>21. ASSUME NEW v \in Versions, Rollback(v)
       PROVE  TypeInv'
  <2>1. /\ req' \in Request
        /\ req'.version = v
    BY <1>21, NoRequestType DEF Rollback, Request
  <2> QED BY <1>21, <2>1, NoneAssumption DEF Rollback, RollbackTo, HasVersion, Has
<1>22. CASE RollbackSavesCurrent
  <2> DEFINE e == RollbackEntry(req.from, req.version)
  <2>1. req.version \in Versions
    BY <1>22 DEF RollbackSavesCurrent, Request
  <2>2. e \in Entry
    BY <2>1 DEF RollbackEntry, Entry, Request
  <2>3. trail' = Append(trail, e)
    BY <1>22 DEF RollbackSavesCurrent
  <2> HIDE DEF e
  <2>4. trail' \in Seq(Entry) /\ trail' # <<>>
    BY <2>2, <2>3, AppendProperties
  <2> QED BY <1>22, <2>1, <2>4 DEF RollbackSavesCurrent, SaveCurrentVersion, Has
<1>23. CASE RollbackSavesAudit
  <2>1. dTrail' \in Seq(Entry)
    BY <1>23, LastType, AppendProperties DEF RollbackSavesAudit, SaveAudit
  <2> QED BY <1>23, <2>1, NoRequestType DEF RollbackSavesAudit, SaveAudit, Has
<1>24. CASE Crash
  <2>1. MemoryIsLost /\ crashes' \in 0..MaxCrashes
    BY <1>24, BoundsAssumption DEF Crash
  <2> QED BY <1>24, <2>1, ForgottenIsTyped DEF Crash, MemoryIsLost
<1>25. CASE HandlerFails
  BY <1>25, NoRequestType, BoundsAssumption DEF HandlerFails, Has, HandlerWrites
<1>26. CASE BootFails
  <2>1. MemoryIsLost /\ faults' \in 0..MaxFaults
    BY <1>26, BoundsAssumption DEF BootFails
  <2> QED BY <1>26, <2>1, ForgottenIsTyped DEF BootFails, MemoryIsLost
<1>27. CASE UNCHANGED vars
  BY <1>27 DEF vars, Has
<1> QED
  BY <1>1, <1>2, <1>3, <1>4, <1>5, <1>6, <1>7, <1>8, <1>9, <1>10, <1>11, <1>12,
     <1>13, <1>14, <1>15, <1>16, <1>17, <1>18, <1>19, <1>20, <1>21, <1>22, <1>23,
     <1>24, <1>25, <1>26, <1>27
  DEF Next, BootNext, AnswerError, ProposeNext, EvaluateNext, ApproveNext, RejectNext,
      RollbackNext, FailureNext

\* So types and control hold at all times.
LEMMA TypeInvariant == Spec => []TypeInv
BY InitTypeInv, TypeInvInductive, PTL DEF Spec

\* Whatever the amendments, diffs, principals and bounds: every variable of the
\* pipeline keeps its type, through crashes, restarts and failed writes.
THEOREM TypeCorrect == Spec => []TypeOK
<1>1. TypeInv => TypeOK
  BY DEF TypeInv
<1> QED BY <1>1, TypeInvariant, PTL

-----------------------------------------------------------------------------
(* The store and memory agree on what is released *)

\* A release in the store is the one in memory, and a number whose row is about
\* to be written has none yet.
StoreInv ==
    /\ Up => \A v \in Versions : Has(dReleased, v) => released[v] = dReleased[v]
    /\ pc = "boot.runtime" => dReleased[0] = None
    /\ pc = "promote.runtime" => dReleased[req.version] = None

\* The empty store and the empty memory agree.
LEMMA InitStoreInv == Init => StoreInv
BY DEF Init, StoreInv, Up

\* Every step keeps memory and store in agreement on the releases.
LEMMA StoreInvInductive == TypeInv /\ StoreInv /\ [Next]_vars => StoreInv'
<1> SUFFICES ASSUME TypeInv, StoreInv, [Next]_vars
             PROVE  StoreInv'
  OBVIOUS
<1> USE DEF StoreInv, Up, Has, Handle, Return, Goto
<1> USE DEF memory, memRegistry, store, diskRegistry, failures
<1>1. CASE Boot
  BY <1>1 DEF Boot, RegistryLoads
<1>2. CASE BootstrapV0
  BY <1>2, MaxVersionAssumption
     DEF BootstrapV0, CreateRuntime, HasVersion, Versions, TypeInv, TypeOK, RegistryTypeOK
<1>3. CASE BootSavesRuntime
  BY <1>3 DEF BootSavesRuntime, SaveRuntime, TypeInv, TypeOK, RegistryTypeOK
<1>4. CASE BootSavesCurrent
  BY <1>4 DEF BootSavesCurrent, SaveCurrentVersion
<1>5. CASE ApprovalGranted
  <2>1. PICK v \in Versions :
            /\ CreateRuntime(v, ApplyDiff(released[current].config, amend[req.amendment].diff),
                             req.reviewer, req.amendment)
            /\ req' = [req EXCEPT !.version = v, !.from = current]
    BY <1>5 DEF ApprovalGranted
  <2>2. released[v] = None /\ req'.version = v
    BY <2>1 DEF CreateRuntime, HasVersion, TypeInv, TypeOK, Request
  <2>3. \A w \in Versions : w # v => released'[w] = released[w]
    BY <2>1 DEF CreateRuntime, TypeInv, TypeOK, RegistryTypeOK
  <2> QED BY <1>5, <2>2, <2>3 DEF ApprovalGranted, SaveAmendment
<1>6. CASE PromotionSavesRuntime
  BY <1>6 DEF PromotionSavesRuntime, SaveRuntime, TypeInv, TypeOK, RegistryTypeOK
<1>7. CASE Crash \/ BootFails
  BY <1>7 DEF Crash, BootFails, MemoryIsLost
<1>8. CASE \/ ProposeNext
           \/ EvaluateNext
  BY <1>8 DEF ProposeNext, EvaluateNext, Propose, SaveProposal, Evaluate, RegisterCandidate,
     SaveSandboxManifest, SaveCandidate, SuiteIsUnknown, RunSuites, SaveEvaluation,
     SaveAmendment
<1>9. CASE \/ \E a \in Amendments, r \in Reviewers, cites \in BOOLEAN : Approve(a, r, cites)
           \/ ApprovalRefused
           \/ PromotionSavesCurrent
           \/ PromotionSavesAudit
           \/ SavePromotion
  BY <1>9 DEF Approve, ApprovalRefused, PromotionSavesCurrent, PromotionSavesAudit,
     SavePromotion, SaveAmendment, SaveCurrentVersion, SaveAudit
<1>10. CASE RejectNext \/ RollbackNext
  BY <1>10 DEF RejectNext, RollbackNext, Reject, SaveRejection, Rollback, RollbackTo,
     RollbackSavesCurrent, RollbackSavesAudit, SaveAmendment, SaveCurrentVersion, SaveAudit
<1>11. CASE HandlerFails
  BY <1>11 DEF HandlerFails, HandlerWrites, HandlerSteps
<1>12. CASE UNCHANGED vars
  BY <1>12 DEF vars
<1> QED
  BY <1>1, <1>2, <1>3, <1>4, <1>5, <1>6, <1>7, <1>8, <1>9, <1>10, <1>11, <1>12
  DEF Next, BootNext, AnswerError, ApproveNext, FailureNext

\* So they agree at all times.
LEMMA StoreInvariant == Spec => []StoreInv
BY InitStoreInv, StoreInvInductive, TypeInvariant, PTL DEF Spec

-----------------------------------------------------------------------------
(* Released versions never change *)

\* Only two steps write a row of a release.
LEMMA StoredRowsChange ==
    ASSUME [Next]_vars, dReleased' # dReleased
    PROVE  BootSavesRuntime \/ PromotionSavesRuntime
<1> USE DEF memory, memRegistry, store, diskRegistry
<1>1. CASE BootNext
  BY <1>1 DEF BootNext, Boot, BootstrapV0, BootSavesCurrent, SaveCurrentVersion
<1>2. CASE ProposeNext \/ EvaluateNext
  BY <1>2 DEF ProposeNext, EvaluateNext, Propose, SaveProposal, Evaluate,
     SaveSandboxManifest, SaveCandidate, SuiteIsUnknown, RunSuites, SaveEvaluation,
     SaveAmendment
<1>3. CASE ApproveNext
  BY <1>3 DEF ApproveNext, Approve, ApprovalRefused, ApprovalGranted,
     PromotionSavesCurrent, PromotionSavesAudit, SavePromotion, SaveAmendment,
     SaveCurrentVersion, SaveAudit
<1>4. CASE RejectNext \/ RollbackNext
  BY <1>4 DEF RejectNext, RollbackNext, Reject, SaveRejection, Rollback,
     RollbackSavesCurrent, RollbackSavesAudit, SaveAmendment, SaveCurrentVersion, SaveAudit
<1>5. CASE FailureNext
  BY <1>5 DEF FailureNext, Crash, HandlerFails, BootFails
<1>6. CASE AnswerError \/ UNCHANGED vars
  BY <1>6 DEF AnswerError, vars
<1> QED BY <1>1, <1>2, <1>3, <1>4, <1>5, <1>6 DEF Next

\* The row that a step writes is that of a number without a row, and it is the
\* release in memory.
LEMMA StoredRowIsNew ==
    ASSUME TypeInv, StoreInv, [Next]_vars, dReleased' # dReleased
    PROVE  \E v \in Versions :
              /\ dReleased[v] = None
              /\ dReleased' = [dReleased EXCEPT ![v] = released[v]]
              /\ \/ v = 0 /\ BootSavesRuntime
                 \/ v = req.version /\ PromotionSavesRuntime
<1>1. CASE BootSavesRuntime
  <2>1. 0 \in Versions
    BY MaxVersionAssumption DEF Versions
  <2>2. dReleased[0] = None /\ dReleased' = [dReleased EXCEPT ![0] = released[0]]
    BY <1>1 DEF BootSavesRuntime, SaveRuntime, StoreInv
  <2> QED BY <1>1, <2>1, <2>2
<1>2. CASE PromotionSavesRuntime
  <2>1. req.version \in Versions
    BY <1>2 DEF PromotionSavesRuntime, TypeInv, TypeOK, Control, VersionSteps, Request
  <2> QED BY <1>2, <2>1 DEF PromotionSavesRuntime, SaveRuntime, StoreInv
<1> QED BY <1>1, <1>2, StoredRowsChange

\* No sequence of promotions, rollbacks, restarts and failed writes overwrites
\* or loses a stored release, for any number of versions: a number that is free
\* in memory is free in the store, because every stored release is in memory.
THEOREM ReleasesAreImmutable == Spec => ReleasedImmutable
<1> DEFINE Kept == \A v \in Versions : Has(dReleased, v) => dReleased'[v] = dReleased[v]
<1>1. ASSUME TypeInv, StoreInv, [Next]_vars
      PROVE  Kept
  <2>1. CASE dReleased' = dReleased
    BY <2>1
  <2>2. CASE dReleased' # dReleased
    BY <1>1, <2>2, StoredRowIsNew DEF Has, TypeInv, TypeOK, RegistryTypeOK
  <2> QED BY <2>1, <2>2
<1>2. TypeInv /\ StoreInv /\ [Next]_vars => [Kept]_vars
  BY <1>1
<1> QED
  BY <1>2, TypeInvariant, StoreInvariant, PTL DEF Spec, ReleasedImmutable

-----------------------------------------------------------------------------
(* The promotion lock *)

\* The lock is held only while a promotion is being written.
LockInv ==
    promoting # None => pc \in {"promote.runtime", "promote.current", "promote.audit"}

\* Whatever write fails and whatever handler runs, the promotion lock is free
\* when the next request is served.
THEOREM LockIsReleased == Spec => []LockReleased
<1>1. Init => LockInv
  BY DEF Init, LockInv
<1>2. LockInv /\ [Next]_vars => LockInv'
  <2> SUFFICES ASSUME LockInv, [Next]_vars PROVE LockInv'
    OBVIOUS
  <2> USE DEF LockInv, Handle, Return, Goto, memory
  <2>1. CASE BootNext \/ AnswerError \/ UNCHANGED vars
    BY <2>1 DEF BootNext, Boot, BootstrapV0, BootSavesRuntime, BootSavesCurrent, AnswerError, vars
  <2>2. CASE ProposeNext \/ EvaluateNext
    BY <2>2 DEF ProposeNext, EvaluateNext, Propose, SaveProposal, Evaluate,
       SaveSandboxManifest, SuiteIsUnknown, RunSuites, SaveEvaluation
  <2>3. CASE ApproveNext
    BY <2>3 DEF ApproveNext, Approve, ApprovalRefused, ApprovalGranted, PromotionSavesRuntime,
       PromotionSavesCurrent, PromotionSavesAudit, SavePromotion
  <2>4. CASE RejectNext \/ RollbackNext
    BY <2>4 DEF RejectNext, RollbackNext, Reject, SaveRejection, Rollback,
       RollbackSavesCurrent, RollbackSavesAudit
  <2>5. CASE FailureNext
    BY <2>5 DEF FailureNext, Crash, HandlerFails, BootFails, MemoryIsLost
  <2> QED BY <2>1, <2>2, <2>3, <2>4, <2>5 DEF Next
<1>3. LockInv => LockReleased
  BY DEF LockInv, LockReleased
<1> QED BY <1>1, <1>2, <1>3, PTL DEF Spec

-----------------------------------------------------------------------------
(* Mutation scope *)

\* A diff that validate_diff accepts leaves the protected entries alone.
LEMMA DiffKeepsScope ==
    ASSUME NEW c, NEW d, ValidateDiff(d), NEW k \in Forbidden
    PROVE  ApplyDiff(c, d)[k] = c[k]
BY ForbiddenAssumption DEF ValidateDiff, ApplyDiff

\* Only these steps change the releases in memory.
LEMMA MemoryRowsChange ==
    ASSUME [Next]_vars, released' # released
    PROVE  Boot \/ BootstrapV0 \/ ApprovalGranted \/ Crash \/ BootFails
<1> USE DEF memory, memRegistry
<1>1. CASE BootNext
  BY <1>1 DEF BootNext, BootSavesRuntime, BootSavesCurrent
<1>2. CASE ProposeNext \/ EvaluateNext
  BY <1>2 DEF ProposeNext, EvaluateNext, Propose, SaveProposal, Evaluate, RegisterCandidate,
     SaveSandboxManifest, SuiteIsUnknown, RunSuites, SaveEvaluation
<1>3. CASE ApproveNext
  BY <1>3 DEF ApproveNext, Approve, ApprovalRefused, PromotionSavesRuntime,
     PromotionSavesCurrent, PromotionSavesAudit, SavePromotion
<1>4. CASE RejectNext \/ RollbackNext
  BY <1>4 DEF RejectNext, RollbackNext, Reject, SaveRejection, Rollback, RollbackTo,
     RollbackSavesCurrent, RollbackSavesAudit
<1>5. CASE FailureNext
  BY <1>5 DEF FailureNext, HandlerFails
<1>6. CASE AnswerError \/ UNCHANGED vars
  BY <1>6 DEF AnswerError, vars
<1> QED BY <1>1, <1>2, <1>3, <1>4, <1>5, <1>6 DEF Next

\* The release that a granted approval puts in memory: the diff applied to the
\* current release, under a number that was free.
LEMMA GrantedRelease ==
    ASSUME TypeInv, ApprovalGranted
    PROVE  \E v \in Versions :
              /\ released[v] = None
              /\ released' = [released EXCEPT ![v] =
                    [parent    |-> current,
                     config    |-> ApplyDiff(released[current].config,
                                             amend[req.amendment].diff),
                     amendment |-> req.amendment,
                     createdBy |-> req.reviewer]]
              /\ req' = [req EXCEPT !.version = v, !.from = current]
              /\ current' = v
              /\ current \in Versions
              /\ released[current] # None
<1>1. PICK v \in Versions :
          /\ CreateRuntime(v, ApplyDiff(released[current].config, amend[req.amendment].diff),
                           req.reviewer, req.amendment)
          /\ req' = [req EXCEPT !.version = v, !.from = current]
  BY DEF ApprovalGranted
<1>2. current \in Versions /\ released[current] # None
  BY DEF ApprovalGranted, TypeInv, Control, HandlerSteps, Has
<1> QED BY <1>1, <1>2 DEF CreateRuntime, HasVersion, Has

\* Every step keeps the protected entries of every release as they are in v0.
LEMMA ScopeInductive == TypeInv /\ StoreInv /\ ScopePreserved /\ [Next]_vars => ScopePreserved'
<1> SUFFICES ASSUME TypeInv, StoreInv, ScopePreserved, [Next]_vars
             PROVE  ScopePreserved'
  OBVIOUS
<1> DEFINE Kept(rows) == \A v \in Versions : rows[v] # None =>
                            \A k \in Forbidden : rows[v].config[k] = V0Config[k]
<1>1. Kept(released) /\ Kept(dReleased)
  BY DEF ScopePreserved, ReleasedOn
<1>2. Kept(dReleased')
  <2>1. CASE dReleased' = dReleased
    BY <1>1, <2>1
  <2>2. CASE dReleased' # dReleased
    BY <1>1, <2>2, StoredRowIsNew DEF TypeInv, TypeOK, RegistryTypeOK
  <2> QED BY <2>1, <2>2
<1>3. Kept(released')
  <2>1. CASE released' = released
    BY <1>1, <2>1
  <2>2. CASE Boot
    BY <1>1, <2>2 DEF Boot, RegistryLoads
  <2>3. CASE BootstrapV0
    BY <1>1, <2>3 DEF BootstrapV0, CreateRuntime, TypeInv, TypeOK, RegistryTypeOK
  <2>4. CASE ApprovalGranted
    <3> DEFINE d == amend[req.amendment].diff
               c == released[current].config
               m == [parent |-> current, config |-> ApplyDiff(c, d),
                     amendment |-> req.amendment, createdBy |-> req.reviewer]
    <3>1. PICK v \in Versions :
              /\ released' = [released EXCEPT ![v] = m]
              /\ current \in Versions
              /\ released[current] # None
      BY <2>4, GrantedRelease
    <3>2. ValidateDiff(d)
      BY <2>4 DEF ApprovalGranted, Approvable, CanBuild
    <3>3. \A k \in Forbidden : c[k] = V0Config[k]
      BY <1>1, <3>1
    <3>4. m.config = ApplyDiff(c, d)
      OBVIOUS
    <3> HIDE DEF c, d, m
    <3>5. \A k \in Forbidden : m.config[k] = V0Config[k]
      BY <3>2, <3>3, <3>4, DiffKeepsScope
    <3> QED BY <1>1, <3>1, <3>5 DEF TypeInv, TypeOK, RegistryTypeOK
  <2>5. CASE Crash \/ BootFails
    BY <2>5 DEF Crash, BootFails, MemoryIsLost, RegistryForgets, NoRuntimes
  <2> QED BY <2>1, <2>2, <2>3, <2>4, <2>5, MemoryRowsChange
<1> QED BY <1>2, <1>3 DEF ScopePreserved, ReleasedOn

\* For any configuration entries, diffs and protected entries: no release, in
\* memory or in the store, ever differs from v0 in a protected entry.
THEOREM ScopeIsPreserved == Spec => []ScopePreserved
<1>1. Init => ScopePreserved
  BY DEF Init, RegistryInit, NoRuntimes, ScopePreserved, ReleasedOn
<1> QED BY <1>1, ScopeInductive, TypeInvariant, StoreInvariant, PTL DEF Spec

-----------------------------------------------------------------------------
(* What a promotion has established by each of its writes *)

MadeBy(m, q) ==
    /\ m # None
    /\ m.amendment = q.amendment
    /\ m.parent = q.from
    /\ m.createdBy = q.reviewer

Backs(record, q) ==
    /\ record # None
    /\ record.status = "approved"
    /\ record.eval # None
    /\ record.eval.pass
    /\ record.reviewer = q.reviewer
    /\ record.reviewer # record.proposer

EntryOf(q) == PromoteEntry(q.amendment, q.reviewer, q.from, q.version)

Promoted(record, q) ==
    /\ record.status = "promoted"
    /\ record.resulting = q.version
    /\ record.reviewer = q.reviewer

PromotionInv ==
    /\ pc = "approve.save" => /\ amend[req.amendment].status = "approved"
                              /\ amend[req.amendment].reviewer = req.reviewer
    /\ pc = "promote.runtime" => /\ MadeBy(released[req.version], req)
                                 /\ Backs(dAmend[req.amendment], req)
    /\ pc \in {"promote.current", "promote.audit"} => MadeBy(dReleased[req.version], req)
    /\ pc = "promote.audit" => trail[Len(trail)] = EntryOf(req)
    /\ pc \in {"promote.audit", "promote.save"} => Promoted(amend[req.amendment], req)
    /\ pc = "promote.save" => \E i \in 1..Len(dTrail) : dTrail[i] = EntryOf(req)
    /\ pc = "rollback.audit" => trail[Len(trail)].action = "rollback"
    /\ pc \in {"propose.save", "evaluate.save", "reject.save"} =>
            amend[req.amendment].status # "promoted"

\* Every step keeps what a promotion has established by each of its writes.
LEMMA PromotionInvInductive == TypeInv /\ StoreInv /\ PromotionInv /\ [Next]_vars => PromotionInv'
<1> SUFFICES ASSUME TypeInv, StoreInv, PromotionInv, [Next]_vars
             PROVE  PromotionInv'
  OBVIOUS
<1> USE DEF PromotionInv, Handle, Return, Goto
<1>1. CASE BootNext
  BY <1>1 DEF BootNext, Boot, BootstrapV0, BootSavesRuntime, BootSavesCurrent
<1>2. ASSUME NEW a \in Amendments, NEW d \in Diffs, NEW p \in Proposers, Propose(a, d, p)
      PROVE  PromotionInv'
  BY <1>2, RequestType DEF Propose, TypeInv, TypeOK
<1>3. ASSUME NEW pass \in BOOLEAN, RunSuites(pass)
      PROVE  PromotionInv'
  <2>1. req.amendment \in Amendments /\ amend[req.amendment] \in Amendment
    BY <1>3 DEF RunSuites, TypeInv, TypeOK, Control, AmendmentSteps, HandlerSteps, Request
  <2>2. amend'[req.amendment].status = "review"
    BY <1>3, <2>1 DEF RunSuites, TypeInv, TypeOK, Amendment
  <2> QED BY <1>3, <2>2 DEF RunSuites
<1>4. CASE \/ \E a \in Amendments : Evaluate(a)
           \/ SaveSandboxManifest
           \/ SuiteIsUnknown
           \/ SaveProposal
           \/ SaveEvaluation
           \/ SaveRejection
           \/ ApprovalRefused
           \/ SavePromotion
           \/ RollbackSavesAudit
           \/ \E v \in Versions : Rollback(v)
  BY <1>4 DEF Evaluate, SaveSandboxManifest, SuiteIsUnknown, SaveProposal, SaveEvaluation,
     SaveRejection, ApprovalRefused, SavePromotion, RollbackSavesAudit, Rollback
<1>5. ASSUME NEW a \in Amendments, NEW r \in Reviewers, NEW cites \in BOOLEAN,
             Approve(a, r, cites)
      PROVE  PromotionInv'
  <2>1. req'.amendment = a /\ req'.reviewer = r /\ pc' = "approve.save"
    BY <1>5, RequestType DEF Approve, Request
  <2>2. amend[a] \in Amendment
    BY <1>5 DEF Approve, TypeInv, TypeOK
  <2>3. amend'[a].status = "approved" /\ amend'[a].reviewer = r
    BY <1>5, <2>2 DEF Approve, TypeInv, TypeOK, Amendment
  <2> QED BY <2>1, <2>3
<1>6. CASE ApprovalGranted
  <2> DEFINE a == req.amendment
  <2>1. a \in Amendments /\ amend[a] \in Amendment /\ amend[a] # None /\ req \in Request
    BY <1>6 DEF ApprovalGranted, TypeInv, TypeOK, Control, AmendmentSteps, HandlerSteps, Request
  <2>2. dAmend' = [dAmend EXCEPT ![a] = amend[a]] /\ pc' = "promote.runtime"
    BY <1>6 DEF ApprovalGranted, SaveAmendment
  <2>3. Approvable(a, req.reviewer, req.cites) /\ pc = "approve.save"
    BY <1>6 DEF ApprovalGranted
  <2> DEFINE m == [parent |-> current,
                   config |-> ApplyDiff(released[current].config, amend[a].diff),
                   amendment |-> a, createdBy |-> req.reviewer]
  <2>4. PICK v \in Versions :
            /\ released' = [released EXCEPT ![v] = m]
            /\ req' = [req EXCEPT !.version = v, !.from = current]
            /\ current' = v
    BY <1>6, GrantedRelease
  <2>5. /\ req'.amendment = a /\ req'.reviewer = req.reviewer
        /\ req'.version = v /\ req'.from = current
    BY <2>1, <2>4 DEF Request
  <2>6. released'[v] = m
    BY <2>4 DEF TypeInv, TypeOK, RegistryTypeOK
  <2>7. m # None
    <3>1. TypeInv'
      BY TypeInvInductive
    <3> QED BY <2>2, <2>4, <2>6, <3>1 DEF TypeInv, Control, HandlerSteps, Has
  <2>8. MadeBy(released'[req'.version], req')
    BY <2>5, <2>6, <2>7 DEF MadeBy
  <2>9. dAmend'[a] = amend[a]
    BY <2>1, <2>2 DEF TypeInv, TypeOK
  <2>10. Backs(dAmend'[req'.amendment], req')
    BY <2>1, <2>3, <2>5, <2>9 DEF Backs, Approvable
  <2> QED BY <2>2, <2>8, <2>10
<1>7. CASE PromotionSavesRuntime
  <2>1. req.version \in Versions
    BY <1>7 DEF PromotionSavesRuntime, TypeInv, TypeOK, Control, VersionSteps, Request
  <2>2. dReleased'[req.version] = released[req.version]
    BY <1>7, <2>1 DEF PromotionSavesRuntime, SaveRuntime, TypeInv, TypeOK, RegistryTypeOK
  <2> QED BY <1>7, <2>2 DEF PromotionSavesRuntime
<1>8. CASE PromotionSavesCurrent
  <2> DEFINE a == req.amendment
  <2>1. a \in Amendments /\ amend[a] \in Amendment
    BY <1>8 DEF PromotionSavesCurrent, TypeInv, TypeOK, Control, AmendmentSteps, HandlerSteps,
       Request
  <2>2. Promoted(amend'[a], req)
    BY <1>8, <2>1 DEF PromotionSavesCurrent, TypeInv, TypeOK, Amendment, Promoted
  <2>3. trail \in Seq(Entry) /\ trail' = Append(trail, EntryOf(req))
    BY <1>8 DEF PromotionSavesCurrent, EntryOf, TypeInv, TypeOK
  <2>4. trail'[Len(trail')] = EntryOf(req)
    BY <2>3, LastOfAppend
  <2> QED BY <1>8, <2>2, <2>4 DEF PromotionSavesCurrent, SaveCurrentVersion
<1>9. CASE PromotionSavesAudit
  <2>1. /\ trail \in Seq(Entry) /\ trail # <<>> /\ dTrail \in Seq(Entry)
        /\ dTrail' = Append(dTrail, trail[Len(trail)])
    BY <1>9 DEF PromotionSavesAudit, SaveAudit, TypeInv, TypeOK, Control
  <2>2. \E i \in 1..Len(dTrail') : dTrail'[i] = EntryOf(req)
    BY <1>9, <2>1, LastOfAppend DEF PromotionSavesAudit
  <2> QED BY <1>9, <2>2 DEF PromotionSavesAudit
<1>10. ASSUME NEW a \in Amendments, Reject(a)
       PROVE  PromotionInv'
  <2>1. amend[a] \in Amendment
    BY <1>10 DEF Reject, TypeInv, TypeOK
  <2>2. amend'[a].status = "rejected"
    BY <1>10, <2>1 DEF Reject, TypeInv, TypeOK, Amendment
  <2> QED BY <1>10, <2>2, RequestType DEF Reject
<1>11. CASE RollbackSavesCurrent
  <2>1. /\ trail \in Seq(Entry)
        /\ trail' = Append(trail, RollbackEntry(req.from, req.version))
    BY <1>11 DEF RollbackSavesCurrent, TypeInv, TypeOK
  <2>2. trail'[Len(trail')].action = "rollback"
    BY <2>1, LastOfAppend DEF RollbackEntry
  <2> QED BY <1>11, <2>2 DEF RollbackSavesCurrent
<1>12. CASE FailureNext
  BY <1>12 DEF FailureNext, Crash, HandlerFails, BootFails, MemoryIsLost
<1>13. CASE AnswerError \/ UNCHANGED vars
  BY <1>13 DEF AnswerError, vars, memory, memRegistry, store, diskRegistry
<1> QED
  BY <1>1, <1>2, <1>3, <1>4, <1>5, <1>6, <1>7, <1>8, <1>9, <1>10, <1>11, <1>12, <1>13
  DEF Next, ProposeNext, EvaluateNext, ApproveNext, RejectNext, RollbackNext

\* So a promotion has established it whenever it makes that write.
LEMMA PromotionInvariant == Spec => []PromotionInv
<1>1. Init => PromotionInv
  BY DEF Init, PromotionInv
<1> QED BY <1>1, PromotionInvInductive, TypeInvariant, StoreInvariant, PTL DEF Spec

\* A release is stored only behind a stored approved amendment whose stored
\* evaluation passed and whose reviewer is not its proposer, whichever writes
\* have failed before and whatever memory held in between.
THEOREM ReleasesAreBacked == Spec => ReleaseIsBacked
<1> DEFINE Backed ==
        \A v \in Versions :
            ~ Has(dReleased, v) /\ Has(dReleased', v) /\ v # 0 =>
                LET row == dReleased'[v]
                    record == dAmend[row.amendment] IN
                /\ record # None
                /\ record.status = "approved"
                /\ record.eval # None
                /\ record.eval.pass
                /\ record.reviewer = row.createdBy
                /\ record.reviewer # record.proposer
<1>1. ASSUME TypeInv, StoreInv, PromotionInv, [Next]_vars,
             NEW v \in Versions, ~ Has(dReleased, v), Has(dReleased', v), v # 0
      PROVE  Backs(dAmend[dReleased'[v].amendment], req)
             /\ dReleased'[v].createdBy = req.reviewer
  <2>1. dReleased' # dReleased
    BY <1>1 DEF Has
  <2>2. PICK w \in Versions :
            /\ dReleased' = [dReleased EXCEPT ![w] = released[w]]
            /\ \/ w = 0
               \/ w = req.version /\ PromotionSavesRuntime
    BY <1>1, <2>1, StoredRowIsNew
  <2>3. v = w
    BY <1>1, <2>2 DEF Has, TypeInv, TypeOK, RegistryTypeOK
  <2>4. dReleased'[v] = released[req.version] /\ pc = "promote.runtime"
    BY <1>1, <2>2, <2>3 DEF PromotionSavesRuntime, TypeInv, TypeOK, RegistryTypeOK
  <2> QED BY <1>1, <2>4 DEF PromotionInv, MadeBy
<1>2. TypeInv /\ StoreInv /\ PromotionInv /\ [Next]_vars => [Backed]_vars
  BY <1>1 DEF Backs
<1> QED
  BY <1>2, TypeInvariant, StoreInvariant, PromotionInvariant, PTL DEF Spec, ReleaseIsBacked

-----------------------------------------------------------------------------
(* The audit log tells the truth *)

Truthful(e) ==
    e.action = "promote" =>
        /\ Has(dReleased, e.to)
        /\ dReleased[e.to].amendment = e.amendment
        /\ dReleased[e.to].parent = e.from
        /\ dReleased[e.to].createdBy = e.by

\* Only two steps write an audit entry.
LEMMA StoredTrailChanges ==
    ASSUME [Next]_vars, dTrail' # dTrail
    PROVE  PromotionSavesAudit \/ RollbackSavesAudit
<1> USE DEF store
<1>1. CASE BootNext
  BY <1>1 DEF BootNext, Boot, BootstrapV0, BootSavesRuntime, BootSavesCurrent
<1>2. CASE ProposeNext \/ EvaluateNext
  BY <1>2 DEF ProposeNext, EvaluateNext, Propose, SaveProposal, Evaluate,
     SaveSandboxManifest, SuiteIsUnknown, RunSuites, SaveEvaluation, SaveAmendment
<1>3. CASE ApproveNext
  BY <1>3 DEF ApproveNext, Approve, ApprovalRefused, ApprovalGranted, PromotionSavesRuntime,
     PromotionSavesCurrent, SavePromotion, SaveAmendment
<1>4. CASE RejectNext \/ RollbackNext
  BY <1>4 DEF RejectNext, RollbackNext, Reject, SaveRejection, Rollback,
     RollbackSavesCurrent, SaveAmendment
<1>5. CASE FailureNext
  BY <1>5 DEF FailureNext, Crash, HandlerFails, BootFails
<1>6. CASE AnswerError \/ UNCHANGED vars
  BY <1>6 DEF AnswerError, vars
<1> QED BY <1>1, <1>2, <1>3, <1>4, <1>5, <1>6 DEF Next

\* The log grows by the last entry in memory, which tells the truth.
LEMMA StoredTrailGrows ==
    ASSUME TypeInv, PromotionInv, [Next]_vars, dTrail' # dTrail
    PROVE  /\ dTrail' = Append(dTrail, trail[Len(trail)])
           /\ dReleased' = dReleased
           /\ Truthful(trail[Len(trail)])
<1>1. CASE PromotionSavesAudit
  <2>1. req.version \in Versions
    BY <1>1 DEF PromotionSavesAudit, TypeInv, TypeOK, Control, VersionSteps, Request
  <2> QED BY <1>1, <2>1 DEF PromotionSavesAudit, SaveAudit, diskRegistry, PromotionInv,
          MadeBy, EntryOf, PromoteEntry, Truthful, Has
<1>2. CASE RollbackSavesAudit
  BY <1>2 DEF RollbackSavesAudit, SaveAudit, diskRegistry, PromotionInv, Truthful
<1> QED BY <1>1, <1>2, StoredTrailChanges

\* Every stored promotion entry names a stored release and gives its amendment,
\* its parent and its reviewer, however long the history behind it.
THEOREM AuditIsSound == Spec => []AuditSound
<1>1. Init => AuditSound
  BY EmptySeq DEF Init, AuditSound
<1>2. TypeInv /\ StoreInv /\ PromotionInv /\ AuditSound /\ [Next]_vars => AuditSound'
  <2> SUFFICES ASSUME TypeInv, StoreInv, PromotionInv, AuditSound, [Next]_vars
               PROVE  AuditSound'
    OBVIOUS
  <2>1. \A i \in 1..Len(dTrail) : Truthful(dTrail[i])
    BY DEF AuditSound, Truthful
  <2>2. CASE dTrail' = dTrail
    <3>1. \A v \in Versions : Has(dReleased, v) => Has(dReleased', v) /\ dReleased'[v] = dReleased[v]
      BY StoredRowIsNew DEF Has, TypeInv, TypeOK, RegistryTypeOK
    <3> QED BY <2>1, <2>2, <3>1 DEF Truthful, AuditSound, Has
  <2>3. CASE dTrail' # dTrail
    <3>1. /\ dTrail' = Append(dTrail, trail[Len(trail)])
          /\ dReleased' = dReleased
          /\ Truthful(trail[Len(trail)])
      BY <2>3, StoredTrailGrows
    <3>2. dTrail \in Seq(Entry)
      BY DEF TypeInv, TypeOK
    <3>3. \A i \in 1..Len(dTrail') :
              dTrail'[i] = trail[Len(trail)] \/ (i \in 1..Len(dTrail) /\ dTrail'[i] = dTrail[i])
      BY <3>1, <3>2, LastOfAppend, LenProperties
    <3> QED BY <2>1, <3>1, <3>3 DEF Truthful, AuditSound, Has
  <2> QED BY <2>2, <2>3
<1> QED
  BY <1>1, <1>2, TypeInvariant, StoreInvariant, PromotionInvariant, PTL DEF Spec

\* The steps that write an amendment write the one the handler is about.
LEMMA StoredAmendmentsChange ==
    ASSUME [Next]_vars, dAmend' # dAmend
    PROVE  /\ dAmend' = [dAmend EXCEPT ![req.amendment] = amend[req.amendment]]
           /\ dTrail' = dTrail
           /\ pc \in {"propose.save", "evaluate.save", "approve.save", "promote.save",
                      "reject.save"}
<1> USE DEF store
<1>1. CASE BootNext
  BY <1>1 DEF BootNext, Boot, BootstrapV0, BootSavesRuntime, BootSavesCurrent
<1>2. CASE ProposeNext \/ EvaluateNext
  BY <1>2 DEF ProposeNext, EvaluateNext, Propose, SaveProposal, Evaluate,
     SaveSandboxManifest, SuiteIsUnknown, RunSuites, SaveEvaluation, SaveAmendment
<1>3. CASE ApproveNext
  BY <1>3 DEF ApproveNext, Approve, ApprovalRefused, ApprovalGranted, PromotionSavesRuntime,
     PromotionSavesCurrent, PromotionSavesAudit, SavePromotion, SaveAmendment, SaveAudit
<1>4. CASE RejectNext \/ RollbackNext
  BY <1>4 DEF RejectNext, RollbackNext, Reject, SaveRejection, Rollback,
     RollbackSavesCurrent, RollbackSavesAudit, SaveAmendment, SaveAudit
<1>5. CASE FailureNext
  BY <1>5 DEF FailureNext, Crash, HandlerFails, BootFails
<1>6. CASE AnswerError \/ UNCHANGED vars
  BY <1>6 DEF AnswerError, vars
<1> QED BY <1>1, <1>2, <1>3, <1>4, <1>5, <1>6 DEF Next

Recorded(a, record) ==
    \E i \in 1..Len(dTrail) :
        /\ dTrail[i].action = "promote"
        /\ dTrail[i].to = record.resulting
        /\ dTrail[i].amendment = a
        /\ dTrail[i].by = record.reviewer

\* An entry of the stored log stays in it.
LEMMA RecordsAreKept ==
    ASSUME TypeInv, PromotionInv, [Next]_vars, NEW a, NEW record, Recorded(a, record)
    PROVE  Recorded(a, record)'
<1>1. CASE dTrail' = dTrail
  BY <1>1 DEF Recorded
<1>2. CASE dTrail' # dTrail
  <2>1. dTrail' = Append(dTrail, trail[Len(trail)]) /\ dTrail \in Seq(Entry)
    BY <1>2, StoredTrailGrows DEF TypeInv, TypeOK
  <2>2. \A i \in 1..Len(dTrail) : i \in 1..Len(dTrail') /\ dTrail'[i] = dTrail[i]
    BY <2>1, LastOfAppend
  <2> QED BY <2>2 DEF Recorded
<1> QED BY <1>1, <1>2

\* An amendment whose row says "promoted" has its promotion in the stored audit
\* log, for any number of crashes and failed writes.
THEOREM PromotionsAreAudited == Spec => []PromotedIsAudited
<1>1. Init => PromotedIsAudited
  BY DEF Init, PromotedIsAudited
<1>2. TypeInv /\ PromotionInv /\ PromotedIsAudited /\ [Next]_vars => PromotedIsAudited'
  <2> SUFFICES ASSUME TypeInv, PromotionInv, PromotedIsAudited, [Next]_vars,
                      NEW a \in Amendments, dAmend'[a] # None, dAmend'[a].status = "promoted"
               PROVE  Recorded(a, dAmend[a])'
    BY DEF PromotedIsAudited, PromotionOf, Recorded
  <2>1. CASE dAmend'[a] = dAmend[a]
    <3>1. Recorded(a, dAmend[a])
      BY <2>1 DEF PromotedIsAudited, PromotionOf, Recorded
    <3>2. PICK r : r = dAmend[a]
      OBVIOUS
    <3>3. Recorded(a, r)
      BY <3>1, <3>2 DEF Recorded
    <3>4. Recorded(a, r)'
      BY <3>3, RecordsAreKept
    <3> QED BY <2>1, <3>2, <3>4 DEF Recorded
  <2>2. CASE dAmend'[a] # dAmend[a]
    <3>1. /\ dAmend' = [dAmend EXCEPT ![req.amendment] = amend[req.amendment]]
          /\ dTrail' = dTrail
          /\ pc \in {"propose.save", "evaluate.save", "approve.save", "promote.save",
                     "reject.save"}
      BY <2>2, StoredAmendmentsChange
    <3>2. a = req.amendment /\ dAmend'[a] = amend[a]
      BY <2>2, <3>1 DEF TypeInv, TypeOK
    <3>3. pc = "promote.save"
      BY <3>1, <3>2 DEF PromotionInv
    <3>4. /\ Promoted(amend[a], req)
          /\ \E i \in 1..Len(dTrail) : dTrail[i] = EntryOf(req)
      BY <3>2, <3>3 DEF PromotionInv
    <3> QED BY <3>1, <3>2, <3>4 DEF Promoted, EntryOf, PromoteEntry, Recorded
  <2> QED BY <2>1, <2>2
<1> QED BY <1>1, <1>2, TypeInvariant, PromotionInvariant, PTL DEF Spec

-----------------------------------------------------------------------------
(* What is released is what was evaluated *)

\* A release that is about to be stored, made on the version of the evaluation that
\* its amendment's row has, is what was evaluated.
EvaluatedInv ==
    pc = "promote.runtime" =>
        LET evaluated == dAmend[req.amendment].eval.candidate IN
        released[req.version].parent = evaluated.parent =>
            released[req.version].config = evaluated.config

LEMMA EvaluatedInductive ==
    TypeInv /\ EvaluatedInv /\ [Next]_vars => EvaluatedInv'
<1> SUFFICES ASSUME TypeInv, EvaluatedInv, [Next]_vars, pc' = "promote.runtime"
             PROVE  EvaluatedInv'
  BY DEF EvaluatedInv
<1>1. CASE ApprovalGranted
  <2> DEFINE a == req.amendment
             m == [parent    |-> current,
                   config    |-> ApplyDiff(released[current].config, amend[a].diff),
                   amendment |-> a,
                   createdBy |-> req.reviewer]
  <2>1. PICK v \in Versions :
            /\ released' = [released EXCEPT ![v] = m]
            /\ req' = [req EXCEPT !.version = v, !.from = current]
    BY <1>1, GrantedRelease
  <2>2. a \in Amendments /\ BuildCandidate(a) = amend[a].eval.candidate
    BY <1>1 DEF ApprovalGranted, Approvable, TypeInv, TypeOK, Control, AmendmentSteps,
       HandlerSteps, Request
  <2>3. dAmend'[a] = amend[a]
    BY <1>1, <2>2 DEF ApprovalGranted, SaveAmendment, TypeInv, TypeOK
  <2>4. req'.version = v /\ req'.amendment = a /\ released'[v] = m
    BY <2>1 DEF TypeInv, TypeOK, RegistryTypeOK, Request
  <2>5. BuildCandidate(a).parent = current => BuildCandidate(a).config = m.config
    BY DEF BuildCandidate
  <2>6. m.parent = current
    OBVIOUS
  <2> HIDE DEF m, a
  <2> QED BY <2>2, <2>3, <2>4, <2>5, <2>6 DEF EvaluatedInv
<1>2. CASE UNCHANGED vars
  BY <1>2 DEF vars, memory, memRegistry, store, EvaluatedInv
<1>3. CASE ~ ApprovalGranted /\ ~ UNCHANGED vars
  <2>1. pc' # "promote.runtime"
    BY <1>3 DEF Next, BootNext, Boot, BootstrapV0, BootSavesRuntime, BootSavesCurrent,
       AnswerError, ProposeNext, Propose, SaveProposal, EvaluateNext, Evaluate,
       SaveSandboxManifest, SuiteIsUnknown, RunSuites, SaveEvaluation, ApproveNext, Approve,
       ApprovalRefused, PromotionSavesRuntime, PromotionSavesCurrent, PromotionSavesAudit,
       SavePromotion, RejectNext, Reject, SaveRejection, RollbackNext, Rollback,
       RollbackSavesCurrent, RollbackSavesAudit, FailureNext, Crash, HandlerFails, BootFails,
       MemoryIsLost, Handle, Return, Goto
  <2> QED BY <2>1
<1> QED BY <1>1, <1>2, <1>3

\* A release that is stored on the version its amendment was evaluated against has the
\* content that was evaluated, even if that version was lost and its number given to
\* another release: approve_amendment rebuilds the candidate and compares it.
THEOREM ReleasesAreAsEvaluated == Spec => ReleaseIsTheEvaluated
<1> DEFINE AsEvaluated ==
        \A v \in Versions :
            ~ Has(dReleased, v) /\ Has(dReleased', v) /\ v # 0 =>
                LET row == dReleased'[v]
                    evaluated == dAmend[row.amendment].eval.candidate IN
                row.parent = evaluated.parent => row.config = evaluated.config
<1>1. Init => EvaluatedInv
  BY DEF Init, EvaluatedInv
<1>2. ASSUME TypeInv, StoreInv, PromotionInv, EvaluatedInv, [Next]_vars,
             NEW v \in Versions, ~ Has(dReleased, v), Has(dReleased', v), v # 0,
             dReleased'[v].parent = dAmend[dReleased'[v].amendment].eval.candidate.parent
      PROVE  dReleased'[v].config = dAmend[dReleased'[v].amendment].eval.candidate.config
  <2>1. dReleased' # dReleased
    BY <1>2 DEF Has
  <2>2. PICK w \in Versions :
            /\ dReleased' = [dReleased EXCEPT ![w] = released[w]]
            /\ \/ w = 0
               \/ w = req.version /\ PromotionSavesRuntime
    BY <1>2, <2>1, StoredRowIsNew
  <2>3. v = w
    BY <1>2, <2>2 DEF Has, TypeInv, TypeOK, RegistryTypeOK
  <2>4. dReleased'[v] = released[req.version] /\ pc = "promote.runtime"
    BY <1>2, <2>2, <2>3 DEF PromotionSavesRuntime, TypeInv, TypeOK, RegistryTypeOK
  <2>5. released[req.version].amendment = req.amendment
    BY <1>2, <2>4 DEF PromotionInv, MadeBy
  <2> QED BY <1>2, <2>4, <2>5 DEF EvaluatedInv
<1>3. TypeInv /\ StoreInv /\ PromotionInv /\ EvaluatedInv /\ [Next]_vars => [AsEvaluated]_vars
  BY <1>2
<1> QED
  BY <1>1, <1>3, EvaluatedInductive, TypeInvariant, StoreInvariant, PromotionInvariant, PTL
     DEF Spec, ReleaseIsTheEvaluated

-----------------------------------------------------------------------------
(* No failure hides more than the promotion it fell into *)

\* Stored releases without an entry in the stored log.
Gaps == {v \in ReleasedOn(dReleased) \ {0} : PromotionOf(dTrail, v) = {}}

\* But for the one whose promotion is still being written.
OpenGaps ==
    IF pc \in {"promote.current", "promote.audit"} THEN Gaps \ {req.version} ELSE Gaps

GapsInv == Cardinality(OpenGaps) <= crashes + faults

LEMMA GapsAreFinite == IsFiniteSet(Gaps) /\ IsFiniteSet(OpenGaps)
<1>1. IsFiniteSet(Versions)
  BY FS_Interval, MaxVersionAssumption DEF Versions
<1> QED BY <1>1, FS_Subset DEF Gaps, OpenGaps, ReleasedOn

\* A log that grows leaves no new gap.
LEMMA EntriesAreKept ==
    ASSUME TypeInv, PromotionInv, [Next]_vars, NEW v, PromotionOf(dTrail, v) # {}
    PROVE  PromotionOf(dTrail', v) # {}
<1>1. CASE dTrail' = dTrail
  BY <1>1 DEF PromotionOf
<1>2. CASE dTrail' # dTrail
  <2>1. dTrail' = Append(dTrail, trail[Len(trail)]) /\ dTrail \in Seq(Entry)
    BY <1>2, StoredTrailGrows DEF TypeInv, TypeOK
  <2>2. \A i \in 1..Len(dTrail) : i \in 1..Len(dTrail') /\ dTrail'[i] = dTrail[i]
    BY <2>1, LastOfAppend
  <2> QED BY <2>2 DEF PromotionOf
<1> QED BY <1>1, <1>2

\* The set of gaps grows only by the release that a promotion stores.
LEMMA GapsGrow ==
    ASSUME TypeInv, StoreInv, PromotionInv, [Next]_vars
    PROVE  /\ Gaps' \subseteq Gaps \cup (IF PromotionSavesRuntime THEN {req.version} ELSE {})
           /\ PromotionSavesAudit => req.version \notin Gaps'
<1>1. ASSUME NEW v \in Gaps'
      PROVE  v \in Gaps \/ (PromotionSavesRuntime /\ v = req.version)
  <2>1. v \in Versions \ {0} /\ dReleased'[v] # None /\ PromotionOf(dTrail, v) = {}
    BY <1>1, EntriesAreKept DEF Gaps, ReleasedOn
  <2>2. CASE dReleased[v] # None
    <3>1. v \in ReleasedOn(dReleased)
      BY <2>1, <2>2 DEF ReleasedOn
    <3>2. v \in Gaps
      BY <2>1, <3>1 DEF Gaps
    <3> QED BY <3>2
  <2>3. CASE dReleased[v] = None
    <3>0. dReleased' # dReleased
      BY <2>1, <2>3
    <3>1. PICK w \in Versions :
            /\ dReleased[w] = None
            /\ dReleased' = [dReleased EXCEPT ![w] = released[w]]
            /\ \/ w = 0
               \/ w = req.version /\ PromotionSavesRuntime
      BY <3>0, StoredRowIsNew
    <3>2. v = w
      BY <2>1, <2>3, <3>1 DEF TypeInv, TypeOK, RegistryTypeOK
    <3> QED BY <2>1, <3>1, <3>2
  <2> QED BY <2>2, <2>3
<1>2. ASSUME PromotionSavesAudit PROVE PromotionOf(dTrail', req.version) # {}
  <2>1. pc = "promote.audit" /\ dTrail' = Append(dTrail, trail[Len(trail)])
    BY <1>2 DEF PromotionSavesAudit, SaveAudit
  <2>2. trail[Len(trail)].action = "promote" /\ trail[Len(trail)].to = req.version
    BY <2>1 DEF PromotionInv, EntryOf, PromoteEntry
  <2>3. Len(dTrail') \in 1..Len(dTrail') /\ dTrail'[Len(dTrail')] = trail[Len(trail)]
    BY <2>1, LastOfAppend DEF TypeInv, TypeOK
  <2> QED BY <2>2, <2>3 DEF PromotionOf
<1> QED BY <1>1, <1>2 DEF Gaps

\* Every step but a failure leaves the open gaps, and a failure opens one.
LEMMA OpenGapsGrow ==
    ASSUME TypeInv, StoreInv, PromotionInv, [Next]_vars
    PROVE  \/ OpenGaps' \subseteq OpenGaps /\ crashes' + faults' >= crashes + faults
           \/ /\ \E v : OpenGaps' \subseteq OpenGaps \cup {v}
              /\ crashes' + faults' = crashes + faults + 1
<1> DEFINE Open == {"promote.current", "promote.audit"}
<1>0. crashes \in Nat /\ faults \in Nat
  BY BoundsAssumption DEF TypeInv, TypeOK
<1>1. CASE Crash \/ HandlerFails \/ BootFails
  <2>1. crashes' + faults' = crashes + faults + 1
    BY <1>0, <1>1 DEF Crash, HandlerFails, BootFails
  <2>2. ~ PromotionSavesRuntime
    <3>1. dReleased' = dReleased /\ pc' # "promote.current"
      BY <1>1 DEF Crash, HandlerFails, BootFails, MemoryIsLost, Return, store, diskRegistry
    <3> QED BY <3>1 DEF PromotionSavesRuntime, Goto
  <2>3. OpenGaps' \subseteq OpenGaps \cup {req.version}
    BY <2>2, GapsGrow DEF OpenGaps
  <2> QED BY <2>1, <2>3
<1>2. CASE PromotionSavesRuntime
  <2>1. /\ pc = "promote.runtime" /\ pc' = "promote.current" /\ req' = req
        /\ UNCHANGED <<crashes, faults>>
    BY <1>2 DEF PromotionSavesRuntime, Goto, failures
  <2>2. OpenGaps' \subseteq OpenGaps
    BY <2>1, GapsGrow DEF OpenGaps
  <2> QED BY <1>0, <2>1, <2>2
<1>3. CASE PromotionSavesCurrent
  <2>1. /\ pc = "promote.current" /\ pc' = "promote.audit" /\ req' = req
        /\ UNCHANGED <<crashes, faults>> /\ ~ PromotionSavesRuntime
    BY <1>3 DEF PromotionSavesCurrent, PromotionSavesRuntime, Goto, failures
  <2>2. OpenGaps' \subseteq OpenGaps
    BY <2>1, GapsGrow DEF OpenGaps
  <2> QED BY <1>0, <2>1, <2>2
<1>4. CASE PromotionSavesAudit
  <2>1. /\ pc = "promote.audit" /\ UNCHANGED <<crashes, faults>>
        /\ ~ PromotionSavesRuntime
    BY <1>4 DEF PromotionSavesAudit, PromotionSavesRuntime, failures
  <2>2. OpenGaps' \subseteq OpenGaps
    BY <1>4, <2>1, GapsGrow DEF OpenGaps
  <2> QED BY <1>0, <2>1, <2>2
<1>5. CASE UNCHANGED vars
  <2>1. OpenGaps' = OpenGaps /\ UNCHANGED <<crashes, faults>>
    BY <1>5 DEF vars, store, diskRegistry, failures, OpenGaps, Gaps, ReleasedOn, PromotionOf
  <2> QED BY <1>0, <2>1
<1>6. CASE /\ ~ (Crash \/ HandlerFails \/ BootFails) /\ ~ PromotionSavesRuntime
           /\ ~ PromotionSavesCurrent /\ ~ PromotionSavesAudit /\ ~ UNCHANGED vars
  <2>1. pc \notin Open /\ UNCHANGED <<crashes, faults>>
    BY <1>6 DEF Next, BootNext, Boot, BootstrapV0, BootSavesRuntime, BootSavesCurrent,
       AnswerError, ProposeNext, Propose, SaveProposal, EvaluateNext, Evaluate,
       SaveSandboxManifest, SuiteIsUnknown, RunSuites, SaveEvaluation, ApproveNext, Approve,
       ApprovalRefused, ApprovalGranted, SavePromotion, RejectNext, Reject, SaveRejection,
       RollbackNext, Rollback, RollbackSavesCurrent, RollbackSavesAudit, FailureNext, Handle,
       failures
  <2>2. OpenGaps' \subseteq OpenGaps
    BY <1>6, <2>1, GapsGrow DEF OpenGaps
  <2> QED BY <1>0, <2>1, <2>2
<1> QED BY <1>1, <1>2, <1>3, <1>4, <1>5, <1>6

\* The arithmetic by which the invariant is carried over a step.
LEMMA SumsCompare ==
    ASSUME NEW c \in Nat, NEW f \in Nat, NEW d \in Nat, NEW g \in Nat,
           d + g >= c + f
    PROVE  c + f \in Nat /\ d + g \in Nat /\ c + f <= d + g
OBVIOUS

LEMMA BoundIsKept ==
    ASSUME NEW m \in Nat, NEW n \in Nat, NEW c \in Nat, NEW d \in Nat,
           m <= n, n <= c, c <= d
    PROVE  m <= d
OBVIOUS

LEMMA BoundGrows ==
    ASSUME NEW m \in Nat, NEW k \in Nat, NEW n \in Nat, NEW c \in Nat,
           m <= k, k <= n + 1, n <= c
    PROVE  m <= c + 1
OBVIOUS

LEMMA GapsInductive ==
    TypeInv /\ StoreInv /\ PromotionInv /\ GapsInv /\ [Next]_vars => GapsInv'
<1> SUFFICES ASSUME TypeInv, StoreInv, PromotionInv, GapsInv, [Next]_vars
             PROVE  GapsInv'
  OBVIOUS
<1>1. IsFiniteSet(OpenGaps) /\ Cardinality(OpenGaps) \in Nat
  BY GapsAreFinite, FS_CardinalityType
<1>2. crashes \in Nat /\ faults \in Nat
  BY BoundsAssumption DEF TypeInv, TypeOK
<1>3. TypeInv'
  BY TypeInvInductive
<1>4. crashes' \in Nat /\ faults' \in Nat
  BY <1>3, BoundsAssumption DEF TypeInv, TypeOK
<1>5. ASSUME NEW S, IsFiniteSet(S), OpenGaps' \subseteq S
      PROVE  Cardinality(OpenGaps') \in Nat /\ Cardinality(OpenGaps') <= Cardinality(S)
  BY <1>5, FS_Subset, FS_CardinalityType
<1>6. CASE OpenGaps' \subseteq OpenGaps /\ crashes' + faults' >= crashes + faults
  <2>1. Cardinality(OpenGaps') \in Nat /\ Cardinality(OpenGaps') <= Cardinality(OpenGaps)
    BY <1>1, <1>5, <1>6
  <2>2. Cardinality(OpenGaps) <= crashes + faults
    BY DEF GapsInv
  <2>3. /\ crashes + faults \in Nat /\ crashes' + faults' \in Nat
        /\ crashes + faults <= crashes' + faults'
    <3>1. crashes' + faults' >= crashes + faults
      BY <1>6
    <3> QED BY <1>2, <1>4, <3>1, SumsCompare
  <2>4. Cardinality(OpenGaps') <= crashes' + faults'
    BY <1>1, <2>1, <2>2, <2>3, BoundIsKept
  <2> QED BY <2>4 DEF GapsInv
<1>7. ASSUME NEW v, OpenGaps' \subseteq OpenGaps \cup {v},
             crashes' + faults' = crashes + faults + 1
      PROVE  GapsInv'
  <2>1. /\ IsFiniteSet(OpenGaps \cup {v})
        /\ Cardinality(OpenGaps \cup {v}) <= Cardinality(OpenGaps) + 1
        /\ Cardinality(OpenGaps \cup {v}) \in Nat
    BY <1>1, FS_AddElement, FS_CardinalityType
  <2>2. /\ Cardinality(OpenGaps') \in Nat
        /\ Cardinality(OpenGaps') <= Cardinality(OpenGaps \cup {v})
    BY <1>5, <1>7, <2>1
  <2>3. Cardinality(OpenGaps) <= crashes + faults
    BY DEF GapsInv
  <2>4. crashes + faults \in Nat
    BY <1>2
  <2>5. Cardinality(OpenGaps') <= crashes + faults + 1
    BY <1>1, <2>1, <2>2, <2>3, <2>4, BoundGrows
  <2>6. Cardinality(OpenGaps') <= crashes' + faults'
    BY <1>7, <2>5
  <2> QED BY <2>6 DEF GapsInv
<1> QED BY <1>6, <1>7, OpenGapsGrow

\* Releases that the stored log does not explain are at most as many as there were
\* crashes and failed writes, for any number of amendments, versions and failures.
THEOREM GapsAreExplained == Spec => []GapsAreFailures
<1>1. Init => GapsInv
  <2> SUFFICES ASSUME Init PROVE GapsInv
    OBVIOUS
  <2>1. OpenGaps = {} /\ crashes + faults = 0
    BY DEF Init, RegistryInit, NoRuntimes, OpenGaps, Gaps, ReleasedOn
  <2> QED BY <2>1, FS_EmptySet DEF GapsInv
<1>2. GapsInv => GapsAreFailures
  BY DEF GapsInv, OpenGaps, Gaps, GapsAreFailures
<1> QED
  BY <1>1, <1>2, GapsInductive, TypeInvariant, StoreInvariant, PromotionInvariant, PTL DEF Spec
=============================================================================
