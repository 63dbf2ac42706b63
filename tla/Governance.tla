------------------------------- MODULE Governance -------------------------------
(***************************************************************************)
(* The amendment pipeline of one server process: the Governor and the      *)
(* handlers of app/api/main.py that drive it, on top of the runtime        *)
(* registry and the state store.                                           *)
(*                                                                         *)
(* Every handler is an "async def" without an await, so handlers do not    *)
(* interleave with each other.  They do interleave with the store: a       *)
(* handler changes memory and then writes rows in several transactions of  *)
(* their own.  pc says which write the running handler is about to make    *)
(* ("idle" between handlers, "down" between processes); between two writes *)
(* the process can die (Crash), and every write can raise (HandlerFails,   *)
(* BootFails), which aborts the handler and keeps what it did to memory.   *)
(***************************************************************************)
EXTENDS RuntimeRegistry, Sequences, FiniteSets

CONSTANTS
    Proposers,      \* principals that propose (the steward is one)
    Reviewers,      \* names in approval requests; None is an empty name
    Diffs,          \* proposed diffs: functions from some keys to values
    Forbidden,      \* the entries validate_diff lets no diff touch
    MaxTrail,       \* bound on audit entries
    MaxCrashes,     \* bound on process deaths
    MaxFaults       \* bound on writes that fail

ASSUME DiffsAssumption ==
    \A d \in Diffs : DOMAIN d \subseteq Keys /\ \A k \in DOMAIN d : d[k] \in Values

ASSUME ForbiddenAssumption == Forbidden \subseteq Keys

ASSUME PrincipalsAssumption == Proposers \subseteq Principals /\ Reviewers \subseteq Principals \cup {None}

ASSUME BoundsAssumption ==
    /\ MaxTrail \in Nat
    /\ MaxCrashes \in Nat
    /\ MaxFaults \in Nat

Status == {"proposed", "sandbox", "review", "approved", "rejected", "promoted"}

\* The verdict of the gates on an evaluation, and the candidate it is about
\* (candidate_manifest_hash).
Evaluation == [pass : BOOLEAN, candidate : Candidate]

Amendment ==
    [status    : Status,
     parent    : Versions,
     diff      : Diffs,
     proposer  : Proposers,
     reviewer  : Reviewers \cup {None},
     eval      : Evaluation \cup {None},
     resulting : Versions \cup {None}]

\* Audit entries of promotions and of rollbacks.
Entry ==
    [action    : {"promote", "rollback"},
     amendment : Amendments \cup {None},
     from      : Versions \cup {None},
     to        : Versions,
     by        : Reviewers \cup {None}]

ASSUME NoneIsNoRecord == None \notin Evaluation /\ None \notin Amendment

VARIABLES
    amend,          \* memory: the amendments dictionary
    dAmend,         \* store: rows of kind "amendment"
    trail,          \* memory: promotion_log and rollback_log, in time order
    dTrail,         \* store: rows of kind "audit", in time order
    promoting,      \* memory: _promoting_amendment
    learned,        \* memory: rejections the failure class registry knows
    pc,             \* the write the running handler makes next
    req,            \* what the running handler holds in local variables
    issued,         \* amendment identifiers used so far
    crashes,        \* process deaths so far
    faults          \* failed writes so far

memory == <<memRegistry, amend, trail, promoting, learned>>
store == <<diskRegistry, dAmend, dTrail>>
failures == <<crashes, faults>>
vars == <<memory, store, pc, req, issued, failures>>

BootSteps == {"boot.bootstrap", "boot.runtime", "boot.current"}

HandlerSteps ==
    {"propose.save", "evaluate.candidate", "evaluate.run", "evaluate.save",
     "approve.save", "promote.runtime", "promote.current", "promote.audit",
     "promote.save", "reject.save", "rollback.current", "rollback.audit"}

\* The steps that write a row.
BootWrites == BootSteps \ {"boot.bootstrap"}
HandlerWrites == HandlerSteps \ {"evaluate.run"}

Up == pc # "down"

Request ==
    [amendment : Amendments \cup {None},
     reviewer  : Reviewers \cup {None},
     cites     : BOOLEAN,
     version   : Versions \cup {None},
     from      : Versions \cup {None}]

NoRequest ==
    [amendment |-> None, reviewer |-> None, cites |-> FALSE,
     version |-> None, from |-> None]

TypeOK ==
    /\ RegistryTypeOK
    /\ amend \in [Amendments -> Amendment \cup {None}]
    /\ dAmend \in [Amendments -> Amendment \cup {None}]
    /\ trail \in Seq(Entry)
    /\ dTrail \in Seq(Entry)
    /\ promoting \in Amendments \cup {None}
    /\ learned \subseteq Amendments
    /\ pc \in {"down", "idle"} \cup BootSteps \cup HandlerSteps
    /\ req \in Request
    /\ issued \subseteq Amendments
    /\ crashes \in 0..MaxCrashes
    /\ faults \in 0..MaxFaults

-----------------------------------------------------------------------------
(* What the Governor computes *)

\* Mutant: the diff taken for the whole configuration.
ApplyDiff_Replaces(config, d) == d

\* _apply_diff: entries of the diff replace those of the parent.
ApplyDiff(config, d) == [k \in Keys |-> IF k \in DOMAIN d THEN d[k] ELSE config[k]]

\* Mutant: no diff is refused.
ValidateDiff_Lax(d) == TRUE

\* validate_diff gives no reason to refuse.
ValidateDiff(d) == DOMAIN d \cap Forbidden = {}

\* Mutant: the candidate grows out of the runtime that is current.
BuildCandidate_OnCurrent(a) ==
    [parent    |-> amend[a].parent,
     config    |-> ApplyDiff(released[current].config, amend[a].diff),
     amendment |-> a]

\* build_candidate, for an amendment whose parent is a released version.
BuildCandidate(a) ==
    [parent    |-> amend[a].parent,
     config    |-> ApplyDiff(released[amend[a].parent].config, amend[a].diff),
     amendment |-> a]

CanBuild(a) == ValidateDiff(amend[a].diff) /\ HasVersion(amend[a].parent)

\* Mutant: the rebuilt candidate is not compared with the evaluated one.
Approvable_Unbound(a, r, cites) ==
    /\ CanBuild(a)
    /\ amend[a].eval # None
    /\ amend[a].eval.pass
    /\ amend[a].status \in {"review", "approved"}
    /\ r # None
    /\ cites
    /\ r # amend[a].proposer
    /\ promoting \in {None, a}

\* Every check of approve_amendment before the promotion.  cites: the request
\* names evidence, and only intact evidence of the attached evaluation.
Approvable(a, r, cites) ==
    /\ CanBuild(a)
    /\ amend[a].eval # None
    /\ amend[a].eval.pass
    /\ amend[a].status \in {"review", "approved"}
    /\ r # None
    /\ cites
    /\ BuildCandidate(a) = amend[a].eval.candidate
    /\ r # amend[a].proposer
    /\ promoting \in {None, a}

\* Mutant: the entry names the runtime the amendment was proposed on.
PromoteEntry_FromParent(a, r, from, to) ==
    [action |-> "promote", amendment |-> a, from |-> amend[a].parent, to |-> to, by |-> r]

PromoteEntry(a, r, from, to) ==
    [action |-> "promote", amendment |-> a, from |-> from, to |-> to, by |-> r]

\* Mutant: origin and target the wrong way round.
RollbackEntry_Swapped(from, to) ==
    [action |-> "rollback", amendment |-> None, from |-> to, to |-> from, by |-> None]

RollbackEntry(from, to) ==
    [action |-> "rollback", amendment |-> None, from |-> from, to |-> to, by |-> None]

\* BOUND: room for one more promotion or rollback.
TrailHasRoom == Len(trail) < MaxTrail
VersionIsLeft == \E v \in Versions : IsNextVersion(v)

-----------------------------------------------------------------------------
(* Control *)

Init ==
    /\ RegistryInit
    /\ amend = [a \in Amendments |-> None]
    /\ dAmend = [a \in Amendments |-> None]
    /\ trail = <<>>
    /\ dTrail = <<>>
    /\ promoting = None
    /\ learned = {}
    /\ pc = "down"
    /\ req = NoRequest
    /\ issued = {}
    /\ crashes = 0
    /\ faults = 0

\* The handler returns (or raises) and its locals are gone.
Return == pc' = "idle" /\ req' = NoRequest

\* The handler goes on to its next write.
Goto(step) == pc' = step

Handle(step, fields) ==
    /\ pc = "idle"
    /\ pc' = step
    /\ req' = fields

AmendmentRequest(a) == [NoRequest EXCEPT !.amendment = a]

SaveAmendment(a) ==
    /\ dAmend' = [dAmend EXCEPT ![a] = amend[a]]
    /\ UNCHANGED <<diskRegistry, dTrail>>

SaveAudit ==
    /\ dTrail' = Append(dTrail, trail[Len(trail)])
    /\ UNCHANGED <<diskRegistry, dAmend>>

MemoryIsLost ==
    /\ RegistryForgets
    /\ amend' = [a \in Amendments |-> None]
    /\ trail' = <<>>
    /\ promoting' = None
    /\ learned' = {}
    /\ pc' = "down"
    /\ req' = NoRequest

-----------------------------------------------------------------------------
(* Boot: main.py as it is imported *)

Boot ==
    /\ pc = "down"
    /\ RegistryLoads
    /\ amend' = dAmend
    /\ trail' = dTrail
    /\ pc' = IF CurrentOf(dReleased, dCurrent) = None THEN "boot.bootstrap" ELSE "idle"
    /\ UNCHANGED <<store, promoting, learned, req, issued, failures>>

BootstrapV0 ==
    /\ pc = "boot.bootstrap"
    /\ CreateRuntime(0, V0Config, System, None)
    /\ Goto("boot.runtime")
    /\ UNCHANGED <<store, amend, trail, promoting, learned, req, issued, failures>>

BootSavesRuntime ==
    /\ pc = "boot.runtime"
    /\ SaveRuntime(0)
    /\ Goto("boot.current")
    /\ UNCHANGED <<memory, dAmend, dTrail, req, issued, failures>>

BootSavesCurrent ==
    /\ pc = "boot.current"
    /\ SaveCurrentVersion(0)
    /\ Goto("idle")
    /\ UNCHANGED <<memory, dAmend, dTrail, req, issued, failures>>

-----------------------------------------------------------------------------
(* Requests answered with an error before they change anything: an unknown  *)
(* amendment or version, an approval without an evaluation, an evaluation   *)
(* whose candidate cannot be built, a proposal outside the mutation scope.  *)

AnswerError ==
    /\ pc = "idle"
    /\ UNCHANGED vars

-----------------------------------------------------------------------------
(* Proposing: nothing validates the diff here *)

Propose(a, d, p) ==
    /\ a \notin issued
    /\ issued' = issued \cup {a}
    /\ amend' = [amend EXCEPT ![a] =
            [status |-> "proposed", parent |-> current, diff |-> d, proposer |-> p,
             reviewer |-> None, eval |-> None, resulting |-> None]]
    /\ Handle("propose.save", AmendmentRequest(a))
    /\ UNCHANGED <<memRegistry, store, trail, promoting, learned, failures>>

SaveProposal ==
    /\ pc = "propose.save"
    /\ SaveAmendment(req.amendment)
    /\ Return
    /\ UNCHANGED <<memory, issued, failures>>

-----------------------------------------------------------------------------
(* Evaluating *)

Evaluate(a) ==
    /\ amend[a] # None
    /\ CanBuild(a)
    /\ amend' = [amend EXCEPT ![a].status = "sandbox"]
    /\ \/ /\ RegisterCandidate(BuildCandidate(a))
          /\ Handle("evaluate.candidate", AmendmentRequest(a))
       \/ /\ candidates[a] = BuildCandidate(a)
          /\ Handle("evaluate.run", AmendmentRequest(a))
          /\ UNCHANGED memRegistry
       \/ /\ candidates[a] \notin {None, BuildCandidate(a)}
          /\ Handle("idle", NoRequest)
          /\ UNCHANGED memRegistry
    /\ UNCHANGED <<store, trail, promoting, learned, issued, failures>>

\* Mutant: the manifest stays in memory.
SaveSandboxManifest_Unsaved ==
    /\ pc = "evaluate.candidate"
    /\ Goto("evaluate.run")
    /\ UNCHANGED <<memory, store, req, issued, failures>>

SaveSandboxManifest ==
    /\ pc = "evaluate.candidate"
    /\ SaveCandidate(req.amendment)
    /\ Goto("evaluate.run")
    /\ UNCHANGED <<memory, dAmend, dTrail, req, issued, failures>>

\* run_suite_against_runtime raises: the requested suite does not exist.
SuiteIsUnknown ==
    /\ pc = "evaluate.run"
    /\ Return
    /\ UNCHANGED <<memory, store, issued, failures>>

\* The suites run; the gates' verdict on their results is any of the two.
RunSuites(pass) ==
    LET a == req.amendment IN
    /\ pc = "evaluate.run"
    /\ amend' = [amend EXCEPT
            ![a].eval = [pass |-> pass, candidate |-> candidates[a]],
            ![a].status = "review"]
    /\ Goto("evaluate.save")
    /\ UNCHANGED <<memRegistry, store, trail, promoting, learned, req, issued, failures>>

SaveEvaluation ==
    /\ pc = "evaluate.save"
    /\ SaveAmendment(req.amendment)
    /\ Return
    /\ UNCHANGED <<memory, issued, failures>>

-----------------------------------------------------------------------------
(* Approving and promoting *)

\* The handler marks the amendment approved before the Governor decides.
Approve(a, r, cites) ==
    /\ amend[a] # None
    /\ amend[a].eval # None
    /\ TrailHasRoom
    /\ VersionIsLeft
    /\ amend' = [amend EXCEPT ![a].status = "approved", ![a].reviewer = r]
    /\ Handle("approve.save",
              [AmendmentRequest(a) EXCEPT !.reviewer = r, !.cites = cites])
    /\ UNCHANGED <<memRegistry, store, trail, promoting, learned, issued, failures>>

ApprovalRefused ==
    /\ pc = "approve.save"
    /\ ~ Approvable(req.amendment, req.reviewer, req.cites)
    /\ SaveAmendment(req.amendment)
    /\ Return
    /\ UNCHANGED <<memory, issued, failures>>

\* Mutant: the approved amendment is not persisted before the promotion.
ApprovalGranted_Unsaved ==
    LET a == req.amendment IN
    /\ pc = "approve.save"
    /\ Approvable(a, req.reviewer, req.cites)
    /\ promoting' = a
    /\ \E v \in Versions :
        /\ IsNextVersion(v)
        /\ CreateRuntime(v, ApplyDiff(released[current].config, amend[a].diff),
                         req.reviewer, a)
        /\ req' = [req EXCEPT !.version = v, !.from = current]
    /\ Goto("promote.runtime")
    /\ UNCHANGED <<store, amend, trail, learned, issued, failures>>

\* approve_amendment takes the lock and create_runtime puts the new release in
\* memory: the diff applied to the runtime that is current now.
ApprovalGranted ==
    LET a == req.amendment IN
    /\ pc = "approve.save"
    /\ Approvable(a, req.reviewer, req.cites)
    /\ SaveAmendment(a)
    /\ promoting' = a
    /\ \E v \in Versions :
        /\ IsNextVersion(v)
        /\ CreateRuntime(v, ApplyDiff(released[current].config, amend[a].diff),
                         req.reviewer, a)
        /\ req' = [req EXCEPT !.version = v, !.from = current]
    /\ Goto("promote.runtime")
    /\ UNCHANGED <<amend, trail, learned, issued, failures>>

PromotionSavesRuntime ==
    /\ pc = "promote.runtime"
    /\ SaveRuntime(req.version)
    /\ Goto("promote.current")
    /\ UNCHANGED <<memory, dAmend, dTrail, req, issued, failures>>

\* Mutant: the amendment's row is written before the audit entry.
PromotionSavesCurrent_AmendmentFirst ==
    LET a == req.amendment IN
    /\ pc = "promote.current"
    /\ SaveCurrentVersion(req.version)
    /\ amend' = [amend EXCEPT
            ![a].status = "promoted",
            ![a].resulting = req.version,
            ![a].reviewer = req.reviewer]
    /\ dAmend' = amend'
    /\ trail' = Append(trail, PromoteEntry(a, req.reviewer, req.from, req.version))
    /\ Goto("promote.audit")
    /\ UNCHANGED <<memRegistry, dTrail, promoting, learned, req, issued, failures>>

PromotionSavesCurrent ==
    LET a == req.amendment IN
    /\ pc = "promote.current"
    /\ SaveCurrentVersion(req.version)
    /\ amend' = [amend EXCEPT
            ![a].status = "promoted",
            ![a].resulting = req.version,
            ![a].reviewer = req.reviewer]
    /\ trail' = Append(trail, PromoteEntry(a, req.reviewer, req.from, req.version))
    /\ Goto("promote.audit")
    /\ UNCHANGED <<memRegistry, dAmend, dTrail, promoting, learned, req, issued, failures>>

\* Mutant: the entry stays in memory, with the logs that are shown.
PromotionSavesAudit_Unsaved ==
    /\ pc = "promote.audit"
    /\ promoting' = None
    /\ Goto("promote.save")
    /\ UNCHANGED <<memRegistry, store, amend, trail, learned, req, issued, failures>>

\* The entry is written and the "finally" of approve_amendment frees the lock.
PromotionSavesAudit ==
    /\ pc = "promote.audit"
    /\ SaveAudit
    /\ promoting' = None
    /\ Goto("promote.save")
    /\ UNCHANGED <<memRegistry, amend, trail, learned, req, issued, failures>>

SavePromotion ==
    /\ pc = "promote.save"
    /\ SaveAmendment(req.amendment)
    /\ Return
    /\ UNCHANGED <<memory, issued, failures>>

-----------------------------------------------------------------------------
(* Rejecting: from any status, and with no audit entry *)

Reject(a) ==
    /\ amend[a] # None
    /\ amend' = [amend EXCEPT ![a].status = "rejected"]
    /\ learned' = learned \cup {a}
    /\ Handle("reject.save", AmendmentRequest(a))
    /\ UNCHANGED <<memRegistry, store, trail, promoting, issued, failures>>

SaveRejection ==
    /\ pc = "reject.save"
    /\ SaveAmendment(req.amendment)
    /\ Return
    /\ UNCHANGED <<memory, issued, failures>>

-----------------------------------------------------------------------------
(* Rolling back *)

Rollback(v) ==
    /\ TrailHasRoom
    /\ RollbackTo(v)
    /\ Handle("rollback.current", [NoRequest EXCEPT !.version = v, !.from = current])
    /\ UNCHANGED <<store, amend, trail, promoting, learned, issued, failures>>

\* Mutant: the pointer moves in memory only.
RollbackSavesCurrent_Unsaved ==
    /\ pc = "rollback.current"
    /\ trail' = Append(trail, RollbackEntry(req.from, req.version))
    /\ Goto("rollback.audit")
    /\ UNCHANGED <<memRegistry, store, amend, promoting, learned, req, issued, failures>>

RollbackSavesCurrent ==
    /\ pc = "rollback.current"
    /\ SaveCurrentVersion(req.version)
    /\ trail' = Append(trail, RollbackEntry(req.from, req.version))
    /\ Goto("rollback.audit")
    /\ UNCHANGED <<memRegistry, amend, dAmend, dTrail, promoting, learned, req, issued, failures>>

RollbackSavesAudit ==
    /\ pc = "rollback.audit"
    /\ SaveAudit
    /\ Return
    /\ UNCHANGED <<memory, issued, failures>>

-----------------------------------------------------------------------------
(* Failures *)

\* The process dies; BOUND: MaxCrashes times.
Crash ==
    /\ Up
    /\ crashes < MaxCrashes
    /\ crashes' = crashes + 1
    /\ MemoryIsLost
    /\ UNCHANGED <<store, issued, faults>>

\* Mutant: the lock is freed on success only.
HandlerFails_KeepsLock ==
    /\ pc \in HandlerWrites
    /\ faults < MaxFaults
    /\ faults' = faults + 1
    /\ Return
    /\ UNCHANGED <<memRegistry, amend, trail, promoting, learned, store, issued, crashes>>

\* The write raises: the handler answers with an error, memory stays as it is,
\* except for the lock, which the "finally" frees.  BOUND: MaxFaults times.
HandlerFails ==
    /\ pc \in HandlerWrites
    /\ faults < MaxFaults
    /\ faults' = faults + 1
    /\ promoting' = None
    /\ Return
    /\ UNCHANGED <<memRegistry, amend, trail, learned, store, issued, crashes>>

\* A write that raises while main.py is imported ends the process.
BootFails ==
    /\ pc \in BootWrites
    /\ faults < MaxFaults
    /\ faults' = faults + 1
    /\ MemoryIsLost
    /\ UNCHANGED <<store, issued, crashes>>

-----------------------------------------------------------------------------

BootNext == Boot \/ BootstrapV0 \/ BootSavesRuntime \/ BootSavesCurrent

ProposeNext ==
    \/ \E a \in Amendments, d \in Diffs, p \in Proposers : Propose(a, d, p)
    \/ SaveProposal

EvaluateNext ==
    \/ \E a \in Amendments : Evaluate(a)
    \/ SaveSandboxManifest
    \/ SuiteIsUnknown
    \/ \E pass \in BOOLEAN : RunSuites(pass)
    \/ SaveEvaluation

ApproveNext ==
    \/ \E a \in Amendments, r \in Reviewers, cites \in BOOLEAN :
            Approve(a, r, cites)
    \/ ApprovalRefused
    \/ ApprovalGranted
    \/ PromotionSavesRuntime
    \/ PromotionSavesCurrent
    \/ PromotionSavesAudit
    \/ SavePromotion

RejectNext == (\E a \in Amendments : Reject(a)) \/ SaveRejection

RollbackNext ==
    \/ \E v \in Versions : Rollback(v)
    \/ RollbackSavesCurrent
    \/ RollbackSavesAudit

FailureNext == Crash \/ HandlerFails \/ BootFails

Next ==
    \/ BootNext
    \/ AnswerError
    \/ ProposeNext
    \/ EvaluateNext
    \/ ApproveNext
    \/ RejectNext
    \/ RollbackNext
    \/ FailureNext

Spec == Init /\ [][Next]_vars

-----------------------------------------------------------------------------
(* Properties *)

ReleasedOn(rows) == {v \in Versions : rows[v] # None}

PromotionOf(log, v) ==
    {i \in 1..Len(log) : log[i].action = "promote" /\ log[i].to = v}

\* However many amendments are promoted, on whatever runtime is current, and
\* across restarts and failed writes, no release differs from v0 in an entry
\* that validate_diff protects; propose_amendment itself checks no diff.
ScopePreserved ==
    \A rows \in {released, dReleased} : \A v \in ReleasedOn(rows) :
        \A k \in Forbidden : rows[v].config[k] = V0Config[k]

\* A release once stored is never overwritten or lost: after a rollback or a
\* restart a promotion finds a number that is free in the store as well,
\* though _runtimes in memory is all that approve_amendment looks at.
ReleasedImmutable ==
    [][\A v \in Versions : Has(dReleased, v) => dReleased'[v] = dReleased[v]]_vars

\* A release reaches the store only when the store already shows why it may: the
\* approved amendment with a passing evaluation of a candidate, approved by
\* someone who is not its proposer.  approve_amendment judges the amendment in
\* memory, which earlier failed writes may have left ahead of its row.
ReleaseIsBacked ==
    [][\A v \in Versions :
        ~ Has(dReleased, v) /\ Has(dReleased', v) /\ v # 0 =>
            LET row == dReleased'[v]
                record == dAmend[row.amendment] IN
            /\ record # None
            /\ record.status = "approved"
            /\ record.eval # None
            /\ record.eval.pass
            /\ record.reviewer = row.createdBy
            /\ record.reviewer # record.proposer]_vars

\* A release made on the version its amendment was evaluated against has the
\* content that was evaluated, even when that version was lost with a crash and
\* its number given to another release: the sandbox manifest is rebuilt and
\* compared before anything is promoted.
ReleaseIsTheEvaluated ==
    [][\A v \in Versions :
        ~ Has(dReleased, v) /\ Has(dReleased', v) /\ v # 0 =>
            LET row == dReleased'[v]
                evaluated == dAmend[row.amendment].eval.candidate IN
            row.parent = evaluated.parent => row.config = evaluated.config]_vars

\* A stored promotion entry tells the truth about the stored release it names:
\* which amendment made it, out of which runtime, and who approved it.
AuditSound ==
    \A i \in 1..Len(dTrail) :
        LET e == dTrail[i] IN
        e.action = "promote" =>
            /\ Has(dReleased, e.to)
            /\ dReleased[e.to].amendment = e.amendment
            /\ dReleased[e.to].parent = e.from
            /\ dReleased[e.to].createdBy = e.by

\* An amendment stored as promoted has its release and its audit entry in the
\* store: the row that says so is the last one the handler writes.
PromotedIsAudited ==
    \A a \in Amendments :
        dAmend[a] # None /\ dAmend[a].status = "promoted" =>
            \E i \in PromotionOf(dTrail, dAmend[a].resulting) :
                dTrail[i].amendment = a /\ dTrail[i].by = dAmend[a].reviewer

\* A release without an audit entry is the mark of one failure each: the log of a
\* store whose process never died and whose writes all came through is complete,
\* and no failure hides more than the promotion it fell into.
GapsAreFailures ==
    pc \in {"idle", "down"} =>
        Cardinality({v \in ReleasedOn(dReleased) \ {0} : PromotionOf(dTrail, v) = {}})
            <= crashes + faults

\* The promotion lock does not outlive the handler that took it, whichever of
\* its writes fails: a lock left behind would refuse every other amendment
\* until the next restart.
LockReleased == pc = "idle" => promoting = None

\* get_amendment_chain walks from every stored release down to v0: the parent
\* of a release is an older release that is stored too.
LineageReachesV0 ==
    \A v \in ReleasedOn(dReleased) \ {0} :
        /\ dReleased[v].parent \in ReleasedOn(dReleased)
        /\ dReleased[v].parent < v

\* Wherever the process dies, the next one starts where this one was: between
\* handlers the registry and the audit log that a boot would load are the ones
\* in memory, so a restart is invisible.
RestartRestores ==
    pc = "idle" =>
        /\ released = dReleased
        /\ candidates = dCandidates
        /\ current = CurrentOf(dReleased, dCurrent)
        /\ trail = dTrail

\* A release made on the runtime its amendment was evaluated against has the
\* content of the sandbox manifest that was evaluated.
ReleaseIsTheCandidate ==
    \A v \in ReleasedOn(dReleased) \ {0} :
        LET c == dCandidates[dReleased[v].amendment] IN
        /\ c # None
        /\ c.parent = dReleased[v].parent => c.config = dReleased[v].config

\* What was evaluated can be rebuilt for as long as the amendment lives: no
\* crash and no later promotion or rollback makes build_candidate give another
\* manifest than the one the attached evaluation is about, so approval is never
\* blocked for a "changed" candidate that nobody changed.
EvidenceStaysBound ==
    \A a \in Amendments :
        Up /\ amend[a] # None /\ amend[a].eval # None =>
            BuildCandidate(a) = amend[a].eval.candidate

\* As long as nothing fails the audit log alone tells which runtime is current:
\* its entries form a chain of moves from v0 to the current runtime.
TrailReplaysCurrent ==
    LET Position(i) == IF i = 0 THEN 0 ELSE trail[i].to IN
    pc = "idle" /\ crashes = 0 /\ faults = 0 =>
        /\ \A i \in 1..Len(trail) : trail[i].from = Position(i - 1)
        /\ current = Position(Len(trail))

\* The rows of the registry behave as the ledger, if no handler's write fails.
Ledger ==
    INSTANCE ReleaseLedger WITH
        ledger <- dReleased, pointer <- dCurrent, Manifests <- Manifest

LedgerSpec == Ledger!Spec

=============================================================================
