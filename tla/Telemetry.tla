------------------------------- MODULE Telemetry -------------------------------
(***************************************************************************)
(* From executions to proposals: the telemetry store with its trusted and  *)
(* untrusted partitions, and the Steward, who groups trusted failures into *)
(* patterns and proposes at most once per failure class and window.        *)
(*                                                                         *)
(* As in Governance.tla, pc is the write that the running handler makes    *)
(* next.  Memory keeps the trusted records, the next number and the        *)
(* Steward's time stamps; the store keeps both partitions and the          *)
(* proposals, but neither the number nor the stamps.                       *)
(***************************************************************************)
EXTENDS Integers, FiniteSets

CONSTANTS
    Tasks,          \* task identifiers
    Classes,        \* failure classes, see classify_failure
    Submissions,    \* task and class of what subsystems and others submit
    Hashes,         \* manifest hashes that a submission may carry
    Listed,         \* those of the runtimes in the registry
    MIN_FAILURE_FREQUENCY,  \* failures that make a pattern; 3 in the code
    Samples,        \* failures of a pattern that become cases; 3 in the code
    MaxRuns,        \* bound on run numbers
    MaxNow,         \* bound on the clock
    MaxCrashes,     \* bound on process deaths
    MaxFaults,      \* bound on writes that raise
    None            \* no record, no class (a success) or no stamp

Runs == 1..MaxRuns
Targets == {"prompt", "memory"}
Sources == {"subsystem", "external"}

Record == [task : Tasks, class : Classes \cup {None}]

ASSUME TelemetryAssumption ==
    /\ {MaxRuns, MaxNow, MaxCrashes, MaxFaults} \subseteq Nat
    /\ {MIN_FAILURE_FREQUENCY, Samples} \subseteq Nat \ {0}
    /\ Submissions \subseteq Record /\ Listed \subseteq Hashes
    /\ None \notin Record \cup Classes \cup Nat

VARIABLES
    records,        \* TelemetryStore._records: the trusted records
    nextId,         \* TelemetryStore._next_id
    stamps,         \* Steward._proposal_timestamps: the last one of a class, within the window
    dTrusted,       \* rows of kind "telemetry"
    dUntrusted,     \* rows of kind "telemetry_untrusted"
    dProposals,     \* rows of kind "amendment" that the Steward proposed, by identifier
    now,            \* the second it is
    pc,             \* "idle", "record.save", "analyze.save" or "down"
    req,            \* the record that the handler is about to save
    todo,           \* the proposals that the handler is about to save
    crashes, faults

memory == <<records, nextId, stamps>>
rows == <<dTrusted, dUntrusted, dProposals>>
vars == <<records, nextId, stamps, dTrusted, dUntrusted, dProposals, now, pc, req,
          todo, crashes, faults>>

\* A stored proposal has its failure class and, as regression cases, the inputs
\* of its first failures.  Its identifier is made of the task, the target and
\* the second, so a proposal of the same second is overwritten.
Proposal == [class : Classes, samples : SUBSET Runs]
ProposalId == [task : Tasks, target : Targets, at : 0..MaxNow]

\* A proposal on its way to the store.
Proposed == [task : Tasks, target : Targets, class : Classes, samples : SUBSET Runs]

\* What record_execution keeps until its write.
NoRequest == [run |-> 0, record |-> None, trusted |-> FALSE]
Request == [run : Runs, record : Record, trusted : BOOLEAN] \cup {NoRequest}

NoRecords == [r \in Runs |-> None]
NoStamps == [c \in Classes |-> None]

TypeOK ==
    /\ {records, dTrusted, dUntrusted} \subseteq [Runs -> Record \cup {None}]
    /\ nextId \in 1..(MaxRuns + 1)
    /\ stamps \in [Classes -> 0..MaxNow \cup {None}]
    /\ dProposals \in [ProposalId -> Proposal \cup {None}]
    /\ \A id \in ProposalId :
            dProposals[id] # None => Cardinality(dProposals[id].samples) \in 1..Samples
    /\ now \in 0..MaxNow
    /\ pc \in {"idle", "record.save", "analyze.save", "down"}
    /\ req \in Request /\ (pc = "record.save" <=> req # NoRequest)
    /\ todo \subseteq Proposed /\ (pc = "analyze.save" <=> todo # {})
    /\ crashes \in 0..MaxCrashes /\ faults \in 0..MaxFaults

-----------------------------------------------------------------------------
(* Recording *)

RecordedIn(table) == {r \in Runs : table[r] # None}

\* Mutant: numbers go on from the count of the records.
NextIdOf_Count(table) == Cardinality(RecordedIn(table)) + 1

\* The number after the highest trusted one that is stored.
NextIdOf(table) ==
    CHOOSE n \in 1..(MaxRuns + 1) :
        /\ \A r \in RecordedIn(table) : r < n
        /\ n = 1 \/ n - 1 \in RecordedIn(table)

Init ==
    /\ records = NoRecords /\ nextId = 1 /\ stamps = NoStamps
    /\ dTrusted = NoRecords /\ dUntrusted = NoRecords
    /\ dProposals = [id \in ProposalId |-> None]
    /\ now = 0 /\ pc = "idle" /\ req = NoRequest /\ todo = {}
    /\ crashes = 0 /\ faults = 0

\* Mutant: untrusted records are aggregated too.
RecordExecution_All(record, trusted) ==
    /\ nextId \in Runs
    /\ req' = [run |-> nextId, record |-> record, trusted |-> trusted]
    /\ nextId' = nextId + 1
    /\ records' = [records EXCEPT ![nextId] = record]
    /\ pc' = "record.save"
    /\ UNCHANGED <<stamps, rows, now, todo, crashes, faults>>

\* Mutant: only trusted records use a number up.
RecordExecution_Reuses(record, trusted) ==
    /\ nextId \in Runs
    /\ req' = [run |-> nextId, record |-> record, trusted |-> trusted]
    /\ nextId' = IF trusted THEN nextId + 1 ELSE nextId
    /\ records' = IF trusted THEN [records EXCEPT ![nextId] = record] ELSE records
    /\ pc' = "record.save"
    /\ UNCHANGED <<stamps, rows, now, todo, crashes, faults>>

\* record_execution up to its write: a number for each record, of either
\* partition, and only trusted records in memory.
RecordExecution(record, trusted) ==
    /\ nextId \in Runs
    /\ req' = [run |-> nextId, record |-> record, trusted |-> trusted]
    /\ nextId' = nextId + 1
    /\ records' = IF trusted THEN [records EXCEPT ![nextId] = record] ELSE records
    /\ pc' = "record.save"
    /\ UNCHANGED <<stamps, rows, now, todo, crashes, faults>>

\* The Operator's own record.  An execution either succeeds or raises; one that
\* raises never gets here.
ExecuteTask(task) ==
    /\ pc = "idle"
    /\ RecordExecution([task |-> task, class |-> None], TRUE)

\* A submission is trusted if it names a subsystem and the hash of a runtime,
\* whichever runtime it says it ran on.
Trusts(source, hash) == source = "subsystem" /\ hash \in Listed

RecordTelemetry(record, source, hash) ==
    /\ pc = "idle"
    /\ RecordExecution(record, Trusts(source, hash))

SaveRecord ==
    /\ pc = "record.save"
    /\ dTrusted' = IF req.trusted THEN [dTrusted EXCEPT ![req.run] = req.record] ELSE dTrusted
    /\ dUntrusted' = IF req.trusted THEN dUntrusted
                     ELSE [dUntrusted EXCEPT ![req.run] = req.record]
    /\ pc' = "idle" /\ req' = NoRequest
    /\ UNCHANGED <<memory, dProposals, now, todo, crashes, faults>>

-----------------------------------------------------------------------------
(* The Steward *)

\* The failures of a task, oldest first by their numbers.
FailuresOf(task) ==
    {r \in RecordedIn(records) : records[r].task = task /\ records[r].class # None}

\* Tasks that failed often enough, under whatever runtime and however long ago.
Patterns == {t \in Tasks : Cardinality(FailuresOf(t)) >= MIN_FAILURE_FREQUENCY}

FirstFailure(task) == CHOOSE r \in FailuresOf(task) : \A s \in FailuresOf(task) : r <= s

\* Mutant: every failure becomes a case.
SampleInputs_All(task) == FailuresOf(task)

\* The first ones.
SampleInputs(task) ==
    {r \in FailuresOf(task) :
        Cardinality({s \in FailuresOf(task) : s < r}) < Samples}

Frequency(task, class) == Cardinality({r \in FailuresOf(task) : records[r].class = class})

\* The classes that are most common among the failures of a task; max takes any.
MostCommon(task) ==
    {c \in Classes : \A other \in Classes : Frequency(task, other) <= Frequency(task, c)}

\* Mutant: the class of a pattern is stamped when all patterns have been seen.
Proceeding_AtEnd(classOf) == {t \in Patterns : stamps[classOf[t]] = None}

\* Patterns that the rate limit lets through: their class has no stamp within
\* the window, nor one of an earlier pattern of this analysis.
Proceeding(classOf) ==
    {t \in Patterns :
        /\ stamps[classOf[t]] = None
        /\ \A u \in Patterns :
                classOf[u] = classOf[t] => FirstFailure(t) <= FirstFailure(u)}

\* recommend_amendments: two proposals and one stamp for each of them, all
\* before the first proposal is saved.
Analyze(classOf) ==
    LET proceeding == Proceeding(classOf) IN
    /\ pc = "idle"
    /\ \A t \in Patterns : classOf[t] \in MostCommon(t)
    /\ proceeding # {}
    /\ stamps' = [c \in Classes |->
            IF \E t \in proceeding : classOf[t] = c THEN now ELSE stamps[c]]
    /\ todo' = {[task |-> t, target |-> target, class |-> classOf[t],
                 samples |-> SampleInputs(t)] : t \in proceeding, target \in Targets}
    /\ pc' = "analyze.save"
    /\ UNCHANGED <<records, nextId, rows, now, req, crashes, faults>>

\* Proposals are saved in the order of the patterns, that of the prompt first.
Before(p, q) ==
    \/ FirstFailure(p.task) < FirstFailure(q.task)
    \/ p.task = q.task /\ p.target = "prompt"

SaveProposal ==
    /\ pc = "analyze.save"
    /\ \E p \in todo :
        /\ \A q \in todo \ {p} : Before(p, q)
        /\ dProposals' = [dProposals EXCEPT
                ![[task |-> p.task, target |-> p.target, at |-> now]] =
                    [class |-> p.class, samples |-> p.samples]]
        /\ todo' = todo \ {p}
        /\ pc' = IF todo' = {} THEN "idle" ELSE "analyze.save"
    /\ UNCHANGED <<memory, dTrusted, dUntrusted, now, req, crashes, faults>>

\* Requests that change nothing: a refused expression or payload, the limit on
\* submissions, an analysis without a pattern that may be proposed.
AnswerRefused == pc = "idle" /\ UNCHANGED vars

\* Time passes between requests.  Stamps up to the cutoff leave the window.
Tick(cutoff) ==
    /\ pc = "idle" /\ now < MaxNow
    /\ now' = now + 1
    /\ stamps' = [c \in Classes |->
            IF stamps[c] # None /\ stamps[c] > cutoff THEN stamps[c] ELSE None]
    /\ UNCHANGED <<records, nextId, rows, pc, req, todo, crashes, faults>>

\* A write raises: the handler ends, what it changed in memory stays.
HandlerFails ==
    /\ pc \in {"record.save", "analyze.save"} /\ faults < MaxFaults
    /\ faults' = faults + 1
    /\ pc' = "idle" /\ req' = NoRequest /\ todo' = {}
    /\ UNCHANGED <<memory, rows, now, crashes>>

Crash ==
    /\ pc # "down" /\ crashes < MaxCrashes
    /\ crashes' = crashes + 1
    /\ records' = NoRecords /\ nextId' = 1 /\ stamps' = NoStamps
    /\ pc' = "down" /\ req' = NoRequest /\ todo' = {}
    /\ UNCHANGED <<rows, now, faults>>

\* Only the trusted partition is loaded.
Boot ==
    /\ pc = "down"
    /\ records' = dTrusted
    /\ nextId' = NextIdOf(dTrusted)
    /\ pc' = "idle"
    /\ UNCHANGED <<stamps, rows, now, req, todo, crashes, faults>>

Next ==
    \/ \E task \in Tasks : ExecuteTask(task)
    \/ \E record \in Submissions, source \in Sources, hash \in Hashes :
            RecordTelemetry(record, source, hash)
    \/ SaveRecord
    \/ \E classOf \in [Tasks -> Classes] : Analyze(classOf)
    \/ SaveProposal
    \/ AnswerRefused
    \/ \E cutoff \in -1..now : Tick(cutoff)
    \/ HandlerFails \/ Crash \/ Boot

Spec == Init /\ [][Next]_vars

-----------------------------------------------------------------------------
(* Properties *)

\* A stored trusted record is never overwritten: numbers that are shared by both
\* partitions, lost with a process or skipped by a failed write never lead back
\* to one that a trusted record has.
TrustedKept ==
    [][\A r \in RecordedIn(dTrusted) : dTrusted'[r] = dTrusted[r]]_vars

\* What is kept for audit is kept by the process that recorded it: a number names
\* one run of one partition, whichever writes fail.  After a restart numbers go
\* on from the trusted records alone, and rows of untrusted ones are overwritten.
UntrustedKept ==
    [][crashes = 0 =>
        /\ \A r \in RecordedIn(dUntrusted) : dUntrusted'[r] = dUntrusted[r]
        /\ RecordedIn(dTrusted') \cap RecordedIn(dUntrusted') = {}]_vars

\* As long as no write fails, a stored proposal rests on failures that a reader
\* of the store finds, for good: its cases are trusted failures of its task, and
\* its class is one that trusted failures of the task have.
ProposalsAreGrounded ==
    faults = 0 =>
        \A id \in ProposalId :
            dProposals[id] # None =>
                LET failures == {r \in RecordedIn(dTrusted) :
                                    /\ dTrusted[r].task = id.task
                                    /\ dTrusted[r].class # None} IN
                /\ Cardinality(failures) >= MIN_FAILURE_FREQUENCY
                /\ dProposals[id].samples \subseteq failures
                /\ \E r \in failures : dTrusted[r].class = dProposals[id].class

\* As long as the process lives, a class is proposed for once in a window: what
\* is stored since its stamp belongs to one task and one analysis, whatever the
\* order in which patterns appear, writes fail and stamps leave the window.
OneProposalPerWindow ==
    crashes = 0 =>
        \A p, q \in {id \in ProposalId : dProposals[id] # None} :
            LET class == dProposals[p].class IN
            /\ dProposals[q].class = class /\ stamps[class] # None
            /\ p.at >= stamps[class] /\ q.at >= stamps[class]
            => p.task = q.task /\ p.at = q.at
=============================================================================
