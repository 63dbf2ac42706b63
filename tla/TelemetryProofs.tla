---------------------------- MODULE TelemetryProofs ----------------------------
(***************************************************************************)
(* Theorems about Telemetry, for every value of the constants.             *)
(***************************************************************************)
EXTENDS Telemetry, FiniteSetTheorems, NextNumberProofs, TLAPS

Table == [Runs -> Record \cup {None}]

\* Numbers: what is stored is below the next one, and a record on its way to the
\* store has a number that nothing stored has.  Of the untrusted partition this
\* holds for the process that never crashed.
Numbered ==
    /\ records \in Table /\ dTrusted \in Table /\ dUntrusted \in Table
    /\ nextId \in 1..(MaxRuns + 1)
    /\ crashes \in Nat
    /\ pc # "down" => \A r \in RecordedIn(dTrusted) : r < nextId
    /\ crashes = 0 =>
        /\ pc # "down"
        /\ \A r \in RecordedIn(dUntrusted) : r < nextId
        /\ RecordedIn(dTrusted) \cap RecordedIn(dUntrusted) = {}
    /\ pc = "record.save" =>
        /\ req.run \in Runs /\ req.run < nextId /\ req.record \in Record
        /\ req.trusted \in BOOLEAN
        /\ req.run \notin RecordedIn(dTrusted)
        /\ crashes = 0 => req.run \notin RecordedIn(dUntrusted)

-----------------------------------------------------------------------------
(* Numbers *)

\* The number that a boot goes on from is above all trusted ones.
LEMMA NextIdIsFree ==
    ASSUME NEW table \in Table
    PROVE  /\ NextIdOf(table) \in 1..(MaxRuns + 1)
           /\ \A r \in RecordedIn(table) : r < NextIdOf(table)
<1>1. RecordedIn(table) \subseteq 1..MaxRuns
  BY DEF RecordedIn, Runs
<1>2. \E n \in 1..(MaxRuns + 1) :
        /\ \A r \in RecordedIn(table) : r < n
        /\ n = 1 \/ n - 1 \in RecordedIn(table)
  BY <1>1, NextAfterExists, TelemetryAssumption
<1> QED BY <1>2 DEF NextIdOf

\* A record goes to the next number.
LEMMA RecordKeepsNumbers ==
    ASSUME Numbered, NEW record \in Record, NEW trusted \in BOOLEAN,
           pc = "idle", RecordExecution(record, trusted)
    PROVE  Numbered'
<1>1. /\ nextId \in Runs /\ nextId' = nextId + 1 /\ pc' = "record.save"
      /\ req' = [run |-> nextId, record |-> record, trusted |-> trusted]
      /\ UNCHANGED <<dTrusted, dUntrusted, crashes>>
  BY DEF RecordExecution, rows
<1>2. records' \in Table
  BY <1>1 DEF RecordExecution, Numbered, Table
<1>3. /\ \A r \in RecordedIn(dTrusted) : r \in Nat /\ r < nextId
      /\ crashes = 0 => \A r \in RecordedIn(dUntrusted) : r \in Nat /\ r < nextId
  BY <1>1 DEF Numbered, RecordedIn, Runs
<1>4. nextId' \in 1..(MaxRuns + 1) /\ nextId \in Nat
  BY <1>1, TelemetryAssumption DEF Runs
<1> QED BY <1>1, <1>2, <1>3, <1>4 DEF Numbered, RecordedIn

\* A save fills the number that was given to it, in one of the partitions.
LEMMA SaveKeepsNumbers ==
    ASSUME Numbered, SaveRecord
    PROVE  Numbered'
<1>1. /\ req.run \in Runs /\ req.run < nextId /\ req.record \in Record
      /\ UNCHANGED <<records, nextId, crashes>> /\ pc' = "idle" /\ pc = "record.save"
  BY DEF Numbered, SaveRecord, memory
<1>2. CASE req.trusted
  <2>1. dTrusted' = [dTrusted EXCEPT ![req.run] = req.record] /\ dUntrusted' = dUntrusted
    BY <1>2 DEF SaveRecord
  <2>2. dTrusted' \in Table
    BY <1>1, <2>1 DEF Numbered, Table
  <2>3. RecordedIn(dTrusted') \subseteq RecordedIn(dTrusted) \cup {req.run}
    BY <1>1, <2>1 DEF RecordedIn, Numbered, Table
  <2> QED BY <1>1, <2>1, <2>2, <2>3 DEF Numbered, RecordedIn
<1>3. CASE ~ req.trusted
  <2>1. dUntrusted' = [dUntrusted EXCEPT ![req.run] = req.record] /\ dTrusted' = dTrusted
    BY <1>3 DEF SaveRecord
  <2>2. dUntrusted' \in Table
    BY <1>1, <2>1 DEF Numbered, Table
  <2>3. RecordedIn(dUntrusted') \subseteq RecordedIn(dUntrusted) \cup {req.run}
    BY <1>1, <2>1 DEF RecordedIn, Numbered, Table
  <2> QED BY <1>1, <2>1, <2>2, <2>3 DEF Numbered, RecordedIn
<1> QED BY <1>2, <1>3

\* What is submitted is a record.
LEMMA SubmittedIsRecorded ==
    /\ \A task \in Tasks : [task |-> task, class |-> None] \in Record
    /\ \A record \in Submissions : record \in Record
    /\ \A source \in Sources, hash \in Hashes : Trusts(source, hash) \in BOOLEAN
BY TelemetryAssumption DEF Record, Trusts

LEMMA InitNumbered == Init => Numbered
BY TelemetryAssumption DEF Init, Numbered, NoRecords, Table, RecordedIn

LEMMA NumberedInductive == Numbered /\ [Next]_vars => Numbered'
<1> SUFFICES ASSUME Numbered, [Next]_vars
             PROVE  Numbered'
  OBVIOUS
<1>1. ASSUME NEW task \in Tasks, ExecuteTask(task) PROVE Numbered'
  BY <1>1, RecordKeepsNumbers, SubmittedIsRecorded DEF ExecuteTask
<1>2. ASSUME NEW record \in Submissions, NEW source \in Sources, NEW hash \in Hashes,
             RecordTelemetry(record, source, hash)
      PROVE  Numbered'
  BY <1>2, RecordKeepsNumbers, SubmittedIsRecorded DEF RecordTelemetry
<1>3. CASE SaveRecord
  BY <1>3, SaveKeepsNumbers
<1>4. CASE \/ \E classOf \in [Tasks -> Classes] : Analyze(classOf)
           \/ SaveProposal
           \/ \E cutoff \in -1..now : Tick(cutoff)
           \/ HandlerFails
  <2>1. UNCHANGED <<records, nextId, dTrusted, dUntrusted, crashes>> /\ pc # "down"
    BY <1>4 DEF Analyze, SaveProposal, Tick, HandlerFails, rows, memory
  <2>2. pc' \notin {"down", "record.save"}
    <3>1. CASE SaveProposal
      <4>1. \E p \in todo : pc' = IF todo' = {} THEN "idle" ELSE "analyze.save"
        BY <3>1 DEF SaveProposal
      <4> QED BY <4>1
    <3>2. CASE ~ SaveProposal
      BY <1>4, <3>2 DEF Analyze, Tick, HandlerFails
    <3> QED BY <3>1, <3>2
  <2> QED BY <2>1, <2>2 DEF Numbered, RecordedIn
<1>5. CASE Crash
  <2>1. /\ records' \in Table /\ nextId' \in 1..(MaxRuns + 1) /\ crashes' \in Nat
        /\ crashes' # 0 /\ pc' = "down" /\ UNCHANGED <<dTrusted, dUntrusted>>
    BY <1>5, TelemetryAssumption DEF Crash, Numbered, NoRecords, Table, rows
  <2> QED BY <2>1 DEF Numbered
<1>6. CASE Boot
  <2>1. /\ nextId' = NextIdOf(dTrusted) /\ records' = dTrusted /\ pc = "down" /\ pc' = "idle"
        /\ UNCHANGED <<dTrusted, dUntrusted, crashes>>
    BY <1>6 DEF Boot, rows
  <2>2. nextId' \in 1..(MaxRuns + 1) /\ \A r \in RecordedIn(dTrusted) : r < nextId'
    BY <2>1, NextIdIsFree DEF Numbered
  <2> QED BY <2>1, <2>2 DEF Numbered, RecordedIn
<1>7. CASE UNCHANGED vars
  BY <1>7 DEF vars, Numbered, RecordedIn
<1> QED BY <1>1, <1>2, <1>3, <1>4, <1>5, <1>6, <1>7 DEF Next, AnswerRefused

LEMMA NumberedHolds == Spec => []Numbered
BY InitNumbered, NumberedInductive, PTL DEF Spec

\* Steps other than a save leave both partitions.
LEMMA OnlySavesWrite ==
    ASSUME [Next]_vars, ~ SaveRecord
    PROVE  UNCHANGED <<dTrusted, dUntrusted>>
BY DEF Next, ExecuteTask, RecordTelemetry, RecordExecution, Analyze, SaveProposal,
   AnswerRefused, Tick, HandlerFails, Crash, Boot, rows, vars

\* A stored trusted record is never overwritten, although both partitions share
\* their numbers and a process starts from the trusted ones (TelemetryStore
\* .record_execution and ._load_from_persistence).
THEOREM TrustedIsKept == Spec => TrustedKept
<1>1. ASSUME Numbered, [Next]_vars, NEW r \in RecordedIn(dTrusted)
      PROVE  dTrusted'[r] = dTrusted[r]
  <2>1. CASE SaveRecord
    BY <1>1, <2>1 DEF Numbered, SaveRecord, RecordedIn, Table
  <2>2. CASE ~ SaveRecord
    BY <1>1, <2>2, OnlySavesWrite
  <2> QED BY <2>1, <2>2
<1>2. Numbered /\ [Next]_vars => [\A r \in RecordedIn(dTrusted) : dTrusted'[r] = dTrusted[r]]_vars
  BY <1>1
<1> QED BY <1>2, NumberedHolds, PTL DEF Spec, TrustedKept

\* As long as the process lives, an audit row of the untrusted partition is kept
\* and shares its number with no trusted record, whichever writes fail.
THEOREM UntrustedIsKept == Spec => UntrustedKept
<1> DEFINE Kept ==
        crashes = 0 =>
            /\ \A r \in RecordedIn(dUntrusted) : dUntrusted'[r] = dUntrusted[r]
            /\ RecordedIn(dTrusted') \cap RecordedIn(dUntrusted') = {}
<1>1. ASSUME Numbered, [Next]_vars PROVE Kept
  <2>1. CASE SaveRecord
    <3>1. ASSUME crashes = 0, NEW r \in RecordedIn(dUntrusted)
          PROVE  dUntrusted'[r] = dUntrusted[r]
      BY <2>1, <1>1, <3>1 DEF Numbered, SaveRecord, RecordedIn, Table
    <3>2. Numbered' /\ crashes' = crashes
      BY <1>1, <2>1, NumberedInductive DEF SaveRecord
    <3>3. crashes = 0 => RecordedIn(dTrusted') \cap RecordedIn(dUntrusted') = {}
      BY <3>2 DEF Numbered, RecordedIn
    <3> QED BY <3>1, <3>3
  <2>2. CASE ~ SaveRecord
    BY <1>1, <2>2, OnlySavesWrite DEF Numbered
  <2> QED BY <2>1, <2>2
<1>2. Numbered /\ [Next]_vars => [Kept]_vars
  BY <1>1
<1> QED BY <1>2, NumberedHolds, PTL DEF Spec, UntrustedKept

-----------------------------------------------------------------------------
(* Proposals *)

\* The trusted failures of a task in a table.
FailuresIn(table, task) ==
    {r \in RecordedIn(table) : table[r].task = task /\ table[r].class # None}

\* A proposal rests on what a table has.
Grounded(table, task, proposal) ==
    LET failures == FailuresIn(table, task) IN
    /\ Cardinality(failures) >= MIN_FAILURE_FREQUENCY
    /\ proposal.samples \subseteq failures
    /\ \E r \in failures : table[r].class = proposal.class

\* As long as no write fails, memory is what is stored plus the record on its way,
\* and whatever is proposed, stored or not yet, rests on what is stored.
GroundInv ==
    faults = 0 =>
        /\ \A p \in todo : Grounded(dTrusted, p.task, p)
        /\ \A id \in ProposalId :
                dProposals[id] # None => Grounded(dTrusted, id.task, dProposals[id])
        /\ pc \in {"idle", "analyze.save"} => records = dTrusted
        /\ pc = "record.save" =>
                records = IF req.trusted THEN [dTrusted EXCEPT ![req.run] = req.record]
                          ELSE dTrusted

\* What the groundwork needs of the types.
ProposalsTyped ==
    /\ faults \in Nat
    /\ DOMAIN dProposals = ProposalId /\ dProposals = [id \in ProposalId |-> dProposals[id]]

\* The failures of a task are finitely many.
LEMMA FailuresFinite ==
    ASSUME NEW table, NEW task
    PROVE  IsFiniteSet(FailuresIn(table, task)) /\ FailuresIn(table, task) \subseteq Runs
<1>1. IsFiniteSet(Runs)
  BY FS_Interval, TelemetryAssumption DEF Runs
<1> QED BY <1>1, FS_Subset DEF FailuresIn, RecordedIn

\* Records that are kept go on to ground what they grounded.
LEMMA GroundedStays ==
    ASSUME NEW before, NEW after, NEW task, NEW proposal,
           Grounded(before, task, proposal),
           \A r \in RecordedIn(before) : after[r] = before[r]
    PROVE  Grounded(after, task, proposal)
<1>1. FailuresIn(before, task) \subseteq FailuresIn(after, task)
  BY DEF FailuresIn, RecordedIn
<1>2. /\ Cardinality(FailuresIn(before, task)) <= Cardinality(FailuresIn(after, task))
      /\ Cardinality(FailuresIn(before, task)) \in Nat
      /\ Cardinality(FailuresIn(after, task)) \in Nat
  BY <1>1, FailuresFinite, FS_Subset, FS_CardinalityType
<1>3. Cardinality(FailuresIn(after, task)) >= MIN_FAILURE_FREQUENCY
  BY <1>2, TelemetryAssumption DEF Grounded
<1>4. PICK r \in FailuresIn(before, task) : before[r].class = proposal.class
  BY DEF Grounded
<1>5. after[r] = before[r]
  BY <1>4 DEF FailuresIn
<1> QED BY <1>1, <1>3, <1>4, <1>5 DEF Grounded

\* A set that is counted has members, if the count says so.
LEMMA CountedHasMembers ==
    ASSUME NEW S, IsFiniteSet(S)
    PROVE  /\ Cardinality(S) \in Nat
           /\ Cardinality(S) > 0 <=> S # {}
<1>1. Cardinality(S) \in Nat /\ (Cardinality(S) = 0 <=> S = {})
  BY FS_CardinalityType, FS_EmptySet
<1> QED BY <1>1

\* A pattern's proposal rests on the records it was found in: the class that is
\* most common among its failures is a class of one of them.
LEMMA PatternIsGrounded ==
    ASSUME records \in Table, NEW t \in Patterns, NEW c \in MostCommon(t), NEW proposal,
           proposal.class = c, proposal.samples = SampleInputs(t)
    PROVE  Grounded(records, t, proposal)
<1> DEFINE ofClass(d) == {r \in FailuresOf(t) : records[r].class = d}
<1>1. FailuresOf(t) = FailuresIn(records, t) /\ IsFiniteSet(FailuresOf(t))
  BY FailuresFinite DEF FailuresOf, FailuresIn
<1>2. Cardinality(FailuresOf(t)) >= MIN_FAILURE_FREQUENCY
  BY DEF Patterns
<1>3. Cardinality(FailuresOf(t)) \in Nat /\ Cardinality(FailuresOf(t)) > 0
  BY <1>1, <1>2, CountedHasMembers, TelemetryAssumption
<1>4. PICK r \in FailuresOf(t) : TRUE
  BY <1>1, <1>3, CountedHasMembers
<1>5. records[r].class \in Classes
  BY <1>4 DEF FailuresOf, RecordedIn, Table, Record
<1>6. \A d : IsFiniteSet(ofClass(d)) /\ Cardinality(ofClass(d)) = Frequency(t, d)
  BY <1>1, FS_Subset DEF Frequency
<1>7. Frequency(t, records[r].class) > 0 /\ Frequency(t, records[r].class) \in Nat
  <2>1. ofClass(records[r].class) # {}
    BY <1>4
  <2> HIDE DEF ofClass
  <2> QED BY <2>1, <1>6, CountedHasMembers
<1>8. Frequency(t, records[r].class) <= Frequency(t, c)
  BY <1>5 DEF MostCommon
<1>9. ofClass(c) # {}
  <2> HIDE DEF ofClass
  <2> QED BY <1>6, <1>7, <1>8, CountedHasMembers
<1>10. SampleInputs(t) \subseteq FailuresOf(t)
  BY DEF SampleInputs
<1> QED BY <1>1, <1>2, <1>9, <1>10 DEF Grounded

LEMMA TypedInductive == ProposalsTyped /\ [Next]_vars => ProposalsTyped'
<1> SUFFICES ASSUME ProposalsTyped, [Next]_vars
             PROVE  ProposalsTyped'
  OBVIOUS
<1>1. faults' \in Nat
  BY DEF ProposalsTyped, Next, ExecuteTask, RecordTelemetry, RecordExecution, SaveRecord,
     Analyze, SaveProposal, AnswerRefused, Tick, HandlerFails, Crash, Boot, vars
<1>2. CASE SaveProposal
  <2>1. \E i, v : dProposals' = [dProposals EXCEPT ![i] = v]
    BY <1>2 DEF SaveProposal
  <2> QED BY <1>1, <2>1 DEF ProposalsTyped
<1>3. CASE UNCHANGED dProposals
  BY <1>1, <1>3 DEF ProposalsTyped
<1> QED
  BY <1>2, <1>3 DEF Next, ExecuteTask, RecordTelemetry, RecordExecution, SaveRecord,
     Analyze, AnswerRefused, Tick, HandlerFails, Crash, Boot, rows, vars

\* An analysis proposes what rests on the store, when memory is as stored.
LEMMA AnalyzeGrounds ==
    ASSUME Numbered, GroundInv, NEW classOf \in [Tasks -> Classes], Analyze(classOf)
    PROVE  GroundInv'
<1>1. /\ UNCHANGED <<records, dTrusted, dProposals, faults>>
      /\ pc = "idle" /\ pc' = "analyze.save"
  BY DEF Analyze, rows
<1>2. SUFFICES ASSUME faults = 0 PROVE \A p \in todo' : Grounded(dTrusted, p.task, p)
  BY <1>1 DEF GroundInv, Grounded, FailuresIn, RecordedIn
<1>3. records = dTrusted /\ records \in Table
  BY <1>1, <1>2 DEF GroundInv, Numbered
<1>4. TAKE p \in todo'
<1>5. PICK t \in Proceeding(classOf) :
        p.task = t /\ p.class = classOf[t] /\ p.samples = SampleInputs(t)
  BY <1>4 DEF Analyze
<1>6. t \in Patterns /\ classOf[t] \in MostCommon(t)
  BY <1>5 DEF Analyze, Proceeding
<1> QED BY <1>3, <1>5, <1>6, PatternIsGrounded

\* A proposal is stored as it was made.
LEMMA SaveProposalGrounds ==
    ASSUME ProposalsTyped, GroundInv, SaveProposal
    PROVE  GroundInv'
<1>1. PICK p \in todo :
        /\ dProposals' = [dProposals EXCEPT
                ![[task |-> p.task, target |-> p.target, at |-> now]] =
                    [class |-> p.class, samples |-> p.samples]]
        /\ todo' = todo \ {p}
        /\ pc' = IF todo' = {} THEN "idle" ELSE "analyze.save"
  BY DEF SaveProposal
<1>2. UNCHANGED <<records, dTrusted, faults>> /\ pc = "analyze.save"
  BY DEF SaveProposal, memory
<1>3. SUFFICES ASSUME faults = 0
               PROVE  \A id \in ProposalId :
                        dProposals'[id] # None => Grounded(dTrusted, id.task, dProposals'[id])
  BY <1>1, <1>2 DEF GroundInv, Grounded, FailuresIn, RecordedIn
<1>4. TAKE id \in ProposalId
<1>5. CASE id = [task |-> p.task, target |-> p.target, at |-> now]
  <2>1. dProposals'[id] = [class |-> p.class, samples |-> p.samples] /\ id.task = p.task
    BY <1>1, <1>5 DEF ProposalsTyped
  <2>2. Grounded(dTrusted, p.task, p)
    BY <1>3 DEF GroundInv
  <2> QED BY <2>1, <2>2 DEF Grounded
<1>6. CASE id # [task |-> p.task, target |-> p.target, at |-> now]
  <2>1. dProposals'[id] = dProposals[id]
    BY <1>1, <1>6 DEF ProposalsTyped
  <2> QED BY <2>1, <1>3 DEF GroundInv
<1> QED BY <1>5, <1>6

\* A record that is stored grounds more than before.
LEMMA SaveRecordGrounds ==
    ASSUME Numbered, GroundInv, SaveRecord
    PROVE  GroundInv'
<1>1. /\ UNCHANGED <<records, dProposals, todo, faults>>
      /\ pc = "record.save" /\ pc' = "idle"
      /\ dTrusted' = IF req.trusted THEN [dTrusted EXCEPT ![req.run] = req.record] ELSE dTrusted
  BY DEF SaveRecord, memory
<1>2. \A r \in RecordedIn(dTrusted) : dTrusted'[r] = dTrusted[r]
  BY <1>1 DEF Numbered, RecordedIn, Table
<1>3. \A task, proposal :
        Grounded(dTrusted, task, proposal) => Grounded(dTrusted', task, proposal)
  BY <1>2, GroundedStays
<1>4. ASSUME faults = 0
      PROVE  /\ \A p \in todo : Grounded(dTrusted', p.task, p)
             /\ \A id \in ProposalId :
                    dProposals[id] # None => Grounded(dTrusted', id.task, dProposals[id])
             /\ records = dTrusted'
  BY <1>1, <1>3, <1>4 DEF GroundInv
<1> QED BY <1>1, <1>4 DEF GroundInv, Grounded, FailuresIn, RecordedIn

LEMMA GroundInductive ==
    Numbered /\ ProposalsTyped /\ GroundInv /\ [Next]_vars => GroundInv'
<1> SUFFICES ASSUME Numbered, ProposalsTyped, GroundInv, [Next]_vars
             PROVE  GroundInv'
  OBVIOUS
<1> USE DEF Grounded, FailuresIn, RecordedIn
<1>1. CASE \/ \E task \in Tasks : ExecuteTask(task)
           \/ \E record \in Submissions, source \in Sources, hash \in Hashes :
                    RecordTelemetry(record, source, hash)
  <2>1. PICK record, trusted : pc = "idle" /\ RecordExecution(record, trusted)
    BY <1>1 DEF ExecuteTask, RecordTelemetry
  <2>2. /\ UNCHANGED <<dTrusted, dProposals, todo, faults>> /\ pc' = "record.save"
        /\ req' = [run |-> nextId, record |-> record, trusted |-> trusted]
        /\ records' = IF trusted THEN [records EXCEPT ![nextId] = record] ELSE records
    BY <2>1 DEF RecordExecution, rows
  <2> QED BY <2>1, <2>2 DEF GroundInv
<1>2. CASE SaveRecord
  BY <1>2, SaveRecordGrounds
<1>3. ASSUME NEW classOf \in [Tasks -> Classes], Analyze(classOf) PROVE GroundInv'
  BY <1>3, AnalyzeGrounds
<1>4. CASE SaveProposal
  BY <1>4, SaveProposalGrounds
<1>5. CASE \E cutoff \in -1..now : Tick(cutoff)
  <2>1. UNCHANGED <<records, dTrusted, dProposals, pc, req, todo, faults>>
    BY <1>5 DEF Tick, rows
  <2> QED BY <2>1 DEF GroundInv
<1>6. CASE HandlerFails
  <2>1. faults' # 0
    BY <1>6 DEF HandlerFails, ProposalsTyped
  <2> QED BY <2>1 DEF GroundInv
<1>7. CASE Crash
  BY <1>7 DEF Crash, rows, GroundInv
<1>8. CASE Boot
  BY <1>8 DEF Boot, rows, GroundInv
<1>9. CASE UNCHANGED vars
  BY <1>9 DEF vars, GroundInv
<1> QED BY <1>1, <1>2, <1>3, <1>4, <1>5, <1>6, <1>7, <1>8, <1>9 DEF Next, AnswerRefused

\* What the Steward proposes rests, for good, on failures that a reader of the store
\* finds, as long as no write fails: memory is never ahead of the rows when an
\* analysis starts (detect_failure_patterns and recommend_amendments run on the
\* records in memory, record_execution stores before its handler ends).
THEOREM ProposalsRestOnRecords == Spec => []ProposalsAreGrounded
<1>1. Init => ProposalsTyped /\ GroundInv
  BY DEF Init, ProposalsTyped, GroundInv
<1>2. GroundInv => ProposalsAreGrounded
  BY DEF GroundInv, ProposalsAreGrounded, Grounded, FailuresIn
<1> QED
  BY <1>1, <1>2, NumberedHolds, TypedInductive, GroundInductive, PTL DEF Spec

-----------------------------------------------------------------------------
(* The rate limit *)

\* The second of the last proposal for a class is its stamp, unless the stamp has
\* left the window since, which takes a later second.
StampInv ==
    /\ now \in Nat /\ crashes \in Nat
    /\ stamps \in [Classes -> Nat \cup {None}]
    /\ \A p \in todo : p.class \in Classes
    /\ \A id \in ProposalId : dProposals[id] # None => dProposals[id].class \in Classes
    /\ crashes = 0 =>
        /\ pc \in {"idle", "record.save", "analyze.save"}
        /\ pc # "analyze.save" => todo = {}
        /\ \A id \in ProposalId :
                dProposals[id] # None =>
                    LET stamp == stamps[dProposals[id].class] IN
                    /\ id.at <= now
                    /\ id.at = now => stamp = now
                    /\ stamp # None => id.at <= stamp

\* What was proposed for a class in the second of its stamp, stored or not yet, is
\* for one task.
TaskInv ==
    crashes = 0 =>
        /\ \A p \in todo : stamps[p.class] = now
        /\ \A p, q \in todo : p.class = q.class => p.task = q.task
        /\ \A p \in todo : \A id \in ProposalId :
                /\ dProposals[id] # None
                /\ dProposals[id].class = p.class /\ id.at = now
                => id.task = p.task
        /\ \A i, j \in ProposalId :
                /\ dProposals[i] # None /\ dProposals[j] # None
                /\ dProposals[i].class = dProposals[j].class
                /\ i.at = stamps[dProposals[i].class] /\ j.at = i.at
                => i.task = j.task

WindowInv == StampInv /\ TaskInv

\* No two tasks have the same first failure.
LEMMA FirstFailureIsOwn ==
    ASSUME NEW t \in Patterns
    PROVE  FirstFailure(t) \in FailuresOf(t) /\ FirstFailure(t) \in Nat
<1>1. IsFiniteSet(FailuresOf(t)) /\ FailuresOf(t) \subseteq Runs
  BY FailuresFinite DEF FailuresOf, FailuresIn
<1>2. Cardinality(FailuresOf(t)) \in Nat /\ Cardinality(FailuresOf(t)) > 0
  BY <1>1, CountedHasMembers, TelemetryAssumption DEF Patterns
<1>3. FailuresOf(t) # {} /\ FailuresOf(t) \subseteq Nat
  BY <1>1, <1>2, CountedHasMembers DEF Runs
<1>4. \E r \in FailuresOf(t) : \A s \in FailuresOf(t) : r <= s
  BY <1>3, LeastExists
<1> QED BY <1>3, <1>4 DEF FirstFailure

\* One analysis lets one pattern of a class through.
LEMMA OnePatternProceeds ==
    ASSUME NEW classOf, NEW t \in Proceeding(classOf), NEW u \in Proceeding(classOf),
           classOf[t] = classOf[u]
    PROVE  t = u
<1>1. t \in Patterns /\ u \in Patterns
  BY DEF Proceeding
<1>2. FirstFailure(t) <= FirstFailure(u) /\ FirstFailure(u) <= FirstFailure(t)
  BY <1>1 DEF Proceeding
<1>3. FirstFailure(t) = FirstFailure(u)
  BY <1>1, <1>2, FirstFailureIsOwn
<1> QED BY <1>1, <1>3, FirstFailureIsOwn DEF FailuresOf

\* A class that an analysis stamps has no proposal of this second.
LEMMA AnalyzeKeepsWindow ==
    ASSUME WindowInv, NEW classOf \in [Tasks -> Classes], Analyze(classOf)
    PROVE  WindowInv'
<1>1. /\ UNCHANGED <<dProposals, now, crashes>> /\ pc = "idle" /\ pc' = "analyze.save"
      /\ stamps' = [c \in Classes |->
            IF \E t \in Proceeding(classOf) : classOf[t] = c THEN now ELSE stamps[c]]
  BY DEF Analyze, rows
<1>2. \A p \in todo' : \E t \in Proceeding(classOf) : p.task = t /\ p.class = classOf[t]
  BY DEF Analyze
<1>3. \A t \in Proceeding(classOf) :
        t \in Tasks /\ classOf[t] \in Classes /\ stamps[classOf[t]] = None
  BY DEF Proceeding, Patterns
<1>4. /\ \A t \in Proceeding(classOf) : stamps'[classOf[t]] = now
      /\ \A c \in Classes : stamps'[c] # stamps[c] => stamps[c] = None /\ stamps'[c] = now
  BY <1>1, <1>3
<1>5. now \in Nat /\ now # None
  BY TelemetryAssumption DEF WindowInv, StampInv
<1>6. stamps' \in [Classes -> Nat \cup {None}]
  BY <1>1, <1>5 DEF WindowInv, StampInv
<1>7. StampInv'
  BY <1>1, <1>2, <1>3, <1>4, <1>5, <1>6 DEF WindowInv, StampInv
<1>8. TaskInv'
  <2> SUFFICES ASSUME crashes = 0
               PROVE  TaskInv'
    BY <1>1 DEF TaskInv
  <2>1. \A p \in todo' : stamps'[p.class] = now
    BY <1>2, <1>4
  <2>2. \A p, q \in todo' : p.class = q.class => p.task = q.task
    BY <1>2, OnePatternProceeds
  <2>3. \A p \in todo' : \A id \in ProposalId :
            ~ (dProposals[id] # None /\ dProposals[id].class = p.class /\ id.at = now)
    BY <1>2, <1>3, <1>5 DEF WindowInv, StampInv
  <2>4. ASSUME NEW i \in ProposalId, NEW j \in ProposalId,
               dProposals[i] # None, dProposals[j] # None,
               dProposals[i].class = dProposals[j].class,
               i.at = stamps'[dProposals[i].class], j.at = i.at
        PROVE  i.task = j.task
    <3>1. dProposals[i].class \in Classes
      BY <2>4 DEF WindowInv, StampInv
    <3>2. stamps'[dProposals[i].class] = stamps[dProposals[i].class]
      BY <1>4, <1>5, <2>4, <3>1 DEF WindowInv, StampInv
    <3> QED BY <2>4, <3>2 DEF WindowInv, TaskInv
  <2> QED BY <1>1, <2>1, <2>2, <2>3, <2>4 DEF TaskInv
<1> QED BY <1>7, <1>8 DEF WindowInv

\* What is stored was proposed in this second, under this stamp.
LEMMA SaveKeepsWindow ==
    ASSUME ProposalsTyped, WindowInv, SaveProposal
    PROVE  WindowInv'
<1>1. PICK p \in todo :
        /\ dProposals' = [dProposals EXCEPT
                ![[task |-> p.task, target |-> p.target, at |-> now]] =
                    [class |-> p.class, samples |-> p.samples]]
        /\ todo' = todo \ {p}
        /\ pc' = IF todo' = {} THEN "idle" ELSE "analyze.save"
  BY DEF SaveProposal
<1>2. UNCHANGED <<stamps, now, crashes>> /\ pc = "analyze.save"
  BY DEF SaveProposal, memory
<1>3. \A id \in ProposalId :
        \/ dProposals'[id] = dProposals[id]
        \/ dProposals'[id].class = p.class /\ id.at = now /\ id.task = p.task
  BY <1>1 DEF ProposalsTyped
<1>4. p.class \in Classes /\ now \in Nat
  BY DEF WindowInv, StampInv
<1>5. crashes = 0 => stamps[p.class] = now
  BY DEF WindowInv, TaskInv
<1>6. StampInv'
  BY <1>1, <1>2, <1>3, <1>4, <1>5 DEF WindowInv, StampInv
<1>7. TaskInv'
  <2> SUFFICES ASSUME crashes = 0
               PROVE  TaskInv'
    BY <1>2 DEF TaskInv
  <2>1. \A q \in todo' : stamps[q.class] = now /\ (q.class = p.class => q.task = p.task)
    BY <1>1 DEF WindowInv, TaskInv
  <2>2. \A q, r \in todo' : q.class = r.class => q.task = r.task
    BY <1>1 DEF WindowInv, TaskInv
  <2>3. ASSUME NEW q \in todo', NEW id \in ProposalId,
               dProposals'[id] # None, dProposals'[id].class = q.class, id.at = now
        PROVE  id.task = q.task
    BY <1>1, <1>3, <2>1, <2>3 DEF WindowInv, TaskInv
  <2>4. ASSUME NEW i \in ProposalId, NEW j \in ProposalId,
               dProposals'[i] # None, dProposals'[j] # None,
               dProposals'[i].class = dProposals'[j].class,
               i.at = stamps[dProposals'[i].class], j.at = i.at
        PROVE  i.task = j.task
    BY <1>3, <1>5, <2>4 DEF WindowInv, TaskInv
  <2> QED BY <1>2, <2>1, <2>2, <2>3, <2>4 DEF TaskInv
<1> QED BY <1>6, <1>7 DEF WindowInv

\* Time passes when nothing is on its way, and only takes stamps away.
LEMMA TickKeepsWindow ==
    ASSUME WindowInv, NEW cutoff, Tick(cutoff)
    PROVE  WindowInv'
<1>1. /\ UNCHANGED <<dProposals, crashes, todo, pc>> /\ pc = "idle" /\ now' = now + 1
  BY DEF Tick, rows
<1>2. stamps' \in [Classes -> Nat \cup {None}]
  BY DEF Tick, WindowInv, StampInv
<1>3. \A c \in Classes : stamps'[c] # None => stamps'[c] = stamps[c]
  BY DEF Tick
<1>4. now \in Nat /\ now + 1 \in Nat /\ None \notin Nat
  BY TelemetryAssumption DEF WindowInv, StampInv
<1>5. \A id \in ProposalId : id.at \in Nat
  BY TelemetryAssumption DEF ProposalId
<1>6. StampInv'
  BY <1>1, <1>2, <1>3, <1>4, <1>5 DEF WindowInv, StampInv
<1>7. TaskInv'
  <2> SUFFICES ASSUME crashes = 0
               PROVE  TaskInv'
    BY <1>1 DEF TaskInv
  <2>1. todo' = {}
    BY <1>1 DEF WindowInv, StampInv
  <2>2. ASSUME NEW i \in ProposalId, NEW j \in ProposalId,
               dProposals[i] # None, dProposals[j] # None,
               dProposals[i].class = dProposals[j].class,
               i.at = stamps'[dProposals[i].class], j.at = i.at
        PROVE  i.task = j.task
    <3>1. dProposals[i].class \in Classes
      BY <2>2 DEF WindowInv, StampInv
    <3>2. stamps'[dProposals[i].class] # None
      BY <1>4, <1>5, <2>2
    <3> QED BY <1>3, <2>2, <3>1, <3>2 DEF WindowInv, TaskInv
  <2> QED BY <1>1, <2>1, <2>2 DEF TaskInv
<1> QED BY <1>6, <1>7 DEF WindowInv

LEMMA WindowInductive == ProposalsTyped /\ WindowInv /\ [Next]_vars => WindowInv'
<1> SUFFICES ASSUME ProposalsTyped, WindowInv, [Next]_vars
             PROVE  WindowInv'
  OBVIOUS
<1>1. CASE \/ \E task \in Tasks : ExecuteTask(task)
           \/ \E record \in Submissions, source \in Sources, hash \in Hashes :
                    RecordTelemetry(record, source, hash)
  <2>1. UNCHANGED <<dProposals, stamps, now, crashes, todo>> /\ pc = "idle" /\ pc' = "record.save"
    BY <1>1 DEF ExecuteTask, RecordTelemetry, RecordExecution, rows
  <2> QED BY <2>1 DEF WindowInv, StampInv, TaskInv
<1>2. CASE SaveRecord
  <2>1. UNCHANGED <<dProposals, stamps, now, crashes, todo>>
        /\ pc = "record.save" /\ pc' = "idle"
    BY <1>2 DEF SaveRecord, memory
  <2> QED BY <2>1 DEF WindowInv, StampInv, TaskInv
<1>3. ASSUME NEW classOf \in [Tasks -> Classes], Analyze(classOf) PROVE WindowInv'
  BY <1>3, AnalyzeKeepsWindow
<1>4. CASE SaveProposal
  BY <1>4, SaveKeepsWindow
<1>5. ASSUME NEW cutoff, Tick(cutoff) PROVE WindowInv'
  BY <1>5, TickKeepsWindow
<1>6. CASE HandlerFails
  <2>1. UNCHANGED <<dProposals, stamps, now, crashes>> /\ pc' = "idle" /\ todo' = {}
    BY <1>6 DEF HandlerFails, memory, rows
  <2> QED BY <2>1 DEF WindowInv, StampInv, TaskInv
<1>7. CASE Crash \/ Boot
  <2>1. UNCHANGED <<dProposals, now>> /\ todo' \subseteq todo
    BY <1>7 DEF Crash, Boot, rows
  <2>2. stamps' \in [Classes -> Nat \cup {None}]
    BY <1>7 DEF Crash, Boot, NoStamps, WindowInv, StampInv
  <2>3. crashes' \in Nat /\ crashes' # 0
    BY <1>7 DEF Crash, Boot, WindowInv, StampInv
  <2> QED BY <2>1, <2>2, <2>3 DEF WindowInv, StampInv, TaskInv
<1>8. CASE UNCHANGED vars
  BY <1>8 DEF vars, WindowInv, StampInv, TaskInv
<1> QED BY <1>1, <1>2, <1>3, <1>4, <1>5, <1>6, <1>7, <1>8 DEF Next, AnswerRefused

\* As long as the process lives, a failure class is proposed for once in a window,
\* for any number of tasks, classes and seconds (Steward.recommend_amendments
\* reads and writes the stamp of a class in one loop, before anything is saved).
THEOREM ClassesAreLimited == Spec => []OneProposalPerWindow
<1>1. Init => ProposalsTyped /\ WindowInv
  BY TelemetryAssumption
     DEF Init, ProposalsTyped, NoStamps, WindowInv, StampInv, TaskInv
<1>2. WindowInv => OneProposalPerWindow
  <2> SUFFICES ASSUME WindowInv, crashes = 0,
                      NEW p \in {id \in ProposalId : dProposals[id] # None},
                      NEW q \in {id \in ProposalId : dProposals[id] # None},
                      dProposals[q].class = dProposals[p].class,
                      stamps[dProposals[p].class] # None,
                      p.at >= stamps[dProposals[p].class],
                      q.at >= stamps[dProposals[p].class]
               PROVE  p.task = q.task /\ p.at = q.at
    BY DEF OneProposalPerWindow
  <2>1. stamps[dProposals[p].class] \in Nat /\ p.at \in Nat /\ q.at \in Nat
    BY TelemetryAssumption DEF WindowInv, StampInv, ProposalId
  <2>2. p.at = stamps[dProposals[p].class] /\ q.at = stamps[dProposals[p].class]
    BY <2>1 DEF WindowInv, StampInv
  <2> QED BY <2>2 DEF WindowInv, TaskInv
<1> QED
  BY <1>1, <1>2, TypedInductive, WindowInductive, PTL DEF Spec

-----------------------------------------------------------------------------
(* Types *)

\* Proposals on their way have as many cases as those that are stored.
TypeInv ==
    /\ TypeOK
    /\ \A p \in todo : Cardinality(p.samples) \in 1..Samples

LEMMA OneMore ==
    ASSUME NEW S, IsFiniteSet(S), NEW x
    PROVE  /\ IsFiniteSet(S \cup {x})
           /\ Cardinality(S \cup {x}) <= Cardinality(S) + 1
           /\ Cardinality(S \cup {x}) \in Nat
<1>1. IsFiniteSet(S \cup {x}) /\ Cardinality(S) \in Nat
  BY FS_AddElement, FS_CardinalityType
<1>2. Cardinality(S \cup {x}) \in Nat
  BY <1>1, FS_CardinalityType
<1>3. Cardinality(S \cup {x}) = Cardinality(S) \/ Cardinality(S \cup {x}) = Cardinality(S) + 1
  BY FS_AddElement
<1> QED BY <1>1, <1>2, <1>3

\* The cases of a pattern are some, and no more than are sampled: up to the last of
\* them there are fewer failures than that before it.
LEMMA SamplesAreFew ==
    ASSUME NEW t \in Patterns
    PROVE  SampleInputs(t) \subseteq Runs /\ Cardinality(SampleInputs(t)) \in 1..Samples
<1> DEFINE F == FailuresOf(t)
           T == SampleInputs(t)
           before(r) == {s \in F : s < r}
<1>1. IsFiniteSet(F) /\ F \subseteq Runs /\ F # {}
  BY FailuresFinite, FirstFailureIsOwn DEF FailuresOf, FailuresIn
<1>2. T \subseteq F /\ \A r \in T : Cardinality(before(r)) < Samples
  BY DEF SampleInputs
<1>3. PICK first \in F : \A s \in F : first <= s
  BY <1>1, LeastExists DEF Runs
<1>4. first \in T
  <2>1. before(first) = {}
    BY <1>1, <1>3 DEF Runs
  <2>2. Cardinality(before(first)) < Samples
    BY <2>1, FS_EmptySet, TelemetryAssumption
  <2> QED BY <2>2, <1>3 DEF SampleInputs
<1> HIDE DEF T
<1>5. IsFiniteSet(T) /\ T \subseteq 1..MaxRuns
  BY <1>1, <1>2, FS_Subset DEF Runs
<1>6. PICK n \in 1..(MaxRuns + 1) : (\A r \in T : r < n) /\ (n = 1 \/ n - 1 \in T)
  BY <1>5, NextAfterExists, TelemetryAssumption
<1>7. n - 1 \in T
  BY <1>4, <1>5, <1>6
<1>8. T \subseteq before(n - 1) \cup {n - 1}
  BY <1>2, <1>5, <1>6, <1>7
<1>9. /\ IsFiniteSet(before(n - 1)) /\ Cardinality(before(n - 1)) \in Nat
      /\ Cardinality(before(n - 1)) < Samples
  BY <1>1, <1>2, <1>7, FS_Subset, FS_CardinalityType
<1> HIDE DEF before
<1>10. /\ IsFiniteSet(before(n - 1) \cup {n - 1})
       /\ Cardinality(before(n - 1) \cup {n - 1}) <= Cardinality(before(n - 1)) + 1
       /\ Cardinality(before(n - 1) \cup {n - 1}) \in Nat
  BY <1>9, OneMore
<1>11. Cardinality(T) <= Cardinality(before(n - 1) \cup {n - 1})
  BY <1>8, <1>10, FS_Subset
<1>12. Cardinality(T) \in Nat /\ Cardinality(T) > 0
  BY <1>4, <1>5, CountedHasMembers
<1>13. Cardinality(T) \in 1..Samples
  BY <1>9, <1>10, <1>11, <1>12, TelemetryAssumption
<1> QED BY <1>1, <1>2, <1>13 DEF T

LEMMA InitTypeInv == Init => TypeInv
<1> SUFFICES ASSUME Init PROVE TypeInv
  OBVIOUS
<1>1. {records, dTrusted, dUntrusted} \subseteq [Runs -> Record \cup {None}]
  BY DEF Init, NoRecords
<1>2. dProposals \in [ProposalId -> Proposal \cup {None}] /\ \A id \in ProposalId : dProposals[id] = None
  BY DEF Init
<1> QED
  BY <1>1, <1>2, TelemetryAssumption DEF Init, TypeInv, TypeOK, NoStamps, Request, NoRequest

LEMMA RecordKeepsTypes ==
    ASSUME TypeInv, NEW record \in Record, NEW trusted \in BOOLEAN,
           pc = "idle", RecordExecution(record, trusted)
    PROVE  TypeInv'
<1>1. /\ nextId \in Runs /\ nextId' = nextId + 1 /\ pc' = "record.save"
      /\ req' = [run |-> nextId, record |-> record, trusted |-> trusted]
      /\ UNCHANGED <<stamps, dTrusted, dUntrusted, dProposals, now, todo, crashes, faults>>
  BY DEF RecordExecution, rows
<1>2. records' \in [Runs -> Record \cup {None}]
  BY <1>1 DEF RecordExecution, TypeInv, TypeOK
<1>3. nextId' \in 1..(MaxRuns + 1) /\ req' # NoRequest /\ req' \in Request
  BY <1>1, TelemetryAssumption DEF Runs, NoRequest, Request
<1> QED BY <1>1, <1>2, <1>3 DEF TypeInv, TypeOK

LEMMA AnalyzeKeepsTypes ==
    ASSUME TypeInv, NEW classOf \in [Tasks -> Classes], Analyze(classOf)
    PROVE  TypeInv'
<1>1. /\ UNCHANGED <<records, nextId, dTrusted, dUntrusted, dProposals, now, req, crashes, faults>>
      /\ pc = "idle" /\ pc' = "analyze.save"
      /\ stamps' = [c \in Classes |->
            IF \E t \in Proceeding(classOf) : classOf[t] = c THEN now ELSE stamps[c]]
      /\ todo' = {[task |-> t, target |-> target, class |-> classOf[t],
                   samples |-> SampleInputs(t)] : t \in Proceeding(classOf), target \in Targets}
      /\ Proceeding(classOf) # {}
  BY DEF Analyze, rows
<1>2. stamps' \in [Classes -> 0..MaxNow \cup {None}]
  BY <1>1 DEF TypeInv, TypeOK
<1>3. \A t \in Proceeding(classOf) : t \in Patterns /\ t \in Tasks /\ classOf[t] \in Classes
  BY DEF Proceeding, Patterns
<1>4. todo' # {}
  <2>1. PICK t \in Proceeding(classOf) : TRUE
    BY <1>1
  <2>2. [task |-> t, target |-> "prompt", class |-> classOf[t], samples |-> SampleInputs(t)] \in todo'
    BY <1>1, <2>1 DEF Targets
  <2> QED BY <2>2
<1>5. ASSUME NEW p \in todo'
      PROVE  p \in Proposed /\ Cardinality(p.samples) \in 1..Samples
  <2>1. PICK t \in Proceeding(classOf), target \in Targets :
            p = [task |-> t, target |-> target, class |-> classOf[t], samples |-> SampleInputs(t)]
    BY <1>1, <1>5
  <2> QED BY <2>1, <1>3, SamplesAreFew DEF Proposed
<1> QED BY <1>1, <1>2, <1>4, <1>5 DEF TypeInv, TypeOK

LEMMA SaveProposalKeepsTypes ==
    ASSUME TypeInv, SaveProposal
    PROVE  TypeInv'
<1>1. PICK p \in todo :
        /\ dProposals' = [dProposals EXCEPT
                ![[task |-> p.task, target |-> p.target, at |-> now]] =
                    [class |-> p.class, samples |-> p.samples]]
        /\ todo' = todo \ {p}
        /\ pc' = IF todo' = {} THEN "idle" ELSE "analyze.save"
  BY DEF SaveProposal
<1>2. UNCHANGED <<records, nextId, stamps, dTrusted, dUntrusted, now, req, crashes, faults>>
      /\ pc = "analyze.save"
  BY DEF SaveProposal, memory
<1>3. [class |-> p.class, samples |-> p.samples] \in Proposal
      /\ Cardinality(p.samples) \in 1..Samples
  BY DEF TypeInv, TypeOK, Proposed, Proposal
<1>4. dProposals' \in [ProposalId -> Proposal \cup {None}]
  BY <1>1, <1>3 DEF TypeInv, TypeOK
<1>5. \A id \in ProposalId :
        dProposals'[id] # None => Cardinality(dProposals'[id].samples) \in 1..Samples
  BY <1>1, <1>3 DEF TypeInv, TypeOK
<1> QED BY <1>1, <1>2, <1>4, <1>5 DEF TypeInv, TypeOK

LEMMA TypeInvInductive == TypeInv /\ [Next]_vars => TypeInv'
<1> SUFFICES ASSUME TypeInv, [Next]_vars
             PROVE  TypeInv'
  OBVIOUS
<1>1. ASSUME NEW task \in Tasks, ExecuteTask(task) PROVE TypeInv'
  BY <1>1, RecordKeepsTypes, SubmittedIsRecorded DEF ExecuteTask
<1>2. ASSUME NEW record \in Submissions, NEW source \in Sources, NEW hash \in Hashes,
             RecordTelemetry(record, source, hash)
      PROVE  TypeInv'
  BY <1>2, RecordKeepsTypes, SubmittedIsRecorded DEF RecordTelemetry
<1>3. CASE SaveRecord
  <2>1. /\ UNCHANGED <<records, nextId, stamps, dProposals, now, todo, crashes, faults>>
        /\ pc = "record.save" /\ pc' = "idle" /\ req' = NoRequest
    BY <1>3 DEF SaveRecord, memory
  <2>2. req.record \in Record
    BY <2>1 DEF TypeInv, TypeOK, Request
  <2>3. {dTrusted', dUntrusted'} \subseteq [Runs -> Record \cup {None}]
    BY <1>3, <2>2 DEF SaveRecord, TypeInv, TypeOK
  <2> QED BY <2>1, <2>3 DEF TypeInv, TypeOK, Request
<1>4. ASSUME NEW classOf \in [Tasks -> Classes], Analyze(classOf) PROVE TypeInv'
  BY <1>4, AnalyzeKeepsTypes
<1>5. CASE SaveProposal
  BY <1>5, SaveProposalKeepsTypes
<1>6. ASSUME NEW cutoff, Tick(cutoff) PROVE TypeInv'
  <2>1. now' \in 0..MaxNow
    BY <1>6, TelemetryAssumption DEF Tick, TypeInv, TypeOK
  <2>2. stamps' \in [Classes -> 0..MaxNow \cup {None}]
    BY <1>6 DEF Tick, TypeInv, TypeOK
  <2> QED BY <1>6, <2>1, <2>2 DEF Tick, rows, TypeInv, TypeOK
<1>7. CASE HandlerFails
  <2>1. faults' \in 0..MaxFaults
    BY <1>7, TelemetryAssumption DEF HandlerFails, TypeInv, TypeOK
  <2> QED BY <1>7, <2>1 DEF HandlerFails, memory, rows, TypeInv, TypeOK, Request
<1>8. CASE Crash
  <2>1. crashes' \in 0..MaxCrashes /\ nextId' \in 1..(MaxRuns + 1)
    BY <1>8, TelemetryAssumption DEF Crash, TypeInv, TypeOK
  <2>2. records' \in [Runs -> Record \cup {None}] /\ stamps' \in [Classes -> 0..MaxNow \cup {None}]
    BY <1>8 DEF Crash, NoRecords, NoStamps
  <2> QED BY <1>8, <2>1, <2>2 DEF Crash, rows, TypeInv, TypeOK, Request
<1>9. CASE Boot
  <2>1. dTrusted \in Table
    BY DEF TypeInv, TypeOK, Table
  <2>2. nextId' \in 1..(MaxRuns + 1)
    BY <1>9, <2>1, NextIdIsFree DEF Boot
  <2> QED BY <1>9, <2>1, <2>2 DEF Boot, rows, TypeInv, TypeOK, Table
<1>10. CASE UNCHANGED vars
  BY <1>10 DEF vars, TypeInv, TypeOK
<1> QED
  BY <1>1, <1>2, <1>3, <1>4, <1>5, <1>6, <1>7, <1>8, <1>9, <1>10 DEF Next, AnswerRefused

\* Memory, rows and control keep their types, and no proposal has more cases than
\* are sampled of its pattern, for any numbers of runs, seconds and failures
\* (Steward._build_regression_cases over sample_inputs).
THEOREM TelemetryTyped == Spec => []TypeOK
<1>1. TypeInv => TypeOK
  BY DEF TypeInv
<1> QED BY <1>1, InitTypeInv, TypeInvInductive, PTL DEF Spec
=============================================================================
