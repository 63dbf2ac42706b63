----------------------------- MODULE StartupProofs -----------------------------
(***************************************************************************)
(* Theorems about Startup and governed memory, for every value of the      *)
(* constants.                                                              *)
(***************************************************************************)
EXTENDS Startup, NextNumberProofs, TLAPS

\* The process has loaded its lessons and its rules.
Loaded == pc \in {"boot.bootstrap", "boot.runtime", "boot.current", "idle", "save"}

LessonRow == Lesson \cup {Misshapen, Unparseable, None}

\* What governed memory and its rows are, and how they keep together: no row that
\* can be read is ahead of memory, and all numbers in use are below the next one.
MemoryInv ==
    /\ lessons \in [Ids -> Lesson \cup {None}]
    /\ nextId \in 1..(MaxLessons + 1)
    /\ dLessons \in [Ids -> LessonRow]
    /\ saving \in Ids \cup {None}
    /\ pc = "save" => saving # None /\ lessons[saving] # None
    /\ Loaded =>
        \A id \in Ids :
            /\ lessons[id] # None => id < nextId
            /\ ReadableRows[id] # None =>
                    lessons[id] # None /\ IsOrWas(lessons[id], ReadableRows[id])

-----------------------------------------------------------------------------
(* Lemmas about the operators *)

\* The next number is above all numbers of a table.
LEMMA NextIdIsFree ==
    ASSUME NEW table \in [Ids -> Lesson \cup {None}]
    PROVE  /\ NextIdAfter(table) \in 1..(MaxLessons + 1)
           /\ \A id \in Ids : table[id] # None => id < NextIdAfter(table)
<1>1. LessonsIn(table) \subseteq 1..MaxLessons
  BY DEF LessonsIn, Ids
<1>2. \E n \in 1..(MaxLessons + 1) :
        /\ \A id \in LessonsIn(table) : id < n
        /\ n = 1 \/ n - 1 \in LessonsIn(table)
  BY <1>1, NextAfterExists, MaxLessonsAssumption
<1>3. /\ NextIdAfter(table) \in 1..(MaxLessons + 1)
      /\ \A id \in LessonsIn(table) : id < NextIdAfter(table)
  BY <1>2 DEF NextIdAfter
<1> QED BY <1>3 DEF LessonsIn

\* A row that can be read is a lesson.
LEMMA ReadableIsLesson ==
    ASSUME dLessons \in [Ids -> LessonRow]
    PROVE  /\ ReadableRows \in [Ids -> Lesson \cup {None}]
           /\ \A id \in Ids : ReadableRows[id] # None => ReadableRows[id] = dLessons[id]
BY DEF ReadableRows, IsLesson, LessonRow

\* Nothing is ahead of itself, and a lesson that moves on stays ahead.
LEMMA IsOrWasItself ==
    ASSUME NEW l \in Lesson PROVE IsOrWas(l, l)
BY DEF IsOrWas, Lesson, Status, Ledger!Stage

LEMMA IsOrWasMovesOn ==
    ASSUME NEW l \in Lesson, NEW row \in Lesson, IsOrWas(l, row),
           NEW to \in Status, Ledger!Stage[l.status] <= Ledger!Stage[to]
    PROVE  IsOrWas([l EXCEPT !.status = to], row)
BY DEF IsOrWas, Lesson, Status, Ledger!Stage

-----------------------------------------------------------------------------
(* Governed memory *)

\* Steps that leave governed memory as it is: most of a boot.
LEMMA MemoryInvUntouched ==
    ASSUME MemoryInv, UNCHANGED lessonVars,
           Loaded' => Loaded, pc' # "save"
    PROVE  MemoryInv'
BY DEF MemoryInv, lessonVars, ReadableRows, IsLesson

\* A process that ends forgets its lessons.
LEMMA MemoryInvAtEnd ==
    ASSUME MemoryInv, LessonsAreLost, pc' = "down"
    PROVE  MemoryInv'
BY MaxLessonsAssumption DEF MemoryInv, LessonsAreLost, NoLessons, Loaded

\* Memory that changes one lesson, to one that follows its row, and saves it next.
LEMMA MemoryInvRequest ==
    ASSUME MemoryInv, NEW id \in Ids, NEW l \in Lesson, pc = "idle",
           lessons' = [lessons EXCEPT ![id] = l],
           nextId' \in 1..(MaxLessons + 1), nextId <= nextId', id < nextId',
           ReadableRows[id] # None => IsOrWas(l, ReadableRows[id]),
           GoesOnToSave(id)
    PROVE  MemoryInv'
<1>1. l # None
  BY RowsAssumption
<1>2. ReadableRows' = ReadableRows /\ dLessons' = dLessons /\ saving' = id
  BY DEF GoesOnToSave, ReadableRows, IsLesson
<1>3. lessons' \in [Ids -> Lesson \cup {None}] /\ lessons'[saving'] # None
  BY <1>1, <1>2 DEF MemoryInv
<1>4. ASSUME NEW i \in Ids
      PROVE  /\ lessons'[i] # None => i < nextId'
             /\ ReadableRows[i] # None =>
                    lessons'[i] # None /\ IsOrWas(lessons'[i], ReadableRows[i])
  <2>1. CASE i = id
    BY <1>1, <2>1 DEF MemoryInv
  <2>2. CASE i # id
    <3>1. lessons'[i] = lessons[i]
      BY <2>2 DEF MemoryInv
    <3>2. i \in Nat /\ nextId \in Nat /\ nextId' \in Nat
      BY MaxLessonsAssumption DEF MemoryInv, Ids
    <3> QED BY <3>1, <3>2 DEF MemoryInv, Loaded
  <2> QED BY <2>1, <2>2
<1>5. dLessons' \in [Ids -> LessonRow] /\ saving' \in Ids \cup {None} /\ saving' # None
  BY <1>2, RowsAssumption DEF MemoryInv
<1>6. \A i \in Ids :
        /\ lessons'[i] # None => i < nextId'
        /\ ReadableRows'[i] # None =>
                lessons'[i] # None /\ IsOrWas(lessons'[i], ReadableRows'[i])
  BY <1>2, <1>4
<1> QED BY <1>3, <1>5, <1>6 DEF MemoryInv

\* A lesson moves on from one stage to another.
LEMMA MemoryInvMoves ==
    ASSUME MemoryInv, NEW id \in Ids, NEW from, NEW to \in Status, Moves(id, from, to),
           \A s \in Status : s \in from => Ledger!Stage[s] <= Ledger!Stage[to]
    PROVE  MemoryInv'
<1> DEFINE l == [lessons[id] EXCEPT !.status = to]
<1>1. lessons[id] \in Lesson /\ lessons[id].status \in from /\ pc = "idle"
  BY DEF Moves, GoesOnToSave, MemoryInv
<1>2. l \in Lesson
  BY <1>1 DEF Lesson
<1>3. lessons' = [lessons EXCEPT ![id] = l] /\ nextId' = nextId /\ GoesOnToSave(id)
  BY DEF Moves
<1>4. ReadableRows[id] # None => ReadableRows[id] \in Lesson
  BY ReadableIsLesson DEF MemoryInv
<1>5. Ledger!Stage[lessons[id].status] <= Ledger!Stage[to]
  BY <1>1 DEF Lesson
<1>6. ReadableRows[id] # None => IsOrWas(l, ReadableRows[id])
  BY <1>1, <1>4, <1>5, IsOrWasMovesOn DEF MemoryInv, Loaded
<1>7. nextId' \in 1..(MaxLessons + 1) /\ nextId <= nextId' /\ id < nextId'
  BY <1>1, <1>3, MaxLessonsAssumption DEF Moves, MemoryInv, Loaded
<1> HIDE DEF l
<1> QED BY <1>1, <1>2, <1>3, <1>6, <1>7, MemoryInvRequest

\* What others do to the rows of lessons never makes one of them readable.
LEMMA MemoryInvHarm ==
    ASSUME MemoryInv, UNCHANGED <<lessons, nextId, saving, pc>>,
           dLessons' \in [Ids -> LessonRow],
           \A id \in Ids : dLessons'[id] = dLessons[id] \/ ~ IsLesson(dLessons'[id])
    PROVE  MemoryInv'
<1>1. \A id \in Ids : ReadableRows'[id] # None => ReadableRows'[id] = ReadableRows[id]
  BY DEF ReadableRows, IsLesson
<1> QED BY <1>1 DEF MemoryInv, Loaded

\* A save makes the row of a lesson what memory has.
LEMMA MemoryInvSave ==
    ASSUME MemoryInv, SaveLesson
    PROVE  MemoryInv'
<1> DEFINE l == lessons[saving]
<1>1. saving \in Ids /\ l \in Lesson
  BY DEF MemoryInv, SaveLesson
<1>2. dLessons' = [dLessons EXCEPT ![saving] = l]
  BY DEF SaveLesson
<1>3. \A i \in Ids : ReadableRows'[i] # None =>
        \/ i = saving /\ ReadableRows'[i] = l
        \/ i # saving /\ ReadableRows'[i] = ReadableRows[i]
  BY <1>1, <1>2 DEF MemoryInv, ReadableRows, IsLesson
<1>4. dLessons' \in [Ids -> LessonRow]
  BY <1>1, <1>2 DEF MemoryInv, LessonRow
<1>5. IsOrWas(l, l) /\ l # None
  BY <1>1, IsOrWasItself, RowsAssumption
<1>6. /\ lessons' = lessons /\ nextId' = nextId /\ saving' = None
      /\ pc = "save" /\ pc' = "idle" /\ Loaded /\ Loaded'
  BY DEF SaveLesson, Loaded
<1> HIDE DEF l
<1>7. ASSUME NEW i \in Ids, ReadableRows'[i] # None
      PROVE  lessons[i] # None /\ IsOrWas(lessons[i], ReadableRows'[i])
  BY <1>3, <1>5, <1>6, <1>7 DEF MemoryInv, l
<1> QED BY <1>4, <1>6, <1>7 DEF MemoryInv

\* Loading takes what can be read, and the next number is above it.
LEMMA MemoryInvLoad ==
    ASSUME MemoryInv, LessonsAreLoaded, pc' # "save"
    PROVE  MemoryInv'
<1>1. ReadableRows' = ReadableRows /\ dLessons' = dLessons /\ saving' = saving
  BY DEF LessonsAreLoaded, ReadableRows, IsLesson
<1>2. lessons' = ReadableRows /\ nextId' = NextIdAfter(ReadableRows)
  BY DEF LessonsAreLoaded, LoadedLessons
<1>3. ReadableRows \in [Ids -> Lesson \cup {None}]
  BY ReadableIsLesson DEF MemoryInv
<1>4. /\ nextId' \in 1..(MaxLessons + 1)
      /\ \A id \in Ids : lessons'[id] # None => id < nextId'
  BY <1>2, <1>3, NextIdIsFree
<1>5. \A id \in Ids : ReadableRows'[id] # None => IsOrWas(lessons'[id], ReadableRows'[id])
  BY <1>1, <1>2, <1>3, IsOrWasItself
<1> QED BY <1>1, <1>2, <1>3, <1>4, <1>5 DEF MemoryInv

LEMMA MemoryInvCreate ==
    ASSUME MemoryInv, NEW claim \in Claims, CreateLesson(claim)
    PROVE  MemoryInv'
<1> DEFINE l == [claim |-> claim, status |-> "candidate"]
<1>1. l \in Lesson
  BY DEF Lesson, Status
<1>2. /\ nextId \in Ids /\ nextId' = nextId + 1 /\ pc = "idle"
      /\ lessons' = [lessons EXCEPT ![nextId] = l] /\ GoesOnToSave(nextId)
  BY DEF CreateLesson, GoesOnToSave
<1>3. ReadableRows[nextId] = None
  BY <1>2, MaxLessonsAssumption DEF MemoryInv, Loaded, Ids
<1>4. nextId' \in 1..(MaxLessons + 1) /\ nextId <= nextId' /\ nextId < nextId'
  BY <1>2, MaxLessonsAssumption DEF Ids
<1> HIDE DEF l
<1> QED BY <1>1, <1>2, <1>3, <1>4, MemoryInvRequest

\* Every step, of the server, of its failures and of others, keeps governed memory.
LEMMA MemoryInvInductive == MemoryInv /\ [Next]_vars => MemoryInv'
<1> SUFFICES ASSUME MemoryInv, [Next]_vars
             PROVE  MemoryInv'
  OBVIOUS
<1>1. CASE Start
  BY <1>1, MemoryInvUntouched DEF Start, Loaded
<1>2. CASE OpenStore \/ CheckPin
  BY <1>2, MemoryInvUntouched DEF OpenStore, CheckPin, Loaded
<1>3. CASE LoadAll
  BY <1>3, MemoryInvLoad DEF LoadAll
<1>4. CASE BootRefuses \/ BootFails \/ Crash
  BY <1>4, MemoryInvAtEnd DEF BootRefuses, BootFails, Crash, ProcessEnds
<1>5. CASE BootstrapV0 \/ BootSavesRuntime \/ BootSavesCurrent
  BY <1>5, MemoryInvUntouched DEF BootstrapV0, BootSavesRuntime, BootSavesCurrent, Loaded
<1>6. CASE AnswerLessonRequest
  <2>1. ASSUME NEW claim \in Claims, CreateLesson(claim) PROVE MemoryInv'
    BY <2>1, MemoryInvCreate
  <2>2. ASSUME NEW id \in Ids, ValidateLesson(id) PROVE MemoryInv'
    BY <2>2, MemoryInvMoves DEF ValidateLesson, Status, Ledger!Stage
  <2>3. ASSUME NEW id \in Ids, ActivateLesson(id) PROVE MemoryInv'
    BY <2>3, MemoryInvMoves DEF ActivateLesson, Status, Ledger!Stage
  <2>4. ASSUME NEW id \in Ids, DeactivateLesson(id) PROVE MemoryInv'
    BY <2>4, MemoryInvMoves DEF DeactivateLesson, Status, Ledger!Stage
  <2>5. ASSUME NEW id \in Ids, QuarantineLesson(id) PROVE MemoryInv'
    BY <2>5, MemoryInvMoves DEF QuarantineLesson, Status, Ledger!Stage
  <2> QED BY <1>6, <2>1, <2>2, <2>3, <2>4, <2>5 DEF AnswerLessonRequest, LessonRequests
<1>7. CASE SaveRequestedLesson
  BY <1>7, MemoryInvSave DEF SaveRequestedLesson
<1>8. CASE HandlerFails
  BY <1>8 DEF HandlerFails, MemoryInv, Loaded, ReadableRows, IsLesson
<1>9. CASE Others
  <2>1. UNCHANGED <<lessons, nextId, saving, pc>>
    BY <1>9 DEF Others, HarmSchema, HarmRows, HarmLesson, EditConstitution, LosePin, Repair, Harm
  <2>2. /\ dLessons' \in [Ids -> LessonRow]
        /\ \A id \in Ids : dLessons'[id] = dLessons[id] \/ ~ IsLesson(dLessons'[id])
    BY <1>9 DEF MemoryInv, LessonRow, IsLesson, Others, HarmSchema, HarmRows, HarmLesson,
                EditConstitution, LosePin, Repair, places
  <2> QED BY <2>1, <2>2, MemoryInvHarm
<1>10. CASE UNCHANGED vars
  BY <1>10 DEF vars, lessonVars, MemoryInv, Loaded, ReadableRows, IsLesson
<1> QED
  BY <1>1, <1>2, <1>3, <1>4, <1>5, <1>6, <1>7, <1>8, <1>9, <1>10 DEF Next, BootStep

\* Nothing is stored before the first start.
LEMMA InitMemoryInv == Init => MemoryInv
BY MaxLessonsAssumption DEF Init, LessonsInit, NoLessons, MemoryInv, LessonRow, Loaded

LEMMA MemoryInvHolds == Spec => []MemoryInv
BY InitMemoryInv, MemoryInvInductive, PTL DEF Spec

\* No process ever serves a state of governed memory older than the rows: what a
\* reader of the store finds is in memory, at its stored stage or a later one
\* (MemoryStore._persist_lesson writes after memory has changed, and
\* _load_from_persistence takes every row that is a lesson).
THEOREM MemoryIsNotBehind == Spec => []ServedIsNotBehind
<1>1. MemoryInv => ServedIsNotBehind
  BY DEF MemoryInv, ServedIsNotBehind, Serving, Loaded
<1> QED BY <1>1, MemoryInvHolds, PTL

-----------------------------------------------------------------------------
(* Governed memory implements the ledger *)

LEMMA InitLedger == Init => Ledger!Init
BY DEF Init, LessonsInit, NoLessons, Ledger!Init, ReadableRows, IsLesson

\* What others do is told apart from what the server does by their count.
LEMMA HarmsCounted == Spec => [](harms \in Nat)
<1>1. Init => harms \in Nat
  BY DEF Init
<1>2. harms \in Nat /\ [Next]_vars => (harms \in Nat)'
  <2> SUFFICES ASSUME harms \in Nat, [Next]_vars
               PROVE  harms' \in Nat
    OBVIOUS
  <2>1. CASE Others
    BY <2>1 DEF Others, HarmSchema, HarmRows, HarmLesson, EditConstitution, LosePin,
                Repair, Harm, bounds
  <2>2. CASE UNCHANGED harms
    BY <2>2
  <2> QED
    BY <2>1, <2>2 DEF Next, Start, BootStep, OpenStore, CheckPin, LoadAll, BootRefuses,
       BootstrapV0, BootSavesRuntime, BootSavesCurrent, AnswerLessonRequest,
       SaveRequestedLesson, HandlerFails, BootFails, Crash, vars, bounds
<1> QED BY <1>1, <1>2, PTL DEF Spec

\* The life of a lesson goes through different stages.
LEMMA StagesDiffer ==
    ASSUME NEW s \in Status, NEW t \in Status
    PROVE  /\ Ledger!Stage[s] \in Nat
           /\ Ledger!Stage[s] = Ledger!Stage[t] => s = t
BY DEF Status, Ledger!Stage

\* A save is a step of the ledger, or changes nothing that a reader sees.
LEMMA SaveIsALedgerStep ==
    ASSUME MemoryInv, SaveLesson
    PROVE  Ledger!Next \/ UNCHANGED ReadableRows
<1> DEFINE l == lessons[saving]
           row == ReadableRows[saving]
<1>1. saving \in Ids /\ l \in Lesson /\ l # None
  BY RowsAssumption DEF MemoryInv, SaveLesson
<1>2. ReadableRows' = [ReadableRows EXCEPT ![saving] = l]
  BY <1>1, RowsAssumption DEF MemoryInv, SaveLesson, ReadableRows, IsLesson
<1>3. ReadableRows \in [Ids -> Lesson \cup {None}]
  BY ReadableIsLesson DEF MemoryInv
<1>4. CASE row = None
  <2>1. l.claim \in Claims /\ l.status \in DOMAIN Ledger!Stage
    BY <1>1 DEF Lesson, Status, Ledger!Stage
  <2>2. ReadableRows'[saving] = l
    BY <1>1, <1>2, <1>3
  <2>3. Ledger!Appear(saving, ReadableRows'[saving])
    BY <1>1, <1>2, <1>4, <2>1, <2>2 DEF Ledger!Appear
  <2> QED BY <1>1, <2>3 DEF Ledger!Next
<1>5. CASE row # None
  <2>1. row \in Lesson
    BY <1>1, <1>3, <1>5
  <2>2. l.claim = row.claim /\ Ledger!Stage[row.status] <= Ledger!Stage[l.status]
    BY <1>1, <1>5 DEF MemoryInv, SaveLesson, Loaded, IsOrWas
  <2>3. l = [row EXCEPT !.status = l.status]
    BY <1>1, <2>1, <2>2 DEF Lesson
  <2>4. l.status \in Status /\ row.status \in Status
    BY <1>1, <2>1 DEF Lesson
  <2>5. CASE Ledger!Stage[row.status] < Ledger!Stage[l.status]
    <3>1. ReadableRows' = [ReadableRows EXCEPT ![saving].status = l.status]
      BY <1>1, <1>2, <1>3, <2>3
    <3>2. l.status \in DOMAIN Ledger!Stage
      BY <2>4 DEF Status, Ledger!Stage
    <3>3. Ledger!MoveOn(saving, l.status)
      BY <1>5, <2>5, <3>1 DEF Ledger!MoveOn
    <3> QED BY <1>1, <3>2, <3>3 DEF Ledger!Next
  <2>6. CASE ~ (Ledger!Stage[row.status] < Ledger!Stage[l.status])
    <3>1. Ledger!Stage[row.status] = Ledger!Stage[l.status]
      BY <2>2, <2>4, <2>6, StagesDiffer
    <3>2. l.status = row.status
      BY <2>4, <3>1, StagesDiffer
    <3>3. l = row
      BY <2>1, <2>3, <3>2 DEF Lesson
    <3> QED BY <1>1, <1>2, <1>3, <3>3
  <2> QED BY <2>5, <2>6
<1> QED BY <1>4, <1>5

\* A repair takes away a row that no reader could read.
LEMMA RepairKeepsTheLedger ==
    ASSUME MemoryInv, Repair PROVE UNCHANGED ReadableRows
<1>1. \A id \in Ids : dLessons'[id] = dLessons[id] \/ ~ (IsLesson(dLessons[id]) \/ IsLesson(dLessons'[id]))
  BY DEF MemoryInv, Repair, IsLesson, places
<1> QED BY <1>1 DEF ReadableRows, IsLesson

LEMMA LedgerStep ==
    MemoryInv /\ harms \in Nat /\ [Next]_vars
        => [Ledger!Next \/ harms' # harms]_ReadableRows
<1> SUFFICES ASSUME MemoryInv, harms \in Nat, [Next]_vars
             PROVE  Ledger!Next \/ harms' # harms \/ UNCHANGED ReadableRows
  OBVIOUS
<1>1. CASE SaveRequestedLesson
  BY <1>1, SaveIsALedgerStep DEF SaveRequestedLesson
<1>2. CASE Repair
  BY <1>2, RepairKeepsTheLedger
<1>3. CASE Harm
  BY <1>3 DEF Harm
<1>4. CASE UNCHANGED dLessons
  BY <1>4 DEF ReadableRows, IsLesson
<1>5. CASE Others
  BY <1>2, <1>3, <1>5 DEF Others, HarmSchema, HarmRows, HarmLesson, EditConstitution, LosePin
<1>6. CASE AnswerLessonRequest
  BY <1>4, <1>6 DEF AnswerLessonRequest, LessonRequests, CreateLesson, ValidateLesson,
     ActivateLesson, DeactivateLesson, QuarantineLesson, Moves, GoesOnToSave
<1> QED
  BY <1>1, <1>4, <1>5, <1>6 DEF Next, Start, BootStep, OpenStore, CheckPin, LoadAll,
     BootRefuses, BootstrapV0, BootSavesRuntime, BootSavesCurrent, HandlerFails, BootFails,
     Crash, ProcessEnds, LessonsAreLoaded, LessonsAreLost, vars, lessonVars

\* Governed memory implements the ledger of lessons: whatever crashes, fails or is
\* loaded again, a number names one claim for good and a lesson only moves on.
THEOREM MemoryIsALedger == Spec => LedgerSpec
BY InitLedger, MemoryInvHolds, HarmsCounted, LedgerStep, PTL DEF Spec, LedgerSpec

-----------------------------------------------------------------------------
(* The constitution in force *)

\* What a pin said was pinned; a file that a boot has found equal to its pin still
\* is its content as long as nobody swaps it.
RulesInv ==
    /\ file \in Contents
    /\ pin \in pinned \cup {None}
    /\ pc = "boot.load" => file \in pinned \/ swapped
    /\ Loaded => rules \in pinned \/ swapped

\* With the yaml module at hand, every step keeps the rules rooted in a pin.
LEMMA RulesInvInductive ==
    ASSUME HasYaml PROVE RulesInv /\ [Next]_vars => RulesInv'
<1> SUFFICES ASSUME RulesInv, [Next]_vars
             PROVE  RulesInv'
  OBVIOUS
<1>1. CASE Start \/ OpenStore
  BY <1>1 DEF Start, OpenStore, RulesInv, Loaded, places, constitution
<1>2. CASE CheckPin
  BY <1>2, StartupAssumption DEF CheckPin, PinHolds, RulesInv, Loaded
<1>3. CASE LoadAll
  BY <1>3 DEF LoadAll, RulesInv, Loaded, places, constitution
<1>4. CASE BootRefuses \/ BootFails \/ Crash
  BY <1>4 DEF BootRefuses, BootFails, Crash, ProcessEnds, RulesInv, Loaded, places, constitution
<1>5. CASE BootstrapV0 \/ BootSavesRuntime \/ BootSavesCurrent
  BY <1>5 DEF BootstrapV0, BootSavesRuntime, BootSavesCurrent, RulesInv, Loaded, places, constitution
<1>6. CASE AnswerLessonRequest
  <2>1. pc = "idle" /\ pc' = "save"
    BY <1>6 DEF AnswerLessonRequest, LessonRequests, CreateLesson, ValidateLesson,
       ActivateLesson, DeactivateLesson, QuarantineLesson, Moves, GoesOnToSave
  <2> QED BY <1>6, <2>1 DEF AnswerLessonRequest, RulesInv, Loaded, places, constitution
<1>7. CASE SaveRequestedLesson \/ HandlerFails
  BY <1>7 DEF SaveRequestedLesson, SaveLesson, HandlerFails, RulesInv, Loaded, places, constitution
<1>8. CASE Others
  <2>1. UNCHANGED <<pc, rules>>
    BY <1>8 DEF Others, HarmSchema, HarmRows, HarmLesson, EditConstitution, LosePin, Repair, Harm
  <2>2. CASE \E content \in Contents : EditConstitution(content)
    BY <2>1, <2>2 DEF EditConstitution, RulesInv, Loaded
  <2>3. CASE LosePin \/ Repair
    BY <2>1, <2>3 DEF LosePin, Repair, RulesInv, Loaded, places, constitution
  <2>4. CASE UNCHANGED constitution
    BY <2>1, <2>4 DEF RulesInv, Loaded, constitution
  <2> QED
    BY <1>8, <2>2, <2>3, <2>4 DEF Others, HarmSchema, HarmRows, HarmLesson, places
<1>9. CASE UNCHANGED vars
  BY <1>9 DEF vars, places, constitution, RulesInv, Loaded
<1> QED
  BY <1>1, <1>2, <1>3, <1>4, <1>5, <1>6, <1>7, <1>8, <1>9 DEF Next, BootStep

\* Where the yaml module can be imported, the rules in force were pinned by
\* somebody, whatever is edited, lost or fails, but for an edit between the two
\* reads of one boot (Constitution.from_file).
THEOREM RulesAreRooted ==
    ASSUME HasYaml PROVE Spec => []RulesWerePinned
<1>1. Init => RulesInv
  BY DEF Init, RulesInv, Loaded
<1>2. RulesInv /\ [Next]_vars => RulesInv'
  BY RulesInvInductive
<1>3. RulesInv => RulesWerePinned
  BY DEF RulesInv, RulesWerePinned, Serving, Loaded
<1> QED BY <1>1, <1>2, <1>3, PTL DEF Spec

-----------------------------------------------------------------------------
(* Types *)

\* The types of everything but governed memory.  From the bootstrap on there is a
\* current runtime, from the load on there are rules.
PlacesTyped ==
    /\ {released, dReleased} \subseteq [{0} -> Registry!Manifest \cup {None}]
    /\ current \in {0, None} /\ dCurrent \in {0, None}
    /\ pc \in {"boot.runtime", "boot.current", "idle", "save"} => current = 0
    /\ Loaded => rules # None
    /\ schema \in {None, "ours", "unusable"}
    /\ rows \in [Kinds -> {"sound", "misshapen", "unparseable"}]
    /\ file \in Contents /\ pin \in Contents \cup {None} /\ pinned \subseteq Contents /\ swapped \in BOOLEAN
    /\ rules \in Contents \cup {Defaults, None}
    /\ pc \in {"down", "idle", "save"} \cup BootSteps
    /\ crashes \in 0..MaxCrashes /\ faults \in 0..MaxFaults /\ harms \in 0..MaxHarms

LEMMA LessonsTyped == LessonsTypeOK /\ MemoryInv /\ MemoryInv' /\ [Next]_vars => LessonsTypeOK'
<1> SUFFICES ASSUME LessonsTypeOK, MemoryInv', [Next]_vars
             PROVE  pc' = "save" <=> saving' # None
  BY DEF LessonsTypeOK, MemoryInv, LessonRow
<1>1. CASE pc' = "save"
  BY <1>1 DEF MemoryInv
<1>2. CASE pc' # "save"
  <2>1. CASE SaveRequestedLesson \/ HandlerFails \/ BootFails \/ Crash \/ BootRefuses
    BY <2>1 DEF SaveRequestedLesson, SaveLesson, HandlerFails, BootFails, Crash, BootRefuses,
       ProcessEnds, LessonsAreLost, MemoryInv, LessonsTypeOK
  <2>2. CASE AnswerLessonRequest
    BY <1>2, <2>2 DEF AnswerLessonRequest, LessonRequests, CreateLesson, ValidateLesson,
       ActivateLesson, DeactivateLesson, QuarantineLesson, Moves, GoesOnToSave
  <2>3. CASE \/ Start \/ OpenStore \/ CheckPin \/ LoadAll \/ BootstrapV0 \/ BootSavesRuntime
             \/ BootSavesCurrent \/ Others \/ UNCHANGED vars
    <3>1. saving' = saving /\ (pc' = pc \/ pc # "save")
      BY <2>3 DEF Start, OpenStore, CheckPin, LoadAll, LessonsAreLoaded, BootstrapV0,
         BootSavesRuntime, BootSavesCurrent, Others, HarmSchema, HarmRows, HarmLesson,
         EditConstitution, LosePin, Repair, Harm, vars, lessonVars
    <3> QED BY <1>2, <3>1 DEF LessonsTypeOK
  <2> QED BY <2>1, <2>2, <2>3 DEF Next, BootStep
<1> QED BY <1>1, <1>2

\* The registry's rows have v0 or nothing, and so has what a boot makes of them.
LEMMA CurrentOfTyped == Registry!CurrentOf(dReleased, dCurrent) \in {0, None}
<1>1. Registry!Versions = {0}
  BY DEF Registry!Versions
<1>2. ASSUME NEW v \in Registry!Versions, Registry!Has(dReleased, v)
      PROVE  \E w \in Registry!Versions : Registry!IsLatest(dReleased, w)
  BY <1>1, <1>2 DEF Registry!IsLatest, Registry!Has
<1> QED BY <1>1, <1>2 DEF Registry!CurrentOf, Registry!Has

\* v0 as the bootstrap makes it.
LEMMA BootstrapTyped ==
    ASSUME PlacesTyped
    PROVE  [parent |-> current, config |-> <<>>, amendment |-> None,
            createdBy |-> Registry!System] \in Registry!Manifest
<1>1. Registry!Versions = {0}
  BY DEF Registry!Versions
<1>2. <<>> \in Registry!Config
  BY DEF Registry!Config
<1>3. current \in {0} \cup {None}
  BY DEF PlacesTyped
<1> QED BY <1>1, <1>2, <1>3 DEF Registry!Manifest

LEMMA PlacesKept ==
    ASSUME PlacesTyped, [Next]_vars
    PROVE  PlacesTyped'
<1>1. CASE BootFails \/ Crash \/ BootRefuses
  <2>1. /\ released' = Registry!NoRuntimes /\ current' = None /\ rules' = None /\ pc' = "down"
        /\ UNCHANGED <<dReleased, dCurrent, schema, rows, file, pin, pinned, swapped, harms>>
    BY <1>1 DEF BootFails, Crash, BootRefuses, ProcessEnds, Registry!RegistryForgets, places,
       constitution, bounds
  <2>2. released' \in [{0} -> Registry!Manifest \cup {None}]
    <3>1. Registry!Versions = {0}
      BY DEF Registry!Versions
    <3> QED BY <2>1, <3>1 DEF Registry!NoRuntimes
  <2>3. crashes' \in 0..MaxCrashes /\ faults' \in 0..MaxFaults
    BY <1>1, StartupAssumption DEF BootFails, Crash, BootRefuses, bounds, PlacesTyped
  <2> QED BY <2>1, <2>2, <2>3 DEF PlacesTyped, Loaded, BootSteps
<1>2. CASE LoadAll
  <2>1. /\ released' = dReleased /\ current' = Registry!CurrentOf(dReleased, dCurrent)
        /\ pc' = IF current' = None THEN "boot.bootstrap" ELSE "idle"
        /\ rules' = IF HasYaml THEN file ELSE Defaults
        /\ UNCHANGED <<dReleased, dCurrent, schema, rows, file, pin, pinned, swapped,
                       crashes, faults, harms>>
    BY <1>2 DEF LoadAll, Registry!RegistryLoads, NeedsBootstrap, places, constitution, bounds
  <2>2. current' \in {0, None} /\ (pc' = "idle" => current' = 0)
    BY <2>1, CurrentOfTyped
  <2>3. rules' \in Contents \cup {Defaults, None} /\ rules' # None
    BY <2>1, StartupAssumption DEF PlacesTyped
  <2> QED BY <2>1, <2>2, <2>3 DEF PlacesTyped, Loaded, BootSteps
<1>3. CASE BootstrapV0
  <2>1. /\ released' = [released EXCEPT ![0] =
                [parent |-> current, config |-> <<>>, amendment |-> None,
                 createdBy |-> Registry!System]]
        /\ current' = 0 /\ pc = "boot.bootstrap" /\ pc' = "boot.runtime"
        /\ UNCHANGED <<dReleased, dCurrent, rules, schema, rows, file, pin, pinned, swapped,
                       crashes, faults, harms>>
    BY <1>3 DEF BootstrapV0, Registry!CreateRuntime, places, constitution, bounds
  <2>2. released' \in [{0} -> Registry!Manifest \cup {None}]
    BY <2>1, BootstrapTyped DEF PlacesTyped
  <2> QED BY <2>1, <2>2 DEF PlacesTyped, Loaded, BootSteps
<1>4. CASE BootSavesRuntime \/ BootSavesCurrent
  <2>1. /\ UNCHANGED <<released, current, rules, schema, rows, file, pin, pinned, swapped,
                       crashes, faults, harms>>
        /\ pc \in {"boot.runtime", "boot.current"} /\ pc' \in {"boot.current", "idle"}
        /\ dCurrent' \in {0, dCurrent}
        /\ dReleased' \in {dReleased, [dReleased EXCEPT ![0] = released[0]]}
    BY <1>4 DEF BootSavesRuntime, BootSavesCurrent, Registry!SaveRuntime,
       Registry!SaveCurrentVersion, places, constitution, bounds
  <2>2. dReleased' \in [{0} -> Registry!Manifest \cup {None}]
    BY <2>1 DEF PlacesTyped
  <2> QED BY <2>1, <2>2 DEF PlacesTyped, Loaded, BootSteps
<1>5. CASE Start \/ OpenStore \/ CheckPin
  BY <1>5 DEF Start, OpenStore, CheckPin, registry, places, constitution, bounds, PlacesTyped,
     Loaded, BootSteps
<1>6. CASE AnswerLessonRequest \/ SaveRequestedLesson
  <2>1. /\ UNCHANGED <<registry, places, rules, bounds>>
        /\ pc \in {"idle", "save"} /\ pc' \in {"idle", "save"}
    BY <1>6 DEF AnswerLessonRequest, LessonRequests, CreateLesson, ValidateLesson, ActivateLesson,
       DeactivateLesson, QuarantineLesson, Moves, GoesOnToSave, SaveRequestedLesson, SaveLesson
  <2> QED BY <2>1 DEF registry, places, constitution, bounds, PlacesTyped, Loaded, BootSteps
<1>7. CASE HandlerFails
  <2>1. faults' \in 0..MaxFaults
    BY <1>7, StartupAssumption DEF HandlerFails, PlacesTyped
  <2> QED BY <1>7, <2>1 DEF HandlerFails, registry, places, constitution, PlacesTyped, Loaded,
     BootSteps
<1>8. CASE Repair
  <2>1. UNCHANGED <<registry, rules, pc, bounds, file, swapped>> /\ pc = "down"
    BY <1>8 DEF Repair, places, constitution
  <2>2. /\ schema' \in {schema, "ours"} /\ pin' \in {pin, file}
        /\ pinned' \in {pinned, pinned \cup {file}}
        /\ rows' \in [Kinds -> {"sound", "misshapen", "unparseable"}]
    BY <1>8 DEF Repair, places, constitution, PlacesTyped
  <2> QED BY <2>1, <2>2 DEF registry, bounds, PlacesTyped, Loaded, BootSteps
<1>9. CASE Others /\ ~ Repair
  <2>1. /\ UNCHANGED <<pc, registry, rules, crashes, faults>>
        /\ harms < MaxHarms /\ harms' = harms + 1
    BY <1>9 DEF Others, HarmSchema, HarmRows, HarmLesson, EditConstitution, LosePin, Harm
  <2>2. /\ schema' \in {schema, "unusable"} /\ file' \in Contents /\ pin' \in {pin, None}
        /\ pinned' = pinned /\ swapped' \in BOOLEAN
        /\ rows' \in [Kinds -> {"sound", "misshapen", "unparseable"}]
    BY <1>9 DEF Others, HarmSchema, HarmRows, HarmLesson, EditConstitution, LosePin, places,
       constitution, PlacesTyped
  <2>3. harms' \in 0..MaxHarms
    BY <2>1, StartupAssumption DEF PlacesTyped
  <2> QED BY <2>1, <2>2, <2>3 DEF registry, PlacesTyped, Loaded, BootSteps
<1>10. CASE UNCHANGED vars
  BY <1>10 DEF vars, registry, places, constitution, bounds, PlacesTyped, Loaded, BootSteps
<1> QED
  BY <1>1, <1>2, <1>3, <1>4, <1>5, <1>6, <1>7, <1>8, <1>9, <1>10 DEF Next, BootStep

\* Whatever crashes, fails or is damaged: memory, rows and control keep their types,
\* and a server that serves has v0 or a release to serve with, and rules (main.py
\* creates v0 when get_current finds nothing, from_file raises or returns).
THEOREM StartupTyped == Spec => []TypeOK
<1>1. Init => LessonsTypeOK /\ PlacesTyped
  <2> SUFFICES ASSUME Init PROVE LessonsTypeOK /\ PlacesTyped
    OBVIOUS
  <2>1. LessonsTypeOK
    BY MaxLessonsAssumption DEF Init, LessonsInit, NoLessons, LessonsTypeOK
  <2>2. Registry!NoRuntimes \in [{0} -> Registry!Manifest \cup {None}]
    <3>1. Registry!Versions = {0}
      BY DEF Registry!Versions
    <3> QED BY <3>1 DEF Registry!NoRuntimes
  <2>3. PlacesTyped
    <3>1. {released, dReleased} \subseteq [{0} -> Registry!Manifest \cup {None}]
      BY <2>2 DEF Init
    <3>2. crashes \in 0..MaxCrashes /\ faults \in 0..MaxFaults /\ harms \in 0..MaxHarms
      BY StartupAssumption DEF Init
    <3>3. rows \in [Kinds -> {"sound", "misshapen", "unparseable"}]
      BY DEF Init
    <3> QED BY <3>1, <3>2, <3>3 DEF Init, PlacesTyped, Loaded, BootSteps
  <2> QED BY <2>1, <2>3
<1>2. LessonsTypeOK /\ PlacesTyped => TypeOK
  BY DEF TypeOK, PlacesTyped, Serving, Loaded
<1> QED
  BY <1>1, <1>2, MemoryInvHolds, LessonsTyped, PlacesKept, PTL DEF Spec

-----------------------------------------------------------------------------
(* What stops a boot *)

\* A step that leaves the places of a boot and the rows of lessons leaves them sound.
LEMMA SoundUntouched ==
    ASSUME Sound, UNCHANGED <<places, dLessons>> PROVE Sound'
BY DEF Sound, PinHolds, RowsStopTheBoot, LessonsStopTheBoot, places, constitution

LEMMA SoundStep ==
    ASSUME MemoryInv, TypeOK, Sound, [Next]_vars
    PROVE  Sound' \/ harms' # harms
<1>1. CASE \/ Start \/ CheckPin \/ LoadAll \/ BootRefuses
           \/ BootstrapV0 \/ BootSavesRuntime \/ BootSavesCurrent
           \/ HandlerFails \/ BootFails \/ Crash
  <2>1. UNCHANGED <<schema, rows, file, pin, dLessons>>
    BY <1>1 DEF Start, CheckPin, LoadAll, BootRefuses, BootstrapV0, BootSavesRuntime,
       BootSavesCurrent, HandlerFails, BootFails, Crash, ProcessEnds, LessonsAreLoaded,
       LessonsAreLost, lessonVars, places, constitution
  <2> QED BY <2>1 DEF Sound, PinHolds, RowsStopTheBoot, LessonsStopTheBoot
<1>2. CASE OpenStore
  BY <1>2 DEF OpenStore, Sound, PinHolds, RowsStopTheBoot, LessonsStopTheBoot, lessonVars,
     constitution
<1>3. CASE AnswerLessonRequest
  BY <1>3, SoundUntouched DEF AnswerLessonRequest, LessonRequests, CreateLesson, ValidateLesson,
     ActivateLesson, DeactivateLesson, QuarantineLesson, Moves, GoesOnToSave
<1>4. CASE SaveRequestedLesson
  <2>1. /\ lessons[saving] \in Lesson /\ dLessons' = [dLessons EXCEPT ![saving] = lessons[saving]]
        /\ UNCHANGED places
    BY <1>4 DEF SaveRequestedLesson, SaveLesson, MemoryInv
  <2>2. \A id \in Ids : dLessons'[id] = Unparseable => dLessons[id] = Unparseable
    BY <2>1, RowsAssumption DEF TypeOK, LessonsTypeOK
  <2> QED
    BY <2>1, <2>2
    DEF Sound, PinHolds, RowsStopTheBoot, LessonsStopTheBoot, places, constitution
<1>5. CASE Repair
  <2>1. schema' \in {schema, "ours"} /\ pin' \in {pin, file} /\ file' = file
    BY <1>5 DEF Repair, places, constitution
  <2>2. \A id \in Ids : dLessons'[id] = Unparseable => dLessons[id] = Unparseable
    BY <1>5, RowsAssumption DEF Repair, TypeOK, LessonsTypeOK
  <2>3. \A k \in Kinds : rows'[k] \in {rows[k], "sound"}
    BY <1>5 DEF Repair, TypeOK, places
  <2> QED BY <2>1, <2>2, <2>3 DEF Sound, PinHolds, RowsStopTheBoot, LessonsStopTheBoot
<1>6. CASE Others /\ ~ Repair
  BY <1>6 DEF Others, HarmSchema, HarmRows, HarmLesson, EditConstitution, LosePin, Harm, TypeOK
<1>7. CASE UNCHANGED vars
  BY <1>7, SoundUntouched DEF vars, lessonVars
<1> QED BY <1>1, <1>2, <1>3, <1>4, <1>5, <1>6, <1>7 DEF Next, BootStep

\* No write, boot, end of a process or repair makes the next boot refuse what it
\* would have taken: the checks of StateStore._init_db, Constitution.from_file and load_all
\* only ever stop at what others did.
THEOREM ServerSpoilsNothing == Spec => OnlyOthersSpoil
<1>1. MemoryInv /\ TypeOK /\ [Next]_vars => [Sound => Sound' \/ harms' # harms]_vars
  BY SoundStep
<1> QED BY <1>1, MemoryInvHolds, StartupTyped, PTL DEF Spec, OnlyOthersSpoil
=============================================================================
