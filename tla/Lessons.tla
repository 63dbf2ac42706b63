-------------------------------- MODULE Lessons --------------------------------
(***************************************************************************)
(* Governed memory: the lessons that MemoryStore holds and their rows of   *)
(* kind "lesson".  Every operation changes memory first and then saves the *)
(* whole lesson, in one transaction of its own, so a lesson whose write    *)
(* failed is caught up by the next operation on it, or lost with the       *)
(* process.  Startup.tla adds the process around it.                       *)
(*                                                                         *)
(* A lesson is its claim and its status; the identifier "lesson_<N>" is    *)
(* the number N.                                                           *)
(***************************************************************************)
EXTENDS Integers, FiniteSets

CONSTANTS
    Claims,         \* what lessons claim
    MaxLessons,     \* bound on the numbers of lessons
    Misshapen,      \* a row that is a JSON object and no lesson
    Unparseable,    \* a row that is no JSON object
    None            \* nothing

ASSUME MaxLessonsAssumption == MaxLessons \in Nat

Ids == 1..MaxLessons
Status == {"candidate", "validated", "active", "deprecated", "quarantined"}
Lesson == [claim : Claims, status : Status]

ASSUME RowsAssumption ==
    /\ Cardinality({Misshapen, Unparseable, None}) = 3
    /\ {Misshapen, Unparseable, None} \cap Lesson = {} /\ None \notin Ids

VARIABLES
    lessons,        \* MemoryStore._lessons
    nextId,         \* MemoryStore._next_id
    dLessons,       \* rows of kind "lesson"
    saving,         \* the lesson that the running handler is about to save
    pc              \* what the process does next; see Startup.tla

lessonVars == <<lessons, nextId, dLessons, saving>>

NoLessons == [id \in Ids |-> None]

LessonsTypeOK ==
    /\ lessons \in [Ids -> Lesson \cup {None}]
    /\ nextId \in 1..(MaxLessons + 1)
    /\ dLessons \in [Ids -> Lesson \cup {Misshapen, Unparseable, None}]
    /\ saving \in Ids \cup {None}
    /\ pc = "save" <=> saving # None

LessonsInit ==
    /\ lessons = NoLessons /\ nextId = 1 /\ saving = None
    /\ dLessons = NoLessons

-----------------------------------------------------------------------------
(* Requests *)

GoesOnToSave(id) ==
    /\ pc = "idle" /\ pc' = "save"
    /\ saving' = id
    /\ UNCHANGED dLessons

\* create_lesson: a candidate, whoever asks.
CreateLesson(claim) ==
    /\ nextId \in Ids
    /\ lessons' = [lessons EXCEPT ![nextId] = [claim |-> claim, status |-> "candidate"]]
    /\ nextId' = nextId + 1
    /\ GoesOnToSave(nextId)

\* The operations on a lesson that memory knows, in one of some stages.
Moves(id, from, to) ==
    /\ lessons[id] # None /\ lessons[id].status \in from
    /\ lessons' = [lessons EXCEPT ![id].status = to]
    /\ GoesOnToSave(id)
    /\ UNCHANGED nextId

ValidateLesson(id) == Moves(id, {"candidate"}, "validated")
ActivateLesson(id) == Moves(id, {"validated"}, "active")

\* Memory offers it, only the tests of the repository ask for it.
DeactivateLesson(id) == Moves(id, {"active"}, "deprecated")

\* quarantine_lesson: from any stage, quarantine included.
QuarantineLesson(id) == Moves(id, Status, "quarantined")

\* _persist_lesson: the lesson as memory has it.
SaveLesson ==
    /\ pc = "save" /\ pc' = "idle"
    /\ dLessons' = [dLessons EXCEPT ![saving] = lessons[saving]]
    /\ saving' = None
    /\ UNCHANGED <<lessons, nextId>>

-----------------------------------------------------------------------------
(* Loading *)

\* Mutant: whatever is an object is taken for a lesson.
IsLesson_Object(row) == row \notin {Unparseable, None}

IsLesson(row) == row \notin {Misshapen, Unparseable, None}

ReadableRows == [id \in Ids |-> IF IsLesson(dLessons[id]) THEN dLessons[id] ELSE None]

\* Mutant: the first row that is no lesson ends the loading.
LoadedLessons_UpToFirst ==
    [id \in Ids |->
        IF \A other \in 1..id : dLessons[other] # Misshapen THEN dLessons[id] ELSE None]

\* _load_from_persistence: a row that is no lesson is passed over.
LoadedLessons == ReadableRows

LessonsIn(table) == {id \in Ids : table[id] # None}

\* Mutant: numbers go on from the count of the lessons.
NextIdAfter_Count(table) == Cardinality(LessonsIn(table)) + 1

\* The number after the highest one that was loaded.
NextIdAfter(table) ==
    CHOOSE n \in 1..(MaxLessons + 1) :
        /\ \A id \in LessonsIn(table) : id < n
        /\ n = 1 \/ n - 1 \in LessonsIn(table)

\* load_all raises on a row that is no JSON object, which ends the boot.
LessonsStopTheBoot == \E id \in Ids : dLessons[id] = Unparseable

LessonsAreLoaded ==
    /\ lessons' = LoadedLessons
    /\ nextId' = NextIdAfter(LoadedLessons)
    /\ UNCHANGED <<dLessons, saving>>

LessonsAreLost ==
    /\ lessons' = NoLessons /\ nextId' = 1 /\ saving' = None
    /\ UNCHANGED dLessons

-----------------------------------------------------------------------------

LessonRequests ==
    \/ \E claim \in Claims : CreateLesson(claim)
    \/ \E id \in Ids :
        \/ ValidateLesson(id) \/ ActivateLesson(id)
        \/ DeactivateLesson(id) \/ QuarantineLesson(id)

Ledger == INSTANCE LessonLedger WITH rows <- ReadableRows

\* One lesson is the other one at its stage or at a later one.
IsOrWas(lesson, earlier) ==
    /\ lesson.claim = earlier.claim
    /\ Ledger!Stage[earlier.status] <= Ledger!Stage[lesson.status]
=============================================================================
