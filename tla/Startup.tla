-------------------------------- MODULE Startup --------------------------------
(***************************************************************************)
(* From start to service and back: main.py as it is imported, over a       *)
(* store, a constitution and a pin that others may have changed, and the   *)
(* handlers of governed memory once the server is up.                      *)
(*                                                                         *)
(* The boot opens the store, compares the constitution with its pin, reads *)
(* it again, loads the rows of every kind and creates v0 if there is none.  A check  *)
(* that fails raises, which ends the process.  Nothing restarts it: Start  *)
(* is somebody's decision and has no fairness.                             *)
(*                                                                         *)
(* Of the runtimes only v0 is here, of the rows of the other kinds only    *)
(* whether they can be read; Governance.tla has the rest.                  *)
(***************************************************************************)
EXTENDS Lessons

CONSTANTS
    Kinds,          \* kinds of rows besides lessons
    Contents,       \* contents of constitution.yaml; a hash is its content
    Defaults,       \* the rules of a Constitution without data
    HasYaml,        \* whether the yaml module can be imported
    MaxCrashes,     \* bound on process deaths
    MaxFaults,      \* bound on writes that raise
    MaxHarms        \* bound on changes that others make

\* Kinds whose rows are validated as they are loaded, and those whose rows are
\* taken as they come: an audit entry of an unknown action is left out, a
\* pointer without a value is none.
Validated == {"runtime", "telemetry", "amendment"}
Unvalidated == {"audit", "meta"}

ASSUME StartupAssumption ==
    /\ Kinds \subseteq Validated \cup Unvalidated
    /\ HasYaml \in BOOLEAN /\ None \notin Contents /\ Defaults \notin Contents \cup {None}
    /\ {MaxCrashes, MaxFaults, MaxHarms} \subseteq Nat

VARIABLES
    released,       \* the registry in memory
    current,
    dReleased,      \* and its rows
    dCurrent,
    schema,         \* the store's schema_version: None, "ours" or "unusable"
    rows,           \* of a kind: "sound", "misshapen" or "unparseable", the worst
    file,           \* constitution.yaml
    pin,            \* constitution.yaml.sha256, or None if it is missing
    rules,          \* the constitution in memory, or None
    pinned,         \* history: contents that have been pinned
    swapped,        \* history: the file was edited after this boot compared it
    crashes, faults, harms

registry == <<released, current, dReleased, dCurrent>>
constitution == <<file, pin, pinned, swapped>>
places == <<schema, rows, constitution>>
bounds == <<crashes, faults, harms>>
vars == <<lessonVars, pc, registry, places, rules, bounds>>

Registry ==
    INSTANCE RuntimeRegistry WITH
        Amendments <- {}, Principals <- {}, Keys <- {}, Values <- {}, V0Config <- <<>>,
        MaxVersion <- 0, candidates <- <<>>, dCandidates <- <<>>

BootSteps == {"boot.store", "boot.pin", "boot.load", "boot.bootstrap", "boot.runtime", "boot.current"}
Serving == pc \in {"idle", "save"}

TypeOK ==
    /\ LessonsTypeOK
    /\ {released, dReleased} \subseteq [{0} -> Registry!Manifest \cup {None}]
    /\ current \in {0, None} /\ dCurrent \in {0, None}
    /\ Serving => current = 0 /\ rules # None
    /\ schema \in {None, "ours", "unusable"}
    /\ rows \in [Kinds -> {"sound", "misshapen", "unparseable"}]
    /\ file \in Contents /\ pin \in Contents \cup {None} /\ pinned \subseteq Contents /\ swapped \in BOOLEAN
    /\ rules \in Contents \cup {Defaults, None}
    /\ pc \in {"down", "idle", "save"} \cup BootSteps
    /\ crashes \in 0..MaxCrashes /\ faults \in 0..MaxFaults /\ harms \in 0..MaxHarms

Init ==
    /\ LessonsInit
    /\ released = Registry!NoRuntimes /\ current = None
    /\ dReleased = Registry!NoRuntimes /\ dCurrent = None
    /\ schema = None /\ rows = [k \in Kinds |-> "sound"]
    /\ file \in Contents /\ pin = file /\ pinned = {file} /\ swapped = FALSE
    /\ rules = None /\ pc = "down"
    /\ crashes = 0 /\ faults = 0 /\ harms = 0

-----------------------------------------------------------------------------
(* The boot *)

\* A process that ends, whether it refuses, fails or dies, leaves the rows.
ProcessEnds ==
    /\ LessonsAreLost
    /\ Registry!RegistryForgets /\ UNCHANGED <<dReleased, dCurrent>>
    /\ rules' = None /\ pc' = "down"
    /\ UNCHANGED places

\* Mutant: a missing pin is no reason to refuse.
PinHolds_IfPresent == pin \in {file, None}

PinHolds == pin = file

\* Some row keeps the boot from ending.
RowsStopTheBoot ==
    \/ LessonsStopTheBoot
    \/ \E k \in Kinds : rows[k] = "unparseable"
    \/ \E k \in Kinds \cap Validated : rows[k] = "misshapen"

Start ==
    /\ pc = "down" /\ pc' = "boot.store"
    /\ UNCHANGED <<lessonVars, registry, places, rules, bounds>>

\* Mutant: the build's own version is refused like a newer one.
SchemaIsRefused_IfMarked == schema # None

SchemaIsRefused == schema = "unusable"

\* Mutant: a new store is marked with a version that the check cannot read.
OpenStore_Mislabels ==
    /\ pc = "boot.store" /\ ~ SchemaIsRefused
    /\ schema' = IF schema = None THEN "unusable" ELSE schema
    /\ pc' = "boot.pin"
    /\ UNCHANGED <<lessonVars, registry, rows, constitution, rules, bounds>>

\* StateStore.__init__ marks a new store and refuses a newer or an unreadable one.
OpenStore ==
    /\ pc = "boot.store" /\ ~ SchemaIsRefused
    /\ schema' = "ours"
    /\ pc' = "boot.pin"
    /\ UNCHANGED <<lessonVars, registry, rows, constitution, rules, bounds>>

\* from_file hashes the file and compares the hash with the pin.
CheckPin ==
    /\ pc = "boot.pin" /\ PinHolds
    /\ swapped' = FALSE
    /\ pc' = "boot.load"
    /\ UNCHANGED <<lessonVars, registry, schema, rows, file, pin, pinned, rules, bounds>>

\* get_current finds nothing after the load.
NeedsBootstrap == Registry!CurrentOf(dReleased, dCurrent) = None

\* from_file reads the file again, and every component loads its rows.
LoadAll ==
    /\ pc = "boot.load" /\ ~ RowsStopTheBoot
    /\ rules' = IF HasYaml THEN file ELSE Defaults
    /\ LessonsAreLoaded
    /\ Registry!RegistryLoads /\ UNCHANGED <<dReleased, dCurrent>>
    /\ pc' = IF NeedsBootstrap THEN "boot.bootstrap" ELSE "idle"
    /\ UNCHANGED <<places, bounds>>

BootRefuses ==
    /\ \/ pc = "boot.store" /\ SchemaIsRefused
       \/ pc = "boot.pin" /\ ~ PinHolds
       \/ pc = "boot.load" /\ RowsStopTheBoot
    /\ ProcessEnds
    /\ UNCHANGED bounds

BootstrapV0 ==
    /\ pc = "boot.bootstrap" /\ pc' = "boot.runtime"
    /\ Registry!CreateRuntime(0, <<>>, Registry!System, None)
    /\ UNCHANGED <<lessonVars, dReleased, dCurrent, places, rules, bounds>>

BootSavesRuntime ==
    /\ pc = "boot.runtime" /\ pc' = "boot.current"
    /\ Registry!SaveRuntime(0)
    /\ UNCHANGED <<lessonVars, released, current, places, rules, bounds>>

BootSavesCurrent ==
    /\ pc = "boot.current" /\ pc' = "idle"
    /\ Registry!SaveCurrentVersion(0)
    /\ UNCHANGED <<lessonVars, released, current, places, rules, bounds>>

-----------------------------------------------------------------------------
(* Service *)

AnswerLessonRequest ==
    LessonRequests /\ UNCHANGED <<registry, places, rules, bounds>>

SaveRequestedLesson ==
    SaveLesson /\ UNCHANGED <<registry, places, rules, bounds>>

\* A write raises: the handler ends with an error and memory stays ahead.
HandlerFails ==
    /\ pc = "save" /\ faults < MaxFaults
    /\ faults' = faults + 1
    /\ saving' = None /\ pc' = "idle"
    /\ UNCHANGED <<lessons, nextId, dLessons, registry, places, rules, crashes, harms>>

\* During the import it ends the process.
BootFails ==
    /\ pc \in {"boot.store", "boot.runtime", "boot.current"} /\ faults < MaxFaults
    /\ faults' = faults + 1
    /\ ProcessEnds
    /\ UNCHANGED <<crashes, harms>>

Crash ==
    /\ pc # "down" /\ crashes < MaxCrashes
    /\ crashes' = crashes + 1
    /\ ProcessEnds
    /\ UNCHANGED <<faults, harms>>

-----------------------------------------------------------------------------
(* Others: whoever can write to the store's file or to the constitution's.  *)

Harm ==
    /\ harms < MaxHarms /\ harms' = harms + 1
    /\ UNCHANGED <<lessons, nextId, saving, pc, registry, rules, crashes, faults>>

\* Another build opened the store, or its version cannot be read.
HarmSchema ==
    /\ schema' = "unusable"
    /\ Harm /\ UNCHANGED <<dLessons, rows, constitution>>

HarmRows(k, how) ==
    /\ rows' = [rows EXCEPT ![k] = how]
    /\ Harm /\ UNCHANGED <<dLessons, schema, constitution>>

HarmLesson(id, how) ==
    /\ IsLesson(dLessons[id])
    /\ dLessons' = [dLessons EXCEPT ![id] = how]
    /\ Harm /\ UNCHANGED places

EditConstitution(content) ==
    /\ content # file /\ file' = content
    /\ swapped' = (swapped \/ pc = "boot.load")
    /\ Harm /\ UNCHANGED <<dLessons, schema, rows, pin, pinned>>

LosePin ==
    /\ pin' = None
    /\ Harm /\ UNCHANGED <<dLessons, schema, rows, file, pinned, swapped>>

\* Somebody sees a server that is down and puts one thing right: installs the
\* build that can read the store, restores the rows of a kind, deletes a row that
\* stops the boot, or pins the constitution.
Repair ==
    /\ pc = "down"
    /\ \/ /\ schema = "unusable" /\ schema' = "ours"
          /\ UNCHANGED <<dLessons, rows, constitution>>
       \/ /\ \E k \in Kinds :
                rows[k] # "sound" /\ rows' = [rows EXCEPT ![k] = "sound"]
          /\ UNCHANGED <<dLessons, schema, constitution>>
       \/ /\ \E id \in Ids :
                /\ dLessons[id] = Unparseable
                /\ dLessons' = [dLessons EXCEPT ![id] = None]
          /\ UNCHANGED places
       \/ /\ pin # file /\ pin' = file /\ pinned' = pinned \cup {file}
          /\ UNCHANGED <<dLessons, schema, rows, file, swapped>>
    /\ UNCHANGED <<lessons, nextId, saving, pc, registry, rules, bounds>>

Others ==
    \/ HarmSchema
    \/ \E k \in Kinds, how \in {"misshapen", "unparseable"} : HarmRows(k, how)
    \/ \E id \in Ids, how \in {Misshapen, Unparseable} : HarmLesson(id, how)
    \/ \E content \in Contents : EditConstitution(content)
    \/ LosePin
    \/ Repair

-----------------------------------------------------------------------------

\* What a process does by itself once it runs.
BootStep ==
    \/ OpenStore \/ CheckPin \/ LoadAll \/ BootRefuses
    \/ BootstrapV0 \/ BootSavesRuntime \/ BootSavesCurrent

Next ==
    \/ Start \/ BootStep
    \/ AnswerLessonRequest \/ SaveRequestedLesson
    \/ HandlerFails \/ BootFails \/ Crash
    \/ Others

\* A boot and a handler that has changed memory are straight-line code.
Fairness == WF_vars(BootStep) /\ WF_vars(SaveRequestedLesson)

Spec == Init /\ [][Next]_vars /\ Fairness

-----------------------------------------------------------------------------
(* Properties *)

\* The rows of governed memory behave as the ledger, but for what others do to
\* them: no crash, failed write or reload makes a number name another claim, or
\* brings a quarantined lesson back.
LedgerSpec ==
    Ledger!Init /\ [][Ledger!Next \/ harms' # harms]_ReadableRows

\* What is served is never behind what was stored: each lesson that a reader of
\* the store finds is in memory, at its stored stage or a later one, so an
\* acknowledged quarantine holds in every later process.
ServedIsNotBehind ==
    Serving =>
        \A id \in Ids :
            ReadableRows[id] # None =>
                lessons[id] # None /\ IsOrWas(lessons[id], ReadableRows[id])

\* The constitution is the root of trust: whatever others edit or lose, before a
\* start or while the server runs, the rules in force are ones that were pinned,
\* but for an edit between the two reads of one boot.
RulesWerePinned == Serving => rules \in pinned \/ swapped

\* Where the places a boot reads are sound.
Sound == schema # "unusable" /\ PinHolds /\ ~ RowsStopTheBoot

\* What stops a boot is what others did: no boot, write, crash or repair makes a
\* store or a constitution that the next boot would take into one that it refuses,
\* whatever was damaged and repaired before.
OnlyOthersSpoil == [][Sound => Sound' \/ harms' # harms]_vars

\* No history makes the store unusable for the server's own next start: if others
\* leave it sound in the end and somebody starts the server whenever it is down,
\* it serves again and again, wherever it died in a bootstrap before.
ServerReturns ==
    []<>(pc # "down") /\ <>[]Sound => []<>(pc = "idle")
=============================================================================
