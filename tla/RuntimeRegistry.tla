---------------------------- MODULE RuntimeRegistry ----------------------------
(***************************************************************************)
(* The registry of immutable runtime versions: what the process holds in   *)
(* memory (_runtimes, _current_version) and the rows it keeps in the state *)
(* store (kinds "runtime" and "meta").  The module gives the registry's    *)
(* variables and its operations as operators on them; Governance.tla puts  *)
(* the operations in the order in which the request handlers call them.    *)
(*                                                                         *)
(* A version "v<N>" is the number N.  The content of a manifest is one     *)
(* function from configuration entries to values: an entry of prompts,     *)
(* memory or evaluation, or a field the pipeline may not touch (model      *)
(* identifier, tools, constitution version).  The manifest hash is the     *)
(* hashed content itself: SHA-256 is taken to be injective.                *)
(***************************************************************************)
EXTENDS Naturals

CONSTANTS
    Amendments,     \* identifiers the proposals draw from; each is used once
    Principals,     \* names of reviewers and proposers
    Keys,           \* entries of a runtime configuration
    Values,         \* values of an entry
    V0Config,       \* the content of the bootstrap runtime v0
    MaxVersion,     \* bound on version numbers
    None            \* Python's None, an absent row and an empty string

ASSUME MaxVersionAssumption == MaxVersion \in Nat

Versions == 0..MaxVersion
Config == [Keys -> Values]

ASSUME V0ConfigAssumption == V0Config \in Config

System == "system"

Manifest ==
    [parent    : Versions \cup {None},
     config    : Config,
     amendment : Amendments \cup {None},
     createdBy : Principals \cup {System}]

Candidate == [parent : Versions, config : Config, amendment : Amendments]

ASSUME NoneAssumption ==
    /\ None \notin Versions
    /\ None \notin Amendments
    /\ None \notin Principals
    /\ None \notin Manifest
    /\ None \notin Candidate

VARIABLES
    released,       \* memory: the released manifest of a version, or None
    candidates,     \* memory: the sandbox manifest of an amendment, or None
    current,        \* memory: _current_version
    dReleased,      \* store: released rows of kind "runtime"
    dCandidates,    \* store: sandbox rows of kind "runtime"
    dCurrent        \* store: row "current_version" of kind "meta"

memRegistry == <<released, candidates, current>>
diskRegistry == <<dReleased, dCandidates, dCurrent>>
registryVars == <<memRegistry, diskRegistry>>

RegistryTypeOK ==
    /\ released \in [Versions -> Manifest \cup {None}]
    /\ candidates \in [Amendments -> Candidate \cup {None}]
    /\ current \in Versions \cup {None}
    /\ dReleased \in [Versions -> Manifest \cup {None}]
    /\ dCandidates \in [Amendments -> Candidate \cup {None}]
    /\ dCurrent \in Versions \cup {None}

NoRuntimes == [v \in Versions |-> None]
NoCandidates == [a \in Amendments |-> None]

-----------------------------------------------------------------------------
(* Queries *)

Has(rows, v) == v \in Versions /\ rows[v] # None

\* Mutant: numbers above the current one are taken to be free.
HasVersion_UpToCurrent(v) == Has(released, v) /\ v <= current

\* has_version: a released runtime of that number exists in memory.
HasVersion(v) == Has(released, v)

\* The newest released version of a table of rows.
IsLatest(rows, v) == Has(rows, v) /\ \A w \in Versions : Has(rows, w) => w <= v

\* What __init__ and get_current make of a table of rows and a stored pointer:
\* the pointer if it resolves; v0 if there is no pointer and v0 exists;
\* otherwise the newest release, or nothing.
CurrentOf(rows, pointer) ==
    IF Has(rows, pointer) THEN pointer
    ELSE IF pointer = None /\ Has(rows, 0) THEN 0
    ELSE IF \E v \in Versions : Has(rows, v)
         THEN CHOOSE v \in Versions : IsLatest(rows, v)
         ELSE None

\* The number a promotion gives: the first free one above the current version.
IsNextVersion(v) ==
    /\ current \in Versions
    /\ v \in Versions
    /\ v > current
    /\ ~ HasVersion(v)
    /\ \A w \in Versions : current < w /\ w < v => HasVersion(w)

-----------------------------------------------------------------------------
(* Operations; the store's rows are written by the Save... operators, one  *)
(* transaction each, after the change in memory.                           *)

\* Mutant: the parent is read after the pointer has moved.
CreateRuntime_MovesFirst(v, config, by, a) ==
    /\ ~ HasVersion(v)
    /\ current' = v
    /\ released' = [released EXCEPT ![v] =
            [parent |-> IF v = 0 THEN None ELSE current', config |-> config,
             amendment |-> a, createdBy |-> by]]
    /\ UNCHANGED candidates

\* create_runtime up to its first save: a new manifest, and the pointer on it.
CreateRuntime(v, config, by, a) ==
    /\ ~ HasVersion(v)
    /\ released' = [released EXCEPT ![v] =
            [parent |-> current, config |-> config,
             amendment |-> a, createdBy |-> by]]
    /\ current' = v
    /\ UNCHANGED candidates

SaveRuntime(v) ==
    /\ dReleased' = [dReleased EXCEPT ![v] = released[v]]
    /\ UNCHANGED <<dCandidates, dCurrent>>

SaveCurrentVersion(v) ==
    /\ dCurrent' = v
    /\ UNCHANGED <<dReleased, dCandidates>>

\* register_candidate of a manifest whose identifier is new.
RegisterCandidate(c) ==
    /\ candidates[c.amendment] = None
    /\ candidates' = [candidates EXCEPT ![c.amendment] = c]
    /\ UNCHANGED <<released, current>>

SaveCandidate(a) ==
    /\ dCandidates' = [dCandidates EXCEPT ![a] = candidates[a]]
    /\ UNCHANGED <<dReleased, dCurrent>>

\* Mutant: any number is accepted.
RollbackTo_Unchecked(v) ==
    /\ current' = v
    /\ UNCHANGED <<released, candidates>>

\* rollback_to up to its save: only the pointer moves, only to a release.
RollbackTo(v) ==
    /\ HasVersion(v)
    /\ current' = v
    /\ UNCHANGED <<released, candidates>>

\* A process that dies leaves the rows and nothing else.
RegistryForgets ==
    /\ released' = NoRuntimes
    /\ candidates' = NoCandidates
    /\ current' = None

\* _load_from_persistence followed by the first get_current.
RegistryLoads ==
    /\ released' = dReleased
    /\ candidates' = dCandidates
    /\ current' = CurrentOf(dReleased, dCurrent)

RegistryInit ==
    /\ released = NoRuntimes
    /\ candidates = NoCandidates
    /\ current = None
    /\ dReleased = NoRuntimes
    /\ dCandidates = NoCandidates
    /\ dCurrent = None
=============================================================================
