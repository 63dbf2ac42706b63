------------------------------- MODULE ReviewDiff -------------------------------
(***************************************************************************)
(* The review artefact: Governor.amendment_diff, which runs _apply_diff on *)
(* a shallow copy of a dump of the current runtime and reports the fields  *)
(* in which the copy and the dump differ afterwards.                       *)
(*                                                                         *)
(* The copy shares the dictionaries of the dump until a key of the diff    *)
(* replaces them.  A step is one turn of the loop of _apply_diff, so every *)
(* reachable state is the outcome of the loop for some diff.               *)
(***************************************************************************)
CONSTANTS
    Sections,       \* fields of a manifest that are dictionaries
    FlatSections,   \* those with a prefix of their own: "prompt_", "memory_"
    Scalars,        \* other fields, and keys a manifest does not have
    Entries,        \* keys of a section
    Values,
    None            \* an absent key

Fields == Sections \cup Scalars
Section == [Entries -> Values \cup {None}]

VARIABLES
    current,        \* the current runtime, in the registry
    parent,         \* parent_config: the dump that the report calls "from"
    result,         \* the copy that becomes candidate_config, "to"
    shared,         \* sections whose dictionary the copy has from the dump
    used            \* keys of the diff so far: <<field>>, or <<section, entry>>

vars == <<current, parent, result, shared, used>>

Manifest ==
    {m \in [Fields -> Section \cup Values \cup {None}] :
        \A f \in Fields : f \in Sections <=> m[f] \in Section}

Init ==
    /\ current \in Manifest
    /\ parent = current /\ result = current
    /\ shared = Sections
    /\ used = {}

IsNew(key) == key \notin used /\ used' = used \cup {key}

\* A section with a dictionary: a new one with the entries of both.
Merge(section, updates) ==
    /\ result[section] \in Section
    /\ IsNew(<<section>>)
    /\ result' = [result EXCEPT ![section] =
            [e \in Entries |-> IF e \in DOMAIN updates THEN updates[e] ELSE @[e]]]
    /\ shared' = shared \ {section}
    /\ UNCHANGED <<current, parent>>

\* A prefixed key: an entry is set in the dictionary that the copy has, which may
\* be the dump's.
SetFlat(section, entry, value) ==
    /\ result[section] \in Section
    /\ IsNew(<<section, entry>>)
    /\ result' = [result EXCEPT ![section][entry] = value]
    /\ parent' = IF section \in shared
                 THEN [parent EXCEPT ![section][entry] = value]
                 ELSE parent
    /\ UNCHANGED <<current, shared>>

\* Any other key, or a section with something else than a dictionary.
Replace(field, value) ==
    /\ IsNew(<<field>>)
    /\ result' = [result EXCEPT ![field] = value]
    /\ shared' = shared \ {field}
    /\ UNCHANGED <<current, parent>>

Next ==
    \/ \E section \in Sections, entries \in SUBSET Entries :
        \E updates \in [entries -> Values] : Merge(section, updates)
    \/ \E section \in FlatSections, entry \in Entries, value \in Values :
        SetFlat(section, entry, value)
    \/ \E field \in Fields, value \in Values : Replace(field, value)

Spec == Init /\ [][Next]_vars

-----------------------------------------------------------------------------
(* Properties *)

\* The fields that amendment_diff reports, and those that really change.
Report == {f \in Fields : parent[f] # result[f]}
Changes == {f \in Fields : current[f] # result[f]}

IsFlat(field) == \E entry \in Entries : <<field, entry>> \in used

\* A field is reported exactly if it changes, and from the value it has, as long as
\* the diff sets none of its entries with a prefixed key, whatever it does to
\* other fields and in whatever order.
NestedChangesAreShown ==
    \A f \in Fields :
        ~ IsFlat(f) => parent[f] = current[f] /\ (f \in Report <=> f \in Changes)

\* The report surfaces exactly what will change, prefixed keys included.  An entry
\* that is set in the shared dictionary changes "from" together with "to".
DiffShowsEveryChange == Report = Changes
=============================================================================
