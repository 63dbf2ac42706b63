----------------------------- MODULE ReviewDiffProofs -----------------------------
(***************************************************************************)
(* What the review artefact can be trusted for, whatever the manifest and  *)
(* the diff: fields of which the diff sets no entry with a prefixed key.   *)
(***************************************************************************)
EXTENDS ReviewDiff, TLAPS

\* The dump only departs from the runtime in fields that a prefixed key was for.
Untouched ==
    /\ DOMAIN parent = Fields
    /\ \A f \in Fields : ~ IsFlat(f) => parent[f] = current[f]

LEMMA UntouchedHolds == Spec => []Untouched
<1>1. Init => Untouched
    BY DEF Init, Manifest, Untouched
<1>2. Untouched /\ [Next]_vars => Untouched'
    <2> SUFFICES ASSUME Untouched, [Next]_vars PROVE Untouched'
        OBVIOUS
    <2>1. ASSUME NEW section \in Sections, NEW updates, Merge(section, updates)
          PROVE  Untouched'
        BY <2>1 DEF Merge, IsNew, IsFlat, Untouched
    <2>2. ASSUME NEW section \in FlatSections, NEW entry \in Entries, NEW value,
                 SetFlat(section, entry, value)
          PROVE  Untouched'
        <3>1. IsFlat(section)'
            BY <2>2 DEF SetFlat, IsNew, IsFlat
        <3>2. \A f \in Fields : f # section => parent'[f] = parent[f]
            BY <2>2 DEF SetFlat, Untouched
        <3>3. \A f \in Fields : IsFlat(f) => IsFlat(f)'
            BY <2>2 DEF SetFlat, IsNew, IsFlat
        <3>4. DOMAIN parent' = Fields /\ current' = current
            BY <2>2 DEF SetFlat, Untouched
        <3> QED
            BY <3>1, <3>2, <3>3, <3>4 DEF Untouched
    <2>3. ASSUME NEW field \in Fields, NEW value, Replace(field, value)
          PROVE  Untouched'
        BY <2>3 DEF Replace, IsNew, IsFlat, Untouched
    <2>4. CASE UNCHANGED vars
        BY <2>4 DEF vars, IsFlat, Untouched
    <2> QED
        BY <2>1, <2>2, <2>3, <2>4 DEF Next
<1> QED
    BY <1>1, <1>2, PTL DEF Spec

\* A field is reported exactly if it changes, and from the value it has, as long as
\* the diff sets none of its entries with a prefixed key (Governor.amendment_diff
\* over _apply_diff), for every manifest, every diff and every order of its keys.
THEOREM NestedChangesAreReported == Spec => []NestedChangesAreShown
<1>1. Untouched => NestedChangesAreShown
    BY DEF Untouched, NestedChangesAreShown, Report, Changes
<1> QED
    BY <1>1, UntouchedHolds, PTL
=============================================================================
