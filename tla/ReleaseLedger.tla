----------------------------- MODULE ReleaseLedger -----------------------------
(***************************************************************************)
(* What the runtime registry promises to whoever reads its store: a ledger *)
(* of numbered releases that only grows, in which every release but v0     *)
(* grew out of an earlier one and keeps the entries no amendment may touch *)
(* as they were in v0, and a pointer that always names one of them.        *)
(* Governance.tla implements it as long as the store takes every write.    *)
(***************************************************************************)
EXTENDS Naturals

CONSTANTS Versions, Manifests, V0Config, Forbidden, None

VARIABLES
    ledger,         \* the release of a version, or None
    pointer         \* the version in use, or None before the first one

Released(v) == ledger[v] # None

Init ==
    /\ ledger = [v \in Versions |-> None]
    /\ pointer = None

KeepsScope(m) == \A k \in Forbidden : m.config[k] = V0Config[k]

\* A new release under a free number.
Release(v, m) ==
    /\ ~ Released(v)
    /\ KeepsScope(m)
    /\ IF v = 0
       THEN m.parent = None
       ELSE m.parent \in {w \in Versions : w < v /\ Released(w)}
    /\ ledger' = [ledger EXCEPT ![v] = m]
    /\ UNCHANGED pointer

\* The pointer moves to a release, newer or older.
Point(v) ==
    /\ Released(v)
    /\ pointer' = v
    /\ UNCHANGED ledger

Next ==
    \/ \E v \in Versions : ledger'[v] \in Manifests /\ Release(v, ledger'[v])
    \/ \E v \in Versions : Point(v)

Spec == Init /\ [][Next]_<<ledger, pointer>>
=============================================================================
