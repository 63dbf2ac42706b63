------------------------------ MODULE LessonLedger ------------------------------
(***************************************************************************)
(* What governed memory promises to whoever reads its rows: a number names *)
(* one claim for good, and a lesson only moves on in its life, towards     *)
(* "deprecated" or into quarantine, from which nothing returns.            *)
(* Startup.tla implements it, whatever crashes and whichever write fails,  *)
(* as long as nobody else changes the rows.                                *)
(***************************************************************************)
EXTENDS Integers

CONSTANTS Ids, Claims, None

VARIABLE rows           \* the lesson of a number, or None

\* The life of a lesson in its order; a lesson may be quarantined in any of them.
Stage == [candidate |-> 1, validated |-> 2, active |-> 3, deprecated |-> 4,
          quarantined |-> 5]

Init == rows = [id \in Ids |-> None]

\* A lesson appears in the store, if its first write failed at a later stage.
Appear(id, lesson) ==
    /\ rows[id] = None /\ lesson # None
    /\ lesson.claim \in Claims /\ lesson.status \in DOMAIN Stage
    /\ rows' = [rows EXCEPT ![id] = lesson]

\* It moves on, over stages whose write failed.
MoveOn(id, status) ==
    /\ rows[id] # None
    /\ Stage[rows[id].status] < Stage[status]
    /\ rows' = [rows EXCEPT ![id].status = status]

Next ==
    \E id \in Ids :
        \/ Appear(id, rows'[id])
        \/ \E status \in DOMAIN Stage : MoveOn(id, status)

Spec == Init /\ [][Next]_rows
=============================================================================
