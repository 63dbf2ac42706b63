------------------------------ MODULE MCTelemetry ------------------------------
(***************************************************************************)
(* Small instances of Telemetry for TLC.                                   *)
(***************************************************************************)
EXTENDS Telemetry

CONSTANTS t1, t2, wrong, empty

\* Two tasks that fail with the same class, and one failure of another class.
MCSubmissions ==
    {[task |-> t1, class |-> wrong], [task |-> t2, class |-> wrong],
     [task |-> t1, class |-> empty]}

\* All records but one are trusted failures; the other may be a success or an
\* untrusted record, at any place among them.
MostlyFailures ==
    Cardinality(RecordedIn(dUntrusted))
        + Cardinality({r \in RecordedIn(records) : records[r].class = None}) <= 1
=============================================================================
