----------------------------- MODULE StartupClaims -----------------------------
(***************************************************************************)
(* What the repository says of startup and what its code does not keep.    *)
(***************************************************************************)
EXTENDS Startup

\* Invalid governance rows surface and are never skipped: a server that serves
\* has, of every row of a lesson that is none, the lesson it was, because the row
\* was damaged while it ran.  A row that was damaged before the boot is passed
\* over instead.
InvalidLessonsSurface ==
    Serving => \A id \in Ids : dLessons[id] = Misshapen => lessons[id] # None
=============================================================================
