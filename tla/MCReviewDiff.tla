------------------------------ MODULE MCReviewDiff ------------------------------
(***************************************************************************)
(* A small instance of ReviewDiff for TLC.                                 *)
(***************************************************************************)
EXTENDS ReviewDiff
=============================================================================
