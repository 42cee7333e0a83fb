-------------------------- MODULE MCIncidentReview --------------------------
(* One operator, one comment, two requests.                                   *)
EXTENDS IncidentReview

CONSTANTS r1, r2, u1, c1
=============================================================================
