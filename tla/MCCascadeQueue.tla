--------------------------- MODULE MCCascadeQueue ---------------------------
(* Values for model checking CascadeQueue: a fast server, one just at the   *)
(* point where the clamp of the budget bites, and limits around the cap.    *)
EXTENDS CascadeQueue

MCRtts == {20, 1875, 4000}
MCLimits == {-1, 0, 2, 3}
=============================================================================
