--------------------------- MODULE MCStripeWorker ---------------------------
(* The instance of StripeWorker for TLC: its liveness and its refinement    *)
(* are checked together, which rules out symmetry.                          *)
EXTENDS StripeWorker
=============================================================================
