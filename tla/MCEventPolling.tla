--------------------------- MODULE MCEventPolling ---------------------------
(***************************************************************************)
(* EventPolling for TLC.  Idempotency keys are only compared for equality, *)
(* so they are symmetric.                                                  *)
(***************************************************************************)
EXTENDS EventPolling

KeySymmetry == Permutations(Keys)
=============================================================================
