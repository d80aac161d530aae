-------------------------- MODULE MCSecureChannel --------------------------
(***************************************************************************)
(* Two attempts, of two peers.                                             *)
(***************************************************************************)
EXTENDS SecureChannel

CONSTANTS p1, p2, i1, i2

MCOwner == [i \in {i1, i2} |-> IF i = i1 THEN p1 ELSE p2]
=============================================================================
