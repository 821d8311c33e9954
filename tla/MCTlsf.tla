------------------------------- MODULE MCTlsf -------------------------------
(* Tlsf with four second-level lists, so that small, exact and rounded sizes   *)
(* all occur in a small pool.                                                 *)
EXTENDS Tlsf

MCRequests == {0, 9, 24, 65}
=============================================================================
