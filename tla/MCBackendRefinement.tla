------------------------ MODULE MCBackendRefinement ------------------------
(* Small instances of BackendRefinement for TLC. *)
EXTENDS BackendRefinement

CONSTANTS r1, r2, r3, a, b, p
=============================================================================
