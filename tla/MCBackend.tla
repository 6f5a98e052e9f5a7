------------------------------ MODULE MCBackend ------------------------------
(* Small instances of Backend for TLC. *)
EXTENDS BackendSafety, TLC

CONSTANTS r1, r2, r3, r4, a, b, c, p

\* Sound for the safety runs only.  Nothing tells one request from another,
\* nor one address from another.
Interchangeable == Permutations(Requests) \cup Permutations(Addresses)
=============================================================================
