------------------------------ MODULE MCMerchant ------------------------------
(* Small instances of Merchant for TLC. *)
EXTENDS Merchant, TLC

CONSTANTS c1, c2, c3, m1, u1, u2, phone, burger, kake, bil

\* Sound for the safety runs only: nothing tells one click from
\* another, nor one word from another.
Interchangeable == Permutations(Clicks) \cup Permutations(Words)
=============================================================================
