------------------------------- MODULE MCUsers -------------------------------
(* Small instances of Users for TLC. *)
EXTENDS Users, TLC

CONSTANTS b1, b2, r1, r2, e1, e2, long1, short

\* Sound: nothing tells one browser, request or email from another.
Interchangeable ==
    Permutations(Browsers) \cup Permutations(Requests) \cup Permutations(Emails)
=============================================================================
