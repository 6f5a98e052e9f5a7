----------------------------- MODULE MCDirectory -----------------------------
(* Small instances of Directory for TLC. *)
EXTENDS DirectoryRefinement

CONSTANTS r1, r2, r3, r4, ann, bob, cay, kake, bil, hus

\* More addresses than words, so that the words run out.
TwoWords   == <<kake, bil>>
ThreeWords == <<hus, kake, bil>>

\* What `rake db:setup` and then `rake db:seed` leave: each word is there twice.
SeededTwice == <<kake, bil, bil, kake>>
=============================================================================
