------------------------- MODULE DirectoryRefinement -------------------------
(***************************************************************************)
(* The table of addresses, seen as a book of words: a word means what      *)
(* POST /backend/word answers.  The row a crash or an exhausted table of   *)
(* words leaves without a word is not in the book, and an address that two *)
(* handlers gave a word each is in it twice.                               *)
(***************************************************************************)
EXTENDS Directory

Book == INSTANCE WordBook WITH
    Words <- Spoken, Unassigned <- Nil,
    meaning <- [word \in Spoken |-> AddressOf(word)]

\* With distinct words the directory keeps the promise of the book: a word that
\* leads to an address leads to it for ever, whatever runs at once or is cut off.
KeepsTheBook == Book!Spec
=============================================================================
