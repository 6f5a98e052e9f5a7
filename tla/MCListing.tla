------------------------------ MODULE MCListing ------------------------------
(* Small instances of Listing for TLC. *)
EXTENDS Listing, TLC

CONSTANTS r1, r2, r3, r4, mine, till, phone, p

\* Sound: the merchant's addresses are told apart from all others, requests not.
Interchangeable == Permutations(Requests)

\* The admin client never creates a coupon with the key of the return address.
ReturnKeyIssuesNothing == \A i \in DOMAIN creations : creations[i].creator # return_address
=============================================================================
