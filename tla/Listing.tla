------------------------------- MODULE Listing -------------------------------
(***************************************************************************)
(* The page the admin client shows a merchant (index, set_coupons): the    *)
(* coupons the merchant holds, those that have come back, and those that   *)
(* circulate.  The lists are made by the library from three histories,     *)
(* fetched one after another while the ledger of module Backend moves on.  *)
(* A list is the set of the outputs behind its lines.                      *)
(***************************************************************************)
EXTENDS BackendSafety

CONSTANTS create_address, return_address    \* of the merchant who looks

ASSUME ListingAssumption ==
    create_address # return_address /\ Nil \notin {create_address, return_address}

VARIABLE page   \* what the handler of the page has so far

\* Nothing is fetched yet.  since is how many outputs there were when the first
\* history was read; request is what current_user keeps for the next history.
NoPage == [step |-> "none", since |-> 0, request |-> Nil,
           created |-> {}, returned |-> {}, circulating |-> {}]

ListingInit == Init /\ page = NoPage

-----------------------------------------------------------------------------
(* Reading *)

\* User#output_history_request: the request that is generated first is kept,
\* and used for the other key as well.
RequestFor(address) == IF page.request = Nil THEN address ELSE page.request

OutputHistory(address) == History(RequestFor(address))

\* The library's getCoupons and getCouponOwners.
GetCoupons(address, history) ==
    {o \in DOMAIN history : history[o].receiver = address /\ history[o].input_id = 0}

GetCouponOwners(creator, history) ==
    {o \in DOMAIN history : history[o].creator = creator /\ history[o].input_id = 0}

\* Mutant: coupons that came back are not left out of those that circulate.
RejectOwn_CreateOnly(owned) == {o \in owned : outputs[o].receiver # create_address}

\* reject_if_current_user
RejectOwn(owned) ==
    {o \in owned : outputs[o].receiver \notin {create_address, return_address}}

-----------------------------------------------------------------------------
(* set_coupons, a history at a time *)

\* POST /backend/output_history waits for its turn like any other request.
Fetches(step) ==
    /\ page.step = step
    /\ Cardinality(InService) < Capacity
    /\ UNCHANGED vars

FetchCreated ==
    /\ Fetches("none")
    /\ page' = [page EXCEPT
         !.step = "created", !.since = Len(outputs),
         !.request = RequestFor(create_address),
         !.created = GetCoupons(create_address, OutputHistory(create_address))]

FetchReturned ==
    /\ Fetches("created")
    /\ page' = [page EXCEPT
         !.step = "returned",
         !.returned = GetCoupons(return_address, OutputHistory(return_address))]

FetchCirculating ==
    /\ Fetches("returned")
    /\ page' = [page EXCEPT
         !.step = "circulating",
         !.circulating =
            RejectOwn(GetCouponOwners(create_address, OutputHistory(create_address)))]

\* The page is sent, or a call raised and an error page is: either way the
\* handler's variables are gone, and the merchant may load the page again.
Finish ==
    /\ page.step = "circulating" \/ (Faults /\ page.step # "none")
    /\ page' = NoPage
    /\ UNCHANGED vars

Load == FetchCreated \/ FetchReturned \/ FetchCirculating \/ Finish

ListingNext == (Next /\ UNCHANGED page) \/ Load

ListingSpec == ListingInit /\ [][ListingNext]_<<vars, page>>

-----------------------------------------------------------------------------
(* Properties *)

\* The outputs that were there when the page began to load and still are.
Stayed == {o \in 1 .. page.since : ~Spent(o)}

\* Every coupon the merchant has issued that did not move while the page was
\* loaded is in exactly one of the lists, whatever else did: none is overlooked,
\* and none can be accepted or sent twice from two places.
EachCouponListedOnce ==
    page.step = "circulating" =>
        \A o \in Stayed : outputs[o].creator = create_address =>
            /\ o \in page.created \cup page.returned \cup page.circulating
            /\ o \in page.created => o \notin page.returned \cup page.circulating
            /\ o \notin page.returned \cap page.circulating

\* The list of returned coupons shows every coupon that the return address has
\* had since the page began to load.
ReturnedIsComplete ==
    page.step = "circulating" =>
        \A o \in Stayed : outputs[o].receiver = return_address => o \in page.returned
=============================================================================
