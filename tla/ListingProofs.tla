---------------------------- MODULE ListingProofs ----------------------------
(***************************************************************************)
(* A theorem about the page of a merchant, for any number of requests that *)
(* move the ledger while the page is put together, and any Capacity.       *)
(***************************************************************************)
EXTENDS Listing, BackendProofs

\* A mark that an output is spent may be overwritten, never removed.
LEMMA SpentForGood ==
    ASSUME HolderInv, NEW r \in Requests, Does(r),
           NEW o \in DOMAIN outputs, outputs[o].input_id # 0
    PROVE  outputs'[o].input_id # 0
<1>0. TypeOK /\ outputs[o] \in OutputRow
  BY LenProperties, ElementOfSeq DEF HolderInv, TypeOK
<1>1. CASE SaveOutput(r)
  <2>1. saved[r].input # 0
    <3>1. saved[r].input \in DOMAIN inputs
      BY <1>1 DEF SaveOutput, HolderInv, SpendIsPrepared
    <3> QED  BY <1>0, <3>1, LenProperties DEF TypeOK
  <2> QED  BY <1>0, <1>1, <2>1 DEF SaveOutput, OutputRow
<1>2. CASE SavePayment(r)
  <2> DEFINE t == request[r].transaction
  <2>1. CASE t.outputs = <<>>
    BY <1>2, <2>1 DEF SavePayment
  <2>2. CASE t.outputs # <<>>
    <3>1. OutputRowOf(t.outputs[1]) \in OutputRow
      BY <1>0, <1>2, <2>2, NewRowsType DEF SavePayment, TypeOK, Request
    <3>2. outputs' = Append(outputs, OutputRowOf(t.outputs[1]))
      BY <1>2, <2>2 DEF SavePayment
    <3> QED  BY <1>0, <3>1, <3>2, AppendRow DEF TypeOK
  <2> QED  BY <2>1, <2>2
<1>3. CASE SaveTransaction(r)
  <2>1. \/ outputs'[o] = outputs[o]
        \/ outputs'[o] = [outputs[o] EXCEPT !.transaction_id = transactions + 1]
    BY <1>3, AttachRow DEF SaveTransaction
  <2> QED  BY <1>0, <2>1 DEF OutputRow
<1>4. CASE outputs' = outputs
  BY <1>4
<1> QED  BY <1>1, <1>2, <1>3, <1>4 DEF Does, Handle, Submit, Abort, RefuseToken, Verify,
         SaveCreation, SaveInput, tables

\* What the ledger does to the outputs there are.
LEMMA OutputsStay ==
    ASSUME HolderInv, [Next]_vars
    PROVE  \A o \in DOMAIN outputs : /\ o \in DOMAIN outputs'
                                     /\ outputs'[o].creator = outputs[o].creator
                                     /\ outputs'[o].receiver = outputs[o].receiver
                                     /\ Spent(o) => Spent(o)'
<1>1. CASE \E r \in Requests : Does(r)
  BY <1>1, RowsStay, SpentForGood DEF HolderInv, SameOutput, Spent
<1>2. CASE UNCHANGED vars
  BY <1>2 DEF vars, tables, Spent
<1> QED  BY <1>1, <1>2 DEF Next, Terminating, Does

-----------------------------------------------------------------------------
(* What the handler of the page knows *)

Own == {create_address, return_address}

\* The list has outputs at the address only, and all of those that the merchant
\* issued and that have stayed there.
At(list, address) ==
    /\ \A o \in list : o \in DOMAIN outputs /\ outputs[o].receiver = address
    /\ \A o \in Stayed :
          (outputs[o].creator = create_address /\ outputs[o].receiver = address) => o \in list

\* Likewise for the addresses of everybody else.
Elsewhere(list) ==
    /\ \A o \in list : o \in DOMAIN outputs /\ outputs[o].receiver \notin Own
    /\ \A o \in Stayed :
          (outputs[o].creator = create_address /\ outputs[o].receiver \notin Own) => o \in list

Fields == {"step", "since", "request", "created", "returned", "circulating"}

PageInv ==
    /\ DOMAIN page = Fields
    /\ page.step \in {"none", "created", "returned", "circulating"}
    /\ page.since \in Nat /\ page.since <= Len(outputs)
    /\ page.step = "none" => page = NoPage
    /\ page.step # "none" => page.request = create_address /\ At(page.created, create_address)
    /\ page.step \in {"returned", "circulating"} => At(page.returned, return_address)
    /\ page.step = "circulating" => Elsewhere(page.circulating)

\* A list stays right while the ledger moves on.
LEMMA ListsStay ==
    ASSUME HolderInv, PageInv, [Next]_vars, UNCHANGED page
    PROVE  PageInv'
<1>1. /\ DOMAIN outputs = 1 .. Len(outputs) /\ Len(outputs) \in Nat
  BY LenProperties DEF HolderInv, TypeOK
<1>2. TypeOK'
  BY StepType DEF HolderInv
<1>3. DOMAIN outputs' = 1 .. Len(outputs') /\ Len(outputs') \in Nat
  BY <1>2, LenProperties DEF TypeOK
<1>4. Len(outputs) <= Len(outputs')
  <2>1. Len(outputs) = 0 \/ Len(outputs) \in DOMAIN outputs
    BY <1>1
  <2>2. Len(outputs) = 0 \/ Len(outputs) \in DOMAIN outputs'
    BY <2>1, OutputsStay
  <2> QED  BY <1>1, <1>3, <2>2
<1>5. 1 .. page.since \subseteq DOMAIN outputs
  BY <1>1 DEF PageInv
<1>6. Stayed' \subseteq Stayed
  BY <1>5, OutputsStay DEF Stayed
<1>7. \A o \in Stayed' : outputs'[o].creator = outputs[o].creator
                         /\ outputs'[o].receiver = outputs[o].receiver
  BY <1>5, <1>6, OutputsStay DEF Stayed
<1>8. ASSUME NEW list, NEW address, At(list, address) PROVE At(list, address)'
  BY <1>6, <1>7, <1>8, OutputsStay DEF At
<1>9. ASSUME NEW list, Elsewhere(list) PROVE Elsewhere(list)'
  BY <1>6, <1>7, <1>9, OutputsStay DEF Elsewhere
<1>10. page'.since \in Nat /\ page'.since <= Len(outputs')
  BY <1>1, <1>3, <1>4 DEF PageInv
<1>11. page.step # "none" => At(page.created, create_address)'
  <2> SUFFICES ASSUME page.step # "none" PROVE At(page.created, create_address)'
    OBVIOUS
  <2>1. At(page.created, create_address)
    BY DEF PageInv
  <2> QED  BY <1>8, <2>1 DEF At
<1>12. page.step \in {"returned", "circulating"} => At(page.returned, return_address)'
  BY <1>8 DEF PageInv, At
<1>13. page.step = "circulating" => Elsewhere(page.circulating)'
  BY <1>9 DEF PageInv, Elsewhere
<1> QED  BY <1>10, <1>11, <1>12, <1>13 DEF PageInv

\* What a fetch finds.
LEMMA ListsNow ==
    ASSUME HolderInv, PageInv, NEW address
    PROVE  /\ At(GetCoupons(address, History(create_address)), address)
           /\ Elsewhere(RejectOwn(GetCouponOwners(create_address, History(create_address))))
<1>1. Stayed \subseteq {o \in DOMAIN outputs : outputs[o].input_id = 0}
  BY LenProperties DEF HolderInv, TypeOK, PageInv, Stayed, Spent
<1>2. At(GetCoupons(address, History(create_address)), address)
  BY <1>1 DEF At, GetCoupons, History
<1>3. Elsewhere(RejectOwn(GetCouponOwners(create_address, History(create_address))))
  BY <1>1 DEF Elsewhere, Own, GetCouponOwners, RejectOwn, History
<1> QED  BY <1>2, <1>3

\* A step of the page's own handler.
LEMMA LoadStep ==
    ASSUME HolderInv, PageInv, Load PROVE PageInv'
<1>1. Len(outputs) \in Nat
  BY LenProperties DEF HolderInv, TypeOK
<1>2. UNCHANGED outputs
  BY DEF Load, FetchCreated, FetchReturned, FetchCirculating, Finish, Fetches, vars, tables
<1>3. page'.since = page.since => Stayed' = Stayed
  BY <1>2 DEF Stayed, Spent
<1>4. page.step # "none" => \A address : OutputHistory(address) = History(create_address)
  BY ListingAssumption DEF PageInv, OutputHistory, RequestFor
<1>5. CASE FetchCreated
  <2> DEFINE list == GetCoupons(create_address, History(create_address))
  <2>1. page = NoPage
    BY <1>5 DEF FetchCreated, Fetches, PageInv
  <2>2. page' = [NoPage EXCEPT !.step = "created", !.since = Len(outputs),
                               !.request = create_address, !.created = list]
    BY <1>5, <2>1 DEF FetchCreated, OutputHistory, RequestFor, NoPage
  <2>3. \A o \in list : o \in DOMAIN outputs /\ outputs[o].receiver = create_address
    BY ListsNow DEF At
  <2>4. \A o \in DOMAIN outputs :
           (~Spent(o) /\ outputs[o].creator = create_address
              /\ outputs[o].receiver = create_address) => o \in list
    BY DEF GetCoupons, History, Spent
  <2> HIDE DEF list
  <2>5. page'.step = "created" /\ page'.since = Len(outputs)
        /\ page'.request = create_address /\ page'.created = list
    BY <2>2 DEF NoPage
  <2>6. 1 .. Len(outputs) = DOMAIN outputs
    BY LenProperties DEF HolderInv, TypeOK
  <2>7. At(page.created, create_address)'
    <3>1. Stayed' = {o \in DOMAIN outputs : ~Spent(o)}
      BY <1>2, <2>5, <2>6 DEF Stayed, Spent
    <3> QED  BY <1>2, <2>3, <2>4, <2>5, <3>1 DEF At
  <2>8. DOMAIN page' = Fields
    BY <2>2 DEF NoPage, Fields
  <2> QED  BY <1>1, <1>2, <2>5, <2>7, <2>8 DEF PageInv
<1>6. CASE FetchReturned
  <2> DEFINE list == GetCoupons(return_address, History(create_address))
  <2>0. DOMAIN page' = Fields
    BY <1>6 DEF FetchReturned, PageInv
  <2>1. page.step = "created" /\ page' = [page EXCEPT !.step = "returned", !.returned = list]
    BY <1>4, <1>6 DEF FetchReturned, Fetches
  <2>2. At(list, return_address)
    BY ListsNow
  <2> HIDE DEF list
  <2>3. /\ page'.step = "returned" /\ page'.since = page.since /\ page'.request = page.request
        /\ page'.created = page.created /\ page'.returned = list
    BY <2>1 DEF PageInv, Fields
  <2>4. At(page.created, create_address)' /\ At(page.returned, return_address)'
    <3>1. At(page.created, create_address)
      BY <2>1 DEF PageInv
    <3> QED  BY <1>2, <1>3, <2>2, <2>3, <3>1 DEF At
  <2> QED  BY <1>2, <2>0, <2>1, <2>3, <2>4 DEF PageInv
<1>7. CASE FetchCirculating
  <2> DEFINE list == RejectOwn(GetCouponOwners(create_address, History(create_address)))
  <2>0. DOMAIN page' = Fields
    BY <1>7 DEF FetchCirculating, PageInv
  <2>1. page.step = "returned" /\ page' = [page EXCEPT !.step = "circulating", !.circulating = list]
    BY <1>4, <1>7 DEF FetchCirculating, Fetches
  <2>2. Elsewhere(list)
    BY ListsNow
  <2> HIDE DEF list
  <2>3. /\ page'.step = "circulating" /\ page'.since = page.since /\ page'.request = page.request
        /\ page'.created = page.created /\ page'.returned = page.returned
        /\ page'.circulating = list
    BY <2>1 DEF PageInv, Fields
  <2>4. /\ At(page.created, create_address)' /\ At(page.returned, return_address)'
        /\ Elsewhere(page.circulating)'
    <3>1. At(page.created, create_address) /\ At(page.returned, return_address)
      BY <2>1 DEF PageInv
    <3>2. At(page.created, create_address)' /\ At(page.returned, return_address)'
      BY <1>2, <1>3, <2>3, <3>1 DEF At
    <3>3. Elsewhere(page.circulating)'
      BY <1>2, <1>3, <2>2, <2>3 DEF Elsewhere
    <3> QED  BY <3>2, <3>3
  <2> QED  BY <1>2, <2>0, <2>1, <2>3, <2>4 DEF PageInv
<1>8. CASE Finish
  BY <1>1, <1>2, <1>8 DEF Finish, NoPage, PageInv, Fields
<1> QED  BY <1>5, <1>6, <1>7, <1>8 DEF Load

\* Each list is true to its address and complete of what stayed there, and the
\* handler's lists overlap in nothing: every coupon of the merchant's that stayed
\* where it was is shown once, whatever moved while the page was put together.
THEOREM CouponsAreListedOnce == ListingSpec => []EachCouponListedOnce
<1>1. ListingInit => Init /\ PageInv
  BY EmptySeq DEF ListingInit, Init, PageInv, NoPage, Fields
<1>2. [ListingNext]_<<vars, page>> => [Next]_vars
  BY DEF ListingNext, Load, FetchCreated, FetchReturned, FetchCirculating, Finish, Fetches
<1>3. ListingSpec => []HolderInv
  BY <1>1, <1>2, HolderInvariant, PTL DEF ListingSpec, Spec
<1>4. HolderInv /\ PageInv /\ [ListingNext]_<<vars, page>> => PageInv'
  BY ListsStay, LoadStep DEF ListingNext
<1>5. PageInv => EachCouponListedOnce
  BY ListingAssumption DEF PageInv, EachCouponListedOnce, At, Elsewhere, Own, Stayed
<1> QED  BY <1>1, <1>3, <1>4, <1>5, PTL DEF ListingSpec
=============================================================================
