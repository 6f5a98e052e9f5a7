-------------------------- MODULE BackendRefinement --------------------------
(***************************************************************************)
(* The tables and handlers of Backend, seen as a CouponLedger.             *)
(*                                                                         *)
(* A coupon is held by the receiver of an unspent output.  A transfer and  *)
(* a redeem are executed when save_output marks the output; an issue and a *)
(* transfer are settled when the new output is saved.  In between, the     *)
(* coupon of a transfer is on its way.                                     *)
(***************************************************************************)
EXTENDS BackendSafety

HeldBy(coupon, address) ==
    Total([o \in {o \in DOMAIN outputs : /\ ~Spent(o)
                                         /\ CouponOf(outputs[o]) = coupon
                                         /\ outputs[o].receiver = address}
             |-> outputs[o].amount])

Kind(t) ==
    IF t.creations # <<>> THEN "issue"
    ELSE IF t.outputs = <<>> THEN "redeem" ELSE "transfer"

supplyMap == [x \in Coupons \X Addresses |-> HeldBy(x[1], x[2])]

OrderOf(t) ==
    [kind   |-> Kind(t),
     coupon |-> CouponOf(IF t.outputs # <<>> THEN t.outputs[1]
                         ELSE outputs[t.inputs[1].referredOutput]),
     from   |-> t.signer,
     to     |-> IF t.outputs # <<>> THEN t.outputs[1].receiver ELSE t.signer]

\* A request the library never gets to judge asks nothing of the ledger.
Asking(r) == pc[r] # "idle" /\ Heard(r)

orderMap ==
    [r \in Requests |->
        IF Asking(r) THEN OrderOf(request[r].transaction) ELSE Nil]

\* The output a handler spends bears the mark of its own input.
Marked(r) ==
    LET i == saved[r].input
    IN  i # 0 /\ outputs[inputs[i].output_id].input_id = i

\* Where a handler that was cut off leaves its order.
FailedStatus(r) ==
    IF saved[r].output # 0 THEN "settled"
    ELSE IF Marked(r)
         THEN IF Kind(request[r].transaction) = "redeem" THEN "settled" ELSE "lost"
         ELSE "cut"

statusMap ==
    [r \in Requests |->
        IF ~Asking(r) THEN "none"
        ELSE CASE pc[r] = "refused"               -> "dropped"
               [] pc[r] = "unjudged"              -> "cut"
               [] pc[r] = "failed"                -> FailedStatus(r)
               [] pc[r] \in {"commit", "ok"}      -> "settled"
               [] pc[r] = "output" /\ Marked(r)   -> "executed"
               [] OTHER                           -> "placed"]

Issuer(coupon) == coupon.creator

Ledger == INSTANCE CouponLedger WITH
    Orders <- Requests, IssuerOf <- Issuer, NoOrder <- Nil,
    supply <- supplyMap, order <- orderMap, status <- statusMap

\* Behind a lock, every step of the backend is a step of the ledger or none, for
\* every kind of request: a transaction saved row by row, and cut off anywhere,
\* still looks like one that happened at one moment to somebody who held the coupon.
KeepsTheLedger == Ledger!SafetySpec

\* Every coupon that was ever created is in one unspent output, or was redeemed, or
\* is on its way in a handler, or was lost with one that was cut off between
\* save_output and the save of the new output.
EveryCouponAccounted == Ledger!CouponsAccounted

\* And it makes the progress of the ledger: no order stays undecided, and no coupon
\* stays on its way.  With KeepsTheLedger this is all of Ledger!Spec.
MakesProgress == Ledger!Progress
=============================================================================
