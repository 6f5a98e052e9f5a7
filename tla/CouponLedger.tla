----------------------------- MODULE CouponLedger -----------------------------
(***************************************************************************)
(* What the backend promises, with no tables and no handlers: people hold  *)
(* coupons, and each order they place is carried out at most once, on a    *)
(* coupon its giver holds at that moment and nobody holds again until it   *)
(* arrives, or it is dropped.                                              *)
(*                                                                         *)
(* An order is dropped only for a rival that took such a coupon from the   *)
(* same address.  Two things the promise has to allow besides, because the *)
(* backend does, where a call may fail (Faults): an order may be cut, for a*)
(* reason of the server's own, and change nothing, and the coupon of a     *)
(* transfer may be lost on its way.  It is then nobody's: it never comes   *)
(* back, and it is never held twice.                                       *)
(***************************************************************************)
EXTENDS Integers, FiniteSets, Totals

CONSTANTS
    Orders,     \* each placed at most once
    Addresses,
    Coupons,    \* the kinds of coupon
    IssuerOf(_),\* the address that may issue a kind
    Faults,     \* may an order be cut off?
    NoOrder

VARIABLES
    supply,     \* supply[c, a]: how many coupons of kind c address a holds
    order,      \* what each order asks
    status      \* how far each order is

ledger == <<supply, order, status>>

Order == [kind : {"issue", "transfer", "redeem"}, coupon : Coupons,
          from : Addresses, to : Addresses]

Init ==
    /\ supply = [x \in Coupons \X Addresses |-> 0]
    /\ order = [o \in Orders |-> NoOrder]
    /\ status = [o \in Orders |-> "none"]

Asked(o, what) ==
    /\ status[o] = "none"
    /\ order' = [order EXCEPT ![o] = what]
    /\ status' = [status EXCEPT ![o] = "placed"]
    /\ UNCHANGED supply

Place(o) == \E what \in Order : Asked(o, what)

Asks(o, kind) == status[o] = "placed" /\ order[o].kind = kind

Becomes(o, s) == status' = [status EXCEPT ![o] = s] /\ UNCHANGED order

\* Only the issuer makes coupons, and it makes them for itself.
Issue(o) ==
    LET x == <<order[o].coupon, order[o].to>> IN
    /\ Asks(o, "issue")
    /\ order[o].from = IssuerOf(order[o].coupon) /\ order[o].to = order[o].from
    /\ supply' = [supply EXCEPT ![x] = @ + 1]
    /\ Becomes(o, "settled")

\* The coupon leaves the address that gives it away.
Take(o) ==
    /\ supply[<<order[o].coupon, order[o].from>>] > 0
    /\ supply' = [supply EXCEPT ![<<order[o].coupon, order[o].from>>] = @ - 1]

Transfer(o) == Asks(o, "transfer") /\ Take(o) /\ Becomes(o, "executed")

Redeem(o) == Asks(o, "redeem") /\ Take(o) /\ Becomes(o, "executed")

\* Another order has taken a coupon of this kind from the same address.
Rivalled(o) ==
    \E p \in Orders \ {o} :
        /\ status[p] \in {"executed", "settled", "lost"}
        /\ order[p].kind # "issue"
        /\ order[p].coupon = order[o].coupon /\ order[p].from = order[o].from

Drop(o) ==
    /\ status[o] = "placed" /\ order[o].kind # "issue" /\ Rivalled(o)
    /\ Becomes(o, "dropped") /\ UNCHANGED supply

\* An order that is cut off before it took a coupon takes none, nor does one that
\* could not be judged.
Cut(o) ==
    /\ Faults
    /\ status[o] = "placed"
    /\ Becomes(o, "cut") /\ UNCHANGED supply

\* A coupon that was taken is on its way, and arrives in a step of its own.
Settle(o) ==
    /\ status[o] = "executed"
    /\ IF order[o].kind = "transfer"
       THEN supply' = [supply EXCEPT ![<<order[o].coupon, order[o].to>>] = @ + 1]
       ELSE UNCHANGED supply
    /\ Becomes(o, "settled")

Lose(o) ==
    /\ Faults
    /\ status[o] = "executed" /\ order[o].kind = "transfer"
    /\ Becomes(o, "lost") /\ UNCHANGED supply

Decide(o) == Issue(o) \/ Transfer(o) \/ Redeem(o) \/ Drop(o) \/ Cut(o)

Finish(o) == Settle(o) \/ Lose(o)

Next == \E o \in Orders : Place(o) \/ Decide(o) \/ Finish(o)

\* What may happen, without what must.
SafetySpec == Init /\ [][Next]_ledger

\* A placed order does not stay undecided, nor an executed one unfinished.
Progress == \A o \in Orders : WF_ledger(Decide(o)) /\ WF_ledger(Finish(o))

Spec == SafetySpec /\ Progress

-----------------------------------------------------------------------------
(* What follows from the promise *)

Count(coupon, kinds, outcomes) ==
    Cardinality({o \in Orders : /\ status[o] \in outcomes
                                /\ order[o].kind \in kinds
                                /\ order[o].coupon = coupon})

\* Every coupon ever issued is held by one address, or on its way, or was lost on
\* its way with a transfer that was cut off, or was redeemed: no coupon is made
\* or lost in another way.
CouponsAccounted ==
    \A coupon \in Coupons :
        Total([a \in Addresses |-> supply[<<coupon, a>>]])
          + Count(coupon, {"transfer"}, {"executed", "lost"})
          + Count(coupon, {"redeem"}, {"executed", "settled"})
        = Count(coupon, {"issue"}, {"settled"})
=============================================================================
