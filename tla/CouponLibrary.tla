---------------------------- MODULE CouponLibrary ----------------------------
(***************************************************************************)
(* The part of the Bitcoupon Java library (bitcoin/bitcoin-2.0.jar, called *)
(* through Bitcoupon::Api::BitcoinCall) that decides what a transaction    *)
(* is, who may build it and when it is valid.  Pure operators: the library *)
(* keeps no state, it is run once per call with the JSON it needs on its   *)
(* command line.                                                           *)
(*                                                                         *)
(* A key pair is named by its address, so "signed with the private key of  *)
(* a" is signer = a.  A transaction is a record of sequences, as in the    *)
(* JSON.  An output history is a function from output ids to output rows.  *)
(***************************************************************************)
EXTENDS Integers, Sequences, Totals

\* What makes two outputs interchangeable: who issued them, and the payload.
CouponOf(x) == [creator |-> x.creator, payload |-> x.payload]

Pay(coupon, amount, receiver) ==
    [creator |-> coupon.creator, payload |-> coupon.payload,
     amount |-> amount, receiver |-> receiver]

-----------------------------------------------------------------------------
(* Building a transaction *)

\* generateCreateTransaction: the issuer pays itself the coupons it creates.
\* The command line passes no amount and the library takes 1.
GenerateCreateTransaction(key, payload, amount) ==
    [creations |-> <<[creator |-> key, payload |-> payload, amount |-> amount]>>,
     inputs    |-> <<>>,
     outputs   |-> <<Pay([creator |-> key, payload |-> payload], amount, key)>>,
     signer    |-> key]

\* The outputs of the history the owner of `key` can spend to pay `coupon`.
Spendable(key, coupon, history) ==
    {o \in DOMAIN history : /\ CouponOf(history[o]) = coupon
                            /\ history[o].receiver = key
                            /\ history[o].input_id = 0}

\* The library walks the history in order until it has one coupon; every
\* output carries at least one, so it stops at the first.
FirstSpendable(key, coupon, history) ==
    CHOOSE o \in Spendable(key, coupon, history) :
        \A p \in Spendable(key, coupon, history) : o <= p

\* What is left of the output after one coupon is taken goes back to its owner.
Change(key, coupon, amount) ==
    IF amount > 1 THEN <<Pay(coupon, amount - 1, key)>> ELSE <<>>

Spend(key, coupon, payment, history) ==
    LET o == FirstSpendable(key, coupon, history)
    IN  [creations |-> <<>>,
         inputs    |-> <<[referredOutput |-> o]>>,
         outputs   |-> payment \o Change(key, coupon, history[o].amount),
         signer    |-> key]

\* Both raise an exception, and so print nothing, when nothing is spendable.
GenerateSendTransaction(key, coupon, receiver, history) ==
    Spend(key, coupon, <<Pay(coupon, 1, receiver)>>, history)

GenerateDeleteTransaction(key, coupon, history) ==
    Spend(key, coupon, <<>>, history)

-----------------------------------------------------------------------------
(* Judging a transaction against an output history *)

\* The coupons of one kind that the creations and the inputs put in the pool.
\* An output referred to by two inputs is counted twice.
Available(t, coupon, history) ==
    Total([i \in {i \in DOMAIN t.creations : CouponOf(t.creations[i]) = coupon}
             |-> t.creations[i].amount])
    + Total([i \in {i \in DOMAIN t.inputs :
                       CouponOf(history[t.inputs[i].referredOutput]) = coupon}
             |-> history[t.inputs[i].referredOutput].amount])

\* The coupons of one kind that the outputs take out of the pool.
Taken(t, coupon) ==
    Total([i \in {i \in DOMAIN t.outputs : CouponOf(t.outputs[i]) = coupon}
             |-> t.outputs[i].amount])

\* Coupons may be left in the pool: that is how a coupon is deleted.
VerifyConsistency(t, history) ==
    /\ \A i \in DOMAIN t.creations : t.creations[i].amount > 0
    /\ \A i \in DOMAIN t.inputs :
          /\ t.inputs[i].referredOutput \in DOMAIN history
          /\ history[t.inputs[i].referredOutput].input_id = 0
    /\ \A i \in DOMAIN t.outputs :
          LET coupon == CouponOf(t.outputs[i])
          IN  /\ t.outputs[i].amount > 0
              /\ Taken(t, coupon) <= Available(t, coupon, history)

\* A creation is signed by the issuer, an input by the holder of the output.
VerifySignatures(t, history) ==
    /\ \A i \in DOMAIN t.creations : t.creations[i].creator = t.signer
    /\ \A i \in DOMAIN t.inputs :
          history[t.inputs[i].referredOutput].receiver = t.signer

VerifyTransaction(t, history) ==
    /\ VerifyConsistency(t, history)
    /\ VerifySignatures(t, history)
=============================================================================
