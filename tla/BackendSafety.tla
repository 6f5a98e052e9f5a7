---------------------------- MODULE BackendSafety ----------------------------
(***************************************************************************)
(* What the coupon ledger of module Backend must never do, stated over its *)
(* tables and the handlers that are writing them.                          *)
(***************************************************************************)
EXTENDS Backend

\* A row belongs to a transaction the backend saved.
Committed(row) == row.transaction_id # 0

Spent(o) == outputs[o].input_id # 0

\* No coupon is spent twice: the inputs of saved transactions refer to
\* different outputs.  At stake in Input.from_json and Input.save_output,
\* which overwrite the mark of the output without looking at it.
NoDoubleSpend ==
    \A i, j \in DOMAIN inputs :
        (i # j /\ Committed(inputs[i]) /\ Committed(inputs[j]))
            => inputs[i].output_id # inputs[j].output_id

\* A verdict is not stale when it is acted on: until a handler has marked the
\* output it spends, the transaction is still valid against the outputs as
\* they are now, not only as they were when verify read them.
VerdictStillHolds ==
    \A r \in Requests :
        pc[r] \in {"creation", "input", "spend"}
            => VerifyTransaction(request[r].transaction, AllHistory)

\* Who spent an output is decided once: the mark that Input.save_output writes is
\* never overwritten by a later one, nor taken back, also when the handler that
\* wrote it was cut off before its transaction was saved.
MarksForGood ==
    [][\A o \in DOMAIN outputs :
          Spent(o) => outputs'[o].input_id = outputs[o].input_id]_vars

\* A coupon leaves an address only by its holder's signature: the mark of a
\* spent output is an input that refers to that very output and carries the
\* signature of its receiver.
SpentOnlyByHolder ==
    \A o \in DOMAIN outputs : Spent(o) =>
        /\ outputs[o].input_id \in DOMAIN inputs
        /\ inputs[outputs[o].input_id].output_id = o
        /\ inputs[outputs[o].input_id].signature = outputs[o].receiver

\* A transaction answered with its id is in the database as a whole: every
\* creation, input and output of it is a row of that transaction, and the
\* outputs it spends are still marked by its own inputs.
AckIsDurable ==
    \A r \in Requests : pc[r] = "ok" =>
        LET t  == request[r].transaction
            id == saved[r].transaction
        IN  /\ \A k \in DOMAIN t.creations : \E i \in DOMAIN creations :
                  creations[i] = [CreationRowOf(t.creations[k], t.signer)
                                    EXCEPT !.transaction_id = id]
            /\ \A k \in DOMAIN t.inputs : \E i \in DOMAIN inputs :
                  /\ inputs[i] = [InputRowOf(t.inputs[k], t.signer)
                                    EXCEPT !.transaction_id = id]
                  /\ outputs[inputs[i].output_id].input_id = i
            /\ \A k \in DOMAIN t.outputs : \E o \in DOMAIN outputs :
                  [outputs[o] EXCEPT !.input_id = 0] =
                      [OutputRowOf(t.outputs[k]) EXCEPT !.transaction_id = id]

Coupons == [creator: Addresses, payload: Payloads]

\* The coupons of a kind in circulation, and those a handler has taken from
\* their holder and will give to the receiver in its next save.
Circulating(coupon) ==
    Total([o \in {o \in DOMAIN outputs : ~Spent(o) /\ CouponOf(outputs[o]) = coupon}
             |-> outputs[o].amount])

OnTheWay(r) == pc[r] = "output" /\ request[r].transaction.outputs # <<>>

Pending(coupon) ==
    Total([r \in {r \in Requests :
                    OnTheWay(r) /\ CouponOf(request[r].transaction.outputs[1]) = coupon}
             |-> request[r].transaction.outputs[1].amount])

Issued(coupon) ==
    Total([i \in {i \in DOMAIN creations : CouponOf(creations[i]) = coupon}
             |-> creations[i].amount])

\* Coupons come from their issuer's creations only: at no moment, and after no
\* crash, are more of a kind in circulation or on the way than were created.
SupplyBounded ==
    \A coupon \in Coupons :
        Circulating(coupon) + Pending(coupon) <= Issued(coupon)

\* The library gets to judge a request with the right token whose lists all
\* arrive as lists.
Heard(r) == CheckHeaders(request[r]) /\ NullLists(request[r]) = {}

\* An honest client that is heard gets a 401 for one of two reasons: somebody
\* spent the output between its reading the history and the backend's judging the
\* transaction, or the library could not be run and judged nothing.
RefusedForAReason ==
    \A r \in Requests :
        (pc[r] \in {"refused", "unjudged"} /\ Heard(r)) =>
            \/ \E k \in DOMAIN request[r].transaction.inputs :
                  Spent(request[r].transaction.inputs[k].referredOutput)
            \/ Faults /\ pc[r] = "unjudged"

\* A request that reached the backend is eventually answered, though handlers
\* before it may have died holding the place they ran in.
EveryRequestAnswered ==
    \A r \in Requests : pc[r] = "sent" ~> pc[r] \in Answered

-----------------------------------------------------------------------------
(* What the properties above rest on.  BackendProofs shows that these are   *)
(* kept by every step.                                                      *)

\* A transaction that was judged valid refers to outputs there are, and was
\* signed by their holder.
InputsAreOwn ==
    \A r \in Requests : pc[r] \in {"creation", "input", "spend"} =>
        LET t == request[r].transaction
        IN  \A k \in DOMAIN t.inputs :
               /\ t.inputs[k].referredOutput \in DOMAIN outputs
               /\ outputs[t.inputs[k].referredOutput].receiver = t.signer

\* Before a handler marks an output, it has saved the input to mark it with.
SpendIsPrepared ==
    \A r \in Requests : pc[r] = "spend" =>
        LET t == request[r].transaction
        IN  /\ 1 \in DOMAIN t.inputs
            /\ saved[r].input \in DOMAIN inputs
            /\ inputs[saved[r].input].output_id = t.inputs[1].referredOutput
            /\ inputs[saved[r].input].signature = t.signer

HolderInv == TypeOK /\ InputsAreOwn /\ SpendIsPrepared /\ SpentOnlyByHolder

\* One handler at a time.
Serial ==
    \A r, s \in Requests : pc[r] \in Saving /\ pc[s] \in Saving => r = s

\* From save_output on, the output bears the mark of the handler's own input.
OwnMark ==
    \A r \in Requests :
        (pc[r] \in {"output", "commit"} /\ saved[r].input # 0) =>
            /\ saved[r].input \in DOMAIN inputs
            /\ inputs[saved[r].input].output_id \in DOMAIN outputs
            /\ outputs[inputs[saved[r].input].output_id].input_id = saved[r].input

\* A handler that has not got to saving its input has no input.
NoInputYet ==
    \A r \in Requests :
        pc[r] \in {"idle", "sent", "creation", "input"} => saved[r].input = 0

\* The mark of an input of a saved transaction is never overwritten.
CommittedMark ==
    \A i \in DOMAIN inputs : Committed(inputs[i]) =>
        /\ inputs[i].output_id \in DOMAIN outputs
        /\ outputs[inputs[i].output_id].input_id = i

\* What makes a double spend impossible when handlers run one at a time.
SerialInv ==
    /\ HolderInv /\ Serial /\ VerdictStillHolds /\ OwnMark /\ NoInputYet
    /\ CommittedMark
=============================================================================
