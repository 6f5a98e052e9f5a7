---------------------------- MODULE BackendProofs ----------------------------
(***************************************************************************)
(* Theorems about the coupon ledger of module Backend, for any number of   *)
(* requests, addresses, payloads and amounts.                              *)
(***************************************************************************)
EXTENDS BackendSafety, TableFacts, SequenceTheorems, FiniteSetTheorems, TLAPS

-----------------------------------------------------------------------------
(* Attaching rows *)

\* Attaching a row to a transaction changes nothing else, in any table.
LEMMA AttachRow ==
    ASSUME NEW rows, NEW id, NEW t
    PROVE  /\ DOMAIN Attach(rows, id, t) = DOMAIN rows
           /\ \A i \in DOMAIN rows :
                 Attach(rows, id, t)[i] =
                    IF i = id /\ id # 0 THEN [rows[i] EXCEPT !.transaction_id = t]
                    ELSE rows[i]
  BY DEF Attach

\* Attaching keeps the type of a table, given that it keeps the type of a row.
LEMMA AttachType ==
    ASSUME NEW S, NEW rows \in Seq(S), NEW id, NEW t,
           \A row \in S : [row EXCEPT !.transaction_id = t] \in S
    PROVE  Attach(rows, id, t) \in Seq(S)
<1>1. CASE id = 0
  BY <1>1 DEF Attach
<1>2. CASE id # 0 /\ id \in 1 .. Len(rows)
  BY <1>2, ExceptSeq, ElementOfSeq DEF Attach
<1>3. CASE id # 0 /\ id \notin 1 .. Len(rows)
  <2>1. Attach(rows, id, t) = rows
    BY <1>3, LenProperties DEF Attach
  <2> QED  BY <2>1
<1> QED  BY <1>1, <1>2, <1>3

-----------------------------------------------------------------------------
(* Type correctness *)

LEMMA SingletonSeq ==
    ASSUME NEW S, NEW e \in S
    PROVE  <<e>> \in Seq(S) /\ Len(<<e>>) = 1 /\ <<e>>[1] = e
  OBVIOUS

\* What the client finds in its history are rows of the table of outputs.
LEMMA HistoryRows ==
    ASSUME outputs \in Seq(OutputRow), NEW key
    PROVE  /\ DOMAIN History(key) \in SUBSET Nat
           /\ \A o \in DOMAIN History(key) :
                 o \in DOMAIN outputs /\ History(key)[o] = outputs[o]
           /\ \A o \in DOMAIN History(key) : History(key)[o] \in OutputRow
<1>1. DOMAIN outputs = 1 .. Len(outputs) /\ Len(outputs) \in Nat
  BY LenProperties
<1>2. \A o \in DOMAIN outputs : outputs[o] \in OutputRow
  BY <1>1, ElementOfSeq
<1> QED  BY <1>1, <1>2 DEF History

\* Spending takes an output of the client's own, by its only input.
LEMMA SpendType ==
    ASSUME outputs \in Seq(OutputRow), NEW key \in Addresses, NEW coupon,
           Spendable(key, coupon, History(key)) # {},
           NEW payment \in Seq(Payment)
    PROVE  Spend(key, coupon, payment, History(key)) \in Transaction
<1> DEFINE h == History(key)
           o == FirstSpendable(key, coupon, h)
           change == Change(key, coupon, h[o].amount)
<1>1. Spendable(key, coupon, h) \in SUBSET Nat
  BY HistoryRows DEF Spendable
<1>2. o \in Spendable(key, coupon, h)
  BY <1>1, LeastMember DEF FirstSpendable
<1>3. o \in Nat /\ h[o] \in OutputRow /\ CouponOf(h[o]) = coupon
  BY <1>1, <1>2, HistoryRows DEF Spendable
<1>4. coupon.creator \in Addresses /\ coupon.payload \in Payloads /\ h[o].amount \in Nat
  BY <1>3 DEF OutputRow, CouponOf
<1>5. change \in Seq(Payment)
  <2>1. CASE h[o].amount > 1
    <3>1. Pay(coupon, h[o].amount - 1, key) \in Payment
      BY <1>4, <2>1 DEF Pay, Payment
    <3> QED  BY <2>1, <3>1, SingletonSeq DEF Change
  <2>2. CASE ~(h[o].amount > 1)
    BY <2>2, EmptySeq DEF Change
  <2> QED  BY <2>1, <2>2
<1>6. payment \o change \in Seq(Payment)
  BY <1>5, ConcatProperties
<1>7. <<[referredOutput |-> o]>> \in Seq(Reference)
  BY <1>3, SingletonSeq DEF Reference
<1>8. <<>> \in Seq(Creation)
  BY EmptySeq
<1> QED  BY <1>6, <1>7, <1>8 DEF Spend, Transaction

LEMMA GeneratedType ==
    ASSUME outputs \in Seq(OutputRow), NEW key \in Addresses,
           NEW t \in Generated(key)
    PROVE  t \in Transaction
<1> DEFINE h == History(key)
           coupons == {CouponOf(h[o]) : o \in {o \in DOMAIN h : h[o].receiver = key}}
<1>1. ASSUME NEW p \in Payloads, NEW n \in Amounts
      PROVE  GenerateCreateTransaction(key, p, n) \in Transaction
  <2>1. n \in Nat
    BY ConstantsAssumption
  <2>2. [creator |-> key, payload |-> p, amount |-> n] \in Creation
    BY <2>1 DEF Creation
  <2>3. Pay([creator |-> key, payload |-> p], n, key) \in Payment
    BY <2>1 DEF Pay, Payment
  <2> QED  BY <2>2, <2>3, SingletonSeq, EmptySeq
           DEF GenerateCreateTransaction, Transaction
<1>2. \A c \in coupons : /\ Spendable(key, c, h) # {}
                         /\ c.creator \in Addresses /\ c.payload \in Payloads
  <2> TAKE c \in coupons
  <2>1. PICK o \in DOMAIN h : h[o].receiver = key /\ c = CouponOf(h[o])
    OBVIOUS
  <2>2. h[o] \in OutputRow
    BY HistoryRows
  <2>3. h[o].input_id = 0
    BY DEF History
  <2>4. o \in Spendable(key, c, h)
    BY <2>1, <2>3 DEF Spendable
  <2> QED  BY <2>1, <2>2, <2>4 DEF CouponOf, OutputRow
<1>3. ASSUME NEW c \in coupons, NEW to \in Addresses
      PROVE  GenerateSendTransaction(key, c, to, h) \in Transaction
  <2>1. Pay(c, 1, to) \in Payment
    BY <1>2 DEF Pay, Payment
  <2> QED  BY <2>1, <1>2, SingletonSeq, SpendType DEF GenerateSendTransaction
<1>4. ASSUME NEW c \in coupons
      PROVE  GenerateDeleteTransaction(key, c, h) \in Transaction
  BY <1>2, EmptySeq, SpendType DEF GenerateDeleteTransaction
<1> QED  BY <1>1, <1>3, <1>4 DEF Generated

\* The rows the handlers append have the type of their table.
LEMMA NewRowsType ==
    ASSUME NEW t \in Transaction
    PROVE  /\ t.creations # <<>> => CreationRowOf(t.creations[1], t.signer) \in CreationRow
           /\ t.inputs # <<>> => InputRowOf(t.inputs[1], t.signer) \in InputRow
           /\ t.outputs # <<>> => OutputRowOf(t.outputs[1]) \in OutputRow
<1>1. t.creations # <<>> => t.creations[1] \in Creation
  BY ElementOfSeq, EmptySeq DEF Transaction
<1>2. t.inputs # <<>> => t.inputs[1] \in Reference
  BY ElementOfSeq, EmptySeq DEF Transaction
<1>3. t.outputs # <<>> => t.outputs[1] \in Payment
  BY ElementOfSeq, EmptySeq DEF Transaction
<1>4. t.signer \in Addresses
  BY DEF Transaction
<1> QED  BY <1>1, <1>2, <1>3, <1>4
         DEF CreationRowOf, InputRowOf, OutputRowOf, Creation, Reference, Payment,
             CreationRow, InputRow, OutputRow

LEMMA InitType == Init => TypeOK
<1> SUFFICES ASSUME Init PROVE TypeOK
  OBVIOUS
<1>1. creations \in Seq(CreationRow) /\ inputs \in Seq(InputRow) /\ outputs \in Seq(OutputRow)
  BY EmptySeq DEF Init
<1> QED  BY <1>1 DEF Init, TypeOK, Saving, Answered

\* What each outcome of a run of the library says.
LEMMA VerifyStep ==
    ASSUME TypeOK, NEW r \in Requests, Verify(r)
    PROVE  LET q == request[r]
           IN  /\ pc[r] = "sent" /\ UNCHANGED <<tables, request, saved>>
               /\ pc' = [pc EXCEPT ![r] = pc'[r]]
               /\ pc'[r] \in {"creation", "refused", "unjudged"}
               /\ pc'[r] = "creation" =>
                     NullLists(q) = {} /\ VerifyTransaction(q.transaction, AllHistory)
               /\ pc'[r] = "refused" =>
                     NullLists(q) = {} /\ ~VerifyTransaction(q.transaction, AllHistory)
               /\ pc'[r] = "unjudged" /\ NullLists(q) = {} => Faults
<1>1. PICK output \in Printed(request[r]) : pc' = [pc EXCEPT ![r] = Verdict(output)]
  BY DEF Verify
<1>2. output \in {"", "true", "false"}
  BY DEF Printed
<1>3. pc'[r] = Verdict(output)
  BY <1>1 DEF TypeOK
<1>4. pc[r] = "sent" /\ UNCHANGED <<tables, request, saved>>
  BY DEF Verify
<1>5. pc' = [pc EXCEPT ![r] = pc'[r]]
  BY <1>1, <1>3
<1> QED  BY <1>2, <1>3, <1>4, <1>5 DEF Printed, Verdict

LEMMA StepType == TypeOK /\ [Next]_vars => TypeOK'
<1> SUFFICES ASSUME TypeOK, [Next]_vars PROVE TypeOK'
  OBVIOUS
<1> USE DEF Saving, Answered
<1>1. ASSUME NEW r \in Requests, Submit(r) PROVE TypeOK'
  <2>0. PICK key \in Addresses, token \in Tokens, form \in Forms :
           \E t \in Generated(key) :
              request' = [request EXCEPT ![r] =
                            [token |-> token, form |-> form, transaction |-> t]]
    BY <1>1 DEF Submit
  <2>1. PICK t \in Generated(key) :
           request' = [request EXCEPT ![r] =
                         [token |-> token, form |-> form, transaction |-> t]]
    BY <2>0
  <2>2. [token |-> token, form |-> form, transaction |-> t] \in Request
    BY GeneratedType DEF Request, TypeOK
  <2>3. request' \in [Requests -> Request \cup {Nil}] /\ request'[r] \in Request
    BY <2>1, <2>2 DEF TypeOK
  <2>4. \A s \in Requests : pc'[s] # "idle" => request'[s] \in Request
    BY <1>1, <2>1, <2>3 DEF TypeOK, Submit
  <2> QED  BY <1>1, <2>3, <2>4 DEF TypeOK, Submit, tables
<1>2. ASSUME NEW r \in Requests, RefuseToken(r) \/ Verify(r) \/ Abort(r) PROVE TypeOK'
  <2>1. CASE Verify(r)
    BY <2>1, VerifyStep DEF TypeOK, tables
  <2>2. CASE RefuseToken(r) \/ Abort(r)
    BY <2>2 DEF TypeOK, RefuseToken, Abort, tables
  <2> QED  BY <1>2, <2>1, <2>2
<1>3. ASSUME NEW r \in Requests, SaveCreation(r) PROVE TypeOK'
  <2>1. request[r].transaction \in Transaction
    BY <1>3 DEF SaveCreation, TypeOK, Request
  <2> DEFINE t == request[r].transaction
  <2>2. CASE t.creations = <<>>
    BY <1>3, <2>2 DEF SaveCreation, TypeOK
  <2>3. CASE t.creations # <<>>
    <3>1. CreationRowOf(t.creations[1], t.signer) \in CreationRow
      BY <2>1, <2>3, NewRowsType
    <3>2. /\ creations' = Append(creations, CreationRowOf(t.creations[1], t.signer))
          /\ saved' = [saved EXCEPT ![r].creation = Len(creations) + 1]
      BY <1>3, <2>3 DEF SaveCreation
    <3>3. creations' \in Seq(CreationRow) /\ Len(creations) + 1 \in Nat
      BY <3>1, <3>2, AppendRow DEF TypeOK
    <3> QED  BY <1>3, <3>2, <3>3 DEF SaveCreation, TypeOK
  <2> QED  BY <2>2, <2>3
<1>4. ASSUME NEW r \in Requests, SaveInput(r) PROVE TypeOK'
  <2>1. request[r].transaction \in Transaction
    BY <1>4 DEF SaveInput, TypeOK, Request
  <2> DEFINE t == request[r].transaction
  <2>2. CASE t.inputs = <<>>
    BY <1>4, <2>2 DEF SaveInput, TypeOK
  <2>3. CASE t.inputs # <<>>
    <3>1. InputRowOf(t.inputs[1], t.signer) \in InputRow
      BY <2>1, <2>3, NewRowsType
    <3>2. /\ inputs' = Append(inputs, InputRowOf(t.inputs[1], t.signer))
          /\ saved' = [saved EXCEPT ![r].input = Len(inputs) + 1]
      BY <1>4, <2>3 DEF SaveInput
    <3>3. inputs' \in Seq(InputRow) /\ Len(inputs) + 1 \in Nat
      BY <3>1, <3>2, AppendRow DEF TypeOK
    <3> QED  BY <1>4, <3>2, <3>3 DEF SaveInput, TypeOK
  <2> QED  BY <2>2, <2>3
<1>5. ASSUME NEW r \in Requests, SaveOutput(r) PROVE TypeOK'
  <2> DEFINE i == saved[r].input
             o == inputs[i].output_id
  <2>1. outputs' = [outputs EXCEPT ![o].input_id = i] /\ i \in Nat
    BY <1>5 DEF SaveOutput, TypeOK
  <2>2. outputs' \in Seq(OutputRow)
    <3>1. CASE o \in 1 .. Len(outputs)
      <4>1. outputs[o] \in OutputRow
        BY <3>1, ElementOfSeq DEF TypeOK
      <4>2. [outputs[o] EXCEPT !.input_id = i] \in OutputRow
        BY <2>1, <4>1 DEF OutputRow
      <4>3. outputs' = [outputs EXCEPT ![o] = [outputs[o] EXCEPT !.input_id = i]]
        BY <2>1, <4>1, LenProperties DEF TypeOK
      <4> QED  BY <3>1, <4>2, <4>3, ExceptSeq DEF TypeOK
    <3>2. CASE o \notin 1 .. Len(outputs)
      <4>1. outputs \in [1 .. Len(outputs) -> OutputRow]
        BY LenProperties DEF TypeOK
      <4>2. outputs' = outputs
        BY <2>1, <3>2, <4>1
      <4> QED  BY <4>2 DEF TypeOK
    <3> QED  BY <3>1, <3>2
  <2> QED  BY <1>5, <2>2 DEF SaveOutput, TypeOK
<1>6. ASSUME NEW r \in Requests, SavePayment(r) PROVE TypeOK'
  <2>1. request[r].transaction \in Transaction
    BY <1>6 DEF SavePayment, TypeOK, Request
  <2> DEFINE t == request[r].transaction
  <2>2. CASE t.outputs = <<>>
    BY <1>6, <2>2 DEF SavePayment, TypeOK
  <2>3. CASE t.outputs # <<>>
    <3>1. OutputRowOf(t.outputs[1]) \in OutputRow
      BY <2>1, <2>3, NewRowsType
    <3>2. /\ outputs' = Append(outputs, OutputRowOf(t.outputs[1]))
          /\ saved' = [saved EXCEPT ![r].output = Len(outputs) + 1]
      BY <1>6, <2>3 DEF SavePayment
    <3>3. outputs' \in Seq(OutputRow) /\ Len(outputs) + 1 \in Nat
      BY <3>1, <3>2, AppendRow DEF TypeOK
    <3> QED  BY <1>6, <3>2, <3>3 DEF SavePayment, TypeOK
  <2> QED  BY <2>2, <2>3
<1>7. ASSUME NEW r \in Requests, SaveTransaction(r) PROVE TypeOK'
  <2>1. transactions + 1 \in Nat
    BY DEF TypeOK
  <2>2. creations' \in Seq(CreationRow)
    BY <1>7, <2>1, AttachType DEF SaveTransaction, TypeOK, CreationRow
  <2>3. inputs' \in Seq(InputRow)
    BY <1>7, <2>1, AttachType DEF SaveTransaction, TypeOK, InputRow
  <2>4. outputs' \in Seq(OutputRow)
    BY <1>7, <2>1, AttachType DEF SaveTransaction, TypeOK, OutputRow
  <2> QED  BY <1>7, <2>1, <2>2, <2>3, <2>4 DEF SaveTransaction, TypeOK
<1>8. CASE UNCHANGED vars
  BY <1>8 DEF vars, tables, TypeOK
<1> QED  BY <1>1, <1>2, <1>3, <1>4, <1>5, <1>6, <1>7, <1>8 DEF Next, Handle, Terminating

\* The tables and the handlers' locals keep their types.
THEOREM TypeCorrect == Spec => []TypeOK
  BY InitType, StepType, PTL DEF Spec

-----------------------------------------------------------------------------
(* A coupon leaves an address by its holder's signature only               *)

Does(r) == Submit(r) \/ Handle(r) \/ Abort(r)

\* A step of one request leaves the locals of the others alone.
LEMMA OthersUntouched ==
    ASSUME TypeOK, NEW r \in Requests, Does(r)
    PROVE  \A s \in Requests : s # r =>
              pc'[s] = pc[s] /\ request'[s] = request[s] /\ saved'[s] = saved[s]
<1> USE DEF TypeOK
<1>1. CASE Submit(r)
  BY <1>1 DEF Submit
<1>2. CASE Abort(r) \/ RefuseToken(r) \/ Verify(r)
  BY <1>2 DEF Abort, RefuseToken, Verify
<1>3. CASE SaveCreation(r)
  BY <1>3 DEF SaveCreation
<1>4. CASE SaveInput(r)
  BY <1>4 DEF SaveInput
<1>5. CASE SaveOutput(r)
  BY <1>5 DEF SaveOutput
<1>6. CASE SavePayment(r)
  BY <1>6 DEF SavePayment
<1>7. CASE SaveTransaction(r)
  BY <1>7 DEF SaveTransaction
<1> QED  BY <1>1, <1>2, <1>3, <1>4, <1>5, <1>6, <1>7 DEF Does, Handle

\* What an input row and an output row say for good.
SameInput(i)  == /\ inputs'[i].output_id = inputs[i].output_id
                 /\ inputs'[i].signature = inputs[i].signature
SameOutput(o) == /\ outputs'[o].receiver = outputs[o].receiver
                 /\ outputs'[o].creator = outputs[o].creator

\* Saving and attaching keep the rows there are.
LEMMA RowsStay ==
    ASSUME TypeOK, NEW r \in Requests, Does(r)
    PROVE  /\ \A i \in DOMAIN inputs : i \in DOMAIN inputs' /\ SameInput(i)
           /\ \A o \in DOMAIN outputs : o \in DOMAIN outputs' /\ SameOutput(o)
<1> USE DEF SameInput, SameOutput
<1>1. CASE UNCHANGED <<inputs, outputs>>
  BY <1>1
<1>2. CASE SaveInput(r)
  <2> DEFINE t == request[r].transaction
  <2>1. CASE t.inputs = <<>>
    BY <1>2, <2>1, <1>1 DEF SaveInput
  <2>2. CASE t.inputs # <<>>
    <3>1. t \in Transaction
      BY <1>2 DEF SaveInput, TypeOK, Request
    <3>2. InputRowOf(t.inputs[1], t.signer) \in InputRow
      BY <2>2, <3>1, NewRowsType
    <3>3. inputs' = Append(inputs, InputRowOf(t.inputs[1], t.signer)) /\ outputs' = outputs
      BY <1>2, <2>2 DEF SaveInput
    <3> QED  BY <3>2, <3>3, AppendRow DEF TypeOK
  <2> QED  BY <2>1, <2>2
<1>3. CASE SaveOutput(r)
  <2>1. /\ inputs' = inputs
        /\ outputs' = [outputs EXCEPT ![inputs[saved[r].input].output_id].input_id
                         = saved[r].input]
    BY <1>3 DEF SaveOutput
  <2>2. \A o \in DOMAIN outputs : outputs[o] \in OutputRow
    BY LenProperties, ElementOfSeq DEF TypeOK
  <2> QED  BY <2>1, <2>2 DEF OutputRow
<1>4. CASE SavePayment(r)
  <2> DEFINE t == request[r].transaction
  <2>1. CASE t.outputs = <<>>
    BY <1>4, <2>1, <1>1 DEF SavePayment
  <2>2. CASE t.outputs # <<>>
    <3>1. t \in Transaction
      BY <1>4 DEF SavePayment, TypeOK, Request
    <3>2. OutputRowOf(t.outputs[1]) \in OutputRow
      BY <2>2, <3>1, NewRowsType
    <3>3. outputs' = Append(outputs, OutputRowOf(t.outputs[1])) /\ inputs' = inputs
      BY <1>4, <2>2 DEF SavePayment
    <3> QED  BY <3>2, <3>3, AppendRow DEF TypeOK
  <2> QED  BY <2>1, <2>2
<1>5. CASE SaveTransaction(r)
  <2>1. /\ inputs' = Attach(inputs, saved[r].input, transactions + 1)
        /\ outputs' = Attach(outputs, saved[r].output, transactions + 1)
    BY <1>5 DEF SaveTransaction
  <2>2. /\ \A i \in DOMAIN inputs : inputs[i] \in InputRow
        /\ \A o \in DOMAIN outputs : outputs[o] \in OutputRow
    BY LenProperties, ElementOfSeq DEF TypeOK
  <2>3. ASSUME NEW i \in DOMAIN inputs PROVE i \in DOMAIN inputs' /\ SameInput(i)
    <3>1. /\ i \in DOMAIN inputs'
          /\ \/ inputs'[i] = inputs[i]
             \/ inputs'[i] = [inputs[i] EXCEPT !.transaction_id = transactions + 1]
      BY <2>1, AttachRow
    <3> QED  BY <2>2, <3>1 DEF InputRow
  <2>4. ASSUME NEW o \in DOMAIN outputs PROVE o \in DOMAIN outputs' /\ SameOutput(o)
    <3>1. /\ o \in DOMAIN outputs'
          /\ \/ outputs'[o] = outputs[o]
             \/ outputs'[o] = [outputs[o] EXCEPT !.transaction_id = transactions + 1]
      BY <2>1, AttachRow
    <3> QED  BY <2>2, <3>1 DEF OutputRow
  <2> QED  BY <2>3, <2>4
<1>6. CASE Submit(r) \/ Abort(r) \/ RefuseToken(r) \/ Verify(r) \/ SaveCreation(r)
  BY <1>6, <1>1 DEF Submit, Abort, RefuseToken, Verify, SaveCreation, tables
<1>7. \/ Submit(r) \/ Abort(r) \/ RefuseToken(r) \/ Verify(r) \/ SaveCreation(r)
      \/ SaveInput(r) \/ SaveOutput(r) \/ SavePayment(r) \/ SaveTransaction(r)
  BY DEF Does, Handle
<1> HIDE DEF SameInput, SameOutput
<1> QED  BY <1>2, <1>3, <1>4, <1>5, <1>6, <1>7

\* A valid transaction is about outputs there are, which the signer holds.
LEMMA ValidIsOwn ==
    ASSUME NEW t, VerifyTransaction(t, AllHistory), NEW k \in DOMAIN t.inputs
    PROVE  LET o == t.inputs[k].referredOutput
           IN  /\ o \in DOMAIN outputs
               /\ outputs[o].input_id = 0
               /\ outputs[o].receiver = t.signer
  BY DEF VerifyTransaction, VerifyConsistency, VerifySignatures, AllHistory

LEMMA InputsAreOwnStep ==
    ASSUME HolderInv, NEW r \in Requests, Does(r)
    PROVE  InputsAreOwn'
<1> SUFFICES ASSUME NEW s \in Requests, pc'[s] \in {"creation", "input", "spend"},
                    NEW k \in DOMAIN request'[s].transaction.inputs
             PROVE  LET t == request'[s].transaction
                    IN  /\ t.inputs[k].referredOutput \in DOMAIN outputs'
                        /\ outputs'[t.inputs[k].referredOutput].receiver = t.signer
  BY DEF InputsAreOwn
<1> USE DEF HolderInv
<1>1. CASE pc[s] \in {"creation", "input", "spend"} /\ request'[s] = request[s]
  BY <1>1, RowsStay DEF InputsAreOwn, SameOutput
<1>2. CASE s = r /\ Verify(r)
  <2>1. request' = request /\ outputs' = outputs
    BY <1>2 DEF Verify, tables
  <2>2. VerifyTransaction(request[r].transaction, AllHistory)
    BY <1>2, VerifyStep
  <2> QED  BY <1>2, <2>1, <2>2, ValidIsOwn
<1>3. CASE s # r
  BY <1>1, <1>3, OthersUntouched
<1>4. CASE s = r /\ ~Verify(r)
  BY <1>1, <1>4 DEF Does, Handle, Submit, Abort, RefuseToken, SaveCreation, SaveInput,
     SaveOutput, SavePayment, SaveTransaction, TypeOK
<1> QED  BY <1>2, <1>3, <1>4

LEMMA SpendIsPreparedStep ==
    ASSUME HolderInv, NEW r \in Requests, Does(r)
    PROVE  SpendIsPrepared'
<1> DEFINE Prepared(s) ==
        /\ 1 \in DOMAIN request[s].transaction.inputs
        /\ saved[s].input \in DOMAIN inputs
        /\ inputs[saved[s].input].output_id = request[s].transaction.inputs[1].referredOutput
        /\ inputs[saved[s].input].signature = request[s].transaction.signer
<1> SUFFICES ASSUME NEW s \in Requests, pc'[s] = "spend" PROVE Prepared(s)'
  BY DEF SpendIsPrepared
<1> USE DEF HolderInv
<1>1. CASE pc[s] = "spend" /\ request'[s] = request[s] /\ saved'[s] = saved[s]
  BY <1>1, RowsStay DEF SpendIsPrepared, SameInput
<1>2. CASE s = r /\ SaveInput(r)
  <2> DEFINE t == request[r].transaction
  <2>1. /\ t.inputs # <<>>
        /\ inputs' = Append(inputs, InputRowOf(t.inputs[1], t.signer))
        /\ saved' = [saved EXCEPT ![r].input = Len(inputs) + 1]
        /\ request' = request
    BY <1>2 DEF SaveInput, TypeOK
  <2>2. t \in Transaction
    BY <1>2 DEF SaveInput, TypeOK, Request
  <2>3. InputRowOf(t.inputs[1], t.signer) \in InputRow
    BY <2>1, <2>2, NewRowsType
  <2>4. 1 \in DOMAIN t.inputs
    BY <2>1, <2>2, EmptySeq, LenProperties DEF Transaction
  <2>5. saved'[r].input = Len(inputs) + 1
    BY <2>1 DEF TypeOK
  <2>6. /\ Len(inputs) + 1 \in DOMAIN inputs'
        /\ inputs'[Len(inputs) + 1] = InputRowOf(t.inputs[1], t.signer)
    BY <2>1, <2>3, AppendRow DEF TypeOK
  <2> QED  BY <1>2, <2>1, <2>4, <2>5, <2>6 DEF InputRowOf
<1>3. CASE s # r
  BY <1>1, <1>3, OthersUntouched
<1>4. CASE s = r /\ ~SaveInput(r)
  BY <1>4, VerifyStep DEF Does, Handle, Submit, Abort, RefuseToken, SaveCreation,
     SaveOutput, SavePayment, SaveTransaction, TypeOK
<1> QED  BY <1>2, <1>3, <1>4

LEMMA SpentOnlyByHolderStep ==
    ASSUME HolderInv, NEW r \in Requests, Does(r)
    PROVE  SpentOnlyByHolder'
<1> DEFINE Signed(o) ==
        /\ outputs[o].input_id \in DOMAIN inputs
        /\ inputs[outputs[o].input_id].output_id = o
        /\ inputs[outputs[o].input_id].signature = outputs[o].receiver
<1> SUFFICES ASSUME NEW o \in DOMAIN outputs', outputs'[o].input_id # 0
             PROVE  Signed(o)'
  BY DEF SpentOnlyByHolder, Spent
<1> USE DEF HolderInv
<1>1. CASE o \in DOMAIN outputs /\ outputs'[o].input_id = outputs[o].input_id
  <2>1. Signed(o)
    BY <1>1 DEF SpentOnlyByHolder, Spent
  <2> QED  BY <1>1, <2>1, RowsStay DEF SameInput, SameOutput
<1>2. CASE SaveOutput(r)
  <2> DEFINE i == saved[r].input
             p == inputs[i].output_id
  <2>1. /\ pc[r] = "spend" /\ inputs' = inputs
        /\ outputs' = [outputs EXCEPT ![p].input_id = i]
    BY <1>2 DEF SaveOutput
  <2>2. \A q \in DOMAIN outputs : outputs[q] \in OutputRow
    BY LenProperties, ElementOfSeq DEF TypeOK
  <2>3. CASE o = p
    <3>1. /\ i \in DOMAIN inputs /\ p = request[r].transaction.inputs[1].referredOutput
          /\ inputs[i].signature = request[r].transaction.signer
          /\ 1 \in DOMAIN request[r].transaction.inputs
      BY <2>1 DEF SpendIsPrepared
    <3>2. p \in DOMAIN outputs /\ outputs[p].receiver = request[r].transaction.signer
      BY <2>1, <3>1 DEF InputsAreOwn
    <3>3. outputs'[p].input_id = i /\ outputs'[p].receiver = outputs[p].receiver
      BY <2>1, <2>2, <3>2 DEF OutputRow
    <3> QED  BY <2>1, <2>3, <3>1, <3>2, <3>3
  <2>4. CASE o # p
    BY <1>1, <2>1, <2>4
  <2> QED  BY <2>3, <2>4
<1>3. CASE SavePayment(r)
  <2> DEFINE t == request[r].transaction
  <2>1. CASE t.outputs = <<>>
    BY <1>1, <1>3, <2>1 DEF SavePayment
  <2>2. CASE t.outputs # <<>>
    <3>1. OutputRowOf(t.outputs[1]) \in OutputRow
      BY <1>3, <2>2, NewRowsType DEF SavePayment, TypeOK, Request
    <3>2. outputs' = Append(outputs, OutputRowOf(t.outputs[1]))
      BY <1>3, <2>2 DEF SavePayment
    <3>3. outputs'[Len(outputs) + 1].input_id = 0
      BY <3>1, <3>2, AppendRow DEF OutputRowOf, TypeOK
    <3>4. o \in DOMAIN outputs /\ outputs'[o] = outputs[o]
      BY <3>1, <3>2, <3>3, AppendRow DEF TypeOK
    <3> QED  BY <1>1, <3>4
  <2> QED  BY <2>1, <2>2
<1>4. CASE SaveTransaction(r)
  <2>1. outputs' = Attach(outputs, saved[r].output, transactions + 1)
    BY <1>4 DEF SaveTransaction
  <2>2. o \in DOMAIN outputs
    BY <2>1, AttachRow
  <2>3. \/ outputs'[o] = outputs[o]
        \/ outputs'[o] = [outputs[o] EXCEPT !.transaction_id = transactions + 1]
    BY <2>1, <2>2, AttachRow
  <2>4. outputs[o] \in OutputRow
    BY <2>2, LenProperties, ElementOfSeq DEF TypeOK
  <2> QED  BY <1>1, <2>2, <2>3, <2>4 DEF OutputRow
<1>5. CASE outputs' = outputs
  BY <1>1, <1>5
<1>6. \/ SaveOutput(r) \/ SavePayment(r) \/ SaveTransaction(r) \/ outputs' = outputs
  BY DEF Does, Handle, Submit, Abort, RefuseToken, Verify, SaveCreation, SaveInput, tables
<1> QED  BY <1>2, <1>3, <1>4, <1>5, <1>6

LEMMA HolderInvariant == Spec => []HolderInv
<1>1. Init => HolderInv
  BY InitType DEF Init, HolderInv, InputsAreOwn, SpendIsPrepared, SpentOnlyByHolder
<1>2. HolderInv /\ [Next]_vars => HolderInv'
  <2> SUFFICES ASSUME HolderInv, [Next]_vars PROVE HolderInv'
    OBVIOUS
  <2>1. TypeOK'
    BY StepType DEF HolderInv
  <2>2. CASE \E r \in Requests : Does(r)
    BY <2>1, <2>2, InputsAreOwnStep, SpendIsPreparedStep, SpentOnlyByHolderStep
       DEF HolderInv
  <2>3. CASE UNCHANGED vars
    BY <2>1, <2>3 DEF HolderInv, InputsAreOwn, SpendIsPrepared, SpentOnlyByHolder, Spent,
       vars, tables
  <2> QED  BY <2>2, <2>3 DEF Next, Terminating, Does
<1> QED  BY <1>1, <1>2, PTL DEF Spec

\* Whatever runs at once and is cut off: an output is marked as spent only by
\* an input that refers to it and that its receiver signed.
THEOREM OnlyHoldersSpend == Spec => []SpentOnlyByHolder
<1>1. HolderInv => SpentOnlyByHolder
  BY DEF HolderInv
<1> QED  BY <1>1, HolderInvariant, PTL

-----------------------------------------------------------------------------
(* One handler at a time: no double spend                                  *)

LEMMA SerialStep ==
    ASSUME Capacity = 1, TypeOK, Serial, NEW r \in Requests, Does(r)
    PROVE  Serial'
<1> USE DEF Serial
<1>1. CASE Verify(r)
  <2>1. Cardinality(InService) < 1 /\ IsFiniteSet(InService)
    BY <1>1, ConstantsAssumption, FS_Subset DEF Verify, InService
  <2>2. InService = {}
    BY <2>1, FS_EmptySet, FS_CardinalityType
  <2>3. \A s \in Requests : pc[s] \notin Saving
    BY <2>2 DEF InService
  <2> QED  BY <1>1, <2>3, OthersUntouched DEF Does, Handle
<1>2. CASE ~Verify(r)
  <2>1. pc'[r] \in Saving => pc[r] \in Saving
    BY <1>2 DEF Does, Handle, Submit, Abort, RefuseToken, SaveCreation, SaveInput,
       SaveOutput, SavePayment, SaveTransaction, TypeOK, Saving
  <2> QED  BY <2>1, OthersUntouched
<1> QED  BY <1>1, <1>2

\* The outputs change in three actions only, all of a handler past its verdict.
LEMMA OutputsChange ==
    ASSUME TypeOK, NEW r \in Requests, Does(r), outputs' # outputs
    PROVE  pc[r] \in Saving /\ pc'[r] \notin {"creation", "input", "spend"}
  BY DEF Does, Handle, Submit, Abort, RefuseToken, Verify, SaveCreation, SaveInput,
     SaveOutput, SavePayment, SaveTransaction, TypeOK, Saving, tables

LEMMA VerdictStep ==
    ASSUME TypeOK, Serial, VerdictStillHolds, NEW r \in Requests, Does(r)
    PROVE  VerdictStillHolds'
<1> SUFFICES ASSUME NEW s \in Requests, pc'[s] \in {"creation", "input", "spend"}
             PROVE  VerifyTransaction(request'[s].transaction, AllHistory')
  BY DEF VerdictStillHolds
<1>1. CASE s # r
  <2>1. pc[s] = pc'[s] /\ request'[s] = request[s]
    BY <1>1, OthersUntouched
  <2>2. outputs' = outputs
    BY <1>1, <2>1, OutputsChange DEF Serial, Saving
  <2>3. AllHistory' = AllHistory
    BY <2>2 DEF AllHistory
  <2> QED  BY <2>1, <2>3 DEF VerdictStillHolds
<1>2. CASE s = r
  <2>1. outputs' = outputs
    BY <1>2, OutputsChange
  <2>2. AllHistory' = AllHistory
    BY <2>1 DEF AllHistory
  <2>3. CASE Verify(r)
    <3>1. VerifyTransaction(request[r].transaction, AllHistory) /\ request' = request
      BY <1>2, <2>3, VerifyStep DEF Verify
    <3> QED  BY <1>2, <2>2, <3>1
  <2>4. CASE ~Verify(r)
    <3>1. request' = request /\ pc[r] \in {"creation", "input", "spend"}
      BY <1>2, <2>4 DEF Does, Handle, Submit, Abort, RefuseToken, SaveCreation,
         SaveInput, SaveOutput, SavePayment, SaveTransaction, TypeOK
    <3> QED  BY <1>2, <2>2, <3>1 DEF VerdictStillHolds
  <2> QED  BY <2>3, <2>4
<1> QED  BY <1>1, <1>2

LEMMA NoInputYetStep ==
    ASSUME TypeOK, NoInputYet, NEW r \in Requests, Does(r)
    PROVE  NoInputYet'
<1> SUFFICES ASSUME NEW s \in Requests, pc'[s] \in {"idle", "sent", "creation", "input"}
             PROVE  saved'[s].input = 0
  BY DEF NoInputYet
<1>1. CASE s # r
  BY <1>1, OthersUntouched DEF NoInputYet
<1>2. CASE s = r
  <2>1. pc[r] \in {"idle", "sent", "creation", "input"} /\ saved'[r].input = saved[r].input
    BY <1>2 DEF Does, Handle, Submit, Abort, RefuseToken, Verify, SaveCreation,
       SaveInput, SaveOutput, SavePayment, SaveTransaction, TypeOK
  <2> QED  BY <1>2, <2>1 DEF NoInputYet
<1> QED  BY <1>1, <1>2

\* The output that save_output is about to mark is there and unspent.
LEMMA AboutToMark ==
    ASSUME SerialInv, NEW r \in Requests, pc[r] = "spend"
    PROVE  LET i == saved[r].input
               p == inputs[i].output_id
           IN  /\ i \in DOMAIN inputs /\ i # 0
               /\ p \in DOMAIN outputs /\ outputs[p].input_id = 0
<1> DEFINE i == saved[r].input
           t == request[r].transaction
<1>1. /\ i \in DOMAIN inputs /\ 1 \in DOMAIN t.inputs
      /\ inputs[i].output_id = t.inputs[1].referredOutput
  BY DEF SerialInv, HolderInv, SpendIsPrepared
<1>2. VerifyTransaction(t, AllHistory)
  BY DEF SerialInv, VerdictStillHolds
<1>3. i # 0
  BY <1>1, LenProperties DEF SerialInv, HolderInv, TypeOK
<1> QED  BY <1>1, <1>2, <1>3 DEF VerifyTransaction, VerifyConsistency, AllHistory

\* A mark stays: only an unspent output is marked.
LEMMA MarksStay ==
    ASSUME SerialInv, NEW r \in Requests, Does(r)
    PROVE  \A o \in DOMAIN outputs : outputs[o].input_id # 0
              => outputs'[o].input_id = outputs[o].input_id
<1> SUFFICES ASSUME NEW o \in DOMAIN outputs, outputs[o].input_id # 0
             PROVE  outputs'[o].input_id = outputs[o].input_id
  OBVIOUS
<1>0. TypeOK /\ outputs[o] \in OutputRow
  BY LenProperties, ElementOfSeq DEF SerialInv, HolderInv, TypeOK
<1>1. CASE SaveOutput(r)
  <2>1. inputs[saved[r].input].output_id # o
    BY <1>1, AboutToMark DEF SaveOutput
  <2> QED  BY <1>1, <2>1 DEF SaveOutput
<1>2. CASE SavePayment(r)
  <2> DEFINE t == request[r].transaction
  <2>1. CASE t.outputs = <<>>
    BY <1>2, <2>1 DEF SavePayment
  <2>2. CASE t.outputs # <<>>
    <3>1. OutputRowOf(t.outputs[1]) \in OutputRow
      BY <1>0, <1>2, <2>2, NewRowsType DEF SavePayment, TypeOK, Request
    <3>2. outputs' = Append(outputs, OutputRowOf(t.outputs[1]))
      BY <1>2, <2>2 DEF SavePayment
    <3> QED  BY <1>0, <3>1, <3>2, AppendRow DEF TypeOK
  <2> QED  BY <2>1, <2>2
<1>3. CASE SaveTransaction(r)
  <2>1. \/ outputs'[o] = outputs[o]
        \/ outputs'[o] = [outputs[o] EXCEPT !.transaction_id = transactions + 1]
    BY <1>3, AttachRow DEF SaveTransaction
  <2> QED  BY <1>0, <2>1 DEF OutputRow
<1>4. CASE outputs' = outputs
  BY <1>4
<1> QED  BY <1>1, <1>2, <1>3, <1>4 DEF Does, Handle, Submit, Abort, RefuseToken, Verify,
         SaveCreation, SaveInput, tables

LEMMA OwnMarkStep ==
    ASSUME SerialInv, NEW r \in Requests, Does(r)
    PROVE  OwnMark'
<1> DEFINE Marks(i) == /\ i \in DOMAIN inputs
                       /\ inputs[i].output_id \in DOMAIN outputs
                       /\ outputs[inputs[i].output_id].input_id = i
<1> SUFFICES ASSUME NEW s \in Requests, pc'[s] \in {"output", "commit"},
                    saved'[s].input # 0
             PROVE  Marks(saved[s].input)'
  BY DEF OwnMark
<1>0. TypeOK
  BY DEF SerialInv, HolderInv
<1>1. ASSUME pc[s] \in {"output", "commit"}, saved'[s].input = saved[s].input
      PROVE  Marks(saved[s].input)'
  <2>1. Marks(saved[s].input)
    BY <1>1 DEF SerialInv, OwnMark
  <2> QED  BY <1>0, <1>1, <2>1, RowsStay, MarksStay DEF SameInput
<1>2. CASE s # r
  BY <1>0, <1>1, <1>2, OthersUntouched
<1>3. CASE s = r /\ SaveOutput(r)
  <2> DEFINE i == saved[r].input
             p == inputs[i].output_id
  <2>1. i \in DOMAIN inputs /\ p \in DOMAIN outputs
    BY <1>3, AboutToMark DEF SaveOutput
  <2>2. outputs[p] \in OutputRow
    BY <2>1, LenProperties, ElementOfSeq DEF SerialInv, HolderInv, TypeOK
  <2>3. /\ inputs' = inputs /\ saved' = saved
        /\ outputs' = [outputs EXCEPT ![p].input_id = i]
    BY <1>3 DEF SaveOutput
  <2>4. p \in DOMAIN outputs' /\ outputs'[p].input_id = i
    BY <2>1, <2>2, <2>3 DEF OutputRow
  <2> QED  BY <1>3, <2>1, <2>3, <2>4
<1>4. CASE s = r /\ SaveInput(r)
  <2>1. saved[r].input = 0 /\ pc'[r] \in {"output", "spend"}
    BY <1>0, <1>4 DEF SaveInput, SerialInv, NoInputYet, TypeOK
  <2>2. request[r].transaction.inputs = <<>> \/ pc'[r] = "spend"
    BY <1>0, <1>4 DEF SaveInput, TypeOK
  <2> QED  BY <1>4, <2>1, <2>2 DEF SaveInput
<1>5. CASE s = r /\ ~SaveOutput(r) /\ ~SaveInput(r)
  <2>1. pc[s] \in {"output", "commit"} /\ saved'[s].input = saved[s].input
    BY <1>0, <1>5, VerifyStep DEF Does, Handle, Submit, Abort, RefuseToken, SaveCreation,
       SavePayment, SaveTransaction, TypeOK
  <2> QED  BY <1>1, <2>1
<1> QED  BY <1>2, <1>3, <1>4, <1>5

\* An input row becomes part of a transaction by transaction.save only.
LEMMA CommittedBySave ==
    ASSUME TypeOK, NEW r \in Requests, Does(r),
           NEW i \in DOMAIN inputs', Committed(inputs'[i])
    PROVE  /\ i \in DOMAIN inputs
           /\ \/ Committed(inputs[i])
              \/ pc[r] = "commit" /\ i = saved[r].input /\ i # 0
<1>1. CASE SaveInput(r)
  <2> DEFINE t == request[r].transaction
  <2>1. CASE t.inputs = <<>>
    BY <1>1, <2>1 DEF SaveInput
  <2>2. CASE t.inputs # <<>>
    <3>1. InputRowOf(t.inputs[1], t.signer) \in InputRow
      BY <1>1, <2>2, NewRowsType DEF SaveInput, TypeOK, Request
    <3>2. inputs' = Append(inputs, InputRowOf(t.inputs[1], t.signer))
      BY <1>1, <2>2 DEF SaveInput
    <3>3. inputs'[Len(inputs) + 1].transaction_id = 0
      BY <3>1, <3>2, AppendRow DEF InputRowOf, TypeOK
    <3>4. i \in DOMAIN inputs /\ inputs'[i] = inputs[i]
      BY <3>1, <3>2, <3>3, AppendRow DEF TypeOK, Committed
    <3> QED  BY <3>4
  <2> QED  BY <2>1, <2>2
<1>2. CASE SaveTransaction(r)
  <2>1. inputs' = Attach(inputs, saved[r].input, transactions + 1) /\ pc[r] = "commit"
    BY <1>2 DEF SaveTransaction
  <2>2. i \in DOMAIN inputs
    BY <2>1, AttachRow
  <2>3. CASE i = saved[r].input /\ i # 0
    BY <2>1, <2>2, <2>3
  <2>4. CASE ~(i = saved[r].input /\ i # 0)
    <3>1. inputs'[i] = inputs[i]
      BY <2>1, <2>2, <2>4 DEF Attach
    <3> QED  BY <2>2, <3>1
  <2> QED  BY <2>3, <2>4
<1>3. CASE inputs' = inputs
  BY <1>3
<1> QED  BY <1>1, <1>2, <1>3 DEF Does, Handle, Submit, Abort, RefuseToken, Verify,
         SaveCreation, SaveOutput, SavePayment, tables

LEMMA CommittedMarkStep ==
    ASSUME SerialInv, NEW r \in Requests, Does(r)
    PROVE  CommittedMark'
<1> DEFINE Marks(i) == /\ inputs[i].output_id \in DOMAIN outputs
                       /\ outputs[inputs[i].output_id].input_id = i
<1> SUFFICES ASSUME NEW i \in DOMAIN inputs', Committed(inputs'[i])
             PROVE  Marks(i)'
  BY DEF CommittedMark, Committed
<1>0. TypeOK
  BY DEF SerialInv, HolderInv
<1>1. i \in DOMAIN inputs /\ Marks(i)
  BY <1>0, CommittedBySave DEF SerialInv, CommittedMark, OwnMark
<1>2. i # 0
  BY <1>0, <1>1, LenProperties DEF TypeOK
<1> QED  BY <1>0, <1>1, <1>2, RowsStay, MarksStay DEF SameInput

LEMMA SerialInvariant == ASSUME Capacity = 1 PROVE Spec => []SerialInv
<1>1. Init => SerialInv
  BY InitType DEF Init, SerialInv, HolderInv, InputsAreOwn, SpendIsPrepared,
     SpentOnlyByHolder, Serial, Saving, VerdictStillHolds, OwnMark, NoInputYet,
     CommittedMark
<1>2. SerialInv /\ HolderInv' /\ [Next]_vars => SerialInv'
  <2> SUFFICES ASSUME SerialInv, HolderInv', [Next]_vars PROVE SerialInv'
    OBVIOUS
  <2>1. CASE \E r \in Requests : Does(r)
    BY <2>1, SerialStep, VerdictStep, OwnMarkStep, NoInputYetStep, CommittedMarkStep
       DEF SerialInv, HolderInv
  <2>2. CASE UNCHANGED vars
    <3>1. AllHistory' = AllHistory
      BY <2>2 DEF vars, tables, AllHistory
    <3> QED  BY <2>2, <3>1 DEF SerialInv, Serial, VerdictStillHolds, OwnMark, NoInputYet,
             CommittedMark, Committed, vars, tables
  <2> QED  BY <2>1, <2>2 DEF Next, Terminating, Does
<1> QED  BY <1>1, <1>2, HolderInvariant, PTL DEF Spec

\* Behind a lock, with any number of requests and whatever is cut off, the
\* verdict a handler acts on still holds when it acts.
THEOREM VerdictsHold == ASSUME Capacity = 1 PROVE Spec => []VerdictStillHolds
<1>1. SerialInv => VerdictStillHolds
  BY DEF SerialInv
<1> QED  BY <1>1, SerialInvariant, PTL

\* Behind a lock, no two saved transactions spend the same output.
THEOREM NoCouponSpentTwice == ASSUME Capacity = 1 PROVE Spec => []NoDoubleSpend
<1>1. SerialInv => NoDoubleSpend
  BY DEF SerialInv, CommittedMark, NoDoubleSpend
<1> QED  BY <1>1, SerialInvariant, PTL

\* With one handler at a time, no mark is ever overwritten, not even that of a
\* handler that was cut off before it saved its transaction.
THEOREM MarksAreForGood == ASSUME Capacity = 1 PROVE Spec => MarksForGood
<1> DEFINE Kept == \A o \in DOMAIN outputs :
                      Spent(o) => outputs'[o].input_id = outputs[o].input_id
<1>1. SerialInv /\ [Next]_vars => [Kept]_vars
  <2> SUFFICES ASSUME SerialInv, Next PROVE Kept \/ UNCHANGED vars
    OBVIOUS
  <2>1. CASE \E r \in Requests : Does(r)
    BY <2>1, MarksStay DEF Spent
  <2>2. CASE Terminating
    BY <2>2 DEF Terminating
  <2> QED  BY <2>1, <2>2 DEF Next, Does
<1> QED  BY <1>1, SerialInvariant, PTL DEF Spec, MarksForGood

-----------------------------------------------------------------------------
(* How many coupons there are, who is refused, who is answered with an id *)

PaidBy(r) == request[r].transaction.outputs[1]

\* What a client can have the library build: a creation, or the spending of one
\* of its outputs, with what is left of it going back.
Creates(t) ==
    \E p \in Payloads, n \in Amounts : t = GenerateCreateTransaction(t.signer, p, n)

Spends(t, o) ==
    LET coupon   == CouponOf(outputs[o])
        payments == {<<>>} \cup {<<Pay(coupon, 1, to)>> : to \in Addresses}
    IN  /\ t.creations = <<>> /\ t.inputs = <<[referredOutput |-> o]>>
        /\ outputs[o].receiver = t.signer
        /\ \E payment \in payments :
              t.outputs = payment \o Change(t.signer, coupon, outputs[o].amount)

Formed ==
    \A r \in Requests : pc[r] # "idle" =>
        LET t == request[r].transaction
        IN  Creates(t) \/ \E o \in DOMAIN outputs : Spends(t, o)

\* A creation is in its table before the coupons it creates are anybody's.
CreatedFirst ==
    \A r \in Requests : pc[r] = "input" =>
        LET t == request[r].transaction
            coupon == CouponOf(t.creations[1])
        IN  t.creations # <<>> =>
               Circulating(coupon) + t.creations[1].amount <= Issued(coupon)

\* There are no empty outputs.
Positive == \A o \in DOMAIN outputs : outputs[o].amount > 0

FormInv == TypeOK /\ Formed /\ Positive

SupplyInv == SerialInv /\ FormInv /\ CreatedFirst /\ SupplyBounded

-----------------------------------------------------------------------------
(* What the counts are *)

LEMMA RowTypes ==
    ASSUME TypeOK
    PROVE  /\ DOMAIN creations = 1 .. Len(creations) /\ Len(creations) \in Nat
           /\ DOMAIN inputs = 1 .. Len(inputs) /\ Len(inputs) \in Nat
           /\ DOMAIN outputs = 1 .. Len(outputs) /\ Len(outputs) \in Nat
           /\ \A i \in DOMAIN creations : creations[i] \in CreationRow
           /\ \A i \in DOMAIN inputs : inputs[i] \in InputRow
           /\ \A o \in DOMAIN outputs : outputs[o] \in OutputRow
  BY LenProperties, ElementOfSeq DEF TypeOK

LEMMA RequestTypes ==
    ASSUME TypeOK, NEW r \in Requests, pc[r] # "idle"
    PROVE  LET t == request[r].transaction
           IN  /\ t \in Transaction
               /\ DOMAIN t.creations = 1 .. Len(t.creations) /\ Len(t.creations) \in Nat
               /\ DOMAIN t.inputs = 1 .. Len(t.inputs) /\ Len(t.inputs) \in Nat
               /\ DOMAIN t.outputs = 1 .. Len(t.outputs) /\ Len(t.outputs) \in Nat
               /\ \A k \in DOMAIN t.creations : t.creations[k] \in Creation
               /\ \A k \in DOMAIN t.inputs : t.inputs[k] \in Reference
               /\ \A k \in DOMAIN t.outputs : t.outputs[k] \in Payment
               /\ t.creations # <<>> => 1 \in DOMAIN t.creations
               /\ t.inputs # <<>> => 1 \in DOMAIN t.inputs
               /\ t.outputs # <<>> => 1 \in DOMAIN t.outputs
<1> DEFINE t == request[r].transaction
<1>1. t \in Transaction
  BY DEF TypeOK, Request
<1>2. /\ t.creations \in Seq(Creation) /\ t.inputs \in Seq(Reference)
      /\ t.outputs \in Seq(Payment)
  BY <1>1 DEF Transaction
<1> QED  BY <1>1, <1>2, LenProperties, ElementOfSeq, EmptySeq

\* The functions the counts are totals of.
InCirculation(c) ==
    [o \in {o \in DOMAIN outputs : ~Spent(o) /\ CouponOf(outputs[o]) = c}
       |-> outputs[o].amount]

Created(c) ==
    [i \in {i \in DOMAIN creations : CouponOf(creations[i]) = c} |-> creations[i].amount]

Paying(c) ==
    [r \in {r \in Requests : OnTheWay(r) /\ CouponOf(PaidBy(r)) = c} |-> PaidBy(r).amount]

LEMMA Counts ==
    /\ \A c : Circulating(c) = Total(InCirculation(c))
    /\ \A c : Issued(c) = Total(Created(c))
    /\ \A c : Pending(c) = Total(Paying(c))
  BY DEF Circulating, InCirculation, Issued, Created, Pending, Paying, PaidBy

LEMMA CountTypes ==
    ASSUME TypeOK, NEW c
    PROVE  /\ IsFiniteSet(DOMAIN InCirculation(c)) /\ Circulating(c) \in Nat
           /\ \A o \in DOMAIN InCirculation(c) : InCirculation(c)[o] \in Nat
           /\ IsFiniteSet(DOMAIN Created(c)) /\ Issued(c) \in Nat
           /\ \A i \in DOMAIN Created(c) : Created(c)[i] \in Nat
           /\ Pending(c) \in Nat
<1>1. IsFiniteSet(DOMAIN outputs) /\ IsFiniteSet(DOMAIN creations)
  BY RowTypes, FS_Interval
<1>2. /\ IsFiniteSet(DOMAIN InCirculation(c))
      /\ \A o \in DOMAIN InCirculation(c) : InCirculation(c)[o] \in Nat
  BY <1>1, RowTypes, FS_Subset DEF InCirculation, OutputRow
<1>3. /\ IsFiniteSet(DOMAIN Created(c))
      /\ \A i \in DOMAIN Created(c) : Created(c)[i] \in Nat
  BY <1>1, RowTypes, FS_Subset DEF Created, CreationRow
<1>4. /\ IsFiniteSet(DOMAIN Paying(c))
      /\ \A r \in DOMAIN Paying(c) : Paying(c)[r] \in Nat
  <2>1. IsFiniteSet(DOMAIN Paying(c))
    BY ConstantsAssumption, FS_Subset DEF Paying
  <2>2. ASSUME NEW r \in Requests, OnTheWay(r) PROVE PaidBy(r).amount \in Nat
    BY <2>2, RequestTypes DEF OnTheWay, PaidBy, Payment
  <2> QED  BY <2>1, <2>2 DEF Paying
<1> QED  BY <1>2, <1>3, <1>4, TotalType, Counts

CountsAreNat ==
    TypeOK => \A c : Circulating(c) \in Nat /\ Issued(c) \in Nat /\ Pending(c) \in Nat

LEMMA CountsAreNatNext == CountsAreNat'
<1>1. CountsAreNat
  BY CountTypes DEF CountsAreNat
<1> QED  BY <1>1, PTL

\* While handlers run one at a time, at most one payment is on its way.
PendingIsOne ==
    TypeOK /\ Serial => \A c :
        /\ (\A r \in Requests : OnTheWay(r) => CouponOf(PaidBy(r)) # c) => Pending(c) = 0
        /\ \A r \in Requests : OnTheWay(r) /\ CouponOf(PaidBy(r)) = c =>
              Pending(c) = PaidBy(r).amount

LEMMA PendingOne == PendingIsOne
<1> SUFFICES ASSUME TypeOK, Serial, NEW c
             PROVE  /\ (\A r \in Requests : OnTheWay(r) => CouponOf(PaidBy(r)) # c)
                          => Pending(c) = 0
                    /\ \A r \in Requests : OnTheWay(r) /\ CouponOf(PaidBy(r)) = c =>
                          Pending(c) = PaidBy(r).amount
  BY DEF PendingIsOne
<1>1. ASSUME \A r \in Requests : OnTheWay(r) => CouponOf(PaidBy(r)) # c
      PROVE  Pending(c) = 0
  <2>1. DOMAIN Paying(c) = {}
    BY <1>1 DEF Paying
  <2> QED  BY <2>1, TotalNone, Counts
<1>2. ASSUME NEW r \in Requests, OnTheWay(r), CouponOf(PaidBy(r)) = c
      PROVE  Pending(c) = PaidBy(r).amount
  <2>1. DOMAIN Paying(c) = {r}
    BY <1>2 DEF Paying, Serial, OnTheWay, Saving
  <2>2. Paying(c)[r] = PaidBy(r).amount /\ PaidBy(r).amount \in Nat
    BY <1>2, RequestTypes DEF Paying, OnTheWay, PaidBy, Payment
  <2> QED  BY <2>1, <2>2, TotalOne, Counts
<1> QED  BY <1>1, <1>2

LEMMA PendingOneNext == PendingIsOne'
  BY PendingOne, PTL

\* Nothing is on its way that was not.
LEMMA PendingLess ==
    ASSUME TypeOK, Serial, TypeOK', Serial', NEW c,
           \A r \in Requests : OnTheWay(r)' => OnTheWay(r) /\ request'[r] = request[r]
    PROVE  Pending(c)' <= Pending(c)
<1>1. CASE \E r \in Requests : OnTheWay(r)' /\ CouponOf(PaidBy(r)') = c
  <2>1. PICK r \in Requests : OnTheWay(r)' /\ CouponOf(PaidBy(r)') = c
    BY <1>1
  <2>2. OnTheWay(r) /\ PaidBy(r)' = PaidBy(r)
    BY <2>1 DEF PaidBy
  <2>3. Pending(c)' = PaidBy(r)' .amount
    BY <2>1, PendingOneNext DEF PendingIsOne
  <2>4. Pending(c) = PaidBy(r).amount
    BY <2>1, <2>2, PendingOne DEF PendingIsOne
  <2> QED  BY <2>2, <2>3, <2>4, CountTypes
<1>2. CASE ~\E r \in Requests : OnTheWay(r)' /\ CouponOf(PaidBy(r)') = c
  <2>1. Pending(c)' = 0
    BY <1>2, PendingOneNext DEF PendingIsOne
  <2> QED  BY <2>1, CountTypes
<1> QED  BY <1>1, <1>2

-----------------------------------------------------------------------------
(* What the steps do to the counts *)

\* save_output takes the coupons of an output out of circulation.
LEMMA TakenOut ==
    ASSUME TypeOK, NEW p \in DOMAIN outputs, NEW i \in Nat \ {0},
           outputs[p].input_id = 0, outputs' = [outputs EXCEPT ![p].input_id = i], NEW c
    PROVE  Circulating(c) = Circulating(c)' +
              IF CouponOf(outputs[p]) = c THEN outputs[p].amount ELSE 0
<1> DEFINE f == InCirculation(c)
           g == InCirculation(c)'
<1>1. /\ DOMAIN outputs' = DOMAIN outputs /\ outputs[p] \in OutputRow
      /\ \A o \in DOMAIN outputs \ {p} : outputs'[o] = outputs[o]
      /\ outputs'[p].input_id = i
  BY RowTypes DEF OutputRow
<1>2. p \notin DOMAIN g
  BY <1>1 DEF InCirculation, Spent
<1>3. \A o \in DOMAIN g : o \in DOMAIN f /\ g[o] = f[o]
  BY <1>1, <1>2 DEF InCirculation, Spent
<1>4. \A o \in DOMAIN f \ {p} : o \in DOMAIN g
  BY <1>1 DEF InCirculation, Spent
<1>5. Circulating(c)' = Total(g) /\ Circulating(c) = Total(f)
  BY DEF Circulating, InCirculation
<1>6. IsFiniteSet(DOMAIN f) /\ \A o \in DOMAIN f : f[o] \in Nat
  BY CountTypes
<1>7. CASE CouponOf(outputs[p]) = c
  <2>1. p \in DOMAIN f /\ f[p] = outputs[p].amount
    BY <1>7 DEF InCirculation, Spent
  <2>2. DOMAIN f = DOMAIN g \cup {p}
    BY <1>3, <1>4, <2>1
  <2>3. IsFiniteSet(DOMAIN g)
    BY <1>3, <1>6, FS_Subset
  <2> HIDE DEF f, g
  <2>4. Total(f) = Total(g) + f[p]
    BY <1>2, <1>3, <1>6, <2>1, <2>2, <2>3, TotalAdd
  <2> QED  BY <1>5, <1>7, <2>1, <2>4
<1>8. CASE CouponOf(outputs[p]) # c
  <2>1. p \notin DOMAIN f
    BY <1>8 DEF InCirculation
  <2>2. DOMAIN f = DOMAIN g
    BY <1>3, <1>4, <2>1
  <2> HIDE DEF f, g
  <2>3. Total(f) = Total(g) /\ Total(f) \in Nat
    BY <1>3, <1>6, <2>2, TotalSame, TotalType
  <2> QED  BY <1>5, <1>8, <2>3
<1> QED  BY <1>7, <1>8

\* Output.from_json brings the coupons of a payment into circulation.
LEMMA PaidIn ==
    ASSUME TypeOK, NEW row \in OutputRow, row.input_id = 0,
           outputs' = Append(outputs, row), NEW c
    PROVE  Circulating(c)' = Circulating(c) +
              IF CouponOf(row) = c THEN row.amount ELSE 0
<1> DEFINE f == InCirculation(c)
           g == InCirculation(c)'
           p == Len(outputs) + 1
<1>1. /\ DOMAIN outputs' = DOMAIN outputs \cup {p} /\ outputs'[p] = row
      /\ p \notin DOMAIN outputs
      /\ \A o \in DOMAIN outputs : outputs'[o] = outputs[o]
  BY AppendRow DEF TypeOK
<1> HIDE DEF p
<1>2. p \notin DOMAIN f
  BY <1>1 DEF InCirculation
<1>3. \A o \in DOMAIN f : o \in DOMAIN g /\ g[o] = f[o]
  BY <1>1 DEF InCirculation, Spent
<1>4. \A o \in DOMAIN g \ {p} : o \in DOMAIN f
  BY <1>1 DEF InCirculation, Spent
<1>5. Circulating(c)' = Total(g) /\ Circulating(c) = Total(f)
  BY DEF Circulating, InCirculation
<1>6. IsFiniteSet(DOMAIN f) /\ \A o \in DOMAIN f : f[o] \in Nat
  BY CountTypes
<1>7. CASE CouponOf(row) = c
  <2>1. p \in DOMAIN g /\ g[p] = row.amount /\ row.amount \in Nat
    BY <1>1, <1>7 DEF InCirculation, Spent, OutputRow
  <2>2. DOMAIN g = DOMAIN f \cup {p}
    BY <1>3, <1>4, <2>1
  <2> HIDE DEF f, g
  <2>3. Total(g) = Total(f) + g[p]
    BY <1>2, <1>3, <1>6, <2>1, <2>2, TotalAdd
  <2> QED  BY <1>5, <1>7, <2>1, <2>3
<1>8. CASE CouponOf(row) # c
  <2>1. p \notin DOMAIN g
    BY <1>1, <1>8 DEF InCirculation
  <2>2. DOMAIN f = DOMAIN g
    BY <1>3, <1>4, <2>1
  <2> HIDE DEF f, g
  <2>3. Total(f) = Total(g) /\ Total(f) \in Nat
    BY <1>3, <1>6, <2>2, TotalSame, TotalType
  <2> QED  BY <1>5, <1>8, <2>3
<1> QED  BY <1>7, <1>8

\* Creation.from_json issues coupons.
LEMMA IssuedMore ==
    ASSUME TypeOK, NEW row \in CreationRow, creations' = Append(creations, row), NEW c
    PROVE  Issued(c)' = Issued(c) + IF CouponOf(row) = c THEN row.amount ELSE 0
<1> DEFINE f == Created(c)
           g == Created(c)'
           p == Len(creations) + 1
<1>1. /\ DOMAIN creations' = DOMAIN creations \cup {p} /\ creations'[p] = row
      /\ p \notin DOMAIN creations
      /\ \A i \in DOMAIN creations : creations'[i] = creations[i]
  BY AppendRow DEF TypeOK
<1> HIDE DEF p
<1>2. p \notin DOMAIN f
  BY <1>1 DEF Created
<1>3. \A i \in DOMAIN f : i \in DOMAIN g /\ g[i] = f[i]
  BY <1>1 DEF Created
<1>4. \A i \in DOMAIN g \ {p} : i \in DOMAIN f
  BY <1>1 DEF Created
<1>5. Issued(c)' = Total(g) /\ Issued(c) = Total(f)
  BY DEF Issued, Created
<1>6. IsFiniteSet(DOMAIN f) /\ \A i \in DOMAIN f : f[i] \in Nat
  BY CountTypes
<1>7. CASE CouponOf(row) = c
  <2>1. p \in DOMAIN g /\ g[p] = row.amount /\ row.amount \in Nat
    BY <1>1, <1>7 DEF Created, CreationRow
  <2>2. DOMAIN g = DOMAIN f \cup {p}
    BY <1>3, <1>4, <2>1
  <2> HIDE DEF f, g
  <2>3. Total(g) = Total(f) + g[p]
    BY <1>2, <1>3, <1>6, <2>1, <2>2, TotalAdd
  <2> QED  BY <1>5, <1>7, <2>1, <2>3
<1>8. CASE CouponOf(row) # c
  <2>1. p \notin DOMAIN g
    BY <1>1, <1>8 DEF Created
  <2>2. DOMAIN f = DOMAIN g
    BY <1>3, <1>4, <2>1
  <2> HIDE DEF f, g
  <2>3. Total(f) = Total(g) /\ Total(f) \in Nat
    BY <1>3, <1>6, <2>2, TotalSame, TotalType
  <2> QED  BY <1>5, <1>8, <2>3
<1> QED  BY <1>7, <1>8

\* transaction.save changes no count.
LEMMA AttachedSame ==
    ASSUME TypeOK, NEW r \in Requests, SaveTransaction(r), NEW c
    PROVE  Circulating(c)' = Circulating(c) /\ Issued(c)' = Issued(c)
<1>1. /\ DOMAIN outputs' = DOMAIN outputs
      /\ \A o \in DOMAIN outputs : /\ outputs'[o].amount = outputs[o].amount
                                   /\ outputs'[o].input_id = outputs[o].input_id
                                   /\ CouponOf(outputs'[o]) = CouponOf(outputs[o])
  <2>1. DOMAIN outputs' = DOMAIN outputs
    BY AttachRow DEF SaveTransaction
  <2>2. ASSUME NEW o \in DOMAIN outputs
        PROVE  /\ outputs'[o].amount = outputs[o].amount
               /\ outputs'[o].input_id = outputs[o].input_id
               /\ CouponOf(outputs'[o]) = CouponOf(outputs[o])
    <3>1. \/ outputs'[o] = outputs[o]
          \/ outputs'[o] = [outputs[o] EXCEPT !.transaction_id = transactions + 1]
      BY AttachRow DEF SaveTransaction
    <3>2. outputs[o] \in OutputRow
      BY RowTypes
    <3> QED  BY <3>1, <3>2 DEF OutputRow, CouponOf
  <2> QED  BY <2>1, <2>2
<1>2. /\ DOMAIN creations' = DOMAIN creations
      /\ \A i \in DOMAIN creations :
            /\ creations'[i].amount = creations[i].amount
            /\ CouponOf(creations'[i]) = CouponOf(creations[i])
  <2>1. DOMAIN creations' = DOMAIN creations
    BY AttachRow DEF SaveTransaction
  <2>2. ASSUME NEW i \in DOMAIN creations
        PROVE  /\ creations'[i].amount = creations[i].amount
               /\ CouponOf(creations'[i]) = CouponOf(creations[i])
    <3>1. \/ creations'[i] = creations[i]
          \/ creations'[i] = [creations[i] EXCEPT !.transaction_id = transactions + 1]
      BY AttachRow DEF SaveTransaction
    <3>2. creations[i] \in CreationRow
      BY RowTypes
    <3> QED  BY <3>1, <3>2 DEF CreationRow, CouponOf
  <2> QED  BY <2>1, <2>2
<1>3. InCirculation(c)' = InCirculation(c)
  BY <1>1 DEF InCirculation, Spent
<1>4. Created(c)' = Created(c)
  BY <1>2 DEF Created
<1>5. /\ Circulating(c)' = Total(InCirculation(c)') /\ Circulating(c) = Total(InCirculation(c))
      /\ Issued(c)' = Total(Created(c)') /\ Issued(c) = Total(Created(c))
  BY DEF Circulating, InCirculation, Issued, Created
<1> QED  BY <1>3, <1>4, <1>5

-----------------------------------------------------------------------------
(* What transactions look like *)

\* What the steps do to an output there is.
LEMMA OutputStep ==
    ASSUME TypeOK, NEW r \in Requests, Does(r), NEW o \in DOMAIN outputs
    PROVE  /\ o \in DOMAIN outputs'
           /\ \/ outputs'[o] = outputs[o]
              \/ /\ SaveOutput(r) /\ o = inputs[saved[r].input].output_id
                 /\ outputs'[o] = [outputs[o] EXCEPT !.input_id = saved[r].input]
              \/ /\ SaveTransaction(r) /\ o = saved[r].output /\ o # 0
                 /\ outputs'[o] = [outputs[o] EXCEPT !.transaction_id = transactions + 1]
<1>1. CASE SaveOutput(r)
  <2> DEFINE i == saved[r].input
             p == inputs[i].output_id
  <2>1. outputs' = [outputs EXCEPT ![p].input_id = i]
    BY <1>1 DEF SaveOutput
  <2> HIDE DEF i, p
  <2>2. DOMAIN outputs' = DOMAIN outputs
    BY <2>1
  <2>3. outputs'[o] = IF o = p THEN [outputs[o] EXCEPT !.input_id = i] ELSE outputs[o]
    BY <2>1
  <2>4. \/ outputs'[o] = outputs[o]
        \/ o = p /\ outputs'[o] = [outputs[o] EXCEPT !.input_id = i]
    BY <2>3, Zenon
  <2> QED  BY <1>1, <2>2, <2>4, Zenon DEF i, p
<1>2. CASE SavePayment(r)
  <2>1. CASE request[r].transaction.outputs = <<>>
    BY <1>2, <2>1 DEF SavePayment
  <2>2. CASE request[r].transaction.outputs # <<>>
    <3>1. OutputRowOf(PaidBy(r)) \in OutputRow
      BY <1>2, <2>2, NewRowsType DEF SavePayment, TypeOK, Request, PaidBy
    <3>2. outputs' = Append(outputs, OutputRowOf(PaidBy(r)))
      BY <1>2, <2>2 DEF SavePayment, PaidBy
    <3> QED  BY <3>1, <3>2, AppendRow DEF TypeOK
  <2> QED  BY <2>1, <2>2
<1>3. CASE SaveTransaction(r)
  BY <1>3, AttachRow DEF SaveTransaction
<1>4. CASE outputs' = outputs
  BY <1>4
<1> QED  BY <1>1, <1>2, <1>3, <1>4 DEF Does, Handle, Submit, Abort, RefuseToken, Verify,
         SaveCreation, SaveInput, tables

\* What an output says never changes.
LEMMA OutputSays ==
    ASSUME TypeOK, NEW r \in Requests, Does(r), NEW o \in DOMAIN outputs
    PROVE  /\ o \in DOMAIN outputs' /\ CouponOf(outputs'[o]) = CouponOf(outputs[o])
           /\ outputs'[o].amount = outputs[o].amount
           /\ outputs'[o].receiver = outputs[o].receiver
<1> DEFINE row == outputs[o]
           new == outputs'[o]
<1>1. row \in OutputRow /\ o \in DOMAIN outputs'
  BY RowTypes, OutputStep
<1>2. \/ new = row
      \/ \E i : new = [row EXCEPT !.input_id = i]
      \/ \E t : new = [row EXCEPT !.transaction_id = t]
  BY OutputStep, Zenon
<1> HIDE DEF row, new
<1>3. /\ new.creator = row.creator /\ new.payload = row.payload
      /\ new.amount = row.amount /\ new.receiver = row.receiver
  BY <1>1, <1>2 DEF OutputRow
<1> QED  BY <1>1, <1>3 DEF row, new, CouponOf

LEMMA GeneratedForm ==
    ASSUME TypeOK, NEW key \in Addresses, NEW t \in Generated(key)
    PROVE  Creates(t) \/ \E o \in DOMAIN outputs : Spends(t, o)
<1> DEFINE h == History(key)
           coupons == {CouponOf(h[o]) : o \in {o \in DOMAIN h : h[o].receiver = key}}
<1>1. ASSUME NEW p \in Payloads, NEW n \in Amounts, t = GenerateCreateTransaction(key, p, n)
      PROVE  Creates(t)
  BY <1>1 DEF Creates, GenerateCreateTransaction
<1>2. ASSUME NEW c \in coupons
      PROVE  LET o == FirstSpendable(key, c, h)
             IN  /\ o \in DOMAIN outputs /\ h[o] = outputs[o]
                 /\ CouponOf(outputs[o]) = c /\ outputs[o].receiver = key
  <2>1. PICK o \in DOMAIN h : h[o].receiver = key /\ c = CouponOf(h[o])
    OBVIOUS
  <2>2. o \in Spendable(key, c, h)
    BY <2>1 DEF Spendable, History
  <2>3. Spendable(key, c, h) \in SUBSET Nat
    BY HistoryRows DEF Spendable, TypeOK
  <2>4. FirstSpendable(key, c, h) \in Spendable(key, c, h)
    BY <2>2, <2>3, LeastMember DEF FirstSpendable
  <2> QED  BY <2>4, HistoryRows DEF Spendable, TypeOK
<1>3. ASSUME NEW c \in coupons, NEW payment,
             payment \in {<<>>} \cup {<<Pay(c, 1, to)>> : to \in Addresses},
             t = Spend(key, c, payment, h)
      PROVE  \E o \in DOMAIN outputs : Spends(t, o)
  <2> DEFINE o == FirstSpendable(key, c, h)
  <2>1. /\ o \in DOMAIN outputs /\ h[o] = outputs[o]
        /\ CouponOf(outputs[o]) = c /\ outputs[o].receiver = key
    BY <1>2
  <2>2. /\ t.creations = <<>> /\ t.inputs = <<[referredOutput |-> o]>>
        /\ t.outputs = payment \o Change(key, c, h[o].amount) /\ t.signer = key
    BY <1>3 DEF Spend
  <2> HIDE DEF o, h
  <2>3. Spends(t, o)
    BY <1>3, <2>1, <2>2 DEF Spends
  <2> QED  BY <2>1, <2>3
<1>4. ASSUME NEW c \in coupons, NEW to \in Addresses,
             t = GenerateSendTransaction(key, c, to, h)
      PROVE  \E o \in DOMAIN outputs : Spends(t, o)
  BY <1>3, <1>4 DEF GenerateSendTransaction
<1>5. ASSUME NEW c \in coupons, t = GenerateDeleteTransaction(key, c, h)
      PROVE  \E o \in DOMAIN outputs : Spends(t, o)
  BY <1>3, <1>5 DEF GenerateDeleteTransaction
<1> QED  BY <1>1, <1>4, <1>5 DEF Generated

LEMMA FormedStep ==
    ASSUME TypeOK, TypeOK', Formed, NEW r \in Requests, Does(r)
    PROVE  Formed'
<1> SUFFICES ASSUME NEW s \in Requests, pc'[s] # "idle"
             PROVE  (LET t == request[s].transaction
                     IN  Creates(t) \/ \E o \in DOMAIN outputs : Spends(t, o))'
  BY DEF Formed
<1>1. CASE pc[s] # "idle" /\ request'[s] = request[s]
  <2> DEFINE t == request[s].transaction
  <2>1. Creates(t) \/ \E o \in DOMAIN outputs : Spends(t, o)
    BY <1>1 DEF Formed
  <2>2. ASSUME NEW o \in DOMAIN outputs, Spends(t, o)
        PROVE  o \in DOMAIN outputs' /\ Spends(t, o)'
    BY <1>1, <2>2, OutputSays DEF Spends
  <2>3. Creates(t) => Creates(t)'
    BY <1>1
  <2> QED  BY <2>1, <2>2, <2>3
<1>2. CASE s = r /\ Submit(r)
  <2>1. PICK key \in Addresses, token \in Tokens, form \in Forms :
           \E t \in Generated(key) :
              request' = [request EXCEPT ![r] =
                            [token |-> token, form |-> form, transaction |-> t]]
    BY <1>2 DEF Submit
  <2>2. PICK t \in Generated(key) : request'[s].transaction = t
    BY <1>2, <2>1 DEF TypeOK
  <2>3. Creates(t) \/ \E o \in DOMAIN outputs : Spends(t, o)
    BY GeneratedForm
  <2>4. outputs' = outputs
    BY <1>2 DEF Submit, tables
  <2> QED  BY <2>2, <2>3, <2>4 DEF Spends
<1>3. CASE s # r
  BY <1>1, <1>3, OthersUntouched
<1>4. CASE s = r /\ ~Submit(r)
  BY <1>1, <1>4 DEF Does, Handle, Abort, RefuseToken, Verify, SaveCreation, SaveInput,
     SaveOutput, SavePayment, SaveTransaction, Saving
<1> QED  BY <1>2, <1>3, <1>4

\* The outputs of a transaction that spends: a payment, what is left, or both.
LEMMA SpendOutputs ==
    ASSUME TypeOK, NEW t \in Transaction, NEW o \in DOMAIN outputs, Spends(t, o)
    PROVE  LET a      == outputs[o].amount
               coupon == CouponOf(outputs[o])
               change == Pay(coupon, a - 1, t.signer)
           IN  \/ t.outputs = <<>>
               \/ \E to \in Addresses : t.outputs = <<Pay(coupon, 1, to)>>
               \/ a > 1 /\ t.outputs = <<change>>
               \/ a > 1 /\ \E to \in Addresses : t.outputs = <<Pay(coupon, 1, to), change>>
<1> DEFINE a == outputs[o].amount
           coupon == CouponOf(outputs[o])
           change == Pay(coupon, a - 1, t.signer)
<1>1. PICK payment \in {<<>>} \cup {<<Pay(coupon, 1, to)>> : to \in Addresses} :
         t.outputs = payment \o Change(t.signer, coupon, a)
  BY DEF Spends
<1>2. Change(t.signer, coupon, a) = IF a > 1 THEN <<change>> ELSE <<>>
  BY DEF Change
<1>3. a \in Nat
  BY RowTypes DEF OutputRow
<1> HIDE DEF a, coupon, change
<1>4. CASE payment = <<>>
  BY <1>1, <1>2, <1>3, <1>4 DEF a, coupon, change
<1>5. ASSUME NEW to \in Addresses, payment = <<Pay(coupon, 1, to)>>
      PROVE  t.outputs = IF a > 1 THEN <<Pay(coupon, 1, to), change>>
                         ELSE <<Pay(coupon, 1, to)>>
  BY <1>1, <1>2, <1>3, <1>5
<1> QED  BY <1>1, <1>3, <1>4, <1>5 DEF a, coupon, change

\* Where the coupons of a payment come from.
LEMMA PaidFrom ==
    ASSUME FormInv, NEW r \in Requests, pc[r] # "idle",
           request[r].transaction.outputs # <<>>
    PROVE  LET t == request[r].transaction
           IN  /\ PaidBy(r).amount > 0
               /\ \/ /\ t.creations # <<>> /\ t.inputs = <<>>
                     /\ CouponOf(t.creations[1]) = CouponOf(PaidBy(r))
                     /\ PaidBy(r).amount = t.creations[1].amount
                  \/ \E o \in DOMAIN outputs :
                        /\ t.creations = <<>> /\ t.inputs = <<[referredOutput |-> o]>>
                        /\ CouponOf(outputs[o]) = CouponOf(PaidBy(r))
                        /\ PaidBy(r).amount <= outputs[o].amount
<1> DEFINE t == request[r].transaction
<1>0. TypeOK /\ t \in Transaction
  BY RequestTypes DEF FormInv
<1>1. CASE Creates(t)
  <2>1. PICK p \in Payloads, n \in Amounts : t = GenerateCreateTransaction(t.signer, p, n)
    BY <1>1 DEF Creates
  <2>2. n \in Nat /\ n > 0
    BY ConstantsAssumption
  <2> QED  BY <2>1, <2>2 DEF GenerateCreateTransaction, CouponOf, Pay, PaidBy
<1>2. ASSUME NEW o \in DOMAIN outputs, Spends(t, o)
      PROVE  /\ t.creations = <<>> /\ t.inputs = <<[referredOutput |-> o]>>
             /\ CouponOf(outputs[o]) = CouponOf(PaidBy(r))
             /\ PaidBy(r).amount > 0 /\ PaidBy(r).amount <= outputs[o].amount
  <2> DEFINE a == outputs[o].amount
             coupon == CouponOf(outputs[o])
             change == Pay(coupon, a - 1, t.signer)
  <2>1. a \in Nat /\ a > 0
    BY <1>0, RowTypes DEF OutputRow, FormInv, Positive
  <2>2. \/ \E to \in Addresses : t.outputs[1] = Pay(coupon, 1, to)
        \/ a > 1 /\ t.outputs[1] = change
    BY <1>0, <1>2, SpendOutputs
  <2>3. t.creations = <<>> /\ t.inputs = <<[referredOutput |-> o]>>
    BY <1>2 DEF Spends
  <2>4. coupon = [creator |-> coupon.creator, payload |-> coupon.payload]
    BY DEF CouponOf
  <2> HIDE DEF a, coupon
  <2>5. \A n, to : CouponOf(Pay(coupon, n, to)) = coupon /\ Pay(coupon, n, to).amount = n
    BY <2>4 DEF Pay, CouponOf
  <2>6. CouponOf(t.outputs[1]) = coupon /\ t.outputs[1].amount \in 1 .. a
    BY <2>1, <2>2, <2>5
  <2> QED  BY <2>1, <2>3, <2>6 DEF a, coupon, PaidBy
<1> QED  BY <1>1, <1>2 DEF FormInv, Formed

\* What a payment's row is.
LEMMA PaymentRow ==
    ASSUME TypeOK, NEW r \in Requests, SavePayment(r),
           request[r].transaction.outputs # <<>>
    PROVE  LET row == OutputRowOf(PaidBy(r))
           IN  /\ row \in OutputRow /\ row.input_id = 0
               /\ CouponOf(row) = CouponOf(PaidBy(r)) /\ row.amount = PaidBy(r).amount
               /\ outputs' = Append(outputs, row)
<1>1. OutputRowOf(PaidBy(r)) \in OutputRow
  BY NewRowsType DEF SavePayment, TypeOK, Request, PaidBy
<1> QED  BY <1>1 DEF OutputRowOf, CouponOf, SavePayment, PaidBy

LEMMA PositiveStep ==
    ASSUME FormInv, NEW r \in Requests, Does(r)
    PROVE  Positive'
<1> SUFFICES ASSUME NEW o \in DOMAIN outputs' PROVE outputs'[o].amount > 0
  BY DEF Positive
<1>1. CASE o \in DOMAIN outputs
  BY <1>1, OutputSays DEF FormInv, Positive
<1>2. CASE o \notin DOMAIN outputs
  <2>1. SavePayment(r) /\ request[r].transaction.outputs # <<>>
    BY <1>2, AttachRow DEF Does, Handle, Submit, Abort, RefuseToken, Verify, SaveCreation,
       SaveInput, SaveOutput, SavePayment, SaveTransaction, tables
  <2>2. LET row == OutputRowOf(PaidBy(r))
        IN  row \in OutputRow /\ outputs' = Append(outputs, row)
               /\ row.amount = PaidBy(r).amount
    BY <2>1, PaymentRow DEF FormInv
  <2>3. outputs'[o] = OutputRowOf(PaidBy(r))
    BY <1>2, <2>2, AppendRow DEF FormInv, TypeOK
  <2>4. pc[r] # "idle"
    BY <2>1 DEF SavePayment
  <2> QED  BY <2>1, <2>2, <2>3, <2>4, PaidFrom
<1> QED  BY <1>1, <1>2

LEMMA FormInvariant == Spec => []FormInv
<1>1. Init => FormInv
  BY InitType DEF Init, FormInv, Formed, Positive
<1>2. FormInv /\ [Next]_vars => FormInv'
  <2> SUFFICES ASSUME FormInv, [Next]_vars PROVE FormInv'
    OBVIOUS
  <2>1. TypeOK'
    BY StepType DEF FormInv
  <2>2. CASE \E r \in Requests : Does(r)
    BY <2>1, <2>2, FormedStep, PositiveStep DEF FormInv
  <2>3. CASE UNCHANGED vars
    BY <2>1, <2>3 DEF FormInv, Formed, Spends, Positive, vars, tables
  <2> QED  BY <2>2, <2>3 DEF Next, Terminating, Does
<1> QED  BY <1>1, <1>2, PTL DEF Spec

-----------------------------------------------------------------------------
(* There are never more coupons than were created                          *)

\* Nobody else is saving while r does, and afterwards.
LEMMA Alone ==
    ASSUME TypeOK, Serial, Serial', NEW r \in Requests, Does(r),
           pc[r] \in Saving \/ pc'[r] \in Saving,
           NEW s \in Requests, s # r
    PROVE  pc[s] \notin Saving /\ pc'[s] \notin Saving
  BY OthersUntouched DEF Serial

LEMMA CreatedFirstStep ==
    ASSUME SupplyInv, TypeOK', Serial', NEW r \in Requests, Does(r)
    PROVE  CreatedFirst'
<1> DEFINE t(s) == request[s].transaction
           c(s) == CouponOf(t(s).creations[1])
<1> USE DEF SupplyInv, FormInv, SerialInv
<1> SUFFICES ASSUME NEW s \in Requests, pc'[s] = "input", (t(s).creations # <<>>)'
             PROVE  (Circulating(c(s)) + t(s).creations[1].amount <= Issued(c(s)))'
  BY DEF CreatedFirst
<1>1. CASE s = r /\ SaveCreation(r)
  <2> DEFINE row == CreationRowOf(t(r).creations[1], t(r).signer)
  <2>1. request' = request /\ outputs' = outputs /\ t(r).creations # <<>>
    BY <1>1 DEF SaveCreation
  <2>2. /\ row \in CreationRow /\ creations' = Append(creations, row)
        /\ CouponOf(row) = c(r) /\ row.amount = t(r).creations[1].amount
        /\ row.amount \in Nat
    <3>1. row \in CreationRow
      BY <1>1, <2>1, NewRowsType DEF SaveCreation, TypeOK, Request
    <3> QED  BY <1>1, <2>1, <3>1 DEF SaveCreation, CreationRowOf, CouponOf, CreationRow
  <2>3. c(r) \in Coupons
    BY <2>2 DEF CreationRow, Coupons, CouponOf
  <2>4. Circulating(c(r)) + Pending(c(r)) <= Issued(c(r))
    BY <2>3 DEF SupplyBounded
  <2>5. Issued(c(r))' = Issued(c(r)) + row.amount
    <3> HIDE DEF row
    <3>1. \A k : Issued(k)' = Issued(k) + IF CouponOf(row) = k THEN row.amount ELSE 0
      BY <2>2, IssuedMore
    <3>2. c(r)' = c(r)
      BY <2>1
    <3> QED  BY <2>2, <3>1, <3>2
  <2>6. Circulating(c(r))' = Circulating(c(r))
    BY <2>1 DEF Circulating, Spent
  <2>7. (t(r).creations[1].amount)' = row.amount
    BY <2>1, <2>2
  <2>8. /\ Circulating(c(r)) \in Nat /\ Pending(c(r)) \in Nat
        /\ Issued(c(r)) \in Nat
    BY CountTypes
  <2> HIDE DEF row, c, t
  <2> QED  BY <1>1, <2>2, <2>4, <2>5, <2>6, <2>7, <2>8
<1>2. CASE ~(s = r /\ SaveCreation(r))
  <2>1. pc[s] = "input" /\ request'[s] = request[s]
    <3>1. CASE s # r
      BY <3>1, OthersUntouched
    <3>2. CASE s = r
      BY <1>2, <3>2, VerifyStep DEF Does, Handle, Submit, Abort, RefuseToken, SaveInput,
         SaveOutput, SavePayment, SaveTransaction, TypeOK
    <3> QED  BY <3>1, <3>2
  <2>2. outputs' = outputs /\ creations' = creations
    <3>1. pc[r] \notin Saving
      <4>1. CASE s # r
        BY <2>1, <4>1 DEF Serial, Saving
      <4>2. CASE s = r
        BY <1>2, <2>1, <4>2 DEF Does, Handle, Submit, Abort, RefuseToken, Verify, SaveInput,
           SaveOutput, SavePayment, SaveTransaction, TypeOK, Saving
      <4> QED  BY <4>1, <4>2
    <3> QED  BY <3>1 DEF Does, Handle, Submit, Abort, RefuseToken, Verify, SaveCreation,
             SaveInput, SaveOutput, SavePayment, SaveTransaction, Saving, tables
  <2>3. t(s).creations # <<>> /\ c(s)' = c(s)
    BY <2>1
  <2>4. Circulating(c(s)) + t(s).creations[1].amount <= Issued(c(s))
    BY <2>1, <2>3 DEF CreatedFirst
  <2> QED  BY <2>1, <2>2, <2>4 DEF Circulating, Spent, Issued
<1> QED  BY <1>1, <1>2

LEMMA SupplyStep ==
    ASSUME SupplyInv, TypeOK', Serial', NEW r \in Requests, Does(r)
    PROVE  SupplyBounded'
<1> USE DEF SupplyInv, FormInv, SerialInv
<1> DEFINE t == request[r].transaction
<1> SUFFICES ASSUME NEW c \in Coupons
             PROVE  Circulating(c)' + Pending(c)' <= Issued(c)'
  BY DEF SupplyBounded
<1>0. /\ Circulating(c) + Pending(c) <= Issued(c)
      /\ Circulating(c) \in Nat /\ Pending(c) \in Nat /\ Issued(c) \in Nat
  BY CountTypes DEF SupplyBounded
<1>1. Circulating(c)' \in Nat /\ Pending(c)' \in Nat /\ Issued(c)' \in Nat
  BY CountsAreNatNext DEF CountsAreNat
<1>2. ASSUME \A s \in Requests : OnTheWay(s)' => OnTheWay(s) /\ request'[s] = request[s],
             Circulating(c)' = Circulating(c), Issued(c)' = Issued(c)
      PROVE  Circulating(c)' + Pending(c)' <= Issued(c)'
  <2>1. Pending(c)' <= Pending(c)
    BY <1>2, PendingLess
  <2> QED  BY <1>0, <1>1, <1>2, <2>1
<1>3. CASE Submit(r) \/ Abort(r) \/ RefuseToken(r) \/ Verify(r)
  <2>1. outputs' = outputs /\ creations' = creations
    BY <1>3 DEF Submit, Abort, RefuseToken, Verify, tables
  <2>2. \A s \in Requests : OnTheWay(s)' => OnTheWay(s) /\ request'[s] = request[s]
    <3> SUFFICES ASSUME NEW s \in Requests, OnTheWay(s)'
                 PROVE  OnTheWay(s) /\ request'[s] = request[s]
      OBVIOUS
    <3>1. CASE s = r
      BY <1>3, <3>1, VerifyStep DEF OnTheWay, Submit, Abort, RefuseToken, TypeOK
    <3>2. CASE s # r
      BY <3>2, OthersUntouched DEF OnTheWay
    <3> QED  BY <3>1, <3>2
  <2> QED  BY <1>2, <2>1, <2>2 DEF Circulating, Spent, Issued
<1>4. CASE SaveCreation(r)
  <2>1. Pending(c)' = 0
    <3>1. \A s \in Requests : ~OnTheWay(s)'
      BY <1>4, Alone DEF SaveCreation, OnTheWay, TypeOK, Saving
    <3> QED  BY <3>1, PendingOneNext DEF PendingIsOne
  <2>2. Circulating(c)' = Circulating(c)
    BY <1>4 DEF SaveCreation, Circulating, Spent
  <2>3. Issued(c) <= Issued(c)'
    <3>1. CASE t.creations = <<>>
      BY <1>0, <1>4, <3>1 DEF SaveCreation, Issued
    <3>2. CASE t.creations # <<>>
      <4> DEFINE row == CreationRowOf(t.creations[1], t.signer)
      <4>1. row \in CreationRow /\ creations' = Append(creations, row)
        BY <1>4, <3>2, NewRowsType DEF SaveCreation, TypeOK, Request
      <4>2. row.amount \in Nat
        BY <4>1 DEF CreationRow
      <4> HIDE DEF row
      <4> QED  BY <1>0, <4>1, <4>2, IssuedMore
    <3> QED  BY <3>1, <3>2
  <2> QED  BY <1>0, <1>1, <2>1, <2>2, <2>3
<1>5. CASE SaveInput(r)
  <2>0. outputs' = outputs /\ creations' = creations /\ request' = request /\ pc[r] = "input"
    BY <1>5 DEF SaveInput
  <2>1. Circulating(c)' = Circulating(c) /\ Issued(c)' = Issued(c)
    BY <2>0 DEF Circulating, Spent, Issued
  <2>2. \A s \in Requests : s # r => ~OnTheWay(s)'
    BY <1>5, Alone DEF SaveInput, OnTheWay, Saving
  <2>3. CASE OnTheWay(r)' /\ CouponOf(PaidBy(r)) = c
    <3>1. t.inputs = <<>> /\ t.outputs # <<>>
      BY <1>5, <2>0, <2>3 DEF SaveInput, OnTheWay, TypeOK
    <3>2. /\ t.creations # <<>> /\ CouponOf(t.creations[1]) = c
          /\ PaidBy(r).amount = t.creations[1].amount
      <4>1. \A o : t.inputs # <<[referredOutput |-> o]>>
        BY <3>1
      <4>2. pc[r] # "idle"
        BY <2>0
      <4> HIDE DEF t
      <4> QED  BY <2>3, <3>1, <4>1, <4>2, PaidFrom DEF t
    <3>3. Circulating(c) + PaidBy(r).amount <= Issued(c)
      BY <2>0, <3>2 DEF CreatedFirst
    <3>4. Pending(c)' = PaidBy(r).amount
      <4>1. PaidBy(r)' = PaidBy(r)
        BY <2>0 DEF PaidBy
      <4> QED  BY <2>3, <4>1, PendingOneNext DEF PendingIsOne
    <3> QED  BY <2>1, <3>3, <3>4
  <2>4. CASE ~(OnTheWay(r)' /\ CouponOf(PaidBy(r)) = c)
    <3>1. Pending(c)' = 0
      <4>1. PaidBy(r)' = PaidBy(r)
        BY <2>0 DEF PaidBy
      <4> QED  BY <2>2, <2>4, <4>1, PendingOneNext DEF PendingIsOne
    <3> QED  BY <1>0, <1>1, <2>1, <3>1
  <2> QED  BY <2>3, <2>4
<1>6. CASE SaveOutput(r)
  <2> DEFINE i == saved[r].input
             p == inputs[i].output_id
  <2>0. /\ pc[r] = "spend" /\ request' = request /\ creations' = creations
        /\ outputs' = [outputs EXCEPT ![p].input_id = i]
    BY <1>6 DEF SaveOutput
  <2>1. /\ i \in Nat \ {0} /\ p \in DOMAIN outputs /\ outputs[p].input_id = 0
        /\ 1 \in DOMAIN t.inputs /\ p = t.inputs[1].referredOutput
    <3>1. i \in DOMAIN inputs /\ i # 0 /\ p \in DOMAIN outputs /\ outputs[p].input_id = 0
      BY <2>0, AboutToMark
    <3>2. i \in Nat
      BY <3>1, RowTypes
    <3>3. 1 \in DOMAIN t.inputs /\ p = t.inputs[1].referredOutput
      BY <2>0 DEF HolderInv, SpendIsPrepared
    <3> QED  BY <3>1, <3>2, <3>3
  <2>2. outputs[p].amount \in Nat
    BY <2>1, RowTypes DEF OutputRow
  <2>3. Circulating(c) = Circulating(c)' +
           IF CouponOf(outputs[p]) = c THEN outputs[p].amount ELSE 0
    <3> HIDE DEF p, i
    <3> QED  BY <2>0, <2>1, TakenOut
  <2>4. Issued(c)' = Issued(c)
    BY <2>0 DEF Issued
  <2>5. \A s \in Requests : s # r => ~OnTheWay(s)'
    BY <2>0, Alone DEF OnTheWay, Saving
  <2>6. PaidBy(r)' = PaidBy(r)
    BY <2>0 DEF PaidBy
  <2>7. CASE OnTheWay(r)' /\ CouponOf(PaidBy(r)) = c
    <3>1. t.outputs # <<>> /\ t.inputs # <<>>
      BY <2>0, <2>1, <2>7 DEF OnTheWay
    <3>2. PICK o \in DOMAIN outputs :
             /\ t.inputs = <<[referredOutput |-> o]>>
             /\ CouponOf(outputs[o]) = CouponOf(PaidBy(r))
             /\ PaidBy(r).amount <= outputs[o].amount
      BY <2>0, <3>1, PaidFrom
    <3>3. o = p
      BY <2>1, <3>2
    <3>4. Pending(c)' = PaidBy(r).amount
      BY <2>6, <2>7, PendingOneNext DEF PendingIsOne
    <3> HIDE DEF p, t
    <3> QED  BY <1>0, <1>1, <2>2, <2>3, <2>4, <2>7, <3>2, <3>3, <3>4
  <2>8. CASE ~(OnTheWay(r)' /\ CouponOf(PaidBy(r)) = c)
    <3>1. Pending(c)' = 0
      BY <2>5, <2>6, <2>8, PendingOneNext DEF PendingIsOne
    <3> HIDE DEF p, t
    <3> QED  BY <1>0, <1>1, <2>2, <2>3, <2>4, <3>1
  <2> QED  BY <2>7, <2>8
<1>7. CASE SavePayment(r)
  <2>0. pc[r] = "output" /\ creations' = creations
    BY <1>7 DEF SavePayment
  <2>1. Issued(c)' = Issued(c)
    BY <2>0 DEF Issued
  <2>2. Pending(c)' = 0
    <3>1. \A s \in Requests : ~OnTheWay(s)'
      BY <1>7, Alone DEF SavePayment, OnTheWay, TypeOK, Saving
    <3> QED  BY <3>1, PendingOneNext DEF PendingIsOne
  <2>3. CASE t.outputs = <<>>
    <3>1. Circulating(c)' = Circulating(c)
      BY <1>7, <2>3 DEF SavePayment, Circulating, Spent
    <3> QED  BY <1>0, <2>1, <2>2, <3>1
  <2>4. CASE t.outputs # <<>>
    <3> DEFINE row == OutputRowOf(PaidBy(r))
    <3>1. /\ row \in OutputRow /\ row.input_id = 0 /\ outputs' = Append(outputs, row)
          /\ CouponOf(row) = CouponOf(PaidBy(r)) /\ row.amount = PaidBy(r).amount
      BY <1>7, <2>4, PaymentRow
    <3>2. CouponOf(PaidBy(r)) = c => Pending(c) = row.amount
      BY <2>0, <2>4, <3>1, PendingOne DEF PendingIsOne, OnTheWay
    <3> HIDE DEF row
    <3>3. Circulating(c)' = Circulating(c) + IF CouponOf(row) = c THEN row.amount ELSE 0
      BY <3>1, PaidIn
    <3> QED  BY <1>0, <1>1, <2>1, <2>2, <3>1, <3>2, <3>3
  <2> QED  BY <2>3, <2>4
<1>8. CASE SaveTransaction(r)
  <2>1. \A s \in Requests : ~OnTheWay(s)'
    BY <1>8, Alone DEF SaveTransaction, OnTheWay, TypeOK, Saving
  <2>2. Pending(c)' = 0
    BY <2>1, PendingOneNext DEF PendingIsOne
  <2>3. Circulating(c)' = Circulating(c) /\ Issued(c)' = Issued(c)
    BY <1>8, AttachedSame
  <2> QED  BY <1>0, <2>2, <2>3
<1> QED  BY <1>3, <1>4, <1>5, <1>6, <1>7, <1>8 DEF Does, Handle

LEMMA SupplyInvariant == ASSUME Capacity = 1 PROVE Spec => []SupplyInv
<1>1. Init => CreatedFirst /\ SupplyBounded
  <2> SUFFICES ASSUME Init PROVE CreatedFirst /\ SupplyBounded
    OBVIOUS
  <2>1. CreatedFirst
    BY DEF Init, CreatedFirst
  <2>2. ASSUME NEW c \in Coupons PROVE Circulating(c) + Pending(c) <= Issued(c)
    <3>1. /\ DOMAIN InCirculation(c) = {} /\ DOMAIN Created(c) = {} /\ DOMAIN Paying(c) = {}
      BY DEF Init, InCirculation, Created, Paying, OnTheWay
    <3>2. Circulating(c) = 0 /\ Issued(c) = 0 /\ Pending(c) = 0
      BY <3>1, Counts, TotalNone
    <3> QED  BY <3>2
  <2> QED  BY <2>1, <2>2 DEF SupplyBounded
<1>2. CreatedFirst /\ SupplyBounded /\ SerialInv /\ FormInv /\ SerialInv' /\ FormInv'
      /\ [Next]_vars => CreatedFirst' /\ SupplyBounded'
  <2> SUFFICES ASSUME SupplyInv, TypeOK', Serial', [Next]_vars
               PROVE  CreatedFirst' /\ SupplyBounded'
    BY DEF SupplyInv, SerialInv, FormInv
  <2>1. CASE \E r \in Requests : Does(r)
    BY <2>1, CreatedFirstStep, SupplyStep
  <2>2. CASE UNCHANGED vars
    <3>1. \A c : /\ Circulating(c)' = Circulating(c) /\ Pending(c)' = Pending(c)
                 /\ Issued(c)' = Issued(c)
      BY <2>2 DEF vars, tables, Circulating, Spent, Pending, OnTheWay, Issued
    <3> QED  BY <2>2, <3>1 DEF SupplyInv, CreatedFirst, SupplyBounded, vars, tables
  <2> QED  BY <2>1, <2>2 DEF Next, Terminating, Does
<1> QED  BY <1>1, <1>2, SerialInvariant, FormInvariant, PTL DEF Spec, SupplyInv

\* Behind a lock, whatever is cut off between two saves: no more coupons of a
\* kind are in circulation, or taken from one holder for another, than were
\* created.
THEOREM SupplyIsBounded == ASSUME Capacity = 1 PROVE Spec => []SupplyBounded
<1>1. SupplyInv => SupplyBounded
  BY DEF SupplyInv
<1> QED  BY <1>1, SupplyInvariant, PTL

-----------------------------------------------------------------------------
(* Why honest clients are refused                                          *)

LEMMA CreationIsValid ==
    ASSUME NEW t, Creates(t)
    PROVE  VerifyTransaction(t, AllHistory)
<1>1. PICK p \in Payloads, n \in Amounts : t = GenerateCreateTransaction(t.signer, p, n)
  BY DEF Creates
<1>2. n \in Nat /\ n > 0
  BY ConstantsAssumption
<1> DEFINE key == t.signer
           coupon == [creator |-> key, payload |-> p]
           creation == [creator |-> key, payload |-> p, amount |-> n]
<1>3. /\ t.creations = <<creation>> /\ t.inputs = <<>> /\ t.outputs = <<Pay(coupon, n, key)>>
  BY <1>1 DEF GenerateCreateTransaction
<1>4. /\ CouponOf(creation) = coupon /\ CouponOf(Pay(coupon, n, key)) = coupon
      /\ creation.amount = n /\ Pay(coupon, n, key).amount = n
  BY DEF CouponOf, Pay
<1>5. Taken(t, coupon) = n
  <2> DEFINE f == [i \in {i \in DOMAIN t.outputs : CouponOf(t.outputs[i]) = coupon}
                     |-> t.outputs[i].amount]
  <2>1. DOMAIN f = {1} /\ f[1] = n
    BY <1>3, <1>4
  <2> HIDE DEF f
  <2>2. Total(f) = n
    BY <1>2, <2>1, TotalOne
  <2> QED  BY <2>2 DEF f, Taken
<1>6. Available(t, coupon, AllHistory) = n
  <2> DEFINE f == [i \in {i \in DOMAIN t.creations : CouponOf(t.creations[i]) = coupon}
                     |-> t.creations[i].amount]
             g == [i \in {i \in DOMAIN t.inputs :
                            CouponOf(AllHistory[t.inputs[i].referredOutput]) = coupon}
                     |-> AllHistory[t.inputs[i].referredOutput].amount]
  <2>1. DOMAIN f = {1} /\ f[1] = n /\ DOMAIN g = {}
    BY <1>3, <1>4
  <2>2. Available(t, coupon, AllHistory) = Total(f) + Total(g)
    BY DEF Available
  <2> HIDE DEF f, g
  <2>3. Total(f) = n /\ Total(g) = 0
    BY <1>2, <2>1, TotalOne, TotalNone
  <2> QED  BY <1>2, <2>2, <2>3
<1>7. creation.creator = key
  OBVIOUS
<1> HIDE DEF coupon, creation, key
<1>8. VerifyConsistency(t, AllHistory)
  BY <1>2, <1>3, <1>4, <1>5, <1>6 DEF VerifyConsistency
<1>9. VerifySignatures(t, AllHistory)
  BY <1>3, <1>7 DEF VerifySignatures, key
<1> QED  BY <1>8, <1>9 DEF VerifyTransaction

LEMMA SpendIsValid ==
    ASSUME FormInv, NEW t \in Transaction, NEW o \in DOMAIN outputs, Spends(t, o), ~Spent(o)
    PROVE  VerifyTransaction(t, AllHistory)
<1> DEFINE a == outputs[o].amount
           coupon == CouponOf(outputs[o])
           change == Pay(coupon, a - 1, t.signer)
<1>1. a \in Nat /\ a > 0
  BY RowTypes DEF FormInv, OutputRow, Positive
<1>2. /\ t.creations = <<>> /\ t.inputs = <<[referredOutput |-> o]>>
      /\ outputs[o].receiver = t.signer
  BY DEF Spends
<1>3. o \in DOMAIN AllHistory /\ AllHistory[o] = outputs[o] /\ outputs[o].input_id = 0
  BY DEF AllHistory, Spent
<1>4. \A n, to : CouponOf(Pay(coupon, n, to)) = coupon /\ Pay(coupon, n, to).amount = n
  BY DEF CouponOf, Pay
<1>5. \/ t.outputs = <<>>
      \/ \E to \in Addresses : t.outputs = <<Pay(coupon, 1, to)>>
      \/ a > 1 /\ t.outputs = <<change>>
      \/ a > 1 /\ \E to \in Addresses : t.outputs = <<Pay(coupon, 1, to), change>>
  BY SpendOutputs DEF FormInv
<1>6. Available(t, coupon, AllHistory) = a
  <2> DEFINE f == [i \in {i \in DOMAIN t.creations : CouponOf(t.creations[i]) = coupon}
                     |-> t.creations[i].amount]
             g == [i \in {i \in DOMAIN t.inputs :
                            CouponOf(AllHistory[t.inputs[i].referredOutput]) = coupon}
                     |-> AllHistory[t.inputs[i].referredOutput].amount]
  <2>1. DOMAIN f = {} /\ DOMAIN g = {1} /\ g[1] = a
    BY <1>2, <1>3
  <2>2. Available(t, coupon, AllHistory) = Total(f) + Total(g)
    BY DEF Available
  <2> HIDE DEF f, g, a
  <2>3. Total(f) = 0 /\ Total(g) = a
    BY <1>1, <2>1, TotalOne, TotalNone
  <2> QED  BY <1>1, <2>2, <2>3
<1> DEFINE f == [i \in {i \in DOMAIN t.outputs : CouponOf(t.outputs[i]) = coupon}
                   |-> t.outputs[i].amount]
<1> HIDE DEF a, coupon
<1>7. /\ DOMAIN f = DOMAIN t.outputs
      /\ \A i \in DOMAIN t.outputs : /\ CouponOf(t.outputs[i]) = coupon
                                     /\ f[i] = t.outputs[i].amount
                                     /\ f[i] > 0 /\ f[i] \in Nat
  BY <1>1, <1>4, <1>5
<1>8. t.outputs # <<>> => Taken(t, coupon) <= a
  <2>0. Taken(t, coupon) = Total(f)
    BY DEF Taken
  <2>1. CASE Len(t.outputs) = 1
    <3>1. DOMAIN f = {1} /\ f[1] \in 1 .. a
      BY <1>1, <1>4, <1>5, <1>7, <2>1
    <3> HIDE DEF f
    <3> QED  BY <1>1, <2>0, <3>1, TotalOne
  <2>2. CASE a > 1 /\ \E to \in Addresses : t.outputs = <<Pay(coupon, 1, to), change>>
    <3>1. DOMAIN f = {1, 2} /\ f[1] = 1 /\ f[2] = a - 1
      BY <1>4, <1>7, <2>2
    <3> DEFINE e == [i \in {1} |-> 1]
    <3>2. Total(e) = 1
      <4>1. DOMAIN e = {1} /\ e[1] = 1
        OBVIOUS
      <4> HIDE DEF e
      <4> QED  BY <4>1, TotalOne
    <3>3. /\ DOMAIN e = {1} /\ e[1] = 1 /\ IsFiniteSet(DOMAIN e)
      BY FS_Singleton
    <3> HIDE DEF e, f
    <3>4. 2 \notin DOMAIN e /\ DOMAIN f = DOMAIN e \cup {2} /\ f[2] \in Nat
      BY <1>1, <3>1, <3>3
    <3>5. \A x \in DOMAIN e : e[x] \in Nat /\ f[x] = e[x]
      BY <3>1, <3>3
    <3>6. Total(f) = Total(e) + f[2]
      BY <3>3, <3>4, <3>5, TotalAdd
    <3> QED  BY <1>1, <2>0, <3>1, <3>2, <3>6
  <2> QED  BY <1>5, <2>1, <2>2
<1>9. VerifyConsistency(t, AllHistory)
  <2>1. ASSUME NEW i \in DOMAIN t.outputs
        PROVE  /\ t.outputs[i].amount > 0
               /\ Taken(t, CouponOf(t.outputs[i]))
                     <= Available(t, CouponOf(t.outputs[i]), AllHistory)
    <3>1. t.outputs # <<>>
      OBVIOUS
    <3> QED  BY <1>6, <1>7, <1>8, <3>1
  <2> QED  BY <1>2, <1>3, <2>1 DEF VerifyConsistency
<1>10. VerifySignatures(t, AllHistory)
  BY <1>2, <1>3 DEF VerifySignatures
<1> QED  BY <1>9, <1>10 DEF VerifyTransaction

\* An output that was spent stays spent, also when its mark is overwritten.
LEMMA SpentStays ==
    ASSUME HolderInv, NEW r \in Requests, Does(r), NEW o \in DOMAIN outputs, Spent(o)
    PROVE  Spent(o)'
<1>1. outputs[o] \in OutputRow /\ outputs[o].input_id # 0
  BY RowTypes DEF HolderInv, Spent
<1>2. CASE SaveOutput(r) /\ outputs'[o] = [outputs[o] EXCEPT !.input_id = saved[r].input]
  <2>1. saved[r].input \in DOMAIN inputs
    BY <1>2 DEF HolderInv, SpendIsPrepared, SaveOutput
  <2>2. saved[r].input # 0
    BY <2>1, RowTypes DEF HolderInv
  <2>3. outputs'[o].input_id = saved[r].input
    BY <1>1, <1>2 DEF OutputRow
  <2> QED  BY <2>2, <2>3 DEF Spent
<1>3. CASE outputs'[o] = outputs[o]
  BY <1>1, <1>3 DEF Spent
<1>4. CASE outputs'[o] = [outputs[o] EXCEPT !.transaction_id = transactions + 1]
  BY <1>1, <1>4 DEF Spent, OutputRow
<1> QED  BY <1>2, <1>3, <1>4, OutputStep DEF HolderInv

LEMMA RefusedStep ==
    ASSUME HolderInv, FormInv, RefusedForAReason, NEW r \in Requests, Does(r)
    PROVE  RefusedForAReason'
<1> USE DEF FormInv
<1> DEFINE t(s) == request[s].transaction
           SomeSpent(s) == \E k \in DOMAIN t(s).inputs : Spent(t(s).inputs[k].referredOutput)
<1> SUFFICES ASSUME NEW s \in Requests, pc'[s] \in {"refused", "unjudged"}, Heard(s)',
                    ~(Faults /\ pc'[s] = "unjudged")
             PROVE  SomeSpent(s)'
  BY DEF RefusedForAReason
<1>1. request'[s] = request[s] /\ pc[s] # "idle"
  <2>1. CASE s = r
    BY <2>1 DEF Does, Handle, Submit, Abort, RefuseToken, Verify, SaveCreation, SaveInput,
       SaveOutput, SavePayment, SaveTransaction, TypeOK, Saving
  <2>2. CASE s # r
    BY <2>2, OthersUntouched
  <2> QED  BY <2>1, <2>2
<1>2. t(s) \in Transaction /\ Heard(s)
  BY <1>1, RequestTypes DEF Heard
<1>3. SomeSpent(s)
  <2>1. CASE pc'[s] = pc[s]
    BY <1>2, <2>1 DEF RefusedForAReason
  <2>2. CASE pc'[s] # pc[s]
    <3>1. s = r /\ Verify(r)
      <4>1. s = r
        BY <2>2, OthersUntouched
      <4> QED  BY <1>1, <1>2, <2>2, <4>1 DEF Heard, Does, Handle, Submit, Abort, RefuseToken,
               SaveCreation, SaveInput, SaveOutput, SavePayment, SaveTransaction, TypeOK
    <3>2. pc'[s] = "refused"
      BY <1>2, <3>1, VerifyStep DEF Heard
    <3>3. ~VerifyTransaction(t(s), AllHistory)
      BY <3>1, <3>2, VerifyStep
    <3>4. PICK o \in DOMAIN outputs : Spends(t(s), o)
      BY <1>1, <3>3, CreationIsValid DEF Formed
    <3>5. Spent(o)
      BY <1>2, <3>3, <3>4, SpendIsValid
    <3>6. 1 \in DOMAIN t(s).inputs /\ t(s).inputs[1].referredOutput = o
      BY <3>4 DEF Spends
    <3> QED  BY <3>5, <3>6
  <2> QED  BY <2>1, <2>2
<1>4. PICK k \in DOMAIN t(s).inputs : Spent(t(s).inputs[k].referredOutput)
  BY <1>3
<1>5. PICK o \in DOMAIN outputs : o = t(s).inputs[k].referredOutput
  <2>1. ~Creates(t(s))
    <3>1. Creates(t(s)) => t(s).inputs = <<>>
      BY DEF Creates, GenerateCreateTransaction
    <3>2. t(s).inputs # <<>>
      BY <1>4
    <3> QED  BY <3>1, <3>2
  <2>2. PICK p \in DOMAIN outputs : Spends(t(s), p)
    BY <1>1, <2>1 DEF Formed
  <2> QED  BY <2>2 DEF Spends
<1>6. Spent(o)'
  BY <1>4, <1>5, SpentStays
<1> QED  BY <1>1, <1>4, <1>5, <1>6

\* However many handlers run at once and whatever is cut off: an honest client
\* that is heard gets a 401 for no other reason than that somebody spent the output
\* first, or that the library could not be run.
THEOREM RefusalsHaveReasons == Spec => []RefusedForAReason
<1>1. Init => RefusedForAReason
  BY DEF Init, RefusedForAReason
<1>2. RefusedForAReason /\ HolderInv /\ FormInv /\ [Next]_vars => RefusedForAReason'
  <2> SUFFICES ASSUME RefusedForAReason, HolderInv, FormInv, [Next]_vars
               PROVE  RefusedForAReason'
    OBVIOUS
  <2>1. CASE \E r \in Requests : Does(r)
    BY <2>1, RefusedStep
  <2>2. CASE UNCHANGED vars
    BY <2>2 DEF RefusedForAReason, Heard, Spent, vars, tables
  <2> QED  BY <2>1, <2>2 DEF Next, Terminating, Does
<1> QED  BY <1>1, <1>2, HolderInvariant, FormInvariant, PTL DEF Spec

-----------------------------------------------------------------------------
(* What was answered with an id is in the tables                           *)

\* A handler's rows are its own.
Distinct(ids) ==
    \A r, s \in Requests : r # s /\ ids[r] # 0 => ids[r] # ids[s]

CreationIds == [r \in Requests |-> saved[r].creation]
InputIds    == [r \in Requests |-> saved[r].input]
OutputIds   == [r \in Requests |-> saved[r].output]

DistinctRows ==
    /\ \A r \in Requests : /\ saved[r].creation <= Len(creations)
                           /\ saved[r].input <= Len(inputs)
                           /\ saved[r].output <= Len(outputs)
    /\ Distinct(CreationIds) /\ Distinct(InputIds) /\ Distinct(OutputIds)

\* The transaction comes last.
TransactionLast ==
    \A r \in Requests : (saved[r].transaction # 0) <=> pc[r] = "ok"

CreationSaved(r) ==
    LET t == request[r].transaction
        i == saved[r].creation
    IN  /\ i \in DOMAIN creations
        /\ creations[i] = [CreationRowOf(t.creations[1], t.signer)
                             EXCEPT !.transaction_id = saved[r].transaction]

InputSaved(r) ==
    LET t == request[r].transaction
        i == saved[r].input
    IN  /\ i \in DOMAIN inputs
        /\ inputs[i] = [InputRowOf(t.inputs[1], t.signer)
                          EXCEPT !.transaction_id = saved[r].transaction]

PaymentSaved(r) ==
    LET o == saved[r].output
    IN  /\ o \in DOMAIN outputs
        /\ [outputs[o] EXCEPT !.input_id = 0] =
              [OutputRowOf(PaidBy(r)) EXCEPT !.transaction_id = saved[r].transaction]

RowsSaved ==
    \A r \in Requests :
        LET t == request[r].transaction
        IN  /\ pc[r] \in {"input", "spend", "output", "commit", "ok"} /\ t.creations # <<>>
                  => CreationSaved(r)
            /\ pc[r] \in {"spend", "output", "commit", "ok"} /\ t.inputs # <<>>
                  => InputSaved(r)
            /\ pc[r] \in {"commit", "ok"} /\ t.outputs # <<>> => PaymentSaved(r)

\* When every creation is of one coupon, so is every output.
Ones == \A o \in DOMAIN outputs : outputs[o].amount = 1

RowsInv == FormInv /\ DistinctRows /\ TransactionLast /\ RowsSaved

\* What the steps do to the creations and the inputs there are.
LEMMA CreationStep ==
    ASSUME TypeOK, NEW r \in Requests, Does(r), NEW i \in DOMAIN creations
    PROVE  /\ i \in DOMAIN creations'
           /\ \/ creations'[i] = creations[i]
              \/ /\ SaveTransaction(r) /\ i = saved[r].creation /\ i # 0
                 /\ creations'[i] = [creations[i] EXCEPT !.transaction_id = transactions + 1]
<1>1. CASE SaveCreation(r)
  <2> DEFINE t == request[r].transaction
  <2>1. CASE t.creations = <<>>
    BY <1>1, <2>1 DEF SaveCreation
  <2>2. CASE t.creations # <<>>
    <3>1. CreationRowOf(t.creations[1], t.signer) \in CreationRow
      BY <1>1, <2>2, NewRowsType DEF SaveCreation, TypeOK, Request
    <3>2. creations' = Append(creations, CreationRowOf(t.creations[1], t.signer))
      BY <1>1, <2>2 DEF SaveCreation
    <3> QED  BY <3>1, <3>2, AppendRow DEF TypeOK
  <2> QED  BY <2>1, <2>2
<1>2. CASE SaveTransaction(r)
  BY <1>2, AttachRow DEF SaveTransaction
<1>3. CASE creations' = creations
  BY <1>3
<1> QED  BY <1>1, <1>2, <1>3 DEF Does, Handle, Submit, Abort, RefuseToken, Verify,
         SaveInput, SaveOutput, SavePayment, tables

LEMMA InputStep ==
    ASSUME TypeOK, NEW r \in Requests, Does(r), NEW i \in DOMAIN inputs
    PROVE  /\ i \in DOMAIN inputs'
           /\ \/ inputs'[i] = inputs[i]
              \/ /\ SaveTransaction(r) /\ i = saved[r].input /\ i # 0
                 /\ inputs'[i] = [inputs[i] EXCEPT !.transaction_id = transactions + 1]
<1>1. CASE SaveInput(r)
  <2> DEFINE t == request[r].transaction
  <2>1. CASE t.inputs = <<>>
    BY <1>1, <2>1 DEF SaveInput
  <2>2. CASE t.inputs # <<>>
    <3>1. InputRowOf(t.inputs[1], t.signer) \in InputRow
      BY <1>1, <2>2, NewRowsType DEF SaveInput, TypeOK, Request
    <3>2. inputs' = Append(inputs, InputRowOf(t.inputs[1], t.signer))
      BY <1>1, <2>2 DEF SaveInput
    <3> QED  BY <3>1, <3>2, AppendRow DEF TypeOK
  <2> QED  BY <2>1, <2>2
<1>2. CASE SaveTransaction(r)
  BY <1>2, AttachRow DEF SaveTransaction
<1>3. CASE inputs' = inputs
  BY <1>3
<1> QED  BY <1>1, <1>2, <1>3 DEF Does, Handle, Submit, Abort, RefuseToken, Verify,
         SaveCreation, SaveOutput, SavePayment, tables

\* Tables of the same rows are of the same length.
LEMMA SameLen ==
    ASSUME NEW S, NEW rows \in Seq(S), NEW other \in Seq(S), DOMAIN rows = DOMAIN other
    PROVE  Len(rows) = Len(other)
<1>1. /\ DOMAIN rows = 1 .. Len(rows) /\ DOMAIN other = 1 .. Len(other)
      /\ Len(rows) \in Nat /\ Len(other) \in Nat
  BY LenProperties
<1>2. \A n \in Nat : Cardinality(1 .. n) = n
  BY FS_Interval
<1> QED  BY <1>1, <1>2

\* The ids a step gives are new.
LEMMA NewIds ==
    ASSUME TypeOK, TypeOK', NEW r \in Requests, Does(r)
    PROVE  /\ \/ saved'[r].creation = saved[r].creation
              \/ saved'[r].creation = Len(creations) + 1 /\ Len(creations)' = Len(creations) + 1
           /\ \/ saved'[r].input = saved[r].input
              \/ saved'[r].input = Len(inputs) + 1 /\ Len(inputs)' = Len(inputs) + 1
           /\ \/ saved'[r].output = saved[r].output
              \/ saved'[r].output = Len(outputs) + 1 /\ Len(outputs)' = Len(outputs) + 1
           /\ Len(creations) <= Len(creations)' /\ Len(inputs) <= Len(inputs)'
           /\ Len(outputs) <= Len(outputs)'
<1>0. Len(creations) \in Nat /\ Len(inputs) \in Nat /\ Len(outputs) \in Nat
  BY RowTypes
<1>1. CASE saved' = saved /\ UNCHANGED <<creations, inputs>> /\ Len(outputs)' = Len(outputs)
  BY <1>0, <1>1
<1>2. CASE SaveCreation(r)
  BY <1>0, <1>2, AppendProperties DEF SaveCreation, TypeOK
<1>3. CASE SaveInput(r)
  BY <1>0, <1>3, AppendProperties DEF SaveInput, TypeOK
<1>4. CASE SavePayment(r)
  BY <1>0, <1>4, AppendProperties DEF SavePayment, TypeOK
<1>5. CASE SaveOutput(r)
  <2>1. DOMAIN outputs' = DOMAIN outputs
    BY <1>5 DEF SaveOutput
  <2>2. Len(outputs)' = Len(outputs)
    BY <2>1, SameLen DEF TypeOK
  <2> QED  BY <1>1, <1>5, <2>2 DEF SaveOutput
<1>6. CASE SaveTransaction(r)
  <2>1. /\ DOMAIN outputs' = DOMAIN outputs /\ DOMAIN inputs' = DOMAIN inputs
        /\ DOMAIN creations' = DOMAIN creations
    BY <1>6, AttachRow DEF SaveTransaction
  <2>2. /\ Len(outputs)' = Len(outputs) /\ Len(inputs)' = Len(inputs)
        /\ Len(creations)' = Len(creations)
    BY <2>1, SameLen DEF TypeOK
  <2>3. /\ saved'[r].creation = saved[r].creation /\ saved'[r].input = saved[r].input
        /\ saved'[r].output = saved[r].output
    BY <1>6 DEF SaveTransaction, TypeOK
  <2> QED  BY <1>0, <2>2, <2>3
<1> QED  BY <1>1, <1>2, <1>3, <1>4, <1>5, <1>6 DEF Does, Handle, Submit, Abort, RefuseToken,
         Verify, tables

LEMMA DistinctStep ==
    ASSUME TypeOK, TypeOK', DistinctRows, NEW r \in Requests, Does(r)
    PROVE  DistinctRows'
<1>1. \A s \in Requests : s # r => saved'[s] = saved[s]
  BY OthersUntouched
<1>2. \A s \in Requests : /\ saved[s].creation <= Len(creations) /\ saved[s].creation \in Nat
                          /\ saved[s].input <= Len(inputs) /\ saved[s].input \in Nat
                          /\ saved[s].output <= Len(outputs) /\ saved[s].output \in Nat
  <2>1. \A s \in Requests :
           saved[s] \in [creation: Nat, input: Nat, output: Nat, transaction: Nat]
    BY DEF TypeOK
  <2> TAKE s \in Requests
  <2>2. saved[s].creation \in Nat /\ saved[s].input \in Nat /\ saved[s].output \in Nat
    BY <2>1
  <2> QED  BY <2>2 DEF DistinctRows
<1>3. Len(creations) \in Nat /\ Len(inputs) \in Nat /\ Len(outputs) \in Nat
  BY RowTypes
<1>4. Len(creations)' \in Nat /\ Len(inputs)' \in Nat /\ Len(outputs)' \in Nat
  BY LenProperties DEF TypeOK
<1>5. \A s \in Requests : /\ saved'[s].creation <= Len(creations)'
                          /\ saved'[s].input <= Len(inputs)'
                          /\ saved'[s].output <= Len(outputs)'
  <2>1. /\ Len(creations) <= Len(creations)' /\ Len(inputs) <= Len(inputs)'
        /\ Len(outputs) <= Len(outputs)'
    BY NewIds
  <2>2. ASSUME NEW s \in Requests, s # r
        PROVE  /\ saved'[s].creation <= Len(creations)' /\ saved'[s].input <= Len(inputs)'
               /\ saved'[s].output <= Len(outputs)'
    BY <1>1, <1>2, <1>3, <1>4, <2>1, <2>2
  <2>3. saved'[r].creation <= Len(creations)'
    BY <1>2, <1>3, <1>4, <2>1, NewIds
  <2>4. saved'[r].input <= Len(inputs)'
    BY <1>2, <1>3, <1>4, <2>1, NewIds
  <2>5. saved'[r].output <= Len(outputs)'
    BY <1>2, <1>3, <1>4, <2>1, NewIds
  <2> QED  BY <2>2, <2>3, <2>4, <2>5
<1>6. Distinct(CreationIds)'
  BY <1>1, <1>2, <1>3, NewIds DEF DistinctRows, Distinct, CreationIds
<1>7. Distinct(InputIds)'
  BY <1>1, <1>2, <1>3, NewIds DEF DistinctRows, Distinct, InputIds
<1>8. Distinct(OutputIds)'
  BY <1>1, <1>2, <1>3, NewIds DEF DistinctRows, Distinct, OutputIds
<1> QED  BY <1>5, <1>6, <1>7, <1>8 DEF DistinctRows

LEMMA TransactionLastStep ==
    ASSUME TypeOK, TransactionLast, NEW r \in Requests, Does(r)
    PROVE  TransactionLast'
<1> SUFFICES ASSUME NEW s \in Requests
             PROVE  (saved'[s].transaction # 0) <=> pc'[s] = "ok"
  BY DEF TransactionLast
<1>1. CASE s # r
  BY <1>1, OthersUntouched DEF TransactionLast
<1>2. CASE s = r /\ SaveTransaction(r)
  <2>1. transactions + 1 # 0
    BY DEF TypeOK
  <2> QED  BY <1>2, <2>1 DEF SaveTransaction, TypeOK
<1>3. CASE s = r /\ ~SaveTransaction(r)
  <2>1. pc[r] # "ok" /\ pc'[r] # "ok" /\ saved'[r].transaction = saved[r].transaction
    BY <1>3, VerifyStep DEF Does, Handle, Submit, Abort, RefuseToken, SaveCreation,
       SaveInput, SaveOutput, SavePayment, TypeOK, Saving
  <2> QED  BY <1>3, <2>1 DEF TransactionLast
<1> QED  BY <1>1, <1>2, <1>3

\* Others, and what the handler itself does before the end, leave its rows be.
LEMMA RowsKept ==
    ASSUME TypeOK, DistinctRows, NEW r \in Requests, Does(r), NEW s \in Requests,
           s # r \/ ~SaveTransaction(r)
    PROVE  /\ saved[s].creation \in DOMAIN creations =>
                 /\ saved[s].creation \in DOMAIN creations'
                 /\ creations'[saved[s].creation] = creations[saved[s].creation]
           /\ saved[s].input \in DOMAIN inputs =>
                 /\ saved[s].input \in DOMAIN inputs'
                 /\ inputs'[saved[s].input] = inputs[saved[s].input]
           /\ saved[s].output \in DOMAIN outputs =>
                 /\ saved[s].output \in DOMAIN outputs'
                 /\ [outputs'[saved[s].output] EXCEPT !.input_id = 0]
                       = [outputs[saved[s].output] EXCEPT !.input_id = 0]
<1>1. SaveTransaction(r) =>
         /\ saved[r].creation # 0 => saved[s].creation # saved[r].creation
         /\ saved[r].input # 0 => saved[s].input # saved[r].input
         /\ saved[r].output # 0 => saved[s].output # saved[r].output
  BY DEF DistinctRows, Distinct, CreationIds, InputIds, OutputIds
<1>2. ASSUME saved[s].creation \in DOMAIN creations
      PROVE  /\ saved[s].creation \in DOMAIN creations'
             /\ creations'[saved[s].creation] = creations[saved[s].creation]
  BY <1>1, <1>2, CreationStep
<1>3. ASSUME saved[s].input \in DOMAIN inputs
      PROVE  /\ saved[s].input \in DOMAIN inputs'
             /\ inputs'[saved[s].input] = inputs[saved[s].input]
  BY <1>1, <1>3, InputStep
<1>4. ASSUME saved[s].output \in DOMAIN outputs
      PROVE  /\ saved[s].output \in DOMAIN outputs'
             /\ [outputs'[saved[s].output] EXCEPT !.input_id = 0]
                   = [outputs[saved[s].output] EXCEPT !.input_id = 0]
  <2> DEFINE o == saved[s].output
             row == outputs[o]
             new == outputs'[o]
  <2>1. o \in DOMAIN outputs'
    BY <1>4, OutputStep
  <2>2. ~(SaveTransaction(r) /\ o = saved[r].output /\ o # 0)
    BY <1>1
  <2>3. new = row \/ new = [row EXCEPT !.input_id = saved[r].input]
    BY <1>4, <2>2, OutputStep, ZenonT(60)
  <2>4. row \in OutputRow
    BY <1>4, RowTypes
  <2> HIDE DEF row, new
  <2>5. [new EXCEPT !.input_id = 0] = [row EXCEPT !.input_id = 0]
    BY <2>3, <2>4 DEF OutputRow
  <2> QED  BY <2>1, <2>5 DEF row, new
<1> QED  BY <1>2, <1>3, <1>4

LEMMA RowsSavedStep ==
    ASSUME RowsInv, TypeOK', NEW r \in Requests, Does(r)
    PROVE  RowsSaved'
<1> USE DEF RowsInv, FormInv
<1> DEFINE t(s) == request[s].transaction
<1> SUFFICES ASSUME NEW s \in Requests
             PROVE  (/\ pc[s] \in {"input", "spend", "output", "commit", "ok"}
                           /\ t(s).creations # <<>> => CreationSaved(s)
                     /\ pc[s] \in {"spend", "output", "commit", "ok"} /\ t(s).inputs # <<>>
                           => InputSaved(s)
                     /\ pc[s] \in {"commit", "ok"} /\ t(s).outputs # <<>>
                           => PaymentSaved(s))'
  BY DEF RowsSaved
<1>1. ASSUME saved'[s].creation = saved[s].creation, request'[s] = request[s],
             saved'[s].transaction = saved[s].transaction,
             s # r \/ ~SaveTransaction(r), CreationSaved(s)
      PROVE  CreationSaved(s)'
  BY <1>1, RowsKept DEF CreationSaved
<1>2. ASSUME saved'[s].input = saved[s].input, request'[s] = request[s],
             saved'[s].transaction = saved[s].transaction,
             s # r \/ ~SaveTransaction(r), InputSaved(s)
      PROVE  InputSaved(s)'
  BY <1>2, RowsKept DEF InputSaved
<1>3. ASSUME saved'[s].output = saved[s].output, request'[s] = request[s],
             saved'[s].transaction = saved[s].transaction,
             s # r \/ ~SaveTransaction(r), PaymentSaved(s)
      PROVE  PaymentSaved(s)'
  BY <1>3, RowsKept DEF PaymentSaved, PaidBy
<1>4. CASE s # r
  BY <1>1, <1>2, <1>3, <1>4, OthersUntouched DEF RowsSaved
<1>5. CASE s = r /\ (Submit(r) \/ Abort(r) \/ RefuseToken(r) \/ Verify(r))
  BY <1>5, VerifyStep DEF Submit, Abort, RefuseToken, TypeOK
<1>6. CASE s = r /\ SaveCreation(r)
  <2>1. pc[r] = "creation" /\ pc'[r] = "input" /\ request' = request
    BY <1>6 DEF SaveCreation, TypeOK
  <2>2. CASE t(r).creations # <<>>
    <3> DEFINE row == CreationRowOf(t(r).creations[1], t(r).signer)
    <3>1. row \in CreationRow
      BY <1>6, <2>2, NewRowsType DEF SaveCreation, TypeOK, Request
    <3>2. /\ creations' = Append(creations, row)
          /\ saved' = [saved EXCEPT ![r].creation = Len(creations) + 1]
      BY <1>6, <2>2 DEF SaveCreation
    <3>3. /\ saved'[r].creation = Len(creations) + 1
          /\ saved'[r].transaction = saved[r].transaction
      BY <3>2 DEF TypeOK
    <3>4. saved[r].transaction = 0
      BY <2>1 DEF TransactionLast
    <3>5. [row EXCEPT !.transaction_id = 0] = row
      BY DEF CreationRowOf
    <3> HIDE DEF row
    <3>6. /\ Len(creations) + 1 \in DOMAIN creations'
          /\ creations'[Len(creations) + 1] = row
      <4>1. /\ DOMAIN Append(creations, row) = 1 .. (Len(creations) + 1) /\ Len(creations) \in Nat
            /\ Append(creations, row)[Len(creations) + 1] = row
        BY <3>1, AppendRow DEF TypeOK
      <4> QED  BY <3>1, <3>2, <4>1
    <3>7. CreationSaved(r)'
      BY <2>1, <3>3, <3>4, <3>5, <3>6 DEF CreationSaved, row
    <3> QED  BY <1>6, <2>1, <3>7
  <2> QED  BY <1>6, <2>1, <2>2
<1>7. CASE s = r /\ SaveInput(r)
  <2>1. /\ pc[r] = "input" /\ request' = request
        /\ IF t(r).inputs = <<>> THEN pc'[r] = "output" ELSE pc'[r] = "spend"
    BY <1>7 DEF SaveInput, TypeOK
  <2>2. /\ saved'[r].creation = saved[r].creation
        /\ saved'[r].transaction = saved[r].transaction
    BY <1>7 DEF SaveInput, TypeOK
  <2>3. t(r).creations # <<>> => CreationSaved(r)'
    <3>1. ~SaveTransaction(r)
      BY <2>1 DEF SaveTransaction
    <3>2. t(r).creations # <<>> => CreationSaved(r)
      BY <2>1 DEF RowsSaved
    <3> QED  BY <1>1, <1>7, <2>1, <2>2, <3>1, <3>2
  <2>4. CASE t(r).inputs # <<>>
    <3> DEFINE row == InputRowOf(t(r).inputs[1], t(r).signer)
    <3>1. row \in InputRow
      BY <1>7, <2>4, NewRowsType DEF SaveInput, TypeOK, Request
    <3>2. /\ inputs' = Append(inputs, row)
          /\ saved' = [saved EXCEPT ![r].input = Len(inputs) + 1]
      BY <1>7, <2>4 DEF SaveInput
    <3>3. saved'[r].input = Len(inputs) + 1
      BY <3>2 DEF TypeOK
    <3>4. saved[r].transaction = 0
      BY <2>1 DEF TransactionLast
    <3>5. [row EXCEPT !.transaction_id = 0] = row
      BY DEF InputRowOf
    <3> HIDE DEF row
    <3>6. Len(inputs) + 1 \in DOMAIN inputs' /\ inputs'[Len(inputs) + 1] = row
      <4>1. /\ DOMAIN Append(inputs, row) = 1 .. (Len(inputs) + 1) /\ Len(inputs) \in Nat
            /\ Append(inputs, row)[Len(inputs) + 1] = row
        BY <3>1, AppendRow DEF TypeOK
      <4> QED  BY <3>1, <3>2, <4>1
    <3>7. InputSaved(r)'
      BY <2>1, <2>2, <3>3, <3>4, <3>5, <3>6 DEF InputSaved, row
    <3> QED  BY <1>7, <2>1, <2>3, <2>4, <3>7
  <2> QED  BY <1>7, <2>1, <2>3, <2>4
<1>8. CASE s = r /\ SaveOutput(r)
  <2>1. pc[r] = "spend" /\ pc'[r] = "output" /\ request' = request /\ saved' = saved
    BY <1>8 DEF SaveOutput, TypeOK
  <2>2. ~SaveTransaction(r)
    BY <2>1 DEF SaveTransaction
  <2> QED  BY <1>1, <1>2, <1>8, <2>1, <2>2 DEF RowsSaved
<1>9. CASE s = r /\ SavePayment(r)
  <2>1. pc[r] = "output" /\ pc'[r] = "commit" /\ request' = request
    BY <1>9 DEF SavePayment, TypeOK
  <2>2. /\ saved'[r].creation = saved[r].creation /\ saved'[r].input = saved[r].input
        /\ saved'[r].transaction = saved[r].transaction
    BY <1>9 DEF SavePayment, TypeOK
  <2>3. ~SaveTransaction(r)
    BY <2>1 DEF SaveTransaction
  <2>4. /\ t(r).creations # <<>> => CreationSaved(r)'
        /\ t(r).inputs # <<>> => InputSaved(r)'
    BY <1>1, <1>2, <1>9, <2>1, <2>2, <2>3 DEF RowsSaved
  <2>5. CASE t(r).outputs # <<>>
    <3> DEFINE row == OutputRowOf(PaidBy(r))
    <3>1. row \in OutputRow /\ row.input_id = 0 /\ outputs' = Append(outputs, row)
      BY <1>9, <2>5, PaymentRow
    <3>2. saved'[r].output = Len(outputs) + 1
      BY <1>9, <2>5 DEF SavePayment, TypeOK
    <3>3. saved[r].transaction = 0
      BY <2>1 DEF TransactionLast
    <3>4. [row EXCEPT !.input_id = 0] = [row EXCEPT !.transaction_id = 0]
      BY DEF OutputRowOf
    <3>5. PaidBy(r)' = PaidBy(r)
      BY <2>1 DEF PaidBy
    <3> HIDE DEF row
    <3>6. Len(outputs) + 1 \in DOMAIN outputs' /\ outputs'[Len(outputs) + 1] = row
      <4>1. /\ DOMAIN Append(outputs, row) = 1 .. (Len(outputs) + 1) /\ Len(outputs) \in Nat
            /\ Append(outputs, row)[Len(outputs) + 1] = row
        BY <3>1, AppendRow DEF TypeOK
      <4> QED  BY <3>1, <4>1
    <3>7. PaymentSaved(r)'
      BY <2>1, <2>2, <3>2, <3>3, <3>4, <3>5, <3>6 DEF PaymentSaved, row
    <3> QED  BY <1>9, <2>1, <2>4, <2>5, <3>7
  <2> QED  BY <1>9, <2>1, <2>4, <2>5
<1>10. CASE s = r /\ SaveTransaction(r)
  <2> DEFINE id == transactions + 1
  <2>1. /\ pc[r] = "commit" /\ request' = request /\ saved[r].transaction = 0
        /\ saved'[r].creation = saved[r].creation /\ saved'[r].input = saved[r].input
        /\ saved'[r].output = saved[r].output /\ saved'[r].transaction = id
    BY <1>10 DEF SaveTransaction, TypeOK, TransactionLast
  <2>2. \A i \in DOMAIN creations : i = saved[r].creation =>
           i \in DOMAIN creations' /\ creations'[i] = [creations[i] EXCEPT !.transaction_id = id]
    <3>1. \A i \in DOMAIN creations : i # 0
      BY RowTypes
    <3> QED  BY <1>10, <3>1, AttachRow DEF SaveTransaction
  <2>3. \A i \in DOMAIN inputs : i = saved[r].input =>
           i \in DOMAIN inputs' /\ inputs'[i] = [inputs[i] EXCEPT !.transaction_id = id]
    <3>1. \A i \in DOMAIN inputs : i # 0
      BY RowTypes
    <3> QED  BY <1>10, <3>1, AttachRow DEF SaveTransaction
  <2>4. \A o \in DOMAIN outputs : o = saved[r].output =>
           o \in DOMAIN outputs' /\ outputs'[o] = [outputs[o] EXCEPT !.transaction_id = id]
    <3>1. \A o \in DOMAIN outputs : o # 0
      BY RowTypes
    <3> QED  BY <1>10, <3>1, AttachRow DEF SaveTransaction
  <2> HIDE DEF id
  <2>5. CreationSaved(r) => CreationSaved(r)'
    <3>1. CreationSaved(r) => creations'[saved[r].creation] =
             [[CreationRowOf(t(r).creations[1], t(r).signer) EXCEPT !.transaction_id = 0]
                EXCEPT !.transaction_id = id]
      BY <2>1, <2>2 DEF CreationSaved
    <3>2. \A c, k : [[CreationRowOf(c, k) EXCEPT !.transaction_id = 0] EXCEPT !.transaction_id = id]
                       = [CreationRowOf(c, k) EXCEPT !.transaction_id = id]
      BY DEF CreationRowOf
    <3> QED  BY <2>1, <2>2, <3>1, <3>2 DEF CreationSaved
  <2>6. InputSaved(r) => InputSaved(r)'
    <3>1. InputSaved(r) => inputs'[saved[r].input] =
             [[InputRowOf(t(r).inputs[1], t(r).signer) EXCEPT !.transaction_id = 0]
                EXCEPT !.transaction_id = id]
      BY <2>1, <2>3 DEF InputSaved
    <3>2. \A c, k : [[InputRowOf(c, k) EXCEPT !.transaction_id = 0] EXCEPT !.transaction_id = id]
                       = [InputRowOf(c, k) EXCEPT !.transaction_id = id]
      BY DEF InputRowOf
    <3> QED  BY <2>1, <2>3, <3>1, <3>2 DEF InputSaved
  <2>7. PaymentSaved(r) => PaymentSaved(r)'
    <3> DEFINE o == saved[r].output
               row == OutputRowOf(PaidBy(r))
    <3> SUFFICES ASSUME PaymentSaved(r) PROVE PaymentSaved(r)'
      OBVIOUS
    <3>1. /\ o \in DOMAIN outputs
          /\ [outputs[o] EXCEPT !.input_id = 0] = [row EXCEPT !.transaction_id = 0]
      BY <2>1 DEF PaymentSaved
    <3>2. outputs[o] \in OutputRow
      BY <3>1, RowTypes
    <3>3. outputs'[o] = [outputs[o] EXCEPT !.transaction_id = id] /\ o \in DOMAIN outputs'
      BY <2>4, <3>1
    <3>4. [[outputs[o] EXCEPT !.transaction_id = id] EXCEPT !.input_id = 0] =
             [[outputs[o] EXCEPT !.input_id = 0] EXCEPT !.transaction_id = id]
      <4> DEFINE was == outputs[o]
      <4>1. was \in OutputRow
        BY <3>2
      <4> HIDE DEF was
      <4>2. [[was EXCEPT !.transaction_id = id] EXCEPT !.input_id = 0] =
               [[was EXCEPT !.input_id = 0] EXCEPT !.transaction_id = id]
        BY <4>1 DEF OutputRow
      <4> QED  BY <4>2 DEF was
    <3>5. [[row EXCEPT !.transaction_id = 0] EXCEPT !.transaction_id = id] =
             [row EXCEPT !.transaction_id = id]
      BY DEF OutputRowOf
    <3>6. PaidBy(r)' = PaidBy(r)
      BY <2>1 DEF PaidBy
    <3> HIDE DEF row
    <3> QED  BY <2>1, <3>1, <3>3, <3>4, <3>5, <3>6 DEF PaymentSaved, row
  <2>8. t(r)' = t(r)
    BY <2>1
  <2> QED  BY <1>10, <2>1, <2>5, <2>6, <2>7, <2>8 DEF RowsSaved
<1> QED  BY <1>4, <1>5, <1>6, <1>7, <1>8, <1>9, <1>10 DEF Does, Handle

LEMMA RowsInvariant == Spec => []RowsInv
<1>1. Init => DistinctRows /\ TransactionLast /\ RowsSaved
  BY LenProperties DEF Init, DistinctRows, Distinct, CreationIds, InputIds, OutputIds,
     TransactionLast, RowsSaved
<1>2. RowsInv /\ FormInv' /\ [Next]_vars => RowsInv'
  <2> SUFFICES ASSUME RowsInv, FormInv', [Next]_vars PROVE RowsInv'
    OBVIOUS
  <2>1. CASE \E r \in Requests : Does(r)
    BY <2>1, DistinctStep, TransactionLastStep, RowsSavedStep DEF RowsInv, FormInv
  <2>2. CASE UNCHANGED vars
    <3>1. DistinctRows' /\ TransactionLast'
      BY <2>2 DEF RowsInv, DistinctRows, Distinct, CreationIds, InputIds, OutputIds,
         TransactionLast, vars, tables
    <3>2. RowsSaved'
      BY <2>2 DEF RowsInv, RowsSaved, CreationSaved, InputSaved, PaymentSaved, PaidBy,
         vars, tables
    <3> QED  BY <3>1, <3>2 DEF RowsInv
  <2> QED  BY <2>1, <2>2 DEF Next, Terminating, Does
<1> QED  BY <1>1, <1>2, FormInvariant, PTL DEF Spec, RowsInv

\* When creations are of one coupon, as all are that the library is asked for,
\* outputs are as well, and nothing is left to give back.
LEMMA OnesStep ==
    ASSUME Amounts = {1}, FormInv, Ones, NEW r \in Requests, Does(r)
    PROVE  Ones'
<1> USE DEF FormInv
<1> SUFFICES ASSUME NEW o \in DOMAIN outputs' PROVE outputs'[o].amount = 1
  BY DEF Ones
<1>1. CASE o \in DOMAIN outputs
  BY <1>1, OutputSays DEF Ones
<1>2. CASE o \notin DOMAIN outputs
  <2> DEFINE t == request[r].transaction
             row == OutputRowOf(PaidBy(r))
  <2>1. SavePayment(r) /\ t.outputs # <<>>
    BY <1>2, AttachRow DEF Does, Handle, Submit, Abort, RefuseToken, Verify, SaveCreation,
       SaveInput, SaveOutput, SavePayment, SaveTransaction, tables
  <2>2. row \in OutputRow /\ outputs' = Append(outputs, row) /\ row.amount = PaidBy(r).amount
    BY <2>1, PaymentRow
  <2>3. outputs'[o] = row
    BY <1>2, <2>2, AppendRow DEF TypeOK
  <2>4. pc[r] # "idle"
    BY <2>1 DEF SavePayment
  <2>5. \/ t.creations # <<>> /\ PaidBy(r).amount = t.creations[1].amount
        \/ \E p \in DOMAIN outputs : PaidBy(r).amount > 0 /\ PaidBy(r).amount <= outputs[p].amount
    BY <2>1, <2>4, PaidFrom
  <2>6. t.creations # <<>> => t.creations[1].amount = 1
    <3>1. Creates(t) \/ t.creations = <<>>
      BY <2>4 DEF Formed, Spends
    <3>2. Creates(t) => t.creations[1].amount = 1
      BY DEF Creates, GenerateCreateTransaction
    <3> QED  BY <3>1, <3>2
  <2>7. PaidBy(r).amount \in Nat
    BY <2>2 DEF OutputRow
  <2> QED  BY <2>2, <2>3, <2>5, <2>6, <2>7 DEF Ones
<1> QED  BY <1>1, <1>2

LEMMA OnesInvariant == ASSUME Amounts = {1} PROVE Spec => []Ones
<1>1. Init => Ones
  BY DEF Init, Ones
<1>2. Ones /\ FormInv /\ [Next]_vars => Ones'
  <2> SUFFICES ASSUME Ones, FormInv, [Next]_vars PROVE Ones'
    OBVIOUS
  <2>1. CASE \E r \in Requests : Does(r)
    BY <2>1, OnesStep
  <2>2. CASE UNCHANGED vars
    BY <2>2 DEF Ones, vars, tables
  <2> QED  BY <2>1, <2>2 DEF Next, Terminating, Does
<1> QED  BY <1>1, <1>2, FormInvariant, PTL DEF Spec

\* A list of one member has one position.
LEMMA OnlyMember ==
    ASSUME NEW x, NEW s, s = <<x>> PROVE \A k \in DOMAIN s : k = 1 /\ s # <<>>
OBVIOUS

\* Each list then has one member at most, the only one that is saved.
LEMMA OneOfEach ==
    ASSUME Amounts = {1}, FormInv, Ones, NEW r \in Requests, pc[r] # "idle"
    PROVE  LET t == request[r].transaction
           IN  /\ \A k \in DOMAIN t.creations : k = 1 /\ t.creations # <<>>
               /\ \A k \in DOMAIN t.inputs : k = 1 /\ t.inputs # <<>>
               /\ \A k \in DOMAIN t.outputs : k = 1 /\ t.outputs # <<>>
<1> DEFINE t == request[r].transaction
<1>0. TypeOK /\ t \in Transaction
  BY RequestTypes DEF FormInv
<1>1. CASE Creates(t)
  BY <1>1 DEF Creates, GenerateCreateTransaction
<1>2. ASSUME NEW o \in DOMAIN outputs, Spends(t, o)
      PROVE  /\ t.creations = <<>>
             /\ \A k \in DOMAIN t.inputs : k = 1 /\ t.inputs # <<>>
             /\ \A k \in DOMAIN t.outputs : k = 1 /\ t.outputs # <<>>
  <2>1. outputs[o].amount = 1
    BY DEF Ones
  <2>2. t.outputs = <<>> \/ \E to : t.outputs = <<Pay(CouponOf(outputs[o]), 1, to)>>
    BY <1>0, <1>2, <2>1, SpendOutputs
  <2>3. t.creations = <<>> /\ t.inputs = <<[referredOutput |-> o]>>
    BY <1>2 DEF Spends
  <2>4. \A k \in DOMAIN t.inputs : k = 1 /\ t.inputs # <<>>
    BY <2>3, OnlyMember
  <2>5. \A k \in DOMAIN t.outputs : k = 1 /\ t.outputs # <<>>
    <3>1. CASE t.outputs = <<>>
      BY <3>1
    <3>2. ASSUME NEW to, t.outputs = <<Pay(CouponOf(outputs[o]), 1, to)>>
          PROVE  \A k \in DOMAIN t.outputs : k = 1 /\ t.outputs # <<>>
      BY <3>2, OnlyMember
    <3> QED  BY <2>2, <3>1, <3>2
  <2> QED  BY <2>3, <2>4, <2>5
<1>3. CASE \E o \in DOMAIN outputs : Spends(t, o)
  BY <1>2, <1>3
<1> QED  BY <1>1, <1>3 DEF FormInv, Formed

\* Behind a lock, and when every creation is of one coupon: a transaction that
\* was answered with its id is in the tables as a whole, and stays there.
THEOREM AcksAreDurable ==
    ASSUME Capacity = 1, Amounts = {1} PROVE Spec => []AckIsDurable
<1>1. RowsInv /\ Ones /\ SerialInv => AckIsDurable
  <2> SUFFICES ASSUME RowsInv, Ones, SerialInv, NEW r \in Requests, pc[r] = "ok"
               PROVE  LET t  == request[r].transaction
                          id == saved[r].transaction
                      IN  /\ \A k \in DOMAIN t.creations : \E i \in DOMAIN creations :
                                creations[i] = [CreationRowOf(t.creations[k], t.signer)
                                                  EXCEPT !.transaction_id = id]
                          /\ \A k \in DOMAIN t.inputs : \E i \in DOMAIN inputs :
                                /\ inputs[i] = [InputRowOf(t.inputs[k], t.signer)
                                                  EXCEPT !.transaction_id = id]
                                /\ outputs[inputs[i].output_id].input_id = i
                          /\ \A k \in DOMAIN t.outputs : \E o \in DOMAIN outputs :
                                [outputs[o] EXCEPT !.input_id = 0] =
                                   [OutputRowOf(t.outputs[k]) EXCEPT !.transaction_id = id]
    BY DEF AckIsDurable
  <2> DEFINE t  == request[r].transaction
             id == saved[r].transaction
  <2>1. id # 0
    BY DEF RowsInv, TransactionLast
  <2>2. /\ \A k \in DOMAIN t.creations : k = 1 /\ t.creations # <<>>
        /\ \A k \in DOMAIN t.inputs : k = 1 /\ t.inputs # <<>>
        /\ \A k \in DOMAIN t.outputs : k = 1 /\ t.outputs # <<>>
    BY OneOfEach DEF RowsInv
  <2>3. ASSUME NEW k \in DOMAIN t.creations
        PROVE  \E i \in DOMAIN creations :
                  creations[i] = [CreationRowOf(t.creations[k], t.signer)
                                    EXCEPT !.transaction_id = id]
    BY <2>2 DEF RowsInv, RowsSaved, CreationSaved
  <2>4. ASSUME NEW k \in DOMAIN t.inputs
        PROVE  \E i \in DOMAIN inputs :
                  /\ inputs[i] = [InputRowOf(t.inputs[k], t.signer)
                                    EXCEPT !.transaction_id = id]
                  /\ outputs[inputs[i].output_id].input_id = i
    <3> DEFINE i == saved[r].input
    <3>1. /\ i \in DOMAIN inputs
          /\ inputs[i] = [InputRowOf(t.inputs[k], t.signer) EXCEPT !.transaction_id = id]
      BY <2>2 DEF RowsInv, RowsSaved, InputSaved
    <3>2. inputs[i].transaction_id = id
      BY <3>1 DEF InputRowOf
    <3>3. outputs[inputs[i].output_id].input_id = i
      BY <2>1, <3>1, <3>2 DEF SerialInv, CommittedMark, Committed
    <3> QED  BY <3>1, <3>3
  <2>5. ASSUME NEW k \in DOMAIN t.outputs
        PROVE  \E o \in DOMAIN outputs : [outputs[o] EXCEPT !.input_id = 0] =
                  [OutputRowOf(t.outputs[k]) EXCEPT !.transaction_id = id]
    BY <2>2 DEF RowsInv, RowsSaved, PaymentSaved, PaidBy
  <2> QED  BY <2>3, <2>4, <2>5
<1> QED  BY <1>1, RowsInvariant, OnesInvariant, SerialInvariant, PTL
=============================================================================
