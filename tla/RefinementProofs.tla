--------------------------- MODULE RefinementProofs ---------------------------
(***************************************************************************)
(* The backend behind a lock takes no step that the abstract ledger could  *)
(* not take, for any number of requests, addresses and payloads, and so    *)
(* has what LedgerProofs proves of the ledger.                             *)
(***************************************************************************)
EXTENDS BackendProofs, BackendRefinement

\* One handler at a time, and coupons created one by one, as the library does.
\* The clients may send any token in either form.
OneByOne == Capacity = 1 /\ Amounts = {1}

\* A handler's trail: it saves only what was heard, the input it saved is that of
\* its transaction, its output is saved last, and a mark on an output is always
\* some handler's input.
Trail ==
    /\ \A r \in Requests :
          pc[r] \in Saving \cup {"ok"} \/ saved[r].input # 0 => Heard(r)
    /\ \A r \in Requests : saved[r].input # 0 =>
          /\ pc[r] \in {"spend", "output", "commit", "ok", "failed"}
          /\ request[r].transaction.inputs # <<>> /\ saved[r].input \in DOMAIN inputs
          /\ inputs[saved[r].input].output_id
                = request[r].transaction.inputs[1].referredOutput
    /\ \A r \in Requests : saved[r].output # 0 => pc[r] \in {"commit", "ok", "failed"}
    /\ \A o \in DOMAIN outputs : Spent(o) =>
          \E r \in Requests : saved[r].input = outputs[o].input_id

LedgerInv == SerialInv /\ RowsInv /\ Ones /\ RefusedForAReason /\ Trail

-----------------------------------------------------------------------------
(* The orders *)

TheOrder(r) == OrderOf(request[r].transaction)

Referred(r) == request[r].transaction.inputs[1].referredOutput

LEMMA OrderFacts ==
    ASSUME OneByOne, FormInv, Ones, NEW r \in Requests, pc[r] # "idle"
    PROVE  LET t == request[r].transaction
               x == TheOrder(r)
           IN  /\ x \in Ledger!Order /\ x.kind = Kind(t) /\ x.from = t.signer
               /\ x.kind = "issue" =>
                     /\ t.inputs = <<>> /\ t.outputs # <<>>
                     /\ x.coupon.creator = t.signer /\ x.to = t.signer
               /\ x.kind # "issue" =>
                     /\ t.inputs # <<>> /\ Referred(r) \in DOMAIN outputs
                     /\ outputs[Referred(r)].receiver = t.signer
                     /\ CouponOf(outputs[Referred(r)]) = x.coupon
               /\ t.outputs = <<>> <=> x.kind = "redeem"
               /\ t.outputs # <<>> =>
                     /\ CouponOf(PaidBy(r)) = x.coupon /\ PaidBy(r).receiver = x.to
                     /\ PaidBy(r).amount = 1
<1> DEFINE t == request[r].transaction
           x == TheOrder(r)
<1>0. /\ TypeOK /\ t \in Transaction /\ t.signer \in Addresses
      /\ Creates(t) \/ \E o \in DOMAIN outputs : Spends(t, o)
  BY DEF FormInv, Formed, TypeOK, Request, Transaction
<1>1. CASE Creates(t)
  <2>1. PICK p \in Payloads : t = GenerateCreateTransaction(t.signer, p, 1)
    BY <1>1 DEF OneByOne, Creates
  <2> DEFINE c == [creator |-> t.signer, payload |-> p]
  <2>2. /\ t.creations = <<[creator |-> t.signer, payload |-> p, amount |-> 1]>>
        /\ t.inputs = <<>> /\ t.outputs = <<Pay(c, 1, t.signer)>>
    BY <2>1 DEF GenerateCreateTransaction
  <2>3. t.creations # <<>> /\ t.outputs # <<>> /\ PaidBy(r) = Pay(c, 1, t.signer)
    BY <2>2 DEF PaidBy
  <2>4. /\ CouponOf(PaidBy(r)) = c /\ c \in Coupons /\ PaidBy(r).amount = 1
        /\ PaidBy(r).receiver = t.signer
    BY <1>0, <2>3 DEF Pay, CouponOf, Coupons
  <2>5. Kind(t) = "issue"
    BY <2>3 DEF Kind
  <2>6. x = [kind |-> "issue", coupon |-> c, from |-> t.signer, to |-> t.signer]
    BY <2>3, <2>4, <2>5 DEF TheOrder, OrderOf, PaidBy
  <2> QED  BY <1>0, <2>2, <2>3, <2>4, <2>5, <2>6 DEF Ledger!Order
<1>2. CASE \E o \in DOMAIN outputs : Spends(t, o)
  <2>1. PICK o \in DOMAIN outputs : Spends(t, o)
    BY <1>2
  <2> DEFINE c == CouponOf(outputs[o])
  <2>2. /\ t.creations = <<>> /\ t.inputs = <<[referredOutput |-> o]>>
        /\ outputs[o].receiver = t.signer
    BY <2>1 DEF Spends
  <2>3. t.inputs # <<>> /\ Referred(r) = o
    BY <2>2 DEF Referred
  <2>4. \/ t.outputs = <<>> \/ \E to \in Addresses : t.outputs = <<Pay(c, 1, to)>>
    BY <1>0, <2>1, SpendOutputs DEF Ones
  <2>5. c \in Coupons
    BY <1>0, RowTypes DEF OutputRow, CouponOf, Coupons
  <2>6. CASE t.outputs = <<>>
    <3>1. Kind(t) = "redeem"
      BY <2>2, <2>6 DEF Kind
    <3>2. x = [kind |-> "redeem", coupon |-> c, from |-> t.signer, to |-> t.signer]
      BY <2>3, <2>6, <3>1 DEF TheOrder, OrderOf, Referred
    <3> QED  BY <1>0, <2>2, <2>3, <2>5, <2>6, <3>1, <3>2 DEF Ledger!Order
  <2>7. CASE \E to \in Addresses : t.outputs = <<Pay(c, 1, to)>>
    <3>1. PICK to \in Addresses : t.outputs = <<Pay(c, 1, to)>>
      BY <2>7
    <3>2. t.outputs # <<>> /\ PaidBy(r) = Pay(c, 1, to)
      BY <3>1 DEF PaidBy
    <3>3. CouponOf(PaidBy(r)) = c /\ PaidBy(r).amount = 1 /\ PaidBy(r).receiver = to
      BY <3>2 DEF Pay, CouponOf
    <3>4. Kind(t) = "transfer"
      BY <2>2, <3>2 DEF Kind
    <3>5. x = [kind |-> "transfer", coupon |-> c, from |-> t.signer, to |-> to]
      BY <3>2, <3>3, <3>4 DEF TheOrder, OrderOf, PaidBy
    <3> QED  BY <1>0, <2>2, <2>3, <2>5, <3>2, <3>3, <3>4, <3>5 DEF Ledger!Order
  <2> QED  BY <2>4, <2>6, <2>7
<1> QED  BY <1>0, <1>1, <1>2

OrdersAreOrders ==
    OneByOne /\ FormInv /\ Ones =>
        \A r \in Requests : pc[r] # "idle" => TheOrder(r) \in Ledger!Order

LEMMA OrdersAreOrdersNext == OrdersAreOrders'
<1>1. OrdersAreOrders
  BY OrderFacts DEF OrdersAreOrders
<1> QED  BY <1>1, PTL

\* What a step of a handler does to its own locals.
LEMMA OwnStep ==
    ASSUME TypeOK, NEW r \in Requests, Does(r)
    PROVE  /\ Submit(r) => pc[r] = "idle" /\ pc'[r] = "sent"
           /\ ~Submit(r) => request' = request /\ pc[r] # "idle" /\ pc'[r] # "idle"
           /\ saved'[r].input # saved[r].input =>
                 SaveInput(r) /\ request[r].transaction.inputs # <<>>
           /\ saved'[r].output # saved[r].output => SavePayment(r)
           /\ pc[r] \in {"spend", "output", "commit", "ok", "failed"} =>
                 pc'[r] \in {"spend", "output", "commit", "ok", "failed"}
           /\ pc[r] \in {"commit", "ok", "failed"} => pc'[r] \in {"commit", "ok", "failed"}
<1> USE DEF TypeOK
<1>1. CASE Submit(r)
  BY <1>1 DEF Submit
<1>2. CASE RefuseToken(r) \/ Verify(r) \/ Abort(r)
  BY <1>2, VerifyStep DEF RefuseToken, Abort, Submit, Saving
<1>3. CASE SaveCreation(r)
  BY <1>3 DEF SaveCreation, Submit
<1>4. CASE SaveInput(r)
  BY <1>4 DEF SaveInput, Submit
<1>5. CASE SaveOutput(r)
  BY <1>5 DEF SaveOutput, Submit
<1>6. CASE SavePayment(r)
  BY <1>6 DEF SavePayment, Submit
<1>7. CASE SaveTransaction(r)
  BY <1>7 DEF SaveTransaction, Submit
<1> QED  BY <1>1, <1>2, <1>3, <1>4, <1>5, <1>6, <1>7 DEF Does, Handle

\* An order, once asked, stays as it was.
LEMMA OrderStays ==
    ASSUME OneByOne, FormInv, Ones, TypeOK', NEW r \in Requests, Does(r), NEW s \in Requests,
           pc[s] # "idle"
    PROVE  /\ pc'[s] # "idle" /\ request'[s] = request[s] /\ TheOrder(s)' = TheOrder(s)
           /\ Heard(s)' <=> Heard(s)
<1>0. TypeOK
  BY DEF FormInv
<1>1. pc'[s] # "idle" /\ request'[s] = request[s]
  <2>1. CASE s # r
    BY <1>0, <2>1, OthersUntouched
  <2>2. CASE s = r
    BY <1>0, <2>2, OwnStep
  <2> QED  BY <2>1, <2>2
<1> DEFINE t == request[s].transaction
<1>4. Heard(s)' <=> Heard(s)
  BY <1>1 DEF Heard
<1>2. CASE t.outputs # <<>>
  BY <1>1, <1>2, <1>4 DEF TheOrder, OrderOf, Kind
<1>3. CASE t.outputs = <<>>
  <2>1. Kind(t) = "redeem"
    BY <1>3, OrderFacts
  <2>2. Referred(s) \in DOMAIN outputs
    BY <2>1, OrderFacts
  <2>3. CouponOf(outputs'[Referred(s)]) = CouponOf(outputs[Referred(s)])
    BY <2>2, OutputSays DEF FormInv
  <2> QED  BY <1>1, <1>3, <1>4, <2>3 DEF TheOrder, OrderOf, Kind, Referred
<1> QED  BY <1>1, <1>2, <1>3

LEMMA OrderAt ==
    ASSUME NEW s \in Requests
    PROVE  /\ Asking(s) => orderMap[s] = TheOrder(s)
           /\ ~Asking(s) => orderMap[s] = Nil
           /\ Asking(s)' => orderMap'[s] = TheOrder(s)'
           /\ ~Asking(s)' => orderMap'[s] = Nil
  BY DEF orderMap, TheOrder

LEMMA OrdersStay ==
    ASSUME OneByOne, FormInv, Ones, TypeOK', NEW r \in Requests, Does(r), ~Submit(r)
    PROVE  orderMap' = orderMap
<1> SUFFICES ASSUME NEW s \in Requests PROVE orderMap'[s] = orderMap[s]
  BY DEF orderMap
<1>1. CASE pc[s] # "idle"
  <2>1. TheOrder(s)' = TheOrder(s) /\ (Asking(s)' <=> Asking(s))
    BY <1>1, OrderStays DEF Asking
  <2> QED  BY <2>1, OrderAt
<1>2. CASE pc[s] = "idle"
  <2>1. s # r /\ TypeOK
    BY <1>2, OwnStep DEF FormInv
  <2> QED  BY <1>2, <2>1, OthersUntouched DEF orderMap, Asking
<1> QED  BY <1>1, <1>2

-----------------------------------------------------------------------------
(* The trail *)

\* Only what was heard gets past verify.
LEMMA HeardStep ==
    ASSUME TypeOK, Trail, NEW r \in Requests, Does(r), NEW s \in Requests,
           pc'[s] \in Saving \cup {"ok"} \/ saved'[s].input # 0
    PROVE  Heard(s)'
<1>1. CASE pc[s] \in Saving \cup {"ok"} \/ saved[s].input # 0
  <2>1. Heard(s) /\ pc[s] # "idle"
    BY <1>1 DEF Trail, Saving
  <2>2. request'[s] = request[s]
    BY <2>1, OthersUntouched, OwnStep
  <2> QED  BY <2>1, <2>2 DEF Heard
<1>2. CASE ~(pc[s] \in Saving \cup {"ok"} \/ saved[s].input # 0)
  <2>1. s = r
    BY <1>2, OthersUntouched
  <2>2. Verify(r)
    <3>1. ~SaveCreation(r) /\ ~SaveInput(r) /\ ~SaveOutput(r) /\ ~SavePayment(r)
          /\ ~SaveTransaction(r)
      BY <1>2, <2>1 DEF SaveCreation, SaveInput, SaveOutput, SavePayment, SaveTransaction,
         Saving
    <3>2. saved'[s].input = saved[s].input
      BY <2>1, <3>1, OwnStep
    <3> QED  BY <1>2, <2>1, <3>1, <3>2 DEF Does, Handle, Submit, RefuseToken, Abort,
             Saving, TypeOK
  <2>3. CheckHeaders(request[r]) /\ request' = request /\ saved' = saved
    BY <2>2 DEF Verify
  <2>4. NullLists(request[r]) = {}
    BY <1>2, <2>1, <2>2, <2>3, VerifyStep DEF Saving
  <2> QED  BY <2>1, <2>3, <2>4 DEF Heard
<1> QED  BY <1>1, <1>2

LEMMA TrailStep ==
    ASSUME LedgerInv, TypeOK', NEW r \in Requests, Does(r)
    PROVE  Trail'
<1>0. TypeOK /\ FormInv /\ HolderInv /\ DistinctRows
  BY DEF LedgerInv, RowsInv, FormInv, SerialInv
<1>4. ASSUME NEW s \in Requests, pc'[s] \in Saving \cup {"ok"} \/ saved'[s].input # 0
      PROVE  Heard(s)'
  BY <1>0, <1>4, HeardStep DEF LedgerInv
<1>1. ASSUME NEW s \in Requests, saved'[s].input # 0
      PROVE  /\ pc'[s] \in {"spend", "output", "commit", "ok", "failed"}
             /\ request'[s].transaction.inputs # <<>> /\ saved'[s].input \in DOMAIN inputs'
             /\ inputs'[saved'[s].input].output_id
                   = request'[s].transaction.inputs[1].referredOutput
  <2>1. CASE saved'[s].input = saved[s].input
    <3> DEFINE i == saved[s].input
    <3>1. /\ pc[s] \in {"spend", "output", "commit", "ok", "failed"}
          /\ request[s].transaction.inputs # <<>>
          /\ i \in DOMAIN inputs /\ inputs[i].output_id = Referred(s)
      BY <1>1, <2>1 DEF LedgerInv, Trail, Referred
    <3>2. i \in DOMAIN inputs' /\ inputs'[i].output_id = inputs[i].output_id
      BY <1>0, <3>1, RowsStay DEF SameInput
    <3>3. pc'[s] \in {"spend", "output", "commit", "ok", "failed"} /\ request'[s] = request[s]
      <4>1. CASE s # r
        BY <1>0, <3>1, <4>1, OthersUntouched
      <4>2. CASE s = r
        BY <1>0, <3>1, <4>2, OwnStep
      <4> QED  BY <4>1, <4>2
    <3> QED  BY <2>1, <3>1, <3>2, <3>3 DEF Referred
  <2>2. CASE saved'[s].input # saved[s].input
    <3>1. s = r
      BY <1>0, <2>2, OthersUntouched
    <3>2. SaveInput(r) /\ request[r].transaction.inputs # <<>>
      BY <1>0, <2>2, <3>1, OwnStep
    <3> DEFINE t == request[r].transaction
               row == InputRowOf(t.inputs[1], t.signer)
    <3>3. row \in InputRow
      BY <1>0, <3>2, NewRowsType DEF SaveInput, TypeOK, Request
    <3>4. /\ inputs' = Append(inputs, row) /\ saved'[r].input = Len(inputs) + 1
          /\ pc'[r] = "spend" /\ request' = request
      <4>1. /\ inputs' = Append(inputs, row) /\ request' = request
            /\ saved' = [saved EXCEPT ![r].input = Len(inputs) + 1]
            /\ pc' = [pc EXCEPT ![r] = "spend"]
        BY <3>2 DEF SaveInput
      <4> QED  BY <1>0, <4>1 DEF TypeOK
    <3>5. /\ Len(inputs) + 1 \in DOMAIN inputs' /\ inputs'[Len(inputs) + 1] = row
      BY <1>0, <3>3, <3>4, AppendRow DEF TypeOK
    <3> QED  BY <3>1, <3>2, <3>4, <3>5 DEF InputRowOf
  <2> QED  BY <2>1, <2>2
<1>2. ASSUME NEW s \in Requests, saved'[s].output # 0
      PROVE  pc'[s] \in {"commit", "ok", "failed"}
  <2>1. CASE s # r
    BY <1>0, <1>2, <2>1, OthersUntouched DEF LedgerInv, Trail
  <2>2. CASE s = r /\ SavePayment(r)
    BY <1>0, <2>2 DEF SavePayment, TypeOK
  <2>3. CASE s = r /\ ~SavePayment(r)
    <3>1. saved'[r].output = saved[r].output
      BY <1>0, <2>3, OwnStep
    <3>2. pc[r] \in {"commit", "ok", "failed"}
      BY <1>2, <2>3, <3>1 DEF LedgerInv, Trail
    <3> QED  BY <1>0, <2>3, <3>2, OwnStep
  <2> QED  BY <2>1, <2>2, <2>3
<1>3. ASSUME NEW o \in DOMAIN outputs', outputs'[o].input_id # 0
      PROVE  \E s \in Requests : saved'[s].input = outputs'[o].input_id
  <2>1. ASSUME NEW s \in Requests, saved[s].input # 0 PROVE saved'[s].input = saved[s].input
    <3>1. CASE s # r
      BY <1>0, <3>1, OthersUntouched
    <3>2. CASE s = r
      <4>1. pc[r] # "input"
        BY <2>1, <3>2 DEF LedgerInv, SerialInv, NoInputYet
      <4> QED  BY <1>0, <3>2, <4>1, OwnStep DEF SaveInput
    <3> QED  BY <3>1, <3>2
  <2>2. CASE o \in DOMAIN outputs /\ outputs'[o].input_id = outputs[o].input_id
    BY <1>3, <2>1, <2>2 DEF LedgerInv, Trail, Spent
  <2>3. CASE o \in DOMAIN outputs /\ outputs'[o].input_id # outputs[o].input_id
    <3>1. outputs[o] \in OutputRow
      BY <1>0, <2>3, RowTypes
    <3> DEFINE row == outputs[o]
               new == outputs'[o]
    <3>2. new = row \/ new = [row EXCEPT !.input_id = saved[r].input]
             \/ new = [row EXCEPT !.transaction_id = transactions + 1]
      BY <1>0, <2>3, OutputStep, Zenon
    <3> HIDE DEF row, new
    <3>3. row.input_id # new.input_id /\ row \in OutputRow
      BY <2>3, <3>1 DEF row, new
    <3>4. new.input_id = saved[r].input
      BY <3>2, <3>3 DEF OutputRow
    <3> QED  BY <1>3, <2>1, <3>4 DEF new
  <2>4. CASE o \notin DOMAIN outputs
    <3>1. SavePayment(r) /\ request[r].transaction.outputs # <<>>
      <4>1. CASE SaveOutput(r)
        BY <2>4, <4>1 DEF SaveOutput
      <4>2. CASE SaveTransaction(r)
        BY <2>4, <4>2, AttachRow DEF SaveTransaction
      <4> QED  BY <2>4, <4>1, <4>2 DEF Does, Handle, Submit, Abort, RefuseToken, Verify,
             SaveCreation, SaveInput, SavePayment, tables
    <3> DEFINE row == OutputRowOf(PaidBy(r))
    <3>2. row \in OutputRow /\ outputs' = Append(outputs, row)
      BY <1>0, <3>1, NewRowsType DEF SavePayment, TypeOK, Request, PaidBy
    <3>3. outputs'[o] = row
      BY <1>0, <2>4, <3>2, AppendRow DEF TypeOK
    <3> QED  BY <1>3, <3>3 DEF OutputRowOf
  <2> QED  BY <2>2, <2>3, <2>4
<1> QED  BY <1>1, <1>2, <1>3, <1>4 DEF Trail, Spent

-----------------------------------------------------------------------------
(* What the steps do to the coupons people hold *)

\* The outputs that make up a place of the ledger.
HeldAt(x) ==
    [o \in {o \in DOMAIN outputs : /\ ~Spent(o) /\ CouponOf(outputs[o]) = x[1]
                                   /\ outputs[o].receiver = x[2]}
       |-> outputs[o].amount]

PlaceOf(row) == <<CouponOf(row), row.receiver>>

LEMMA HeldAtTypes ==
    ASSUME TypeOK, NEW x
    PROVE  /\ IsFiniteSet(DOMAIN HeldAt(x))
           /\ \A o \in DOMAIN HeldAt(x) : HeldAt(x)[o] \in Nat
           /\ Total(HeldAt(x)) \in Nat
<1>1. IsFiniteSet(DOMAIN outputs)
  BY RowTypes, FS_Interval
<1>2. IsFiniteSet(DOMAIN HeldAt(x)) /\ \A o \in DOMAIN HeldAt(x) : HeldAt(x)[o] \in Nat
  BY <1>1, RowTypes, FS_Subset DEF HeldAt, OutputRow
<1> QED  BY <1>2, TotalType

LEMMA SupplyIs ==
    ASSUME NEW x \in Coupons \X Addresses
    PROVE  supplyMap[x] = Total(HeldAt(x)) /\ supplyMap'[x] = Total(HeldAt(x)')
  BY DEF supplyMap, HeldBy, HeldAt

LEMMA RowPlace ==
    ASSUME NEW row \in OutputRow
    PROVE  PlaceOf(row) \in Coupons \X Addresses
  BY DEF PlaceOf, CouponOf, OutputRow, Coupons

\* save_output takes one coupon from the place of the output, which had it.
LEMMA SupplyTaken ==
    ASSUME TypeOK, Ones, NEW p \in DOMAIN outputs, NEW i \in Nat \ {0},
           outputs[p].input_id = 0, outputs' = [outputs EXCEPT ![p].input_id = i]
    PROVE  LET y == PlaceOf(outputs[p])
           IN  /\ y \in Coupons \X Addresses /\ supplyMap[y] > 0
               /\ supplyMap' = [supplyMap EXCEPT ![y] = @ - 1]
<1>0. PICK y : y = PlaceOf(outputs[p])
  OBVIOUS
<1>1. /\ DOMAIN outputs' = DOMAIN outputs /\ outputs[p] \in OutputRow
      /\ \A o \in DOMAIN outputs \ {p} : outputs'[o] = outputs[o]
      /\ outputs'[p].input_id = i
  BY RowTypes DEF OutputRow
<1>2. y \in Coupons \X Addresses
  BY <1>0, <1>1, RowPlace
<1>3. ASSUME NEW x \in Coupons \X Addresses, x # y
      PROVE  supplyMap'[x] = supplyMap[x]
  <2>1. p \notin DOMAIN HeldAt(x) /\ p \notin DOMAIN HeldAt(x)'
    BY <1>0, <1>1, <1>3 DEF HeldAt, Spent, PlaceOf
  <2>2. /\ DOMAIN HeldAt(x)' = DOMAIN HeldAt(x)
        /\ \A o \in DOMAIN HeldAt(x) : HeldAt(x)'[o] = HeldAt(x)[o]
    BY <1>1, <2>1 DEF HeldAt, Spent
  <2>3. Total(HeldAt(x)') = Total(HeldAt(x))
    BY <2>2, TotalSame
  <2> QED  BY <2>3, SupplyIs
<1>4. /\ supplyMap[y] \in Nat /\ supplyMap'[y] \in Nat
      /\ supplyMap[y] = supplyMap'[y] + 1
  <2> DEFINE f == HeldAt(y)
             g == HeldAt(y)'
  <2>1. p \in DOMAIN f /\ f[p] = 1 /\ p \notin DOMAIN g
    BY <1>0, <1>1 DEF HeldAt, Spent, PlaceOf, Ones
  <2>2. DOMAIN f = DOMAIN g \cup {p} /\ \A o \in DOMAIN g : g[o] = f[o]
    BY <1>1, <2>1 DEF HeldAt, Spent
  <2>3. IsFiniteSet(DOMAIN f) /\ \A o \in DOMAIN f : f[o] \in Nat
    BY HeldAtTypes
  <2>4. supplyMap[y] = Total(f) /\ supplyMap'[y] = Total(g)
    BY <1>2, SupplyIs
  <2> HIDE DEF f, g
  <2>5. IsFiniteSet(DOMAIN g) /\ \A o \in DOMAIN g : g[o] \in Nat
    BY <2>2, <2>3, FS_Subset
  <2>6. Total(f) = Total(g) + f[p]
    BY <2>1, <2>2, <2>3, <2>5, TotalAdd
  <2>7. Total(g) \in Nat
    BY <2>5, TotalType
  <2> QED  BY <2>1, <2>4, <2>6, <2>7
<1>5. \A x \in Coupons \X Addresses :
         supplyMap'[x] = IF x = y THEN supplyMap[x] - 1 ELSE supplyMap[x]
  BY <1>3, <1>4
<1>6. supplyMap' = [supplyMap EXCEPT ![y] = @ - 1]
  BY <1>5 DEF supplyMap
<1> QED  BY <1>0, <1>2, <1>4, <1>6

\* Output.from_json adds one coupon at the place of the new output.
LEMMA SupplyPaid ==
    ASSUME TypeOK, NEW row \in OutputRow, row.input_id = 0, row.amount = 1,
           outputs' = Append(outputs, row)
    PROVE  LET y == PlaceOf(row)
           IN  /\ y \in Coupons \X Addresses
               /\ supplyMap' = [supplyMap EXCEPT ![y] = @ + 1]
<1> DEFINE y == PlaceOf(row)
           p == Len(outputs) + 1
<1>1. /\ DOMAIN outputs' = DOMAIN outputs \cup {p} /\ outputs'[p] = row
      /\ p \notin DOMAIN outputs
      /\ \A o \in DOMAIN outputs : outputs'[o] = outputs[o]
  BY AppendRow DEF TypeOK
<1> HIDE DEF p
<1>2. y \in Coupons \X Addresses
  BY RowPlace
<1>3. ASSUME NEW x \in Coupons \X Addresses, x # y
      PROVE  supplyMap'[x] = supplyMap[x]
  <2>1. p \notin DOMAIN HeldAt(x) /\ p \notin DOMAIN HeldAt(x)'
    BY <1>1, <1>3 DEF HeldAt, Spent, PlaceOf
  <2>2. /\ DOMAIN HeldAt(x)' = DOMAIN HeldAt(x)
        /\ \A o \in DOMAIN HeldAt(x) : HeldAt(x)'[o] = HeldAt(x)[o]
    BY <1>1, <2>1 DEF HeldAt, Spent
  <2>3. Total(HeldAt(x)') = Total(HeldAt(x))
    BY <2>2, TotalSame
  <2> QED  BY <2>3, SupplyIs
<1>4. supplyMap'[y] = supplyMap[y] + 1
  <2> DEFINE f == HeldAt(y)
             g == HeldAt(y)'
  <2>1. p \in DOMAIN g /\ g[p] = 1 /\ p \notin DOMAIN f
    BY <1>1 DEF HeldAt, Spent, PlaceOf
  <2>2. DOMAIN g = DOMAIN f \cup {p} /\ \A o \in DOMAIN f : g[o] = f[o]
    BY <1>1, <2>1 DEF HeldAt, Spent
  <2>3. IsFiniteSet(DOMAIN f) /\ \A o \in DOMAIN f : f[o] \in Nat
    BY HeldAtTypes
  <2>4. supplyMap[y] = Total(f) /\ supplyMap'[y] = Total(g)
    BY <1>2, SupplyIs
  <2> HIDE DEF f, g
  <2>5. Total(g) = Total(f) + g[p]
    BY <2>1, <2>2, <2>3, TotalAdd
  <2> QED  BY <2>1, <2>4, <2>5
<1>5. \A x \in Coupons \X Addresses :
         supplyMap'[x] = IF x = y THEN supplyMap[x] + 1 ELSE supplyMap[x]
  BY <1>3, <1>4
<1> HIDE DEF y
<1>6. supplyMap' = [supplyMap EXCEPT ![y] = @ + 1]
  BY <1>5 DEF supplyMap
<1> QED  BY <1>2, <1>6 DEF y

\* No other step moves a coupon.
LEMMA SupplyStays ==
    ASSUME TypeOK, NEW r \in Requests, Does(r), ~SaveOutput(r),
           ~(SavePayment(r) /\ request[r].transaction.outputs # <<>>)
    PROVE  supplyMap' = supplyMap
<1>1. ASSUME NEW o \in DOMAIN outputs
      PROVE  /\ outputs'[o].input_id = outputs[o].input_id
             /\ outputs'[o].amount = outputs[o].amount
             /\ outputs'[o].receiver = outputs[o].receiver
             /\ CouponOf(outputs'[o]) = CouponOf(outputs[o])
  <2>1. outputs'[o].input_id = outputs[o].input_id
    <3> DEFINE row == outputs[o]
               new == outputs'[o]
    <3>1. new = row \/ new = [row EXCEPT !.transaction_id = transactions + 1]
      BY OutputStep
    <3>2. row \in OutputRow
      BY RowTypes
    <3> HIDE DEF row, new
    <3>3. new.input_id = row.input_id
      BY <3>1, <3>2 DEF OutputRow
    <3> QED  BY <3>3 DEF row, new
  <2> QED  BY <2>1, OutputSays
<1>2. DOMAIN outputs' = DOMAIN outputs
  <2>1. CASE SaveTransaction(r)
    BY <2>1, AttachRow DEF SaveTransaction
  <2>2. CASE SavePayment(r)
    BY <2>2 DEF SavePayment
  <2> QED  BY <2>1, <2>2 DEF Does, Handle, Submit, Abort, RefuseToken, Verify,
           SaveCreation, SaveInput, tables
<1>3. ASSUME NEW x \in Coupons \X Addresses PROVE supplyMap'[x] = supplyMap[x]
  <2>1. HeldAt(x)' = HeldAt(x)
    BY <1>1, <1>2 DEF HeldAt, Spent
  <2> QED  BY <2>1, SupplyIs
<1> QED  BY <1>3 DEF supplyMap

-----------------------------------------------------------------------------
(* How far the orders are *)

StatusIs ==
    \A r \in Requests :
        /\ pc[r] = "idle" \/ ~Heard(r) => statusMap[r] = "none"
        /\ Heard(r) =>
              /\ pc[r] = "refused" => statusMap[r] = "dropped"
              /\ pc[r] = "unjudged" => statusMap[r] = "cut"
              /\ pc[r] = "failed" => statusMap[r] = FailedStatus(r)
              /\ pc[r] \in {"commit", "ok"} => statusMap[r] = "settled"
              /\ pc[r] = "output" /\ Marked(r) => statusMap[r] = "executed"
              /\ pc[r] = "output" /\ ~Marked(r) => statusMap[r] = "placed"
              /\ pc[r] \in {"sent", "creation", "input", "spend"} => statusMap[r] = "placed"

LEMMA StatusCases == StatusIs
  BY DEF StatusIs, statusMap, Asking

LEMMA StatusCasesNext == StatusIs'
  BY StatusCases, PTL

\* The mark is there from save_output on, when there is an input at all.
MarkedIs ==
    LedgerInv => \A r \in Requests :
        /\ pc[r] \in {"idle", "sent", "creation", "input", "spend", "refused", "unjudged"}
              => ~Marked(r)
        /\ pc[r] \in {"output", "commit"} =>
              (Marked(r) <=> request[r].transaction.inputs # <<>>)

LEMMA MarkedCases == MarkedIs
<1> SUFFICES ASSUME LedgerInv, NEW r \in Requests
             PROVE  /\ pc[r] \in {"idle", "sent", "creation", "input", "spend", "refused",
                                  "unjudged"}
                          => ~Marked(r)
                    /\ pc[r] \in {"output", "commit"} =>
                          (Marked(r) <=> request[r].transaction.inputs # <<>>)
  BY DEF MarkedIs
<1> DEFINE i == saved[r].input
<1>1. CASE pc[r] \in {"idle", "sent", "creation", "input", "refused", "unjudged"}
  BY <1>1 DEF LedgerInv, Trail, Marked
<1>2. CASE pc[r] = "spend"
  BY <1>2, AboutToMark DEF LedgerInv, Marked
<1>3. CASE pc[r] \in {"output", "commit"}
  <2>1. CASE request[r].transaction.inputs # <<>>
    <3>1. i \in DOMAIN inputs
      BY <1>3, <2>1 DEF LedgerInv, RowsInv, RowsSaved, InputSaved
    <3>2. i # 0
      BY <3>1, RowTypes DEF LedgerInv, RowsInv, FormInv
    <3> QED  BY <1>3, <2>1, <3>2 DEF LedgerInv, SerialInv, OwnMark, Marked
  <2>2. CASE request[r].transaction.inputs = <<>>
    BY <1>3, <2>2 DEF LedgerInv, Trail, Marked
  <2> QED  BY <1>3, <2>1, <2>2
<1> QED  BY <1>1, <1>2, <1>3

LEMMA MarkedCasesNext == MarkedIs'
  BY MarkedCases, PTL

\* Whether an output bears a handler's mark is for that handler to change.
LEMMA OthersMarks ==
    ASSUME OneByOne, LedgerInv, NEW r \in Requests, Does(r), NEW s \in Requests, s # r
    PROVE  Marked(s)' <=> Marked(s)
<1> DEFINE i == saved[s].input
<1>0. TypeOK /\ FormInv /\ Ones /\ SerialInv /\ DistinctRows
  BY DEF LedgerInv, RowsInv, FormInv
<1>1. saved'[s] = saved[s]
  BY <1>0, OthersUntouched
<1>2. CASE i = 0
  BY <1>1, <1>2 DEF Marked
<1>3. CASE i # 0
  <2> DEFINE p == inputs[i].output_id
  <2>1. /\ i \in DOMAIN inputs /\ p = Referred(s)
        /\ request[s].transaction.inputs # <<>> /\ pc[s] # "idle"
    BY <1>3 DEF LedgerInv, Trail, Referred
  <2>2. p \in DOMAIN outputs
    BY <1>0, <2>1, OrderFacts
  <2>3. inputs'[i].output_id = p
    BY <1>0, <2>1, RowsStay DEF SameInput
  <2>4. outputs'[p].input_id = i <=> outputs[p].input_id = i
    <3>1. CASE outputs[p].input_id # 0
      BY <1>0, <2>2, <3>1, MarksStay
    <3>2. CASE outputs[p].input_id = 0
      <4> DEFINE row == outputs[p]
                 new == outputs'[p]
      <4>1. \/ new = row \/ new = [row EXCEPT !.input_id = saved[r].input]
            \/ new = [row EXCEPT !.transaction_id = transactions + 1]
        BY <1>0, <2>2, OutputStep, Zenon
      <4>2. row \in OutputRow /\ row.input_id = 0
        BY <1>0, <2>2, <3>2, RowTypes
      <4> HIDE DEF row, new
      <4>3. new.input_id \in {0, saved[r].input}
        BY <4>1, <4>2 DEF OutputRow
      <4>4. saved[r].input # i
        BY <1>0, <1>3 DEF DistinctRows, Distinct, InputIds
      <4> QED  BY <1>3, <3>2, <4>3, <4>4 DEF new
    <3> QED  BY <3>1, <3>2
  <2> QED  BY <1>1, <2>3, <2>4 DEF Marked
<1> QED  BY <1>2, <1>3

LEMMA OthersStatus ==
    ASSUME OneByOne, LedgerInv, NEW r \in Requests, Does(r)
    PROVE  statusMap' = [statusMap EXCEPT ![r] = statusMap'[r]]
<1>0. TypeOK
  BY DEF LedgerInv, RowsInv, FormInv
<1>1. ASSUME NEW s \in Requests, s # r PROVE statusMap'[s] = statusMap[s]
  <2>1. pc'[s] = pc[s] /\ request'[s] = request[s] /\ saved'[s] = saved[s]
    BY <1>0, <1>1, OthersUntouched
  <2>2. Marked(s)' <=> Marked(s)
    BY <1>1, OthersMarks
  <2>3. FailedStatus(s)' = FailedStatus(s)
    BY <2>1, <2>2 DEF FailedStatus
  <2>4. pc[s] \in {"idle", "sent"} \cup Saving \cup Answered
    BY <1>0 DEF TypeOK
  <2>5. Heard(s)' <=> Heard(s)
    BY <2>1 DEF Heard
  <2> QED  BY <2>1, <2>2, <2>3, <2>4, <2>5, StatusCases, StatusCasesNext
           DEF StatusIs, Saving, Answered
<1>2. /\ statusMap = [s \in Requests |-> statusMap[s]]
      /\ statusMap' = [s \in Requests |-> statusMap'[s]]
  BY DEF statusMap
<1> QED  BY <1>1, <1>2

-----------------------------------------------------------------------------
(* Every step is a step of the ledger *)

\* An order that is refused for its inputs was rivalled: the output it would have spent bears
\* the mark of another handler, whose order took the same coupon.
LEMMA RefusedIsRivalled ==
    ASSUME OneByOne, LedgerInv, NEW r \in Requests, pc[r] # "idle", Heard(r),
           request[r].transaction.inputs # <<>>, saved[r].input = 0,
           Spent(Referred(r))
    PROVE  Ledger!Rivalled(r)
<1> DEFINE o == Referred(r)
           i == outputs[o].input_id
<1>0. FormInv /\ Ones /\ TypeOK /\ SerialInv
  BY DEF LedgerInv, RowsInv, FormInv
<1>1. /\ o \in DOMAIN outputs /\ TheOrder(r).kind # "issue"
      /\ outputs[o].receiver = TheOrder(r).from /\ CouponOf(outputs[o]) = TheOrder(r).coupon
  BY <1>0, OrderFacts
<1>2. PICK p \in Requests : saved[p].input = i
  BY <1>1 DEF LedgerInv, Trail, Spent
<1>3. i # 0 /\ inputs[i].output_id = o
  BY <1>0, <1>1 DEF Spent, SerialInv, HolderInv, SpentOnlyByHolder
<1>4. /\ p # r /\ Marked(p) /\ Referred(p) = o /\ request[p].transaction.inputs # <<>>
      /\ pc[p] \in {"spend", "output", "commit", "ok", "failed"} /\ Heard(p)
  BY <1>2, <1>3 DEF Marked, LedgerInv, Trail, Referred
<1>5. pc[p] # "spend"
  BY <1>4, MarkedCases DEF MarkedIs
<1>6. /\ TheOrder(p).kind # "issue" /\ TheOrder(p).from = TheOrder(r).from
      /\ TheOrder(p).coupon = TheOrder(r).coupon
  BY <1>0, <1>1, <1>4, OrderFacts
<1>7. statusMap[p] \in {"executed", "settled", "lost"}
  BY <1>4, <1>5, StatusCases DEF StatusIs, FailedStatus
<1>8. orderMap[p] = TheOrder(p) /\ orderMap[r] = TheOrder(r)
  BY <1>4 DEF orderMap, TheOrder, Asking
<1> QED  BY <1>4, <1>6, <1>7, <1>8 DEF Ledger!Rivalled

\* Nothing the ledger sees.
Unseen == UNCHANGED Ledger!ledger

LEMMA StepUnseen ==
    ASSUME OneByOne, LedgerInv, TypeOK', NEW r \in Requests, Does(r), ~Submit(r),
           supplyMap' = supplyMap, statusMap'[r] = statusMap[r]
    PROVE  Unseen
<1>1. orderMap' = orderMap
  BY OrdersStay DEF LedgerInv, RowsInv
<1>2. statusMap = [s \in Requests |-> statusMap[s]]
  BY DEF statusMap
<1>3. statusMap' = [statusMap EXCEPT ![r] = statusMap[r]]
  BY OthersStatus
<1>4. statusMap' = statusMap
  BY <1>2, <1>3, Zenon
<1> QED  BY <1>1, <1>4 DEF Unseen, Ledger!ledger

LEMMA StepSubmit ==
    ASSUME OneByOne, LedgerInv, LedgerInv', NEW r \in Requests, Does(r), Submit(r)
    PROVE  Ledger!Place(r) \/ Unseen
<1>0. TypeOK /\ FormInv /\ Ones /\ TypeOK' /\ FormInv' /\ Ones'
  BY DEF LedgerInv, RowsInv, FormInv
<1>1. pc[r] = "idle" /\ pc'[r] = "sent"
  BY <1>0, OwnStep
<1>2. /\ statusMap[r] = "none"
      /\ statusMap'[r] = IF Heard(r)' THEN "placed" ELSE "none"
  BY <1>1, StatusCases, StatusCasesNext DEF StatusIs
<1>3. TheOrder(r)' \in Ledger!Order
  <2>1. OneByOne'
    BY DEF OneByOne
  <2> QED  BY <1>0, <1>1, <2>1, OrdersAreOrdersNext DEF OrdersAreOrders
<1>4. orderMap' = [orderMap EXCEPT ![r] = orderMap'[r]]
  <2>1. ASSUME NEW s \in Requests, s # r PROVE orderMap'[s] = orderMap[s]
    <3>1. CASE pc[s] = "idle"
      BY <1>0, <2>1, <3>1, OthersUntouched DEF orderMap, Asking
    <3>2. CASE pc[s] # "idle"
      <4>1. TheOrder(s)' = TheOrder(s) /\ (Asking(s)' <=> Asking(s))
        BY <1>0, <3>2, OrderStays DEF Asking
      <4> QED  BY <4>1, OrderAt
    <3> QED  BY <3>1, <3>2
  <2>2. /\ orderMap = [s \in Requests |-> orderMap[s]]
        /\ orderMap' = [s \in Requests |-> orderMap'[s]]
    BY DEF orderMap
  <2> QED  BY <2>1, <2>2
<1>5. supplyMap' = supplyMap
  BY <1>0, <1>1, SupplyStays DEF SaveOutput, SavePayment
<1>6. statusMap' = [statusMap EXCEPT ![r] = statusMap'[r]]
  BY OthersStatus
<1>7. CASE Heard(r)'
  <2>1. orderMap'[r] = TheOrder(r)'
    BY <1>1, <1>7 DEF orderMap, TheOrder, Asking
  <2> QED  BY <1>2, <1>3, <1>4, <1>5, <1>6, <1>7, <2>1 DEF Ledger!Place, Ledger!Asked
<1>8. CASE ~Heard(r)'
  <2>1. orderMap'[r] = Nil /\ orderMap[r] = Nil
    BY <1>1, <1>8 DEF orderMap, Asking
  <2>2. /\ orderMap = [s \in Requests |-> orderMap[s]]
        /\ statusMap = [s \in Requests |-> statusMap[s]]
    BY DEF orderMap, statusMap
  <2>3. orderMap' = [orderMap EXCEPT ![r] = orderMap[r]]
    BY <1>4, <2>1
  <2>4. statusMap' = [statusMap EXCEPT ![r] = statusMap[r]]
    BY <1>2, <1>6, <1>8
  <2>5. orderMap' = orderMap /\ statusMap' = statusMap
    BY <2>2, <2>3, <2>4, Zenon
  <2> QED  BY <1>5, <2>5 DEF Unseen, Ledger!ledger
<1> QED  BY <1>7, <1>8

\* What is not heard is refused or cut off, and moves nothing.
LEMMA StepUnheard ==
    ASSUME OneByOne, LedgerInv, TypeOK', NEW r \in Requests, Does(r), ~Submit(r),
           ~Heard(r)
    PROVE  Unseen
<1>0. TypeOK /\ FormInv /\ Ones
  BY DEF LedgerInv, RowsInv, FormInv
<1>1. pc[r] \notin Saving /\ pc[r] # "idle"
  BY <1>0, OwnStep DEF LedgerInv, Trail
<1>2. supplyMap' = supplyMap
  BY <1>0, <1>1, SupplyStays DEF SaveOutput, SavePayment, Saving
<1>3. ~Heard(r)'
  BY <1>0, <1>1, OrderStays
<1>4. statusMap[r] = "none" /\ statusMap'[r] = "none"
  BY <1>3, StatusCases, StatusCasesNext DEF StatusIs
<1> QED  BY <1>2, <1>4, StepUnseen

LEMMA StepVerify ==
    ASSUME OneByOne, LedgerInv, LedgerInv', NEW r \in Requests, Does(r), Verify(r), Heard(r)
    PROVE  Ledger!Drop(r) \/ Ledger!Cut(r) \/ Unseen
<1>0. TypeOK /\ FormInv /\ Ones /\ TypeOK'
  BY DEF LedgerInv, RowsInv, FormInv
<1>1. /\ pc[r] = "sent" /\ pc'[r] \in {"creation", "refused", "unjudged"}
      /\ request' = request /\ outputs' = outputs /\ Heard(r)'
  BY <1>0, VerifyStep DEF Verify, tables, Heard
<1>2. supplyMap' = supplyMap
  BY <1>0, <1>1, SupplyStays DEF SaveOutput, SavePayment
<1>3. statusMap[r] = "placed" /\ ~Submit(r)
  BY <1>1, StatusCases DEF StatusIs, Submit
<1>4. CASE pc'[r] = "creation"
  <2>1. statusMap'[r] = "placed"
    BY <1>1, <1>4, StatusCasesNext DEF StatusIs
  <2> QED  BY <1>0, <1>2, <1>3, <2>1, StepUnseen
<1>5. CASE pc'[r] = "refused"
  <2> DEFINE t == request[r].transaction
  <2>2. \E k \in DOMAIN t.inputs : outputs[t.inputs[k].referredOutput].input_id # 0
    BY <1>1, <1>5 DEF LedgerInv, RefusedForAReason, Spent
  <2>3. t.inputs # <<>> /\ Spent(Referred(r))
    BY <1>0, <1>1, <2>2, OneOfEach DEF OneByOne, Spent, Referred
  <2>4. saved[r].input = 0
    BY <1>1 DEF LedgerInv, Trail
  <2>5. Ledger!Rivalled(r)
    BY <1>1, <2>3, <2>4, RefusedIsRivalled
  <2>6. orderMap[r].kind # "issue"
    BY <1>0, <1>1, <2>3, OrderFacts DEF orderMap, TheOrder, Asking
  <2>7. statusMap'[r] = "dropped"
    BY <1>1, <1>5, StatusCasesNext DEF StatusIs
  <2>8. statusMap' = [statusMap EXCEPT ![r] = "dropped"] /\ orderMap' = orderMap
    BY <1>0, <1>3, <2>7, OthersStatus, OrdersStay
  <2> QED  BY <1>2, <1>3, <2>5, <2>6, <2>8 DEF Ledger!Drop, Ledger!Becomes
<1>6. CASE pc'[r] = "unjudged"
  <2>1. Faults
    BY <1>0, <1>6, VerifyStep DEF Heard
  <2>2. statusMap'[r] = "cut"
    BY <1>1, <1>6, StatusCasesNext DEF StatusIs
  <2>3. statusMap' = [statusMap EXCEPT ![r] = "cut"] /\ orderMap' = orderMap
    BY <1>0, <1>3, <2>2, OthersStatus, OrdersStay
  <2> QED  BY <1>2, <1>3, <2>1, <2>3 DEF Ledger!Cut, Ledger!Becomes
<1> QED  BY <1>1, <1>4, <1>5, <1>6

LEMMA StepSpend ==
    ASSUME OneByOne, LedgerInv, LedgerInv', NEW r \in Requests, Does(r), SaveOutput(r), Heard(r)
    PROVE  Ledger!Transfer(r) \/ Ledger!Redeem(r)
<1> DEFINE i == saved[r].input
           p == inputs[i].output_id
           x == TheOrder(r)
<1>0. TypeOK /\ FormInv /\ Ones /\ TypeOK' /\ SerialInv
  BY DEF LedgerInv, RowsInv, FormInv
<1>1. /\ pc[r] = "spend" /\ pc'[r] = "output" /\ request' = request /\ ~Submit(r)
      /\ outputs' = [outputs EXCEPT ![p].input_id = i] /\ Heard(r)'
  BY <1>0 DEF SaveOutput, TypeOK, Submit, Heard
<1>2. i \in DOMAIN inputs /\ i # 0 /\ p \in DOMAIN outputs /\ outputs[p].input_id = 0
  BY <1>0, <1>1, AboutToMark
<1>3. request[r].transaction.inputs # <<>> /\ p = Referred(r) /\ i \in Nat \ {0}
  BY <1>0, <1>2, RowTypes DEF LedgerInv, Trail, Referred
<1>4. /\ x.kind \in {"transfer", "redeem"} /\ PlaceOf(outputs[p]) = <<x.coupon, x.from>>
  BY <1>0, <1>1, <1>3, OrderFacts DEF PlaceOf, Ledger!Order
<1>5. /\ supplyMap[<<x.coupon, x.from>>] > 0
      /\ supplyMap' = [supplyMap EXCEPT ![<<x.coupon, x.from>>] = @ - 1]
  BY <1>0, <1>1, <1>2, <1>3, <1>4, SupplyTaken
<1>6. statusMap[r] = "placed"
  BY <1>1, StatusCases DEF StatusIs
<1>7. statusMap'[r] = "executed"
  <2>1. Marked(r)'
    BY <1>1, <1>3, MarkedCasesNext DEF MarkedIs
  <2> QED  BY <1>1, <2>1, StatusCasesNext DEF StatusIs
<1>8. statusMap' = [statusMap EXCEPT ![r] = "executed"] /\ orderMap' = orderMap
  BY <1>0, <1>1, <1>7, OthersStatus, OrdersStay
<1>9. orderMap[r] = x
  BY <1>1 DEF orderMap, TheOrder, Asking
<1> QED  BY <1>4, <1>5, <1>6, <1>8, <1>9
         DEF Ledger!Transfer, Ledger!Redeem, Ledger!Asks, Ledger!Take, Ledger!Becomes

LEMMA StepPay ==
    ASSUME OneByOne, LedgerInv, LedgerInv', NEW r \in Requests, Does(r), SavePayment(r), Heard(r)
    PROVE  Ledger!Issue(r) \/ Ledger!Settle(r)
<1> DEFINE t == request[r].transaction
           x == TheOrder(r)
<1>0. TypeOK /\ FormInv /\ Ones /\ TypeOK'
  BY DEF LedgerInv, RowsInv, FormInv
<1>1. /\ pc[r] = "output" /\ pc'[r] = "commit" /\ request' = request /\ ~Submit(r)
      /\ Heard(r)'
  BY <1>0 DEF SavePayment, TypeOK, Submit, Heard
<1>2. Marked(r) <=> t.inputs # <<>>
  BY <1>1, MarkedCases DEF MarkedIs
<1>3. /\ x.kind \in {"issue", "transfer", "redeem"}
      /\ x.kind = "issue" <=> t.inputs = <<>>
  BY <1>0, <1>1, OrderFacts DEF Ledger!Order
<1>4. statusMap[r] = IF x.kind = "issue" THEN "placed" ELSE "executed"
  BY <1>1, <1>2, <1>3, StatusCases DEF StatusIs
<1>5. statusMap' = [statusMap EXCEPT ![r] = "settled"] /\ orderMap' = orderMap
  <2>1. statusMap'[r] = "settled"
    BY <1>1, StatusCasesNext DEF StatusIs
  <2> QED  BY <1>0, <1>1, <2>1, OthersStatus, OrdersStay
<1>6. orderMap[r] = x
  BY <1>1 DEF orderMap, TheOrder, Asking
<1>7. CASE t.outputs = <<>>
  <2>1. x.kind = "redeem"
    BY <1>0, <1>1, <1>7, OrderFacts
  <2>2. supplyMap' = supplyMap
    BY <1>0, <1>1, <1>7, SupplyStays DEF SaveOutput
  <2> QED  BY <1>4, <1>5, <1>6, <2>1, <2>2 DEF Ledger!Settle, Ledger!Becomes
<1>8. CASE t.outputs # <<>>
  <2> DEFINE row == OutputRowOf(PaidBy(r))
  <2>1. row \in OutputRow /\ row.input_id = 0 /\ outputs' = Append(outputs, row)
    BY <1>0, <1>8, PaymentRow
  <2>2. /\ row.amount = PaidBy(r).amount /\ row.receiver = PaidBy(r).receiver
        /\ CouponOf(row) = CouponOf(PaidBy(r))
    BY DEF OutputRowOf, CouponOf
  <2>3. /\ CouponOf(PaidBy(r)) = x.coupon /\ PaidBy(r).receiver = x.to
        /\ PaidBy(r).amount = 1 /\ x.kind # "redeem"
    BY <1>0, <1>1, <1>8, OrderFacts
  <2>4. row.amount = 1 /\ PlaceOf(row) = <<x.coupon, x.to>>
    BY <2>2, <2>3 DEF PlaceOf
  <2> HIDE DEF row
  <2>5. supplyMap' = [supplyMap EXCEPT ![<<x.coupon, x.to>>] = @ + 1]
    BY <1>0, <2>1, <2>4, SupplyPaid
  <2>6. CASE x.kind = "issue"
    <3>1. x.from = Issuer(x.coupon) /\ x.to = x.from
      BY <1>0, <1>1, <2>6, OrderFacts DEF Issuer
    <3> QED  BY <1>4, <1>5, <1>6, <2>5, <2>6, <3>1
             DEF Ledger!Issue, Ledger!Asks, Ledger!Becomes
  <2>7. CASE x.kind = "transfer"
    BY <1>4, <1>5, <1>6, <2>5, <2>7 DEF Ledger!Settle, Ledger!Becomes
  <2> QED  BY <1>3, <2>3, <2>6, <2>7
<1> QED  BY <1>7, <1>8

\* Where a handler is cut off decides what becomes of its order.
LEMMA StepAbort ==
    ASSUME OneByOne, LedgerInv, LedgerInv', NEW r \in Requests, Does(r), Abort(r), Heard(r)
    PROVE  Ledger!Cut(r) \/ Ledger!Settle(r) \/ Ledger!Lose(r) \/ Unseen
<1> DEFINE t == request[r].transaction
           x == TheOrder(r)
<1>0. TypeOK /\ FormInv /\ Ones /\ TypeOK'
  BY DEF LedgerInv, RowsInv, FormInv
<1>1. /\ Faults /\ pc[r] \in {"sent"} \cup Saving /\ pc'[r] = "failed"
      /\ request' = request /\ saved' = saved /\ inputs' = inputs /\ outputs' = outputs
      /\ ~Submit(r) /\ Heard(r)'
  BY <1>0 DEF Abort, TypeOK, tables, Submit, Saving, Heard
<1>2. supplyMap' = supplyMap
  BY <1>1 DEF supplyMap, HeldBy, Spent
<1>3. orderMap' = orderMap /\ orderMap[r] = x /\ x.kind = Kind(t)
  BY <1>0, <1>1, OrdersStay, OrderFacts DEF orderMap, TheOrder, Saving, Asking
<1>4. statusMap'[r] = FailedStatus(r)
  <2>1. FailedStatus(r)' = FailedStatus(r)
    BY <1>1 DEF FailedStatus, Marked
  <2> QED  BY <1>1, <2>1, StatusCasesNext DEF StatusIs
<1>5. statusMap' = [statusMap EXCEPT ![r] = FailedStatus(r)]
  BY <1>4, OthersStatus
<1>6. CASE pc[r] = "commit"
  <2>1. t.outputs # <<>> => saved[r].output # 0
    <3>1. t.outputs # <<>> => saved[r].output \in DOMAIN outputs
      BY <1>6 DEF LedgerInv, RowsInv, RowsSaved, PaymentSaved
    <3> QED  BY <1>0, <3>1, RowTypes
  <2>2. t.outputs = <<>> => x.kind = "redeem" /\ t.inputs # <<>>
    BY <1>0, <1>6, OrderFacts
  <2>3. FailedStatus(r) = "settled"
    BY <1>3, <1>6, <2>1, <2>2, MarkedCases DEF FailedStatus, MarkedIs
  <2>4. statusMap[r] = "settled"
    BY <1>6, StatusCases DEF StatusIs
  <2> QED  BY <1>0, <1>1, <1>2, <1>4, <2>3, <2>4, StepUnseen
<1>7. CASE pc[r] # "commit" /\ ~Marked(r)
  <2>1. saved[r].output = 0
    BY <1>1, <1>7 DEF LedgerInv, Trail, Saving
  <2>2. FailedStatus(r) = "cut" /\ statusMap[r] = "placed"
    BY <1>1, <1>7, <2>1, StatusCases DEF FailedStatus, StatusIs, Saving
  <2> QED  BY <1>1, <1>2, <1>3, <1>5, <2>2 DEF Ledger!Cut, Ledger!Becomes
<1>8. CASE pc[r] # "commit" /\ Marked(r)
  <2>1. pc[r] = "output"
    BY <1>1, <1>8, MarkedCases DEF MarkedIs, Saving
  <2>2. saved[r].output = 0 /\ statusMap[r] = "executed" /\ t.inputs # <<>>
    BY <1>8, <2>1, StatusCases DEF LedgerInv, Trail, StatusIs, Marked
  <2>3. FailedStatus(r) = IF x.kind = "redeem" THEN "settled" ELSE "lost"
    BY <1>3, <1>8, <2>2 DEF FailedStatus
  <2>4. x.kind \in {"transfer", "redeem"}
    BY <1>0, <2>1, <2>2, OrderFacts DEF Ledger!Order
  <2> QED  BY <1>1, <1>2, <1>3, <1>5, <2>2, <2>3, <2>4
           DEF Ledger!Settle, Ledger!Lose, Ledger!Becomes
<1> QED  BY <1>6, <1>7, <1>8

LEMMA LedgerStep ==
    ASSUME OneByOne, LedgerInv, LedgerInv', NEW r \in Requests, Does(r)
    PROVE  Ledger!Next \/ Unseen
<1>0. TypeOK /\ TypeOK'
  BY DEF LedgerInv, RowsInv, FormInv
<1>1. CASE Submit(r)
  BY <1>1, StepSubmit DEF Ledger!Next
<1>2. CASE ~Submit(r) /\ ~Heard(r)
  BY <1>0, <1>2, StepUnheard
<1>3. CASE Verify(r) /\ Heard(r)
  BY <1>3, StepVerify DEF Ledger!Next, Ledger!Decide
<1>4. CASE SaveOutput(r) /\ Heard(r)
  BY <1>4, StepSpend DEF Ledger!Next, Ledger!Decide
<1>5. CASE SavePayment(r) /\ Heard(r)
  BY <1>5, StepPay DEF Ledger!Next, Ledger!Decide, Ledger!Finish
<1>6. CASE Abort(r) /\ Heard(r)
  BY <1>6, StepAbort DEF Ledger!Next, Ledger!Decide, Ledger!Finish
<1>7. CASE (SaveCreation(r) \/ SaveInput(r) \/ SaveTransaction(r)) /\ Heard(r)
  <2>1. /\ pc[r] \in {"creation", "input", "commit"}
        /\ pc[r] = "creation" => pc'[r] = "input"
        /\ pc[r] = "commit" => pc'[r] = "ok"
        /\ Heard(r)'
    BY <1>0, <1>7 DEF SaveCreation, SaveInput, SaveTransaction, TypeOK, Heard
  <2>2. pc[r] = "input" => \/ pc'[r] = "spend"
                           \/ pc'[r] = "output" /\ request'[r].transaction.inputs = <<>>
    BY <1>0, <1>7 DEF SaveCreation, SaveInput, SaveTransaction, TypeOK
  <2>3. statusMap'[r] = statusMap[r]
    BY <1>7, <2>1, <2>2, StatusCases, StatusCasesNext, MarkedCasesNext DEF StatusIs, MarkedIs
  <2>4. ~Submit(r) /\ ~SaveOutput(r) /\ ~SavePayment(r)
    BY <2>1 DEF Submit, SaveOutput, SavePayment
  <2>5. supplyMap' = supplyMap
    BY <1>0, <2>4, SupplyStays
  <2> QED  BY <1>0, <2>3, <2>4, <2>5, StepUnseen
<1>8. ~(RefuseToken(r) /\ Heard(r))
  BY DEF RefuseToken, Heard
<1> QED  BY <1>1, <1>2, <1>3, <1>4, <1>5, <1>6, <1>7, <1>8 DEF Does, Handle

LEMMA LedgerStart == Init => Ledger!Init
<1> SUFFICES ASSUME Init PROVE Ledger!Init
  OBVIOUS
<1>1. \A r \in Requests : pc[r] = "idle"
  BY DEF Init
<1>2. orderMap = [o \in Requests |-> Nil] /\ statusMap = [o \in Requests |-> "none"]
  BY <1>1 DEF orderMap, statusMap, Asking
<1>3. ASSUME NEW x \in Coupons \X Addresses PROVE supplyMap[x] = 0
  <2>1. DOMAIN HeldAt(x) = {}
    BY DEF Init, HeldAt
  <2> QED  BY <2>1, SupplyIs, TotalNone
<1>4. supplyMap = [x \in Coupons \X Addresses |-> 0]
  BY <1>3 DEF supplyMap
<1> QED  BY <1>2, <1>4 DEF Ledger!Init

LEMMA TrailInvariant == ASSUME OneByOne PROVE Spec => []LedgerInv
<1>1. Init => Trail
  BY DEF Init, Trail, Spent, Saving
<1>2. Capacity = 1 /\ Amounts = {1}
  BY DEF OneByOne
<1>3. Spec => []SerialInv /\ []RowsInv /\ []Ones /\ []RefusedForAReason
  BY <1>2, SerialInvariant, RowsInvariant, OnesInvariant, RefusalsHaveReasons, PTL
<1>4. LedgerInv /\ TypeOK' /\ [Next]_vars => Trail'
  <2> SUFFICES ASSUME LedgerInv, TypeOK', [Next]_vars PROVE Trail'
    OBVIOUS
  <2>1. CASE \E r \in Requests : Does(r)
    BY <2>1, TrailStep
  <2>2. CASE UNCHANGED vars
    BY <2>2 DEF LedgerInv, Trail, Heard, Spent, vars, tables
  <2> QED  BY <2>1, <2>2 DEF Next, Terminating, Does
<1>5. RowsInv => TypeOK
  BY DEF RowsInv, FormInv
<1>6. LedgerInv <=> SerialInv /\ RowsInv /\ Ones /\ RefusedForAReason /\ Trail
  BY DEF LedgerInv
<1> QED  BY <1>1, <1>3, <1>4, <1>5, <1>6, PTL DEF Spec

\* Behind a lock, saved row by row and cut off anywhere, a transaction of the
\* admin client is a step of the abstract ledger or none: whoever holds a coupon
\* gives it away at one moment, and it arrives once or not at all.
THEOREM StepsAreTheLedgers == ASSUME OneByOne PROVE Spec => KeepsTheLedger
<1>1. Init => Ledger!Init
  BY LedgerStart
<1>2. LedgerInv /\ LedgerInv' /\ [Next]_vars => [Ledger!Next]_(Ledger!ledger)
  <2> SUFFICES ASSUME LedgerInv, LedgerInv', [Next]_vars
               PROVE  [Ledger!Next]_(Ledger!ledger)
    OBVIOUS
  <2>1. CASE \E r \in Requests : Does(r)
    BY <2>1, LedgerStep DEF Unseen
  <2>2. CASE UNCHANGED vars
    <3>1. supplyMap' = supplyMap /\ orderMap' = orderMap /\ statusMap' = statusMap
      BY <2>2 DEF vars, tables, supplyMap, HeldBy, Spent, orderMap, OrderOf, statusMap,
         FailedStatus, Marked, Asking, Heard
    <3> QED  BY <3>1 DEF Ledger!ledger
  <2> QED  BY <2>1, <2>2 DEF Next, Terminating, Does
<1> QED  BY <1>1, <1>2, TrailInvariant, PTL DEF Spec, KeepsTheLedger, Ledger!SafetySpec

-----------------------------------------------------------------------------
(* What the backend has from the ledger *)

\* What LedgerProofs proves of an abstract ledger is so of the one seen here.
Proved == INSTANCE LedgerProofs WITH
    Orders <- Requests, IssuerOf <- Issuer, NoOrder <- Nil,
    supply <- supplyMap, order <- orderMap, status <- statusMap

LEMMA SameLedger == Ledger!SafetySpec => Proved!SafetySpec
<1>1. Proved!ledger = Ledger!ledger
  BY DEF Proved!ledger, Ledger!ledger
<1>2. Ledger!Init => Proved!Init
  BY DEF Proved!Init, Ledger!Init
<1>3. Ledger!Next => Proved!Next
  <2>1. \A o, what : Proved!Asked(o, what) <=> Ledger!Asked(o, what)
    BY DEF Proved!Asked, Ledger!Asked
  <2>2. Proved!Order = Ledger!Order
    BY DEF Proved!Order, Ledger!Order
  <2>3. \A o : Proved!Place(o) <=> Ledger!Place(o)
    BY <2>1, <2>2 DEF Proved!Place, Ledger!Place
  <2>4. \A o, k : Proved!Asks(o, k) <=> Ledger!Asks(o, k)
    BY DEF Proved!Asks, Ledger!Asks
  <2>5. \A o, s : Proved!Becomes(o, s) <=> Ledger!Becomes(o, s)
    BY DEF Proved!Becomes, Ledger!Becomes
  <2>6. \A o : Proved!Take(o) <=> Ledger!Take(o)
    BY DEF Proved!Take, Ledger!Take
  <2>7. \A o : Proved!Rivalled(o) <=> Ledger!Rivalled(o)
    BY DEF Proved!Rivalled, Ledger!Rivalled
  <2>8. \A o : Proved!Decide(o) <=> Ledger!Decide(o)
    BY <2>4, <2>5, <2>6, <2>7 DEF Proved!Decide, Ledger!Decide, Proved!Issue,
       Ledger!Issue, Proved!Transfer, Ledger!Transfer, Proved!Redeem, Ledger!Redeem,
       Proved!Drop, Ledger!Drop, Proved!Cut, Ledger!Cut
  <2>9. \A o : Proved!Finish(o) <=> Ledger!Finish(o)
    BY <2>5 DEF Proved!Finish, Ledger!Finish, Proved!Settle, Ledger!Settle,
       Proved!Lose, Ledger!Lose
  <2> QED  BY <2>3, <2>8, <2>9 DEF Proved!Next, Ledger!Next
<1>4. [Ledger!Next]_(Ledger!ledger) => [Proved!Next]_(Proved!ledger)
  BY <1>1, <1>3 DEF Proved!ledger, Ledger!ledger
<1> QED  BY <1>2, <1>4, PTL DEF Proved!SafetySpec, Ledger!SafetySpec

LEMMA SameAccounts == Proved!CouponsAccounted <=> EveryCouponAccounted
<1>1. \A S : Proved!Cardinality(S) = Ledger!Cardinality(S)
  BY DEF Proved!Cardinality, Ledger!Cardinality
<1>2. \A f : Proved!Total(f) = Ledger!Total(f)
  BY <1>1 DEF Proved!Total, Ledger!Total, Proved!Units, Ledger!Units
<1> QED  BY <1>1, <1>2 DEF Proved!CouponsAccounted, EveryCouponAccounted,
            Ledger!CouponsAccounted, Proved!Count, Ledger!Count

\* Behind a lock, at every moment, between any two saves and after any cut: every
\* coupon that was created is in one unspent output, on its way in a handler,
\* redeemed, or lost with a handler cut off between save_output and the save of the
\* new output.  The tables hold no more of a coupon than was created, and no less
\* but for those.
THEOREM CouponsAreAccounted ==
    ASSUME OneByOne, IsFiniteSet(Addresses) PROVE Spec => []EveryCouponAccounted
<1>1. Proved!SafetySpec => []Proved!CouponsAccounted
  <2>1. Proved!IsFiniteSet(Requests) /\ Proved!IsFiniteSet(Addresses)
    BY ConstantsAssumption DEF IsFiniteSet, Proved!IsFiniteSet
  <2> QED  BY <2>1, Proved!CouponsAreAccounted
<1> QED  BY <1>1, StepsAreTheLedgers, SameLedger, SameAccounts, PTL DEF KeepsTheLedger
=============================================================================
