------------------------------- MODULE Backend -------------------------------
(***************************************************************************)
(* The Rails backend that keeps the coupon ledger: the handler of          *)
(* POST /backend/verify_transaction, the models it writes through and the  *)
(* SQLite tables they keep.                                                *)
(*                                                                         *)
(* A handler reads the unspent outputs, asks the Java library to judge the *)
(* transaction against them, and then saves the transaction row by row.    *)
(* Nothing wraps these saves in one database transaction, so each is an    *)
(* action of its own: another handler may run between two of them, and an  *)
(* exception or a restart may end the handler between two of them.         *)
(*                                                                         *)
(* A table is a sequence of rows; the id of a row is its position, for the *)
(* ids are assigned in order and no row is ever deleted.                   *)
(***************************************************************************)
EXTENDS Integers, Sequences, FiniteSets, CouponLibrary

CONSTANTS
    Requests,   \* the POSTs the clients will make, each made once
    Addresses,  \* the key pairs, named by address
    Payloads,   \* what a coupon says (title, description, timestamp)
    Amounts,    \* the amounts of a creation; {1} is what the library builds
    Tokens,     \* the tokens clients send in the header
    ApiSecret,  \* the one token the backend takes
    Forms,      \* "string": the transaction arrives as JSON text (admin);
                \* "object": as a JSON object the framework parsed (mobile)
    Capacity,   \* handlers that may run at once: 1 behind Rack::Lock
    Faults,     \* may a handler be cut off between two saves?
    Nil         \* no value: a request not made yet

ASSUME ConstantsAssumption ==
    /\ IsFiniteSet(Requests)
    /\ Amounts \subseteq Nat \ {0}
    /\ Forms \subseteq {"string", "object"}
    /\ Capacity \in Nat \ {0}
    /\ Faults \in BOOLEAN

VARIABLES
    creations,     \* the tables
    inputs,
    outputs,
    transactions,  \* a transaction row holds nothing but its id: a count
    request,       \* what each client posted
    pc,            \* how far the handler of each request is
    saved          \* the ids of the rows each handler saved, 0 for none

tables == <<creations, inputs, outputs, transactions>>
vars   == <<tables, request, pc, saved>>

Saving    == {"creation", "input", "spend", "output", "commit"}
\* What the client is told.  "refused" and "unjudged" are the same 401, sent for
\* different reasons; "failed" is an error, or no answer.
Answered  == {"ok", "refused", "unjudged", "failed"}
\* Mutant: the lock is let go once the library has judged the transaction.
InService_ReleasedAfterVerdict == {r \in Requests : pc[r] = "commit"}

\* Mutant: a handler that dies takes the lock with it.
InService_LockNotReleased == {r \in Requests : pc[r] \in Saving \cup {"failed"}}

\* The handlers that run now.
InService == {r \in Requests : pc[r] \in Saving}

-----------------------------------------------------------------------------
(* Types *)

Creation  == [creator: Addresses, payload: Payloads, amount: Nat]
Reference == [referredOutput: Nat]
Payment   == [creator: Addresses, payload: Payloads, amount: Nat,
              receiver: Addresses]

Transaction ==
    [creations : Seq(Creation), inputs : Seq(Reference),
     outputs   : Seq(Payment),  signer : Addresses]

Request == [token: Tokens, form: Forms, transaction: Transaction]

CreationRow == [creator: Addresses, payload: Payloads, amount: Nat,
                signature: Addresses, transaction_id: Nat]
InputRow    == [output_id: Nat, signature: Addresses, transaction_id: Nat]
OutputRow   == [creator: Addresses, payload: Payloads, amount: Nat,
                receiver: Addresses, input_id: Nat, transaction_id: Nat]

\* The type invariant of the tables (db/schema.rb) and of the handlers' locals.
TypeOK ==
    /\ creations \in Seq(CreationRow)
    /\ inputs \in Seq(InputRow)
    /\ outputs \in Seq(OutputRow)
    /\ transactions \in Nat
    /\ pc \in [Requests -> {"idle", "sent"} \cup Saving \cup Answered]
    /\ request \in [Requests -> Request \cup {Nil}]
    /\ \A r \in Requests : pc[r] # "idle" => request[r] \in Request
    /\ saved \in [Requests -> [creation: Nat, input: Nat, output: Nat,
                               transaction: Nat]]

Init ==
    /\ creations = <<>> /\ inputs = <<>> /\ outputs = <<>>
    /\ transactions = 0
    /\ request = [r \in Requests |-> Nil]
    /\ pc = [r \in Requests |-> "idle"]
    /\ saved = [r \in Requests |->
                  [creation |-> 0, input |-> 0, output |-> 0, transaction |-> 0]]

-----------------------------------------------------------------------------
(* Reading *)

\* Mutant: the newest row is left out of the history.
AllHistory_MissesNewest ==
    [o \in {o \in DOMAIN outputs : outputs[o].input_id = 0 /\ o < Len(outputs)}
       |-> outputs[o]]

\* Output.all_history: the rows with input_id 0, by id.
AllHistory ==
    [o \in {o \in DOMAIN outputs : outputs[o].input_id = 0} |-> outputs[o]]

\* Output.history(address), what the owner of the address is shown.
History(address) ==
    [o \in {o \in DOMAIN outputs : /\ outputs[o].input_id = 0
                                   /\ address \in {outputs[o].creator,
                                                   outputs[o].receiver}}
       |-> outputs[o]]

-----------------------------------------------------------------------------
(* The clients *)

\* The transactions a client can have the library build from its history.
Generated(key) ==
    LET h       == History(key)
        coupons == {CouponOf(h[o]) : o \in {o \in DOMAIN h : h[o].receiver = key}}
    IN  {GenerateCreateTransaction(key, p, n) : p \in Payloads, n \in Amounts}
        \cup {GenerateSendTransaction(key, c, to, h) : c \in coupons, to \in Addresses}
        \cup {GenerateDeleteTransaction(key, c, h) : c \in coupons}

\* The backend gives the history out, in its turn, and the library builds the
\* transaction from it; it may be out of date when the backend comes to judge it.
Submit(r) ==
    /\ pc[r] = "idle"
    /\ Cardinality(InService) < Capacity
    /\ \E key \in Addresses, token \in Tokens, form \in Forms :
          \E t \in Generated(key) :
             request' = [request EXCEPT ![r] =
                           [token |-> token, form |-> form, transaction |-> t]]
    /\ pc' = [pc EXCEPT ![r] = "sent"]
    /\ UNCHANGED <<tables, saved>>

-----------------------------------------------------------------------------
(* The handler of POST /backend/verify_transaction *)

\* before_action check_headers
CheckHeaders(q) == q.token = ApiSecret

\* An empty list reaches an object-form request as null, and only the list of
\* creations is turned back by transaction_json.
NullLists(q) ==
    IF q.form = "string" THEN {}
    ELSE {list \in {"inputs", "outputs"} : q.transaction[list] = <<>>}

\* What the command of BitcoinCall.verify_transaction may print.  It prints
\* nothing when the library throws, as it does on a null list, and when the JVM
\* cannot be started or dies: only the output is looked at, not the exit status.
Printed(q) ==
    {IF NullLists(q) # {} THEN ""
     ELSE IF VerifyTransaction(q.transaction, AllHistory) THEN "true" ELSE "false"}
    \cup (IF Faults THEN {""} ELSE {})

\* Only the output 'true' is a yes; a run that printed no verdict is a no.
Verdict(output) ==
    CASE output = "true"  -> "creation"
      [] output = "false" -> "refused"
      [] output = ""      -> "unjudged"

RefuseToken(r) ==
    /\ pc[r] = "sent"
    /\ ~CheckHeaders(request[r])
    /\ Cardinality(InService) < Capacity
    /\ pc' = [pc EXCEPT ![r] = "refused"]
    /\ UNCHANGED <<tables, request, saved>>

\* The verdict is about the outputs as they are when all_history reads them;
\* the library runs outside the database, for as long as a JVM takes.
Verify(r) ==
    /\ pc[r] = "sent"
    /\ CheckHeaders(request[r])
    /\ Cardinality(InService) < Capacity
    /\ \E output \in Printed(request[r]) : pc' = [pc EXCEPT ![r] = Verdict(output)]
    /\ UNCHANGED <<tables, request, saved>>

\* The columns from_json fills; transaction_id waits for transaction.save.
CreationRowOf(c, signer) ==
    [creator |-> c.creator, payload |-> c.payload, amount |-> c.amount,
     signature |-> signer, transaction_id |-> 0]

InputRowOf(i, signer) ==
    [output_id |-> i.referredOutput, signature |-> signer, transaction_id |-> 0]

\* Mutant: referringInput is stored without to_i, so input_id stays NULL.
OutputRowOf_NullInput(o) ==
    [creator |-> o.creator, payload |-> o.payload, amount |-> o.amount,
     receiver |-> o.receiver, input_id |-> Nil, transaction_id |-> 0]

\* Mutant: the payment carries one coupon too many.
OutputRowOf_OneMore(o) ==
    [creator |-> o.creator, payload |-> o.payload, amount |-> o.amount + 1,
     receiver |-> o.receiver, input_id |-> 0, transaction_id |-> 0]

OutputRowOf(o) ==
    [creator |-> o.creator, payload |-> o.payload, amount |-> o.amount,
     receiver |-> o.receiver, input_id |-> 0, transaction_id |-> 0]

\* Creation.from_json: only the first creation is saved.
SaveCreation(r) ==
    LET t == request[r].transaction IN
    /\ pc[r] = "creation"
    /\ pc' = [pc EXCEPT ![r] = "input"]
    /\ IF t.creations = <<>>
       THEN UNCHANGED <<creations, saved>>
       ELSE /\ creations' = Append(creations, CreationRowOf(t.creations[1], t.signer))
            /\ saved' = [saved EXCEPT ![r].creation = Len(creations) + 1]
    /\ UNCHANGED <<inputs, outputs, transactions, request>>

\* Input.from_json up to input.save: only the first input is saved.
SaveInput(r) ==
    LET t == request[r].transaction IN
    /\ pc[r] = "input"
    /\ IF t.inputs = <<>>
       THEN /\ pc' = [pc EXCEPT ![r] = "output"]
            /\ UNCHANGED <<inputs, saved>>
       ELSE /\ pc' = [pc EXCEPT ![r] = "spend"]
            /\ inputs' = Append(inputs, InputRowOf(t.inputs[1], t.signer))
            /\ saved' = [saved EXCEPT ![r].input = Len(inputs) + 1]
    /\ UNCHANGED <<creations, outputs, transactions, request>>

\* Mutant: save_output forgets to save the output it changed.
SaveOutput_NotSaved(r) ==
    /\ pc[r] = "spend"
    /\ pc' = [pc EXCEPT ![r] = "output"]
    /\ UNCHANGED <<tables, request, saved>>

\* Mutant: save_output looks the output up by the id of the input.
SaveOutput_FoundByInputId(r) ==
    LET i == saved[r].input IN
    /\ pc[r] = "spend"
    /\ pc' = [pc EXCEPT ![r] = "output"]
    /\ outputs' = [o \in DOMAIN outputs |->
                     IF o = i THEN [outputs[o] EXCEPT !.input_id = i] ELSE outputs[o]]
    /\ UNCHANGED <<creations, inputs, transactions, request, saved>>

\* Input.save_output: whatever input_id the output has by now is overwritten.
SaveOutput(r) ==
    LET i == saved[r].input IN
    /\ pc[r] = "spend"
    /\ pc' = [pc EXCEPT ![r] = "output"]
    /\ outputs' = [outputs EXCEPT ![inputs[i].output_id].input_id = i]
    /\ UNCHANGED <<creations, inputs, transactions, request, saved>>

\* Output.from_json: only the first output is saved.
SavePayment(r) ==
    LET t == request[r].transaction IN
    /\ pc[r] = "output"
    /\ pc' = [pc EXCEPT ![r] = "commit"]
    /\ IF t.outputs = <<>>
       THEN UNCHANGED <<outputs, saved>>
       ELSE /\ outputs' = Append(outputs, OutputRowOf(t.outputs[1]))
            /\ saved' = [saved EXCEPT ![r].output = Len(outputs) + 1]
    /\ UNCHANGED <<creations, inputs, transactions, request>>

\* Mutant: the rows are left out of the transaction's associations.
Attach_NotAssociated(rows, id, transaction) == rows

\* Only the rows that were saved are attached to the transaction.
Attach(rows, id, transaction) ==
    IF id = 0 THEN rows ELSE [rows EXCEPT ![id].transaction_id = transaction]

\* transaction.save inserts the row and, in the same database transaction,
\* sets the foreign key of the rows in its associations.
SaveTransaction(r) ==
    LET t == transactions + 1 IN
    /\ pc[r] = "commit"
    /\ pc' = [pc EXCEPT ![r] = "ok"]
    /\ transactions' = t
    /\ creations' = Attach(creations, saved[r].creation, t)
    /\ inputs' = Attach(inputs, saved[r].input, t)
    /\ outputs' = Attach(outputs, saved[r].output, t)
    /\ saved' = [saved EXCEPT ![r].transaction = t]
    /\ UNCHANGED request

\* A save raises (the database stays locked past its timeout), the server is
\* killed, or the request is lost on its way: what was saved stays saved.
Abort(r) ==
    /\ Faults
    /\ pc[r] \in {"sent"} \cup Saving
    /\ pc' = [pc EXCEPT ![r] = "failed"]
    /\ UNCHANGED <<tables, request, saved>>

Handle(r) ==
    \/ RefuseToken(r) \/ Verify(r)
    \/ SaveCreation(r) \/ SaveInput(r) \/ SaveOutput(r) \/ SavePayment(r)
    \/ SaveTransaction(r)

\* Every request has its answer: nothing is left to do.
Terminating ==
    /\ \A r \in Requests : pc[r] \in Answered
    /\ UNCHANGED vars

Next ==
    \/ \E r \in Requests : Submit(r) \/ Handle(r) \/ Abort(r)
    \/ Terminating

Spec == Init /\ [][Next]_vars

\* The server keeps running the handlers it started and takes waiting
\* requests; clients need never send one.
FairSpec == Spec /\ \A r \in Requests : WF_vars(Handle(r))
=============================================================================
