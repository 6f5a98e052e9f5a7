------------------------------ MODULE Directory ------------------------------
(***************************************************************************)
(* The backend's directory of words (Backend::AddressesController): every  *)
(* address is given a word people can say to each other, and a word is     *)
(* turned back into its address when a coupon is sent to it.               *)
(*                                                                         *)
(* POST /backend/address looks the address up and, when it is new, creates *)
(* its row, finds the word with the id of that row, and saves the row      *)
(* again: three steps with other handlers, or a crash, in between.  As in  *)
(* module Backend, a table is a sequence and an id is a position in it.    *)
(***************************************************************************)
EXTENDS Integers, Sequences, FiniteSets

CONSTANTS
    Requests,   \* the POSTs the clients will make, each made once
    Addresses,
    Words,      \* the seeded table of words, in the order it was shuffled into
    Spoken,     \* the words people type, some of them perhaps not in the table
    Tokens,
    ApiSecret,
    Capacity,   \* handlers that may run at once
    Faults,     \* may a handler be cut off between two steps?
    Nil

ASSUME DirectoryAssumption ==
    /\ IsFiniteSet(Requests)
    /\ Words \in Seq(Spoken)
    /\ Capacity \in Nat \ {0}
    /\ Faults \in BOOLEAN
    /\ Nil \notin Addresses \cup Spoken

VARIABLES
    addresses,  \* the table of addresses; word_id 0 until a word is assigned
    ask,        \* what each client posted
    pc,         \* how far its handler is
    row,        \* the id of the row it created
    answer      \* what it was answered

vars == <<addresses, ask, pc, row, answer>>

Working   == {"found", "creating", "assigning"}
Answered  == {"ok", "refused", "notfound", "failed"}
\* Mutant: a handler that ends in an error keeps the lock.
InService_LockNotReleased ==
    {r \in Requests : pc[r] \in Working \cup {"notfound", "failed"}}

\* Mutant: a handler gives the lock up once it has created its row.
InService_UntilCreated == {r \in Requests : pc[r] \in Working \ {"assigning"}}

\* The handlers that run now.
InService == {r \in Requests : pc[r] \in Working}

AddressRow == [address: Addresses, word_id: Nat]

Question == [endpoint: {"address"}, name: Addresses, token: Tokens]
            \cup [endpoint: {"word"}, name: Spoken, token: Tokens]

\* The type invariant of the table (db/schema.rb) and of the handlers' locals.
TypeOK ==
    /\ addresses \in Seq(AddressRow)
    /\ ask \in [Requests -> Question \cup {Nil}]
    /\ pc \in [Requests -> {"idle", "sent"} \cup Working \cup Answered]
    /\ \A r \in Requests : pc[r] # "idle" => ask[r] \in Question
    /\ row \in [Requests -> Nat]
    /\ answer \in [Requests -> Addresses \cup Spoken \cup {Nil}]

Init ==
    /\ addresses = <<>>
    /\ ask = [r \in Requests |-> Nil]
    /\ pc = [r \in Requests |-> "idle"]
    /\ row = [r \in Requests |-> 0]
    /\ answer = [r \in Requests |-> Nil]

-----------------------------------------------------------------------------
(* Queries *)

\* where(...).first: the matching row with the least id, 0 when there is none.
First(ids) ==
    IF ids = {} THEN 0 ELSE CHOOSE i \in ids : \A j \in ids : i <= j

RowOf(address) ==
    First({i \in DOMAIN addresses : addresses[i].address = address})

\* What POST /backend/word answers, Nil when it answers 404.
AddressOf(word) ==
    LET w == First({i \in DOMAIN Words : Words[i] = word})
        a == First({i \in DOMAIN addresses : w # 0 /\ addresses[i].word_id = w})
    IN  IF a = 0 THEN Nil ELSE addresses[a].address

-----------------------------------------------------------------------------
(* The clients *)

Ask(r) ==
    /\ pc[r] = "idle"
    /\ \E question \in Question : ask' = [ask EXCEPT ![r] = question]
    /\ pc' = [pc EXCEPT ![r] = "sent"]
    /\ UNCHANGED <<addresses, row, answer>>

-----------------------------------------------------------------------------
(* The handlers *)

Becomes(r, state) == pc' = [pc EXCEPT ![r] = state]

\* The handler ends with this answer.
Answers(r, value) == Becomes(r, "ok") /\ answer' = [answer EXCEPT ![r] = value]

\* A request starts to be handled: before_action check_headers lets it pass.
Starts(r, endpoint) ==
    /\ pc[r] = "sent"
    /\ ask[r].token = ApiSecret /\ ask[r].endpoint = endpoint
    /\ Cardinality(InService) < Capacity

RefuseToken(r) ==
    /\ pc[r] = "sent"
    /\ ask[r].token # ApiSecret
    /\ Cardinality(InService) < Capacity
    /\ Becomes(r, "refused")
    /\ UNCHANGED <<addresses, ask, row, answer>>

\* Mutant: the lookup is skipped, every request makes a row.
LookUp_AlwaysNew(r) ==
    /\ Starts(r, "address")
    /\ Becomes(r, "creating")
    /\ UNCHANGED <<addresses, ask, row, answer>>

\* address.any? asks the database for the address.
LookUp(r) ==
    /\ Starts(r, "address")
    /\ Becomes(r, IF RowOf(ask[r].name) # 0 THEN "found" ELSE "creating")
    /\ UNCHANGED <<addresses, ask, row, answer>>

\* address.first.word.word raises when the row has no word yet.
ReadWord(r) ==
    LET id == addresses[RowOf(ask[r].name)].word_id IN
    /\ pc[r] = "found"
    /\ IF id = 0
       THEN Becomes(r, "failed") /\ UNCHANGED answer
       ELSE Answers(r, Words[id])
    /\ UNCHANGED <<addresses, ask, row>>

\* Address.create: from here on the row is there to be found, without a word.
CreateAddress(r) ==
    /\ pc[r] = "creating"
    /\ Becomes(r, "assigning")
    /\ addresses' = Append(addresses, [address |-> ask[r].name, word_id |-> 0])
    /\ row' = [row EXCEPT ![r] = Len(addresses) + 1]
    /\ UNCHANGED <<ask, answer>>

\* Mutant: the address is answered its word, and the row is not saved again.
AssignWord_NotSaved(r) ==
    /\ pc[r] = "assigning"
    /\ IF row[r] \in DOMAIN Words
       THEN Answers(r, Words[row[r]])
       ELSE Becomes(r, "notfound") /\ UNCHANGED answer
    /\ UNCHANGED <<addresses, ask, row>>

\* Mutant: a word_id that is not a number is stored.
AssignWord_NullId(r) ==
    /\ pc[r] = "assigning"
    /\ addresses' = [addresses EXCEPT ![row[r]].word_id = Nil]
    /\ Becomes(r, "ok")
    /\ UNCHANGED <<ask, row, answer>>

\* Mutant: words are recycled when they have run out.
AssignWord_Recycles(r) ==
    LET id == ((row[r] - 1) % Len(Words)) + 1 IN
    /\ pc[r] = "assigning"
    /\ addresses' = [i \in DOMAIN addresses |->
            IF i = row[r] THEN [addresses[i] EXCEPT !.word_id = id]
            ELSE IF addresses[i].word_id = id THEN [addresses[i] EXCEPT !.word_id = 0]
            ELSE addresses[i]]
    /\ Answers(r, Words[id])
    /\ UNCHANGED <<ask, row>>

\* Word.find raises, which is a 404, when the words have run out; otherwise the
\* row is saved with its word and the word is the answer.
AssignWord(r) ==
    LET id == row[r] IN
    /\ pc[r] = "assigning"
    /\ IF id \in DOMAIN Words
       THEN /\ addresses' = [addresses EXCEPT ![id].word_id = id]
            /\ Answers(r, Words[id])
       ELSE Becomes(r, "notfound") /\ UNCHANGED <<addresses, answer>>
    /\ UNCHANGED <<ask, row>>

\* POST /backend/word only reads.
ReadAddress(r) ==
    LET address == AddressOf(ask[r].name) IN
    /\ Starts(r, "word")
    /\ IF address = Nil
       THEN Becomes(r, "notfound") /\ UNCHANGED answer
       ELSE Answers(r, address)
    /\ UNCHANGED <<addresses, ask, row>>

\* A save or a query raises, or the server is killed.
Abort(r) ==
    /\ Faults
    /\ pc[r] \in {"sent"} \cup Working
    /\ Becomes(r, "failed")
    /\ UNCHANGED <<addresses, ask, row, answer>>

Handle(r) ==
    \/ RefuseToken(r)
    \/ LookUp(r) \/ ReadWord(r) \/ CreateAddress(r) \/ AssignWord(r)
    \/ ReadAddress(r)

Terminating ==
    /\ \A r \in Requests : pc[r] \in Answered
    /\ UNCHANGED vars

Next ==
    \/ \E r \in Requests : Ask(r) \/ Handle(r) \/ Abort(r)
    \/ Terminating

Spec == Init /\ [][Next]_vars

\* The server keeps running the handlers it started and takes waiting requests.
FairSpec == Spec /\ \A r \in Requests : WF_vars(Handle(r))

-----------------------------------------------------------------------------
(* Properties *)

Told(r, endpoint) == pc[r] = "ok" /\ ask[r].endpoint = endpoint

\* A word that was told for an address is turned back into that address, from
\* then on and for everybody: what is sent to the word arrives.
WordResolves ==
    \A r \in Requests :
        Told(r, "address") => AddressOf(answer[r]) = ask[r].name

\* An address that was told for a word stays the address of the word: a client
\* may keep what it was told for ever, as the admin client's cache does.
AddressStands ==
    \A r \in Requests :
        Told(r, "word") => AddressOf(ask[r].name) = answer[r]

\* Everybody who asks for an address is told the same word.
OneWordEach ==
    \A r, s \in Requests :
        (Told(r, "address") /\ Told(s, "address") /\ ask[r].name = ask[s].name)
            => answer[r] = answer[s]

\* address.first.word.word fails on nil only where no word will ever come: the
\* handler that made the row was cut off or found no word left. A row whose maker
\* is only slow is never found.
OnlyBrokenRowsFail ==
    \A r \in Requests :
        LET found == RowOf(ask[r].name) IN
        (pc[r] = "found" /\ addresses[found].word_id = 0)
            => \E s \in Requests : row[s] = found /\ pc[s] \in {"failed", "notfound"}

\* Whoever asks for the word of an address is told one, unless a handler is cut
\* off (a row without a word makes the next request fail) or the words run out.
EveryAddressGetsWord ==
    \A r \in Requests :
        (pc[r] = "sent" /\ ask[r].token = ApiSecret /\ ask[r].endpoint = "address")
            ~> \/ pc[r] = "ok"
               \/ \E s \in Requests : pc[s] = "failed"
               \/ Len(addresses) > Len(Words)
=============================================================================
