------------------------------- MODULE Merchant -------------------------------
(***************************************************************************)
(* The admin client (TransactionsController and what it inherits): what    *)
(* happens between a merchant's click and the page that answers it.        *)
(*                                                                         *)
(* The handler of a click calls the backend several times: for a word, for *)
(* a history, for a verdict.  In between, the ledger and the directory     *)
(* move on.  They are here what they promise: module CouponLedger, which   *)
(* BackendRefinement shows Backend to implement, and module WordBook, which*)
(* DirectoryRefinement shows Directory to implement.                       *)
(*                                                                         *)
(* A click's k-th request to the ledger is the order <<click, k>>.         *)
(***************************************************************************)
EXTENDS Integers, FiniteSets

CONSTANTS
    Clicks,
    Amounts,      \* the numbers of coupons asked for in one click
    MaxAmount,    \* the largest of them, and at least 1
    MobileOrders, \* what the owners of mobile phones order meanwhile
    Users,        \* the merchants
    SignedIn,     \* bound: those who click, perhaps on another's page
    Leavers,      \* bound: those whose account may be deleted
    Mobiles,      \* the addresses of phones
    BuiltIn,      \* the address whose key is in the source, for when nobody is signed in
    Titles,
    Words,
    Capacity,     \* handlers the admin server runs at once
    Faults,       \* may a call fail: an error, a timeout, a lost answer?
    Nil

ASSUME MerchantAssumption ==
    /\ IsFiniteSet(Clicks) /\ IsFiniteSet(MobileOrders)
    /\ IsFiniteSet(Users) /\ IsFiniteSet(Mobiles)
    /\ MaxAmount \in Nat \ {0} /\ Amounts \subseteq 0..MaxAmount
    /\ SignedIn \subseteq Users
    /\ Capacity \in Nat \ {0}
    /\ Faults \in BOOLEAN

VARIABLES
    click,    \* what was clicked
    at,       \* how far its handler is
    todo,     \* the coupons a handler has still to create
    blank,    \* did the library print nothing the last time?
    key,      \* the address with whose key a send or delete was built
    receiver, \* what the word of a send was translated to
    flash,    \* what the page that answers the click says
    cache,    \* the admin's own table of addresses
    accounts, \* the merchants who still have an account
    supply, order, status,  \* the ledger
    meaning   \* the directory

handlers == <<click, at, todo, blank, key, receiver, flash>>
ledger   == <<supply, order, status>>
vars     == <<handlers, cache, accounts, ledger, meaning>>

\* A merchant has two key pairs: coupons are created with one and come back
\* to the other.  A coupon names the word to send it back to, Nil if it is blank.
Keys      == {"create", "return"}
Addresses == (Users \X Keys) \cup Mobiles \cup {BuiltIn}
Coupons   == [creator: (Users \X {"create"}) \cup {BuiltIn}, title: Titles,
              back: Words \cup {Nil}]
Orders    == (Clicks \X (1..MaxAmount)) \cup MobileOrders

ASSUME NamesDiffer ==
    /\ Nil \notin Addresses
    /\ MobileOrders \cap (Clicks \X (1..MaxAmount)) = {}

Issuer(coupon) == coupon.creator

Ledger == INSTANCE CouponLedger WITH IssuerOf <- Issuer, NoOrder <- Nil
Book   == INSTANCE WordBook WITH Unassigned <- Nil

\* page is the merchant for whom the page was made, user the one who is signed in
\* when it is clicked: tabs share their cookie.
Click ==
    [kind: {"create"}, page: Users, user: SignedIn, title: Titles,
     back: Words \cup {Nil}, amount: Amounts]
    \cup [kind: {"send"}, page: Users, user: SignedIn, coupon: Coupons, word: Words]
    \cup [kind: {"delete"}, page: Users, user: SignedIn, coupon: Coupons, key: Keys]

Running == {"building", "translating", "history", "posting", "posted", "explaining"}
Over    == {"page", "error"}

\* The type invariant of the admin's table and of the handlers' locals.
TypeOK ==
    /\ click \in [Clicks -> Click \cup {Nil}]
    /\ at \in [Clicks -> {"idle", "waiting"} \cup Running \cup Over]
    /\ todo \in [Clicks -> 0..MaxAmount]
    /\ blank \in [Clicks -> BOOLEAN]
    /\ key \in [Clicks -> Addresses \cup {Nil}]
    /\ receiver \in [Clicks -> Addresses \cup {Nil}]
    /\ flash \in [Clicks -> {"none", "notice", "alert", "unknown", "signin"}]
    /\ cache \subseteq [word: Words, address: Addresses]
    /\ accounts \subseteq Users
    /\ supply \in [Coupons \X Addresses -> Nat]
    /\ order \in [Orders -> Ledger!Order \cup {Nil}]
    /\ status \in [Orders -> {"none", "placed", "executed", "settled", "dropped", "cut", "lost"}]
    /\ meaning \in [Words -> Addresses \cup {Nil}]

Init ==
    /\ click = [c \in Clicks |-> Nil]
    /\ at = [c \in Clicks |-> "idle"]
    /\ todo = [c \in Clicks |-> 0]
    /\ blank = [c \in Clicks |-> TRUE]
    /\ key = [c \in Clicks |-> Nil]
    /\ receiver = [c \in Clicks |-> Nil]
    /\ flash = [c \in Clicks |-> "none"]
    /\ cache = {}
    /\ accounts = Users
    /\ Ledger!Init
    /\ Book!Init

-----------------------------------------------------------------------------
(* The merchant *)

\* The key the merchant's account has, looked up each time it is needed: if the
\* account is gone the handler goes on, with the built-in key.
KeyOf(c) ==
    IF click[c].user \in accounts
    THEN <<click[c].user, IF click[c].kind = "delete" THEN click[c].key ELSE "create">>
    ELSE BuiltIn

\* A page that may be out of date by now showed the coupon at the address.
WasListed(coupon, address) ==
    \E o \in Orders : /\ status[o] \in {"executed", "settled"}
                      /\ order[o].kind # "redeem"
                      /\ order[o].coupon = coupon /\ order[o].to = address

\* Mutant: the word is taken from the first row there is.
ReturnWords_AnyRow(user) == {row.word : row \in cache} \cup {Nil}

\* The words a page may have in its return_word field: what translate_address
\* finds in the cache, where it keeps what the backend tells it, or a blank when
\* the backend could not be asked or has no word left for the address.
ReturnWords(user) ==
    LET back == <<user, "return">>
    IN  {row.word : row \in {row \in cache : row.address = back}}
        \cup (IF Faults \/ (\A word \in Words : meaning[word] \notin {Nil, back})
              THEN {Nil} ELSE {})

Press(c) ==
    /\ at[c] = "idle"
    /\ \E what \in Click :
          /\ \/ what.kind = "create" /\ what.back \in ReturnWords(what.page)
             \/ what.kind = "send"   /\ WasListed(what.coupon, <<what.page, "create">>)
             \/ what.kind = "delete" /\ WasListed(what.coupon, <<what.page, what.key>>)
          /\ click' = [click EXCEPT ![c] = what]
    /\ at' = [at EXCEPT ![c] = "waiting"]
    /\ UNCHANGED <<todo, blank, key, receiver, flash, cache, accounts, ledger, meaning>>

-----------------------------------------------------------------------------
(* The handlers *)

\* Mutant: a handler that ends in an error keeps the lock.
Busy_LockNotReleased == {c \in Clicks : at[c] \in Running \cup {"error"}}

\* Mutant: others may run while a handler waits for the backend.
Busy_NotWhilePosted == {c \in Clicks : at[c] \in Running \ {"posted"}}

Busy == {c \in Clicks : at[c] \in Running}

Goes(c, where) == at' = [at EXCEPT ![c] = where]

\* The handler ends with a page that says this.
Shows(c, what) == Goes(c, "page") /\ flash' = [flash EXCEPT ![c] = what]

\* Mutant: the loop makes one turn too many.
CreateAmount_OneMore(c) == click[c].amount + 1

\* create_amount
CreateAmount(c) == IF click[c].amount < 1 THEN 1 ELSE click[c].amount

\* require_signin! comes first.
Start(c) ==
    /\ at[c] = "waiting"
    /\ Cardinality(Busy) < Capacity
    /\ \/ click[c].user \notin accounts /\ Shows(c, "signin") /\ UNCHANGED todo
       \/ /\ click[c].user \in accounts
          /\ CASE click[c].kind = "create" ->
                    Goes(c, "building") /\ todo' = [todo EXCEPT ![c] = CreateAmount(c)]
               [] click[c].kind = "send"   -> Goes(c, "translating") /\ UNCHANGED todo
               [] click[c].kind = "delete" -> Goes(c, "history") /\ UNCHANGED todo
          /\ UNCHANGED flash
    /\ UNCHANGED <<click, blank, key, receiver, cache, accounts, ledger, meaning>>

Printed(c, yes) == blank' = [blank EXCEPT ![c] = ~yes]

\* One turn of the loop: a blank output is not posted, and the loop goes on.
BuildCreation(c) ==
    LET own    == KeyOf(c)
        coupon == [creator |-> own, title |-> click[c].title, back |-> click[c].back]
    IN  /\ at[c] = "building" /\ todo[c] > 0
        /\ \/ /\ Printed(c, TRUE)
              /\ Ledger!Asked(<<c, todo[c]>>, [kind |-> "issue", coupon |-> coupon,
                                               from |-> own, to |-> own])
              /\ Goes(c, "posted")
              /\ UNCHANGED todo
           \/ /\ Faults
              /\ Printed(c, FALSE)
              /\ todo' = [todo EXCEPT ![c] = @ - 1]
              /\ UNCHANGED <<at, ledger>>
        /\ UNCHANGED <<click, key, receiver, flash, cache, accounts, meaning>>

\* After the loop, the last output alone decides what the page says.
EndCreate(c) ==
    /\ at[c] = "building" /\ todo[c] = 0
    /\ Shows(c, IF blank[c] THEN "alert" ELSE "notice")
    /\ UNCHANGED <<click, todo, blank, key, receiver, cache, accounts, ledger, meaning>>

Known(word) == {row \in cache : row.word = word}

\* Mutant: the newest entry of the cache is used for every word.
Translation_AnyRow(word) ==
    IF cache # {} THEN (CHOOSE row \in cache : TRUE).address ELSE meaning[word]

\* translate_word: from the cache, or else from the backend.
Translation(word) ==
    IF Known(word) # {} THEN (CHOOSE row \in Known(word) : TRUE).address
    ELSE meaning[word]

\* A translation got from the backend is kept.
Remember(word, address) ==
    cache' = IF address = Nil THEN cache
             ELSE cache \cup {[word |-> word, address |-> address]}

\* send_transaction: when the word has no address, nothing is built.
TranslateWord(c) ==
    LET address == Translation(click[c].word) IN
    /\ at[c] = "translating"
    /\ Remember(click[c].word, address)
    /\ receiver' = [receiver EXCEPT ![c] = address]
    /\ IF address = Nil THEN Goes(c, "explaining") /\ Printed(c, FALSE)
       ELSE Goes(c, "history") /\ UNCHANGED blank
    /\ UNCHANGED <<click, todo, key, flash, accounts, ledger, meaning>>

\* The backend's history of the address has an output with this coupon.
InHistory(coupon, address) == supply[<<coupon, address>>] > 0

\* output_history, and the library builds the transaction from it, or prints
\* nothing when the coupon is gone.
BuildFromHistory(c) ==
    /\ at[c] = "history"
    /\ \/ /\ InHistory(click[c].coupon, KeyOf(c))
          /\ Printed(c, TRUE) /\ Goes(c, "posting")
          /\ key' = [key EXCEPT ![c] = KeyOf(c)]
          /\ UNCHANGED flash
       \/ /\ Faults \/ ~InHistory(click[c].coupon, KeyOf(c))
          /\ Printed(c, FALSE)
          /\ IF click[c].kind = "send" THEN Goes(c, "explaining") /\ UNCHANGED flash
             ELSE Shows(c, "alert")
          /\ UNCHANGED key
    /\ UNCHANGED <<click, todo, receiver, cache, accounts, ledger, meaning>>

\* verify_transaction sends the transaction to the backend.
PostSpend(c) ==
    /\ at[c] = "posting"
    /\ Ledger!Asked(<<c, 1>>,
         [kind   |-> IF click[c].kind = "send" THEN "transfer" ELSE "redeem",
          coupon |-> click[c].coupon, from |-> key[c],
          to     |-> IF click[c].kind = "send" THEN receiver[c] ELSE key[c]])
    /\ Goes(c, "posted")
    /\ UNCHANGED <<click, todo, blank, key, receiver, flash, cache, accounts, meaning>>

\* Mutant: the transaction is posted and its answer is not waited for.
Answer_NotAwaited(c) ==
    /\ at[c] = "posted"
    /\ IF click[c].kind = "create"
       THEN Goes(c, "building") /\ todo' = [todo EXCEPT ![c] = @ - 1] /\ UNCHANGED flash
       ELSE Shows(c, "notice") /\ UNCHANGED todo
    /\ UNCHANGED <<click, blank, key, receiver, cache, accounts, ledger, meaning>>

\* The answer, whose id nobody looks at: a yes and a no are taken alike.  A no
\* leaves the order dropped, or cut if the library could not be run; that the
\* ledger does not tell from a handler that was cut off and answered with an error.
Answer(c) ==
    LET posted == <<c, IF click[c].kind = "create" THEN todo[c] ELSE 1>> IN
    /\ at[c] = "posted"
    /\ status[posted] \in {"settled", "dropped", "cut"}
    /\ IF click[c].kind = "create"
       THEN Goes(c, "building") /\ todo' = [todo EXCEPT ![c] = @ - 1] /\ UNCHANGED flash
       ELSE Shows(c, "notice") /\ UNCHANGED todo
    /\ UNCHANGED <<click, blank, key, receiver, cache, accounts, ledger, meaning>>

\* Nothing was built for a send.  Whether the page blames the address is decided
\* by translating the word once more.
Explain(c) ==
    LET address == Translation(click[c].word) IN
    /\ at[c] = "explaining"
    /\ Remember(click[c].word, address)
    /\ Shows(c, IF address = Nil THEN "unknown" ELSE "alert")
    /\ UNCHANGED <<click, todo, blank, key, receiver, accounts, ledger, meaning>>

\* Mutant: the handler rescues the error and says something went wrong.
Fail_Rescued(c) ==
    /\ Faults /\ at[c] \in Running
    /\ Shows(c, "alert")
    /\ UNCHANGED <<click, todo, blank, key, receiver, cache, accounts, ledger, meaning>>

\* A call raises: no connection, a timeout, or an answer without the token, of
\* which BackendRequest makes nil.  What was posted may still be carried out.
Fail(c) ==
    /\ Faults /\ at[c] \in Running
    /\ Goes(c, "error")
    /\ UNCHANGED <<click, todo, blank, key, receiver, flash, cache, accounts, ledger, meaning>>

Handle(c) ==
    \/ Start(c) \/ BuildCreation(c) \/ EndCreate(c)
    \/ TranslateWord(c) \/ BuildFromHistory(c) \/ PostSpend(c) \/ Explain(c)
    \/ Answer(c) \/ Fail(c)

\* translate_address, for an owner or a return address that a page names: the
\* backend may give the address its word only now.
NameAddress(a) ==
    /\ Cardinality(Busy) < Capacity
    /\ \/ a \in Users \X {"return"}
       \/ \E coupon \in Coupons : supply[<<coupon, a>>] > 0
    /\ \A row \in cache : row.address # a
    /\ \E word \in Words :
          /\ \/ meaning[word] = a /\ UNCHANGED meaning
             \/ (\A w \in Words : meaning[w] # a) /\ Book!Assign(word, a)
          /\ Remember(word, a)
    /\ UNCHANGED <<handlers, accounts, ledger>>

\* UsersController#destroy, of anybody's account: it waits for its turn like any
\* other request, and closes no session and stops no handler.
DeleteAccount(user) ==
    /\ user \in accounts \cap Leavers
    /\ Cardinality(Busy) < Capacity
    /\ accounts' = accounts \ {user}
    /\ UNCHANGED <<handlers, cache, ledger, meaning>>

-----------------------------------------------------------------------------
(* Everybody else *)

\* A phone asks for the word of its address.
Register(word, a) ==
    Book!Assign(word, a) /\ UNCHANGED <<handlers, cache, accounts, ledger>>

\* The owner of a phone passes a coupon on, perhaps back to the merchant.
MobileOrder(o) ==
    /\ \E coupon \in Coupons, from \in Mobiles, to \in Addresses :
          /\ InHistory(coupon, from)
          /\ Ledger!Asked(o, [kind |-> "transfer", coupon |-> coupon,
                             from |-> from, to |-> to])
    /\ UNCHANGED <<handlers, cache, accounts, meaning>>

Judge(o)    == Ledger!Decide(o) /\ UNCHANGED <<handlers, cache, accounts, meaning>>
Conclude(o) == Ledger!Finish(o) /\ UNCHANGED <<handlers, cache, accounts, meaning>>

Terminating ==
    /\ \A c \in Clicks : at[c] \in Over
    /\ \A o \in Orders : status[o] \notin {"placed", "executed"}
    /\ UNCHANGED vars

Next ==
    \/ \E c \in Clicks : Press(c) \/ Handle(c)
    \/ \E a \in Addresses : NameAddress(a)
    \/ \E user \in Users : DeleteAccount(user)
    \/ \E word \in Words, a \in Mobiles : Register(word, a)
    \/ \E o \in MobileOrders : MobileOrder(o)
    \/ \E o \in Orders : Judge(o) \/ Conclude(o)
    \/ Terminating

Spec == Init /\ [][Next]_vars

\* Both servers keep running what they started; nobody need click.
FairSpec ==
    /\ Spec
    /\ \A c \in Clicks : WF_vars(Handle(c))
    /\ \A o \in Orders : WF_vars(Judge(o)) /\ WF_vars(Conclude(o))

-----------------------------------------------------------------------------
(* Properties *)

\* A page that says a send or a delete went wrong is right that nothing was
\* taken, then and later: the coupon cannot leave by a request that is still on
\* its way.  (An error page promises nothing.)
AlertMeansNothingTaken ==
    \A c \in Clicks :
        (flash[c] \in {"alert", "unknown", "signin"} /\ click[c].kind \in {"send", "delete"})
            => status[<<c, 1>>] \in {"none", "dropped", "cut"}

\* A coupon sent to a word goes to the address the directory gives for it, also
\* when the word was translated from a cache that is never refreshed.
SentToTheWord ==
    \A c \in Clicks :
        (at[c] # "idle" /\ click[c].kind = "send" /\ status[<<c, 1>>] # "none")
            => order[<<c, 1>>].to = meaning[click[c].word]

\* The word a coupon names is, for as long as the coupon is about, the word of the
\* return address of the merchant on whose page it was made, though it went from
\* the directory to a cache, from there to the page, and from the page to the
\* ledger.  (Whoever is signed in by then is its issuer.)
ReturnWordLeadsBack ==
    \A c \in Clicks, k \in 1..MaxAmount :
        (at[c] # "idle" /\ click[c].kind = "create" /\ status[<<c, k>>] # "none")
            => LET back == order[<<c, k>>].coupon.back
               IN  back # Nil => meaning[back] = <<click[c].page, "return">>

\* What a click has posted and is not decided yet.
Open(c) == {k \in 1..MaxAmount : status[<<c, k>>] \in {"placed", "executed"}}

\* When a page answers a click, nothing the click posted, in any turn of the loop,
\* is still to be carried out, so the page that is loaded next shows all of it;
\* and a click that ends in an error leaves one request in doubt and no more.
OneTurnInDoubt ==
    \A c \in Clicks :
        /\ at[c] = "page" => Open(c) = {}
        /\ \A j, k \in Open(c) : j = k

\* What a click makes the ledger do is signed with a key of the merchant who
\* clicked, and never with the built-in key, which everybody has, though accounts
\* are deleted while clicks are handled.
SignedByTheMerchant ==
    \A c \in Clicks, k \in 1..MaxAmount :
        (at[c] # "idle" /\ status[<<c, k>>] # "none")
            => order[<<c, k>>].from \in {click[c].user} \X Keys

\* A page that says a coupon has been sent is right: the backend has not refused
\* the transaction because the coupon was gone.
NoticeIsTrue ==
    \A c \in Clicks :
        (flash[c] = "notice" /\ click[c].kind = "send")
            => status[<<c, 1>>] # "dropped"

\* Every click is answered, though calls may fail.
EveryClickAnswered ==
    \A c \in Clicks : at[c] = "waiting" ~> at[c] \in Over
=============================================================================
