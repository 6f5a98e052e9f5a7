# A TLA+ model of Bitcoupon on Rails

Bitcoupon on Rails is two Rails applications. The **backend** (`backend/`) keeps
a ledger of coupons and a directory of words in SQLite and serves JSON. The
**admin client** (`admin/`) is the web application a merchant uses: it has
accounts, creates, sends and deletes coupons, and calls the backend over HTTP.
Both call a Java library, `bitcoin/bitcoin-2.0.jar`, through the command line,
to build and to judge transactions. Mobile phones (another repository) call the
same backend.

This directory has TLA+ modules translated from that code, configurations that
check them with TLC, and theorems that TLAPS proves about them. `PROJECT.json`
says, for each definition, which lines it stands for.

## 1. Inventory

| Part | State | Operations | Talks to |
|---|---|---|---|
| Coupon ledger (`backend/.../transactions_controller.rb`, models `transaction`, `creation`, `input`, `output`) | tables `transactions`, `creations`, `inputs`, `outputs` | `verify` (judge and save), `output_history`, `empty` | library, SQLite |
| Directory of words (`backend/.../addresses_controller.rb`, models `address`, `word`) | tables `words` (seeded), `addresses` | `address` (address to word, giving one if needed), `word` (word to address) | SQLite |
| Library (`bitcoin-2.0.jar`, behind `bitcoin_call.rb`) | none | build a create, send or delete; verify; list coupons | run once per call |
| Admin transactions (`admin/.../transactions_controller.rb`, `backend_request.rb`) | none of its own | `index`, `generate_create`, `generate_send`, `generate_delete` | backend, library |
| Admin address cache (`translate_word`, `translate_address`) | table `addresses`, never refreshed | fill, look up | backend |
| Admin users and sessions (`users_controller`, `sessions_controller`, `current_user`) | table `users` with the private keys; cookies | sign in and out, create, update, destroy | library (keys) |
| Views, assets, configuration | none | rendering | |
| `ruby-java-integration` | | two proofs of concept nothing uses | |

What is hard here, and no test of the repository reaches:

* **Interleaving and stale reads.** `verify` reads the unspent outputs, runs a
  JVM, and only then saves, in up to five separate saves with no surrounding
  database transaction. `Input.save_output` overwrites the mark of an output
  without looking at it. `AddressesController#address` looks up, creates and
  assigns in three steps.
* **Failure in the middle.** An exception, a locked database or a killed server
  (`.runner.sh`) leaves some of those saves done.
* **Ignored and late answers.** The admin client does not look at the id that
  `verify_transaction` returns, its calls can time out while the backend still
  carries them out, and users click again.
* **Caches.** Word and address pairs are kept for ever; a history request made
  for one key is reused for another; a return word sits in a table, then in a
  page, then in coupons; a session outlives its account.
* **Cookies.** The session is in a cookie that each answer writes back, so a
  late answer undoes what an earlier one did.
* **Keys.** The account is looked up each time a key is needed, and a handler
  whose account is gone goes on with a key that is in the source.
* **Order.** A client builds a transaction from a history that may be out of
  date when the backend judges it.

`PROJECT.json`, "hazards", lists these at the lines where they bite, with the
properties that would catch them.

What makes each part correct: for the ledger, that no coupon is spent twice,
made out of nothing or moved by somebody who does not hold it, and that an
acknowledged transaction is whole; for the directory, that a word means one
address for ever; for the admin client, that what its pages say is true and
that coupons go where the word leads, come back to the right merchant and are
signed by the one who clicked; for the accounts, that a session opens the
account it was signed in to.

## 2. The modules

```
  CouponLedger (abstract)              WordBook (abstract)
      ^  refined by    \                /     ^ refined by
  BackendRefinement     \              /   DirectoryRefinement
      |                  +- Merchant -+        |
  BackendSafety --- Listing                Directory
      |
   Backend                                  Users
      |
  CouponLibrary
      |
   Totals (also used by CouponLedger)
```

**CouponLibrary** is what a transaction is, who can build it, and when it is
valid: pure operators. The jar is not source of this repository, so most of it
is marked external; it is modelled from what the callers rely on. A key pair is
named by its address, and "signed with the key of a" is `signer = a`.
**Totals** adds up coupons, as the size of a set rather than by recursion, so
that sums can be reasoned about in proofs.

**Backend** is `POST /verify_transaction`. The tables are sequences (an id is a
position; nothing is deleted). `pc[r]` is how far the handler of request `r` is.
`Verify` is the token check, `all_history` and the verdict. The verdict is whether
the library's command printed "true" (`Printed`, `Verdict`): a "false" is a refusal
(`refused`), and so is a run that prints nothing, because the virtual machine
could not be started or died, or because a list came as null (`unjudged`). Both
are the same 401 to the client; the model keeps them apart to say which was which.
`SaveCreation`, `SaveInput`, `SaveOutput`, `SavePayment`, `SaveTransaction` are
the saves, in the code's order, each an action because each is a database
transaction of its own. `Abort` ends a handler anywhere and leaves what it had
saved. `Submit` is a client that builds a transaction from the history as it is
at that moment; the request may then wait. `Capacity` is how many handlers run
at once: 1 under `rails server`, which puts `Rack::Lock` before the
application; more when `config.ru` is served by a threaded server with the
`cache_classes`/`eager_load` setting of `production.rb`.

**BackendSafety** states the properties of the ledger, and the parts of the
inductive invariants. **CouponLedger** is what the ledger promises, with no
tables and no handlers: orders are placed, and each takes effect at most once
and at one moment, or is refused for a rival, or is cut off before anything happened,
which is also what an order is that the library was not able to judge.
**BackendRefinement** maps the tables to it: a coupon is held by the receiver of
an unspent output; a transfer executes in `SaveOutput` and settles in
`SavePayment`. What the promise must allow, because the code does it, is
`Lose`: a handler that ends after `save_output` and before `Output.from_json`
leaves a coupon that is nobody's.

**Directory** is both endpoints of `AddressesController`, a step at a time.
**WordBook** is its promise, that a word means nothing until it is given to an
address and that address from then on. **DirectoryRefinement** is the mapping.

**Merchant** is the admin client from a click to the page that answers it,
composed with `CouponLedger` and `WordBook` in the place of the backend, which
the two refinements justify. A handler checks who is signed in (`Start`),
translates the word, reads a history, posts, and looks (or does not look) at the
answer: `Answer` is the same whether the order was carried out, refused, or cut
off, as the admin client goes on in each case. `Fail` is any call that raises,
with what was posted still on its way.
`cache` is the admin's own table. A click has a `page`, the merchant for whom the
page was made, and a `user`, who is signed in when it is clicked: the two differ
when somebody signed in in another tab. What a page puts into coupons, the return
word, is one of `ReturnWords(page)`: from the cache, which was filled from the
directory, or blank. `accounts` are the merchants whose account still exists;
`DeleteAccount` is `UsersController#destroy` as a click sees it, and `KeyOf` is
what `create_private_key` and `return_private_key` return each time they are
called: a key of the account, or, when it is gone, the one in the source
(`BuiltIn`). `key` is the address with whose key a spend was built.

**Users** is the accounts and the sessions. The server keeps no sessions: a
request carries a copy of its browser's cookie (`session[r]`), the handler works
on the copy, and `Deliver` writes it back over whatever is there by then; `Lose`
is an answer that arrives nowhere. A handler loads its account (`SetUser`), is
checked (`RequireSignin`), and acts; with `Capacity` above 1 others run in
between. A page that is rendered asks for `current_user` once more, in the
layout, which closes a session whose account has gone meanwhile (`CurrentUser`,
`Replies`). The `keys` in a session are only observed: those of the account it
was opened on.

**Listing** is what `index` shows: three lists, made by the library from three
histories fetched one after another (`FetchCreated`, `FetchReturned`,
`FetchCirculating`), each waiting its turn at the backend, while the ledger moves
on; with the request `User#output_history_request` kept from the first. It is
Backend with one more variable, the `page` a handler has so far. `Finish` throws
it away, as when the page is sent or a call raises.

**TableFacts** has lemmas about sequences of rows and sums; **LedgerProofs** (of the
abstract ledger), **BackendProofs**, **RefinementProofs**, **ListingProofs**,
**DirectoryProofs**, **MerchantProofs** and **UsersProofs** have the theorems. The **MC** modules give
TLC its constants and symmetry. Definitions named `X_Something`, under a comment that starts with
"Mutant", are faulty versions of `X`, no part of the model: with one of them in
place of `X`, a property has to fail.

## 3. What is checked

| Run | Question | Bounds |
|---|---|---|
| `backend_serial` | one handler at a time, cut off anywhere: `NoDoubleSpend`, `VerdictStillHolds`, `SpentOnlyByHolder`, `AckIsDurable`, `SupplyBounded`, `RefusedForAReason`, `MarksForGood` | 4 requests, right and wrong tokens, 3 addresses, 1 kind of payload |
| `backend_ledger` | each of its steps is one of `CouponLedger` or none (`KeepsTheLedger`), `EveryCouponAccounted`, and with fairness it makes the ledger's progress (`MakesProgress`; the two are all of `CouponLedger!Spec`), and `EveryRequestAnswered` | 3 requests, both forms, 2 addresses, crashes |
| `backend_threaded` | what survives two handlers at once: `SpentOnlyByHolder`, `RefusedForAReason`; and `EachCouponListedOnce` of a page that is loaded meanwhile | 3 requests, both forms, creations of 2, crashes; the merchant's two addresses and a phone |
| `backend_race` | **fails**: `NoDoubleSpend` with two handlers at once | 3 requests, 2 addresses, no crash |
| `directory_serial` | `WordResolves`, `AddressStands`, `OneWordEach`, `OnlyBrokenRowsFail`, `EveryAddressGetsWord` | 4 requests, 3 addresses, 2 words, crashes |
| `directory_threaded` | `WordResolves`, and it implements `WordBook` | 3 requests, 2 handlers at once, an unknown word, wrong tokens, crashes |
| `directory_reseeded` | **fails**: `WordResolves` when the words were seeded twice | |
| `merchant_tabs` | `AlertMeansNothingTaken`, `SentToTheWord` | 3 clicks, 2 at once, a phone's order, 2 words, one merchant, any call may fail |
| `merchant_live` | `ReturnWordLeadsBack`, `SignedByTheMerchant`, `AlertMeansNothingTaken`, `OneTurnInDoubt`, `EveryClickAnswered` | 2 clicks one at a time, creates of "0" (which makes 1) and of 2, pages of two merchants, one of whom is signed in and may lose the account, any call may fail |
| `merchant_notice` | **fails**: `NoticeIsTrue` | 3 clicks, 1 at a time |
| `users` | `SessionIsOwn`, `PasswordsAreLong`, `GoneForGood` | 2 browsers, 2 requests on their way at once, late and lost answers, 3 accounts ever, 2 emails, a long and a short password |
| `listing_returned` | **fails**: `ReturnedIsComplete` | 2 requests |

`TypeOK` is checked in one run of each component besides. The runs that pass
check for deadlock; `Terminating` stands for a system with nothing left to do.

Why the bounds are enough to be of interest: a double spend takes a creation
and two rival spends (3 requests), and a chain of two holders with a rival takes
4. A coupon can be missed or listed twice by a page only if it moves between two
of its three histories, to or from one of the merchant's own addresses, which a
creation, a send and a send back do (3 requests, a phone). A word can be wrong
only if it was told and then given away, which takes as many rows as words and
one more (3 addresses, 2 words) and somebody who asked (4 requests). A click that
is repeated after a lost answer takes a creation and two sends (3 clicks). A
return word can be wrong only if somebody else's word is in the cache (2
merchants). A wrong key can be used only if an account goes while its handler is
between two turns of its loop (a create of 2). An id can be confused only if an
account is deleted and another created while a session lives, in a cookie or in
an answer on its way (2 requests, and an account to create the others from).
Payloads are one value because nothing compares them but for equality; two
issuers already make two kinds of coupon.

Bounds that the code does not have: `Requests` and `Clicks`, each made once,
except in Users, where `Requests` bounds how many are on their way and each may
be made again and again; `MaxAccounts`, the accounts ever created; `MaxAmount`,
the coupons of one click; `Amounts`, what is typed into a field; `SignedIn` and
`Leavers`, which merchants click and whose account may go. Symmetry is over
requests, clicks, words, browsers, addresses or names that nothing distinguishes, and
only in runs with no liveness property.

The requests of Backend are transactions the library builds (`Submit`): signed by
whoever holds the coupon in the history the client read, and with one input at
most. Two kinds of request the endpoint would also take never occur in the runs,
and are excluded from the theorems. One is a spend attempted by somebody who does
not hold the coupon: the signature check is in the model (`VerifySignatures`), but
it is never what refuses, so `SpentOnlyByHolder` says that marks end up on their
own input and not that forgers are kept out. The other is a transaction with
several inputs, of which `input.rb:12` saves only the first; `NoDoubleSpend`,
`SupplyBounded` and the accounts of coupons would have to be read anew for those.

`listing_returned` has the constraint
that the key of the return address issues nothing, which is true of the admin
client, and which the requests of Backend, anybody's, do not know.

### Fairness

* `Backend!FairSpec` and `Directory!FairSpec`: weak fairness of `Handle(r)`. A
  server keeps running a handler it started, and takes a request that waits.
  Clients need never send one (`Submit`, `Ask` are not fair), and `Abort` never
  has to happen.
* `Merchant!FairSpec`: weak fairness of each click's handler, and of `Judge` and
  `Conclude` for each order, which are the fairness of the abstract ledger that
  `backend_ledger` shows the backend to have.
* With one handler at a time weak fairness is enough for `EveryRequestAnswered`
  because the requests are finitely many: nobody can be overtaken for ever.

### What the runs found

1. **A coupon can be spent twice in a threaded server** (`backend_race`).
   Two handlers read the history before either marks the output.
   `Rack::Lock` is all that prevents it; no code of the application does.
2. **Seeding twice makes words ambiguous** (`directory_reseeded`).
   `backend/SETUP.md` runs `rake db:setup` (line 19), which seeds, and then
   `rake db:seed` (line 21). A word is then there under two ids, and it is given by
   id and looked up by text. Line 22 says not to use seeds in production, but
   nothing else fills the table of words.
3. **The page says "has been sent" when the backend refused**
   (`merchant_notice`). A call fails after it was posted, the user clicks again,
   the second transaction is refused, and nobody looks at the answer.
4. **Returned coupons of another issuer are not listed** (`listing_returned`).
   `output_history_request` keeps the first request it made and returns it for
   any key, so the list for the return address is made from the history of the
   create address. The coupons the merchant issued itself are still all listed
   (`EachCouponListedOnce`).

Met while modelling, and checked by no run: `Output.from_json` saves only the
first output (its TODO says so), so a transaction with change would lose the
change. The library never builds one, because the admin client's creations are
of one coupon each; `backend_threaded` has creations of two, and checks what
still holds then, and `AckIsDurable` is claimed for creations of one.

## 4. What is proved

TLAPS checks these for every value of the constants that satisfies the named
assumptions, with any number of requests, addresses, words, clicks and browsers.
Every safety property that a passing run checks is a theorem, and so is the
safety part of both refinements.

| Theorem | Says | Assumes |
|---|---|---|
| `BackendProofs!TypeCorrect` | `TypeOK` | `ConstantsAssumption` |
| `BackendProofs!OnlyHoldersSpend` | `SpentOnlyByHolder`, for any concurrency and any crash | same |
| `BackendProofs!VerdictsHold` | `VerdictStillHolds` | `Capacity = 1` |
| `BackendProofs!NoCouponSpentTwice` | `NoDoubleSpend` | `Capacity = 1` |
| `BackendProofs!MarksAreForGood` | `MarksForGood`, for any crash | `Capacity = 1` |
| `BackendProofs!SupplyIsBounded` | `SupplyBounded` | `Capacity = 1` |
| `BackendProofs!RefusalsHaveReasons` | `RefusedForAReason`, for any concurrency and any crash | |
| `BackendProofs!AcksAreDurable` | `AckIsDurable` | `Capacity = 1`, `Amounts = {1}` |
| `RefinementProofs!StepsAreTheLedgers` | `KeepsTheLedger`, for any token, either form and any crash | `OneByOne` |
| `LedgerProofs!CouponsAreAccounted` | `CouponsAccounted` of the abstract ledger | finitely many orders and addresses |
| `RefinementProofs!CouponsAreAccounted` | `EveryCouponAccounted` of the backend's tables, for any crash | `OneByOne`, finitely many addresses |
| `ListingProofs!CouponsAreListedOnce` | `EachCouponListedOnce`, for any concurrency and any crash | `ListingAssumption` |
| `DirectoryProofs!DirectoryTypeCorrect` | `TypeOK` | `DirectoryAssumption` |
| `DirectoryProofs!WordsResolve`, `AddressesStand` | `WordResolves`, `AddressStands`, for any concurrency and any crash | the words are distinct |
| `DirectoryProofs!DirectoryKeepsTheBook` | the directory implements `WordBook` | the words are distinct |
| `DirectoryProofs!OneWordForEach`, `OnlyBrokenOnesFail` | `OneWordEach`, `OnlyBrokenRowsFail` | `Capacity = 1` |
| `MerchantProofs!MerchantTypes` | `TypeOK` | `MerchantAssumption`, `NamesDiffer` |
| `MerchantProofs!SendsGoToTheWord` | `SentToTheWord`, for any number of handlers at once | same |
| `MerchantProofs!ReturnWordsLeadBack` | `ReturnWordLeadsBack` | same |
| `MerchantProofs!AlertsAreTrue` | `AlertMeansNothingTaken` | same |
| `MerchantProofs!OnlyThroughThePromises` | `Ledger!SafetySpec /\ Book!Spec`: clicks use the ledger and the directory only as these promise | same |
| `MerchantProofs!OneInDoubt` | `OneTurnInDoubt`, for any number of handlers at once | same |
| `MerchantProofs!MerchantSigns` | `SignedByTheMerchant` | `Capacity = 1` |
| `UsersProofs!UsersTypes` | `TypeOK` | `UsersAssumption` |
| `UsersProofs!SessionsAreOwn`, `PasswordsStayLong`, `DeletedStayDeleted` | `SessionIsOwn`, `PasswordsAreLong`, `GoneForGood` | `UsersAssumption` |

`OneByOne` is `Capacity = 1` and `Amounts = {1}`. Requests with a wrong token, and
object-form requests with a list that arrives as null, are among those the
refinement is about: the library never gets to judge them, so they are no order
of the ledger at all (`Heard`, `Asking`), and what is proved is that they change
nothing.

`Capacity = 1` is `Rack::Lock`; `backend_race` shows that the theorems on double
spends need it. With two handlers at once an address gets two words, a coupon
paid twice is one too many, and an account can go between two looks at it; the
mutant `Busy_NotWhilePosted` of `merchant_live` shows the last. That the words are
distinct is true of `public/words.txt` seeded once; `directory_reseeded` shows
that it is needed. `Amounts = {1}` is what the admin client creates; a larger
creation leaves change, which is not saved (see section 3). `NamesDiffer` says
that `Nil` is no address and a phone's order no click's. `create_amount` is
sent as one creation per coupon, which is `Merchant!CreateAmount`.

The arguments:

* **Holders.** `HolderInv` adds to the types `InputsAreOwn` (a judged
  transaction refers to outputs its signer holds; rows never change their
  receiver, so this stays) and `SpendIsPrepared` (the input a handler is about to
  mark with refers to that output). `SaveOutput` then writes a mark that agrees
  with the holder. `SpentOnlyByHolder` alone is not inductive: nothing in it says
  whose input is about to be used.
* **Double spends.** `SerialInv` adds `Serial`, `VerdictStillHolds`,
  `NoInputYet`, `OwnMark` and `CommittedMark`. With one handler at a time nothing
  changes the outputs between the verdict and the mark, so the output that is
  marked is unspent (`AboutToMark`), marks are never overwritten (`MarksStay`),
  and the inputs of saved transactions are in one-to-one correspondence with the
  outputs that bear them. `MarksForGood` is stronger in one way: it is about marks
  of handlers that were cut off as well.
* **Sums.** `SupplyInv` adds that a transaction has the form the library gives
  it (`Formed`), that no output is empty (`Positive`) and that a creation is saved
  before the coupon it makes (`CreatedFirst`). With one handler at a time at most
  one payment is on its way (`PendingIsOne`), so the step that saves it moves
  exactly what `SaveOutput` took. Sums are sizes of sets of units, so a row that
  is added, or a number that changes, changes them by what the library's theorems
  on cardinality say (`TableFacts`).
* **Acknowledgements.** `RowsInv` follows each row from the save that makes it:
  the handlers' rows are distinct (`DistinctRows`), the transaction is saved last
  (`TransactionLast`), and each row is what was saved plus the transaction's id
  (`RowsSaved`). Alone, `AckIsDurable` says nothing of a handler that is not done.
* **Refusals.** `RefusedForAReason` needs no lock: what `Verify` does is one fact
  (`VerifyStep`), that a run which prints nothing where the lists are there is a
  fault, and that "false" is the library's judgement. A request in the right form
  is judged by rows that never change but for the mark, and a mark, once there,
  is only overwritten. The form of a request is part of the invariant.
* **The ledger.** `LedgerInv` is all of these and `Trail`: only what was heard is
  saved, a handler's saved input is that of its transaction, and whatever mark an output bears is some handler's
  input. A mark is then there exactly from `SaveOutput` on (`MarkedIs`), which
  gives each order its status; a step of one handler leaves the status of the
  others alone (`OthersStatus`), for it overwrites no mark and its inputs are its
  own; and who is refused was rivalled by the one whose mark it is
  (`RefusedIsRivalled`). A request that the library was not able to judge has
  touched nothing, and is an order that is cut off. What people hold changes in two steps only, by one
  coupon (`SupplyTaken`, `SupplyPaid`). A step of a request that is not heard
  leaves everything in its place (`StepUnheard`).
* **Accounts.** That every coupon issued is held, on its way, lost or redeemed is
  proved once, of the abstract ledger (`LedgerProofs`): an order's progress changes
  each of the four counts by what `CountMove` and `HeldMove` say, and the
  strengthening is that issues are settled at once. The backend has it because its
  steps are the ledger's (`StepsAreTheLedgers`). `RefinementProofs` and
  `MerchantProofs` instantiate `LedgerProofs` with their own mappings (`Proved`), and
  say that its definitions are those of the ledger they see (`SameLedger`); of the
  clicks, which touch the ledger only as it promises (`OnlyThroughThePromises`),
  only `LedgerStep` is used.
* **The page.** `PageInv` says of each list that it has outputs at the right
  addresses only, and all of those that have stayed there since the page began
  (`At`, `Elsewhere`): outputs never change their receiver, and are never unspent
  again (`SpentForGood`). The three lists then partition what stayed.
* **Words.** `DirectoryInv` says that a row with a word has the word with its own
  id (`WordIsOwn`), that a handler works on its own row (`RowIsOwn`), and that
  what was told is in the table (`TellsTheTable`). Rows with a word never
  change, and with distinct words two of them cannot bear the same word. For the
  refinement, a step that changes what some word means is `AssignWord`, and it
  is `Assign` of that word; every other step is a stutter.
  With one handler at a time no address gets a second row (`OneRowEach`). A row
  without a word has a maker that is about to assign it or ended before it did
  (`WordlessRows`); behind the lock, whoever finds the row does not run beside the
  first kind.
* **Clicks.** `MerchantInv` says that the cache is true (`CacheIsTrue`; a word
  keeps its meaning, so it stays true), and for each click where its handler can
  be (`Staged`), that one which has still to post has posted nothing
  (`Unposted`, from which alerts are true), that a send about to be built is
  built for what its word means (`Directed`), and that the return word of a
  create leads back (`LeadsBack`).
* **What is in doubt.** `OneTurnInDoubt` is not inductive: it does not say which
  request a handler waits for. `InDoubt` does: only a handler that waits for an
  answer, or waited for one when it failed, has an order that is not decided, and
  it is the one it posted last; `Answer` goes on only when that one is.
* **Keys.** `Own` says that a handler that runs runs for an account that is
  there, so `KeyOf` gives its key; an account is deleted only when no handler
  runs (`NobodyBusy`).
* **Sessions.** `UsersInv` says that the id in a session, in a cookie or on its
  way, has been given (`SessionsGiven`), so the next one, which is larger, is not
  it.

Only model-checked: the liveness properties (`EveryRequestAnswered`,
`EveryAddressGetsWord`, `EveryClickAnswered`), and the fairness in the refinement
of `CouponLedger` (`MakesProgress`), for proofs about fairness are beyond TLAPS here. The four runs
that fail are counterexamples and need no proof.

## 5. What is left out

* `Transaction.history` and its helpers, which nothing calls, and `empty`, which
  changes nothing. `output_history` only reads; it is the operator `History`.
* Cryptography and encodings: a signature is the signer. That a forged one is
  refused is taken from the library.
* Timestamps in payloads: two creations of one click are the same kind of coupon
  in the model, and different kinds in the code when a second passes in between.
* An object-form request with an empty list reaches the library with null, which
  it cannot read: it prints nothing, and the request is refused (`NullLists`). Which lists the mobile client leaves empty
  is decided in another repository.
* `transaction_history` of the admin client, which nothing calls.
* What a page looks like whose account goes while it is made: Listing is the page
  of a merchant who stays.
* That issuer and return word of a coupon belong to one merchant. They do not
  when a page of one is clicked while another is signed in; nothing in the
  repository says they should, so no property does.
* Views, assets, configuration, and the proofs of concept: no state. The few lines
  of the views that do something are in Merchant (the hidden return word) and
  Users (the layout's `current_user`). All JavaScript is either manifests and
  vendored jQuery or belongs to generated documentation and coverage reports
  (`documentation/`, `test_reports/`); none of it is this program's logic, which
  is Ruby, so none of it is modelled.

## 6. Plan

Done: the ledger, the directory, their abstract specifications and refinements,
the admin client against those with accounts that go, accounts and cookies,
the page history by history, and a theorem for every safety property, for the
safety part of each refinement, and for the clicks' use of the promises. What is
proved of the abstract ledger's coupons reaches the tables through the refinement.

What could follow: a merchant's page over the abstract ledger, so that a click on
a coupon that has moved since can be followed from the history it was listed
from; transactions with several inputs, and spends tried by somebody who does not
hold the coupon, submitted to Backend; and what an alert means proved of the
promises instead of the clicks.
