---------------------------- MODULE MerchantProofs ----------------------------
(***************************************************************************)
(* Theorems about the clicks of the merchants, for any number of them, of  *)
(* words, phones and coupons, of handlers at once, and with any call       *)
(* failing.                                                                *)
(***************************************************************************)
EXTENDS Merchant, TableFacts

-----------------------------------------------------------------------------
(* The ledger *)

LedgerTyped ==
    /\ supply \in [Coupons \X Addresses -> Nat]
    /\ order \in [Orders -> Ledger!Order \cup {Nil}]
    /\ status \in [Orders -> {"none", "placed", "executed", "settled", "dropped", "cut", "lost"}]
    /\ \A o \in Orders : status[o] # "none" => order[o] \in Ledger!Order

Posts == \E o \in Orders, what \in Ledger!Order : Ledger!Asked(o, what)

Moves == \E o \in Orders : Ledger!Decide(o) \/ Ledger!Finish(o)

\* What LedgerProofs proves of the abstract ledger is so of the one here.
Proved == INSTANCE LedgerProofs WITH IssuerOf <- Issuer, NoOrder <- Nil

LEMMA SameLedger ==
    /\ Proved!Order = Ledger!Order /\ Proved!ledger = ledger
    /\ \A o, what : Proved!Asked(o, what) <=> Ledger!Asked(o, what)
    /\ \A o : Proved!Decide(o) <=> Ledger!Decide(o)
    /\ \A o : Proved!Finish(o) <=> Ledger!Finish(o)
<1>1. Proved!Order = Ledger!Order /\ Proved!ledger = ledger
  BY DEF Proved!Order, Ledger!Order, Proved!ledger, ledger
<1>2. \A o, what : Proved!Asked(o, what) <=> Ledger!Asked(o, what)
  BY DEF Proved!Asked, Ledger!Asked
<1>3. \A o, k : Proved!Asks(o, k) <=> Ledger!Asks(o, k)
  BY DEF Proved!Asks, Ledger!Asks
<1>4. \A o, s : Proved!Becomes(o, s) <=> Ledger!Becomes(o, s)
  BY DEF Proved!Becomes, Ledger!Becomes
<1>5. \A o : Proved!Take(o) <=> Ledger!Take(o)
  BY DEF Proved!Take, Ledger!Take
<1>6. \A o : Proved!Rivalled(o) <=> Ledger!Rivalled(o)
  BY DEF Proved!Rivalled, Ledger!Rivalled
<1>7. \A o : Proved!Decide(o) <=> Ledger!Decide(o)
  BY <1>3, <1>4, <1>5, <1>6 DEF Proved!Decide, Ledger!Decide, Proved!Issue, Ledger!Issue,
     Proved!Transfer, Ledger!Transfer, Proved!Redeem, Ledger!Redeem,
     Proved!Drop, Ledger!Drop, Proved!Cut, Ledger!Cut
<1>8. \A o : Proved!Finish(o) <=> Ledger!Finish(o)
  BY <1>4 DEF Proved!Finish, Ledger!Finish, Proved!Settle, Ledger!Settle,
     Proved!Lose, Ledger!Lose
<1> QED  BY <1>1, <1>2, <1>7, <1>8

SameTypes == Proved!LedgerTyped <=> LedgerTyped

LEMMA TypesAreSame == SameTypes
  BY SameLedger DEF SameTypes, Proved!LedgerTyped, LedgerTyped

LEMMA TypesAreSameNext == SameTypes'
  BY TypesAreSame, PTL

\* An order is what it was when it was placed.
LEMMA LedgerStep ==
    ASSUME LedgerTyped, Posts \/ Moves \/ UNCHANGED ledger
    PROVE  /\ LedgerTyped'
           /\ \A o \in Orders : status[o] # "none" => status'[o] # "none" /\ order'[o] = order[o]
           /\ Moves => \A o \in Orders : status'[o] = "none" <=> status[o] = "none"
<1>1. Proved!LedgerTyped
  BY TypesAreSame DEF SameTypes
<1>2. Proved!Moves <=> Moves
  BY SameLedger DEF Proved!Moves, Moves
<1>3. Proved!Places <=> Posts
  BY SameLedger DEF Proved!Places, Posts
<1>4. UNCHANGED Proved!ledger <=> UNCHANGED ledger
  BY DEF Proved!ledger, ledger
<1>5. /\ Proved!LedgerTyped'
      /\ \A o \in Orders : status[o] # "none" => status'[o] # "none" /\ order'[o] = order[o]
      /\ Proved!Moves => \A o \in Orders : status'[o] = "none" <=> status[o] = "none"
  BY <1>1, <1>2, <1>3, <1>4, Proved!LedgerStep
<1> QED  BY <1>2, <1>5, TypesAreSameNext DEF SameTypes

-----------------------------------------------------------------------------
(* The directory, and the admin's own table of addresses *)

DirectoryTyped ==
    /\ meaning \in [Words -> Addresses \cup {Nil}]
    /\ cache \subseteq [word: Words, address: Addresses]

\* What was kept is still so.
CacheIsTrue == \A known \in cache : meaning[known.word] = known.address

Assigns == \E word \in Words, a \in Addresses : Book!Assign(word, a)

\* A word keeps its meaning.
LEMMA MeaningStays ==
    ASSUME DirectoryTyped, Assigns \/ UNCHANGED meaning
    PROVE  /\ meaning' \in [Words -> Addresses \cup {Nil}]
           /\ \A word \in Words : meaning[word] # Nil => meaning'[word] = meaning[word]
  BY DEF DirectoryTyped, Assigns, Book!Assign

\* A translation is what the directory says, whether it is from the cache or not.
LEMMA Translates ==
    ASSUME DirectoryTyped, CacheIsTrue, NEW word \in Words
    PROVE  Translation(word) = meaning[word] /\ Translation(word) \in Addresses \cup {Nil}
<1>1. meaning[word] \in Addresses \cup {Nil}
  BY DEF DirectoryTyped
<1>2. CASE Known(word) # {}
  <2> DEFINE known == CHOOSE known \in Known(word) : TRUE
  <2>1. known \in Known(word)
    BY <1>2
  <2>2. known.address = meaning[word]
    BY <2>1 DEF Known, CacheIsTrue
  <2> QED  BY <1>1, <1>2, <2>2 DEF Translation
<1> QED  BY <1>1, <1>2 DEF Translation

\* The cache stays true when what the directory says is added to it.
LEMMA CacheStep ==
    ASSUME DirectoryTyped, CacheIsTrue, Assigns \/ UNCHANGED meaning,
           \/ UNCHANGED cache
           \/ \E word \in Words, a \in Addresses \cup {Nil} :
                 Remember(word, a) /\ (a # Nil => meaning'[word] = a)
    PROVE  DirectoryTyped' /\ CacheIsTrue'
<1>1. \A known \in cache : known.word \in Words /\ known.address \in Addresses
  BY DEF DirectoryTyped
<1>2. \A known \in cache : meaning'[known.word] = known.address
  BY <1>1, MeaningStays, NamesDiffer DEF CacheIsTrue
<1>3. CASE UNCHANGED cache
  BY <1>2, <1>3, MeaningStays DEF DirectoryTyped, CacheIsTrue
<1>4. ASSUME NEW word \in Words, NEW a \in Addresses \cup {Nil}, Remember(word, a),
             a # Nil => meaning'[word] = a
      PROVE  DirectoryTyped' /\ CacheIsTrue'
  BY <1>2, <1>4, MeaningStays DEF DirectoryTyped, CacheIsTrue, Remember
<1> QED  BY <1>3, <1>4

-----------------------------------------------------------------------------
(* The handlers *)

LEMMA ClickFields ==
    ASSUME NEW what \in Click
    PROVE  /\ what.kind \in {"create", "send", "delete"}
           /\ what.user \in Users /\ what.page \in Users
           /\ what.kind = "create" => /\ what.title \in Titles
                                      /\ what.back \in Words \cup {Nil}
                                      /\ what.amount \in 0 .. MaxAmount
           /\ what.kind # "create" => what.coupon \in Coupons
           /\ what.kind = "send" => what.word \in Words
           /\ what.kind = "delete" => what.key \in Keys
  BY MerchantAssumption DEF Click

HandlersTyped ==
    /\ click \in [Clicks -> Click \cup {Nil}]
    /\ at \in [Clicks -> {"idle", "waiting"} \cup Running \cup Over]
    /\ todo \in [Clicks -> 0..MaxAmount]
    /\ blank \in [Clicks -> BOOLEAN]
    /\ key \in [Clicks -> Addresses \cup {Nil}]
    /\ receiver \in [Clicks -> Addresses \cup {Nil}]
    /\ flash \in [Clicks -> {"none", "notice", "alert", "unknown", "signin"}]
    /\ accounts \subseteq Users

\* Where the handler of a click can be.
Stages(kind) ==
    {"waiting"} \cup Over \cup
    CASE kind = "create" -> {"building", "posted"}
      [] kind = "send"   -> {"translating", "history", "posting", "posted", "explaining"}
      [] kind = "delete" -> {"history", "posting", "posted"}

Staged(c) ==
    /\ at[c] # "idle" => click[c] \in Click /\ at[c] \in Stages(click[c].kind)
    /\ (at[c] = "posted" /\ click[c].kind = "create") => todo[c] # 0
    /\ flash[c] # "none" => at[c] = "page"
    /\ at[c] = "posting" => key[c] \in Addresses

\* A handler that still has to post has not posted, nor has one whose page says
\* that nothing was taken.
Unposted(c) ==
    \/ at[c] \in {"idle", "waiting", "translating", "history", "posting", "explaining"}
    \/ flash[c] = "signin"
    \/ flash[c] \in {"alert", "unknown"} /\ click[c].kind # "create"

NothingPosted(c) == \A k \in 1 .. MaxAmount : status[<<c, k>>] = "none"

\* A send that is to be built is built for the address its word means.
Directed(c) ==
    (at[c] \in {"history", "posting"} /\ click[c].kind = "send")
        => receiver[c] \in Addresses /\ receiver[c] = meaning[click[c].word]

Sent(c) ==
    (at[c] # "idle" /\ click[c].kind = "send" /\ status[<<c, 1>>] # "none")
        => order[<<c, 1>>].to = meaning[click[c].word]

\* The word on the page leads back, and the coupons ordered for it have that word.
LeadsBack(c) ==
    (at[c] # "idle" /\ click[c].kind = "create") =>
        /\ click[c].back # Nil => meaning[click[c].back] = <<click[c].page, "return">>
        /\ \A k \in 1 .. MaxAmount :
              status[<<c, k>>] # "none" => order[<<c, k>>].coupon.back = click[c].back

ClickInv(c) ==
    /\ Staged(c)
    /\ Unposted(c) => NothingPosted(c)
    /\ Directed(c) /\ Sent(c) /\ LeadsBack(c)

MerchantInv ==
    /\ LedgerTyped /\ DirectoryTyped /\ HandlersTyped
    /\ CacheIsTrue
    /\ \A c \in Clicks : ClickInv(c)

LEMMA InitInv == Init => MerchantInv
<1> SUFFICES ASSUME Init PROVE MerchantInv
  OBVIOUS
<1> USE DEF Init, Ledger!Init, Book!Init
<1>1. LedgerTyped /\ DirectoryTyped /\ HandlersTyped
  BY MerchantAssumption DEF LedgerTyped, DirectoryTyped, HandlersTyped
<1>2. CacheIsTrue
  BY DEF CacheIsTrue
<1>3. ASSUME NEW c \in Clicks PROVE ClickInv(c)
  <2>1. \A k \in 1 .. MaxAmount : <<c, k>> \in Orders
    BY DEF Orders
  <2>2. <<c, 1>> \in Orders
    BY <2>1, MerchantAssumption
  <2> QED  BY <2>1, <2>2 DEF ClickInv, Staged, Directed, Sent, LeadsBack, NothingPosted
<1> QED  BY <1>1, <1>2, <1>3 DEF MerchantInv

-----------------------------------------------------------------------------
(* One step *)

\* The step is not one of this click's handler.
Same(c) ==
    /\ click'[c] = click[c] /\ at'[c] = at[c] /\ todo'[c] = todo[c]
    /\ key'[c] = key[c] /\ receiver'[c] = receiver[c] /\ flash'[c] = flash[c]
    /\ \A k \in 1 .. MaxAmount : status'[<<c, k>>] = "none" <=> status[<<c, k>>] = "none"

\* Places in the ledger for every click.
LEMMA OrdersOf ==
    \A c \in Clicks : <<c, 1>> \in Orders /\ \A k \in 1 .. MaxAmount : <<c, k>> \in Orders
  BY MerchantAssumption DEF Orders

LEMMA FirstIsOne == 1 \in 1 .. MaxAmount
  BY MerchantAssumption

LEMMA SameStep ==
    ASSUME MerchantInv, NEW c \in Clicks, Same(c), Assigns \/ UNCHANGED meaning,
           Posts \/ Moves \/ UNCHANGED ledger
    PROVE  ClickInv(c)'
<1>1. ClickInv(c) /\ DirectoryTyped /\ LedgerTyped
  BY DEF MerchantInv
<1>2. Staged(c)'
  BY <1>1 DEF ClickInv, Staged, Same
<1>3. (Unposted(c) => NothingPosted(c))'
  BY <1>1 DEF ClickInv, Unposted, NothingPosted, Same
<1>4. at[c] # "idle" => click[c] \in Click
  BY <1>1 DEF ClickInv, Staged
<1>5. Directed(c)'
  BY <1>1, <1>4, ClickFields, MeaningStays, NamesDiffer DEF ClickInv, Directed, Same
<1>6. Sent(c)'
  <2>1. status[<<c, 1>>] # "none" =>
            order'[<<c, 1>>] = order[<<c, 1>>] /\ order[<<c, 1>>].to \in Addresses
    BY <1>1, OrdersOf, LedgerStep DEF LedgerTyped, Ledger!Order
  <2>2. status'[<<c, 1>>] = "none" <=> status[<<c, 1>>] = "none"
    BY FirstIsOne DEF Same
  <2> QED  BY <1>1, <1>4, <2>1, <2>2, ClickFields, MeaningStays, NamesDiffer
           DEF ClickInv, Sent, Same
<1>7. LeadsBack(c)'
  <2>1. ASSUME at[c] # "idle", click[c].kind = "create"
        PROVE  click[c].back # Nil => meaning'[click[c].back] = <<click[c].page, "return">>
    <3>1. <<click[c].page, "return">> \in Addresses /\ click[c].back \in Words \cup {Nil}
      BY <1>4, <2>1, ClickFields DEF Addresses, Keys
    <3> QED  BY <1>1, <2>1, <3>1, MeaningStays, NamesDiffer DEF ClickInv, LeadsBack
  <2>2. \A k \in 1 .. MaxAmount : status[<<c, k>>] # "none" => order'[<<c, k>>] = order[<<c, k>>]
    BY <1>1, OrdersOf, LedgerStep
  <2> QED  BY <1>1, <2>1, <2>2 DEF ClickInv, LeadsBack, Same
<1> QED  BY <1>2, <1>3, <1>5, <1>6, <1>7 DEF ClickInv

\* What a step has to do by itself; the rest follows.
LEMMA StepInv ==
    ASSUME MerchantInv, HandlersTyped', Assigns \/ UNCHANGED meaning,
           Posts \/ Moves \/ UNCHANGED ledger,
           \/ UNCHANGED cache
           \/ \E word \in Words, a \in Addresses \cup {Nil} :
                 Remember(word, a) /\ (a # Nil => meaning'[word] = a),
           \A c \in Clicks : Same(c) \/ ClickInv(c)'
    PROVE  MerchantInv'
<1>1. LedgerTyped' /\ DirectoryTyped' /\ CacheIsTrue'
  BY LedgerStep, CacheStep DEF MerchantInv
<1>2. \A c \in Clicks : ClickInv(c)'
  BY SameStep
<1> QED  BY <1>1, <1>2 DEF MerchantInv

-----------------------------------------------------------------------------
(* The actions of the merchant and of the handlers *)

\* The locals of the other handlers stay as they are.
Only(c) ==
    \A d \in Clicks \ {c} :
        /\ click'[d] = click[d] /\ at'[d] = at[d] /\ todo'[d] = todo[d]
        /\ key'[d] = key[d] /\ receiver'[d] = receiver[d] /\ flash'[d] = flash[d]

\* A step of one handler that leaves the ledger and the directory alone.
LEMMA QuietStep ==
    ASSUME MerchantInv, NEW c \in Clicks, HandlersTyped', UNCHANGED <<ledger, meaning>>,
           \/ UNCHANGED cache
           \/ \E word \in Words, a \in Addresses \cup {Nil} :
                 Remember(word, a) /\ (a # Nil => meaning'[word] = a),
           Only(c), ClickInv(c)'
    PROVE  MerchantInv'
<1>1. \A d \in Clicks : Same(d) \/ ClickInv(d)'
  BY DEF Only, Same, ledger
<1> QED  BY <1>1, StepInv

LEMMA PressStep ==
    ASSUME MerchantInv, NEW c \in Clicks, Press(c) PROVE MerchantInv'
<1>1. ClickInv(c) /\ HandlersTyped /\ DirectoryTyped /\ CacheIsTrue
  BY DEF MerchantInv
<1>2. PICK what \in Click :
         /\ \/ what.kind = "create" /\ what.back \in ReturnWords(what.page)
            \/ what.kind = "send"   /\ WasListed(what.coupon, <<what.page, "create">>)
            \/ what.kind = "delete" /\ WasListed(what.coupon, <<what.page, what.key>>)
         /\ click' = [click EXCEPT ![c] = what]
  BY DEF Press
<1>3. /\ at[c] = "idle" /\ at' = [at EXCEPT ![c] = "waiting"]
      /\ UNCHANGED <<todo, blank, key, receiver, flash, cache, accounts, ledger, meaning>>
  BY DEF Press
<1>4. HandlersTyped' /\ Only(c) /\ click'[c] = what /\ at'[c] = "waiting"
  BY <1>1, <1>2, <1>3 DEF HandlersTyped, Only
<1>5. flash[c] = "none" /\ NothingPosted(c)
  BY <1>1, <1>3 DEF ClickInv, Staged, Unposted, HandlersTyped
<1>6. Staged(c)' /\ Directed(c)' /\ (Unposted(c) => NothingPosted(c))'
  BY <1>3, <1>4, <1>5 DEF Staged, Stages, Directed, NothingPosted, ledger
<1>7. Sent(c)'
  BY <1>3, <1>5, FirstIsOne DEF Sent, NothingPosted, ledger
<1>8. LeadsBack(c)'
  <2>1. CASE what.kind = "create"
    <3>1. what.back # Nil => \E known \in cache : /\ known.word = what.back
                                                   /\ known.address = <<what.page, "return">>
      BY <1>2, <2>1 DEF ReturnWords
    <3>2. what.back # Nil => meaning[what.back] = <<what.page, "return">>
      BY <1>1, <3>1 DEF CacheIsTrue
    <3> QED  BY <1>3, <1>4, <1>5, <3>2 DEF LeadsBack, NothingPosted, ledger
  <2>2. CASE what.kind # "create"
    BY <1>4, <2>2 DEF LeadsBack
  <2> QED  BY <2>1, <2>2
<1>9. ClickInv(c)'
  BY <1>6, <1>7, <1>8 DEF ClickInv
<1> QED  BY <1>3, <1>4, <1>9, QuietStep

\* A step of a handler that goes on without having posted.
LEMMA GoesOn ==
    ASSUME MerchantInv, NEW c \in Clicks, at[c] \in Running \cup {"waiting"},
           UNCHANGED <<click, ledger, meaning>>, HandlersTyped', Only(c),
           Staged(c)', Unposted(c)' => NothingPosted(c), Directed(c)',
           \/ UNCHANGED cache
           \/ \E word \in Words, a \in Addresses \cup {Nil} :
                 Remember(word, a) /\ (a # Nil => meaning'[word] = a)
    PROVE  MerchantInv'
<1>1. ClickInv(c) /\ at[c] # "idle"
  BY DEF MerchantInv, Running
<1>2. Sent(c)'
  BY <1>1 DEF ClickInv, Sent, ledger
<1>3. LeadsBack(c)'
  BY <1>1 DEF ClickInv, LeadsBack, ledger
<1>4. (Unposted(c) => NothingPosted(c))'
  BY DEF NothingPosted, ledger
<1>5. ClickInv(c)'
  BY <1>2, <1>3, <1>4 DEF ClickInv
<1> QED  BY <1>5, QuietStep

LEMMA CreateAmountType ==
    ASSUME NEW c \in Clicks, click[c] \in Click, click[c].kind = "create"
    PROVE  CreateAmount(c) \in 1 .. MaxAmount
  BY ClickFields, MerchantAssumption DEF CreateAmount

LEMMA KeyOfType ==
    ASSUME NEW c \in Clicks, click[c] \in Click
    PROVE  /\ KeyOf(c) \in Addresses
           /\ click[c].kind = "create" => KeyOf(c) \in (Users \X {"create"}) \cup {BuiltIn}
           /\ click[c].user \in accounts => KeyOf(c) \in {click[c].user} \X Keys
  BY ClickFields DEF KeyOf, Keys, Addresses

LEMMA QuietSteps ==
    ASSUME MerchantInv, NEW c \in Clicks,
           \/ Start(c) \/ EndCreate(c) \/ TranslateWord(c) \/ BuildFromHistory(c)
           \/ Answer(c) \/ Explain(c) \/ Fail(c)
           \/ BuildCreation(c) /\ UNCHANGED ledger
    PROVE  MerchantInv'
<1>0. /\ ClickInv(c) /\ HandlersTyped /\ DirectoryTyped /\ CacheIsTrue
      /\ Staged(c) /\ (Unposted(c) => NothingPosted(c)) /\ Directed(c)
  BY DEF MerchantInv, ClickInv
<1>1. /\ at[c] \in Running \cup {"waiting"} /\ click[c] \in Click
      /\ click[c].kind \in {"create", "send", "delete"} /\ flash[c] = "none"
      /\ at[c] \in Stages(click[c].kind)
  BY <1>0, ClickFields DEF Start, EndCreate, TranslateWord, BuildFromHistory, Answer,
     Explain, Fail, BuildCreation, Staged, Running, HandlersTyped
<1>2. at[c] # "idle" /\ at[c] # "page"
  BY <1>1 DEF Running
<1>3. CASE Start(c)
  <2>1. at[c] = "waiting" /\ UNCHANGED <<click, blank, key, receiver, cache, accounts, ledger, meaning>>
    BY <1>3 DEF Start
  <2>2. CASE click[c].user \notin accounts
    <3>1. at' = [at EXCEPT ![c] = "page"] /\ flash' = [flash EXCEPT ![c] = "signin"]
          /\ UNCHANGED todo
      BY <1>3, <2>2 DEF Start, Shows, Goes
    <3>2. HandlersTyped' /\ Only(c) /\ at'[c] = "page"
      BY <1>0, <2>1, <3>1 DEF HandlersTyped, Only, Over
    <3>3. Staged(c)' /\ Directed(c)' /\ NothingPosted(c)
      BY <1>0, <1>1, <2>1, <3>2 DEF Staged, Stages, Directed, Unposted, Over
    <3> QED  BY <1>1, <2>1, <3>2, <3>3, GoesOn
  <2>3. CASE click[c].user \in accounts
    <3> DEFINE stage == CASE click[c].kind = "create" -> "building"
                         [] click[c].kind = "send"   -> "translating"
                         [] click[c].kind = "delete" -> "history"
    <3>0. /\ at' = [at EXCEPT ![c] = stage] /\ stage \in Running /\ UNCHANGED flash
          /\ UNCHANGED todo \/ \E n \in 0 .. MaxAmount : todo' = [todo EXCEPT ![c] = n]
      <4>1. click[c].kind = "create" => CreateAmount(c) \in 0 .. MaxAmount
        BY <1>1, CreateAmountType, MerchantAssumption
      <4>2. CASE click[c].kind = "create"
        BY <1>3, <2>3, <4>1, <4>2 DEF Start, Goes, Running
      <4>3. CASE click[c].kind = "send"
        BY <1>3, <2>3, <4>3 DEF Start, Goes, Running
      <4>4. CASE click[c].kind = "delete"
        BY <1>3, <2>3, <4>4 DEF Start, Goes, Running
      <4> QED  BY <1>1, <4>2, <4>3, <4>4
    <3> HIDE DEF stage
    <3>1. /\ HandlersTyped' /\ Only(c) /\ flash'[c] = flash[c] /\ at'[c] = stage
      BY <1>0, <2>1, <3>0 DEF HandlersTyped, Only
    <3> USE DEF stage
    <3>2. Staged(c)' /\ Directed(c)' /\ (Unposted(c)' => NothingPosted(c))
      BY <1>0, <1>1, <2>1, <3>1 DEF Staged, Stages, Directed, Unposted
    <3> QED  BY <1>1, <2>1, <3>1, <3>2, GoesOn
  <2> QED  BY <2>2, <2>3
<1>4. CASE EndCreate(c)
  <2>1. /\ HandlersTyped' /\ Only(c) /\ UNCHANGED <<click, ledger, meaning, cache>>
        /\ at'[c] = "page" /\ flash'[c] \in {"alert", "notice"} /\ click[c].kind = "create"
    BY <1>0, <1>1, <1>4 DEF EndCreate, Shows, Goes, HandlersTyped, Only, Over, Stages
  <2>2. Staged(c)' /\ Directed(c)' /\ ~Unposted(c)'
    BY <1>1, <2>1 DEF Staged, Stages, Directed, Unposted, Over
  <2> QED  BY <1>1, <2>1, <2>2, GoesOn
<1>5. CASE TranslateWord(c)
  <2> DEFINE word == click[c].word
             a    == Translation(word)
  <2>1. click[c].kind = "send" /\ word \in Words
    BY <1>1, <1>5, ClickFields DEF TranslateWord, Stages, Over
  <2>2. a = meaning[word] /\ a \in Addresses \cup {Nil}
    BY <1>0, <2>1, Translates
  <2> HIDE DEF a
  <2>3. /\ UNCHANGED <<click, todo, key, flash, accounts, ledger, meaning>> /\ Remember(word, a)
        /\ receiver' = [receiver EXCEPT ![c] = a]
        /\ \/ a = Nil /\ at' = [at EXCEPT ![c] = "explaining"]
              /\ blank' = [blank EXCEPT ![c] = TRUE]
           \/ a # Nil /\ at' = [at EXCEPT ![c] = "history"] /\ UNCHANGED blank
    BY <1>5 DEF TranslateWord, Goes, Printed, a
  <2>4. HandlersTyped' /\ Only(c)
    BY <1>0, <2>2, <2>3 DEF HandlersTyped, Only, Running
  <2>5. Staged(c)' /\ Directed(c)' /\ (Unposted(c)' => NothingPosted(c))
    BY <1>0, <1>1, <1>5, <2>1, <2>2, <2>3 DEF TranslateWord, Staged, Stages, Directed,
       Unposted, HandlersTyped
  <2> QED  BY <1>1, <2>1, <2>2, <2>3, <2>4, <2>5, GoesOn
<1>6. CASE BuildFromHistory(c)
  <2>1. /\ HandlersTyped' /\ Only(c) /\ UNCHANGED <<click, todo, receiver, ledger, meaning, cache>>
        /\ \/ at'[c] = "posting" /\ flash'[c] = "none" /\ key'[c] \in Addresses
           \/ at'[c] = "explaining" /\ flash'[c] = "none" /\ click[c].kind = "send"
           \/ at'[c] = "page" /\ flash'[c] = "alert"
    <3>0. KeyOf(c) \in Addresses
      BY <1>1, KeyOfType
    <3> HIDE DEF Addresses
    <3>1. /\ UNCHANGED <<click, todo, receiver, cache, accounts, ledger, meaning>>
          /\ \/ /\ at' = [at EXCEPT ![c] = "posting"] /\ blank' = [blank EXCEPT ![c] = FALSE]
                /\ key' = [key EXCEPT ![c] = KeyOf(c)] /\ UNCHANGED flash
             \/ /\ at' = [at EXCEPT ![c] = "explaining"] /\ blank' = [blank EXCEPT ![c] = TRUE]
                /\ click[c].kind = "send" /\ UNCHANGED <<key, flash>>
             \/ /\ at' = [at EXCEPT ![c] = "page"] /\ blank' = [blank EXCEPT ![c] = TRUE]
                /\ flash' = [flash EXCEPT ![c] = "alert"] /\ UNCHANGED key
      BY <1>6 DEF BuildFromHistory, Printed, Shows, Goes
    <3>2. /\ at' \in [Clicks -> {"idle", "waiting"} \cup Running \cup Over]
          /\ blank' \in [Clicks -> BOOLEAN] /\ key' \in [Clicks -> Addresses \cup {Nil}]
          /\ flash' \in [Clicks -> {"none", "notice", "alert", "unknown", "signin"}]
      <4>1. /\ at \in [Clicks -> {"idle", "waiting"} \cup Running \cup Over]
            /\ blank \in [Clicks -> BOOLEAN] /\ key \in [Clicks -> Addresses \cup {Nil}]
            /\ flash \in [Clicks -> {"none", "notice", "alert", "unknown", "signin"}]
        BY <1>0 DEF HandlersTyped
      <4>2. {"posting", "explaining", "page"} \subseteq Running \cup Over
        BY DEF Running, Over
      <4>3. at' \in [Clicks -> {"idle", "waiting"} \cup Running \cup Over]
        BY <3>1, <4>1, <4>2
      <4>4. key' \in [Clicks -> Addresses \cup {Nil}]
        BY <3>0, <3>1, <4>1
      <4> QED  BY <3>1, <4>1, <4>3, <4>4
    <3>3. HandlersTyped'
      BY <1>0, <3>1, <3>2 DEF HandlersTyped
    <3>4. Only(c)
      BY <3>1, <1>0 DEF Only, HandlersTyped
    <3> QED  BY <1>0, <1>1, <3>0, <3>1, <3>3, <3>4 DEF HandlersTyped
  <2>2. at[c] = "history" /\ click[c].kind # "create"
    BY <1>1, <1>6 DEF BuildFromHistory, Stages, Over
  <2>3. Staged(c)' /\ Directed(c)' /\ (Unposted(c)' => NothingPosted(c))
    BY <1>0, <1>1, <2>1, <2>2 DEF Staged, Stages, Directed, Unposted, Over
  <2> QED  BY <1>1, <2>1, <2>3, GoesOn
<1>7. CASE Answer(c)
  <2>1. at[c] = "posted"
    BY <1>7 DEF Answer
  <2>2. CASE click[c].kind = "create"
    <3>1. todo[c] \in 1 .. MaxAmount /\ todo[c] - 1 \in 0 .. MaxAmount
      BY <1>0, <2>1, <2>2, MerchantAssumption DEF Staged, HandlersTyped
    <3>2. /\ at' = [at EXCEPT ![c] = "building"] /\ todo' = [todo EXCEPT ![c] = todo[c] - 1]
          /\ UNCHANGED <<click, blank, key, receiver, flash, cache, accounts, ledger, meaning>>
      BY <1>7, <2>2 DEF Answer, Goes
    <3>3. HandlersTyped' /\ Only(c)
      BY <1>0, <3>1, <3>2 DEF HandlersTyped, Only, Running
    <3>4. Staged(c)' /\ Directed(c)' /\ ~Unposted(c)'
      BY <1>0, <1>1, <2>2, <3>2 DEF Staged, Stages, Directed, Unposted, HandlersTyped
    <3> QED  BY <1>1, <3>2, <3>3, <3>4, GoesOn
  <2>3. CASE click[c].kind # "create"
    <3>1. /\ HandlersTyped' /\ Only(c) /\ UNCHANGED <<click, ledger, meaning, cache>>
          /\ at'[c] = "page" /\ flash'[c] = "notice"
      BY <1>0, <1>7, <2>3 DEF Answer, Shows, Goes, HandlersTyped, Only, Over
    <3>2. Staged(c)' /\ Directed(c)' /\ ~Unposted(c)'
      BY <1>1, <3>1 DEF Staged, Stages, Directed, Unposted, Over
    <3> QED  BY <1>1, <3>1, <3>2, GoesOn
  <2> QED  BY <2>2, <2>3
<1>8. CASE Explain(c)
  <2> DEFINE word == click[c].word
             a    == Translation(word)
  <2>1. at[c] = "explaining" /\ word \in Words
    BY <1>1, <1>8, ClickFields DEF Explain, Stages, Over
  <2>2. a = meaning[word] /\ a \in Addresses \cup {Nil}
    BY <1>0, <2>1, Translates
  <2> HIDE DEF a
  <2>3. /\ UNCHANGED <<click, todo, blank, key, receiver, accounts, ledger, meaning>>
        /\ Remember(word, a)
        /\ at' = [at EXCEPT ![c] = "page"]
        /\ \E what \in {"unknown", "alert"} : flash' = [flash EXCEPT ![c] = what]
    BY <1>8 DEF Explain, Shows, Goes, a
  <2>4. HandlersTyped' /\ Only(c) /\ at'[c] = "page"
    BY <1>0, <2>3 DEF HandlersTyped, Only, Over
  <2>5. NothingPosted(c)
    BY <1>0, <2>1 DEF Unposted
  <2>6. Staged(c)' /\ Directed(c)'
    BY <1>1, <2>3, <2>4 DEF Staged, Stages, Directed, Over
  <2> QED  BY <1>1, <2>1, <2>2, <2>3, <2>4, <2>5, <2>6, GoesOn
<1>9. CASE Fail(c)
  <2>1. /\ HandlersTyped' /\ Only(c) /\ UNCHANGED <<click, ledger, meaning, cache>>
        /\ at'[c] = "error" /\ flash'[c] = "none"
    BY <1>0, <1>1, <1>9 DEF Fail, Goes, HandlersTyped, Only, Over
  <2>2. Staged(c)' /\ Directed(c)' /\ ~Unposted(c)'
    BY <1>1, <2>1 DEF Staged, Stages, Directed, Unposted, Over
  <2> QED  BY <1>1, <2>1, <2>2, GoesOn
<1>10. CASE BuildCreation(c) /\ UNCHANGED ledger
  <2>1. todo[c] \in 0 .. MaxAmount /\ at[c] = "building" /\ todo[c] > 0
    BY <1>0, <1>10 DEF BuildCreation, HandlersTyped
  <2>2. todo[c] - 1 \in 0 .. MaxAmount
    BY <2>1, MerchantAssumption
  <2>3. status[<<c, todo[c]>>] = "none" => status'[<<c, todo[c]>>] = "none"
    BY <1>10 DEF ledger
  <2>4. <<c, todo[c]>> \in Orders
    BY <2>1 DEF Orders
  <2>5. /\ UNCHANGED <<click, at, key, receiver, flash, cache, accounts, meaning>>
        /\ todo' = [todo EXCEPT ![c] = todo[c] - 1]
        /\ blank' = [blank EXCEPT ![c] = TRUE]
    BY <1>10, <2>3, <2>4 DEF BuildCreation, Ledger!Asked, Printed, MerchantInv, LedgerTyped
  <2>6. HandlersTyped' /\ Only(c)
    BY <1>0, <2>2, <2>5 DEF HandlersTyped, Only
  <2>7. Staged(c)' /\ Directed(c)' /\ ~Unposted(c)'
    BY <1>0, <1>1, <2>1, <2>5 DEF Staged, Stages, Directed, Unposted
  <2> QED  BY <1>1, <1>10, <2>5, <2>6, <2>7, GoesOn
<1> QED  BY <1>3, <1>4, <1>5, <1>6, <1>7, <1>8, <1>9, <1>10

\* A handler posts, for its own click.
LEMMA PostStep ==
    ASSUME MerchantInv, NEW c \in Clicks, NEW k \in 1 .. MaxAmount, NEW what \in Ledger!Order,
           Ledger!Asked(<<c, k>>, what), at[c] \in Running,
           click[c].kind = "send" => k = 1 /\ what.to = meaning[click[c].word],
           click[c].kind = "create" => todo[c] # 0 /\ what.coupon.back = click[c].back,
           "posted" \in Stages(click[c].kind),
           at' = [at EXCEPT ![c] = "posted"], blank' \in [Clicks -> BOOLEAN],
           UNCHANGED <<click, todo, key, receiver, flash, cache, accounts, meaning>>
    PROVE  MerchantInv'
<1>0. ClickInv(c) /\ HandlersTyped /\ LedgerTyped /\ <<c, k>> \in Orders
  BY DEF MerchantInv, Orders
<1>1. HandlersTyped'
  BY <1>0 DEF HandlersTyped, Running
<1>2. /\ order' = [order EXCEPT ![<<c, k>>] = what]
      /\ status' = [status EXCEPT ![<<c, k>>] = "placed"]
  BY DEF Ledger!Asked
<1>3. at'[c] = "posted" /\ at[c] \notin {"idle", "page"}
  BY <1>0 DEF HandlersTyped, Running
<1>4. click[c] \in Click /\ flash[c] = "none"
  BY <1>0, <1>3 DEF ClickInv, Staged, HandlersTyped
<1>5. Staged(c)' /\ Directed(c)' /\ ~Unposted(c)'
  BY <1>3, <1>4 DEF Staged, Directed, Unposted
<1>6. ASSUME NEW o \in Orders, o # <<c, k>>
      PROVE  order'[o] = order[o] /\ status'[o] = status[o]
  BY <1>0, <1>2, <1>6 DEF LedgerTyped
<1>7. order'[<<c, k>>] = what
  BY <1>0, <1>2 DEF LedgerTyped
<1>8. Sent(c)'
  BY <1>7 DEF Sent
<1>9. LeadsBack(c)'
  BY <1>0, <1>3, <1>6, <1>7, OrdersOf DEF ClickInv, LeadsBack
<1>10. ClickInv(c)'
  BY <1>5, <1>8, <1>9 DEF ClickInv
<1>11. ASSUME NEW d \in Clicks \ {c} PROVE Same(d)
  <2>1. \A n \in 1 .. MaxAmount : status'[<<d, n>>] = status[<<d, n>>]
    BY <1>6, OrdersOf
  <2>2. at'[d] = at[d]
    BY <1>0 DEF HandlersTyped
  <2> QED  BY <2>1, <2>2 DEF Same
<1>12. Posts
  BY <1>0 DEF Posts
<1>13. \A d \in Clicks : Same(d) \/ ClickInv(d)'
  BY <1>10, <1>11
<1> QED  BY <1>1, <1>12, <1>13, StepInv

LEMMA PostSteps ==
    ASSUME MerchantInv, NEW c \in Clicks, BuildCreation(c) \/ PostSpend(c)
    PROVE  MerchantInv'
<1>0. /\ ClickInv(c) /\ HandlersTyped /\ Staged(c) /\ Directed(c)
  BY DEF MerchantInv, ClickInv
<1>1. at[c] \in Running /\ click[c] \in Click /\ at[c] \in Stages(click[c].kind)
  BY <1>0 DEF BuildCreation, PostSpend, Staged, Running
<1>3. ASSUME BuildCreation(c), ~UNCHANGED ledger PROVE MerchantInv'
  <2> DEFINE own    == KeyOf(c)
             coupon == [creator |-> own, title |-> click[c].title, back |-> click[c].back]
             what   == [kind |-> "issue", coupon |-> coupon, from |-> own, to |-> own]
  <2>1. at[c] = "building" /\ todo[c] \in 1 .. MaxAmount
    BY <1>0, <1>3 DEF BuildCreation, HandlersTyped
  <2>2. click[c].kind = "create"
    BY <1>1, <2>1, ClickFields DEF Stages, Over
  <2>3. own \in (Users \X {"create"}) \cup {BuiltIn} /\ own \in Addresses
    BY <1>1, <2>2, KeyOfType
  <2>4. coupon \in Coupons
    BY <1>1, <2>2, <2>3, ClickFields DEF Coupons
  <2>5. /\ Ledger!Asked(<<c, todo[c]>>, what)
        /\ at' = [at EXCEPT ![c] = "posted"] /\ blank' = [blank EXCEPT ![c] = FALSE]
        /\ UNCHANGED <<click, todo, key, receiver, flash, cache, accounts, meaning>>
    BY <1>3 DEF BuildCreation, Goes, Printed
  <2>6. what \in Ledger!Order /\ what.coupon.back = click[c].back
    BY <2>3, <2>4 DEF Ledger!Order
  <2>7. "posted" \in Stages(click[c].kind)
    BY <2>2 DEF Stages
  <2>8. blank' \in [Clicks -> BOOLEAN] /\ todo[c] # 0
    BY <1>0, <2>1, <2>5 DEF HandlersTyped
  <2> HIDE DEF what
  <2> QED  BY <1>1, <2>1, <2>2, <2>5, <2>6, <2>7, <2>8, PostStep
<1>4. CASE PostSpend(c)
  <2> DEFINE to   == IF click[c].kind = "send" THEN receiver[c] ELSE key[c]
             what == [kind   |-> IF click[c].kind = "send" THEN "transfer" ELSE "redeem",
                      coupon |-> click[c].coupon, from |-> key[c], to |-> to]
  <2>1. at[c] = "posting" /\ click[c].kind \in {"send", "delete"}
    BY <1>1, <1>4, ClickFields DEF PostSpend, Stages, Over
  <2>2. key[c] \in Addresses /\ click[c].coupon \in Coupons
    BY <1>0, <1>1, <2>1, ClickFields DEF Staged
  <2>3. to \in Addresses
    BY <1>0, <2>1, <2>2 DEF Directed
  <2>4. what \in Ledger!Order
    BY <2>2, <2>3 DEF Ledger!Order
  <2>5. click[c].kind = "send" => what.to = meaning[click[c].word]
    BY <1>0, <2>1 DEF Directed
  <2>6. /\ Ledger!Asked(<<c, 1>>, what) /\ at' = [at EXCEPT ![c] = "posted"]
        /\ UNCHANGED <<click, todo, blank, key, receiver, flash, cache, accounts, meaning>>
    BY <1>4 DEF PostSpend, Goes
  <2>7. "posted" \in Stages(click[c].kind)
    BY <2>1 DEF Stages
  <2>8. 1 \in 1 .. MaxAmount /\ blank' \in [Clicks -> BOOLEAN]
    BY <1>0, <2>6, MerchantAssumption DEF HandlersTyped
  <2> HIDE DEF what, to
  <2> QED  BY <1>1, <2>1, <2>4, <2>5, <2>6, <2>7, <2>8, PostStep
<1> QED  BY <1>3, <1>4, QuietSteps

-----------------------------------------------------------------------------
(* Everybody else's actions *)

\* Steps of nobody's handler that place no order.
LEMMA OutsideStep ==
    ASSUME MerchantInv, UNCHANGED handlers, accounts' \subseteq accounts,
           Assigns \/ UNCHANGED meaning,
           Moves \/ UNCHANGED ledger,
           \/ UNCHANGED cache
           \/ \E word \in Words, a \in Addresses \cup {Nil} :
                 Remember(word, a) /\ (a # Nil => meaning'[word] = a)
    PROVE  MerchantInv'
<1>1. HandlersTyped'
  BY DEF MerchantInv, HandlersTyped, handlers
<1>2. \A o \in Orders : status'[o] = "none" <=> status[o] = "none"
  BY LedgerStep DEF MerchantInv, ledger
<1>3. \A c \in Clicks : Same(c)
  BY <1>2, OrdersOf DEF Same, handlers
<1> QED  BY <1>1, <1>3, StepInv

LEMMA OutsideSteps ==
    ASSUME MerchantInv,
           \/ \E a \in Addresses : NameAddress(a)
           \/ \E user \in Users : DeleteAccount(user)
           \/ \E word \in Words, a \in Mobiles : Register(word, a)
           \/ \E o \in Orders : Judge(o) \/ Conclude(o)
           \/ UNCHANGED vars
    PROVE  MerchantInv'
<1>1. ASSUME NEW a \in Addresses, NameAddress(a) PROVE MerchantInv'
  <2>1. PICK word \in Words :
           /\ \/ meaning[word] = a /\ UNCHANGED meaning
              \/ (\A w \in Words : meaning[w] # a) /\ Book!Assign(word, a)
           /\ Remember(word, a)
    BY <1>1 DEF NameAddress
  <2>2. meaning'[word] = a
    BY <2>1 DEF MerchantInv, DirectoryTyped, Book!Assign
  <2>3. UNCHANGED <<handlers, accounts, ledger>>
    BY <1>1 DEF NameAddress
  <2>4. Assigns \/ UNCHANGED meaning
    BY <2>1 DEF Assigns
  <2> QED  BY <2>1, <2>2, <2>3, <2>4, OutsideStep
<1>2. ASSUME NEW word \in Words, NEW a \in Mobiles, Register(word, a) PROVE MerchantInv'
  BY <1>2, OutsideStep DEF Register, Assigns, Addresses
<1>3. ASSUME NEW o \in Orders, Judge(o) \/ Conclude(o) PROVE MerchantInv'
  BY <1>3, OutsideStep DEF Judge, Conclude, Moves
<1>4. ASSUME UNCHANGED vars PROVE MerchantInv'
  BY <1>4, OutsideStep DEF vars
<1>5. ASSUME NEW user \in Users, DeleteAccount(user) PROVE MerchantInv'
  BY <1>5, OutsideStep DEF DeleteAccount
<1> QED  BY <1>1, <1>2, <1>3, <1>4, <1>5

LEMMA MobileStep ==
    ASSUME MerchantInv, NEW o \in MobileOrders, MobileOrder(o) PROVE MerchantInv'
<1>1. PICK coupon \in Coupons, from \in Mobiles, to \in Addresses :
          /\ InHistory(coupon, from)
          /\ Ledger!Asked(o, [kind |-> "transfer", coupon |-> coupon, from |-> from, to |-> to])
  BY DEF MobileOrder
<1> DEFINE what == [kind |-> "transfer", coupon |-> coupon, from |-> from, to |-> to]
<1>2. from \in Addresses /\ o \in Orders
  BY DEF Addresses, Orders
<1>3. what \in Ledger!Order
  BY <1>2 DEF Ledger!Order
<1> HIDE DEF what
<1>4. Ledger!Asked(o, what)
  BY <1>1 DEF what
<1>5. UNCHANGED <<handlers, cache, accounts, meaning>> /\ HandlersTyped' /\ LedgerTyped
  BY DEF MobileOrder, MerchantInv, HandlersTyped, handlers
<1>6. status' = [status EXCEPT ![o] = "placed"]
  BY <1>4 DEF Ledger!Asked
<1>7. ASSUME NEW c \in Clicks PROVE Same(c)
  <2>1. ASSUME NEW k \in 1 .. MaxAmount PROVE <<c, k>> # o /\ <<c, k>> \in Orders
    <3>1. <<c, k>> \in Clicks \X (1 .. MaxAmount)
      OBVIOUS
    <3> QED  BY <3>1, NamesDiffer, OrdersOf
  <2> QED  BY <1>5, <1>6, <2>1 DEF Same, handlers, LedgerTyped
<1>8. Posts
  BY <1>2, <1>3, <1>4 DEF Posts
<1> QED  BY <1>5, <1>7, <1>8, StepInv

LEMMA MerchantInvariant == Spec => []MerchantInv
<1>1. MerchantInv /\ [Next]_vars => MerchantInv'
  <2> SUFFICES ASSUME MerchantInv, [Next]_vars PROVE MerchantInv'
    OBVIOUS
  <2>1. ASSUME NEW c \in Clicks, Press(c) \/ Handle(c) PROVE MerchantInv'
    BY <2>1, PressStep, QuietSteps, PostSteps DEF Handle
  <2>2. ASSUME NEW o \in MobileOrders, MobileOrder(o) PROVE MerchantInv'
    BY <2>2, MobileStep
  <2>3. ASSUME Terminating PROVE UNCHANGED vars
    BY <2>3 DEF Terminating
  <2> QED  BY <2>1, <2>2, <2>3, OutsideSteps DEF Next
<1> QED  BY <1>1, InitInv, PTL DEF Spec

-----------------------------------------------------------------------------
\* The admin's table, the handlers' locals and what they ask of the backend keep
\* their types.
THEOREM MerchantTypes == Spec => []TypeOK
<1>1. MerchantInv => TypeOK
  BY DEF MerchantInv, LedgerTyped, DirectoryTyped, HandlersTyped, TypeOK
<1> QED  BY <1>1, MerchantInvariant, PTL

\* A coupon sent to a word goes to the address that the word means, however long
\* ago the admin client learnt the word (translate_word, transactions_controller).
THEOREM SendsGoToTheWord == Spec => []SentToTheWord
<1>1. MerchantInv => SentToTheWord
  BY DEF MerchantInv, ClickInv, Sent, SentToTheWord
<1> QED  BY <1>1, MerchantInvariant, PTL

\* The return word in a coupon is the word of the return address of the merchant
\* on whose page it was created, for as long as the coupon is about.
THEOREM ReturnWordsLeadBack == Spec => []ReturnWordLeadsBack
<1>1. MerchantInv => ReturnWordLeadsBack
  BY DEF MerchantInv, ClickInv, LeadsBack, ReturnWordLeadsBack
<1> QED  BY <1>1, MerchantInvariant, PTL

\* A page that says a send or a delete failed is right: nothing was posted, and
\* nothing is going to be.
THEOREM AlertsAreTrue == Spec => []AlertMeansNothingTaken
<1>1. MerchantInv => AlertMeansNothingTaken
  BY FirstIsOne DEF MerchantInv, ClickInv, Unposted, NothingPosted, AlertMeansNothingTaken
<1> QED  BY <1>1, MerchantInvariant, PTL

-----------------------------------------------------------------------------
(* With which key *)

\* A handler that runs runs for an account that is there, and signs with its keys.
Own(c) ==
    /\ at[c] \in Running => click[c].user \in accounts
    /\ at[c] = "posting" => key[c] \in {click[c].user} \X Keys
    /\ at[c] # "idle" =>
          \A k \in 1 .. MaxAmount :
              status[<<c, k>>] # "none" => order[<<c, k>>].from \in {click[c].user} \X Keys

\* Nothing this click has to do with changes.
OwnKept(c) ==
    /\ click'[c] = click[c] /\ at'[c] = at[c] /\ key'[c] = key[c]
    /\ at[c] \in Running => click[c].user \in accounts'
    /\ \A k \in 1 .. MaxAmount :
          /\ status[<<c, k>>] = "none" => status'[<<c, k>>] = "none"
          /\ status[<<c, k>>] # "none" => order'[<<c, k>>] = order[<<c, k>>]

LEMMA OwnStays == ASSUME NEW c \in Clicks, Own(c), OwnKept(c) PROVE Own(c)'
  BY DEF Own, OwnKept

\* While a handler runs, no account is deleted: it would have to run beside it.
LEMMA NobodyBusy ==
    ASSUME Capacity = 1, Cardinality(Busy) < Capacity, NEW c \in Clicks
    PROVE  at[c] \notin Running
<1>1. IsFiniteSet(Busy)
  BY MerchantAssumption, FS_Subset DEF Busy
<1>2. Cardinality(Busy) \in Nat
  BY <1>1, FS_CardinalityType
<1>3. Busy = {}
  BY <1>1, <1>2, FS_EmptySet
<1> QED  BY <1>3 DEF Busy

\* A handler signs with the key of the one who clicked.
LEMMA OwnHandler ==
    ASSUME MerchantInv, NEW c \in Clicks, Own(c), Handle(c)
    PROVE  Own(c)' /\ \A d \in Clicks \ {c} : Own(d) => OwnKept(d)
<1>0. ClickInv(c) /\ Staged(c) /\ HandlersTyped /\ LedgerTyped
  BY DEF MerchantInv, ClickInv
<1>1. UNCHANGED <<click, accounts>>
  BY DEF Handle, Start, BuildCreation, EndCreate, TranslateWord, BuildFromHistory,
         PostSpend, Explain, Answer, Fail
<1>2. at[c] \in Running \cup {"waiting"} /\ at[c] # "idle" /\ click[c] \in Click
  <2>1. at[c] \in Running \cup {"waiting"}
    BY DEF Handle, Start, BuildCreation, EndCreate, TranslateWord, BuildFromHistory,
           PostSpend, Explain, Answer, Fail, Running
  <2> QED  BY <1>0, <2>1 DEF Staged, Running
<1>3. \E where \in Running \cup Over \cup {"waiting"} :
         /\ at' = [at EXCEPT ![c] = where]
         /\ where \in Running => click[c].user \in accounts
  <2>1. at' = at => at' = [at EXCEPT ![c] = at[c]]
    BY <1>0 DEF HandlersTyped
  <2>2. at' = at \/ \E where \in Running \cup Over : Goes(c, where)
    BY <1>2, ClickFields DEF Handle, Start, BuildCreation, EndCreate, TranslateWord,
       BuildFromHistory, PostSpend, Explain, Answer, Fail, Shows, Running, Over
  <2>3. Start(c) => click[c].user \in accounts \/ at' = [at EXCEPT ![c] = "page"]
    BY DEF Start, Shows, Goes
  <2>4. ~Start(c) => at[c] \in Running
    BY DEF Handle, BuildCreation, EndCreate, TranslateWord, BuildFromHistory,
           PostSpend, Explain, Answer, Fail, Running
  <2>5. CASE click[c].user \in accounts
    BY <1>2, <2>1, <2>2, <2>5 DEF Goes
  <2>6. CASE click[c].user \notin accounts
    BY <1>0, <2>3, <2>4, <2>6 DEF Own, Over, Running
  <2> QED  BY <2>5, <2>6
<1>4. PICK where \in Running \cup Over \cup {"waiting"} :
         /\ at' = [at EXCEPT ![c] = where]
         /\ where \in Running => click[c].user \in accounts
  BY <1>3
<1>5. at'[c] = where /\ \A d \in Clicks \ {c} : at'[d] = at[d]
  BY <1>0, <1>4 DEF HandlersTyped
<1>6. CASE BuildFromHistory(c)
  <2>1. /\ UNCHANGED ledger /\ at[c] \in Running
        /\ \/ key' = key /\ at'[c] # "posting"
           \/ key' = [key EXCEPT ![c] = KeyOf(c)]
    <3>1. UNCHANGED ledger /\ at[c] \in Running
      BY <1>6 DEF BuildFromHistory, Running
    <3>2. \/ key' = [key EXCEPT ![c] = KeyOf(c)]
          \/ key' = key /\ \E w \in {"explaining", "page"} : at' = [at EXCEPT ![c] = w]
      BY <1>6 DEF BuildFromHistory, Shows, Goes
    <3>3. \A w : at' = [at EXCEPT ![c] = w] => at'[c] = w
      BY <1>0 DEF HandlersTyped
    <3> QED  BY <3>1, <3>2, <3>3
  <2>2. KeyOf(c) \in {click[c].user} \X Keys
    BY <1>2, <2>1, KeyOfType DEF Own
  <2>3. /\ at'[c] = "posting" => key'[c] \in {click[c].user} \X Keys
        /\ \A d \in Clicks \ {c} : key'[d] = key[d]
    BY <1>0, <1>4, <1>5, <2>1, <2>2 DEF HandlersTyped
  <2> QED  BY <1>1, <1>2, <1>4, <1>5, <2>1, <2>3 DEF Own, OwnKept, ledger
<1> DEFINE Posting == PostSpend(c) \/ (BuildCreation(c) /\ ~UNCHANGED ledger)
<1>7. CASE Posting
  <2>0. \E k \in 1 .. MaxAmount : \E what :
           Ledger!Asked(<<c, k>>, what) /\ what.from \in {click[c].user} \X Keys
    <3>1. CASE PostSpend(c)
      BY <3>1, FirstIsOne DEF PostSpend, Own
    <3>2. CASE BuildCreation(c) /\ ~UNCHANGED ledger
      <4>1. todo[c] \in 1 .. MaxAmount /\ at[c] \in Running
        BY <1>0, <3>2 DEF BuildCreation, HandlersTyped, Running
      <4>2. KeyOf(c) \in {click[c].user} \X Keys
        BY <1>2, <4>1, KeyOfType DEF Own
      <4>3. \E coupon : Ledger!Asked(<<c, todo[c]>>, [kind |-> "issue", coupon |-> coupon,
                                                      from |-> KeyOf(c), to |-> KeyOf(c)])
        BY <3>2 DEF BuildCreation
      <4> QED  BY <4>1, <4>2, <4>3
    <3> QED  BY <1>7, <3>1, <3>2
  <2>1. PICK k \in 1 .. MaxAmount : \E what :
           Ledger!Asked(<<c, k>>, what) /\ what.from \in {click[c].user} \X Keys
    BY <2>0
  <2> DEFINE what == order'[<<c, k>>]
  <2>2. where = "posted" /\ key' = key
    BY <1>0, <1>5, <1>7 DEF PostSpend, BuildCreation, Goes, HandlersTyped
  <2>3. /\ \A o \in Orders : o # <<c, k>> => order'[o] = order[o] /\ status'[o] = status[o]
        /\ what.from \in {click[c].user} \X Keys
    BY <1>0, <2>1, OrdersOf DEF Ledger!Asked, LedgerTyped
  <2>4. Own(c)'
    BY <1>1, <1>2, <1>4, <1>5, <2>2, <2>3, OrdersOf DEF Own
  <2>5. ASSUME NEW d \in Clicks \ {c}
        PROVE  Own(d) => OwnKept(d)
    BY <1>1, <1>5, <2>2, <2>3, OrdersOf DEF Own, OwnKept
  <2> QED  BY <2>4, <2>5
<1>8. CASE ~BuildFromHistory(c) /\ ~Posting
  <2>0. \/ Start(c) \/ EndCreate(c) \/ TranslateWord(c) \/ Explain(c) \/ Answer(c) \/ Fail(c)
        \/ BuildCreation(c) /\ UNCHANGED ledger
    BY <1>8 DEF Handle
  <2>1. UNCHANGED <<key, ledger>>
    BY <2>0 DEF Start, BuildCreation, EndCreate, TranslateWord, Explain, Answer, Fail
  <2>2. where # "posting"
    <3>1. \A w : at' = [at EXCEPT ![c] = w] => where = w
      BY <1>0, <1>4 DEF HandlersTyped
    <3>2. BuildCreation(c) /\ UNCHANGED ledger => where # "posting"
      <4>1. BuildCreation(c) => at[c] = "building" /\ (at' = at \/ Goes(c, "posted"))
        BY DEF BuildCreation
      <4> QED  BY <1>0, <1>4, <3>1, <4>1 DEF Goes, HandlersTyped
    <3>3. Start(c) => where # "posting"
      BY <1>2, <3>1, ClickFields DEF Start, Shows, Goes
    <3> QED  BY <2>0, <3>1, <3>2, <3>3 DEF EndCreate, TranslateWord, Explain, Answer, Fail,
             Shows, Goes
  <2>3. Own(c)'
    BY <1>1, <1>2, <1>4, <1>5, <2>1, <2>2 DEF Own, ledger
  <2>4. \A d \in Clicks \ {c} : Own(d) => OwnKept(d)
    BY <1>1, <1>5, <2>1 DEF Own, OwnKept, ledger
  <2> QED  BY <2>3, <2>4
<1> HIDE DEF Posting
<1> QED  BY <1>6, <1>7, <1>8

\* What the admin client asks of the ledger for a click is signed by the merchant
\* who clicked.  One handler at a time is assumed: with more, the account could be
\* deleted between two looks at it, and the built-in key would sign.
THEOREM MerchantSigns ==
    ASSUME Capacity = 1
    PROVE  Spec => []SignedByTheMerchant
<1>1. Init => \A c \in Clicks : Own(c)
  BY DEF Init, Own, Running
<1>2. MerchantInv /\ (\A c \in Clicks : Own(c)) /\ [Next]_vars => (\A c \in Clicks : Own(c))'
  <2> SUFFICES ASSUME MerchantInv, \A c \in Clicks : Own(c), [Next]_vars
               PROVE  \A c \in Clicks : Own(c)'
    OBVIOUS
  <2>0. HandlersTyped /\ LedgerTyped
    BY DEF MerchantInv
  <2>1. ASSUME UNCHANGED <<click, at, key>>, Moves \/ UNCHANGED ledger,
               \/ UNCHANGED accounts
               \/ \A c \in Clicks : at[c] \notin Running
        PROVE  \A c \in Clicks : Own(c)'
    <3>1. ASSUME NEW c \in Clicks PROVE OwnKept(c)
      <4>1. \A k \in 1 .. MaxAmount :
               /\ status[<<c, k>>] = "none" => status'[<<c, k>>] = "none"
               /\ status[<<c, k>>] # "none" => order'[<<c, k>>] = order[<<c, k>>]
        BY <2>0, <2>1, LedgerStep, OrdersOf DEF ledger
      <4> QED  BY <2>1, <4>1 DEF OwnKept, Own
    <3> QED  BY <3>1, OwnStays
  <2>2. ASSUME NEW c \in Clicks, Handle(c) PROVE \A d \in Clicks : Own(d)'
    BY <2>2, OwnHandler, OwnStays DEF Own
  <2>3. ASSUME NEW c \in Clicks, Press(c) PROVE \A d \in Clicks : Own(d)'
    <3>1. /\ at[c] = "idle" /\ at' = [at EXCEPT ![c] = "waiting"]
          /\ \E what : click' = [click EXCEPT ![c] = what]
          /\ UNCHANGED <<key, accounts, ledger>>
      BY <2>3 DEF Press
    <3>2. NothingPosted(c)
      BY <3>1 DEF MerchantInv, ClickInv, Unposted
    <3>3. Own(c)'
      BY <2>0, <3>1, <3>2 DEF Own, HandlersTyped, Running, NothingPosted, ledger
    <3>4. \A d \in Clicks \ {c} : OwnKept(d)
      BY <2>0, <3>1 DEF OwnKept, Own, HandlersTyped, ledger
    <3> QED  BY <3>3, <3>4, OwnStays
  <2>4. ASSUME NEW o \in MobileOrders, MobileOrder(o) PROVE \A d \in Clicks : Own(d)'
    <3>1. /\ UNCHANGED <<click, at, key, accounts>> /\ o \in Orders
          /\ \A p \in Orders : p # o => status'[p] = status[p] /\ order'[p] = order[p]
      BY <2>0, <2>4 DEF MobileOrder, handlers, Ledger!Asked, LedgerTyped, Orders
    <3>2. ASSUME NEW c \in Clicks PROVE OwnKept(c)
      <4>1. ASSUME NEW k \in 1 .. MaxAmount PROVE <<c, k>> # o /\ <<c, k>> \in Orders
        <5>1. <<c, k>> \in Clicks \X (1 .. MaxAmount)
          OBVIOUS
        <5> QED  BY <5>1, NamesDiffer, OrdersOf
      <4> QED  BY <3>1, <4>1 DEF OwnKept, Own
    <3> QED  BY <3>2, OwnStays
  <2>5. ASSUME NEW user \in Users, DeleteAccount(user) PROVE \A d \in Clicks : Own(d)'
    BY <2>1, <2>5, NobodyBusy DEF DeleteAccount, handlers, ledger
  <2>6. ASSUME NEW o \in Orders, Judge(o) \/ Conclude(o) PROVE \A d \in Clicks : Own(d)'
    BY <2>1, <2>6 DEF Judge, Conclude, Moves, handlers
  <2>7. ASSUME \/ \E a \in Addresses : NameAddress(a)
               \/ \E word \in Words, a \in Mobiles : Register(word, a)
               \/ Terminating \/ UNCHANGED vars
        PROVE  \A d \in Clicks : Own(d)'
    BY <2>1, <2>7 DEF NameAddress, Register, Terminating, vars, handlers, ledger
  <2> QED  BY <2>2, <2>3, <2>4, <2>5, <2>6, <2>7 DEF Next
<1>3. (\A c \in Clicks : Own(c)) => SignedByTheMerchant
  BY DEF Own, SignedByTheMerchant
<1> QED  BY <1>1, <1>2, <1>3, MerchantInvariant, PTL DEF Spec

-----------------------------------------------------------------------------
(* What is in doubt *)

\* The request a handler posted last.
LastPosted(c) == IF click[c].kind = "create" THEN todo[c] ELSE 1

\* Only a handler that waits for an answer, or did when it failed, has a request
\* that is not decided, and it is the one it posted last.
InDoubt(c) ==
    /\ at[c] \notin {"posted", "error"} => Open(c) = {}
    /\ at[c] = "posted" => Open(c) \subseteq {LastPosted(c)}
    /\ \A j, k \in Open(c) : j = k

LEMMA OpenIs ==
    \A c \in Clicks : \A k :
        k \in Open(c) <=> k \in 1 .. MaxAmount /\ status[<<c, k>>] \in {"placed", "executed"}
  BY DEF Open

LEMMA OpenIsNext ==
    \A c \in Clicks : \A k :
        k \in Open(c)' <=> k \in 1 .. MaxAmount /\ status'[<<c, k>>] \in {"placed", "executed"}
  BY DEF Open

\* What the ledger decides or finishes was in doubt before.
LEMMA MovesDecide ==
    ASSUME LedgerTyped, Moves, NEW c \in Clicks PROVE Open(c)' \subseteq Open(c)
<1>1. PICK o \in Orders : Ledger!Decide(o) \/ Ledger!Finish(o)
  BY DEF Moves
<1>2. /\ status[o] \in {"placed", "executed"}
      /\ \E s : status' = [status EXCEPT ![o] = s]
  BY <1>1 DEF Ledger!Decide, Ledger!Finish, Ledger!Issue, Ledger!Transfer, Ledger!Redeem,
     Ledger!Drop, Ledger!Cut, Ledger!Settle, Ledger!Lose, Ledger!Asks, Ledger!Becomes
<1>3. \A p \in Orders : p # o => status'[p] = status[p]
  BY <1>2 DEF LedgerTyped
<1>4. ASSUME NEW k \in Open(c)' PROVE k \in Open(c)
  <2>1. /\ k \in 1 .. MaxAmount /\ <<c, k>> \in Orders
        /\ status'[<<c, k>>] \in {"placed", "executed"}
    BY <1>4, OpenIsNext, OrdersOf
  <2>2. status[<<c, k>>] \in {"placed", "executed"}
    BY <1>2, <1>3, <2>1
  <2> QED  BY <2>1, <2>2, OpenIs
<1> QED  BY <1>4

\* A request that is posted is the only one of its click that may come to be in doubt.
LEMMA AskedOpens ==
    ASSUME LedgerTyped, NEW o \in Orders, NEW what, Ledger!Asked(o, what)
    PROVE  \A c \in Clicks : \A k \in Open(c)' : k \in Open(c) \/ <<c, k>> = o
<1>1. \A p \in Orders : p # o => status'[p] = status[p]
  BY DEF Ledger!Asked, LedgerTyped
<1> QED  BY <1>1, OpenIs, OpenIsNext, OrdersOf

LEMMA InDoubtStays ==
    ASSUME NEW c \in Clicks, InDoubt(c), click'[c] = click[c], at'[c] = at[c],
           todo'[c] = todo[c], Open(c)' \subseteq Open(c)
    PROVE  InDoubt(c)'
  BY DEF InDoubt, LastPosted

\* The handlers of the other clicks stay where they are.
LEMMA OthersStay ==
    ASSUME MerchantInv, NEW c \in Clicks, Press(c) \/ Handle(c), NEW d \in Clicks \ {c}
    PROVE  click'[d] = click[d] /\ at'[d] = at[d] /\ todo'[d] = todo[d]
<1>0. HandlersTyped /\ ClickInv(c)
  BY DEF MerchantInv
<1>1. ASSUME Press(c) PROVE click'[d] = click[d] /\ at'[d] = at[d] /\ todo'[d] = todo[d]
  BY <1>0, <1>1 DEF Press, HandlersTyped
<1>2. ASSUME Handle(c)
      PROVE  /\ click' = click
             /\ at' = at \/ \E where : at' = [at EXCEPT ![c] = where]
             /\ todo' = todo \/ \E n : todo' = [todo EXCEPT ![c] = n]
  <2>1. CASE Start(c)
    <3>1. at[c] = "waiting" /\ click' = click
      BY <2>1 DEF Start
    <3>2. CASE click[c].user \notin accounts
      BY <2>1, <3>1, <3>2 DEF Start, Shows, Goes
    <3>3. CASE click[c].user \in accounts
      <4>1. /\ click[c].kind = "create" =>
                   Goes(c, "building") /\ todo' = [todo EXCEPT ![c] = CreateAmount(c)]
            /\ click[c].kind = "send" => Goes(c, "translating") /\ UNCHANGED todo
            /\ click[c].kind = "delete" => Goes(c, "history") /\ UNCHANGED todo
        BY <2>1, <3>3 DEF Start
      <4>2. click[c].kind \in {"create", "send", "delete"}
        BY <1>0, <3>1, ClickFields DEF ClickInv, Staged
      <4> QED  BY <3>1, <4>1, <4>2 DEF Goes
    <3> QED  BY <3>2, <3>3
  <2>2. CASE BuildCreation(c) \/ EndCreate(c) \/ Answer(c)
    BY <2>2 DEF BuildCreation, EndCreate, Answer, Shows, Goes
  <2>3. CASE TranslateWord(c) \/ BuildFromHistory(c) \/ PostSpend(c) \/ Explain(c) \/ Fail(c)
    BY <2>3 DEF TranslateWord, BuildFromHistory, PostSpend, Explain, Fail, Shows, Goes
  <2> QED  BY <1>2, <2>1, <2>2, <2>3 DEF Handle
<1> QED  BY <1>0, <1>1, <1>2 DEF HandlersTyped

\* A handler that still has to post, or to go on, has nothing in doubt.
LEMMA DoubtHandler ==
    ASSUME MerchantInv, NEW c \in Clicks, InDoubt(c), Press(c) \/ Handle(c)
    PROVE  InDoubt(c)'
<1>0. HandlersTyped /\ LedgerTyped /\ ClickInv(c)
  BY DEF MerchantInv
<1>1. ASSUME UNCHANGED ledger PROVE Open(c)' = Open(c)
  BY <1>1 DEF Open, ledger
<1>2. CASE Answer(c)
  <2>1. /\ at[c] = "posted" /\ LastPosted(c) \notin Open(c) /\ UNCHANGED ledger
        /\ \E where : at' = [at EXCEPT ![c] = where] /\ where \notin {"posted", "error"}
    BY <1>2, OpenIs DEF Answer, LastPosted, Shows, Goes
  <2>2. Open(c) = {}
    BY <2>1 DEF InDoubt
  <2>3. at'[c] \notin {"posted", "error"}
    BY <1>0, <2>1 DEF HandlersTyped
  <2> QED  BY <1>1, <2>1, <2>2, <2>3 DEF InDoubt
<1>3. CASE Fail(c)
  <2>1. UNCHANGED ledger /\ at'[c] = "error"
    BY <1>0, <1>3 DEF Fail, Goes, HandlersTyped
  <2> QED  BY <1>1, <2>1 DEF InDoubt
<1>4. CASE PostSpend(c) \/ (BuildCreation(c) /\ ~UNCHANGED ledger)
  <2>1. /\ at[c] \in {"building", "posting"} /\ at'[c] = "posted"
        /\ click' = click /\ todo' = todo
    BY <1>0, <1>4 DEF PostSpend, BuildCreation, Goes, HandlersTyped
  <2>2. click[c] \in Click /\ at[c] \in Stages(click[c].kind)
    BY <1>0, <2>1 DEF ClickInv, Staged
  <2>3. /\ PostSpend(c) => at[c] = "posting"
        /\ BuildCreation(c) => at[c] = "building" /\ todo[c] > 0
    BY DEF PostSpend, BuildCreation
  <2>4. /\ PostSpend(c) => click[c].kind # "create"
        /\ BuildCreation(c) => click[c].kind = "create"
    BY <2>2, <2>3, ClickFields DEF Stages, Over
  <2>5. LastPosted(c) \in 1 .. MaxAmount
    BY <1>0, <1>4, <2>3, <2>4, FirstIsOne DEF LastPosted, HandlersTyped
  <2>6. <<c, LastPosted(c)>> \in Orders /\ \E what : Ledger!Asked(<<c, LastPosted(c)>>, what)
    <3>1. \E what : Ledger!Asked(<<c, LastPosted(c)>>, what)
      BY <1>4, <2>4 DEF PostSpend, BuildCreation, LastPosted
    <3> QED  BY <2>5, <3>1, OrdersOf
  <2>7. Open(c) = {}
    BY <2>1 DEF InDoubt
  <2>8. Open(c)' \subseteq {LastPosted(c)}
    <3>1. \A k \in Open(c)' : <<c, k>> = <<c, LastPosted(c)>>
      BY <1>0, <2>6, <2>7, AskedOpens
    <3> QED  BY <3>1
  <2> QED  BY <2>1, <2>8 DEF InDoubt, LastPosted
<1>5. CASE Press(c) \/ Start(c) \/ EndCreate(c) \/ TranslateWord(c) \/ BuildFromHistory(c)
           \/ Explain(c) \/ (BuildCreation(c) /\ UNCHANGED ledger)
  <2>1. UNCHANGED ledger
    BY <1>5 DEF Press, Start, EndCreate, TranslateWord, BuildFromHistory, Explain
  <2>2. at[c] \notin {"posted", "error"}
    BY <1>5 DEF Press, Start, EndCreate, TranslateWord, BuildFromHistory, Explain,
       BuildCreation
  <2>3. Open(c)' = {}
    BY <1>1, <2>1, <2>2 DEF InDoubt
  <2> QED  BY <2>3 DEF InDoubt
<1> QED  BY <1>2, <1>3, <1>4, <1>5 DEF Handle

\* However many handlers run at once and whatever fails: a page that answers a click
\* leaves nothing of it on its way, and an error leaves one request in doubt, the one
\* whose answer did not come.
THEOREM OneInDoubt == Spec => []OneTurnInDoubt
<1>1. Init => \A c \in Clicks : InDoubt(c)
  <2> SUFFICES ASSUME Init, NEW c \in Clicks PROVE InDoubt(c)
    OBVIOUS
  <2>1. at[c] = "idle"
    BY DEF Init
  <2>2. Open(c) = {}
    BY OpenIs, OrdersOf DEF Init, Ledger!Init
  <2> QED  BY <2>1, <2>2 DEF InDoubt
<1>2. MerchantInv /\ (\A c \in Clicks : InDoubt(c)) /\ [Next]_vars
        => (\A c \in Clicks : InDoubt(c))'
  <2> SUFFICES ASSUME MerchantInv, \A c \in Clicks : InDoubt(c), [Next]_vars,
                      NEW c \in Clicks
               PROVE  InDoubt(c)'
    OBVIOUS
  <2>0. HandlersTyped /\ LedgerTyped
    BY DEF MerchantInv
  <2>1. ASSUME UNCHANGED <<click, at, todo>>, Moves \/ UNCHANGED ledger
        PROVE  InDoubt(c)'
    <3>1. Open(c)' \subseteq Open(c)
      <4>1. UNCHANGED ledger => Open(c)' = Open(c)
        BY DEF Open, ledger
      <4> QED  BY <2>0, <2>1, <4>1, MovesDecide
    <3> QED  BY <2>1, <3>1, InDoubtStays
  <2>2. ASSUME NEW d \in Clicks, Press(d) \/ Handle(d) PROVE InDoubt(c)'
    <3>1. CASE c = d
      BY <2>2, <3>1, DoubtHandler
    <3>2. CASE c # d
      <4>1. UNCHANGED ledger => Open(c)' = Open(c)
        BY DEF Open, ledger
      <4>2. \/ UNCHANGED ledger
            \/ \E k \in 1 .. MaxAmount : \E what : Ledger!Asked(<<d, k>>, what)
        <5>1. BuildCreation(d) => todo[d] \in 1 .. MaxAmount
          BY <2>0 DEF BuildCreation, HandlersTyped
        <5>2. BuildCreation(d) => \/ UNCHANGED ledger
                                  \/ \E what : Ledger!Asked(<<d, todo[d]>>, what)
          BY DEF BuildCreation
        <5>3. PostSpend(d) => \E what : Ledger!Asked(<<d, 1>>, what)
          BY DEF PostSpend
        <5>4. BuildCreation(d) \/ PostSpend(d) \/ UNCHANGED ledger
          BY <2>2 DEF Handle, Press, Start, EndCreate, TranslateWord, BuildFromHistory,
             Explain, Answer, Fail
        <5> QED  BY <5>1, <5>2, <5>3, <5>4, FirstIsOne
      <4>3. ASSUME NEW k \in 1 .. MaxAmount, NEW what, Ledger!Asked(<<d, k>>, what)
            PROVE  Open(c)' \subseteq Open(c)
        <5>1. \A j : <<c, j>> # <<d, k>>
          BY <3>2
        <5> QED  BY <2>0, <4>3, <5>1, AskedOpens, OrdersOf
      <4>4. Open(c)' \subseteq Open(c)
        BY <4>1, <4>2, <4>3
      <4> QED  BY <2>2, <3>2, <4>4, OthersStay, InDoubtStays
    <3> QED  BY <3>1, <3>2
  <2>3. ASSUME NEW o \in MobileOrders, MobileOrder(o) PROVE InDoubt(c)'
    <3>1. UNCHANGED <<click, at, todo>> /\ o \in Orders /\ \E what : Ledger!Asked(o, what)
      BY <2>3 DEF MobileOrder, handlers, Orders
    <3>2. Open(c)' \subseteq Open(c)
      <4>1. \A k \in Open(c)' : <<c, k>> \in Clicks \X (1 .. MaxAmount)
        BY OpenIsNext
      <4>2. \A k \in Open(c)' : <<c, k>> # o
        BY <4>1, NamesDiffer
      <4> QED  BY <2>0, <3>1, <4>2, AskedOpens
    <3> QED  BY <3>1, <3>2, InDoubtStays
  <2>4. ASSUME NEW o \in Orders, Judge(o) \/ Conclude(o) PROVE InDoubt(c)'
    BY <2>1, <2>4 DEF Judge, Conclude, Moves, handlers
  <2>5. ASSUME \/ \E a \in Addresses : NameAddress(a)
               \/ \E user \in Users : DeleteAccount(user)
               \/ \E word \in Words, a \in Mobiles : Register(word, a)
               \/ Terminating \/ UNCHANGED vars
        PROVE  InDoubt(c)'
    BY <2>1, <2>5 DEF NameAddress, DeleteAccount, Register, Terminating, vars, handlers, ledger
  <2> QED  BY <2>2, <2>3, <2>4, <2>5 DEF Next
<1>3. (\A c \in Clicks : InDoubt(c)) => OneTurnInDoubt
  BY DEF InDoubt, OneTurnInDoubt
<1> QED  BY <1>1, <1>2, <1>3, MerchantInvariant, PTL DEF Spec

-----------------------------------------------------------------------------
(* The promises *)

Places == \E o \in Orders : \E what : Ledger!Asked(o, what)

\* Only orders touch the ledger.
LEMMA LedgerSteps ==
    ASSUME MerchantInv, [Next]_vars PROVE Places \/ Moves \/ UNCHANGED ledger
<1>1. ASSUME NEW c \in Clicks, BuildCreation(c) PROVE Places \/ UNCHANGED ledger
  <2>1. todo[c] \in 1 .. MaxAmount
    BY <1>1 DEF BuildCreation, MerchantInv, HandlersTyped
  <2>2. <<c, todo[c]>> \in Orders
    BY <2>1 DEF Orders
  <2> QED  BY <1>1, <2>2 DEF BuildCreation, Places
<1>2. ASSUME NEW c \in Clicks, PostSpend(c) PROVE Places
  BY <1>2, OrdersOf DEF PostSpend, Places
<1>3. ASSUME NEW c \in Clicks, Press(c) \/ Handle(c) PROVE Places \/ UNCHANGED ledger
  BY <1>1, <1>2, <1>3 DEF Handle, Press, Start, EndCreate, TranslateWord, BuildFromHistory,
     Explain, Answer, Fail
<1>4. ASSUME NEW o \in MobileOrders, MobileOrder(o) PROVE Places
  BY <1>4 DEF MobileOrder, Places, Orders
<1>5. ASSUME NEW o \in Orders, Judge(o) \/ Conclude(o) PROVE Moves
  BY <1>5 DEF Judge, Conclude, Moves
<1>6. ASSUME \/ \E a \in Addresses : NameAddress(a)
             \/ \E user \in Users : DeleteAccount(user)
             \/ \E word \in Words, a \in Mobiles : Register(word, a)
             \/ Terminating \/ UNCHANGED vars
      PROVE  UNCHANGED ledger
  BY <1>6 DEF NameAddress, DeleteAccount, Register, Terminating, vars
<1> QED  BY <1>3, <1>4, <1>5, <1>6 DEF Next

LEMMA PlacesArePosts ==
    ASSUME LedgerTyped, LedgerTyped', Places PROVE Posts
<1>1. PICK o \in Orders : \E what : Ledger!Asked(o, what)
  BY DEF Places
<1>2. PICK what : Ledger!Asked(o, what)
  BY <1>1
<1>3. order'[o] = what /\ status'[o] = "placed"
  BY <1>2 DEF Ledger!Asked, LedgerTyped
<1>4. what \in Ledger!Order
  BY <1>3 DEF LedgerTyped
<1> QED  BY <1>2, <1>4 DEF Posts

\* Words are given, by the directory's rule, and nothing else happens to them.
LEMMA BookSteps ==
    ASSUME [Next]_vars PROVE Assigns \/ UNCHANGED meaning
<1>1. ASSUME NEW c \in Clicks, Press(c) \/ Handle(c) PROVE UNCHANGED meaning
  BY <1>1 DEF Handle, Press, Start, BuildCreation, EndCreate, TranslateWord, BuildFromHistory,
     PostSpend, Explain, Answer, Fail
<1>2. ASSUME NEW a \in Addresses, NameAddress(a) PROVE Assigns \/ UNCHANGED meaning
  BY <1>2 DEF NameAddress, Assigns
<1>3. ASSUME NEW word \in Words, NEW a \in Mobiles, Register(word, a) PROVE Assigns
  BY <1>3 DEF Register, Assigns, Addresses
<1>4. ASSUME \/ \E user \in Users : DeleteAccount(user)
             \/ \E o \in MobileOrders : MobileOrder(o)
             \/ \E o \in Orders : Judge(o) \/ Conclude(o)
             \/ Terminating \/ UNCHANGED vars
      PROVE  UNCHANGED meaning
  BY <1>4 DEF DeleteAccount, MobileOrder, Judge, Conclude, Terminating, vars
<1> QED  BY <1>1, <1>2, <1>3, <1>4 DEF Next

\* The clicks, with any call failing and any account deleted, use the ledger and
\* the directory as these promise to be used: what a handler asks of the ledger is
\* an order, placed once, and a word is only given when it has no meaning.  So
\* what is proved of the promises holds here.
THEOREM OnlyThroughThePromises == Spec => Ledger!SafetySpec /\ Book!Spec
<1>1. Init => Ledger!Init /\ Book!Init
  BY DEF Init
<1>2. MerchantInv /\ MerchantInv' /\ [Next]_vars
        => [Ledger!Next]_(Ledger!ledger) /\ [Book!Next]_meaning
  <2> SUFFICES ASSUME MerchantInv, MerchantInv', [Next]_vars
               PROVE  [Ledger!Next]_(Ledger!ledger) /\ [Book!Next]_meaning
    OBVIOUS
  <2>1. LedgerTyped /\ LedgerTyped'
    BY DEF MerchantInv
  <2>2. Posts \/ Moves \/ UNCHANGED ledger
    BY <2>1, LedgerSteps, PlacesArePosts
  <2>3. [Ledger!Next]_(Ledger!ledger)
    BY <2>2 DEF Posts, Moves, ledger, Ledger!Next, Ledger!Place, Ledger!ledger
  <2>4. [Book!Next]_meaning
    BY BookSteps DEF Assigns, Book!Next
  <2> QED  BY <2>3, <2>4
<1> QED  BY <1>1, <1>2, MerchantInvariant, PTL DEF Spec, Ledger!SafetySpec, Book!Spec
=============================================================================
