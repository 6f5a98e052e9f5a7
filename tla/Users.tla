-------------------------------- MODULE Users --------------------------------
(***************************************************************************)
(* The accounts of the admin client and the sessions opened on them        *)
(* (UsersController, SessionsController and current_user).                 *)
(*                                                                         *)
(* An account holds the only copy of its merchant's private keys, and any  *)
(* merchant may create, change and delete accounts, also the one somebody  *)
(* is signed in to.  A session is an id in a cookie: what it opens depends *)
(* on what the table has under that id later.                              *)
(*                                                                         *)
(* The server keeps no sessions (cookie_store).  A request carries a copy  *)
(* of its browser's cookie, the handler works on that copy, and the answer *)
(* writes it back, over whatever answers from other tabs have written in   *)
(* the meantime.  A handler loads the account the request is about, then   *)
(* looks who asks, then writes; with Capacity above 1 others run in        *)
(* between.                                                                *)
(***************************************************************************)
EXTENDS Integers, FiniteSets

CONSTANTS
    Browsers,       \* each with one cookie and any number of tabs
    Requests,       \* bound: so many may be on their way at once
    Emails,         \* as stored: everything typed is downcased first
    Passwords,
    LongPasswords,  \* those of at least 8 characters
    MaxAccounts,    \* bound: accounts ever created
    Capacity,       \* handlers that may run at once
    Nil

ASSUME UsersAssumption ==
    /\ IsFiniteSet(Requests)
    /\ Emails # {} /\ LongPasswords \subseteq Passwords /\ LongPasswords # {}
    /\ MaxAccounts \in Nat \ {0}
    /\ Capacity \in Nat \ {0}

VARIABLES
    users,    \* the table, by id
    lastId,   \* the largest id ever given: SQLite keeps it beside the table
    minted,   \* key pairs generated so far
    cookie,   \* the session in each browser's cookie
    session,  \* the copy of it a request carries, and its answer brings back
    browser,  \* where each request comes from
    pc, request

table == <<users, lastId, minted>>
vars  == <<table, cookie, session, browser, pc, request>>

Ids     == 1 .. MaxAccounts
Account == [email: Emails, password: Passwords, keys: Nat]

\* session[:user_id], 0 for nil, and, only observed, the keys of the account it
\* was signed in to.
Session == [id: Nat, keys: Nat]
Closed  == [id |-> 0, keys |-> 0]

Request ==
    [kind: {"signin", "create"}, email: Emails, password: Passwords]
    \cup [kind: {"update"}, id: Ids, email: Emails, password: Passwords]
    \cup [kind: {"destroy"}, id: Ids]
    \cup [kind: {"signout", "open"}]

Running == {"loaded", "allowed"}

\* The type invariant of the table (db/schema.rb), the cookies and the handlers.
TypeOK ==
    /\ lastId \in Ids /\ DOMAIN users \subseteq 1 .. lastId
    /\ \A id \in DOMAIN users : users[id] \in Account
    /\ minted \in Nat
    /\ cookie \in [Browsers -> Session]
    /\ session \in [Requests -> Session]
    /\ browser \in [Requests -> Browsers \cup {Nil}]
    /\ pc \in [Requests -> {"idle", "sent", "answered"} \cup Running]
    /\ request \in [Requests -> Request \cup {Nil}]

\* The seeds create accounts; one is enough to create the others from.
Init ==
    /\ \E e \in Emails, p \in LongPasswords :
          users = [id \in {1} |-> [email |-> e, password |-> p, keys |-> 1]]
    /\ lastId = 1 /\ minted = 1
    /\ cookie = [b \in Browsers |-> Closed]
    /\ session = [r \in Requests |-> Closed]
    /\ browser = [r \in Requests |-> Nil]
    /\ pc = [r \in Requests |-> "idle"]
    /\ request = [r \in Requests |-> Nil]

-----------------------------------------------------------------------------
(* Browsers *)

\* The requests on their way that may create an account.
Creating == {r \in Requests : pc[r] \in {"sent"} \cup Running /\ request[r].kind = "create"}

\* A page names accounts there were when it was shown.  MaxAccounts bounds the
\* creations that are asked for.
Send(r) ==
    /\ pc[r] = "idle"
    /\ \E what \in Request, b \in Browsers :
          /\ what.kind \in {"update", "destroy"} => what.id <= lastId
          /\ what.kind = "create" => lastId + Cardinality(Creating) < MaxAccounts
          /\ request' = [request EXCEPT ![r] = what]
          /\ browser' = [browser EXCEPT ![r] = b]
          /\ session' = [session EXCEPT ![r] = cookie[b]]
    /\ pc' = [pc EXCEPT ![r] = "sent"]
    /\ UNCHANGED <<table, cookie>>

Closes(r) == session' = [session EXCEPT ![r] = Closed]

\* Nothing is left of the request.
Forget(r) ==
    /\ pc' = [pc EXCEPT ![r] = "idle"]
    /\ browser' = [browser EXCEPT ![r] = Nil]
    /\ Closes(r)

\* The answer arrives, perhaps after answers to later requests.
Deliver(r) ==
    /\ pc[r] = "answered"
    /\ cookie' = [cookie EXCEPT ![browser[r]] = session[r]]
    /\ Forget(r)
    /\ UNCHANGED <<table, request>>

\* The tab was closed, or the connection: the answer arrives nowhere.
Lose(r) ==
    /\ pc[r] = "answered"
    /\ Forget(r)
    /\ UNCHANGED <<table, cookie, request>>

-----------------------------------------------------------------------------
(* Handlers *)

\* The request has its answer, which carries what the handler left of the session.
Answers(r) ==
    /\ pc' = [pc EXCEPT ![r] = "answered"]
    /\ request' = [request EXCEPT ![r] = Nil]
    /\ UNCHANGED <<cookie, browser>>

Opens(r, id, keys) ==
    session' = [session EXCEPT ![r] = [id |-> id, keys |-> keys]]

Starts(r, kinds) ==
    /\ pc[r] = "sent" /\ request[r].kind \in kinds
    /\ Cardinality({s \in Requests : pc[s] \in Running}) < Capacity

\* The account where(email: ...).first finds, 0 for none.
FirstWith(email) ==
    LET ids == {id \in DOMAIN users : users[id].email = email}
    IN  IF ids = {} THEN 0 ELSE CHOOSE id \in ids : \A other \in ids : id <= other

\* SessionsController#create: a wrong password leaves the session as it was.
SignIn(r) ==
    LET id == FirstWith(request[r].email) IN
    /\ Starts(r, {"signin"})
    /\ IF id # 0 /\ users[id].password = request[r].password
       THEN Opens(r, id, users[id].keys)
       ELSE UNCHANGED session
    /\ Answers(r)
    /\ UNCHANGED table

\* Mutant: the session is given something that is no id.
SignOut_NotAnId(r) ==
    /\ Starts(r, {"signout"})
    /\ Opens(r, Nil, 0)
    /\ Answers(r)
    /\ UNCHANGED table

SignOut(r) ==
    /\ Starts(r, {"signout"})
    /\ Closes(r)
    /\ Answers(r)
    /\ UNCHANGED table

\* before_action set_user comes before require_signin!.  When there is no such
\* account it raises, and an error page is no business of the session's.
SetUser(r) ==
    /\ Starts(r, {"update", "destroy"})
    /\ IF request[r].id \in DOMAIN users
       THEN /\ pc' = [pc EXCEPT ![r] = "loaded"]
            /\ UNCHANGED <<request, browser, session>>
       ELSE /\ Forget(r)
            /\ request' = [request EXCEPT ![r] = Nil]
    /\ UNCHANGED <<table, cookie>>

HasAccount(r) == session[r].id \in DOMAIN users

\* current_user, which the layout of every page asks for again: a session whose
\* account is gone is closed, also in the middle of a request.
CurrentUser(r) == IF HasAccount(r) THEN UNCHANGED session ELSE Closes(r)

RequireSignin(r) ==
    /\ pc[r] = "loaded" \/ Starts(r, {"create", "open"})
    /\ CurrentUser(r)
    /\ IF HasAccount(r)
       THEN /\ pc' = [pc EXCEPT ![r] = "allowed"]
            /\ UNCHANGED <<cookie, browser, request>>
       ELSE Answers(r)
    /\ UNCHANGED table

Acts(r, kind) ==
    /\ pc[r] = "allowed" /\ request[r].kind = kind
    /\ Answers(r)

\* A redirection asks for nobody, a form that is shown again does.
Replies(r, saved) == IF saved THEN UNCHANGED session ELSE CurrentUser(r)

\* Mutant: the least id that is free is given.
NextId_Reused == CHOOSE id \in 1 .. lastId + 1 :
    /\ id \notin DOMAIN users
    /\ \A other \in 1 .. lastId + 1 : other \notin DOMAIN users => id <= other

\* The primary key is AUTOINCREMENT: an id is never given twice.
NextId == lastId + 1

\* An account whose password is too short is not saved; an email may be taken.
Create(r) ==
    /\ Acts(r, "create")
    /\ Replies(r, request[r].password \in LongPasswords)
    /\ IF request[r].password \in LongPasswords
       THEN /\ users' = [id \in DOMAIN users \cup {NextId} |->
                  IF id = NextId
                  THEN [email |-> request[r].email, password |-> request[r].password,
                        keys |-> minted + 1]
                  ELSE users[id]]
            /\ lastId' = IF NextId > lastId THEN NextId ELSE lastId
            /\ minted' = minted + 1
       ELSE UNCHANGED table

\* Mutant: the length of the password is validated on create only.
Update_NotValidated(r) ==
    LET new == request[r] IN
    /\ Acts(r, "update") /\ Replies(r, TRUE)
    /\ users' = [id \in DOMAIN users |->
          IF id = new.id THEN [users[id] EXCEPT !.email = new.email, !.password = new.password]
          ELSE users[id]]
    /\ UNCHANGED <<lastId, minted>>

\* Mutant: the account that was loaded is stored again when it is gone.
Update_Restores(r) ==
    LET new == request[r] IN
    /\ Acts(r, "update") /\ Replies(r, new.password \in LongPasswords)
    /\ IF new.password \in LongPasswords
       THEN users' = [id \in DOMAIN users \cup {new.id} |->
              IF id = new.id
              THEN [email |-> new.email, password |-> new.password, keys |-> new.id]
              ELSE users[id]]
       ELSE UNCHANGED users
    /\ UNCHANGED <<lastId, minted>>

\* The password has to be given again, and only the columns that changed are
\* written: nothing is when the row has been deleted meanwhile.
Update(r) ==
    LET new == request[r] IN
    /\ Acts(r, "update")
    /\ Replies(r, new.password \in LongPasswords)
    /\ users' = [id \in DOMAIN users |->
          IF id = new.id /\ new.password \in LongPasswords
          THEN [users[id] EXCEPT !.email = new.email, !.password = new.password]
          ELSE users[id]]
    /\ UNCHANGED <<lastId, minted>>

\* Deleting an account closes no session: current_user does, later.
Destroy(r) ==
    /\ Acts(r, "destroy") /\ Replies(r, TRUE)
    /\ users' = [id \in DOMAIN users \ {request[r].id} |-> users[id]]
    /\ UNCHANGED <<lastId, minted>>

\* Any other page.
Open(r) == Acts(r, "open") /\ CurrentUser(r) /\ UNCHANGED table

Handle(r) ==
    \/ SignIn(r) \/ SignOut(r) \/ SetUser(r) \/ RequireSignin(r)
    \/ Create(r) \/ Update(r) \/ Destroy(r) \/ Open(r)

Next == \E r \in Requests : Send(r) \/ Handle(r) \/ Deliver(r) \/ Lose(r)

Spec == Init /\ [][Next]_vars

-----------------------------------------------------------------------------
(* Properties *)

Sessions == {cookie[b] : b \in Browsers} \cup {session[r] : r \in Requests}

\* No session comes to open another account than the one it was signed in to,
\* whatever accounts are deleted and created while it lives, in a cookie or in a
\* request, and however late an answer brings an old one back.
SessionIsOwn ==
    \A s \in Sessions : s.id \in DOMAIN users => users[s.id].keys = s.keys

\* Nobody can be left with a password that is too short, by any request.
PasswordsAreLong ==
    \A id \in DOMAIN users : users[id].password \in LongPasswords

\* A deleted account does not come back, though requests that loaded it before
\* it was deleted are still running.
GoneForGood ==
    [][\A id \in 1 .. lastId : id \notin DOMAIN users => id \notin DOMAIN users']_vars
=============================================================================
