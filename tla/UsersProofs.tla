----------------------------- MODULE UsersProofs -----------------------------
(***************************************************************************)
(* Theorems about accounts and sessions, for any number of browsers and of *)
(* accounts, and any number of requests at once.                           *)
(***************************************************************************)
EXTENDS Users, TableFacts

\* A handler knows what was asked; MaxAccounts leaves room for every account
\* that was asked for.
Typed ==
    /\ TypeOK
    /\ \A r \in Requests : pc[r] \in {"sent"} \cup Running => request[r] \in Request
    /\ \A r \in Requests : pc[r] # "idle" => browser[r] \in Browsers
    /\ lastId + Cardinality(Creating) <= MaxAccounts

\* A session has an id that has been given, so a new account cannot have it.
Own(s) == s.id <= lastId /\ (s.id \in DOMAIN users => users[s.id].keys = s.keys)

SessionsGiven == \A s \in Sessions : Own(s)

UsersInv == Typed /\ SessionsGiven /\ PasswordsAreLong

-----------------------------------------------------------------------------
(* What the handlers read and write *)

\* Who is found by email is in the table.
LEMMA Found ==
    ASSUME TypeOK, NEW email, FirstWith(email) # 0
    PROVE  FirstWith(email) \in DOMAIN users
<1> DEFINE ids == {id \in DOMAIN users : users[id].email = email}
<1>1. ids # {} /\ ids \subseteq Nat
  BY DEF FirstWith, TypeOK
<1>2. \E id \in ids : \A other \in ids : id <= other
  BY <1>1, LeastMember
<1> HIDE DEF ids
<1>3. (CHOOSE id \in ids : \A other \in ids : id <= other) \in ids
  BY <1>2
<1>4. FirstWith(email) \in ids
  BY <1>1, <1>3 DEF FirstWith, ids
<1> QED  BY <1>4 DEF ids

\* The creations asked for are as many as a number says.
LEMMA CreatingFinite == IsFiniteSet(Creating) /\ Cardinality(Creating) \in Nat
  BY UsersAssumption, FS_Subset, FS_CardinalityType DEF Creating

\* One more is asked for.
LEMMA CreatingMore ==
    ASSUME NEW r \in Requests, Creating' = Creating \cup {r}
    PROVE  Cardinality(Creating)' <= Cardinality(Creating) + 1
<1>1. Cardinality(Creating \cup {r}) =
         IF r \in Creating THEN Cardinality(Creating) ELSE Cardinality(Creating) + 1
  BY CreatingFinite, FS_AddElement
<1> QED  BY <1>1, CreatingFinite

\* One is done with, or was none.
LEMMA CreatingLess ==
    ASSUME NEW r \in Requests, Creating' = Creating \ {r}
    PROVE  /\ Cardinality(Creating)' <= Cardinality(Creating)
           /\ r \in Creating => Cardinality(Creating)' + 1 = Cardinality(Creating)
  BY CreatingFinite, FS_RemoveElement

-----------------------------------------------------------------------------
LEMMA InitInv == Init => UsersInv
<1> SUFFICES ASSUME Init PROVE UsersInv
  OBVIOUS
<1>1. PICK e \in Emails, p \in LongPasswords :
         users = [id \in {1} |-> [email |-> e, password |-> p, keys |-> 1]]
  BY DEF Init
<1>2. DOMAIN users = {1} /\ users[1] = [email |-> e, password |-> p, keys |-> 1]
  BY <1>1
<1>3. Closed \in Session
  BY DEF Closed, Session
<1>4. TypeOK
  BY <1>2, <1>3, UsersAssumption DEF Init, TypeOK, Account, Ids
<1>5. Creating = {}
  BY DEF Init, Creating, Running
<1>6. Cardinality(Creating) = 0
  BY <1>5, FS_EmptySet
<1>7. Typed
  BY <1>4, <1>6, UsersAssumption DEF Init, Typed, Running
<1>8. \A s \in Sessions : s = Closed
  BY DEF Init, Sessions
<1>9. Own(Closed)
  BY <1>2 DEF Own, Closed, Init
<1> QED  BY <1>1, <1>2, <1>7, <1>8, <1>9 DEF UsersInv, SessionsGiven, PasswordsAreLong

\* The rows that a request writes, for each request that writes any.
LEMMA Rows ==
    ASSUME UsersInv, NEW r \in Requests, Create(r) \/ Update(r) \/ Destroy(r)
    PROVE  /\ lastId' \in Nat /\ lastId <= lastId' /\ minted' \in Nat
           /\ lastId' # lastId => lastId' = lastId + 1 /\ r \in Creating
           /\ DOMAIN users' \subseteq 1 .. lastId'
           /\ \A id \in DOMAIN users' :
                 /\ users'[id] \in Account /\ users'[id].password \in LongPasswords
                 /\ id <= lastId =>
                       id \in DOMAIN users /\ users'[id].keys = users[id].keys
<1> USE DEF UsersInv
<1>0. request[r] \in Request /\ lastId \in Nat
  <2>1. pc[r] = "allowed"
    BY DEF Create, Update, Destroy, Acts
  <2>2. request[r] \in Request
    BY <2>1 DEF Typed, Running
  <2> QED  BY <2>2 DEF Typed, TypeOK, Ids
<1>1. CASE Create(r)
  <2>1. CASE request[r].password \in LongPasswords
    <3> DEFINE new == [email |-> request[r].email, password |-> request[r].password,
                       keys |-> minted + 1]
    <3>1. request[r].kind = "create" /\ r \in Creating
      BY <1>1 DEF Create, Acts, Creating, Running
    <3>2. new \in Account
      BY <1>0, <3>1 DEF Request, Account, Typed, TypeOK
    <3>3. /\ users' = [id \in DOMAIN users \cup {lastId + 1} |->
                         IF id = lastId + 1 THEN new ELSE users[id]]
          /\ lastId' = lastId + 1 /\ minted' = minted + 1
      BY <1>0, <1>1, <2>1 DEF Create, NextId
    <3>4. \A id \in DOMAIN users : id # lastId + 1
      BY <1>0 DEF Typed, TypeOK
    <3> QED  BY <1>0, <2>1, <3>1, <3>2, <3>3, <3>4 DEF Typed, TypeOK, PasswordsAreLong
  <2>2. CASE request[r].password \notin LongPasswords
    BY <1>0, <1>1, <2>2 DEF Create, Typed, TypeOK, PasswordsAreLong, table
  <2> QED  BY <2>1, <2>2
<1>2. CASE Update(r)
  <2> DEFINE q == request[r]
  <2>1. q.email \in Emails /\ q.password \in Passwords
    <3>1. q.kind = "update"
      BY <1>2 DEF Update, Acts
    <3> QED  BY <1>0, <3>1 DEF Request
  <2>2. /\ DOMAIN users' = DOMAIN users
        /\ \A id \in DOMAIN users : users'[id] =
              IF id = q.id /\ q.password \in LongPasswords
              THEN [users[id] EXCEPT !.email = q.email, !.password = q.password]
              ELSE users[id]
    BY <1>2 DEF Update
  <2>3. lastId' = lastId /\ minted' = minted
    BY <1>2 DEF Update
  <2>4. ASSUME NEW id \in DOMAIN users
        PROVE  /\ users'[id] \in Account /\ users'[id].password \in LongPasswords
               /\ users'[id].keys = users[id].keys
    <3>1. users[id] \in Account /\ users[id].password \in LongPasswords
      BY DEF Typed, TypeOK, PasswordsAreLong
    <3>2. CASE id = q.id /\ q.password \in LongPasswords
      <4>1. users'[id] = [users[id] EXCEPT !.email = q.email, !.password = q.password]
        BY <2>2, <3>2
      <4> HIDE DEF q
      <4> QED  BY <2>1, <3>1, <3>2, <4>1 DEF Account
    <3>3. CASE ~(id = q.id /\ q.password \in LongPasswords)
      <4>1. users'[id] = users[id]
        BY <2>2, <3>3
      <4> QED  BY <3>1, <4>1
    <3> QED  BY <3>2, <3>3
  <2>5. /\ DOMAIN users' = DOMAIN users /\ DOMAIN users \subseteq 1 .. lastId
        /\ minted \in Nat
    BY <2>2 DEF Typed, TypeOK
  <2> QED  BY <1>0, <2>3, <2>4, <2>5
<1>3. CASE Destroy(r)
  <2>1. users' = [id \in DOMAIN users \ {request[r].id} |-> users[id]]
    BY <1>3 DEF Destroy
  <2>2. lastId' = lastId /\ minted' = minted
    BY <1>3 DEF Destroy
  <2> QED  BY <1>0, <2>1, <2>2 DEF Typed, TypeOK, PasswordsAreLong
<1> QED  BY <1>1, <1>2, <1>3

\* A session that was its owner's still is when the rows are written.
LEMMA StillOwn ==
    ASSUME UsersInv, NEW r \in Requests, Create(r) \/ Update(r) \/ Destroy(r),
           NEW s \in Session, Own(s)
    PROVE  Own(s)'
<1>1. s.id \in Nat /\ lastId \in Nat
  BY DEF Session, UsersInv, Typed, TypeOK, Ids
<1> QED  BY <1>1, Rows DEF Own

\* Nor does a step that writes no rows change whose it is.
LEMMA SameOwn == ASSUME UNCHANGED table, NEW s, Own(s) PROVE Own(s)'
  BY DEF Own, table

\* What a request does that neither reads nor writes rows.
LEMMA StepSessions ==
    ASSUME UsersInv, NEW r \in Requests, UNCHANGED table,
           Typed',
           \/ UNCHANGED <<cookie, session>>
           \/ UNCHANGED cookie /\ \E s \in Session :
                  Own(s) /\ session' = [session EXCEPT ![r] = s]
           \/ /\ pc[r] = "answered"
              /\ cookie' = [cookie EXCEPT ![browser[r]] = session[r]]
              /\ session' = [session EXCEPT ![r] = Closed]
    PROVE  UsersInv'
<1> USE DEF UsersInv
<1>1. Own(Closed)
  BY DEF Own, Closed, Typed, TypeOK, Ids
<1>2. \A s \in Sessions' : Own(s)
  BY <1>1 DEF Sessions, SessionsGiven, Typed, TypeOK
<1>3. SessionsGiven'
  BY <1>2, SameOwn DEF SessionsGiven
<1>4. PasswordsAreLong'
  BY DEF PasswordsAreLong, table
<1> QED  BY <1>3, <1>4

\* Whatever a handler does next, it does not ask for more accounts.
LEMMA Progressed ==
    ASSUME TypeOK, NEW r \in Requests, NEW p, pc' = [pc EXCEPT ![r] = p],
           request' = request \/ request' = [request EXCEPT ![r] = Nil],
           \/ p \in {"idle", "answered"}
           \/ p \in Running /\ request' = request /\ pc[r] \in {"sent"} \cup Running
    PROVE  /\ Cardinality(Creating)' <= Cardinality(Creating)
           /\ r \in Creating /\ p = "answered" =>
                 Cardinality(Creating)' + 1 = Cardinality(Creating)
<1>1. CASE p \in {"idle", "answered"}
  <2>1. Creating' = Creating \ {r}
    BY <1>1 DEF Creating, TypeOK, Running
  <2> QED  BY <2>1, CreatingLess
<1>2. CASE p \in Running /\ request' = request /\ pc[r] \in {"sent"} \cup Running
  <2>1. Creating' = Creating
    BY <1>2 DEF Creating, TypeOK
  <2> QED  BY <1>2, <2>1, CreatingFinite DEF Running
<1> QED  BY <1>1, <1>2

LEMMA SendTyped ==
    ASSUME UsersInv, NEW r \in Requests, Send(r)
    PROVE  Typed'
<1> USE DEF UsersInv, Typed
<1>1. PICK what \in Request : \E b \in Browsers :
         /\ what.kind = "create" => lastId + Cardinality(Creating) < MaxAccounts
         /\ request' = [request EXCEPT ![r] = what]
         /\ browser' = [browser EXCEPT ![r] = b]
         /\ session' = [session EXCEPT ![r] = cookie[b]]
  BY DEF Send
<1>2. pc[r] = "idle" /\ pc' = [pc EXCEPT ![r] = "sent"] /\ UNCHANGED <<table, cookie>>
  BY DEF Send
<1>3. TypeOK'
  BY <1>1, <1>2 DEF TypeOK, table
<1>4. lastId' = lastId /\ lastId \in Nat /\ MaxAccounts \in Nat
  BY <1>2, UsersAssumption DEF table, TypeOK, Ids
<1>5. CASE what.kind = "create"
  <2>1. Creating' = Creating \cup {r}
    BY <1>1, <1>2, <1>5 DEF Creating, TypeOK
  <2>2. Creating' # {} /\ IsFiniteSet(Creating \cup {r})
    BY <2>1, CreatingFinite, FS_AddElement
  <2>3. Cardinality(Creating)' <= Cardinality(Creating) + 1 /\ Cardinality(Creating)' \in Nat
    BY <2>1, <2>2, CreatingMore, FS_CardinalityType
  <2>4. lastId' + Cardinality(Creating)' <= MaxAccounts
    BY <1>1, <1>4, <1>5, <2>3, CreatingFinite
  <2> QED  BY <1>1, <1>2, <1>3, <2>4 DEF TypeOK, Running
<1>6. CASE what.kind # "create"
  <2>1. Creating' = Creating
    BY <1>1, <1>2, <1>6 DEF Creating, TypeOK, Running
  <2>2. lastId' + Cardinality(Creating)' <= MaxAccounts
    BY <1>4, <2>1
  <2> QED  BY <1>1, <1>2, <1>3, <2>2 DEF TypeOK, Running
<1> QED  BY <1>5, <1>6

\* How far a request gets by a step other than Send.
Moves(r, p) ==
    /\ p \in {"idle", "answered"} \cup Running
    /\ pc' = [pc EXCEPT ![r] = p]
    /\ request' = request \/ request' = [request EXCEPT ![r] = Nil]
    /\ p \in Running => request' = request /\ pc[r] \in {"sent"} \cup Running
    /\ browser' = browser \/ (p = "idle" /\ browser' = [browser EXCEPT ![r] = Nil])
    /\ p = "answered" => pc[r] \in {"sent"} \cup Running

\* What is left to show of such a step once the rows it writes are known.
LEMMA StepTyped ==
    ASSUME UsersInv, NEW r \in Requests, NEW p, Moves(r, p),
           cookie' \in [Browsers -> Session], session' \in [Requests -> Session],
           lastId' = lastId \/ (lastId' = lastId + 1 /\ r \in Creating /\ p = "answered"),
           DOMAIN users' \subseteq 1 .. lastId',
           \A id \in DOMAIN users' : users'[id] \in Account,
           minted' \in Nat
    PROVE  Typed'
<1> USE DEF UsersInv, Typed, Moves
<1>1. lastId \in 1 .. MaxAccounts /\ MaxAccounts \in Nat
  BY UsersAssumption DEF TypeOK, Ids
<1>2. /\ Cardinality(Creating)' <= Cardinality(Creating)
      /\ r \in Creating /\ p = "answered" =>
            Cardinality(Creating)' + 1 = Cardinality(Creating)
  BY Progressed
<1>3. Cardinality(Creating)' \in Nat /\ Cardinality(Creating) \in Nat
  <2>1. IsFiniteSet(Creating)'
    BY UsersAssumption, FS_Subset DEF Creating
  <2> QED  BY <2>1, CreatingFinite, FS_CardinalityType
<1>4. lastId' + Cardinality(Creating)' <= MaxAccounts
  BY <1>1, <1>2, <1>3
<1>5. lastId' \in Ids
  BY <1>1, <1>3, <1>4 DEF Ids
<1>6. /\ pc' \in [Requests -> {"idle", "sent", "answered"} \cup Running]
      /\ browser' \in [Requests -> Browsers \cup {Nil}]
      /\ request' \in [Requests -> Request \cup {Nil}]
  BY DEF TypeOK
<1>7. TypeOK'
  BY <1>5, <1>6 DEF TypeOK
<1>8. \A s \in Requests : pc'[s] \in {"sent"} \cup Running => request'[s] \in Request
  BY DEF TypeOK, Running
<1>9. \A s \in Requests : pc'[s] # "idle" => browser'[s] \in Browsers
  BY DEF TypeOK, Running
<1> QED  BY <1>4, <1>7, <1>8, <1>9

-----------------------------------------------------------------------------
(* Every step keeps the invariant *)

\* A step that neither writes rows nor opens a session that is not its owner's.
LEMMA StepQuiet ==
    ASSUME UsersInv, NEW r \in Requests, NEW p, Moves(r, p), UNCHANGED table,
           \/ UNCHANGED <<cookie, session>>
           \/ UNCHANGED cookie /\ \E s \in Session :
                  Own(s) /\ session' = [session EXCEPT ![r] = s]
           \/ /\ pc[r] = "answered"
              /\ cookie' = [cookie EXCEPT ![browser[r]] = session[r]]
              /\ session' = [session EXCEPT ![r] = Closed]
    PROVE  UsersInv'
<1>1. TypeOK /\ Closed \in Session
  BY DEF UsersInv, Typed, Closed, Session
<1>2. cookie' \in [Browsers -> Session] /\ session' \in [Requests -> Session]
  BY <1>1 DEF TypeOK
<1>3. /\ lastId' = lastId /\ DOMAIN users' \subseteq 1 .. lastId'
      /\ \A id \in DOMAIN users' : users'[id] \in Account
      /\ minted' \in Nat
  BY <1>1 DEF TypeOK, table
<1>4. Typed'
  BY <1>2, <1>3, StepTyped
<1> QED  BY <1>4, StepSessions

LEMMA StepInv ==
    ASSUME UsersInv, NEW r \in Requests, Send(r) \/ Handle(r) \/ Deliver(r) \/ Lose(r)
    PROVE  UsersInv'
<1> USE DEF UsersInv
<1>0. /\ cookie \in [Browsers -> Session] /\ session \in [Requests -> Session]
      /\ Closed \in Session /\ Own(Closed)
      /\ \A s \in Requests : session[s] \in Session /\ Own(session[s])
      /\ \A b \in Browsers : cookie[b] \in Session /\ Own(cookie[b])
      /\ lastId \in Nat
  BY DEF Typed, TypeOK, Closed, Session, Own, SessionsGiven, Sessions, Ids
<1>1. CASE Send(r)
  <2>1. \E s \in Session : Own(s) /\ session' = [session EXCEPT ![r] = s]
    BY <1>0, <1>1 DEF Send
  <2> QED  BY <1>1, <2>1, SendTyped, StepSessions DEF Send
<1>2. CASE SignIn(r)
  <2> DEFINE id == FirstWith(request[r].email)
  <2>0. Moves(r, "answered") /\ UNCHANGED <<table, cookie>>
    BY <1>2 DEF SignIn, Starts, Answers, Moves, Running
  <2>1. CASE session' = session
    BY <2>0, <2>1, StepQuiet
  <2>2. CASE id # 0 /\ session' = [session EXCEPT ![r] = [id |-> id, keys |-> users[id].keys]]
    <3>1. id \in DOMAIN users /\ id \in Nat /\ id <= lastId
      BY <2>2, Found DEF Typed, TypeOK
    <3> DEFINE s == [id |-> id, keys |-> users[id].keys]
    <3>2. s \in Session /\ Own(s)
      BY <3>1 DEF Typed, TypeOK, Account, Session, Own
    <3>3. session' = [session EXCEPT ![r] = s]
      BY <2>2
    <3> HIDE DEF s, id
    <3> QED  BY <2>0, <3>2, <3>3, StepQuiet
  <2> QED  BY <1>2, <2>1, <2>2 DEF SignIn, Opens
<1>3. CASE SignOut(r)
  <2>1. Moves(r, "answered") /\ UNCHANGED <<table, cookie>>
    BY <1>3 DEF SignOut, Starts, Answers, Moves, Running
  <2>2. session' = [session EXCEPT ![r] = Closed]
    BY <1>3 DEF SignOut, Closes
  <2> QED  BY <1>0, <2>1, <2>2, StepQuiet
<1>4. CASE SetUser(r)
  <2>1. CASE request[r].id \in DOMAIN users
    <3>1. Moves(r, "loaded") /\ UNCHANGED <<table, cookie, session>>
      BY <1>4, <2>1 DEF SetUser, Starts, Moves, Running
    <3> QED  BY <3>1, StepQuiet
  <2>2. CASE request[r].id \notin DOMAIN users
    <3>1. Moves(r, "idle") /\ UNCHANGED <<table, cookie>>
      BY <1>4, <2>2 DEF SetUser, Starts, Moves, Forget, Running
    <3>2. session' = [session EXCEPT ![r] = Closed]
      BY <1>4, <2>2 DEF SetUser, Forget, Closes
    <3> QED  BY <1>0, <3>1, <3>2, StepQuiet
  <2> QED  BY <2>1, <2>2
<1>5. CASE RequireSignin(r)
  <2>1. pc[r] \in {"sent"} \cup Running
    BY <1>5 DEF RequireSignin, Starts, Running
  <2>2. CASE session[r].id \in DOMAIN users
    <3>1. Moves(r, "allowed") /\ UNCHANGED <<table, cookie, session>>
      BY <1>5, <2>1, <2>2 DEF RequireSignin, CurrentUser, HasAccount, Moves, Running
    <3> QED  BY <3>1, StepQuiet
  <2>3. CASE session[r].id \notin DOMAIN users
    <3>1. Moves(r, "answered") /\ UNCHANGED <<table, cookie>>
      BY <1>5, <2>1, <2>3 DEF RequireSignin, HasAccount, Answers, Moves, Running
    <3>2. session' = [session EXCEPT ![r] = Closed]
      BY <1>5, <2>3 DEF RequireSignin, CurrentUser, HasAccount, Closes
    <3> QED  BY <1>0, <3>1, <3>2, StepQuiet
  <2> QED  BY <2>2, <2>3
<1>6. CASE Open(r)
  <2>1. Moves(r, "answered") /\ UNCHANGED <<table, cookie>>
    BY <1>6 DEF Open, Acts, Answers, Moves, Running
  <2>2. session' = session \/ session' = [session EXCEPT ![r] = Closed]
    BY <1>6 DEF Open, CurrentUser, Closes
  <2> QED  BY <1>0, <2>1, <2>2, StepQuiet
<1>7. CASE Create(r) \/ Update(r) \/ Destroy(r)
  <2>1. /\ Moves(r, "answered") /\ UNCHANGED cookie
        /\ session' = session \/ session' = [session EXCEPT ![r] = Closed]
    BY <1>7 DEF Create, Update, Destroy, Acts, Answers, Replies, CurrentUser, Closes,
       Moves, Running
  <2>2. /\ lastId' = lastId \/ (lastId' = lastId + 1 /\ r \in Creating)
        /\ DOMAIN users' \subseteq 1 .. lastId' /\ minted' \in Nat
        /\ \A id \in DOMAIN users' :
              users'[id] \in Account /\ users'[id].password \in LongPasswords
    BY <1>7, Rows
  <2>3. Typed'
    BY <1>0, <2>1, <2>2, StepTyped
  <2>4. \A s \in Session : Own(s) => Own(s)'
    BY <1>7, StillOwn
  <2>5. \A s \in Sessions' : s \in Sessions \cup {Closed}
    BY <1>0, <2>1 DEF Sessions
  <2>6. \A s \in Sessions \cup {Closed} : s \in Session /\ Own(s)
    BY <1>0 DEF Sessions
  <2>7. SessionsGiven'
    BY <2>4, <2>5, <2>6 DEF SessionsGiven
  <2>8. PasswordsAreLong'
    BY <2>2 DEF PasswordsAreLong
  <2> QED  BY <2>3, <2>7, <2>8
<1>8. CASE Deliver(r)
  <2>1. Moves(r, "idle") /\ UNCHANGED table
    BY <1>8 DEF Deliver, Forget, Moves, Running
  <2>2. /\ pc[r] = "answered"
        /\ cookie' = [cookie EXCEPT ![browser[r]] = session[r]]
        /\ session' = [session EXCEPT ![r] = Closed]
    BY <1>8 DEF Deliver, Forget, Closes
  <2> QED  BY <2>1, <2>2, StepQuiet
<1>9. CASE Lose(r)
  <2>1. Moves(r, "idle") /\ UNCHANGED <<table, cookie>>
    BY <1>9 DEF Lose, Forget, Moves, Running
  <2>2. session' = [session EXCEPT ![r] = Closed]
    BY <1>9 DEF Lose, Forget, Closes
  <2> QED  BY <1>0, <2>1, <2>2, StepQuiet
<1> QED  BY <1>1, <1>2, <1>3, <1>4, <1>5, <1>6, <1>7, <1>8, <1>9 DEF Handle

LEMMA UsersInvariant == Spec => []UsersInv
<1>1. UsersInv /\ [Next]_vars => UsersInv'
  <2> SUFFICES ASSUME UsersInv, [Next]_vars PROVE UsersInv'
    OBVIOUS
  <2>1. CASE UNCHANGED vars
    <3>1. Creating' = Creating /\ Sessions' = Sessions
      BY <2>1 DEF vars, table, Creating, Sessions
    <3>2. Typed'
      BY <2>1, <3>1 DEF vars, table, UsersInv, Typed, TypeOK
    <3>3. SessionsGiven'
      BY <2>1, <3>1, SameOwn DEF vars, UsersInv, SessionsGiven
    <3>4. PasswordsAreLong'
      BY <2>1 DEF vars, table, UsersInv, PasswordsAreLong
    <3> QED  BY <3>2, <3>3, <3>4 DEF UsersInv
  <2> QED  BY <2>1, StepInv DEF Next
<1> QED  BY <1>1, InitInv, PTL DEF Spec

-----------------------------------------------------------------------------
\* The tables, the cookies and the handlers keep their types; in particular no
\* more accounts come to be than were asked for.
THEOREM UsersTypes == Spec => []TypeOK
<1>1. UsersInv => TypeOK
  BY DEF UsersInv, Typed
<1> QED  BY <1>1, UsersInvariant, PTL

\* A session opens the account it was signed in to, or none: the ids of deleted
\* accounts are not given again (current_user trusts the id in the cookie), and
\* an answer that comes late brings back no more than an old session.
THEOREM SessionsAreOwn == Spec => []SessionIsOwn
<1>1. UsersInv => SessionIsOwn
  BY DEF UsersInv, SessionsGiven, SessionIsOwn, Own
<1> QED  BY <1>1, UsersInvariant, PTL

\* No request, in any order with others, stores a password that is too short.
THEOREM PasswordsStayLong == Spec => []PasswordsAreLong
<1>1. UsersInv => PasswordsAreLong
  BY DEF UsersInv
<1> QED  BY <1>1, UsersInvariant, PTL

\* No request, in any order with others, brings a deleted account back.
THEOREM DeletedStayDeleted == Spec => GoneForGood
<1>1. UsersInv /\ [Next]_vars =>
        [\A id \in 1 .. lastId : id \notin DOMAIN users => id \notin DOMAIN users']_vars
  <2> SUFFICES ASSUME UsersInv, NEW r \in Requests,
                      Send(r) \/ Handle(r) \/ Deliver(r) \/ Lose(r),
                      NEW id \in 1 .. lastId, id \notin DOMAIN users
               PROVE  id \notin DOMAIN users'
    BY DEF Next
  <2>1. CASE Create(r) \/ Update(r) \/ Destroy(r)
    <3>1. id <= lastId
      BY DEF UsersInv, Typed, TypeOK, Ids
    <3> QED  BY <2>1, <3>1, Rows
  <2>2. CASE users' = users
    BY <2>2
  <2> QED  BY <2>1, <2>2 DEF Handle, Send, SignIn, SignOut, SetUser, RequireSignin, Open,
           Deliver, Lose, table
<1> QED  BY <1>1, UsersInvariant, PTL DEF Spec, GoneForGood
=============================================================================
