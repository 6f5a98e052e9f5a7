--------------------------- MODULE DirectoryProofs ---------------------------
(***************************************************************************)
(* Theorems about the directory of words, for any number of requests,      *)
(* addresses and words, any number of handlers at once, and crashes.       *)
(***************************************************************************)
EXTENDS DirectoryRefinement, TableFacts, SequenceTheorems, FiniteSetTheorems, TLAPS

\* What First returns.
LEMMA FirstMember ==
    ASSUME NEW ids \in SUBSET Nat, 0 \notin ids
    PROVE  /\ First(ids) \in Nat
           /\ First(ids) = 0 <=> ids = {}
           /\ ids # {} => First(ids) \in ids
<1>1. CASE ids = {}
  BY <1>1 DEF First
<1>2. CASE ids # {}
  <2>1. \E i \in ids : \A j \in ids : i <= j
    BY <1>2, LeastMember
  <2>2. First(ids) \in ids
    BY <1>2, <2>1 DEF First
  <2> QED  BY <1>2, <2>2
<1> QED  BY <1>1, <1>2

LEMMA FirstOfOne == ASSUME NEW i \in Nat PROVE First({i}) = i
  BY DEF First

\* The lookups return ids of rows that match.
LEMMA LookupTypes ==
    ASSUME addresses \in Seq(AddressRow)
    PROVE  /\ \A a : LET i == RowOf(a)
                     IN  /\ i # 0 => i \in DOMAIN addresses /\ addresses[i].address = a
                         /\ i = 0 => \A j \in DOMAIN addresses : addresses[j].address # a
           /\ \A w : AddressOf(w) \in Addresses \cup {Nil}
<1>1. /\ DOMAIN addresses \in SUBSET Nat /\ 0 \notin DOMAIN addresses
      /\ \A j \in DOMAIN addresses : addresses[j] \in AddressRow
  BY LenProperties, ElementOfSeq
<1>2. ASSUME NEW a
      PROVE  LET i == RowOf(a)
             IN  /\ i # 0 => i \in DOMAIN addresses /\ addresses[i].address = a
                 /\ i = 0 => \A j \in DOMAIN addresses : addresses[j].address # a
  <2> DEFINE ids == {j \in DOMAIN addresses : addresses[j].address = a}
  <2>1. ids \in SUBSET Nat /\ 0 \notin ids
    BY <1>1
  <2>2. RowOf(a) = First(ids)
    BY DEF RowOf
  <2> HIDE DEF ids
  <2>3. (First(ids) = 0 <=> ids = {}) /\ (ids # {} => First(ids) \in ids)
    BY <2>1, FirstMember
  <2> QED  BY <2>2, <2>3 DEF ids
<1>3. ASSUME NEW w PROVE AddressOf(w) \in Addresses \cup {Nil}
  <2> DEFINE v == First({j \in DOMAIN Words : Words[j] = w})
             ids == {j \in DOMAIN addresses : v # 0 /\ addresses[j].word_id = v}
  <2>1. ids \in SUBSET Nat /\ 0 \notin ids
    BY <1>1
  <2>2. AddressOf(w) = IF First(ids) = 0 THEN Nil ELSE addresses[First(ids)].address
    BY DEF AddressOf
  <2>3. First(ids) = 0 \/ First(ids) \in DOMAIN addresses
    BY <2>1, FirstMember
  <2> QED  BY <1>1, <2>2, <2>3 DEF AddressRow
<1> QED  BY <1>2, <1>3

-----------------------------------------------------------------------------
(* Type correctness *)

\* A row that is being given its word is there, and is the asker's.
RowIsOwn ==
    \A r \in Requests :
        /\ pc[r] = "assigning" =>
              /\ row[r] \in DOMAIN addresses
              /\ addresses[row[r]].address = ask[r].name
        /\ pc[r] = "found" =>
              \E i \in DOMAIN addresses : addresses[i].address = ask[r].name
        /\ pc[r] \in Working => ask[r].endpoint = "address"

\* The word of a row is the one with the row's own id.
WordIsOwn ==
    \A i \in DOMAIN addresses :
        addresses[i].word_id # 0 =>
            addresses[i].word_id = i /\ i \in DOMAIN Words

\* A word that was told stands in the table, with the id of its row.
TellsTheTable ==
    \A r \in Requests :
        /\ Told(r, "address") => \E i \in DOMAIN addresses \cap DOMAIN Words :
              addresses[i] = [address |-> ask[r].name, word_id |-> i] /\ answer[r] = Words[i]
        /\ Told(r, "word") => \E i \in DOMAIN addresses \cap DOMAIN Words :
              addresses[i] = [address |-> answer[r], word_id |-> i] /\ ask[r].name = Words[i]

DirectoryInv == TypeOK /\ RowIsOwn /\ WordIsOwn /\ TellsTheTable

Does(r) == Ask(r) \/ Handle(r) \/ Abort(r)

LEMMA InitType == Init => TypeOK
<1> SUFFICES ASSUME Init PROVE TypeOK
  OBVIOUS
<1>1. addresses \in Seq(AddressRow)
  BY EmptySeq DEF Init
<1> QED  BY <1>1 DEF Init, TypeOK, Working, Answered

LEMMA WordsType ==
    /\ DOMAIN Words \subseteq Nat /\ 0 \notin DOMAIN Words
    /\ \A i \in DOMAIN Words : Words[i] \in Spoken
  BY DirectoryAssumption, LenProperties, ElementOfSeq

LEMMA StepType ==
    ASSUME TypeOK, RowIsOwn, WordIsOwn, NEW r \in Requests, Does(r)
    PROVE  TypeOK'
<1> USE DEF Working, Answered, Becomes, Answers
<1>0. \A i \in DOMAIN addresses : addresses[i] \in AddressRow
  BY LenProperties, ElementOfSeq DEF TypeOK
<1>1. CASE Ask(r)
  BY <1>1 DEF Ask, TypeOK
<1>2. CASE RefuseToken(r) \/ Abort(r) \/ LookUp(r)
  BY <1>2 DEF RefuseToken, Abort, LookUp, Starts, TypeOK
<1>3. CASE ReadWord(r)
  <2> DEFINE id == addresses[RowOf(ask[r].name)].word_id
  <2>1. RowOf(ask[r].name) \in DOMAIN addresses
    BY <1>3, LookupTypes DEF ReadWord, RowIsOwn, TypeOK
  <2>2. id # 0 => Words[id] \in Spoken
    BY <2>1, WordsType DEF WordIsOwn
  <2> QED  BY <1>3, <2>2 DEF ReadWord, TypeOK
<1>4. CASE CreateAddress(r)
  <2>1. ask[r].name \in Addresses
    BY <1>4 DEF CreateAddress, RowIsOwn, TypeOK, Question
  <2>2. [address |-> ask[r].name, word_id |-> 0] \in AddressRow
    BY <2>1 DEF AddressRow
  <2>3. addresses' \in Seq(AddressRow) /\ Len(addresses) + 1 \in Nat
    BY <1>4, <2>2, AppendRow DEF CreateAddress, TypeOK
  <2> QED  BY <1>4, <2>3 DEF CreateAddress, TypeOK
<1>5. CASE AssignWord(r)
  <2> DEFINE id == row[r]
  <2>1. CASE id \in DOMAIN Words
    <3>1. id \in 1 .. Len(addresses) /\ id \in Nat /\ Words[id] \in Spoken
      BY <1>5, <2>1, WordsType, LenProperties DEF AssignWord, RowIsOwn, TypeOK
    <3>2. [addresses[id] EXCEPT !.word_id = id] \in AddressRow
      <4>1. addresses[id] \in AddressRow
        BY <3>1, ElementOfSeq DEF TypeOK
      <4> QED  BY <3>1, <4>1 DEF AddressRow
    <3>3. addresses' = [addresses EXCEPT ![id] = [addresses[id] EXCEPT !.word_id = id]]
      BY <1>5, <2>1 DEF AssignWord
    <3>4. addresses' \in Seq(AddressRow)
      BY <3>1, <3>2, <3>3, ExceptSeq DEF TypeOK
    <3> QED  BY <1>5, <2>1, <3>1, <3>4 DEF AssignWord, TypeOK
  <2>2. CASE id \notin DOMAIN Words
    BY <1>5, <2>2 DEF AssignWord, TypeOK
  <2> QED  BY <2>1, <2>2
<1>6. CASE ReadAddress(r)
  <2>1. AddressOf(ask[r].name) \in Addresses \cup {Nil}
    BY LookupTypes DEF TypeOK
  <2> QED  BY <1>6, <2>1 DEF ReadAddress, Starts, TypeOK
<1> QED  BY <1>1, <1>2, <1>3, <1>4, <1>5, <1>6 DEF Does, Handle

-----------------------------------------------------------------------------
(* The table only grows, and a word once assigned stays                    *)

LEMMA OthersUntouched ==
    ASSUME TypeOK, NEW r \in Requests, Does(r)
    PROVE  \A s \in Requests : s # r =>
              /\ pc'[s] = pc[s] /\ ask'[s] = ask[s]
              /\ row'[s] = row[s] /\ answer'[s] = answer[s]
  BY DEF Does, Handle, Ask, Abort, RefuseToken, LookUp, ReadWord, CreateAddress,
     AssignWord, ReadAddress, Becomes, Answers, TypeOK

LEMMA RowsStay ==
    ASSUME TypeOK, RowIsOwn, WordIsOwn, NEW r \in Requests, Does(r)
    PROVE  \A i \in DOMAIN addresses :
              /\ i \in DOMAIN addresses'
              /\ addresses'[i].address = addresses[i].address
              /\ addresses[i].word_id # 0 => addresses'[i] = addresses[i]
<1>0. \A i \in DOMAIN addresses : addresses[i] \in AddressRow
  BY LenProperties, ElementOfSeq DEF TypeOK
<1>1. CASE CreateAddress(r)
  <2>1. [address |-> ask[r].name, word_id |-> 0] \in AddressRow
    BY <1>1 DEF CreateAddress, RowIsOwn, TypeOK, Question, AddressRow, Working
  <2> QED  BY <1>1, <2>1, AppendRow DEF CreateAddress, TypeOK
<1>2. CASE AssignWord(r) /\ row[r] \in DOMAIN Words
  <2>1. addresses' = [addresses EXCEPT ![row[r]].word_id = row[r]]
    BY <1>2 DEF AssignWord
  <2> QED  BY <1>0, <2>1 DEF WordIsOwn, AddressRow
<1>3. CASE addresses' = addresses
  BY <1>3
<1> QED  BY <1>1, <1>2, <1>3 DEF Does, Handle, Ask, Abort, RefuseToken, LookUp,
         ReadWord, AssignWord, ReadAddress

LEMMA RowIsOwnStep ==
    ASSUME TypeOK, RowIsOwn, WordIsOwn, NEW r \in Requests, Does(r)
    PROVE  RowIsOwn'
<1> DEFINE Own(s) ==
        /\ pc[s] = "assigning" =>
              /\ row[s] \in DOMAIN addresses
              /\ addresses[row[s]].address = ask[s].name
        /\ pc[s] = "found" =>
              \E i \in DOMAIN addresses : addresses[i].address = ask[s].name
        /\ pc[s] \in Working => ask[s].endpoint = "address"
<1> SUFFICES ASSUME NEW s \in Requests PROVE Own(s)'
  BY DEF RowIsOwn
<1>0. Own(s)
  BY DEF RowIsOwn
<1>1. CASE s # r
  <2>1. pc'[s] = pc[s] /\ ask'[s] = ask[s] /\ row'[s] = row[s]
    BY <1>1, OthersUntouched
  <2> QED  BY <1>0, <2>1, RowsStay
<1>2. CASE s = r /\ LookUp(r)
  <2>1. pc'[r] = "found" => RowOf(ask[r].name) # 0
    BY <1>2 DEF LookUp, Becomes, TypeOK
  <2>2. pc'[r] # "assigning" /\ ask' = ask /\ addresses' = addresses
    BY <1>2 DEF LookUp, Becomes, TypeOK
  <2>3. ask[r].endpoint = "address"
    BY <1>2 DEF LookUp, Starts
  <2> QED  BY <1>2, <2>1, <2>2, <2>3, LookupTypes DEF TypeOK
<1>3. CASE s = r /\ CreateAddress(r)
  <2> DEFINE new == [address |-> ask[r].name, word_id |-> 0]
  <2>1. new \in AddressRow
    BY <1>3 DEF CreateAddress, RowIsOwn, TypeOK, Question, AddressRow, Working
  <2>2. /\ pc[r] = "creating" /\ pc'[r] = "assigning" /\ ask' = ask
        /\ row'[r] = Len(addresses) + 1 /\ addresses' = Append(addresses, new)
    BY <1>3 DEF CreateAddress, Becomes, TypeOK
  <2>3. row'[r] \in DOMAIN addresses' /\ addresses'[row'[r]] = new
    BY <2>1, <2>2, AppendRow DEF TypeOK
  <2> QED  BY <1>0, <1>3, <2>2, <2>3 DEF Working
<1>4. CASE s = r /\ ~LookUp(r) /\ ~CreateAddress(r)
  <2>1. pc'[r] \notin Working
    BY <1>4 DEF Does, Handle, Ask, Abort, RefuseToken, ReadWord, AssignWord,
       ReadAddress, Becomes, Answers, TypeOK, Working
  <2> QED  BY <1>4, <2>1 DEF Working
<1> QED  BY <1>1, <1>2, <1>3, <1>4

LEMMA WordIsOwnStep ==
    ASSUME TypeOK, RowIsOwn, WordIsOwn, NEW r \in Requests, Does(r)
    PROVE  WordIsOwn'
<1> SUFFICES ASSUME NEW i \in DOMAIN addresses', addresses'[i].word_id # 0
             PROVE  addresses'[i].word_id = i /\ i \in DOMAIN Words
  BY DEF WordIsOwn
<1>1. CASE CreateAddress(r)
  <2> DEFINE new == [address |-> ask[r].name, word_id |-> 0]
  <2>1. new \in AddressRow
    BY <1>1 DEF CreateAddress, RowIsOwn, TypeOK, Question, AddressRow, Working
  <2>2. addresses' = Append(addresses, new)
    BY <1>1 DEF CreateAddress
  <2>3. i \in DOMAIN addresses /\ addresses'[i] = addresses[i]
    BY <2>1, <2>2, AppendRow DEF TypeOK
  <2> QED  BY <2>3 DEF WordIsOwn
<1>2. CASE AssignWord(r) /\ row[r] \in DOMAIN Words
  <2>1. addresses' = [addresses EXCEPT ![row[r]].word_id = row[r]]
    BY <1>2 DEF AssignWord
  <2>2. addresses[i] \in AddressRow /\ i \in DOMAIN addresses
    BY <2>1, LenProperties, ElementOfSeq DEF TypeOK
  <2> QED  BY <1>2, <2>1, <2>2 DEF WordIsOwn, AddressRow
<1>3. CASE addresses' = addresses
  BY <1>3 DEF WordIsOwn
<1> QED  BY <1>1, <1>2, <1>3 DEF Does, Handle, Ask, Abort, RefuseToken, LookUp,
         ReadWord, AssignWord, ReadAddress

-----------------------------------------------------------------------------
(* What is told is what the table says                                     *)

\* What POST /backend/word finds is a row that bears the word.
LEMMA FoundAddress ==
    ASSUME TypeOK, WordIsOwn, NEW w, AddressOf(w) # Nil
    PROVE  \E i \in DOMAIN addresses \cap DOMAIN Words :
              addresses[i] = [address |-> AddressOf(w), word_id |-> i] /\ w = Words[i]
<1> DEFINE ws  == {j \in DOMAIN Words : Words[j] = w}
           v   == First(ws)
           ids == {j \in DOMAIN addresses : v # 0 /\ addresses[j].word_id = v}
           a   == First(ids)
<1>1. /\ ws \in SUBSET Nat /\ 0 \notin ws
      /\ ids \in SUBSET Nat /\ 0 \notin ids
  BY WordsType, LenProperties DEF TypeOK
<1>2. a # 0 /\ AddressOf(w) = addresses[a].address
  BY DEF AddressOf
<1>3. a \in ids
  BY <1>1, <1>2, FirstMember
<1>4. v # 0 /\ a \in DOMAIN addresses /\ addresses[a].word_id = v
  BY <1>3
<1>5. v \in ws
  BY <1>1, <1>4, FirstMember
<1>6. a = v /\ a \in DOMAIN Words /\ Words[a] = w
  BY <1>4, <1>5 DEF WordIsOwn
<1>7. addresses[a] \in AddressRow
  BY <1>4, LenProperties, ElementOfSeq DEF TypeOK
<1>8. addresses[a] = [address |-> AddressOf(w), word_id |-> a]
  BY <1>2, <1>4, <1>6, <1>7 DEF AddressRow
<1> QED  BY <1>4, <1>6, <1>8

LEMMA TellsTheTableStep ==
    ASSUME DirectoryInv, NEW r \in Requests, Does(r)
    PROVE  TellsTheTable'
<1> DEFINE Says(address, word) == \E i \in DOMAIN addresses \cap DOMAIN Words :
              addresses[i] = [address |-> address, word_id |-> i] /\ word = Words[i]
<1>0. TypeOK /\ RowIsOwn /\ WordIsOwn /\ TellsTheTable
  BY DEF DirectoryInv
<1>1. ASSUME NEW address, NEW word, Says(address, word)
      PROVE  Says(address, word)'
  <2>1. PICK i \in DOMAIN addresses \cap DOMAIN Words :
           addresses[i] = [address |-> address, word_id |-> i] /\ word = Words[i]
    BY <1>1
  <2>2. addresses[i].word_id # 0
    BY <2>1, WordsType
  <2>3. i \in DOMAIN addresses' /\ addresses'[i] = addresses[i]
    BY <1>0, <2>2, RowsStay
  <2> QED  BY <2>1, <2>3
<1> SUFFICES ASSUME NEW s \in Requests
             PROVE  /\ Told(s, "address")' => Says(ask[s].name, answer[s])'
                    /\ Told(s, "word")' => Says(answer[s], ask[s].name)'
  BY DEF TellsTheTable
<1>2. ASSUME pc'[s] = pc[s], ask'[s] = ask[s], answer'[s] = answer[s]
      PROVE  /\ Told(s, "address")' => Says(ask[s].name, answer[s])'
             /\ Told(s, "word")' => Says(answer[s], ask[s].name)'
  <2>1. /\ Told(s, "address") => Says(ask[s].name, answer[s])
        /\ Told(s, "word") => Says(answer[s], ask[s].name)
    BY <1>0 DEF TellsTheTable
  <2>2. (Told(s, "address")' <=> Told(s, "address")) /\ (Told(s, "word")' <=> Told(s, "word"))
    BY <1>2 DEF Told
  <2>3. /\ Told(s, "address") => Says(ask[s].name, answer[s])'
        /\ Told(s, "word") => Says(answer[s], ask[s].name)'
    BY <1>1, <1>2, <2>1
  <2> QED  BY <2>2, <2>3
<1>3. CASE s # r
  BY <1>0, <1>2, <1>3, OthersUntouched
<1>4. CASE s = r /\ ReadWord(r)
  <2> DEFINE i == RowOf(ask[r].name)
  <2>1. pc[r] = "found" /\ ask' = ask /\ ask[r].endpoint = "address"
    BY <1>0, <1>4 DEF ReadWord, RowIsOwn, Working
  <2>2. i \in DOMAIN addresses /\ addresses[i].address = ask[r].name
    BY <1>0, <2>1, LookupTypes DEF RowIsOwn, TypeOK
  <2>3. CASE addresses[i].word_id # 0
    <3>1. addresses[i].word_id = i /\ i \in DOMAIN Words
      BY <1>0, <2>2, <2>3 DEF WordIsOwn
    <3>2. addresses[i] \in AddressRow
      BY <1>0, <2>2, LenProperties, ElementOfSeq DEF TypeOK
    <3>3. addresses[i] = [address |-> ask[r].name, word_id |-> i]
      BY <2>2, <3>1, <3>2 DEF AddressRow
    <3>4. answer'[r] = Words[i]
      BY <1>0, <1>4, <2>3, <3>1 DEF ReadWord, Answers, TypeOK
    <3>5. i \in DOMAIN addresses' /\ addresses'[i] = addresses[i]
      BY <1>0, <2>2, <2>3, RowsStay
    <3>6. /\ ask'[r].name = ask[r].name
          /\ ~Told(r, "word")'
      BY <2>1 DEF Told
    <3> HIDE DEF i
    <3> QED  BY <1>4, <3>1, <3>3, <3>4, <3>5, <3>6
  <2>4. CASE addresses[i].word_id = 0
    BY <1>0, <1>4, <2>4 DEF ReadWord, Becomes, Told, TypeOK
  <2> QED  BY <2>3, <2>4
<1>5. CASE s = r /\ AssignWord(r)
  <2> DEFINE i == row[r]
  <2>1. /\ i \in DOMAIN addresses /\ addresses[i].address = ask[r].name
        /\ ask[r].endpoint = "address" /\ ask' = ask
    BY <1>0, <1>5 DEF AssignWord, RowIsOwn, Working
  <2>2. CASE i \in DOMAIN Words
    <3>1. /\ addresses' = [addresses EXCEPT ![i].word_id = i]
          /\ answer'[r] = Words[i]
      BY <1>0, <1>5, <2>2 DEF AssignWord, Answers, TypeOK
    <3>2. addresses[i] \in AddressRow
      BY <1>0, <2>1, LenProperties, ElementOfSeq DEF TypeOK
    <3>3. i \in DOMAIN addresses' /\ addresses'[i] = [address |-> ask[r].name, word_id |-> i]
      BY <2>1, <3>1, <3>2 DEF AddressRow
    <3> QED  BY <1>5, <2>1, <2>2, <3>1, <3>3 DEF Told
  <2>3. CASE i \notin DOMAIN Words
    BY <1>0, <1>5, <2>3 DEF AssignWord, Becomes, Told, TypeOK
  <2> QED  BY <2>2, <2>3
<1>6. CASE s = r /\ ReadAddress(r)
  <2> DEFINE address == AddressOf(ask[r].name)
  <2>1. ask[r].endpoint = "word" /\ ask' = ask
    BY <1>6 DEF ReadAddress, Starts
  <2>2. CASE address # Nil
    <3>1. answer'[r] = address
      BY <1>0, <1>6, <2>2 DEF ReadAddress, Answers, TypeOK
    <3>2. PICK i \in DOMAIN addresses \cap DOMAIN Words :
             addresses[i] = [address |-> address, word_id |-> i] /\ ask[r].name = Words[i]
      BY <1>0, <2>2, FoundAddress
    <3>3. addresses[i].word_id # 0
      BY <3>2, WordsType
    <3>4. i \in DOMAIN addresses' /\ addresses'[i] = addresses[i]
      BY <1>0, <3>3, RowsStay
    <3>5. addresses'[i] = [address |-> answer'[r], word_id |-> i] /\ ask'[r].name = Words[i]
      BY <2>1, <3>1, <3>2, <3>4
    <3>6. ~Told(r, "address")'
      BY <2>1 DEF Told
    <3> QED  BY <1>6, <3>4, <3>5, <3>6
  <2>3. CASE address = Nil
    BY <1>0, <1>6, <2>3 DEF ReadAddress, Becomes, Told, TypeOK
  <2> QED  BY <2>2, <2>3
<1>7. CASE s = r /\ ~ReadWord(r) /\ ~AssignWord(r) /\ ~ReadAddress(r)
  <2>1. pc'[r] # "ok"
    BY <1>0, <1>7 DEF Does, Handle, Ask, Abort, RefuseToken, LookUp, CreateAddress,
       Becomes, TypeOK
  <2> QED  BY <1>7, <2>1 DEF Told
<1> QED  BY <1>3, <1>4, <1>5, <1>6, <1>7

LEMMA DirectoryInvariant == Spec => []DirectoryInv
<1>1. Init => DirectoryInv
  BY InitType DEF Init, DirectoryInv, RowIsOwn, WordIsOwn, TellsTheTable, Told, Working
<1>2. DirectoryInv /\ [Next]_vars => DirectoryInv'
  <2> SUFFICES ASSUME DirectoryInv, [Next]_vars PROVE DirectoryInv'
    OBVIOUS
  <2>1. CASE \E r \in Requests : Does(r)
    BY <2>1, StepType, RowIsOwnStep, WordIsOwnStep, TellsTheTableStep DEF DirectoryInv
  <2>2. CASE UNCHANGED vars
    BY <2>2 DEF vars, DirectoryInv, TypeOK, RowIsOwn, WordIsOwn, TellsTheTable, Told
  <2> QED  BY <2>1, <2>2 DEF Next, Terminating, Does
<1> QED  BY <1>1, <1>2, PTL DEF Spec

\* The table and the handlers' locals keep their types.
THEOREM DirectoryTypeCorrect == Spec => []TypeOK
<1>1. DirectoryInv => TypeOK
  BY DEF DirectoryInv
<1> QED  BY <1>1, DirectoryInvariant, PTL

\* The table of words was seeded once, with the words of public/words.txt.
WordsAreDistinct == \A i, j \in DOMAIN Words : Words[i] = Words[j] => i = j

\* Where the table says which word an address has, the word leads back to it.
LEMMA LeadsBack ==
    ASSUME WordsAreDistinct, TypeOK, WordIsOwn,
           NEW i \in DOMAIN addresses \cap DOMAIN Words, NEW address,
           addresses[i] = [address |-> address, word_id |-> i]
    PROVE  AddressOf(Words[i]) = address
<1>1. i \in Nat /\ i # 0
  BY WordsType
<1>2. {j \in DOMAIN Words : Words[j] = Words[i]} = {i}
  BY DEF WordsAreDistinct
<1>3. {j \in DOMAIN addresses : i # 0 /\ addresses[j].word_id = i} = {i}
  BY <1>1 DEF WordIsOwn
<1> DEFINE v   == First({j \in DOMAIN Words : Words[j] = Words[i]})
           ids == {j \in DOMAIN addresses : v # 0 /\ addresses[j].word_id = v}
<1>4. v = i
  BY <1>1, <1>2, FirstOfOne
<1>5. First(ids) = i
  BY <1>1, <1>3, <1>4, FirstOfOne
<1>6. AddressOf(Words[i]) = IF First(ids) = 0 THEN Nil ELSE addresses[First(ids)].address
  BY DEF AddressOf
<1> HIDE DEF ids
<1> QED  BY <1>1, <1>5, <1>6

\* With distinct words, whatever runs at once and is cut off, and whether or
\* not the words last: a word that was told leads to the address it was told
\* for, for ever.
THEOREM WordsResolve == ASSUME WordsAreDistinct PROVE Spec => []WordResolves
<1>1. DirectoryInv => WordResolves
  BY LeadsBack DEF DirectoryInv, TellsTheTable, WordResolves
<1> QED  BY <1>1, DirectoryInvariant, PTL

\* Likewise an address that was told for a word, so that a cache of it never
\* goes stale.
THEOREM AddressesStand == ASSUME WordsAreDistinct PROVE Spec => []AddressStands
<1>1. DirectoryInv => AddressStands
  BY LeadsBack DEF DirectoryInv, TellsTheTable, AddressStands
<1> QED  BY <1>1, DirectoryInvariant, PTL

-----------------------------------------------------------------------------
(* The directory keeps the promise of the book of words                    *)

\* A word means the address in the row with its own id, once that row bears it.
Means(w) ==
    \/ \E i \in DOMAIN addresses \cap DOMAIN Words :
          /\ Words[i] = w /\ addresses[i].word_id = i
          /\ AddressOf(w) = addresses[i].address /\ AddressOf(w) \in Addresses
    \/ /\ AddressOf(w) = Nil
       /\ \A i \in DOMAIN addresses \cap DOMAIN Words :
             Words[i] = w => addresses[i].word_id # i

\* The lookup of a word finds its meaning.
LEMMA WordsMean ==
    ASSUME WordsAreDistinct
    PROVE  DirectoryInv => \A w : Means(w)
<1> SUFFICES ASSUME DirectoryInv, NEW w PROVE Means(w)
  OBVIOUS
<1> USE DEF DirectoryInv
<1>0. \A i \in DOMAIN addresses : addresses[i] \in AddressRow
  BY LenProperties, ElementOfSeq DEF TypeOK
<1>1. CASE AddressOf(w) # Nil
  <2>1. PICK i \in DOMAIN addresses \cap DOMAIN Words :
           addresses[i] = [address |-> AddressOf(w), word_id |-> i] /\ w = Words[i]
    BY <1>1, FoundAddress
  <2>2. addresses[i].word_id = i /\ addresses[i].address = AddressOf(w)
    BY <2>1
  <2>3. addresses[i].address \in Addresses
    BY <1>0 DEF AddressRow
  <2> QED  BY <2>1, <2>2, <2>3 DEF Means
<1>2. CASE AddressOf(w) = Nil
  <2> SUFFICES ASSUME NEW i \in DOMAIN addresses \cap DOMAIN Words,
                      Words[i] = w, addresses[i].word_id = i
               PROVE  FALSE
    BY <1>2 DEF Means
  <2>1. addresses[i] = [address |-> addresses[i].address, word_id |-> i]
    BY <1>0 DEF AddressRow
  <2>2. AddressOf(Words[i]) = addresses[i].address
    BY <2>1, LeadsBack
  <2>3. addresses[i].address \in Addresses
    BY <1>0 DEF AddressRow
  <2> QED  BY <1>2, <2>2, <2>3, DirectoryAssumption
<1> QED  BY <1>1, <1>2

\* A row that a step leaves alone keeps the meaning of its word.
LEMMA MeaningStays ==
    ASSUME WordsAreDistinct, NEW w, Means(w), Means(w)',
           \A i \in DOMAIN Words : Words[i] = w =>
              /\ i \in DOMAIN addresses => i \in DOMAIN addresses'
                                         /\ addresses'[i] = addresses[i]
              /\ i \in DOMAIN addresses' \ DOMAIN addresses =>
                    addresses'[i].word_id # i
    PROVE  AddressOf(w)' = AddressOf(w)
<1>1. CASE AddressOf(w) = Nil /\ \A i \in DOMAIN addresses \cap DOMAIN Words :
             Words[i] = w => addresses[i].word_id # i
  BY <1>1 DEF Means
<1>2. CASE \E i \in DOMAIN addresses \cap DOMAIN Words :
             /\ Words[i] = w /\ addresses[i].word_id = i
             /\ AddressOf(w) = addresses[i].address
  BY <1>2 DEF Means, WordsAreDistinct
<1> QED  BY <1>1, <1>2 DEF Means

\* The promise of the book, whatever runs at once, is cut off or runs out.
THEOREM DirectoryKeepsTheBook == ASSUME WordsAreDistinct PROVE Spec => KeepsTheBook
<1>1. Init => Book!Init
  <2> SUFFICES ASSUME Init PROVE \A w \in Spoken : AddressOf(w) = Nil
    BY DEF Book!Init
  <2>1. DirectoryInv
    BY InitType DEF Init, DirectoryInv, RowIsOwn, WordIsOwn, TellsTheTable, Told, Working
  <2>2. \A w : Means(w)
    BY <2>1, WordsMean
  <2>3. DOMAIN addresses = {}
    BY DEF Init
  <2> QED  BY <2>2, <2>3 DEF Means
<1>2. DirectoryInv => \A w : Means(w)
  BY WordsMean
<1>3. (DirectoryInv => \A w : Means(w))'
  BY WordsMean, PTL
<1>4. DirectoryInv /\ DirectoryInv' /\ [Next]_vars
        => [Book!Next]_([word \in Spoken |-> AddressOf(word)])
  <2> SUFFICES ASSUME DirectoryInv, DirectoryInv', [Next]_vars
               PROVE  \/ \A w \in Spoken : AddressOf(w)' = AddressOf(w)
                      \/ Book!Next
    OBVIOUS
  <2>1. \A w : Means(w) /\ Means(w)'
    BY <1>2, <1>3
  <2>2. CASE addresses' = addresses
    <3>1. \A w \in Spoken : AddressOf(w)' = AddressOf(w)
      BY <2>2 DEF AddressOf
    <3> QED  BY <3>1
  <2>3. ASSUME NEW r \in Requests, CreateAddress(r)
        PROVE  \A w \in Spoken : AddressOf(w)' = AddressOf(w)
    <3> DEFINE e == [address |-> ask[r].name, word_id |-> 0]
    <3>1. e \in AddressRow /\ addresses \in Seq(AddressRow)
      <4>1. ask[r].endpoint = "address"
        BY <2>3 DEF CreateAddress, DirectoryInv, RowIsOwn, Working
      <4>2. ask[r] \in Question
        BY <2>3 DEF CreateAddress, DirectoryInv, TypeOK
      <4> QED  BY <4>1, <4>2 DEF Question, AddressRow, DirectoryInv, TypeOK
    <3>2. addresses' = Append(addresses, e)
      BY <2>3 DEF CreateAddress
    <3>3. \A i \in DOMAIN addresses : i \in DOMAIN addresses' /\ addresses'[i] = addresses[i]
      BY <3>1, <3>2, AppendRow
    <3>4. \A i \in DOMAIN addresses' \ DOMAIN addresses : addresses'[i].word_id = 0
      BY <3>1, <3>2, AppendRow
    <3>5. 0 \notin DOMAIN Words
      BY WordsType
    <3> QED  BY <2>1, <3>3, <3>4, <3>5, MeaningStays
  <2>4. ASSUME NEW r \in Requests, AssignWord(r), row[r] \in DOMAIN Words
        PROVE  \/ \A w \in Spoken : AddressOf(w)' = AddressOf(w)
               \/ Book!Next
    <3>0. PICK id \in DOMAIN Words : id = row[r]
      BY <2>4
    <3>00. PICK a : a = addresses[row[r]].address
      OBVIOUS
    <3> DEFINE v == Words[id]
    <3>1. id \in DOMAIN addresses /\ v \in Spoken /\ a = addresses[id].address
      BY <2>4, <3>0, <3>00, WordsType DEF AssignWord, DirectoryInv, RowIsOwn
    <3>2. a \in Addresses /\ addresses[id] \in AddressRow
      <4>1. addresses[id] \in AddressRow
        BY <3>1, LenProperties, ElementOfSeq DEF DirectoryInv, TypeOK
      <4> QED  BY <3>1, <4>1 DEF AddressRow
    <3>3. addresses' = [addresses EXCEPT ![id].word_id = id]
      BY <2>4, <3>0 DEF AssignWord
    <3>4. /\ DOMAIN addresses' = DOMAIN addresses
          /\ \A i \in DOMAIN addresses \ {id} : addresses'[i] = addresses[i]
          /\ addresses'[id].word_id = id /\ addresses'[id].address = a
      BY <3>0, <3>1, <3>2, <3>3 DEF AddressRow
    <3>5. \A w \in Spoken : w # v => AddressOf(w)' = AddressOf(w)
      BY <2>1, <3>4, MeaningStays
    <3>6. AddressOf(v)' = a
      BY <2>1, <3>1, <3>4 DEF Means, WordsAreDistinct
    <3>7. AddressOf(v) \in {a, Nil}
      BY <2>1, <3>1 DEF Means, WordsAreDistinct
    <3>8. CASE AddressOf(v) = a
      BY <3>5, <3>6, <3>8
    <3>9. CASE AddressOf(v) = Nil
      <4>1. [word \in Spoken |-> AddressOf(word)]'
              = [[word \in Spoken |-> AddressOf(word)] EXCEPT ![v] = a]
        BY <3>1, <3>5, <3>6
      <4>2. Book!Assign(v, a)
        BY <3>1, <3>9, <4>1 DEF Book!Assign
      <4> QED  BY <3>1, <3>2, <4>2 DEF Book!Next
    <3> QED  BY <3>7, <3>8, <3>9
  <2> QED
    BY <2>2, <2>3, <2>4 DEF Next, Terminating, vars, Handle, Ask, Abort, RefuseToken,
       LookUp, ReadWord, AssignWord, ReadAddress
<1> QED  BY <1>1, <1>4, DirectoryInvariant, PTL DEF Spec, KeepsTheBook, Book!Spec

-----------------------------------------------------------------------------
(* One handler at a time: one word for an address *)

Serial == \A r, s \in Requests : (pc[r] \in Working /\ pc[s] \in Working) => r = s

\* No address has two rows, and none gets a second one.
OneRowEach ==
    /\ \A i, j \in DOMAIN addresses : addresses[i].address = addresses[j].address => i = j
    /\ \A r \in Requests : pc[r] = "creating" =>
          \A i \in DOMAIN addresses : addresses[i].address # ask[r].name

SerialInv == DirectoryInv /\ Serial /\ OneRowEach

LEMMA SerialStep ==
    ASSUME Capacity = 1, TypeOK, Serial, NEW r \in Requests, Does(r) PROVE Serial'
<1>1. CASE pc'[r] \in Working /\ pc[r] \notin Working
  <2>1. Cardinality(InService) < 1 /\ IsFiniteSet(InService)
    BY <1>1, DirectoryAssumption, FS_Subset DEF InService, Does, Handle, Ask, Abort,
       RefuseToken, LookUp, Starts, ReadWord, CreateAddress, AssignWord, ReadAddress,
       Becomes, Answers, Working, TypeOK
  <2>2. InService = {}
    BY <2>1, FS_EmptySet, FS_CardinalityType
  <2> QED  BY <2>2, OthersUntouched DEF Serial, InService
<1>2. CASE ~(pc'[r] \in Working /\ pc[r] \notin Working)
  BY <1>2, OthersUntouched DEF Serial
<1> QED  BY <1>1, <1>2

LEMMA OneRowEachStep ==
    ASSUME SerialInv, NEW r \in Requests, Does(r) PROVE OneRowEach'
<1>0. /\ TypeOK /\ RowIsOwn /\ WordIsOwn /\ Serial /\ OneRowEach
      /\ DOMAIN addresses = 1 .. Len(addresses) /\ Len(addresses) \in Nat
      /\ \A i \in DOMAIN addresses : addresses[i] \in AddressRow
  BY LenProperties, ElementOfSeq DEF SerialInv, DirectoryInv, TypeOK
<1>1. CASE CreateAddress(r)
  <2> DEFINE new == [address |-> ask[r].name, word_id |-> 0]
  <2>1. ask[r].name \in Addresses
    BY <1>0, <1>1 DEF CreateAddress, RowIsOwn, TypeOK, Question, Working
  <2>2. new \in AddressRow
    BY <2>1 DEF AddressRow
  <2>3. /\ DOMAIN addresses' = 1 .. (Len(addresses) + 1)
        /\ \A i \in DOMAIN addresses : addresses'[i] = addresses[i]
        /\ addresses'[Len(addresses) + 1] = new
    BY <1>0, <1>1, <2>2, AppendRow DEF CreateAddress, TypeOK
  <2>4. \A i \in DOMAIN addresses : addresses[i].address # new.address
    BY <1>0, <1>1 DEF OneRowEach, CreateAddress
  <2>5. \A s \in Requests : pc'[s] # "creating"
    BY <1>0, <1>1, OthersUntouched DEF CreateAddress, Becomes, Serial, Working, TypeOK
  <2> HIDE DEF new
  <2>6. \A i, j \in DOMAIN addresses' : addresses'[i].address = addresses'[j].address => i = j
    BY <1>0, <2>3, <2>4 DEF OneRowEach
  <2> QED  BY <2>5, <2>6 DEF OneRowEach
<1>2. CASE ~CreateAddress(r)
  <2>1. /\ DOMAIN addresses' = DOMAIN addresses
        /\ \A i \in DOMAIN addresses : addresses'[i].address = addresses[i].address
    <3>1. CASE AssignWord(r) /\ addresses' # addresses
      <4>1. addresses' = [addresses EXCEPT ![row[r]].word_id = row[r]]
        BY <3>1 DEF AssignWord
      <4> QED  BY <1>0, <4>1 DEF AddressRow
    <3>2. CASE ~AssignWord(r) \/ addresses' = addresses
      BY <1>2, <3>2 DEF Does, Handle, Ask, Abort, RefuseToken, LookUp, ReadWord, ReadAddress
    <3> QED  BY <3>1, <3>2
  <2>2. ASSUME NEW s \in Requests, pc'[s] = "creating"
        PROVE  /\ ask'[s] = ask[s]
               /\ \A i \in DOMAIN addresses : addresses[i].address # ask[s].name
    <3>1. CASE s # r
      BY <1>0, <2>2, <3>1, OthersUntouched DEF OneRowEach
    <3>2. CASE s = r
      <4>1. LookUp(r) /\ RowOf(ask[r].name) = 0
        BY <1>0, <1>2, <2>2, <3>2 DEF Does, Handle, Ask, Abort, RefuseToken, LookUp, ReadWord,
           AssignWord, ReadAddress, Starts, Becomes, Answers, TypeOK
      <4>2. \A i \in DOMAIN addresses : addresses[i].address # ask[r].name
        BY <1>0, <4>1, LookupTypes DEF TypeOK
      <4> QED  BY <3>2, <4>1, <4>2 DEF LookUp
    <3> QED  BY <3>1, <3>2
  <2> QED  BY <1>0, <2>1, <2>2 DEF OneRowEach
<1> QED  BY <1>1, <1>2

\* Behind a lock, an address has one word for everybody, also when handlers are
\* cut off between the steps of create (addresses_controller).
THEOREM OneWordForEach == ASSUME Capacity = 1 PROVE Spec => []OneWordEach
<1>1. Init => Serial /\ OneRowEach
  BY DEF Init, Serial, OneRowEach, Working
<1>2. DirectoryInv /\ Serial /\ OneRowEach /\ [Next]_vars => Serial' /\ OneRowEach'
  <2> SUFFICES ASSUME SerialInv, [Next]_vars PROVE Serial' /\ OneRowEach'
    BY DEF SerialInv
  <2>1. CASE \E r \in Requests : Does(r)
    BY <2>1, SerialStep, OneRowEachStep DEF SerialInv, DirectoryInv
  <2>2. CASE UNCHANGED vars
    BY <2>2 DEF SerialInv, vars, Serial, OneRowEach
  <2> QED  BY <2>1, <2>2 DEF Next, Terminating, Does
<1>3. DirectoryInv /\ OneRowEach => OneWordEach
  <2> SUFFICES ASSUME DirectoryInv, OneRowEach, NEW r \in Requests, NEW s \in Requests,
                      Told(r, "address"), Told(s, "address"), ask[r].name = ask[s].name
               PROVE  answer[r] = answer[s]
    BY DEF OneWordEach
  <2>1. PICK i \in DOMAIN addresses \cap DOMAIN Words :
           addresses[i] = [address |-> ask[r].name, word_id |-> i] /\ answer[r] = Words[i]
    BY DEF DirectoryInv, TellsTheTable
  <2>2. PICK j \in DOMAIN addresses \cap DOMAIN Words :
           addresses[j] = [address |-> ask[s].name, word_id |-> j] /\ answer[s] = Words[j]
    BY DEF DirectoryInv, TellsTheTable
  <2> QED  BY <2>1, <2>2 DEF OneRowEach
<1> QED  BY <1>1, <1>2, <1>3, DirectoryInvariant, PTL DEF Spec

\* A row without a word has a maker that will give it one, or one that ended
\* before it did.
WordlessRows ==
    \A i \in DOMAIN addresses : addresses[i].word_id = 0 =>
        \E s \in Requests : row[s] = i /\ pc[s] \in {"assigning", "failed", "notfound"}

LEMMA WordlessRowsStep ==
    ASSUME DirectoryInv, WordlessRows, NEW r \in Requests, Does(r) PROVE WordlessRows'
<1> DEFINE Makes(s, i) == row[s] = i /\ pc[s] \in {"assigning", "failed", "notfound"}
<1>0. /\ TypeOK /\ RowIsOwn /\ WordIsOwn
      /\ \A i \in DOMAIN addresses : addresses[i] \in AddressRow
  BY LenProperties, ElementOfSeq DEF DirectoryInv, TypeOK
<1> SUFFICES ASSUME NEW i \in DOMAIN addresses', addresses'[i].word_id = 0
             PROVE  \E s \in Requests : Makes(s, i)'
  BY DEF WordlessRows
<1>1. CASE CreateAddress(r)
  <2> DEFINE new == [address |-> ask[r].name, word_id |-> 0]
  <2>1. new \in AddressRow
    BY <1>0, <1>1 DEF CreateAddress, RowIsOwn, TypeOK, Question, AddressRow, Working
  <2>2. /\ pc[r] = "creating" /\ pc'[r] = "assigning"
        /\ row'[r] = Len(addresses) + 1 /\ addresses' = Append(addresses, new)
    BY <1>0, <1>1 DEF CreateAddress, Becomes, TypeOK
  <2>3. CASE i = Len(addresses) + 1
    BY <2>2, <2>3
  <2>4. CASE i # Len(addresses) + 1
    <3>1. i \in DOMAIN addresses /\ addresses[i].word_id = 0
      BY <1>0, <2>1, <2>2, <2>4, AppendRow DEF TypeOK
    <3>2. PICK s \in Requests : Makes(s, i)
      BY <3>1 DEF WordlessRows
    <3>3. s # r
      BY <2>2, <3>2
    <3> QED  BY <1>0, <3>2, <3>3, OthersUntouched
  <2> QED  BY <2>3, <2>4
<1>2. CASE ~CreateAddress(r)
  <2>1. /\ i \in DOMAIN addresses /\ addresses[i].word_id = 0
        /\ row' = row
    <3>1. row' = row /\ DOMAIN addresses' = DOMAIN addresses
      BY <1>2 DEF Does, Handle, Ask, Abort, RefuseToken, LookUp, ReadWord, AssignWord, ReadAddress
    <3>2. addresses[i].word_id # 0 => addresses'[i] = addresses[i]
      BY <1>0, <3>1, RowsStay
    <3> QED  BY <3>1, <3>2
  <2>2. PICK s \in Requests : Makes(s, i)
    BY <2>1 DEF WordlessRows
  <2>3. CASE s # r
    BY <1>0, <2>2, <2>3, OthersUntouched
  <2>4. CASE s = r /\ AssignWord(r)
    <3>1. row[r] \notin DOMAIN Words
      <4> SUFFICES ASSUME row[r] \in DOMAIN Words PROVE FALSE
        OBVIOUS
      <4>1. addresses' = [addresses EXCEPT ![i].word_id = i] /\ i # 0
        BY <2>2, <2>4, WordsType DEF AssignWord
      <4> QED  BY <1>0, <2>1, <4>1 DEF AddressRow
    <3> QED  BY <1>0, <2>1, <2>2, <2>4, <3>1 DEF AssignWord, Becomes, TypeOK
  <2>5. CASE s = r /\ ~AssignWord(r)
    <3>1. pc'[r] = "failed"
      BY <1>0, <1>2, <2>2, <2>5 DEF Does, Handle, Ask, Abort, RefuseToken, LookUp, ReadWord,
         ReadAddress, Starts, Becomes, TypeOK, Working
    <3> QED  BY <2>1, <2>2, <2>5, <3>1
  <2> QED  BY <2>3, <2>4, <2>5
<1> QED  BY <1>1, <1>2

\* Behind a lock, the lookup of an address (addresses_controller) fails for want
\* of a word only when no word will ever come.
THEOREM OnlyBrokenOnesFail == ASSUME Capacity = 1 PROVE Spec => []OnlyBrokenRowsFail
<1>1. Init => Serial /\ WordlessRows
  BY DEF Init, Serial, WordlessRows, Working
<1>2. DirectoryInv /\ Serial /\ WordlessRows /\ [Next]_vars => Serial' /\ WordlessRows'
  <2> SUFFICES ASSUME DirectoryInv, Serial, WordlessRows, [Next]_vars
               PROVE  Serial' /\ WordlessRows'
    OBVIOUS
  <2>1. CASE \E r \in Requests : Does(r)
    BY <2>1, SerialStep, WordlessRowsStep DEF DirectoryInv
  <2>2. CASE UNCHANGED vars
    BY <2>2 DEF vars, Serial, WordlessRows
  <2> QED  BY <2>1, <2>2 DEF Next, Terminating, Does
<1>3. DirectoryInv /\ Serial /\ WordlessRows => OnlyBrokenRowsFail
  <2> SUFFICES ASSUME DirectoryInv, Serial, WordlessRows, NEW r \in Requests, pc[r] = "found",
                      addresses[RowOf(ask[r].name)].word_id = 0
               PROVE  \E s \in Requests : /\ row[s] = RowOf(ask[r].name)
                                          /\ pc[s] \in {"failed", "notfound"}
    BY DEF OnlyBrokenRowsFail
  <2>1. RowOf(ask[r].name) \in DOMAIN addresses
    BY LookupTypes DEF DirectoryInv, RowIsOwn, TypeOK
  <2>2. PICK s \in Requests : /\ row[s] = RowOf(ask[r].name)
                              /\ pc[s] \in {"assigning", "failed", "notfound"}
    BY <2>1 DEF WordlessRows
  <2>3. pc[s] # "assigning"
    BY DEF Serial, Working
  <2> QED  BY <2>2, <2>3
<1> QED  BY <1>1, <1>2, <1>3, DirectoryInvariant, PTL DEF Spec
=============================================================================
