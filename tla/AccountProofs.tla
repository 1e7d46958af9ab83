---------------------------- MODULE AccountProofs ----------------------------
(***************************************************************************)
(* Accounts: types; that addresses stay in the account they were typed in  *)
(* for; and what a session may rely on that is alone with its account.     *)
(*                                                                         *)
(* The first invariant, Basic, says of every session that the account its  *)
(* request works on has the name of the session, and of every document     *)
(* that is written or visible whose it is.  The second, Owned, follows the *)
(* account of a session that is alone through the steps of a change: what  *)
(* the index holds, what a search sees and what the session has a copy of. *)
(***************************************************************************)
EXTENDS Accounts, SequenceTheorems, WellFoundedInduction, TLAPS

EnteredBy(name) == {a \in Addresses : <<name, a>> \in entered}

\* A document of account i, current or visible, is absent or has its name and
\* addresses that were typed in for it.
DocsOK ==
    /\ \A i \in UserIds : ~Present(i) => users[i] = NoDoc /\ visible[i] = NoDoc
    /\ \A i \in UserIds : users[i].addresses \in Seq(EnteredBy(users[i].username))
    /\ \A i \in UserIds : visible[i] = NoDoc \/ visible[i].username = users[i].username

Changing == {"find", "get", "write", "wait", "reload"}
Working == {"get", "write", "wait", "reload"}

\* A request has what it needs, and works on an account of its session's name.
RequestOK(s) ==
    /\ req[s].pc \in {"check", "index"} => req[s].address \in Addresses
    /\ req[s].pc \in Changing =>
        /\ req[s].op \in {"add", "delete", "primary"}
        /\ req[s].op \in {"add", "delete"} => req[s].address \in Addresses
        /\ req[s].op = "add" => <<SessionName[s], req[s].address>> \in entered
        /\ req[s].op = "primary" => req[s].index \in Nat \ {0}
    /\ req[s].pc \in Working => req[s].id \in AccountsOf(SessionName[s])
    /\ req[s].pc = "write" =>
        /\ req[s].doc.username = SessionName[s]
        /\ req[s].doc.addresses \in Seq(EnteredBy(SessionName[s]))

Basic ==
    /\ TypeOK /\ DocsOK
    /\ \A s \in Sessions : RequestOK(s)
    /\ \A s \in Sessions : session[s].userId # NoUser =>
                                session[s].userId \in AccountsOf(SessionName[s])

-----------------------------------------------------------------------------
(* Sequences.                                                              *)

\* A set of numbers has a least one.
LEMMA MinExists ==
    ASSUME NEW S \in SUBSET Nat, S # {} PROVE Min(S) \in S
<1>1. PICK x \in S : \A y \in S : ~(<<y, x>> \in OpToRel(<, Nat))
    BY NatLessThanWellFounded, WFMin
<1>2. \A y, z \in Nat : y < z => <<y, z>> \in OpToRel(<, Nat)
    BY DEF OpToRel
<1>3. \A y \in S : ~(y < x)
    BY <1>1, <1>2
<1>4. \A y \in S : x <= y
    BY <1>3
<1> QED
    BY <1>4 DEF Min

\* What is removed from a sequence leaves the elements of the others alone.
LEMMA RemoveFirstOK ==
    ASSUME NEW S, NEW s \in Seq(S), NEW e PROVE RemoveFirst(s, e) \in Seq(S)
<1>1. ASSUME NEW i \in 1..Len(s) PROVE RemoveAt(s, i) \in Seq(S)
  <2>1. SubSeq(s, 1, i - 1) \in Seq(S) /\ SubSeq(s, i + 1, Len(s)) \in Seq(S)
      BY SubSeqProperties
  <2> QED
      BY <2>1, ConcatProperties DEF RemoveAt
<1> DEFINE I == {i \in 1..Len(s) : s[i] = e}
<1>2. CASE \E i \in 1..Len(s) : s[i] = e
  <2>1. I # {} /\ I \in SUBSET Nat
      BY <1>2
  <2>2. Min(I) \in 1..Len(s)
    <3> HIDE DEF I
    <3>1. Min(I) \in I
        BY <2>1, MinExists
    <3> QED
        BY <3>1 DEF I
  <2>3. SelectInSeq(s, LAMBDA v : v = e) = Min(I)
      BY <2>1 DEF SelectInSeq
  <2> QED
      BY <1>1, <1>2, <2>2, <2>3 DEF RemoveFirst
<1> QED
    BY <1>2 DEF RemoveFirst

\* The document after a change.
LEMMA ChangedOK ==
    ASSUME NEW doc \in MyUser, NEW r, r.op \in {"add", "delete", "primary"},
           r.op \in {"add", "delete"} => r.address \in Addresses,
           r.op = "primary" => r.index \in Nat \ {0},
           NEW S, doc.addresses \in Seq(S), r.op = "add" => r.address \in S
    PROVE  /\ Changed(doc, r) \in MyUser
           /\ Changed(doc, r).username = doc.username
           /\ Changed(doc, r).addresses \in Seq(S)
<1>0. doc.addresses \in Seq(Addresses) /\ doc.mainShippingAddress \in Nat
    BY DEF MyUser
<1>1. CASE r.op = "add"
  <2>1. Changed(doc, r) = [doc EXCEPT !.addresses = Append(@, r.address)]
      BY <1>1 DEF Changed
  <2>2. /\ Append(doc.addresses, r.address) \in Seq(Addresses)
        /\ Append(doc.addresses, r.address) \in Seq(S)
      BY <1>0, <1>1, AppendProperties
  <2> QED
      BY <2>1, <2>2 DEF MyUser
<1>2. CASE r.op = "delete"
  <2>1. Changed(doc, r) = [doc EXCEPT !.addresses = RemoveFirst(@, r.address)]
      BY <1>2 DEF Changed
  <2>2. /\ RemoveFirst(doc.addresses, r.address) \in Seq(Addresses)
        /\ RemoveFirst(doc.addresses, r.address) \in Seq(S)
      BY <1>0, RemoveFirstOK
  <2> QED
      BY <2>1, <2>2 DEF MyUser
<1>3. CASE r.op = "primary"
  <2>1. Changed(doc, r) = [doc EXCEPT !.mainShippingAddress = r.index - 1]
      BY <1>3 DEF Changed
  <2>2. r.index - 1 \in Nat
      BY <1>3
  <2> QED
      BY <2>1, <2>2 DEF MyUser
<1> QED
    BY <1>1, <1>2, <1>3

-----------------------------------------------------------------------------
(* The basic invariant.                                                    *)

\* Accounts keep their names, and what was typed in is not forgotten.
AccountsGrow ==
    /\ \A i \in UserIds : Present(i) => users'[i].username = users[i].username
    /\ entered \subseteq entered'

\* An account of a name remains one.
LEMMA AccountsStay ==
    ASSUME AccountsGrow, NEW s \in Sessions
    PROVE  AccountsOf(SessionName[s]) \subseteq AccountsOf(SessionName[s])'
  BY NullsAssumption, SessionNameAssumption DEF AccountsGrow, AccountsOf, Present

\* A request that nobody touches stays all right.
LEMMA RequestStays ==
    ASSUME AccountsGrow, NEW s \in Sessions, RequestOK(s), req'[s] = req[s]
    PROVE  RequestOK(s)'
<1>1. EnteredBy(SessionName[s]) \subseteq EnteredBy(SessionName[s])'
    BY DEF EnteredBy, AccountsGrow
<1>2. \A q \in Seq(EnteredBy(SessionName[s])) : q \in Seq(EnteredBy(SessionName[s])')
    BY <1>1, SeqMonotonic
<1>3. AccountsOf(SessionName[s]) \subseteq AccountsOf(SessionName[s])'
    BY AccountsStay
<1> QED
    BY <1>2, <1>3 DEF RequestOK, AccountsGrow

\* Documents that nobody touches stay all right.
LEMMA DocsStay ==
    ASSUME DocsOK, UNCHANGED indexVars, entered \subseteq entered'
    PROVE  DocsOK' /\ AccountsGrow
<1>1. \A name : EnteredBy(name) \subseteq {a \in Addresses : <<name, a>> \in entered'}
    BY DEF EnteredBy
<1>2. ASSUME NEW i \in UserIds
      PROVE  users[i].addresses \in Seq({a \in Addresses : <<users[i].username, a>> \in entered'})
    BY <1>1, SeqMonotonic DEF DocsOK
<1> QED
    BY <1>2 DEF DocsOK, AccountsGrow, indexVars, Present, EnteredBy

\* A step of one session that changes no document.
LEMMA SessionOnly ==
    ASSUME Basic, UNCHANGED indexVars, NEW s \in Sessions,
           NEW r \in Request, req' = [req EXCEPT ![s] = r],
           r.pc \in Working => r.id # NoUser, RequestOK(s)',
           NEW x \in Session, session' = [session EXCEPT ![s] = x],
           x.userId # NoUser => x.userId \in AccountsOf(SessionName[s]),
           entered \subseteq entered', entered' \subseteq Names \X Addresses,
           UNCHANGED <<registered, shrunk>>
    PROVE  Basic'
<1>1. DocsOK' /\ AccountsGrow
    BY DocsStay DEF Basic
<1>2. /\ \A t \in Sessions : req'[t] = IF t = s THEN r ELSE req[t]
      /\ \A t \in Sessions : session'[t] = IF t = s THEN x ELSE session[t]
    BY DEF Basic, TypeOK
<1>3. \A t \in Sessions : RequestOK(t)'
    BY <1>1, <1>2, RequestStays DEF Basic
<1>4. \A t \in Sessions : session'[t].userId # NoUser =>
                                session'[t].userId \in AccountsOf(SessionName[t])'
    BY <1>1, <1>2, AccountsStay DEF Basic
<1>5. TypeOK'
    BY <1>2 DEF Basic, TypeOK, indexVars, Working
<1> QED
    BY <1>1, <1>3, <1>4, <1>5 DEF Basic

\* The same when the session's attributes do not change ...
LEMMA RequestOnly ==
    ASSUME Basic, UNCHANGED indexVars, NEW s \in Sessions,
           NEW r \in Request, SetReq(s, r), session' = session,
           r.pc \in Working => r.id # NoUser, RequestOK(s)',
           entered \subseteq entered', entered' \subseteq Names \X Addresses,
           UNCHANGED <<registered, shrunk>>
    PROVE  Basic'
<1>1. /\ session' = [session EXCEPT ![s] = session[s]]
      /\ session[s] \in Session
    BY DEF Basic, TypeOK
<1> QED
    BY <1>1, SessionOnly DEF SetReq, Basic

\* ... and when only they change.
LEMMA AttributesOnly ==
    ASSUME Basic, UNCHANGED <<indexVars, req, historyVars>>, NEW s \in Sessions,
           NEW x \in Session, session' = [session EXCEPT ![s] = x],
           x.userId # NoUser => x.userId \in AccountsOf(SessionName[s])
    PROVE  Basic'
<1>1. /\ req' = [req EXCEPT ![s] = req[s]] /\ req[s] \in Request
      /\ req[s].pc \in Working => req[s].id # NoUser
    BY DEF Basic, TypeOK, Working
<1>2. RequestOK(s)'
    BY DocsStay, RequestStays DEF Basic, historyVars
<1>3. entered' = entered /\ entered \subseteq Names \X Addresses
      /\ UNCHANGED <<indexVars, registered, shrunk>>
    BY DEF Basic, TypeOK, historyVars
<1> QED
    BY <1>1, <1>2, <1>3, SessionOnly

\* What a search for a name finds is an account of that name.
LEMMA FoundIsNamed ==
    ASSUME DocsOK, NEW s \in Sessions, NEW i \in UserIds, Found(SessionName[s], i)
    PROVE  i \in AccountsOf(SessionName[s]) /\ visible[i].username = SessionName[s]
<1>1. visible[i].username = SessionName[s] /\ SessionName[s] # NoName
    BY NullsAssumption, SessionNameAssumption DEF Found
<1> QED
    BY <1>1 DEF DocsOK, AccountsOf, NoDoc

\* A request that has ended needs nothing.
LEMMA EndOK ==
    ASSUME Basic, NEW s \in Sessions, End(s), UNCHANGED <<indexVars, session, historyVars>>
    PROVE  Basic'
<1>1. /\ NoRequest \in Request /\ NoRequest.pc = "idle"
      /\ NoDoc \in MyUser
    BY EmptySeq DEF NoRequest, Request, NoDoc, MyUser
<1>2. req'[s] = NoRequest
    BY DEF End, SetReq, Basic, TypeOK
<1>3. RequestOK(s)'
    BY <1>1, <1>2 DEF RequestOK, Changing, Working
<1> QED
    BY <1>1, <1>3, RequestOnly DEF End, historyVars, Basic, TypeOK, Working

\* Requests that begin.
LEMMA BeginOK ==
    ASSUME Basic, NEW s \in Sessions,
           Register(s) \/ MakePrimary(s) \/ DeleteAddress(s) \/ AddAddress(s)
    PROVE  Basic'
<1>1. /\ NoDoc \in MyUser /\ session[s] \in Session /\ req \in [Sessions -> Request]
      /\ entered \subseteq Names \X Addresses /\ SessionName[s] \in Names
    BY EmptySeq, SessionNameAssumption DEF Basic, TypeOK, NoDoc, MyUser
<1>2. /\ Listed(s) \in Seq(Addresses) /\ ToSet(Listed(s)) \subseteq Addresses
      /\ DOMAIN Listed(s) \subseteq Nat \ {0}
      /\ \A i \in DOMAIN Listed(s) : Listed(s)[i] \in Addresses
  <2>1. Listed(s) \in Seq(Addresses)
      BY <1>1 DEF Listed, Session, MyUser
  <2> QED
      BY <2>1, ElementOfSeq, LenProperties DEF ToSet
<1>3. ASSUME NEW r \in Request, SetReq(s, r), r.pc \in {"check", "find"},
             r.address \in Addresses,
             r.pc = "find" => r.op \in {"add", "delete", "primary"},
             r.op = "add" => <<SessionName[s], r.address>> \in entered',
             r.op = "primary" => r.index \in Nat \ {0},
             UNCHANGED <<indexVars, session, registered, shrunk>>,
             entered \subseteq entered', entered' \subseteq Names \X Addresses
      PROVE  Basic'
  <2>1. req'[s] = r
      BY <1>1, <1>3 DEF SetReq
  <2>2. RequestOK(s)'
      BY <1>3, <2>1 DEF RequestOK, Changing, Working
  <2> QED
      BY <1>3, <2>2, RequestOnly DEF Working
<1>4. CASE Register(s)
  <2>1. PICK a, r : /\ a \in Addresses /\ SetReq(s, r)
                    /\ r = [NoRequest EXCEPT !.pc = "check", !.address = a]
      BY <1>4 DEF Register
  <2>2. r \in Request /\ r.pc = "check" /\ r.address = a /\ r.op = "none"
      BY <1>1, <2>1 DEF NoRequest, Request
  <2> QED
      BY <1>1, <1>3, <1>4, <2>1, <2>2 DEF Register, historyVars
<1>5. CASE MakePrimary(s)
  <2>1. PICK i, r :
            /\ i \in DOMAIN Listed(s) /\ SetReq(s, r)
            /\ r = [NoRequest EXCEPT !.pc = "find", !.op = "primary", !.index = i,
                                     !.address = Listed(s)[i]]
      BY <1>5 DEF MakePrimary
  <2>2. /\ r \in Request /\ r.pc = "find" /\ r.address \in Addresses
        /\ r.op = "primary" /\ r.index = i
    <3> DEFINE a == Listed(s)[i]
    <3>1. a \in Addresses /\ i \in Nat \ {0}
        BY <1>2, <2>1
    <3>2. r = [NoRequest EXCEPT !.pc = "find", !.op = "primary", !.index = i, !.address = a]
        BY <2>1
    <3> HIDE DEF a
    <3> QED
        BY <1>1, <3>1, <3>2 DEF NoRequest, Request
  <2> QED
      BY <1>1, <1>2, <1>3, <1>5, <2>1, <2>2 DEF MakePrimary, historyVars
<1>6. CASE DeleteAddress(s)
  <2>1. PICK a, r :
            /\ a \in ToSet(Listed(s)) /\ SetReq(s, r)
            /\ r = [NoRequest EXCEPT !.pc = "find", !.op = "delete", !.address = a]
      BY <1>6 DEF DeleteAddress
  <2>2. r \in Request /\ r.pc = "find" /\ r.address \in Addresses /\ r.op = "delete"
      BY <1>1, <1>2, <2>1 DEF NoRequest, Request
  <2> QED
      BY <1>1, <1>3, <1>6, <2>1, <2>2 DEF DeleteAddress, historyVars
<1>7. CASE AddAddress(s)
  <2>1. PICK a, r :
            /\ a \in Addresses /\ SetReq(s, r)
            /\ r = [NoRequest EXCEPT !.pc = "find", !.op = "add", !.address = a]
            /\ entered' = entered \cup {<<SessionName[s], a>>}
      BY <1>7 DEF AddAddress
  <2>2. r \in Request /\ r.pc = "find" /\ r.address = a /\ r.op = "add"
      BY <1>1, <2>1 DEF NoRequest, Request
  <2>3. /\ UNCHANGED <<indexVars, session, registered, shrunk>>
        /\ entered \subseteq entered' /\ entered' \subseteq Names \X Addresses
        /\ <<SessionName[s], a>> \in entered'
    <3>1. UNCHANGED <<indexVars, session, registered, shrunk>>
        BY <1>7 DEF AddAddress
    <3>2. <<SessionName[s], a>> \in Names \X Addresses
        BY <1>1, <2>1
    <3> QED
        BY <1>1, <2>1, <3>1, <3>2
  <2> QED
      BY <1>3, <2>1, <2>2, <2>3
<1> QED
    BY <1>4, <1>5, <1>6, <1>7

\* Steps that change the attributes of the session.
LEMMA AttributesOK ==
    ASSUME Basic, NEW s \in Sessions,
           Login(s) \/ Logout(s) \/ LoadUser(s) \/ ChooseAddress(s)
    PROVE  Basic'
<1>1. /\ session[s] \in Session /\ visible \in [UserIds -> MyUser]
      /\ session[s].userId # NoUser => session[s].userId \in AccountsOf(SessionName[s])
    BY DEF Basic, TypeOK
<1>2. CASE Login(s)
  <2>1. PICK x : session' = [session EXCEPT ![s] = x]
                 /\ x = [session[s] EXCEPT !.loggedIn = TRUE]
      BY <1>2 DEF Login
  <2>2. x \in Session /\ x.userId = session[s].userId
      BY <1>1, <2>1 DEF Session
  <2> QED
      BY <1>1, <1>2, <2>1, <2>2, AttributesOnly DEF Login
<1>3. CASE Logout(s)
  <2>1. NewSession \in Session /\ NewSession.userId = NoUser
      BY EmptySeq DEF NewSession, Session, NoDoc, MyUser
  <2> QED
      BY <1>3, <2>1, AttributesOnly DEF Logout
<1>4. CASE LoadUser(s)
  <2>1. PICK i \in UserIds : Found(SessionName[s], i) /\ session' = [session EXCEPT ![s] = Loaded(s, i)]
      BY <1>4 DEF LoadUser
  <2>2. Loaded(s, i) \in Session /\ Loaded(s, i).userId = i
      BY <1>1 DEF Loaded, Session
  <2>3. i \in AccountsOf(SessionName[s])
      BY <2>1, FoundIsNamed DEF Basic
  <2> QED
      BY <1>4, <2>1, <2>2, <2>3, AttributesOnly DEF LoadUser
<1>5. CASE ChooseAddress(s)
  <2>1. PICK i, x :
            /\ i \in DOMAIN Listed(s) /\ session' = [session EXCEPT ![s] = x]
            /\ x = WithShipAdd(session[s], i, Listed(s)[i])
      BY <1>5 DEF ChooseAddress
  <2>2. Listed(s)[i] \in Addresses /\ Listed(s) = session[s].user.addresses
      BY <1>1, <2>1, ElementOfSeq, LenProperties DEF Listed, Session, MyUser
  <2>3. x \in Session /\ x.userId = session[s].userId
      BY <1>1, <2>1, <2>2 DEF WithShipAdd, Session
  <2> QED
      BY <1>1, <1>5, <2>1, <2>3, AttributesOnly DEF ChooseAddress
<1> QED
    BY <1>2, <1>3, <1>4, <1>5

\* Requests on the way that change no document.
LEMMA RequestStepOK ==
    ASSUME Basic, NEW s \in Sessions,
           \/ CheckName(s) \/ CreateFails(s) \/ RequestFails(s)
           \/ FindUser(s) \/ GetUser(s) \/ Reload(s)
    PROVE  Basic'
<1>1. /\ req[s] \in Request /\ RequestOK(s) /\ req \in [Sessions -> Request]
      /\ users \in [UserIds -> MyUser] /\ visible \in [UserIds -> MyUser]
      /\ session[s] \in Session
      /\ entered \subseteq Names \X Addresses
    BY DEF Basic, TypeOK
<1>2. ASSUME NEW r \in Request, SetReq(s, r), r.op = req[s].op, r.address = req[s].address,
             r.index = req[s].index, r.pc \in Working => r.id \in AccountsOf(SessionName[s]),
             r.pc = "write" => /\ r.doc.username = SessionName[s]
                               /\ r.doc.addresses \in Seq(EnteredBy(SessionName[s])),
             req[s].pc \in Changing \/ r.pc \notin Changing,
             req[s].pc \in {"check", "index"} \/ r.pc \notin {"check", "index"},
             UNCHANGED <<indexVars, session, historyVars>>
      PROVE  Basic'
  <2>1. req'[s] = r
      BY <1>1, <1>2 DEF SetReq
  <2>2. RequestOK(s)'
      BY <1>1, <1>2, <2>1 DEF RequestOK, historyVars, indexVars, AccountsOf, EnteredBy
  <2>3. r.pc \in Working => r.id # NoUser
      BY <1>2, NullsAssumption DEF AccountsOf
  <2> QED
      BY <1>1, <1>2, <2>2, <2>3, RequestOnly DEF historyVars
<1>3. CASE CheckName(s)
  <2>1. CASE End(s)
      BY <1>3, <2>1, EndOK DEF CheckName
  <2>2. ASSUME NEW r, r = [req[s] EXCEPT !.pc = "index"], SetReq(s, r) PROVE Basic'
    <3>1. /\ r \in Request /\ r.pc = "index" /\ r.op = req[s].op
          /\ r.address = req[s].address /\ r.index = req[s].index
        BY <1>1, <2>2 DEF Request
    <3> QED
        BY <1>2, <1>3, <2>2, <3>1 DEF CheckName, Changing, Working
  <2> QED
      BY <1>3, <2>1, <2>2 DEF CheckName
<1>4. CASE CreateFails(s) \/ RequestFails(s)
    BY <1>4, EndOK DEF CreateFails, RequestFails
<1>5. CASE FindUser(s)
  <2>1. PICK i, r : /\ i \in UserIds /\ Found(SessionName[s], i) /\ SetReq(s, r)
                    /\ r = [req[s] EXCEPT !.pc = "get", !.id = i]
      BY <1>5 DEF FindUser
  <2>2. /\ r \in Request /\ r.pc = "get" /\ r.op = req[s].op /\ r.id = i
        /\ r.address = req[s].address /\ r.index = req[s].index
      BY <1>1, <2>1 DEF Request
  <2>3. i \in AccountsOf(SessionName[s])
      BY <2>1, FoundIsNamed DEF Basic
  <2> QED
      BY <1>2, <1>5, <2>1, <2>2, <2>3 DEF FindUser, Changing, Working
<1>6. CASE GetUser(s)
  <2> DEFINE doc == users[req[s].id]
             new == Changed(doc, req[s])
  <2>1. /\ req[s].pc = "get" /\ req[s].id \in AccountsOf(SessionName[s])
        /\ doc \in MyUser /\ doc.username = SessionName[s]
        /\ doc.addresses \in Seq(EnteredBy(SessionName[s]))
      BY <1>1, <1>6 DEF GetUser, RequestOK, Working, AccountsOf, Basic, DocsOK
  <2>2. /\ new \in MyUser /\ new.username = SessionName[s]
        /\ new.addresses \in Seq(EnteredBy(SessionName[s]))
    <3>1. /\ req[s].op \in {"add", "delete", "primary"}
          /\ req[s].op \in {"add", "delete"} => req[s].address \in Addresses
          /\ req[s].op = "primary" => req[s].index \in Nat \ {0}
          /\ req[s].op = "add" => req[s].address \in EnteredBy(SessionName[s])
        BY <1>1, <2>1 DEF RequestOK, Changing, EnteredBy
    <3> HIDE DEF doc
    <3> QED
        BY <2>1, <3>1, ChangedOK
  <2>3. PICK r : SetReq(s, r) /\ r = [req[s] EXCEPT !.pc = "write", !.doc = new]
      BY <1>6 DEF GetUser
  <2> HIDE DEF new, doc
  <2>4. /\ r \in Request /\ r.pc = "write" /\ r.op = req[s].op /\ r.id = req[s].id
        /\ r.address = req[s].address /\ r.index = req[s].index /\ r.doc = new
      BY <1>1, <2>2, <2>3 DEF Request
  <2> QED
      BY <1>2, <1>6, <2>1, <2>2, <2>3, <2>4 DEF GetUser, Changing, Working
<1>7. CASE Reload(s)
  <2>1. PICK i, x :
            /\ i \in UserIds /\ Found(SessionName[s], i) /\ session' = [session EXCEPT ![s] = x]
            /\ x = IF req[s].op = "primary"
                   THEN WithShipAdd(Loaded(s, i), req[s].index, req[s].address)
                   ELSE Loaded(s, i)
      BY <1>7 DEF Reload
  <2>2. Loaded(s, i) \in Session /\ Loaded(s, i).userId = i
      BY <1>1, <2>1 DEF Loaded, Session
  <2>3. x \in Session /\ x.userId = i
    <3>1. CASE req[s].op # "primary" \/ req[s].index > Len(Loaded(s, i).user.addresses)
        BY <2>1, <2>2, <3>1 DEF WithShipAdd
    <3>2. CASE req[s].op = "primary" /\ ~(req[s].index > Len(Loaded(s, i).user.addresses))
      <4> DEFINE l == Loaded(s, i)
                 a == l.user.addresses[req[s].index]
      <4>1. req[s].index \in Nat \ {0} /\ l.user.addresses \in Seq(Addresses)
          BY <1>1, <1>7, <2>2, <3>2 DEF Reload, RequestOK, Changing, Session, MyUser
      <4>2. a \in Addresses
          BY <3>2, <4>1, ElementOfSeq, LenProperties
      <4>3. x = [l EXCEPT !.shipAdd = a, !.picked = req[s].address]
          BY <2>1, <3>2 DEF WithShipAdd
      <4> HIDE DEF l, a
      <4>4. l \in Session /\ l.userId = i
          BY <2>2 DEF l
      <4>5. req[s].address \in Addresses \cup {NoAddress}
          BY <1>1 DEF Request
      <4> QED
          BY <4>2, <4>3, <4>4, <4>5 DEF Session
    <3> QED
        BY <3>1, <3>2
  <2>4. i \in AccountsOf(SessionName[s])
      BY <2>1, FoundIsNamed DEF Basic
  <2>5. NoRequest \in Request /\ NoRequest.pc = "idle" /\ req' = [req EXCEPT ![s] = NoRequest]
      BY <1>7, EmptySeq DEF NoRequest, Request, NoDoc, MyUser, Reload, End, SetReq
  <2>6. RequestOK(s)'
      BY <1>1, <2>5 DEF RequestOK, Changing, Working
  <2>7. UNCHANGED indexVars /\ UNCHANGED <<registered, shrunk>> /\ entered' = entered
      BY <1>7 DEF Reload, historyVars
  <2> QED
      BY <1>1, <2>1, <2>3, <2>4, <2>5, <2>6, <2>7, SessionOnly DEF Working
<1> QED
    BY <1>3, <1>4, <1>5, <1>6, <1>7

\* A step that writes documents: the account i becomes doc, or a search sees it.
LEMMA DocStepOK ==
    ASSUME Basic, NEW s \in Sessions, NEW i \in UserIds, NEW doc \in MyUser,
           NEW seen \in MyUser,
           doc.username = SessionName[s], ~Present(i) \/ users[i].username = SessionName[s],
           users' = [users EXCEPT ![i] = doc], visible' = [visible EXCEPT ![i] = seen],
           seen = NoDoc \/ seen.username = SessionName[s],
           entered \subseteq entered', entered' \subseteq Names \X Addresses,
           doc.addresses \in Seq({a \in Addresses : <<SessionName[s], a>> \in entered'}),
           registered' \subseteq Names, shrunk' \subseteq Names,
           NEW r \in Request, SetReq(s, r), r.pc \in Working => r.id # NoUser,
           AccountsGrow => RequestOK(s)', UNCHANGED session
    PROVE  Basic'
<1> USE NullsAssumption, SessionNameAssumption
<1>1. /\ \A j \in UserIds : users'[j] = IF j = i THEN doc ELSE users[j]
      /\ \A j \in UserIds : visible'[j] = IF j = i THEN seen ELSE visible[j]
      /\ \A t \in Sessions : req'[t] = IF t = s THEN r ELSE req[t]
    BY DEF Basic, TypeOK, SetReq
<1>2. AccountsGrow
    BY <1>1 DEF AccountsGrow, Present
<1>3. DocsOK'
  <2>1. \A name : EnteredBy(name) \subseteq {a \in Addresses : <<name, a>> \in entered'}
      BY DEF EnteredBy
  <2>2. ASSUME NEW j \in UserIds
        PROVE  users'[j].addresses
                    \in Seq({a \in Addresses : <<users'[j].username, a>> \in entered'})
    <3>1. users[j].addresses \in Seq({a \in Addresses : <<users[j].username, a>> \in entered'})
        BY <2>1, SeqMonotonic DEF Basic, DocsOK
    <3>2. CASE j = i
      <4>1. users'[j] = doc /\ users'[j].username = SessionName[s]
          BY <1>1, <3>2
      <4> QED
          BY <4>1
    <3>3. CASE j # i
      <4>1. users'[j] = users[j]
          BY <1>1, <3>3
      <4> QED
          BY <3>1, <4>1
    <3> QED
        BY <3>2, <3>3
  <2>3. \A j \in UserIds : ~Present(j)' => users'[j] = NoDoc /\ visible'[j] = NoDoc
      BY <1>1 DEF Basic, DocsOK, Present
  <2>4. \A j \in UserIds : visible'[j] = NoDoc \/ visible'[j].username = users'[j].username
      BY <1>1 DEF Basic, DocsOK
  <2> QED
      BY <2>2, <2>3, <2>4 DEF DocsOK, EnteredBy
<1>4. \A t \in Sessions : RequestOK(t)'
    BY <1>1, <1>2, RequestStays DEF Basic
<1>5. TypeOK'
  <2>1. /\ users' \in [UserIds -> MyUser] /\ visible' \in [UserIds -> MyUser]
        /\ req' \in [Sessions -> Request]
      BY DEF Basic, TypeOK, SetReq
  <2> QED
      BY <1>1, <2>1 DEF Basic, TypeOK, Working
<1>6. \A t \in Sessions : session'[t].userId # NoUser =>
                                session'[t].userId \in AccountsOf(SessionName[t])'
    BY <1>2, AccountsStay DEF Basic
<1> QED
    BY <1>3, <1>4, <1>5, <1>6 DEF Basic

\* The two steps that write an account.
LEMMA WritesOK ==
    ASSUME Basic, NEW s \in Sessions, CreateUser(s) \/ UpdateUser(s) PROVE Basic'
<1> USE NullsAssumption, SessionNameAssumption
<1>1. /\ req[s] \in Request /\ RequestOK(s) /\ req \in [Sessions -> Request]
      /\ users \in [UserIds -> MyUser] /\ visible \in [UserIds -> MyUser]
      /\ entered \subseteq Names \X Addresses
      /\ registered \subseteq Names /\ shrunk \subseteq Names
      /\ SessionName[s] \in Names
    BY DEF Basic, TypeOK
<1>2. NoRequest \in Request /\ NoRequest.pc = "idle" /\ NoDoc \in MyUser
    BY EmptySeq DEF NoRequest, Request, NoDoc, MyUser
<1>3. CASE CreateUser(s)
  <2> DEFINE a == req[s].address
             doc == [username |-> SessionName[s], addresses |-> <<a>>,
                     mainShippingAddress |-> 0]
  <2>1. PICK i \in UserIds : ~Present(i) /\ users' = [users EXCEPT ![i] = doc]
      BY <1>3 DEF CreateUser
  <2>2. a \in Addresses
      BY <1>1, <1>3 DEF CreateUser, RequestOK
  <2>3. /\ entered' = entered \cup {<<SessionName[s], a>>}
        /\ registered' = registered \cup {SessionName[s]} /\ shrunk' = shrunk
        /\ End(s) /\ session' = session /\ visible' = visible
      BY <1>3 DEF CreateUser
  <2>4. /\ doc \in MyUser /\ doc.username = SessionName[s]
        /\ doc.addresses \in Seq({b \in Addresses : <<SessionName[s], b>> \in entered'})
    <3>1. a \in {b \in Addresses : <<SessionName[s], b>> \in entered'}
        BY <2>2, <2>3
    <3>2. \A S : a \in S => <<a>> \in Seq(S)
        OBVIOUS
    <3>3. <<a>> \in Seq(Addresses)
        BY <2>2, <3>2
    <3> HIDE DEF a
    <3> QED
        BY <1>1, <3>1, <3>2, <3>3 DEF MyUser
  <2>5. RequestOK(s)'
    <3>1. req'[s] = NoRequest
        BY <1>1, <2>3 DEF End, SetReq
    <3> QED
        BY <1>2, <3>1 DEF RequestOK, Changing, Working
  <2>6. entered \subseteq entered' /\ entered' \subseteq Names \X Addresses
    <3>1. <<SessionName[s], a>> \in Names \X Addresses
        BY <1>1, <2>2
    <3> QED
        BY <1>1, <2>3, <3>1
  <2>7. visible' = [visible EXCEPT ![i] = NoDoc]
    <3>1. visible[i] = NoDoc
        BY <2>1 DEF Basic, DocsOK
    <3> QED
        BY <1>1, <2>3, <3>1
  <2> HIDE DEF doc, a
  <2> QED
      BY <1>1, <1>2, <2>1, <2>3, <2>4, <2>5, <2>6, <2>7, DocStepOK DEF End, Working
<1>4. CASE UpdateUser(s)
  <2> DEFINE i == req[s].id
             doc == req[s].doc
  <2>1. /\ i \in UserIds /\ users[i].username = SessionName[s] /\ i # NoUser
        /\ doc \in MyUser /\ doc.username = SessionName[s]
        /\ doc.addresses \in Seq(EnteredBy(SessionName[s]))
      BY <1>1, <1>4 DEF UpdateUser, RequestOK, Working, AccountsOf, Request
  <2>2. PICK r : SetReq(s, r) /\ r = [req[s] EXCEPT !.pc = "wait", !.doc = NoDoc]
      BY <1>4 DEF UpdateUser
  <2>3. /\ r \in Request /\ r.pc = "wait" /\ r.op = req[s].op /\ r.id = i
        /\ r.address = req[s].address /\ r.index = req[s].index
      BY <1>1, <1>2, <2>2 DEF Request
  <2>4. /\ users' = [users EXCEPT ![i] = doc] /\ shrunk' \subseteq Names
        /\ UNCHANGED <<visible, session, registered, entered>>
      BY <1>1, <1>4 DEF UpdateUser
  <2>5. ASSUME AccountsGrow PROVE RequestOK(s)'
    <3>1. req'[s] = r
        BY <1>1, <2>2 DEF SetReq
    <3>2. i \in AccountsOf(SessionName[s])'
        BY <2>1, <2>5, AccountsStay DEF AccountsOf
    <3> HIDE DEF i, doc
    <3> QED
        BY <1>1, <1>4, <2>3, <2>4, <3>1, <3>2 DEF RequestOK, Changing, Working, UpdateUser
  <2>6. /\ visible' = [visible EXCEPT ![i] = visible[i]] /\ visible[i] \in MyUser
        /\ visible[i] = NoDoc \/ visible[i].username = SessionName[s]
        /\ doc.addresses \in Seq({b \in Addresses : <<SessionName[s], b>> \in entered'})
      BY <1>1, <2>1, <2>4 DEF Basic, DocsOK, EnteredBy
  <2>7. /\ entered \subseteq entered' /\ entered' \subseteq Names \X Addresses
        /\ registered' \subseteq Names /\ session' = session
        /\ r.pc \in Working => r.id # NoUser
      BY <1>1, <2>1, <2>3, <2>4
  <2> HIDE DEF i, doc
  <2> QED
      BY <2>1, <2>2, <2>3, <2>4, <2>5, <2>6, <2>7, DocStepOK
<1> QED
    BY <1>3, <1>4

\* A change becomes visible, to the request that waits for it or by itself.
LEMMA VisibleOK ==
    ASSUME Basic, UNCHANGED <<users, session, historyVars>>, NEW i \in UserIds,
           visible' = [visible EXCEPT ![i] = users[i]],
           req' \in [Sessions -> Request], \A s \in Sessions : RequestOK(s)',
           \A s \in Sessions : req'[s].pc \in Working => req'[s].id # NoUser
    PROVE  Basic'
<1>1. /\ users \in [UserIds -> MyUser]
      /\ \A j \in UserIds : visible'[j] = IF j = i THEN users[i] ELSE visible[j]
      /\ visible' \in [UserIds -> MyUser]
    BY DEF Basic, TypeOK
<1>2. UNCHANGED <<users, session, registered, entered, shrunk>>
    BY DEF historyVars
<1>3. DocsOK'
    BY <1>1, <1>2 DEF Basic, DocsOK, Present, EnteredBy
<1>4. TypeOK'
    BY <1>1, <1>2 DEF Basic, TypeOK, Working
<1> QED
    BY <1>2, <1>3, <1>4 DEF Basic, AccountsOf

\* Both steps that make a change visible.
LEMMA RefreshOK ==
    ASSUME Basic,
           \/ \E s \in Sessions : WaitUntilVisible(s)
           \/ \E i \in UserIds : Refresh(i)
    PROVE  Basic'
<1>1. CASE \E i \in UserIds : Refresh(i)
  <2>1. PICK i \in UserIds : Refresh(i)
      BY <1>1
  <2>2. /\ req' = req /\ UNCHANGED <<users, session, historyVars>>
        /\ visible' = [visible EXCEPT ![i] = users[i]]
      BY <2>1 DEF Refresh
  <2>3. \A s \in Sessions : RequestOK(s)'
      BY <2>2 DEF Basic, RequestOK, AccountsOf, EnteredBy, historyVars
  <2> QED
      BY <2>2, <2>3, VisibleOK DEF Basic, TypeOK, Working
<1>2. CASE \E s \in Sessions : WaitUntilVisible(s)
  <2>1. PICK s \in Sessions : WaitUntilVisible(s)
      BY <1>2
  <2>2. PICK r : SetReq(s, r) /\ r = [req[s] EXCEPT !.pc = "reload"]
      BY <2>1 DEF WaitUntilVisible
  <2>3. req[s] \in Request /\ req[s].pc = "wait" /\ req[s].id \in AccountsOf(SessionName[s])
      BY <2>1 DEF Basic, TypeOK, WaitUntilVisible, RequestOK, Working
  <2>4. /\ r \in Request /\ r.pc = "reload" /\ r.op = req[s].op /\ r.id = req[s].id
        /\ r.address = req[s].address /\ r.index = req[s].index
      BY <2>2, <2>3 DEF Request
  <2>5. /\ req' \in [Sessions -> Request]
        /\ \A t \in Sessions : req'[t] = IF t = s THEN r ELSE req[t]
      BY <2>2, <2>4 DEF Basic, TypeOK, SetReq
  <2>6. UNCHANGED <<users, session, historyVars>>
        /\ visible' = [visible EXCEPT ![req[s].id] = users[req[s].id]]
      BY <2>1 DEF WaitUntilVisible
  <2>7. AccountsGrow
      BY <2>6 DEF AccountsGrow, historyVars
  <2>8. ASSUME NEW t \in Sessions PROVE RequestOK(t)'
    <3>1. CASE t # s
        BY <2>5, <2>7, <3>1, RequestStays DEF Basic
    <3>2. CASE t = s
      <4>1. RequestOK(s) /\ users' = users /\ entered' = entered /\ req'[s] = r
          BY <2>5, <2>6 DEF Basic, historyVars
      <4> QED
          BY <2>3, <2>4, <3>2, <4>1 DEF RequestOK, Changing, Working, AccountsOf
    <3> QED
        BY <3>1, <3>2
  <2>9. \A t \in Sessions : req'[t].pc \in Working => req'[t].id # NoUser
      BY <2>3, <2>4, <2>5 DEF Basic, TypeOK, Working
  <2>10. req[s].id \in UserIds
      BY <2>3 DEF AccountsOf
  <2> QED
      BY <2>5, <2>6, <2>8, <2>9, <2>10, VisibleOK
<1> QED
    BY <1>1, <1>2

\* It holds of the empty index ...
LEMMA InitOK == Init => Basic
<1> SUFFICES ASSUME Init PROVE Basic
    OBVIOUS
<1>1. /\ NoDoc \in MyUser /\ NoDoc.username = NoName /\ NoDoc.addresses = <<>>
      /\ NoRequest.pc = "idle" /\ NewSession.userId = NoUser
    BY EmptySeq DEF NoDoc, MyUser, NoRequest, NewSession
<1>2. NoRequest \in Request /\ NewSession \in Session
    BY <1>1 DEF NoRequest, Request, NewSession, Session
<1>3. TypeOK
    BY <1>1, <1>2 DEF Init, TypeOK
<1>4. DocsOK
    BY <1>1, EmptySeq DEF Init, DocsOK
<1>5. \A s \in Sessions : RequestOK(s)
    BY <1>1 DEF Init, RequestOK, Changing, Working
<1> QED
    BY <1>1, <1>3, <1>4, <1>5 DEF Init, Basic

\* ... and every step preserves it.
LEMMA NextOK == Basic /\ [Next]_vars => Basic'
<1> SUFFICES ASSUME Basic, [Next]_vars PROVE Basic'
    OBVIOUS
<1>1. CASE UNCHANGED vars
    BY <1>1 DEF vars, indexVars, historyVars, Basic, TypeOK, DocsOK, RequestOK,
                Present, EnteredBy, AccountsOf
<1>2. ASSUME NEW s \in Sessions, SessionStep(s) PROVE Basic'
    BY <1>2, BeginOK, AttributesOK, RequestStepOK, WritesOK, RefreshOK
       DEF SessionStep
<1>3. CASE \E i \in UserIds : Refresh(i)
    BY <1>3, RefreshOK
<1> QED
    BY <1>1, <1>2, <1>3 DEF Next

-----------------------------------------------------------------------------
(* The theorems.                                                           *)

\* Basic is an invariant of the accounts.
THEOREM Invariant == Spec => []Basic
BY InitOK, NextOK, PTL DEF Spec

\* Every variable keeps its type, and a request past its search has the account
\* it works on.
THEOREM TypeCorrect == Spec => []TypeOK
<1>1. Basic => TypeOK
    BY DEF Basic
<1> QED
    BY <1>1, Invariant, PTL

\* However many sessions register, log in and change accounts of whatever names,
\* and however late a search sees it, no address reaches another name's account.
THEOREM AddressesStayApart == Spec => []AccountsStayApart
<1>1. ASSUME Basic PROVE AccountsStayApart
  <2>1. ASSUME NEW i \in UserIds, NEW a \in ToSet(users[i].addresses)
        PROVE  <<users[i].username, a>> \in entered
    <3>1. users[i].addresses \in Seq(EnteredBy(users[i].username))
        BY <1>1 DEF Basic, DocsOK
    <3>2. PICK j \in DOMAIN users[i].addresses : a = users[i].addresses[j]
        BY DEF ToSet
    <3>3. a \in EnteredBy(users[i].username)
      <4> DEFINE q == users[i].addresses
                 S == EnteredBy(users[i].username)
      <4>1. q \in Seq(S) /\ j \in DOMAIN q /\ a = q[j]
          BY <3>1, <3>2
      <4> HIDE DEF q, S
      <4>2. a \in S
          BY <4>1, ElementOfSeq, LenProperties
      <4> QED
          BY <4>2 DEF S
    <3> QED
        BY <3>3 DEF EnteredBy
  <2> QED
      BY <2>1 DEF AccountsStayApart
<1> QED
    BY <1>1, Invariant, PTL

-----------------------------------------------------------------------------
(* A session alone with its account.  Its copy is the account between its  *)
(* requests; a request that has written waits until the search sees what   *)
(* it wrote, so the reload that follows brings that back; and until then   *)
(* its copy still holds the addresses the page listed, so that the index   *)
(* that travels is that of the address picked.                             *)

\* Account i of session s, the session's copy and its request.
InStep(s, i) ==
    /\ session[s].userId = NoUser => visible[i] \in {NoDoc, users[i]}
    /\ session[s].userId # NoUser /\ req[s].pc # "wait" => visible[i] = users[i]
    /\ session[s].userId # NoUser /\ req[s].pc \notin {"wait", "reload"}
            => session[s].user = users[i]
    /\ req[s].pc = "write" => req[s].doc = Changed(users[i], req[s])
    /\ req[s].pc \in {"wait", "reload"} /\ req[s].op = "primary"
            => users[i].addresses = session[s].user.addresses
    /\ SessionName[s] \notin shrunk
            => users[i].mainShippingAddress < Len(users[i].addresses)

\* The index that travels is that of the address picked.
IndexOfPicked(x, r) ==
    r.pc \in Changing /\ r.op = "primary" =>
        /\ r.index \in DOMAIN x.user.addresses
        /\ r.address = x.user.addresses[r.index]

Own(s) ==
    /\ session[s].shipAdd = session[s].picked
    /\ req[s].pc \in Changing => session[s].userId # NoUser
    /\ IndexOfPicked(session[s], req[s])
    /\ \A i \in AccountsOf(SessionName[s]) : InStep(s, i)

Owned == \A s \in Sessions : Alone(s) => Own(s)

\* What a step of session t may do to the rest.
LEMMA StepFrame ==
    ASSUME Basic, NEW t \in Sessions, SessionStep(t)
    PROVE  /\ \A s \in Sessions \ {t} : req'[s] = req[s] /\ session'[s] = session[s]
           /\ \A i \in UserIds :
                \/ users'[i] = users[i]
                \/ /\ users'[i].username = SessionName[t]
                   /\ ~Present(i) \/ users[i].username = SessionName[t]
           /\ \A i \in UserIds : visible'[i] = visible[i] \/ visible'[i] = users'[i]
           /\ shrunk \subseteq shrunk'
           /\ entered \subseteq entered'
<1>1. /\ req \in [Sessions -> Request] /\ session \in [Sessions -> Session]
      /\ users \in [UserIds -> MyUser] /\ visible \in [UserIds -> MyUser]
    BY DEF Basic, TypeOK
<1>2. CASE \/ Register(t) \/ CheckName(t) \/ CreateFails(t) \/ MakePrimary(t)
           \/ DeleteAddress(t) \/ AddAddress(t) \/ FindUser(t) \/ GetUser(t)
           \/ RequestFails(t)
  <2>1. UNCHANGED <<users, visible, session, shrunk>> /\ entered \subseteq entered'
      BY <1>2 DEF Register, CheckName, CreateFails, MakePrimary, DeleteAddress,
                  AddAddress, FindUser, GetUser, RequestFails, indexVars, historyVars
  <2>2. \E r : req' = [req EXCEPT ![t] = r]
      BY <1>2 DEF Register, CheckName, CreateFails, MakePrimary, DeleteAddress,
                  AddAddress, FindUser, GetUser, RequestFails, SetReq, End
  <2> QED
      BY <1>1, <2>1, <2>2
<1>3. CASE Login(t) \/ Logout(t) \/ LoadUser(t) \/ ChooseAddress(t)
  <2>1. UNCHANGED <<users, visible, req, shrunk, entered>>
      BY <1>3 DEF Login, Logout, LoadUser, ChooseAddress, indexVars, historyVars
  <2>2. \E x : session' = [session EXCEPT ![t] = x]
      BY <1>3 DEF Login, Logout, LoadUser, ChooseAddress
  <2> QED
      BY <1>1, <2>1, <2>2
<1>4. CASE Reload(t)
  <2>1. UNCHANGED <<users, visible, shrunk, entered>>
      BY <1>4 DEF Reload, indexVars, historyVars
  <2>2. /\ \E x : session' = [session EXCEPT ![t] = x]
        /\ \E r : req' = [req EXCEPT ![t] = r]
      BY <1>4 DEF Reload, End, SetReq
  <2> QED
      BY <1>1, <2>1, <2>2
<1>5. CASE CreateUser(t)
  <2>1. PICK i, doc :
            /\ i \in UserIds /\ ~Present(i) /\ users' = [users EXCEPT ![i] = doc]
            /\ doc = [username |-> SessionName[t], addresses |-> <<req[t].address>>,
                      mainShippingAddress |-> 0]
      BY <1>5 DEF CreateUser
  <2>2. doc.username = SessionName[t]
      BY <2>1
  <2>3. UNCHANGED <<visible, session, shrunk>> /\ entered \subseteq entered'
      BY <1>5 DEF CreateUser
  <2>4. req' = [req EXCEPT ![t] = NoRequest]
      BY <1>5 DEF CreateUser, End, SetReq
  <2> QED
      BY <1>1, <2>1, <2>2, <2>3, <2>4
<1>6. CASE UpdateUser(t)
  <2>1. /\ users' = [users EXCEPT ![req[t].id] = req[t].doc]
        /\ UNCHANGED <<visible, session, entered>> /\ shrunk \subseteq shrunk'
        /\ req[t].pc = "write"
      BY <1>6 DEF UpdateUser
  <2>2. /\ req[t].id \in UserIds /\ users[req[t].id].username = SessionName[t]
        /\ req[t].doc.username = SessionName[t]
      BY <2>1 DEF Basic, RequestOK, Working, AccountsOf
  <2>3. \E r : req' = [req EXCEPT ![t] = r]
      BY <1>6 DEF UpdateUser, SetReq
  <2> QED
      BY <1>1, <2>1, <2>2, <2>3
<1>7. CASE WaitUntilVisible(t)
  <2>1. /\ visible' = [visible EXCEPT ![req[t].id] = users[req[t].id]]
        /\ UNCHANGED <<users, session, shrunk, entered>>
      BY <1>7 DEF WaitUntilVisible, historyVars
  <2>2. \E r : req' = [req EXCEPT ![t] = r]
      BY <1>7 DEF WaitUntilVisible, SetReq
  <2> QED
      BY <1>1, <2>1, <2>2
<1> QED
    BY <1>2, <1>3, <1>4, <1>5, <1>6, <1>7 DEF SessionStep

\* Accounts are never renamed.
LEMMA StepGrows ==
    ASSUME Basic, NEW t \in Sessions, SessionStep(t) PROVE AccountsGrow
<1>1. SessionName[t] \in Names
    BY SessionNameAssumption
<1> QED
    BY <1>1, StepFrame DEF AccountsGrow

\* A session that is alone was alone before.
LEMMA AloneBefore ==
    ASSUME AccountsGrow, NEW s \in Sessions, Alone(s)' PROVE Alone(s)
<1>1. AccountsOf(SessionName[s]) \subseteq AccountsOf(SessionName[s])'
    BY AccountsStay
<1> QED
    BY <1>1 DEF Alone

\* A step that leaves the account and the session alone, unless it makes the
\* account visible.
LEMMA OwnStays ==
    ASSUME NEW s \in Sessions, Own(s), req'[s] = req[s], session'[s] = session[s],
           AccountsOf(SessionName[s])' = AccountsOf(SessionName[s]),
           \A i \in AccountsOf(SessionName[s]) :
                /\ users'[i] = users[i]
                /\ visible'[i] = visible[i] \/ visible'[i] = users[i],
           shrunk \subseteq shrunk'
    PROVE  Own(s)'
<1>1. ASSUME NEW i \in AccountsOf(SessionName[s]) PROVE InStep(s, i)'
  <2>1. InStep(s, i) /\ users'[i] = users[i] /\ (visible'[i] = visible[i] \/ visible'[i] = users[i])
      BY DEF Own
  <2> QED
      BY <2>1 DEF InStep
<1> QED
    BY <1>1 DEF Own, IndexOfPicked

\* A step of another session.
LEMMA OthersStep ==
    ASSUME Basic, NEW s \in Sessions, Alone(s), Own(s),
           NEW t \in Sessions \ {s}, SessionStep(t)
    PROVE  Own(s)'
<1>1. SessionName[t] # SessionName[s] /\ SessionName[s] # NoName
    BY SessionNameAssumption, NullsAssumption DEF Alone
<1>2. ASSUME NEW i \in UserIds, users'[i] # users[i]
      PROVE  i \notin AccountsOf(SessionName[s]) /\ i \notin AccountsOf(SessionName[s])'
    BY <1>1, <1>2, StepFrame DEF AccountsOf, Present
<1>3. AccountsOf(SessionName[s])' = AccountsOf(SessionName[s])
    BY <1>2 DEF AccountsOf
<1>4. \A i \in AccountsOf(SessionName[s]) :
            /\ users'[i] = users[i]
            /\ visible'[i] = visible[i] \/ visible'[i] = users[i]
    BY <1>2, StepFrame DEF AccountsOf
<1>5. req'[s] = req[s] /\ session'[s] = session[s] /\ shrunk \subseteq shrunk'
    BY StepFrame
<1> QED
    BY <1>3, <1>4, <1>5, OwnStays

\* Elasticsearch's own refresh.
LEMMA RefreshStep ==
    ASSUME Basic, NEW s \in Sessions, Own(s), NEW i \in UserIds, Refresh(i)
    PROVE  Own(s)'
<1>1. /\ UNCHANGED <<users, session, req, shrunk>>
      /\ visible' = [visible EXCEPT ![i] = users[i]] /\ visible \in [UserIds -> MyUser]
    BY DEF Refresh, historyVars, Basic, TypeOK
<1>2. AccountsOf(SessionName[s])' = AccountsOf(SessionName[s])
    BY <1>1 DEF AccountsOf
<1>3. \A j \in AccountsOf(SessionName[s]) : visible'[j] = visible[j] \/ visible'[j] = users[j]
    BY <1>1 DEF AccountsOf
<1> QED
    BY <1>1, <1>2, <1>3, OwnStays

\* The account of a session that is alone, as a search sees it, is found.
LEMMA AloneIsFound ==
    ASSUME Basic, NEW s \in Sessions, Alone(s),
           NEW i \in AccountsOf(SessionName[s]), visible[i] = users[i]
    PROVE  Found(SessionName[s], i)
<1>1. SessionName[s] \in Names /\ SessionName[s] # NoName
    BY SessionNameAssumption, NullsAssumption
<1>2. visible[i].username = SessionName[s] /\ i \in UserIds
    BY DEF AccountsOf
<1>3. ASSUME NEW j \in UserIds, visible[j].username = SessionName[s] PROVE j = i
  <2>1. visible[j] # NoDoc
      BY <1>1, <1>3 DEF NoDoc
  <2>2. j \in AccountsOf(SessionName[s])
      BY <1>3, <2>1 DEF Basic, DocsOK, AccountsOf
  <2> QED
      BY <2>2 DEF Alone
<1> QED
    BY <1>2, <1>3 DEF Found

\* A step that changes neither the documents nor the attributes.
LEMMA OwnRequest ==
    ASSUME Basic, NEW s \in Sessions, Alone(s), Own(s),
           UNCHANGED <<users, visible, session, shrunk>>, NEW r, SetReq(s, r),
           req[s].pc \notin {"wait", "reload"}, r.pc \notin {"wait", "reload"},
           r.pc \in Changing => session[s].userId # NoUser,
           IndexOfPicked(session[s], r),
           r.pc = "write" => \A i \in AccountsOf(SessionName[s]) :
                                    r.doc = Changed(users[i], r)
    PROVE  Own(s)'
<1>1. req'[s] = r /\ session'[s] = session[s] /\ users' = users /\ visible' = visible
    BY DEF SetReq, Basic, TypeOK
<1>2. AccountsOf(SessionName[s])' = AccountsOf(SessionName[s])
    BY <1>1 DEF AccountsOf
<1>3. ASSUME NEW i \in AccountsOf(SessionName[s]) PROVE InStep(s, i)'
  <2>1. InStep(s, i)
      BY DEF Own
  <2>2. r.pc = "write" => r.doc = Changed(users[i], r)
      OBVIOUS
  <2>3. r.pc = "write" => req'[s].doc = Changed(users'[i], req'[s])
      BY <1>1, <2>2
  <2> QED
      BY <1>1, <2>1, <2>3 DEF InStep
<1> QED
    BY <1>1, <1>2, <1>3 DEF Own

\* The end of a request that has not written.
LEMMA OwnEnd ==
    ASSUME Basic, NEW s \in Sessions, Alone(s), Own(s), End(s),
           UNCHANGED <<users, visible, session, shrunk>>,
           req[s].pc \notin {"wait", "reload"}
    PROVE  Own(s)'
<1>1. NoRequest.pc = "idle" /\ SetReq(s, NoRequest)
    BY DEF NoRequest, End
<1> QED
    BY <1>1, OwnRequest DEF Changing, IndexOfPicked

\* Requests that begin.
LEMMA OwnBegin ==
    ASSUME Basic, NEW s \in Sessions, Alone(s), Own(s),
           Register(s) \/ MakePrimary(s) \/ DeleteAddress(s) \/ AddAddress(s)
    PROVE  Own(s)'
<1>1. UNCHANGED <<users, visible, session, shrunk>> /\ req[s].pc = "idle"
    BY DEF Register, MakePrimary, DeleteAddress, AddAddress, Picking, indexVars, historyVars
<1>2. ASSUME NEW r, SetReq(s, r), r.pc \in {"check", "find"},
             r.pc = "find" => session[s].userId # NoUser,
             r.op = "primary" => /\ r.index \in DOMAIN Listed(s)
                                 /\ r.address = Listed(s)[r.index]
      PROVE  Own(s)'
    BY <1>1, <1>2, OwnRequest DEF Changing, IndexOfPicked, Listed
<1>3. CASE Register(s)
  <2>1. PICK a, r : /\ SetReq(s, r)
                    /\ r = [NoRequest EXCEPT !.pc = "check", !.address = a]
      BY <1>3 DEF Register
  <2>2. r.pc = "check" /\ r.op = "none"
      BY <2>1 DEF NoRequest
  <2> QED
      BY <1>2, <2>1, <2>2
<1>4. CASE MakePrimary(s)
  <2>1. PICK i, r :
            /\ i \in DOMAIN Listed(s) /\ SetReq(s, r)
            /\ r = [NoRequest EXCEPT !.pc = "find", !.op = "primary", !.index = i,
                                     !.address = Listed(s)[i]]
      BY <1>4 DEF MakePrimary
  <2>2. r.pc = "find" /\ r.index = i /\ r.address = Listed(s)[i]
    <3> DEFINE a == Listed(s)[i]
    <3>1. r = [NoRequest EXCEPT !.pc = "find", !.op = "primary", !.index = i, !.address = a]
        BY <2>1
    <3>2. SUFFICES r.pc = "find" /\ r.index = i /\ r.address = a
        OBVIOUS
    <3> HIDE DEF a
    <3> QED
        BY <3>1 DEF NoRequest
  <2> QED
      BY <1>2, <1>4, <2>1, <2>2 DEF MakePrimary, Picking
<1>5. CASE DeleteAddress(s)
  <2>1. PICK a, r :
            /\ SetReq(s, r)
            /\ r = [NoRequest EXCEPT !.pc = "find", !.op = "delete", !.address = a]
      BY <1>5 DEF DeleteAddress
  <2>2. r.pc = "find" /\ r.op = "delete"
      BY <2>1 DEF NoRequest
  <2> QED
      BY <1>2, <1>5, <2>1, <2>2 DEF DeleteAddress, Picking
<1>6. CASE AddAddress(s)
  <2>1. PICK a, r :
            /\ SetReq(s, r)
            /\ r = [NoRequest EXCEPT !.pc = "find", !.op = "add", !.address = a]
      BY <1>6 DEF AddAddress
  <2>2. r.pc = "find" /\ r.op = "add"
      BY <2>1 DEF NoRequest
  <2> QED
      BY <1>2, <1>6, <2>1, <2>2 DEF AddAddress, Picking
<1> QED
    BY <1>3, <1>4, <1>5, <1>6

\* Requests on the way.  The reload of a session that is alone does not fail.
LEMMA OwnRequestStep ==
    ASSUME Basic, NEW s \in Sessions, Alone(s), Own(s),
           \/ CheckName(s) \/ CreateFails(s) \/ RequestFails(s)
           \/ FindUser(s) \/ GetUser(s)
    PROVE  Own(s)'
<1>1. req[s] \in Request /\ RequestOK(s)
    BY DEF Basic, TypeOK
<1>2. UNCHANGED <<users, visible, session, shrunk>>
    BY DEF CheckName, CreateFails, RequestFails, FindUser, GetUser, indexVars, historyVars
<1>3. CASE CheckName(s)
  <2>1. CASE End(s)
      BY <1>2, <1>3, <2>1, OwnEnd DEF CheckName
  <2>2. ASSUME NEW r, r = [req[s] EXCEPT !.pc = "index"], SetReq(s, r) PROVE Own(s)'
    <3>1. r.pc = "index"
        BY <1>1, <2>2 DEF Request
    <3> QED
        BY <1>2, <1>3, <2>2, <3>1, OwnRequest DEF CheckName, Changing, IndexOfPicked
  <2> QED
      BY <1>3, <2>1, <2>2 DEF CheckName
<1>4. CASE CreateFails(s)
    BY <1>2, <1>4, OwnEnd DEF CreateFails
<1>5. CASE RequestFails(s)
  <2>1. ASSUME req[s].pc = "reload" PROVE FALSE
    <3>1. req[s].id \in AccountsOf(SessionName[s]) /\ session[s].userId # NoUser
        BY <1>1, <2>1 DEF RequestOK, Working, Own, Changing
    <3>2. visible[req[s].id] = users[req[s].id]
        BY <2>1, <3>1 DEF Own, InStep
    <3>3. Found(SessionName[s], req[s].id)
        BY <3>1, <3>2, AloneIsFound
    <3> QED
        BY <1>5, <2>1, <3>1, <3>3 DEF RequestFails, NotFound, AccountsOf
  <2> QED
      BY <1>2, <1>5, <2>1, OwnEnd DEF RequestFails
<1>6. CASE FindUser(s)
  <2>1. PICK i, r : SetReq(s, r) /\ r = [req[s] EXCEPT !.pc = "get", !.id = i]
      BY <1>6 DEF FindUser
  <2>2. r.pc = "get" /\ r.op = req[s].op /\ r.address = req[s].address /\ r.index = req[s].index
      BY <1>1, <2>1 DEF Request
  <2>3. req[s].pc = "find"
      BY <1>6 DEF FindUser
  <2> QED
      BY <1>2, <2>1, <2>2, <2>3, OwnRequest DEF Own, Changing, IndexOfPicked
<1>7. CASE GetUser(s)
  <2> DEFINE new == Changed(users[req[s].id], req[s])
  <2>1. PICK r : SetReq(s, r) /\ r = [req[s] EXCEPT !.pc = "write", !.doc = new]
      BY <1>7 DEF GetUser
  <2>2. req[s].pc = "get" /\ req[s].id \in AccountsOf(SessionName[s])
      BY <1>1, <1>7 DEF GetUser, RequestOK, Working
  <2>3. /\ r.pc = "write" /\ r.op = req[s].op /\ r.address = req[s].address
        /\ r.index = req[s].index /\ r.doc = new
    <3>1. SUFFICES /\ r.pc = "write" /\ r.op = req[s].op /\ r.address = req[s].address
                   /\ r.index = req[s].index /\ r.doc = new
        OBVIOUS
    <3> HIDE DEF new
    <3> QED
        BY <1>1, <2>1 DEF Request
  <2>4. \A i \in AccountsOf(SessionName[s]) : r.doc = Changed(users[i], r)
    <3>1. \A i \in AccountsOf(SessionName[s]) : i = req[s].id
        BY <2>2 DEF Alone
    <3>2. \A doc : Changed(doc, r) = Changed(doc, req[s])
        BY <2>3 DEF Changed
    <3> QED
        BY <2>3, <3>1, <3>2
  <2>5. IndexOfPicked(session[s], r) /\ session[s].userId # NoUser
      BY <2>2, <2>3 DEF Own, Changing, IndexOfPicked
  <2>6. /\ req[s].pc \notin {"wait", "reload"} /\ r.pc \notin {"wait", "reload"}
        /\ SetReq(s, r)
      BY <2>1, <2>2, <2>3
  <2> QED
      BY <1>2, <2>4, <2>5, <2>6, OwnRequest
<1> QED
    BY <1>3, <1>4, <1>5, <1>6, <1>7

\* The attributes of the session, while it waits for nothing.
LEMMA OwnAttributes ==
    ASSUME Basic, NEW s \in Sessions, Alone(s), Own(s),
           UNCHANGED <<users, visible, req, shrunk>>, req[s].pc = "idle",
           NEW x, session' = [session EXCEPT ![s] = x],
           x.shipAdd = x.picked,
           \/ x.userId = session[s].userId /\ x.user = session[s].user
           \/ x.userId = NoUser
           \/ \A i \in AccountsOf(SessionName[s]) : visible[i] = users[i] /\ x.user = users[i]
    PROVE  Own(s)'
<1>1. session'[s] = x /\ req'[s] = req[s] /\ users' = users /\ visible' = visible
    BY DEF Basic, TypeOK
<1>2. AccountsOf(SessionName[s])' = AccountsOf(SessionName[s])
    BY <1>1 DEF AccountsOf
<1>3. ASSUME NEW i \in AccountsOf(SessionName[s]) PROVE InStep(s, i)'
  <2>1. InStep(s, i)
      BY DEF Own
  <2> QED
      BY <1>1, <2>1 DEF InStep
<1> QED
    BY <1>1, <1>2, <1>3 DEF Own, Changing, IndexOfPicked

\* Log in, log out, load the account, pick an address for this order.
LEMMA OwnAttributeStep ==
    ASSUME Basic, NEW s \in Sessions, Alone(s), Own(s),
           Login(s) \/ Logout(s) \/ LoadUser(s) \/ ChooseAddress(s)
    PROVE  Own(s)'
<1>1. /\ UNCHANGED <<users, visible, req, shrunk>> /\ req[s].pc = "idle"
      /\ session[s] \in Session /\ session[s].shipAdd = session[s].picked
    BY DEF Login, Logout, LoadUser, ChooseAddress, Picking, indexVars, historyVars,
           Basic, TypeOK, Own
<1>2. CASE Login(s)
  <2>1. PICK x : session' = [session EXCEPT ![s] = x]
                 /\ x = [session[s] EXCEPT !.loggedIn = TRUE]
      BY <1>2 DEF Login
  <2>2. /\ x.userId = session[s].userId /\ x.user = session[s].user
        /\ x.shipAdd = session[s].shipAdd /\ x.picked = session[s].picked
      BY <1>1, <2>1 DEF Session
  <2> QED
      BY <1>1, <2>1, <2>2, OwnAttributes
<1>3. CASE Logout(s)
  <2>1. NewSession.userId = NoUser /\ NewSession.shipAdd = NewSession.picked
      BY DEF NewSession
  <2> QED
      BY <1>1, <1>3, <2>1, OwnAttributes DEF Logout
<1>4. CASE LoadUser(s)
  <2>1. PICK i, x :
            /\ i \in UserIds /\ Found(SessionName[s], i) /\ session' = [session EXCEPT ![s] = x]
            /\ x = Loaded(s, i)
      BY <1>4 DEF LoadUser
  <2>2. /\ x.user = visible[i] /\ x.shipAdd = session[s].shipAdd
        /\ x.picked = session[s].picked
      BY <1>1, <2>1 DEF Loaded, Session
  <2>3. /\ i \in AccountsOf(SessionName[s]) /\ visible[i].username = SessionName[s]
        /\ SessionName[s] # NoName
      BY <2>1, FoundIsNamed, SessionNameAssumption, NullsAssumption DEF Basic
  <2>4. visible[i] = users[i]
      BY <1>1, <2>3 DEF Own, InStep, NoDoc
  <2>5. \A j \in AccountsOf(SessionName[s]) : visible[j] = users[j] /\ x.user = users[j]
      BY <2>2, <2>3, <2>4 DEF Alone
  <2> QED
      BY <1>1, <2>1, <2>2, <2>5, OwnAttributes
<1>5. CASE ChooseAddress(s)
  <2>1. PICK i, x :
            /\ session' = [session EXCEPT ![s] = x]
            /\ x = WithShipAdd(session[s], i, Listed(s)[i])
      BY <1>5 DEF ChooseAddress
  <2>2. /\ x.userId = session[s].userId /\ x.user = session[s].user
        /\ x.shipAdd = x.picked
      BY <1>1, <2>1 DEF WithShipAdd, Listed, Session
  <2> QED
      BY <1>1, <2>1, <2>2, OwnAttributes
<1> QED
    BY <1>2, <1>3, <1>4, <1>5

\* A session that is alone after it registered has its first account: there was
\* none to load before.
LEMMA OwnCreate ==
    ASSUME Basic, NEW s \in Sessions, Alone(s), Alone(s)', Own(s), CreateUser(s)
    PROVE  Own(s)'
<1> USE NullsAssumption, SessionNameAssumption
<1>1. PICK i, doc :
          /\ i \in UserIds /\ ~Present(i) /\ users' = [users EXCEPT ![i] = doc]
          /\ doc = [username |-> SessionName[s], addresses |-> <<req[s].address>>,
                    mainShippingAddress |-> 0]
    BY DEF CreateUser
<1>2. /\ doc.username = SessionName[s]
      /\ doc.mainShippingAddress < Len(doc.addresses)
    BY <1>1
<1>3. /\ visible' = visible /\ session' = session /\ req'[s] = NoRequest
      /\ NoRequest.pc = "idle" /\ users'[i] = doc /\ visible[i] = NoDoc
    BY <1>1 DEF CreateUser, End, SetReq, Basic, TypeOK, DocsOK, NoRequest
<1>4. i \in AccountsOf(SessionName[s])' /\ i \notin AccountsOf(SessionName[s])
    BY <1>1, <1>2, <1>3 DEF AccountsOf, Present
<1>5. AccountsOf(SessionName[s]) \subseteq AccountsOf(SessionName[s])'
    BY StepGrows, AccountsStay DEF SessionStep
<1>6. AccountsOf(SessionName[s]) = {}
    BY <1>4, <1>5 DEF Alone
<1>7. session[s].userId = NoUser
    BY <1>6 DEF Basic
<1>8. \A j \in AccountsOf(SessionName[s])' : j = i
    BY <1>4 DEF Alone
<1>9. InStep(s, i)'
  <2>1. req'[s].pc = "idle" /\ session'[s].userId = NoUser /\ visible'[i] = NoDoc
      BY <1>3, <1>7
  <2>2. users'[i].mainShippingAddress < Len(users'[i].addresses)
    <3>1. users'[i] = doc
        BY <1>3
    <3> QED
        BY <1>2, <3>1
  <2> QED
      BY <2>1, <2>2 DEF InStep
<1> QED
    BY <1>3, <1>8, <1>9 DEF Own, Changing, IndexOfPicked

\* What a change does to the main address and to the list of addresses.
LEMMA ChangedMain ==
    ASSUME NEW doc \in MyUser, NEW r, r.op \in {"add", "primary"},
           r.op = "add" => r.address \in Addresses,
           r.op = "primary" => r.index \in DOMAIN doc.addresses
    PROVE  /\ doc.mainShippingAddress < Len(doc.addresses) =>
                Changed(doc, r).mainShippingAddress < Len(Changed(doc, r).addresses)
           /\ r.op = "primary" => Changed(doc, r).addresses = doc.addresses
<1>1. doc.addresses \in Seq(Addresses) /\ doc.mainShippingAddress \in Nat
    BY DEF MyUser
<1>2. CASE r.op = "add"
  <2>1. Changed(doc, r) = [doc EXCEPT !.addresses = Append(@, r.address)]
      BY <1>2 DEF Changed
  <2>2. Len(Append(doc.addresses, r.address)) = Len(doc.addresses) + 1
      BY <1>1, <1>2, AppendProperties
  <2>3. Len(doc.addresses) \in Nat
      BY <1>1, LenProperties
  <2> QED
      BY <1>1, <1>2, <2>1, <2>2, <2>3 DEF MyUser
<1>3. CASE r.op = "primary"
  <2>1. Changed(doc, r) = [doc EXCEPT !.mainShippingAddress = r.index - 1]
      BY <1>3 DEF Changed
  <2>2. r.index \in 1..Len(doc.addresses) /\ Len(doc.addresses) \in Nat
      BY <1>1, <1>3, LenProperties
  <2> QED
      BY <2>1, <2>2 DEF MyUser
<1> QED
    BY <1>2, <1>3

\* The write: the session's copy is now behind, but for what it lists when only
\* the main address changed.
LEMMA OwnUpdate ==
    ASSUME Basic, NEW s \in Sessions, Alone(s), Own(s), UpdateUser(s)
    PROVE  Own(s)'
<1>0. PICK i, doc : i = req[s].id /\ doc = req[s].doc
    OBVIOUS
<1>1. /\ req[s] \in Request /\ req[s].pc = "write" /\ RequestOK(s)
      /\ i \in AccountsOf(SessionName[s]) /\ i \in UserIds
      /\ \A j \in AccountsOf(SessionName[s]) : j = i
    BY <1>0 DEF UpdateUser, Basic, TypeOK, RequestOK, Working, AccountsOf, Alone
<1>2. /\ req[s].op \in {"add", "delete", "primary"}
      /\ req[s].op = "add" => req[s].address \in Addresses
      /\ doc.username = SessionName[s] /\ users[i] \in MyUser
    BY <1>0, <1>1 DEF RequestOK, Changing, Basic, TypeOK
<1>3. PICK r : SetReq(s, r) /\ r = [req[s] EXCEPT !.pc = "wait", !.doc = NoDoc]
    BY DEF UpdateUser
<1>4. /\ r.pc = "wait" /\ r.op = req[s].op /\ r.index = req[s].index
      /\ r.address = req[s].address /\ req'[s] = r
    BY <1>1, <1>3 DEF Request, SetReq, Basic, TypeOK
<1>5. /\ users' = [users EXCEPT ![i] = doc] /\ users'[i] = doc
      /\ visible' = visible /\ session' = session
      /\ shrunk' = IF req[s].op = "delete" THEN shrunk \cup {SessionName[s]} ELSE shrunk
    BY <1>0, <1>1 DEF UpdateUser, Basic, TypeOK
<1>6. \A j \in AccountsOf(SessionName[s])' : j = i
    BY <1>1, <1>5 DEF AccountsOf, Basic, TypeOK
<1>7. /\ InStep(s, i) /\ session[s].userId # NoUser
      /\ session[s].user = users[i] /\ doc = Changed(users[i], req[s])
    BY <1>0, <1>1 DEF Own, InStep, Changing
<1>8. IndexOfPicked(session[s], req[s])
    BY DEF Own
<1>9. req[s].op = "primary" => doc.addresses = session[s].user.addresses
    <2>1. CASE req[s].op = "primary"
      <3>1. req[s].index \in DOMAIN users[i].addresses
          BY <1>1, <1>7, <1>8, <2>1 DEF IndexOfPicked, Changing
      <3>2. Changed(users[i], req[s]).addresses = users[i].addresses
          BY <1>2, <2>1, <3>1, ChangedMain
      <3> QED
          BY <1>7, <3>2
    <2> QED
        BY <2>1
<1>10. SessionName[s] \notin shrunk' => doc.mainShippingAddress < Len(doc.addresses)
  <2>1. CASE req[s].op = "delete"
      BY <1>5, <2>1
  <2>2. ASSUME req[s].op # "delete", SessionName[s] \notin shrunk
        PROVE  doc.mainShippingAddress < Len(doc.addresses)
    <3>1. users[i].mainShippingAddress < Len(users[i].addresses)
        BY <1>7, <2>2 DEF InStep
    <3>2. req[s].op = "primary" => req[s].index \in DOMAIN users[i].addresses
        BY <1>1, <1>7, <1>8 DEF IndexOfPicked, Changing
    <3> QED
        BY <1>2, <1>7, <2>2, <3>1, <3>2, ChangedMain
  <2> QED
      BY <1>5, <2>1, <2>2
<1>11. InStep(s, i)'
  <2>1. /\ req'[s].pc = "wait" /\ req'[s].op = req[s].op
        /\ session'[s] = session[s] /\ session[s].userId # NoUser /\ users'[i] = doc
      BY <1>4, <1>5, <1>7
  <2> QED
      BY <1>9, <1>10, <2>1 DEF InStep
<1>12. IndexOfPicked(session'[s], req'[s])
    BY <1>1, <1>4, <1>5, <1>8 DEF IndexOfPicked, Changing
<1> QED
    BY <1>5, <1>6, <1>7, <1>11, <1>12 DEF Own

\* The answer: the search sees what was written.
LEMMA OwnWait ==
    ASSUME Basic, NEW s \in Sessions, Alone(s), Own(s), WaitUntilVisible(s)
    PROVE  Own(s)'
<1>0. PICK i : i = req[s].id
    OBVIOUS
<1>1. /\ req[s] \in Request /\ req[s].pc = "wait" /\ i \in AccountsOf(SessionName[s])
      /\ i \in UserIds /\ \A j \in AccountsOf(SessionName[s]) : j = i
    BY <1>0 DEF WaitUntilVisible, Basic, TypeOK, RequestOK, Working, AccountsOf, Alone
<1>2. PICK r : SetReq(s, r) /\ r = [req[s] EXCEPT !.pc = "reload"]
    BY DEF WaitUntilVisible
<1>3. /\ r.pc = "reload" /\ r.op = req[s].op /\ r.index = req[s].index
      /\ r.address = req[s].address /\ req'[s] = r
    BY <1>1, <1>2 DEF Request, SetReq, Basic, TypeOK
<1>4. /\ users' = users /\ session' = session /\ shrunk' = shrunk
      /\ visible'[i] = users[i]
    BY <1>0, <1>1 DEF WaitUntilVisible, historyVars, Basic, TypeOK
<1>5. \A j \in AccountsOf(SessionName[s])' : j = i
    BY <1>1, <1>4 DEF AccountsOf
<1>6. InStep(s, i) /\ session[s].userId # NoUser /\ IndexOfPicked(session[s], req[s])
    BY <1>1 DEF Own, Changing
<1>7. InStep(s, i)'
    BY <1>1, <1>3, <1>4, <1>6 DEF InStep
<1>8. IndexOfPicked(session'[s], req'[s])
    BY <1>1, <1>3, <1>4, <1>6 DEF IndexOfPicked, Changing
<1> QED
    BY <1>4, <1>5, <1>6, <1>7, <1>8 DEF Own

\* The reload brings back what was written, and the address at the index.
LEMMA OwnReload ==
    ASSUME Basic, NEW s \in Sessions, Alone(s), Own(s), Reload(s)
    PROVE  Own(s)'
<1>1. /\ req[s].pc = "reload" /\ session[s] \in Session
      /\ UNCHANGED <<users, visible, shrunk>>
    BY DEF Reload, indexVars, historyVars, Basic, TypeOK
<1>2. PICK i, x :
          /\ i \in UserIds /\ Found(SessionName[s], i)
          /\ session' = [session EXCEPT ![s] = x]
          /\ x = IF req[s].op = "primary"
                 THEN WithShipAdd(Loaded(s, i), req[s].index, req[s].address)
                 ELSE Loaded(s, i)
    BY DEF Reload
<1>3. /\ i \in AccountsOf(SessionName[s]) /\ \A j \in AccountsOf(SessionName[s]) : j = i
    BY <1>2, FoundIsNamed DEF Basic, Alone
<1>4. /\ session[s].userId # NoUser /\ visible[i] = users[i]
      /\ session[s].shipAdd = session[s].picked
      /\ req[s].op = "primary" => users[i].addresses = session[s].user.addresses
      /\ SessionName[s] \notin shrunk =>
            users[i].mainShippingAddress < Len(users[i].addresses)
    BY <1>1, <1>3 DEF Own, InStep, Changing
<1>5. /\ Loaded(s, i).userId = i /\ Loaded(s, i).user = users[i]
      /\ Loaded(s, i).shipAdd = Loaded(s, i).picked
    BY <1>1, <1>4 DEF Loaded, Session
<1>6. x.userId = i /\ x.user = users[i] /\ x.shipAdd = x.picked
  <2>1. CASE req[s].op # "primary"
      BY <1>2, <1>5, <2>1
  <2>2. CASE req[s].op = "primary"
    <3> DEFINE l == Loaded(s, i)
               a == l.user.addresses[req[s].index]
    <3>1. a = req[s].address
        BY <1>1, <1>4, <1>5, <2>2 DEF Own, IndexOfPicked, Changing
    <3>2. l \in Session
      <4>1. users[i] \in MyUser /\ Loaded(s, i) = [session[s] EXCEPT !.userId = i, !.user = users[i]]
          BY <1>2, <1>4 DEF Loaded, Basic, TypeOK
      <4> QED
          BY <1>1, <1>2, <4>1 DEF Session
    <3>3. \/ x = l
          \/ x = [l EXCEPT !.shipAdd = a, !.picked = req[s].address]
        BY <1>2, <2>2 DEF WithShipAdd
    <3>4. l.userId = i /\ l.user = users[i] /\ l.shipAdd = l.picked
        BY <1>5
    <3> HIDE DEF l, a
    <3> QED
        BY <3>1, <3>2, <3>3, <3>4 DEF Session
  <2> QED
      BY <2>1, <2>2
<1>7. /\ session'[s] = x /\ req'[s] = NoRequest /\ NoRequest.pc = "idle"
    BY <1>2 DEF Reload, End, SetReq, Basic, TypeOK, NoRequest
<1>8. AccountsOf(SessionName[s])' = AccountsOf(SessionName[s])
    BY <1>1 DEF AccountsOf
<1>9. InStep(s, i)'
  <2>1. /\ req'[s].pc = "idle" /\ session'[s].user = users'[i] /\ visible'[i] = users'[i]
        /\ users'[i] = users[i] /\ shrunk' = shrunk
      BY <1>1, <1>4, <1>6, <1>7
  <2> QED
      BY <1>4, <2>1 DEF InStep
<1> QED
    BY <1>3, <1>6, <1>7, <1>8, <1>9 DEF Own, Changing, IndexOfPicked

\* It holds before any session has an account ...
LEMMA OwnedInit == Init => Owned
<1> SUFFICES ASSUME Init, NEW s \in Sessions PROVE Own(s)
    BY DEF Owned
<1>1. NoRequest.pc = "idle" /\ NewSession.shipAdd = NewSession.picked /\ NoDoc.username = NoName
    BY DEF NoRequest, NewSession, NoDoc
<1>2. req[s] = NoRequest /\ session[s] = NewSession /\ \A i \in UserIds : users[i] = NoDoc
    BY DEF Init
<1>3. AccountsOf(SessionName[s]) = {}
    BY <1>1, <1>2, NullsAssumption, SessionNameAssumption DEF AccountsOf
<1> QED
    BY <1>1, <1>2, <1>3 DEF Own, Changing, IndexOfPicked

\* ... and every step preserves it.
LEMMA OwnedNext == Basic /\ Owned /\ [Next]_vars => Owned'
<1> SUFFICES ASSUME Basic, Owned, [Next]_vars, NEW s \in Sessions, Alone(s)'
             PROVE  Own(s)'
    BY DEF Owned
<1>1. CASE UNCHANGED vars
  <2>1. Alone(s) /\ Own(s)
      BY <1>1 DEF vars, indexVars, Alone, AccountsOf, Owned
  <2> QED
      BY <1>1, <2>1 DEF vars, indexVars, historyVars, Own, InStep, IndexOfPicked,
                        AccountsOf
<1>2. ASSUME NEW t \in Sessions, SessionStep(t) PROVE Own(s)'
  <2>1. Alone(s) /\ Own(s)
      BY <1>2, StepGrows, AloneBefore DEF Owned
  <2>2. CASE t # s
      BY <1>2, <2>1, <2>2, OthersStep
  <2>3. CASE t = s
      BY <1>2, <2>1, <2>3, OwnBegin, OwnRequestStep, OwnAttributeStep, OwnCreate,
         OwnUpdate, OwnWait, OwnReload DEF SessionStep
  <2> QED
      BY <2>2, <2>3
<1>3. ASSUME NEW i \in UserIds, Refresh(i) PROVE Own(s)'
  <2>1. AccountsGrow
      BY <1>3 DEF Refresh, AccountsGrow, historyVars
  <2> QED
      BY <1>3, <2>1, AloneBefore, RefreshStep DEF Owned
<1> QED
    BY <1>1, <1>2, <1>3 DEF Next

LEMMA OwnedInvariant == Spec => [](Basic /\ Owned)
BY InitOK, NextOK, OwnedInit, OwnedNext, PTL DEF Spec

\* The copy a session works on is its account whenever none of its requests is
\* under way, however late searches are: for a session alone with its account.
THEOREM SessionCurrent == Spec => []SessionIsCurrent
<1>1. ASSUME Basic, Owned PROVE SessionIsCurrent
  <2> SUFFICES ASSUME NEW s \in Sessions, Alone(s), session[s].userId # NoUser,
                      req[s].pc = "idle"
               PROVE  session[s].user = users[session[s].userId]
      BY DEF SessionIsCurrent
  <2>1. session[s].userId \in AccountsOf(SessionName[s]) /\ Own(s)
      BY <1>1 DEF Basic, Owned
  <2> QED
      BY <2>1 DEF Own, InStep
<1> QED
    BY <1>1, OwnedInvariant, PTL

\* The address such a session ships to is the one that was picked on its page,
\* though the change and the reload in between carry only its index.
THEOREM ShipsToPickedAddress == Spec => []ShipsToPicked
<1>1. ASSUME Owned PROVE ShipsToPicked
    BY <1>1 DEF Owned, Own, ShipsToPicked
<1> QED
    BY <1>1, OwnedInvariant, PTL

\* Until one of its addresses is deleted, the main address of such an account
\* is one of them.
THEOREM MainAddress == Spec => []MainAddressExists
<1>1. ASSUME Owned PROVE MainAddressExists
    BY <1>1 DEF Owned, Own, InStep, MainAddressExists
<1> QED
    BY <1>1, OwnedInvariant, PTL
=============================================================================
