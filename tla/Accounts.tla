------------------------------- MODULE Accounts -------------------------------
(***************************************************************************)
(* Accounts and their addresses: RegisterController, UserController and    *)
(* UserUtilsImpl of the frontend, the user server, and its index           *)
(* gutenberg-users.                                                        *)
(*                                                                         *)
(* An account is found by a search for its name and changed under its id;  *)
(* a session works on a copy of the account that is read again after every *)
(* change.  A request runs through several remote calls and each of them   *)
(* is a step.  A session has one tab, so a page that lists the addresses   *)
(* of its copy is up to date with that copy when something on it is        *)
(* picked.  Addresses stand for payment methods as well: their handlers    *)
(* are the same, line by line.                                             *)
(***************************************************************************)
EXTENDS Integers, Sequences, SequencesExt

CONSTANTS
    UserIds,         \* ids Elasticsearch can generate (bounds the accounts)
    NoUser,
    Names,           \* user names
    NoName,
    Addresses,       \* addresses that can be entered
    NoAddress,
    MaxAddresses,    \* bound on the addresses of an account
    Sessions,        \* HTTP sessions
    SessionName,     \* the name each of them registers and logs in with
    Shoppers         \* those that go further than the home page (bounds a run)

ASSUME NullsAssumption ==
    NoUser \notin UserIds /\ NoName \notin Names /\ NoAddress \notin Addresses
ASSUME SessionNameAssumption == SessionName \in [Sessions -> Names]
ASSUME ShoppersAssumption == Shoppers \subseteq Sessions
ASSUME MaxAddressesAssumption == MaxAddresses \in Nat \ {0}

VARIABLES
    users,           \* gutenberg-users: the current documents
    visible,         \* the documents as a search sees them
    session,         \* session[s]: its attributes
    req,             \* req[s]: the request it waits for
    registered,      \* history: names that saw "registerSuccess"
    entered,         \* history: <<name, address>> for every address typed in
    shrunk           \* history: names that had an address deleted

indexVars == <<users, visible>>
historyVars == <<registered, entered, shrunk>>
vars == <<indexVars, session, req, historyVars>>

MyUser == [username: Names \cup {NoName}, addresses: Seq(Addresses),
           mainShippingAddress: Nat]
NoDoc == [username |-> NoName, addresses |-> <<>>, mainShippingAddress |-> 0]

\* What the session holds: loggedUser, a document and its id; shipAdd; and, as
\* history, the address that was picked on the page when shipAdd was set.
Session == [loggedIn: BOOLEAN, userId: UserIds \cup {NoUser}, user: MyUser,
            shipAdd: Addresses \cup {NoAddress}, picked: Addresses \cup {NoAddress}]
NewSession == [loggedIn |-> FALSE, userId |-> NoUser, user |-> NoDoc,
               shipAdd |-> NoAddress, picked |-> NoAddress]

Request == [pc: {"idle", "check", "index", "find", "get", "write", "wait", "reload"},
            op: {"none", "add", "delete", "primary"},
            index: Nat, address: Addresses \cup {NoAddress},
            id: UserIds \cup {NoUser}, doc: MyUser]
NoRequest == [pc |-> "idle", op |-> "none", index |-> 0, address |-> NoAddress,
              id |-> NoUser, doc |-> NoDoc]

\* Types; and a request past its search has the account to work on.
TypeOK ==
    /\ users \in [UserIds -> MyUser]
    /\ visible \in [UserIds -> MyUser]
    /\ session \in [Sessions -> Session]
    /\ req \in [Sessions -> Request]
    /\ registered \in SUBSET Names
    /\ entered \in SUBSET (Names \X Addresses)
    /\ shrunk \in SUBSET Names
    /\ \A s \in Sessions :
        req[s].pc \in {"get", "write", "wait", "reload"} => req[s].id # NoUser

Init ==
    /\ users = [i \in UserIds |-> NoDoc]
    /\ visible = users
    /\ session = [s \in Sessions |-> NewSession]
    /\ req = [s \in Sessions |-> NoRequest]
    /\ registered = {} /\ entered = {} /\ shrunk = {}

Present(i) == users[i].username # NoName

SetReq(s, r) == req' = [req EXCEPT ![s] = r]
End(s) == SetReq(s, NoRequest)

\* findByUsername: the account, if the search has exactly one hit.
FoundByMatch(name, i) ==            \* mutant: matchQuery, for names of one word in common
    {j \in UserIds : visible[j].username # NoName} = {i}
Found(name, i) == {j \in UserIds : visible[j].username = name} = {i}
NotFound(name) == \A i \in UserIds : ~Found(name, i)

-----------------------------------------------------------------------------
(* Registration.                                                           *)

Register(s) ==
    /\ req[s].pc = "idle"
    /\ \E a \in Addresses : SetReq(s, [NoRequest EXCEPT !.pc = "check", !.address = a])
    /\ UNCHANGED <<indexVars, session, historyVars>>

\* createUser looks the name up: registerFailure if the search finds it ...
CheckName(s) ==
    /\ req[s].pc = "check"
    /\ \/ NotFound(SessionName[s]) /\ SetReq(s, [req[s] EXCEPT !.pc = "index"])
       \/ ~NotFound(SessionName[s]) /\ End(s)
    /\ UNCHANGED <<indexVars, session, historyVars>>

\* ... and indexes the account if not, with no refresh policy.
CreateUser(s) ==
    /\ req[s].pc = "index"
    /\ \E i \in UserIds :
        /\ ~Present(i)
        /\ users' = [users EXCEPT ![i] =
                [username |-> SessionName[s], addresses |-> <<req[s].address>>,
                 mainShippingAddress |-> 0]]
    /\ registered' = registered \cup {SessionName[s]}
    /\ entered' = entered \cup {<<SessionName[s], req[s].address>>}
    /\ End(s)
    /\ UNCHANGED <<visible, session, shrunk>>

\* The model has no more ids: an error page.
CreateFails(s) ==
    /\ req[s].pc = "index"
    /\ \A i \in UserIds : Present(i)
    /\ End(s)
    /\ UNCHANGED <<indexVars, session, historyVars>>

-----------------------------------------------------------------------------
(* Sessions.                                                               *)

\* loadUserByUsername; a name that is not found cannot log in.
Login(s) ==
    /\ req[s].pc = "idle" /\ ~session[s].loggedIn
    /\ ~NotFound(SessionName[s])
    /\ session' = [session EXCEPT ![s].loggedIn = TRUE]
    /\ UNCHANGED <<indexVars, req, historyVars>>

Logout(s) ==
    /\ req[s].pc = "idle" /\ session[s].loggedIn
    /\ session' = [session EXCEPT ![s] = NewSession]
    /\ UNCHANGED <<indexVars, req, historyVars>>

\* The session's copy becomes what a search finds.
Loaded(s, i) == [session[s] EXCEPT !.userId = i, !.user = visible[i]]

\* greetings sets loggedUser on each visit of the home page; getLoggedUser does
\* so only when there is none.
LoadUser(s) ==
    /\ req[s].pc = "idle" /\ session[s].loggedIn
    /\ \E i \in UserIds :
        /\ Found(SessionName[s], i)
        /\ session' = [session EXCEPT ![s] = Loaded(s, i)]
    /\ UNCHANGED <<indexVars, req, historyVars>>

-----------------------------------------------------------------------------
(* The profile page and the address page, which list the addresses of the  *)
(* session's copy with their indexes.                                      *)

Listed(s) == session[s].user.addresses

Picking(s) == s \in Shoppers /\ req[s].pc = "idle" /\ session[s].userId # NoUser

\* The session after user.getAddresses().get(index) has become its shipAdd; out
\* of bounds, the request fails and nothing is set.
WithShipAdd(attributes, i, address) ==
    IF i > Len(attributes.user.addresses) THEN attributes
    ELSE [attributes EXCEPT !.shipAdd = attributes.user.addresses[i],
                            !.picked = address]

\* changeShippingAddress for this order only ...
ChooseAddress(s) ==
    /\ Picking(s)
    /\ \E i \in DOMAIN Listed(s) :
        session' = [session EXCEPT ![s] = WithShipAdd(@, i, Listed(s)[i])]
    /\ UNCHANGED <<indexVars, req, historyVars>>

\* ... or as the main address, which goes to the user server first.  Only the
\* index is sent; the address is kept as history.
MakePrimary(s) ==
    /\ Picking(s)
    /\ \E i \in DOMAIN Listed(s) :
        SetReq(s, [NoRequest EXCEPT !.pc = "find", !.op = "primary", !.index = i,
                                    !.address = Listed(s)[i]])
    /\ UNCHANGED <<indexVars, session, historyVars>>

DeleteAddress(s) ==
    /\ Picking(s)
    /\ \E a \in ToSet(Listed(s)) :
        SetReq(s, [NoRequest EXCEPT !.pc = "find", !.op = "delete", !.address = a])
    /\ UNCHANGED <<indexVars, session, historyVars>>

AddAddress(s) ==
    /\ Picking(s)
    /\ \E a \in Addresses :
        /\ SetReq(s, [NoRequest EXCEPT !.pc = "find", !.op = "add", !.address = a])
        /\ entered' = entered \cup {<<SessionName[s], a>>}
    /\ UNCHANGED <<indexVars, session, registered, shrunk>>

-----------------------------------------------------------------------------
(* A change of the account.                                                *)

\* The id is looked up by name, by the frontend or by the user server.
FindWithoutId(s) ==                 \* mutant: the account of the session is meant
    /\ req[s].pc = "find"
    /\ ~NotFound(SessionName[s])
    /\ SetReq(s, [req[s] EXCEPT !.pc = "get"])
    /\ UNCHANGED <<indexVars, session, historyVars>>
FindUser(s) ==
    /\ req[s].pc = "find"
    /\ \E i \in UserIds :
        /\ Found(SessionName[s], i)
        /\ SetReq(s, [req[s] EXCEPT !.pc = "get", !.id = i])
    /\ UNCHANGED <<indexVars, session, historyVars>>

\* The document after the change.  deleteAddress shifts the addresses under the
\* index of the main one; setPrimaryAddress takes any index.
ChangedFromOne(doc, r) ==           \* mutant: the main address counted from 1
    CASE r.op = "add"     -> [doc EXCEPT !.addresses = Append(@, r.address)]
      [] r.op = "delete"  -> [doc EXCEPT !.addresses = RemoveFirst(@, r.address)]
      [] r.op = "primary" -> [doc EXCEPT !.mainShippingAddress = r.index]
Changed(doc, r) ==
    CASE r.op = "add"     -> [doc EXCEPT !.addresses = Append(@, r.address)]
      [] r.op = "delete"  -> [doc EXCEPT !.addresses = RemoveFirst(@, r.address)]
      [] r.op = "primary" -> [doc EXCEPT !.mainShippingAddress = r.index - 1]

\* The user server gets the document and changes its copy ...
GetUser(s) ==
    /\ req[s].pc = "get"
    /\ LET doc == users[req[s].id]
       IN  /\ req[s].op = "add" => Len(doc.addresses) < MaxAddresses
           /\ SetReq(s, [req[s] EXCEPT !.pc = "write", !.doc = Changed(doc, req[s])])
    /\ UNCHANGED <<indexVars, session, historyVars>>

\* ... doUpdate writes it back whole ...
UpdateUser(s) ==
    /\ req[s].pc = "write"
    /\ users' = [users EXCEPT ![req[s].id] = req[s].doc]
    /\ SetReq(s, [req[s] EXCEPT !.pc = "wait", !.doc = NoDoc])
    /\ shrunk' = IF req[s].op = "delete" THEN shrunk \cup {SessionName[s]} ELSE shrunk
    /\ UNCHANGED <<visible, session, registered, entered>>

\* ... and answers when a refresh has made it visible (WAIT_UNTIL).
AnswerAtOnce(s) ==                  \* mutant: no refresh policy
    /\ req[s].pc = "wait"
    /\ SetReq(s, [req[s] EXCEPT !.pc = "reload"])
    /\ UNCHANGED <<indexVars, session, historyVars>>
WaitUntilVisible(s) ==
    /\ req[s].pc = "wait"
    /\ visible' = [visible EXCEPT ![req[s].id] = users[req[s].id]]
    /\ SetReq(s, [req[s] EXCEPT !.pc = "reload"])
    /\ UNCHANGED <<users, session, historyVars>>

\* reload: the session takes the account as a search finds it now; after
\* setPrimaryAddress it also takes the address at the index chosen.
Reload(s) ==
    /\ req[s].pc = "reload"
    /\ \E i \in UserIds :
        /\ Found(SessionName[s], i)
        /\ session' = [session EXCEPT ![s] =
                IF req[s].op = "primary"
                THEN WithShipAdd(Loaded(s, i), req[s].index, req[s].address)
                ELSE Loaded(s, i)]
    /\ End(s)
    /\ UNCHANGED <<indexVars, historyVars>>

\* findByUsername found none or several: 404, an error page.  A change that
\* would exceed MaxAddresses ends like this too.
RequestFails(s) ==
    /\ \/ req[s].pc \in {"find", "reload"} /\ NotFound(SessionName[s])
       \/ /\ req[s].pc = "get" /\ req[s].op = "add"
          /\ Len(users[req[s].id].addresses) = MaxAddresses
    /\ End(s)
    /\ UNCHANGED <<indexVars, session, historyVars>>

\* Elasticsearch refreshes the shard of account i by itself.
Refresh(i) ==
    /\ visible[i] # users[i]
    /\ visible' = [visible EXCEPT ![i] = users[i]]
    /\ UNCHANGED <<users, session, req, historyVars>>

SessionStep(s) ==
    \/ Register(s) \/ CheckName(s) \/ CreateUser(s) \/ CreateFails(s)
    \/ Login(s) \/ Logout(s) \/ LoadUser(s)
    \/ ChooseAddress(s) \/ MakePrimary(s) \/ DeleteAddress(s) \/ AddAddress(s)
    \/ FindUser(s) \/ GetUser(s) \/ UpdateUser(s) \/ WaitUntilVisible(s)
    \/ Reload(s) \/ RequestFails(s)

Next ==
    \/ \E s \in Sessions : SessionStep(s)
    \/ \E i \in UserIds : Refresh(i)

Spec == Init /\ [][Next]_vars

-----------------------------------------------------------------------------
AccountsOf(name) == {i \in UserIds : users[i].username = name}

\* An address in an account was typed in under the name of that account: the
\* name, looked up again for every call, never leads to another account.
AccountsStayApart ==
    \A i \in UserIds : \A a \in ToSet(users[i].addresses) :
        <<users[i].username, a>> \in entered

\* Session s is the only one that ever works on accounts of its name, and there
\* is one such account.
Alone(s) ==
    /\ \A t \in Sessions \ {s} : SessionName[t] # SessionName[s]
    /\ \A i, j \in AccountsOf(SessionName[s]) : i = j

\* Then its copy is the account, whenever no request is under way: the search of
\* reload never brings back what was just replaced.
SessionIsCurrent ==
    \A s \in Sessions :
        /\ Alone(s)
        /\ session[s].userId # NoUser
        /\ req[s].pc = "idle"
        => session[s].user = users[session[s].userId]

\* And the address its order goes to is the one that was picked on the page,
\* though only an index travels.
ShipsToPicked ==
    \A s \in Sessions : Alone(s) => session[s].shipAdd = session[s].picked

\* The main address exists unless an address of that account was deleted, so
\* until then GET /payment has an address to show.
MainAddressExists ==
    \A s \in Sessions :
        /\ Alone(s)
        /\ SessionName[s] \notin shrunk
        => \A i \in AccountsOf(SessionName[s]) :
                users[i].mainShippingAddress < Len(users[i].addresses)

\* "The username should not be already present in gutenberg-users index. Once
\* registered the new user can connect to frontend server" (README.md): at the
\* latest when every account is visible and no request is under way.
RegisteredCanConnect ==
    visible = users /\ (\A s \in Sessions : req[s].pc = "idle")
        => \A name \in registered : ~NotFound(name)
=============================================================================
