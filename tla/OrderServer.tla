---------------------------- MODULE OrderServer -----------------------------
(***************************************************************************)
(* order-server: OrderRestEndpoint, OrderServiceImpl and its repositories. *)
(* Each HTTP call is served by a Tomcat thread (a Worker) that keeps its   *)
(* working copy of a document between the get and the update; another      *)
(* thread can run between any two calls on Elasticsearch or on the book    *)
(* server.  A call ends "done" (200, with the document in doc), "notFound" *)
(* (404) or "failed" (500), and the thread then waits for its client to    *)
(* take the reply.                                                         *)
(***************************************************************************)
EXTENDS OrderIndex

CONSTANTS
    Workers,         \* threads of the order server
    SearchSize,      \* hits a search returns (10, Elasticsearch's default)
    Faults           \* the faults that can happen: "fail", "timeout"

ASSUME SearchSizeAssumption == SearchSize \in Nat \ {0}

VARIABLE srv         \* srv[w]: the call that thread w serves

Ops == {"none", "create", "getActive", "get", "addBook", "editCart",
        "setState", "checkout", "update"}
Finished == {"done", "notFound", "failed"}
Running == {"start", "price", "search", "readBook", "writeBook", "write"}

\* doc is the argument of create and update (an order), carries those of
\* getActive (userId), editCart (items) and setState (state), and is then the
\* working copy of the handler; book is the argument of addBook, then the book
\* updateBoughtWith works on; copy its document; todo the books a loop still
\* has to visit.
Call == [pc: {"idle"} \cup Running \cup Finished,
         op: Ops,
         id: OrderIds \cup {NoOrder},
         doc: Order,
         book: Books \cup {NoBook},
         copy: Book,
         todo: SUBSET Books]

Idle == [pc |-> "idle", op |-> "none", id |-> NoOrder, doc |-> NoDoc,
         book |-> NoBook, copy |-> NoCopy, todo |-> {}]

StartCall(op, id) == [Idle EXCEPT !.pc = "start", !.op = op, !.id = id]
CreateCall(u) == [StartCall("create", NoOrder) EXCEPT !.doc = NewOrder(u)]
GetActiveCall(u) == [StartCall("getActive", NoOrder) EXCEPT !.doc = NewOrder(u)]
GetCall(o) == StartCall("get", o)
AddBookCall(o, b) == [StartCall("addBook", o) EXCEPT !.book = b]
EditCartCall(o, items) == [StartCall("editCart", o) EXCEPT !.doc.items = items]
SetStateCall(o, state) == [StartCall("setState", o) EXCEPT !.doc.state = state]
CheckoutCall(o) == StartCall("checkout", o)
UpdateCall(o, doc) == [StartCall("update", o) EXCEPT !.doc = doc]

At(w, op, pc) == srv[w].op = op /\ srv[w].pc = pc

\* Thread w goes on with the call record c, touching no document.
Continue(w, c) ==
    /\ srv' = [srv EXCEPT ![w] = c]
    /\ UNCHANGED indexVars

-----------------------------------------------------------------------------
\* saveOrder(order, true): index a new document; Elasticsearch picks the id.
CreateOrder(w) ==
    /\ At(w, "create", "start")
    /\ \E o \in OrderIds :
        /\ ~Present(o)
        /\ StoreOrder(o, srv[w].doc)
        /\ srv' = [srv EXCEPT ![w].pc = "done", ![w].id = o]

\* The query of getActiveOrder: neither PRE_SHIPPING nor SHIPPED.
ActiveHitsOrUnshipped(u) ==         \* mutant: only one mustNot
    Hits(u, OrderStates \ {"SHIPPED"})
ActiveHitsOfAnyUser(u) ==           \* mutant: no query on the user
    UNION {Hits(v, ActiveStates) : v \in Users}
ActiveHits(u) == Hits(u, ActiveStates)

\* getActiveOrder: the order is found only if the search has exactly one hit.
GetActiveOrder(w) ==
    /\ At(w, "getActive", "start")
    /\ LET hits == ActiveHits(srv[w].doc.userId)
       IN  \/ \E o \in hits :
                /\ hits = {o}
                /\ Continue(w, [srv[w] EXCEPT !.pc = "done", !.id = o,
                                              !.doc = visible[o]])
           \/ /\ \A o \in hits : hits # {o}
              /\ Continue(w, [srv[w] EXCEPT !.pc = "notFound"])

GetOrderById(w) ==
    /\ At(w, "get", "start")
    /\ Present(srv[w].id)
    /\ Continue(w, [srv[w] EXCEPT !.pc = "done", !.doc = orders[srv[w].id]])

\* findOrderById found nothing: OrderNotFoundException, a 404, except in
\* updateOrder, whose endpoint does not catch it.
OrderNotFound(w) ==
    /\ srv[w].pc = "start"
    /\ srv[w].op \notin {"create", "getActive"}
    /\ ~Present(srv[w].id)
    /\ Continue(w, [srv[w] EXCEPT !.pc = IF srv[w].op = "update" THEN "failed"
                                                                 ELSE "notFound"])

\* The line items of a document change, so recalculateTotal follows: it starts
\* from 0 and visits every book of the order.
RecalculateFromOld(c, doc, items) ==    \* mutant: the total is not reset
    [c EXCEPT !.doc = [doc EXCEPT !.items = items],
              !.todo = BooksOf(items),
              !.pc = IF BooksOf(items) = {} THEN "write" ELSE "price"]
RecalculateNonEmpty(c, doc, items) ==   \* mutant: an empty cart is overlooked
    [c EXCEPT !.doc = [doc EXCEPT !.items = items, !.subtotal = 0],
              !.todo = BooksOf(items), !.pc = "price"]
Recalculate(c, doc, items) ==
    [c EXCEPT !.doc = [doc EXCEPT !.items = items, !.subtotal = 0],
              !.todo = BooksOf(items),
              !.pc = IF BooksOf(items) = {} THEN "write" ELSE "price"]

\* addBookToOrder: no check of the order's state.
AddBookToOrder(w) ==
    /\ At(w, "addBook", "start")
    /\ Present(srv[w].id)
    /\ LET doc == orders[srv[w].id]
       IN  /\ doc.items[srv[w].book] < MaxQuantity
           /\ Continue(w, Recalculate(srv[w], doc,
                              [doc.items EXCEPT ![srv[w].book] = @ + 1]))

\* editCart: no check of the order's state either.
EditCart(w) ==
    /\ At(w, "editCart", "start")
    /\ Present(srv[w].id)
    /\ Continue(w, Recalculate(srv[w], orders[srv[w].id], srv[w].doc.items))

\* One iteration of recalculateTotal: the price comes from the book server.
PriceItem(w) ==
    /\ srv[w].pc = "price"
    /\ \E b \in srv[w].todo :
        Continue(w, [srv[w] EXCEPT
            !.doc.subtotal = @ + books[b].price * srv[w].doc.items[b],
            !.todo = @ \ {b},
            !.pc = IF srv[w].todo = {b} THEN "write" ELSE "price"])

AnyActiveTransition(from, to) ==    \* mutant: a placed order may be reopened
    \/ to \in ActiveStates
    \/ to = "PRE_SHIPPING" /\ from # "SHIPPED"
\* The transitions setOrderState accepts ("legal transitions only").
LegalTransition(from, to) ==
    \/ to \in ActiveStates /\ from \in ActiveStates
    \/ to = "PRE_SHIPPING" /\ from # "SHIPPED"

\* setOrderState; an illegal transition is an OrderException, hence a 500.
SetOrderState(w) ==
    /\ At(w, "setState", "start")
    /\ Present(srv[w].id)
    /\ LET doc == orders[srv[w].id]
           state == srv[w].doc.state
       IN  \/ /\ LegalTransition(doc.state, state)
              /\ Continue(w, [srv[w] EXCEPT !.pc = "write",
                                            !.doc = [doc EXCEPT !.state = state]])
           \/ /\ ~LegalTransition(doc.state, state)
              /\ Continue(w, [srv[w] EXCEPT !.pc = "failed"])

\* checkoutOrder: PRE_AUTHORIZE whatever the state was.
CheckoutOrder(w) ==
    /\ At(w, "checkout", "start")
    /\ Present(srv[w].id)
    /\ Continue(w, [srv[w] EXCEPT
            !.pc = "write",
            !.doc = [orders[srv[w].id] EXCEPT !.state = "PRE_AUTHORIZE"]])

-----------------------------------------------------------------------------
\* saveOrder(order, false): check that the order exists, update the boughtWith
\* fields, and only then write the order.
UpdateOrder(w) ==
    /\ At(w, "update", "start")
    /\ Present(srv[w].id)
    /\ Continue(w, [srv[w] EXCEPT !.pc = "search"])

\* The books of the orders found, the present one excluded.
PastBooksOfAll(hits, id) ==         \* mutant: the present order counts too
    UNION {BooksOf(visible[o].items) : o \in hits}
PastBooks(hits, id) == UNION {BooksOf(visible[o].items) : o \in hits \ {id}}

\* updateBoughtWith, step 1: the books of the user's other placed orders, as
\* far as they are among the first SearchSize hits.
SearchPastOrders(w) ==
    /\ srv[w].pc = "search"
    /\ LET matches == Hits(srv[w].doc.userId, PlacedStates)
       IN  \E hits \in SUBSET matches :
            /\ Cardinality(hits) = Min({SearchSize, Cardinality(matches)})
            /\ LET past == PastBooks(hits, srv[w].id)
               IN  Continue(w, [srv[w] EXCEPT
                        !.todo = past,
                        !.pc = IF past = {} THEN "write" ELSE "readBook"])

\* updateBoughtWith, step 2: one past book is read ...
ReadPastBook(w) ==
    /\ srv[w].pc = "readBook"
    /\ \E b \in srv[w].todo :
        Continue(w, [srv[w] EXCEPT !.pc = "writeBook", !.book = b,
                                   !.copy = books[b], !.todo = @ \ {b}])

\* A past book after the books of this order are counted as bought with it.
CountTogether(b, copy, items) ==
    [copy EXCEPT !.boughtWith =
        [c \in Books |-> IF c # b /\ items[c] > 0 THEN @[c] + 1 ELSE @[c]]]

\* ... and written back whole, its price included.
WritePastBook(w) ==
    /\ srv[w].pc = "writeBook"
    /\ \A c \in Books : srv[w].copy.boughtWith[c] < MaxBoughtWith
    /\ StoreBook(srv[w].book,
                 CountTogether(srv[w].book, srv[w].copy, srv[w].doc.items))
    /\ srv' = [srv EXCEPT
                  ![w].book = NoBook, ![w].copy = NoCopy,
                  ![w].pc = IF srv[w].todo = {} THEN "write" ELSE "readBook"]

\* The final doUpdateOrder of every handler.  The clients use nothing of the
\* document in the reply, so it is left out.
WriteOrder(w) ==
    /\ srv[w].pc = "write"
    /\ StoreOrder(srv[w].id, srv[w].doc)
    /\ srv' = [srv EXCEPT ![w].pc = "done", ![w].doc = NoDoc]

\* The call would exceed OrderIds, MaxQuantity or MaxBoughtWith.
AtBound(w) ==
    \/ At(w, "create", "start") /\ \A o \in OrderIds : Present(o)
    \/ /\ At(w, "addBook", "start")
       /\ orders[srv[w].id].items[srv[w].book] = MaxQuantity
    \/ /\ srv[w].pc = "writeBook"
       /\ \E c \in Books : srv[w].copy.boughtWith[c] = MaxBoughtWith

\* Elasticsearch or the book server fails (a conflicting update included): the
\* exception ends the call, what it has written so far stays.  addBookToOrder
\* answers 404 to every exception.  A call at a bound of the model fails too.
Fail(w) ==
    /\ "fail" \in Faults \/ AtBound(w)
    /\ srv[w].pc \in Running
    /\ Continue(w, [srv[w] EXCEPT
            !.pc = IF srv[w].op = "addBook" THEN "notFound" ELSE "failed",
            !.book = NoBook, !.copy = NoCopy, !.todo = {}])

ServerStep(w) ==
    \/ CreateOrder(w) \/ GetActiveOrder(w) \/ GetOrderById(w) \/ OrderNotFound(w)
    \/ AddBookToOrder(w) \/ EditCart(w) \/ PriceItem(w)
    \/ SetOrderState(w) \/ CheckoutOrder(w)
    \/ UpdateOrder(w) \/ SearchPastOrders(w) \/ ReadPastBook(w)
    \/ WritePastBook(w) \/ WriteOrder(w) \/ Fail(w)

\* A call record that a thread can hold: every op but the first three works on
\* an order, and only these, get excepted, reach a write; a loop over books always
\* has a book to visit; an order that was found or created has an id.
WellFormed(c) ==
    /\ c.op \notin {"none", "create", "getActive"} => c.id # NoOrder
    /\ c.pc \in Running \ {"start"} => c.op \notin {"none", "create", "getActive", "get"}
    /\ c.pc \in {"price", "readBook"} => c.todo # {}
    /\ c.pc = "writeBook" \/ (c.pc = "start" /\ c.op = "addBook") => c.book # NoBook
    /\ c.pc = "done" => c.id # NoOrder

ServerTypeOK ==
    /\ srv \in [Workers -> Call]
    /\ \A w \in Workers : WellFormed(srv[w])
ServerInit == srv = [w \in Workers |-> Idle]
=============================================================================
