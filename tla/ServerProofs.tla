---------------------------- MODULE ServerProofs ----------------------------
(***************************************************************************)
(* Lemmas about the order server and the admin server, whoever calls them. *)
(* They are used by the proofs about the storefront and about the backend  *)
(* with arbitrary clients.                                                 *)
(***************************************************************************)
EXTENDS OrderServer, AdminServer, TLAPS

(***************************************************************************)
(* The index.                                                              *)
(***************************************************************************)

\* The blank documents are documents.
LEMMA Documents ==
    /\ NoItems \in Items /\ NoDoc \in Order /\ NoCopy \in Book
    /\ \A u \in Users : NewOrder(u) \in Order
    BY DEF NoItems, Items, NoDoc, NewOrder, Order, OrderStates, NoCopy, Book

\* The initial documents are typed: every subset of Prices is of numbers.
LEMMA IndexInitTyped == IndexInit => IndexTypeOK
<1> SUFFICES ASSUME IndexInit PROVE IndexTypeOK
    OBVIOUS
<1> USE PricesAssumption, Documents
<1>1. orders \in [OrderIds -> Order] /\ visible \in [OrderIds -> Order]
    BY DEF IndexInit
<1>2. books \in [Books -> Book]
    BY DEF IndexInit, Book, Items
<1>3. priceLog \in [Books -> SUBSET Nat]
    BY <1>2 DEF IndexInit, Book
<1> QED BY <1>1, <1>2, <1>3 DEF IndexInit, IndexTypeOK

\* Writing one typed order leaves the index typed.
LEMMA StoreOrderTyped ==
    ASSUME IndexTypeOK, NEW o \in OrderIds, NEW doc \in Order, StoreOrder(o, doc)
    PROVE  IndexTypeOK'
    BY DEF IndexTypeOK, StoreOrder

\* Writing one typed book leaves the index typed.
LEMMA StoreBookTyped ==
    ASSUME IndexTypeOK, NEW b \in Books, NEW doc \in Book, StoreBook(b, doc)
    PROVE  IndexTypeOK'
<1>1. books' \in [Books -> Book]
    BY DEF IndexTypeOK, StoreBook
<1>2. doc.price \in Nat
    BY DEF Book
<1>3. priceLog' \in [Books -> SUBSET Nat]
    BY <1>2 DEF IndexTypeOK, StoreBook
<1> QED BY <1>1, <1>3 DEF IndexTypeOK, StoreBook

\* A refresh leaves the index typed.
LEMMA RefreshTyped ==
    ASSUME IndexTypeOK, NEW o \in OrderIds, Refresh(o)
    PROVE  IndexTypeOK'
    BY DEF IndexTypeOK, Refresh

\* A step that touches no document leaves the index typed.
LEMMA IndexStutter == IndexTypeOK /\ UNCHANGED indexVars => IndexTypeOK'
    BY DEF IndexTypeOK, indexVars

(***************************************************************************)
(* Calls of the order server.                                              *)
(***************************************************************************)

\* The record of an idle thread is typed and well formed.
LEMMA IdleTyped == Idle \in Call /\ WellFormed(Idle) /\ Idle.op = "none"
    BY Documents DEF Idle, Call, WellFormed, Running, Finished, Ops

\* A call starts with blank fields.
LEMMA StartCallTyped ==
    ASSUME NEW op \in Ops, NEW id \in OrderIds \cup {NoOrder}
    PROVE  LET c == StartCall(op, id)
           IN  /\ c \in Call
               /\ c.pc = "start" /\ c.op = op /\ c.id = id /\ c.doc = NoDoc
               /\ c.book = NoBook /\ c.copy = NoCopy /\ c.todo = {}
<1>1. Idle \in Call
    BY IdleTyped
<1> QED BY <1>1 DEF StartCall, Idle, Call, Running, Finished

\* Every call a client can start is typed and well formed.
LEMMA CallsTyped ==
    /\ \A u \in Users : /\ CreateCall(u) \in Call /\ WellFormed(CreateCall(u))
                        /\ CreateCall(u).op = "create"
                        /\ GetActiveCall(u) \in Call /\ WellFormed(GetActiveCall(u))
                        /\ GetActiveCall(u).op = "getActive"
    /\ \A o \in OrderIds :
        /\ GetCall(o) \in Call /\ WellFormed(GetCall(o))
        /\ GetCall(o).op = "get" /\ GetCall(o).id = o
        /\ CheckoutCall(o) \in Call /\ WellFormed(CheckoutCall(o))
        /\ CheckoutCall(o).op = "checkout" /\ CheckoutCall(o).id = o
        /\ \A b \in Books :
            /\ AddBookCall(o, b) \in Call /\ WellFormed(AddBookCall(o, b))
            /\ AddBookCall(o, b).op = "addBook" /\ AddBookCall(o, b).id = o
        /\ \A items \in [Books -> 0..MaxQuantity] :
            /\ EditCartCall(o, items) \in Call /\ WellFormed(EditCartCall(o, items))
            /\ EditCartCall(o, items).op = "editCart" /\ EditCartCall(o, items).id = o
        /\ \A state \in OrderStates :
            /\ SetStateCall(o, state) \in Call /\ WellFormed(SetStateCall(o, state))
            /\ SetStateCall(o, state).op = "setState" /\ SetStateCall(o, state).id = o
        /\ \A doc \in Order :
            /\ UpdateCall(o, doc) \in Call /\ WellFormed(UpdateCall(o, doc))
            /\ UpdateCall(o, doc).op = "update" /\ UpdateCall(o, doc).id = o
<1> USE NoOrderAssumption, NoBookAssumption, BoundsAssumption, Documents, StartCallTyped
    DEF Call, WellFormed, Ops, Running, Finished
<1>1. ASSUME NEW u \in Users
      PROVE  /\ CreateCall(u) \in Call /\ WellFormed(CreateCall(u))
             /\ CreateCall(u).op = "create"
             /\ GetActiveCall(u) \in Call /\ WellFormed(GetActiveCall(u))
             /\ GetActiveCall(u).op = "getActive"
    BY DEF CreateCall, GetActiveCall
<1>2. ASSUME NEW o \in OrderIds
      PROVE  /\ GetCall(o) \in Call /\ WellFormed(GetCall(o))
             /\ GetCall(o).op = "get" /\ GetCall(o).id = o
             /\ CheckoutCall(o) \in Call /\ WellFormed(CheckoutCall(o))
             /\ CheckoutCall(o).op = "checkout" /\ CheckoutCall(o).id = o
    BY DEF GetCall, CheckoutCall
<1>3. ASSUME NEW o \in OrderIds, NEW b \in Books
      PROVE  /\ AddBookCall(o, b) \in Call /\ WellFormed(AddBookCall(o, b))
             /\ AddBookCall(o, b).op = "addBook" /\ AddBookCall(o, b).id = o
    BY DEF AddBookCall
<1>4. ASSUME NEW o \in OrderIds, NEW items \in [Books -> 0..MaxQuantity]
      PROVE  /\ EditCartCall(o, items) \in Call /\ WellFormed(EditCartCall(o, items))
             /\ EditCartCall(o, items).op = "editCart" /\ EditCartCall(o, items).id = o
    <2>1. items \in Items
        BY DEF Items
    <2> QED BY <2>1 DEF EditCartCall, Order
<1>5. ASSUME NEW o \in OrderIds, NEW state \in OrderStates
      PROVE  /\ SetStateCall(o, state) \in Call /\ WellFormed(SetStateCall(o, state))
             /\ SetStateCall(o, state).op = "setState" /\ SetStateCall(o, state).id = o
    BY DEF SetStateCall, Order
<1>6. ASSUME NEW o \in OrderIds, NEW doc \in Order
      PROVE  /\ UpdateCall(o, doc) \in Call /\ WellFormed(UpdateCall(o, doc))
             /\ UpdateCall(o, doc).op = "update" /\ UpdateCall(o, doc).id = o
    BY DEF UpdateCall
<1> QED BY <1>1, <1>2, <1>3, <1>4, <1>5, <1>6

(***************************************************************************)
(* Steps of the order server.                                              *)
(***************************************************************************)

\* What a step of the thread that serves call c leaves of it: the operation,
\* and the order id unless the operation is to find one.
Continues(c, d) ==
    /\ d \in Call /\ WellFormed(d)
    /\ d.op = c.op
    /\ c.op \notin {"create", "getActive"} => d.id = c.id

\* recalculateTotal starts, or is skipped for an empty cart.
LEMMA RecalculateTyped ==
    ASSUME NEW c \in Call, WellFormed(c), NEW doc \in Order, NEW items \in Items,
           c.op \in {"addBook", "editCart"}
    PROVE  Continues(c, Recalculate(c, doc, items))
<1>1. [doc EXCEPT !.items = items, !.subtotal = 0] \in Order
    BY DEF Order
<1>2. BooksOf(items) \in SUBSET Books
    BY DEF BooksOf
<1> QED BY <1>1, <1>2
    DEF Recalculate, Continues, Call, WellFormed, Running, Finished

\* Every step of a thread keeps the index typed and continues its call.
LEMMA ServerStepTyped ==
    ASSUME IndexTypeOK, ServerTypeOK, NEW w \in Workers, ServerStep(w)
    PROVE  /\ IndexTypeOK'
           /\ \E d : Continues(srv[w], d) /\ srv' = [srv EXCEPT ![w] = d]
<1> DEFINE Goal == /\ IndexTypeOK'
                   /\ \E d : Continues(srv[w], d) /\ srv' = [srv EXCEPT ![w] = d]
<1>1. srv \in [Workers -> Call] /\ srv[w] \in Call /\ WellFormed(srv[w])
    BY DEF ServerTypeOK
<1>2. ASSUME NEW d, Continues(srv[w], d), Continue(w, d)
      PROVE  Goal
    BY <1>2, IndexStutter DEF Continue
<1>3. ASSUME NEW o \in OrderIds
      PROVE  orders[o] \in Order /\ visible[o] \in Order
    BY DEF IndexTypeOK
<1>4. CASE CreateOrder(w)
    <2>1. PICK o \in OrderIds :
            /\ StoreOrder(o, srv[w].doc)
            /\ srv' = [srv EXCEPT ![w].pc = "done", ![w].id = o]
        BY <1>4 DEF CreateOrder
    <2>2. srv[w].op = "create" /\ srv[w].doc \in Order
        BY <1>1, <1>4 DEF CreateOrder, At, Call
    <2> DEFINE d == [srv[w] EXCEPT !.pc = "done", !.id = o]
    <2>3. Continues(srv[w], d)
        BY <1>1, <2>2, NoOrderAssumption DEF Continues, Call, WellFormed, Running, Finished
    <2>4. srv' = [srv EXCEPT ![w] = d]
        BY <2>1, <1>1
    <2> QED BY <2>1, <2>2, <2>3, <2>4, StoreOrderTyped
<1>5. CASE GetActiveOrder(w)
    <2> DEFINE found(o) == [srv[w] EXCEPT !.pc = "done", !.id = o, !.doc = visible[o]]
    <2> DEFINE lost == [srv[w] EXCEPT !.pc = "notFound"]
    <2>1. (\E o \in OrderIds : Continue(w, found(o))) \/ Continue(w, lost)
        BY <1>5 DEF GetActiveOrder, ActiveHits, Hits
    <2>2. srv[w].op = "getActive"
        BY <1>5 DEF GetActiveOrder, At
    <2>3. \A o \in OrderIds : Continues(srv[w], found(o))
        BY <1>1, <1>3, <2>2, NoOrderAssumption
        DEF Continues, Call, WellFormed, Running, Finished
    <2>4. Continues(srv[w], lost)
        BY <1>1 DEF Continues, Call, WellFormed, Running, Finished
    <2> QED BY <1>2, <2>1, <2>3, <2>4
<1>6. CASE GetOrderById(w)
    <2> DEFINE d == [srv[w] EXCEPT !.pc = "done", !.doc = orders[srv[w].id]]
    <2>1. srv[w].op = "get" /\ Continue(w, d)
        BY <1>6 DEF GetOrderById, At
    <2>2. srv[w].id \in OrderIds
        BY <1>1, <2>1 DEF WellFormed, Call
    <2>3. Continues(srv[w], d)
        BY <1>1, <1>3, <2>1, <2>2 DEF Continues, Call, WellFormed, Running, Finished
    <2> QED BY <1>2, <2>1, <2>3
<1>7. CASE OrderNotFound(w)
    <2> DEFINE d(pc) == [srv[w] EXCEPT !.pc = pc]
    <2>1. Continue(w, d("failed")) \/ Continue(w, d("notFound"))
        BY <1>7 DEF OrderNotFound
    <2>2. \A pc \in {"failed", "notFound"} : Continues(srv[w], d(pc))
        BY <1>1 DEF Continues, Call, WellFormed, Running, Finished
    <2> QED BY <1>2, <2>1, <2>2
<1>8. CASE AddBookToOrder(w)
    <2>1. srv[w].op = "addBook" /\ srv[w].pc = "start"
        BY <1>8 DEF AddBookToOrder, At
    <2>2. srv[w].id \in OrderIds /\ srv[w].book \in Books
        BY <1>1, <2>1 DEF WellFormed, Call
    <2> DEFINE doc == orders[srv[w].id]
               items == [doc.items EXCEPT ![srv[w].book] = @ + 1]
    <2>3. doc \in Order /\ items \in Items
        BY <1>3, <2>2 DEF Order, Items
    <2>4. Continue(w, Recalculate(srv[w], doc, items))
        BY <1>8 DEF AddBookToOrder
    <2> HIDE DEF doc, items
    <2> QED BY <1>1, <1>2, <2>1, <2>3, <2>4, RecalculateTyped
<1>9. CASE EditCart(w)
    <2>1. srv[w].op = "editCart" /\ srv[w].pc = "start"
        BY <1>9 DEF EditCart, At
    <2>2. srv[w].id \in OrderIds /\ srv[w].doc.items \in Items
        BY <1>1, <2>1 DEF WellFormed, Call, Order
    <2>3. Continue(w, Recalculate(srv[w], orders[srv[w].id], srv[w].doc.items))
        BY <1>9 DEF EditCart
    <2> QED BY <1>1, <1>2, <1>3, <2>1, <2>2, <2>3, RecalculateTyped
<1>10. CASE PriceItem(w)
    <2> DEFINE sum(b) == srv[w].doc.subtotal + books[b].price * srv[w].doc.items[b]
    <2> DEFINE d(b) == [srv[w] EXCEPT
            !.doc.subtotal = sum(b),
            !.todo = srv[w].todo \ {b},
            !.pc = IF srv[w].todo = {b} THEN "write" ELSE "price"]
    <2>1. PICK b \in srv[w].todo : Continue(w, d(b))
        BY <1>10, <1>1 DEF PriceItem, Call
    <2>2. b \in Books /\ srv[w].pc = "price"
        BY <1>1, <1>10, <2>1 DEF Call, PriceItem
    <2>3. books[b].price \in Nat /\ srv[w].doc.items[b] \in Nat /\ srv[w].doc.subtotal \in Nat
        BY <1>1, <2>2 DEF IndexTypeOK, Book, Call, Order, Items
    <2>4. \A m, n \in Nat : m * n \in Nat
        OBVIOUS
    <2>5. sum(b) \in Nat
        BY <2>3, <2>4
    <2> HIDE DEF sum
    <2>6. srv[w].doc \in Order /\ [srv[w].doc EXCEPT !.subtotal = sum(b)] \in Order
        BY <1>1, <2>5 DEF Call, Order
    <2>7. d(b) \in Call
        BY <1>1, <2>6 DEF Call, Running
    <2>8. WellFormed(d(b)) /\ d(b).op = srv[w].op /\ d(b).id = srv[w].id
        BY <1>1, <2>1, <2>2 DEF Call, WellFormed, Running
    <2> QED BY <1>2, <2>1, <2>7, <2>8 DEF Continues
<1>11. CASE SetOrderState(w)
    <2> DEFINE doc == orders[srv[w].id]
               legal == [srv[w] EXCEPT !.pc = "write",
                                       !.doc = [doc EXCEPT !.state = srv[w].doc.state]]
               illegal == [srv[w] EXCEPT !.pc = "failed"]
    <2>1. srv[w].op = "setState" /\ (Continue(w, legal) \/ Continue(w, illegal))
        BY <1>11 DEF SetOrderState, At
    <2>2. doc \in Order
        BY <1>1, <1>3, <2>1 DEF WellFormed, Call
    <2>3. Continues(srv[w], legal)
        BY <1>1, <2>1, <2>2 DEF Continues, Call, Order, WellFormed, Running, Finished
    <2>4. Continues(srv[w], illegal)
        BY <1>1 DEF Continues, Call, WellFormed, Running, Finished
    <2> QED BY <1>2, <2>1, <2>3, <2>4
<1>12. CASE CheckoutOrder(w)
    <2> DEFINE doc == orders[srv[w].id]
               d == [srv[w] EXCEPT !.pc = "write",
                                   !.doc = [doc EXCEPT !.state = "PRE_AUTHORIZE"]]
    <2>1. srv[w].op = "checkout" /\ Continue(w, d)
        BY <1>12 DEF CheckoutOrder, At
    <2>2. doc \in Order
        BY <1>1, <1>3, <2>1 DEF WellFormed, Call
    <2>3. Continues(srv[w], d)
        BY <1>1, <2>1, <2>2
        DEF Continues, Call, Order, OrderStates, WellFormed, Running, Finished
    <2> QED BY <1>2, <2>1, <2>3
<1>13. CASE UpdateOrder(w)
    <2> DEFINE d == [srv[w] EXCEPT !.pc = "search"]
    <2>1. srv[w].op = "update" /\ Continue(w, d)
        BY <1>13 DEF UpdateOrder, At
    <2>2. Continues(srv[w], d)
        BY <1>1, <2>1 DEF Continues, Call, WellFormed, Running, Finished
    <2> QED BY <1>2, <2>1, <2>2
<1>14. CASE SearchPastOrders(w)
    <2> DEFINE d(past) == [srv[w] EXCEPT
                    !.todo = past,
                    !.pc = IF past = {} THEN "write" ELSE "readBook"]
    <2>1. srv[w].pc = "search"
          /\ \E hits \in SUBSET OrderIds : Continue(w, d(PastBooks(hits, srv[w].id)))
        BY <1>14 DEF SearchPastOrders, Hits
    <2>2. PICK hits : Continue(w, d(PastBooks(hits, srv[w].id)))
        BY <2>1
    <2>3. PastBooks(hits, srv[w].id) \in SUBSET Books
        BY DEF PastBooks, BooksOf
    <2>4. \A past \in SUBSET Books : Continues(srv[w], d(past))
        BY <1>1, <2>1 DEF Continues, Call, WellFormed, Running, Finished
    <2> QED BY <1>2, <2>2, <2>3, <2>4
<1>15. CASE ReadPastBook(w)
    <2> DEFINE d(b) == [srv[w] EXCEPT !.pc = "writeBook", !.book = b,
                                      !.copy = books[b], !.todo = srv[w].todo \ {b}]
    <2>1. PICK b \in srv[w].todo : Continue(w, d(b))
        BY <1>15, <1>1 DEF ReadPastBook, Call
    <2>2. b \in Books /\ books[b] \in Book /\ srv[w].pc = "readBook"
        BY <1>1, <1>15, <2>1 DEF Call, ReadPastBook, IndexTypeOK
    <2>3. Continues(srv[w], d(b))
        BY <1>1, <2>2, NoBookAssumption DEF Continues, Call, WellFormed, Running, Finished
    <2> QED BY <1>2, <2>1, <2>3
<1>16. CASE WritePastBook(w)
    <2> DEFINE doc == CountTogether(srv[w].book, srv[w].copy, srv[w].doc.items)
    <2> DEFINE d == [srv[w] EXCEPT !.book = NoBook, !.copy = NoCopy,
                            !.pc = IF srv[w].todo = {} THEN "write" ELSE "readBook"]
    <2>1. srv[w].pc = "writeBook" /\ StoreBook(srv[w].book, doc)
        BY <1>16 DEF WritePastBook
    <2>2. srv' = [srv EXCEPT ![w] = d]
        BY <1>1, <1>16 DEF WritePastBook
    <2>3. srv[w].book \in Books /\ srv[w].copy \in Book
        BY <1>1, <2>1 DEF WellFormed, Call
    <2>4. doc \in Book
        BY <2>3 DEF CountTogether, Book
    <2>5. Continues(srv[w], d)
        BY <1>1, <2>1, Documents DEF Continues, Call, WellFormed, Running, Finished
    <2> HIDE DEF doc
    <2> QED BY <2>1, <2>2, <2>3, <2>4, <2>5, StoreBookTyped
<1>17. CASE WriteOrder(w)
    <2> DEFINE d == [srv[w] EXCEPT !.pc = "done", !.doc = NoDoc]
    <2>1. srv[w].pc = "write" /\ StoreOrder(srv[w].id, srv[w].doc)
        BY <1>17 DEF WriteOrder
    <2>2. srv' = [srv EXCEPT ![w] = d]
        BY <1>1, <1>17 DEF WriteOrder
    <2>3. srv[w].id \in OrderIds /\ srv[w].doc \in Order
        BY <1>1, <2>1 DEF WellFormed, Call, Running
    <2>4. Continues(srv[w], d)
        BY <1>1, <2>1, <2>3, Documents, NoOrderAssumption
        DEF Continues, Call, WellFormed, Running, Finished
    <2> QED BY <2>1, <2>2, <2>3, <2>4, StoreOrderTyped
<1>18. CASE Fail(w)
    <2> DEFINE d == [srv[w] EXCEPT
                        !.pc = IF srv[w].op = "addBook" THEN "notFound" ELSE "failed",
                        !.book = NoBook, !.copy = NoCopy, !.todo = {}]
    <2>1. Continue(w, d)
        BY <1>18 DEF Fail
    <2>2. Continues(srv[w], d)
        BY <1>1, Documents DEF Continues, Call, WellFormed, Running, Finished
    <2> QED BY <1>2, <2>1, <2>2
<1> QED
    BY <1>4, <1>5, <1>6, <1>7, <1>8, <1>9, <1>10, <1>11, <1>12, <1>13, <1>14, <1>15,
       <1>16, <1>17, <1>18
    DEF ServerStep

(***************************************************************************)
(* What a step of the order server does, as far as the customer and the    *)
(* state of an order are concerned: thread w, which served call c, then    *)
(* serves call d.                                                          *)
(***************************************************************************)

OrdersKept == UNCHANGED <<orders, visible, placed>>

\* saveOrder stored a new order.
Creates(c, d) ==
    /\ c.op = "create" /\ c.pc = "start"
    /\ d.op = "create" /\ d.pc = "done" /\ d.doc = c.doc
    /\ d.id \in OrderIds /\ ~Present(d.id) /\ StoreOrder(d.id, c.doc)

\* The final doUpdateOrder.
Writes(c, d) ==
    /\ c.pc = "write" /\ c.op \notin {"none", "create", "getActive", "get"}
    /\ d.op = c.op /\ d.id = c.id /\ d.pc = "done" /\ d.doc = NoDoc
    /\ c.id \in OrderIds /\ StoreOrder(c.id, c.doc)

\* The call ends with an error.
Ends(c, d) ==
    /\ d.op = c.op /\ d.id = c.id /\ d.doc = c.doc /\ d.pc \in {"notFound", "failed"}
    /\ OrdersKept

\* getActiveOrder found the order.
Finds(c, d) ==
    /\ c.op = "getActive" /\ c.pc = "start" /\ d.op = "getActive" /\ d.pc = "done"
    /\ d.id \in OrderIds /\ visible[d.id].userId = c.doc.userId
    /\ visible[d.id].state \in ActiveStates /\ d.doc = visible[d.id]
    /\ OrdersKept

\* getOrderById returns the order.
Gets(c, d) ==
    /\ c.op = "get" /\ d.op = "get" /\ d.pc = "done" /\ d.id = c.id
    /\ c.id \in OrderIds /\ Present(c.id) /\ d.doc = orders[c.id]
    /\ OrdersKept

\* A handler has read an order and changed its copy.
Takes(c, d) ==
    /\ c.op \in {"addBook", "editCart", "setState", "checkout"} /\ c.pc = "start"
    /\ d.op = c.op /\ d.id = c.id /\ d.pc \in {"price", "write"}
    /\ c.id \in OrderIds /\ Present(c.id) /\ d.doc.userId = orders[c.id].userId
    /\ \/ c.op \in {"addBook", "editCart"} /\ d.doc.state = orders[c.id].state
       \/ c.op = "checkout" /\ d.doc.state = "PRE_AUTHORIZE"
       \/ /\ c.op = "setState" /\ d.doc.state = c.doc.state
          /\ LegalTransition(orders[c.id].state, c.doc.state)
    /\ OrdersKept

\* A handler goes on with the copy it has.
Works(c, d) ==
    /\ c.op \notin {"none", "create", "getActive", "get"}
    /\ c.pc \in Running /\ (c.pc = "start" => c.op = "update")
    /\ d.op = c.op /\ d.id = c.id /\ d.pc \in Running \ {"start"}
    /\ d.doc.userId = c.doc.userId /\ d.doc.state = c.doc.state
    /\ OrdersKept

Advances(c, d) ==
    \/ Creates(c, d) \/ Writes(c, d) \/ Ends(c, d) \/ Finds(c, d)
    \/ Gets(c, d) \/ Takes(c, d) \/ Works(c, d)

\* Every step of the order server is one of these.
LEMMA ServerStepEffect ==
    ASSUME IndexTypeOK, ServerTypeOK, NEW w \in Workers, ServerStep(w)
    PROVE  Advances(srv[w], srv'[w]) /\ \A x \in Workers : x # w => srv'[x] = srv[x]
<1> DEFINE c == srv[w]
           d == srv'[w]
           Others == \A x \in Workers : x # w => srv'[x] = srv[x]
<1>1. srv \in [Workers -> Call] /\ c \in Call /\ WellFormed(c)
    BY DEF ServerTypeOK
<1>2. srv' \in [Workers -> Call] /\ Others
    BY ServerStepTyped, <1>1 DEF Continues
<1>3. ASSUME NEW e, Continue(w, e)
      PROVE  d = e /\ OrdersKept
    BY <1>1, <1>3 DEF Continue, OrdersKept, indexVars
<1>4. ASSUME NEW o \in OrderIds
      PROVE  orders[o] \in Order /\ visible[o] \in Order
    BY DEF IndexTypeOK
<1>5. CASE CreateOrder(w)
    BY <1>1, <1>2, <1>5 DEF CreateOrder, At, Advances, Creates, Call
<1>6. CASE GetActiveOrder(w)
    <2> DEFINE found(o) == [c EXCEPT !.pc = "done", !.id = o, !.doc = visible[o]]
               lost == [c EXCEPT !.pc = "notFound"]
    <2>1. c.op = "getActive" /\ c.pc = "start"
        BY <1>6 DEF GetActiveOrder, At
    <2>2. \/ \E o \in Hits(c.doc.userId, ActiveStates) : Continue(w, found(o))
          \/ Continue(w, lost)
        BY <1>6 DEF GetActiveOrder, ActiveHits
    <2>3. ASSUME NEW o \in Hits(c.doc.userId, ActiveStates), Continue(w, found(o))
          PROVE  Finds(c, d)
        <3>1. d = found(o) /\ OrdersKept
            BY <1>3, <2>3
        <3>2. /\ o \in OrderIds /\ visible[o].userId = c.doc.userId
              /\ visible[o].state \in ActiveStates
            BY <2>3 DEF Hits
        <3> QED BY <1>1, <2>1, <3>1, <3>2 DEF Finds, Call
    <2>4. ASSUME Continue(w, lost)
          PROVE  Ends(c, d)
        BY <1>1, <1>3, <2>4 DEF Ends, Call
    <2> QED BY <1>2, <2>2, <2>3, <2>4 DEF Advances
<1>7. CASE GetOrderById(w)
    <2>1. c.op = "get" /\ Present(c.id) /\ c.id \in OrderIds
        BY <1>1, <1>7 DEF GetOrderById, At, WellFormed, Call
    <2>2. d = [c EXCEPT !.pc = "done", !.doc = orders[c.id]] /\ OrdersKept
        BY <1>3, <1>7 DEF GetOrderById
    <2>3. Gets(c, d)
        BY <1>1, <2>1, <2>2 DEF Gets, Call
    <2> QED BY <1>2, <2>3 DEF Advances
<1>8. CASE OrderNotFound(w)
    <2>1. Ends(c, d)
        BY <1>1, <1>3, <1>8 DEF OrderNotFound, Ends, Call
    <2> QED BY <1>2, <2>1 DEF Advances
<1>9. ASSUME c.op \in {"addBook", "editCart"}, c.pc = "start", Present(c.id),
             NEW items \in Items, Continue(w, Recalculate(c, orders[c.id], items))
      PROVE  Takes(c, d)
    <2>1. c.id \in OrderIds /\ orders[c.id] \in Order
        BY <1>1, <1>4, <1>9 DEF WellFormed, Call
    <2>2. d = Recalculate(c, orders[c.id], items) /\ OrdersKept
        BY <1>3, <1>9
    <2> DEFINE doc == [orders[c.id] EXCEPT !.items = items, !.subtotal = 0]
               pc == IF BooksOf(items) = {} THEN "write" ELSE "price"
    <2>3. doc.userId = orders[c.id].userId /\ doc.state = orders[c.id].state
        BY <2>1 DEF Order
    <2>4. d = [c EXCEPT !.doc = doc, !.todo = BooksOf(items), !.pc = pc]
        BY <2>2 DEF Recalculate
    <2>5. pc \in {"price", "write"}
        OBVIOUS
    <2> HIDE DEF doc, pc
    <2>6. d.op = c.op /\ d.id = c.id /\ d.pc \in {"price", "write"} /\ d.doc = doc
        BY <1>1, <2>4, <2>5 DEF Call
    <2> QED BY <1>9, <2>1, <2>2, <2>3, <2>6 DEF Takes
<1>10. CASE AddBookToOrder(w)
    <2>1. c.op = "addBook" /\ c.pc = "start" /\ Present(c.id)
        BY <1>10 DEF AddBookToOrder, At
    <2>2. c.id \in OrderIds /\ c.book \in Books
        BY <1>1, <2>1 DEF WellFormed, Call
    <2> DEFINE items == [orders[c.id].items EXCEPT ![c.book] = @ + 1]
    <2>3. items \in Items
        BY <1>4, <2>2 DEF Order, Items
    <2>4. Continue(w, Recalculate(c, orders[c.id], items))
        BY <1>10 DEF AddBookToOrder
    <2> HIDE DEF items
    <2> QED BY <1>2, <1>9, <2>1, <2>3, <2>4 DEF Advances
<1>11. CASE EditCart(w)
    <2>1. c.op = "editCart" /\ c.pc = "start" /\ Present(c.id)
        BY <1>11 DEF EditCart, At
    <2>2. c.doc.items \in Items
        BY <1>1 DEF Call, Order
    <2>3. Continue(w, Recalculate(c, orders[c.id], c.doc.items))
        BY <1>11 DEF EditCart
    <2> QED BY <1>2, <1>9, <2>1, <2>2, <2>3 DEF Advances
<1>12. ASSUME c.op \notin {"none", "create", "getActive", "get"}, c.pc \in Running,
              c.pc = "start" => c.op = "update", OrdersKept,
              d.op = c.op, d.id = c.id, d.pc \in Running \ {"start"},
              d.doc.userId = c.doc.userId, d.doc.state = c.doc.state
       PROVE  Advances(c, d) /\ Others
    BY <1>2, <1>12 DEF Works, Advances
<1>13. CASE PriceItem(w)
    <2> DEFINE doc(b) == [c.doc EXCEPT !.subtotal = @ + books[b].price * c.doc.items[b]]
               pc(b) == IF c.todo = {b} THEN "write" ELSE "price"
               e(b) == [c EXCEPT !.doc = doc(b), !.todo = @ \ {b}, !.pc = pc(b)]
    <2>1. PICK b \in c.todo : Continue(w, e(b))
        BY <1>13, <1>1 DEF PriceItem, Call
    <2>4. d = e(b) /\ OrdersKept
        BY <1>3, <2>1
    <2>5. /\ doc(b).userId = c.doc.userId /\ doc(b).state = c.doc.state
          /\ pc(b) \in {"price", "write"}
        BY <1>1 DEF Call, Order
    <2> HIDE DEF doc, pc
    <2>2. c.pc = "price" /\ c.op \notin {"none", "create", "getActive", "get"}
        BY <1>1, <1>13 DEF PriceItem, WellFormed, Running
    <2>3. /\ d.op = c.op /\ d.id = c.id /\ d.pc \in {"price", "write"} /\ OrdersKept
          /\ d.doc.userId = c.doc.userId /\ d.doc.state = c.doc.state
        BY <1>1, <2>4, <2>5 DEF Call
    <2> QED BY <1>12, <2>2, <2>3 DEF Running
<1>14. CASE SetOrderState(w)
    <2> DEFINE doc == orders[c.id]
               legal == [c EXCEPT !.pc = "write", !.doc = [doc EXCEPT !.state = c.doc.state]]
               illegal == [c EXCEPT !.pc = "failed"]
    <2>1. /\ c.op = "setState" /\ c.pc = "start" /\ Present(c.id)
          /\ \/ LegalTransition(doc.state, c.doc.state) /\ Continue(w, legal)
             \/ Continue(w, illegal)
        BY <1>14 DEF SetOrderState, At
    <2>2. c.id \in OrderIds /\ doc \in Order
        BY <1>1, <1>4, <2>1 DEF WellFormed, Call
    <2>3. ASSUME LegalTransition(doc.state, c.doc.state), Continue(w, legal)
          PROVE  Takes(c, d)
        <3>1. d = legal /\ OrdersKept
            BY <1>3, <2>3
        <3>2. /\ d.op = c.op /\ d.id = c.id /\ d.pc = "write"
              /\ d.doc.userId = doc.userId /\ d.doc.state = c.doc.state
            BY <1>1, <2>2, <3>1 DEF Call, Order
        <3> QED BY <2>1, <2>2, <2>3, <3>1, <3>2 DEF Takes
    <2>4. ASSUME Continue(w, illegal)
          PROVE  Ends(c, d)
        BY <1>1, <1>3, <2>4 DEF Ends, Call
    <2> QED BY <1>2, <2>1, <2>3, <2>4 DEF Advances
<1>15. CASE CheckoutOrder(w)
    <2> DEFINE doc == orders[c.id]
    <2>1. /\ c.op = "checkout" /\ c.pc = "start" /\ Present(c.id)
          /\ Continue(w, [c EXCEPT !.pc = "write",
                                   !.doc = [doc EXCEPT !.state = "PRE_AUTHORIZE"]])
        BY <1>15 DEF CheckoutOrder, At
    <2>2. c.id \in OrderIds /\ doc \in Order
        BY <1>1, <1>4, <2>1 DEF WellFormed, Call
    <2>3. d = [c EXCEPT !.pc = "write", !.doc = [doc EXCEPT !.state = "PRE_AUTHORIZE"]]
          /\ OrdersKept
        BY <1>3, <2>1
    <2>4. /\ d.op = c.op /\ d.id = c.id /\ d.pc = "write"
          /\ d.doc.userId = doc.userId /\ d.doc.state = "PRE_AUTHORIZE"
        BY <1>1, <2>2, <2>3 DEF Call, Order
    <2>5. Takes(c, d)
        BY <2>1, <2>2, <2>3, <2>4 DEF Takes
    <2> QED BY <1>2, <2>5 DEF Advances
<1>16. CASE UpdateOrder(w)
    <2>1. c.op = "update" /\ c.pc = "start" /\ Continue(w, [c EXCEPT !.pc = "search"])
        BY <1>16 DEF UpdateOrder, At
    <2>2. d.op = c.op /\ d.id = c.id /\ d.pc = "search" /\ d.doc = c.doc /\ OrdersKept
        BY <1>1, <1>3, <2>1 DEF Call
    <2> QED BY <1>12, <2>1, <2>2 DEF Running
<1>17. CASE SearchPastOrders(w)
    <2>1. c.pc = "search" /\ c.op \notin {"none", "create", "getActive", "get"}
        BY <1>1, <1>17 DEF SearchPastOrders, WellFormed, Running
    <2> DEFINE pc(past) == IF past = {} THEN "write" ELSE "readBook"
               e(past) == [c EXCEPT !.todo = past, !.pc = pc(past)]
    <2>2. PICK past : Continue(w, e(past))
        BY <1>17 DEF SearchPastOrders
    <2>3. d = e(past) /\ OrdersKept
        BY <1>3, <2>2
    <2>4. pc(past) \in {"write", "readBook"}
        OBVIOUS
    <2> HIDE DEF pc
    <2>5. /\ d.op = c.op /\ d.id = c.id /\ d.pc \in {"write", "readBook"}
          /\ d.doc = c.doc
        BY <1>1, <2>3, <2>4 DEF Call
    <2> QED BY <1>12, <2>1, <2>3, <2>5 DEF Running
<1>18. CASE ReadPastBook(w)
    <2>1. c.pc = "readBook" /\ c.op \notin {"none", "create", "getActive", "get"}
        BY <1>1, <1>18 DEF ReadPastBook, WellFormed, Running
    <2> DEFINE e(b) == [c EXCEPT !.pc = "writeBook", !.book = b, !.copy = books[b],
                                 !.todo = @ \ {b}]
    <2>2. PICK b \in c.todo : Continue(w, e(b))
        BY <1>18 DEF ReadPastBook
    <2>3. d = e(b) /\ OrdersKept
        BY <1>3, <2>2
    <2>4. d.op = c.op /\ d.id = c.id /\ d.pc = "writeBook" /\ d.doc = c.doc
        BY <1>1, <2>3 DEF Call
    <2> QED BY <1>12, <2>1, <2>3, <2>4 DEF Running
<1>19. CASE WritePastBook(w)
    <2>1. c.pc = "writeBook" /\ c.op \notin {"none", "create", "getActive", "get"}
        BY <1>1, <1>19 DEF WritePastBook, WellFormed, Running
    <2>2. srv' = [srv EXCEPT
                    ![w].book = NoBook, ![w].copy = NoCopy,
                    ![w].pc = IF srv[w].todo = {} THEN "write" ELSE "readBook"]
          /\ OrdersKept
        BY <1>19 DEF WritePastBook, StoreBook, OrdersKept
    <2>3. /\ d.op = c.op /\ d.id = c.id /\ d.pc \in {"write", "readBook"} /\ d.doc = c.doc
        BY <1>1, <2>2 DEF Call
    <2> QED BY <1>12, <2>1, <2>2, <2>3 DEF Running
<1>20. CASE WriteOrder(w)
    <2>1. /\ c.pc = "write" /\ c.op \notin {"none", "create", "getActive", "get"}
          /\ c.id \in OrderIds
        BY <1>1, <1>20 DEF WriteOrder, WellFormed, Running, Call
    <2>2. d.op = c.op /\ d.id = c.id /\ d.pc = "done" /\ d.doc = NoDoc
        BY <1>1, <1>20 DEF WriteOrder, Call
    <2>3. Writes(c, d)
        BY <1>20, <2>1, <2>2 DEF WriteOrder, Writes
    <2> QED BY <1>2, <2>3 DEF Advances
<1>21. CASE Fail(w)
    <2>1. /\ d = [c EXCEPT !.pc = IF c.op = "addBook" THEN "notFound" ELSE "failed",
                           !.book = NoBook, !.copy = NoCopy, !.todo = {}]
          /\ OrdersKept
        BY <1>3, <1>21 DEF Fail
    <2>2. Ends(c, d)
        BY <1>1, <2>1 DEF Ends, Call
    <2> QED BY <1>2, <2>2 DEF Advances
<1> QED
    BY <1>5, <1>6, <1>7, <1>8, <1>10, <1>11, <1>13, <1>14, <1>15, <1>16, <1>17, <1>18,
       <1>19, <1>20, <1>21
    DEF ServerStep

(***************************************************************************)
(* Steps of the admin server.                                              *)
(***************************************************************************)

\* The record of an idle thread of the admin server is typed.
LEMMA AdminIdleTyped ==
    AdminIdle \in AdminCall /\ AdminIdle.pc = "idle" /\ AdminIdle.id = NoOrder
    BY Documents DEF AdminIdle, AdminCall

\* Every step of the admin server keeps the index and its threads typed.
LEMMA AdminStepTyped ==
    ASSUME IndexTypeOK, AdminTypeOK, NEW a \in Admins, AdminStep(a)
    PROVE  IndexTypeOK' /\ AdminTypeOK'
<1> USE NoOrderAssumption, NoBookAssumption, AdminIdleTyped
<1>1. adm \in [Admins -> AdminCall] /\ adm[a] \in AdminCall
    BY DEF AdminTypeOK
<1>2. CASE \E o \in OrderIds : ReadForShipping(a, o)
    <2>1. PICK o \in OrderIds : ReadForShipping(a, o)
        BY <1>2
    <2>2. orders[o] \in Order
        BY DEF IndexTypeOK
    <2>3. Shipped(orders[o]) \in Order
        BY <2>2 DEF Shipped, Order, OrderStates
    <2>4. IndexTypeOK'
        BY <2>1, IndexStutter DEF ReadForShipping
    <2>5. AdminTypeOK'
        BY <1>1, <2>1, <2>3 DEF ReadForShipping, AdminTypeOK, AdminCall
    <2> QED BY <2>4, <2>5
<1>3. CASE \E b \in Books, price \in Prices : ReadForPrice(a, b, price)
    <2>1. PICK b \in Books, price \in Prices : ReadForPrice(a, b, price)
        BY <1>3
    <2>2. [books[b] EXCEPT !.price = price] \in Book
        BY PricesAssumption DEF IndexTypeOK, Book
    <2>3. IndexTypeOK'
        BY <2>1, IndexStutter DEF ReadForPrice
    <2>4. AdminTypeOK'
        BY <1>1, <2>1, <2>2 DEF ReadForPrice, AdminTypeOK, AdminCall
    <2> QED BY <2>3, <2>4
<1>4. ASSUME adm' = [adm EXCEPT ![a] = AdminIdle]
      PROVE  AdminTypeOK'
    BY <1>1, <1>4 DEF AdminTypeOK
<1>5. CASE WriteShipped(a)
    <2>1. adm[a].id \in OrderIds /\ adm[a].doc \in Order
        BY <1>1, <1>5 DEF WriteShipped, AdminTypeOK, AdminCall
    <2> QED BY <1>4, <1>5, <2>1, StoreOrderTyped DEF WriteShipped
<1>6. CASE WritePrice(a)
    <2>1. adm[a].book \in Books /\ adm[a].copy \in Book
        BY <1>1, <1>6 DEF WritePrice, AdminTypeOK, AdminCall
    <2> QED BY <1>4, <1>6, <2>1, StoreBookTyped DEF WritePrice
<1>7. CASE AdminFail(a)
    BY <1>4, <1>7, IndexStutter DEF AdminFail
<1> QED BY <1>2, <1>3, <1>5, <1>6, <1>7 DEF AdminStep

\* setShipped read an order.
TakesShipping(c, d) ==
    /\ c.pc = "idle" /\ d.pc = "writeOrder" /\ d.id \in OrderIds /\ Present(d.id)
    /\ d.doc = Shipped(orders[d.id])
    /\ OrdersKept

\* setShipped wrote its copy of the order.
WritesShipping(c, d) ==
    /\ c.pc = "writeOrder" /\ c.id \in OrderIds /\ StoreOrder(c.id, c.doc)
    /\ d = AdminIdle

\* Every step of the admin server is one of these, or is not about orders.
LEMMA AdminStepEffect ==
    ASSUME IndexTypeOK, AdminTypeOK, NEW a \in Admins, AdminStep(a)
    PROVE  /\ \/ TakesShipping(adm[a], adm'[a])
              \/ WritesShipping(adm[a], adm'[a])
              \/ adm'[a].id = NoOrder /\ adm'[a].pc # "writeOrder" /\ OrdersKept
           /\ \A x \in Admins : x # a => adm'[x] = adm[x]
<1>1. adm \in [Admins -> AdminCall] /\ adm[a] \in AdminCall
    BY DEF AdminTypeOK
<1>2. CASE \E o \in OrderIds : ReadForShipping(a, o)
    BY <1>1, <1>2
    DEF ReadForShipping, TakesShipping, AdminCall, OrdersKept, indexVars
<1>3. CASE \E b \in Books, price \in Prices : ReadForPrice(a, b, price)
    BY <1>1, <1>3 DEF ReadForPrice, AdminTypeOK, AdminCall, OrdersKept, indexVars
<1>4. CASE WriteShipped(a)
    BY <1>1, <1>4 DEF WriteShipped, WritesShipping, AdminTypeOK, AdminCall
<1>5. CASE WritePrice(a)
    BY <1>1, <1>5, AdminIdleTyped DEF WritePrice, StoreBook, OrdersKept
<1>6. CASE AdminFail(a)
    BY <1>1, <1>6, AdminIdleTyped DEF AdminFail, OrdersKept, indexVars
<1> QED BY <1>2, <1>3, <1>4, <1>5, <1>6 DEF AdminStep
=============================================================================
