---------------------------- MODULE BackendProofs ----------------------------
(***************************************************************************)
(* The order server and the admin server under arbitrary clients: types,   *)
(* that every counted pair of books is a real one, and that the subtotal   *)
(* of an order is a total of its items.  In all three the difficulty is    *)
(* the copies: a thread works on documents that it has read earlier and    *)
(* that others have written since.                                         *)
(***************************************************************************)
EXTENDS OrderBackend, ServerProofs, FiniteSetTheorems, WellFoundedInduction

-----------------------------------------------------------------------------
(* Types.                                                                  *)

\* Steps that leave the history alone record what is in the index.
LEMMA RecordTyped ==
    ASSUME IndexTypeOK', Record,
           everIn \subseteq OrderIds \X Books, everPlacedWith \subseteq everIn
    PROVE  /\ everIn' \subseteq OrderIds \X Books /\ everPlacedWith' \subseteq everIn'
           /\ everIn \subseteq everIn' /\ everPlacedWith \subseteq everPlacedWith'
    BY DEF Record, InIndex

\* A client calls with typed arguments.
LEMMA ClientCallsTyped ==
    ASSUME IndexTypeOK, NEW c \in ClientCalls
    PROVE  c \in Call /\ WellFormed(c)
<1>1. ASSUME NEW o \in OrderIds PROVE [orders[o] EXCEPT !.state = "PRE_SHIPPING"] \in Order
    BY DEF IndexTypeOK, Order, OrderStates
<1>2. \/ \E u \in Users : c = CreateCall(u) \/ c = GetActiveCall(u)
      \/ \E o \in OrderIds : c = GetCall(o) \/ c = CheckoutCall(o)
      \/ \E o \in OrderIds, b \in Books : c = AddBookCall(o, b)
      \/ \E o \in OrderIds, items \in [Books -> 0..MaxQuantity] : c = EditCartCall(o, items)
      \/ \E o \in OrderIds, state \in OrderStates : c = SetStateCall(o, state)
      \/ \E o \in OrderIds : c = UpdateCall(o, [orders[o] EXCEPT !.state = "PRE_SHIPPING"])
    BY DEF ClientCalls
<1>3. ASSUME NEW o \in OrderIds, c = UpdateCall(o, [orders[o] EXCEPT !.state = "PRE_SHIPPING"])
      PROVE  c \in Call /\ WellFormed(c)
  <2> DEFINE doc == [orders[o] EXCEPT !.state = "PRE_SHIPPING"]
  <2>1. doc \in Order /\ c = UpdateCall(o, doc)
      BY <1>1, <1>3
  <2> HIDE DEF doc
  <2> QED
      BY <2>1, CallsTyped
<1>4. CASE \E u \in Users : c = CreateCall(u) \/ c = GetActiveCall(u)
    BY <1>4, CallsTyped
<1>5. CASE \E o \in OrderIds : c = GetCall(o) \/ c = CheckoutCall(o)
    BY <1>5, CallsTyped
<1>6. CASE \E o \in OrderIds, b \in Books : c = AddBookCall(o, b)
    BY <1>6, CallsTyped
<1>7. CASE \E o \in OrderIds, items \in [Books -> 0..MaxQuantity] : c = EditCartCall(o, items)
    BY <1>7, CallsTyped
<1>8. CASE \E o \in OrderIds, state \in OrderStates : c = SetStateCall(o, state)
    BY <1>8, CallsTyped
<1> QED
    BY <1>2, <1>3, <1>4, <1>5, <1>6, <1>7, <1>8

\* The documents, the threads of both servers and the history keep their types.
LEMMA StepTyped == TypeOK /\ [Next]_vars => TypeOK'
<1> SUFFICES ASSUME TypeOK, [Next]_vars PROVE TypeOK'
    OBVIOUS
<1>1. /\ IndexTypeOK /\ ServerTypeOK /\ AdminTypeOK
      /\ srv \in [Workers -> Call] /\ \A w \in Workers : WellFormed(srv[w])
    BY DEF TypeOK, ServerTypeOK
<1>2. CASE UNCHANGED vars
    BY <1>2 DEF vars, indexVars, historyVars, TypeOK, IndexTypeOK, ServerTypeOK, AdminTypeOK
<1>3. ASSUME NEW w \in Workers, NEW c \in Call, WellFormed(c), srv' = [srv EXCEPT ![w] = c]
      PROVE  ServerTypeOK'
    BY <1>1, <1>3 DEF ServerTypeOK
<1>4. UNCHANGED adm => AdminTypeOK'
    BY <1>1 DEF AdminTypeOK
<1>5. UNCHANGED srv => ServerTypeOK'
    BY <1>1 DEF ServerTypeOK
<1>6. ASSUME NEW w \in Workers, NewCall(w) PROVE IndexTypeOK' /\ ServerTypeOK' /\ AdminTypeOK'
    BY <1>1, <1>3, <1>4, <1>6, ClientCallsTyped, IndexStutter DEF NewCall, Continue
<1>7. ASSUME NEW w \in Workers, TakeReply(w) PROVE IndexTypeOK' /\ ServerTypeOK' /\ AdminTypeOK'
    BY <1>1, <1>3, <1>4, <1>7, IdleTyped, IndexStutter DEF TakeReply, Continue
<1>8. ASSUME NEW w \in Workers, ServerStep(w), UNCHANGED adm
      PROVE  IndexTypeOK' /\ ServerTypeOK' /\ AdminTypeOK'
    BY <1>1, <1>3, <1>4, <1>8, ServerStepTyped DEF Continues
<1>9. ASSUME NEW a \in Admins, AdminStep(a), UNCHANGED srv
      PROVE  IndexTypeOK' /\ ServerTypeOK' /\ AdminTypeOK'
    BY <1>1, <1>5, <1>9, AdminStepTyped
<1>10. ASSUME NEW o \in OrderIds, Refresh(o), UNCHANGED <<srv, adm>>
       PROVE  IndexTypeOK' /\ ServerTypeOK' /\ AdminTypeOK'
    BY <1>1, <1>4, <1>5, <1>10, RefreshTyped
<1>11. CASE Next
  <2>1. IndexTypeOK' /\ ServerTypeOK' /\ AdminTypeOK'
      BY <1>6, <1>7, <1>8, <1>9, <1>10, <1>11 DEF Next, Step
  <2> QED
      BY <1>11, <2>1, RecordTyped DEF Next, TypeOK
<1> QED
    BY <1>2, <1>11

\* The initial state is typed.
LEMMA InitTyped == Init => TypeOK
<1> SUFFICES ASSUME Init PROVE TypeOK
    OBVIOUS
<1>1. IndexTypeOK
    BY IndexInitTyped DEF Init
<1>2. ServerTypeOK
    BY IdleTyped DEF Init, ServerInit, ServerTypeOK
<1>3. AdminTypeOK
    BY AdminIdleTyped, NoOrderAssumption DEF Init, AdminInit, AdminTypeOK
<1> QED
    BY <1>1, <1>2, <1>3 DEF Init, TypeOK

\* Whatever the clients call, every document, every copy that a thread holds
\* and the history keep their types, and no loop over books starts without one.
THEOREM TypeCorrect == Spec => []TypeOK
BY InitTyped, StepTyped, PTL DEF Spec

-----------------------------------------------------------------------------
(* What a step of the order server does to its copy of an order.           *)

\* The call is over, and nothing was written.
Quits(c, d) == d.pc \in Finished /\ UNCHANGED indexVars

\* The items of the order change, and its total starts from nothing.
Recalculates(c, d) ==
    /\ c.pc = "start" /\ c.op \in {"addBook", "editCart"}
    /\ c.id \in OrderIds /\ Present(c.id)
    /\ d.doc.userId = orders[c.id].userId
    /\ d.doc.subtotal = 0 /\ d.todo = BooksOf(d.doc.items)
    /\ d.pc = IF d.todo = {} THEN "write" ELSE "price"
    /\ UNCHANGED indexVars

\* Its state changes only.
Restates(c, d) ==
    /\ c.pc = "start" /\ c.op \in {"setState", "checkout"}
    /\ c.id \in OrderIds /\ Present(c.id)
    /\ \E state : d.doc = [orders[c.id] EXCEPT !.state = state]
    /\ d.pc = "write" /\ UNCHANGED indexVars

\* The price of one book is added.
AddsPrice(c, d) ==
    /\ c.pc = "price"
    /\ \E b \in c.todo :
        /\ d.doc = [c.doc EXCEPT !.subtotal = @ + books[b].price * c.doc.items[b]]
        /\ d.todo = c.todo \ {b}
        /\ d.pc = IF c.todo = {b} THEN "write" ELSE "price"
    /\ UNCHANGED indexVars

\* updateBoughtWith begins, searches the past orders, or reads a book of theirs.
Gathers(c, d) ==
    /\ c.op = "update" /\ d.doc = c.doc
    /\ \/ c.pc = "start" /\ d.pc = "search"
       \/ /\ c.pc = "search" /\ d.pc \in {"readBook", "write"}
          /\ \A b \in d.todo : \E o \in OrderIds \ {c.id} :
                /\ visible[o].userId = c.doc.userId
                /\ visible[o].state \in PlacedStates /\ visible[o].items[b] > 0
       \/ /\ c.pc = "readBook" /\ d.pc = "writeBook"
          /\ d.book \in c.todo /\ d.copy = books[d.book] /\ d.todo \subseteq c.todo
    /\ UNCHANGED indexVars

\* It writes that book back.
Counts(c, d) ==
    /\ c.op = "update" /\ d.doc = c.doc
    /\ c.pc = "writeBook" /\ d.pc \in {"readBook", "write"} /\ d.todo = c.todo
    /\ c.book \in Books /\ StoreBook(c.book, CountTogether(c.book, c.copy, c.doc.items))

CopyStep(c, d) ==
    \/ Creates(c, d) \/ Quits(c, d) \/ Recalculates(c, d) \/ Restates(c, d)
    \/ AddsPrice(c, d) \/ Gathers(c, d) \/ Counts(c, d) \/ Writes(c, d)

\* Handlers that work on a copy of the order they change.
Holds(c) == \/ c.op = "update" /\ c.pc \in Running
            \/ c.pc \in Running \ {"start"}

\* updateBoughtWith is part of saveOrder only.
LoopsOK == \A w \in Workers :
    srv[w].pc \in {"search", "readBook", "writeBook"} => srv[w].op = "update"

\* Every step of the order server is one of these.
LEMMA ServerCopyStep ==
    ASSUME TypeOK, LoopsOK, NEW w \in Workers, ServerStep(w)
    PROVE  CopyStep(srv[w], srv'[w])
<1> DEFINE c == srv[w]
           d == srv'[w]
<1>1. srv \in [Workers -> Call] /\ c \in Call /\ WellFormed(c)
    BY DEF TypeOK, ServerTypeOK
<1>2. ASSUME NEW e, Continue(w, e) PROVE d = e /\ UNCHANGED indexVars
    BY <1>1, <1>2 DEF Continue
<1>21. ASSUME NEW e, Continue(w, e), e.pc \in Finished PROVE CopyStep(c, d)
    BY <1>2, <1>21 DEF CopyStep, Quits
<1>3. \A o \in OrderIds : orders[o] \in Order /\ visible[o] \in Order
    BY DEF TypeOK, IndexTypeOK
<1>4. CASE CreateOrder(w)
    BY <1>1, <1>4 DEF CreateOrder, At, CopyStep, Creates, Call
<1>5. CASE GetActiveOrder(w)
  <2>1. \/ \E o \in OrderIds : Continue(w, [c EXCEPT !.pc = "done", !.id = o, !.doc = visible[o]])
        \/ Continue(w, [c EXCEPT !.pc = "notFound"])
      BY <1>5 DEF GetActiveOrder, ActiveHits, Hits
  <2>2. ASSUME NEW o \in OrderIds, NEW seen,
               Continue(w, [c EXCEPT !.pc = "done", !.id = o, !.doc = seen])
        PROVE  CopyStep(c, d)
    <3>1. [c EXCEPT !.pc = "done", !.id = o, !.doc = seen].pc \in Finished
        BY <1>1 DEF Finished, Call
    <3> QED
        BY <1>21, <2>2, <3>1
  <2>3. CASE Continue(w, [c EXCEPT !.pc = "notFound"])
      BY <1>1, <1>2, <2>3 DEF CopyStep, Quits, Finished, Call
  <2> QED
      BY <2>1, <2>2, <2>3
<1>6. CASE GetOrderById(w)
  <2>1. PICK doc : Continue(w, [c EXCEPT !.pc = "done", !.doc = doc])
      BY <1>6 DEF GetOrderById
  <2>2. [c EXCEPT !.pc = "done", !.doc = doc].pc \in Finished
      BY <1>1 DEF Finished, Call
  <2> QED
      BY <1>21, <2>1, <2>2
<1>7. CASE OrderNotFound(w)
  <2>1. PICK pc \in Finished : Continue(w, [c EXCEPT !.pc = pc])
      BY <1>7 DEF OrderNotFound, Finished
  <2> QED
      BY <1>1, <1>2, <2>1 DEF CopyStep, Quits, Call
<1>8. CASE Fail(w)
  <2>1. PICK pc \in Finished : Continue(w, [c EXCEPT !.pc = pc, !.book = NoBook,
                                                     !.copy = NoCopy, !.todo = {}])
      BY <1>8 DEF Fail, Finished
  <2>2. [c EXCEPT !.pc = pc, !.book = NoBook, !.copy = NoCopy, !.todo = {}].pc = pc
      BY <1>1 DEF Call
  <2> QED
      BY <1>21, <2>1, <2>2
<1>9. ASSUME NEW doc \in Order, NEW items, Continue(w, Recalculate(c, doc, items)),
             c.pc = "start", c.op \in {"addBook", "editCart"},
             c.id \in OrderIds, Present(c.id), doc.userId = orders[c.id].userId
      PROVE  CopyStep(c, d)
  <2>1. d = Recalculate(c, doc, items) /\ UNCHANGED indexVars
      BY <1>2, <1>9
  <2>2. /\ d.doc = [doc EXCEPT !.items = items, !.subtotal = 0]
        /\ d.todo = BooksOf(items)
        /\ d.pc = IF BooksOf(items) = {} THEN "write" ELSE "price"
      BY <1>1, <2>1 DEF Recalculate, Call
  <2>3. d.doc.userId = doc.userId /\ d.doc.subtotal = 0 /\ d.doc.items = items
      BY <2>2 DEF Order
  <2> QED
      BY <1>9, <2>1, <2>2, <2>3 DEF CopyStep, Recalculates
<1>10. CASE AddBookToOrder(w)
  <2>1. c.id \in OrderIds /\ Present(c.id) /\ c.op = "addBook" /\ c.pc = "start"
      BY <1>1, <1>10 DEF AddBookToOrder, At, WellFormed, Call
  <2>2. PICK items : Continue(w, Recalculate(c, orders[c.id], items))
      BY <1>10 DEF AddBookToOrder
  <2> QED
      BY <1>3, <1>9, <2>1, <2>2
<1>11. CASE EditCart(w)
  <2>1. c.id \in OrderIds /\ Present(c.id) /\ c.op = "editCart" /\ c.pc = "start"
      BY <1>1, <1>11 DEF EditCart, At, WellFormed, Call
  <2>2. Continue(w, Recalculate(c, orders[c.id], c.doc.items))
      BY <1>11 DEF EditCart
  <2> QED
      BY <1>3, <1>9, <2>1, <2>2
<1>12. ASSUME NEW state, c.pc = "start", c.op \in {"setState", "checkout"},
              c.id \in OrderIds, Present(c.id),
              Continue(w, [c EXCEPT !.pc = "write",
                                    !.doc = [orders[c.id] EXCEPT !.state = state]])
       PROVE  CopyStep(c, d)
  <2> DEFINE doc == [orders[c.id] EXCEPT !.state = state]
  <2>1. d = [c EXCEPT !.pc = "write", !.doc = doc] /\ UNCHANGED indexVars
      BY <1>2, <1>12
  <2>2. d.pc = "write" /\ d.doc = doc
    <3> HIDE DEF doc
    <3> QED
        BY <1>1, <2>1 DEF Call
  <2> QED
      BY <1>12, <2>1, <2>2 DEF CopyStep, Restates
<1>13. CASE SetOrderState(w)
  <2>1. c.id \in OrderIds /\ Present(c.id) /\ c.op = "setState" /\ c.pc = "start"
      BY <1>1, <1>13 DEF SetOrderState, At, WellFormed, Call
  <2>2. \/ Continue(w, [c EXCEPT !.pc = "write",
                                 !.doc = [orders[c.id] EXCEPT !.state = c.doc.state]])
        \/ Continue(w, [c EXCEPT !.pc = "failed"])
      BY <1>13 DEF SetOrderState
  <2>3. CASE Continue(w, [c EXCEPT !.pc = "failed"])
      BY <1>1, <1>2, <2>3 DEF CopyStep, Quits, Finished, Call
  <2> QED
      BY <1>12, <2>1, <2>2, <2>3
<1>14. CASE CheckoutOrder(w)
  <2>1. c.id \in OrderIds /\ Present(c.id) /\ c.op = "checkout" /\ c.pc = "start"
      BY <1>1, <1>14 DEF CheckoutOrder, At, WellFormed, Call
  <2>2. Continue(w, [c EXCEPT !.pc = "write",
                              !.doc = [orders[c.id] EXCEPT !.state = "PRE_AUTHORIZE"]])
      BY <1>14 DEF CheckoutOrder
  <2> QED
      BY <1>12, <2>1, <2>2
<1>15. CASE PriceItem(w)
  <2>1. PICK b \in c.todo : Continue(w, [c EXCEPT
                !.doc.subtotal = @ + books[b].price * c.doc.items[b],
                !.todo = @ \ {b},
                !.pc = IF c.todo = {b} THEN "write" ELSE "price"])
      BY <1>15 DEF PriceItem
  <2>2. /\ d = [c EXCEPT !.doc.subtotal = @ + books[b].price * c.doc.items[b],
                         !.todo = @ \ {b},
                         !.pc = IF c.todo = {b} THEN "write" ELSE "price"]
        /\ UNCHANGED indexVars
      BY <1>2, <2>1
  <2>3. c.pc = "price"
      BY <1>15 DEF PriceItem
  <2>4. /\ d.doc = [c.doc EXCEPT !.subtotal = @ + books[b].price * c.doc.items[b]]
        /\ d.todo = c.todo \ {b} /\ d.pc = IF c.todo = {b} THEN "write" ELSE "price"
      BY <1>1, <2>2 DEF Call
  <2> QED
      BY <2>2, <2>3, <2>4 DEF CopyStep, AddsPrice
<1>16. CASE UpdateOrder(w)
    BY <1>1, <1>2, <1>16 DEF UpdateOrder, At, CopyStep, Gathers, Call
<1>17. CASE SearchPastOrders(w)
  <2>1. c.pc = "search" /\ c.op = "update"
      BY <1>17 DEF SearchPastOrders, LoopsOK
  <2>2. PICK hits \in SUBSET Hits(c.doc.userId, PlacedStates) :
            Continue(w, [c EXCEPT !.todo = PastBooks(hits, c.id),
                !.pc = IF PastBooks(hits, c.id) = {} THEN "write" ELSE "readBook"])
      BY <1>17 DEF SearchPastOrders
  <2> DEFINE past == PastBooks(hits, c.id)
  <2>3. \A b \in past : \E o \in OrderIds \ {c.id} :
            /\ visible[o].userId = c.doc.userId
            /\ visible[o].state \in PlacedStates /\ visible[o].items[b] > 0
      BY DEF PastBooks, Hits, BooksOf
  <2> HIDE DEF past
  <2>4. d.doc = c.doc /\ d.todo = past /\ d.pc \in {"readBook", "write"}
        /\ UNCHANGED indexVars
    <3>1. /\ d = [c EXCEPT !.todo = past, !.pc = IF past = {} THEN "write" ELSE "readBook"]
          /\ UNCHANGED indexVars
        BY <1>2, <2>2 DEF past
    <3> QED
        BY <1>1, <3>1 DEF Call
  <2> QED
      BY <2>1, <2>3, <2>4 DEF CopyStep, Gathers
<1>18. CASE ReadPastBook(w)
  <2>1. c.pc = "readBook" /\ c.op = "update"
      BY <1>18 DEF ReadPastBook, LoopsOK
  <2>2. PICK b \in c.todo : Continue(w, [c EXCEPT !.pc = "writeBook", !.book = b,
                                          !.copy = books[b], !.todo = @ \ {b}])
      BY <1>18 DEF ReadPastBook
  <2>3. /\ d.doc = c.doc /\ d.pc = "writeBook" /\ d.book = b /\ d.copy = books[b]
        /\ d.todo = c.todo \ {b} /\ UNCHANGED indexVars
    <3> DEFINE copy == books[b]
    <3>1. /\ d = [c EXCEPT !.pc = "writeBook", !.book = b, !.copy = copy, !.todo = @ \ {b}]
          /\ UNCHANGED indexVars
        BY <1>2, <2>2
    <3> HIDE DEF copy
    <3>2. /\ d.doc = c.doc /\ d.pc = "writeBook" /\ d.book = b /\ d.copy = copy
          /\ d.todo = c.todo \ {b}
        BY <1>1, <3>1 DEF Call
    <3> QED
        BY <3>1, <3>2 DEF copy
  <2> QED
      BY <2>1, <2>2, <2>3 DEF CopyStep, Gathers
<1>19. CASE WritePastBook(w)
  <2>1. c.pc = "writeBook" /\ c.op = "update" /\ c.book \in Books
      BY <1>1, <1>19 DEF WritePastBook, LoopsOK, WellFormed, Call
  <2>2. /\ d.doc = c.doc /\ d.todo = c.todo /\ d.pc \in {"readBook", "write"}
        /\ StoreBook(c.book, CountTogether(c.book, c.copy, c.doc.items))
      BY <1>1, <1>19 DEF WritePastBook, Call
  <2> QED
      BY <2>1, <2>2 DEF CopyStep, Counts
<1>20. CASE WriteOrder(w)
  <2>1. c.pc = "write" /\ c.op \notin {"none", "create", "getActive", "get"} /\ c.id \in OrderIds
      BY <1>1, <1>20 DEF WriteOrder, WellFormed, Call, Running
  <2>2. d.op = c.op /\ d.id = c.id /\ d.pc = "done" /\ d.doc = NoDoc /\ StoreOrder(c.id, c.doc)
      BY <1>1, <1>20 DEF WriteOrder, Call
  <2> QED
      BY <2>1, <2>2 DEF CopyStep, Writes
<1> QED
    BY <1>4, <1>5, <1>6, <1>7, <1>8, <1>10, <1>11, <1>13, <1>14, <1>15, <1>16, <1>17,
       <1>18, <1>19, <1>20 DEF ServerStep

\* And LoopsOK is kept: only saveOrder goes from its start to the search.
LEMMA LoopsKept ==
    ASSUME TypeOK, LoopsOK, NEW w \in Workers, ServerStep(w)
    PROVE  LoopsOK'
<1>1. /\ \A x \in Workers : x # w => srv'[x] = srv[x]
      /\ srv'[w].op = srv[w].op
    BY ServerStepTyped DEF TypeOK, ServerTypeOK, Continues
<1>2. srv'[w].pc \in {"search", "readBook", "writeBook"} => srv[w].op = "update"
    BY ServerCopyStep DEF CopyStep, Creates, Quits, Finished, Recalculates, Restates,
                          AddsPrice, Gathers, Counts, Writes
<1> QED
    BY <1>1, <1>2 DEF LoopsOK

-----------------------------------------------------------------------------
(* Which books were in which orders.                                       *)

\* What is in the index, or was when a search looked, was recorded.
Recorded ==
    \A o \in OrderIds, b \in Books :
        /\ orders[o].items[b] > 0 => <<o, b>> \in everIn
        /\ orders[o].items[b] > 0 /\ orders[o].state \in PlacedStates =>
                <<o, b>> \in everPlacedWith
        /\ visible[o].items[b] > 0 /\ visible[o].state \in PlacedStates =>
                <<o, b>> \in everPlacedWith

\* An order that is not there has no items and never had any; a search sees the
\* customer of an order as it is, or not at all.
Customers ==
    /\ \A o \in OrderIds : ~Present(o) => orders[o] = NoDoc
    /\ \A x \in everIn : Present(x[1])
    /\ \A o \in OrderIds : visible[o].userId \in {NoUser, orders[o].userId}

\* One customer had b in a placed order and c in another order.
Supported(b, c) ==
    /\ b # c
    /\ \E o, p \in OrderIds :
        /\ o # p /\ orders[o].userId = orders[p].userId
        /\ <<o, b>> \in everPlacedWith /\ <<p, c>> \in everIn

CopySupported(b, copy) == \A c \in Books : copy.boughtWith[c] > 0 => Supported(b, c)

\* Book b is in another placed order of the customer of order id.
Past(id, b) == \E o \in OrderIds \ {id} :
    orders[o].userId = orders[id].userId /\ <<o, b>> \in everPlacedWith

\* The copy that a thread of the order server holds is of a customer's order,
\* and what updateBoughtWith counts, or has still to count, is real.
CallSupported(c) ==
    /\ c.op = "create" /\ c.pc = "start" => \E u \in Users : c.doc = NewOrder(u)
    /\ Holds(c) => Present(c.id) /\ c.doc.userId = orders[c.id].userId
    /\ c.op = "update" /\ c.pc \in Running =>
            \A b \in Books : c.doc.items[b] > 0 => <<c.id, b>> \in everIn
    /\ c.pc \in {"readBook", "writeBook"} => \A b \in c.todo : Past(c.id, b)
    /\ c.pc = "writeBook" => Past(c.id, c.book) /\ CopySupported(c.book, c.copy)

\* The same of the admin server, which writes whole books back as well.
AdminSupported(c) ==
    /\ c.pc = "writeOrder" => Present(c.id) /\ c.doc.userId = orders[c.id].userId
    /\ c.pc = "writeBook" => CopySupported(c.book, c.copy)

\* The inductive invariant, together with the types.
Counting ==
    /\ Recorded /\ Customers /\ LoopsOK
    /\ \A w \in Workers : CallSupported(srv[w])
    /\ \A a \in Admins : AdminSupported(adm[a])
    /\ \A b \in Books : CopySupported(b, books[b])

\* What no step takes back.
Grows ==
    /\ \A o \in OrderIds : Present(o) => orders'[o].userId = orders[o].userId
    /\ everIn \subseteq everIn' /\ everPlacedWith \subseteq everPlacedWith'

\* A pair of books that is supported remains so ...
LEMMA SupportedStays ==
    ASSUME TypeOK, Customers, Grows, NEW b \in Books, NEW c \in Books, Supported(b, c)
    PROVE  Supported(b, c)'
<1>1. PICK o, p \in OrderIds :
        /\ b # c /\ o # p /\ orders[o].userId = orders[p].userId
        /\ <<o, b>> \in everPlacedWith /\ <<p, c>> \in everIn
    BY DEF Supported
<1>2. Present(o) /\ Present(p)
    BY <1>1 DEF Customers, TypeOK
<1> QED
    BY <1>1, <1>2 DEF Grows, Supported

LEMMA CopySupportedStays ==
    ASSUME TypeOK, Customers, Grows, NEW b \in Books, NEW copy, CopySupported(b, copy)
    PROVE  CopySupported(b, copy)'
    BY SupportedStays DEF CopySupported

\* ... and so does a past book of an order ...
LEMMA PastStays ==
    ASSUME TypeOK, Customers, Grows, NEW id \in OrderIds, Present(id), NEW b, Past(id, b)
    PROVE  Past(id, b)'
<1>1. PICK o \in OrderIds \ {id} :
        orders[o].userId = orders[id].userId /\ <<o, b>> \in everPlacedWith
    BY DEF Past
<1>2. Present(o)
    BY <1>1 DEF Present
<1> QED
    BY <1>1, <1>2 DEF Grows, Past

\* ... and a call.
LEMMA CallSupportedStays ==
    ASSUME TypeOK, Customers, Grows, NEW c \in Call, WellFormed(c), CallSupported(c)
    PROVE  CallSupported(c)'
<1>1. Holds(c) => c.id \in OrderIds
    BY DEF Holds, WellFormed, Call
<1>2. Holds(c) => Present(c.id)' /\ c.doc.userId = orders'[c.id].userId
    BY <1>1 DEF CallSupported, Grows, Present
<1>3. ASSUME c.pc \in {"readBook", "writeBook"}
      PROVE  Holds(c) /\ c.todo \subseteq Books
    BY <1>3 DEF Holds, Running, Call
<1>4. c.pc \in {"readBook", "writeBook"} => \A b \in c.todo : Past(c.id, b)'
    BY <1>1, <1>3, PastStays DEF CallSupported
<1>5. ASSUME c.pc = "writeBook" PROVE Past(c.id, c.book)' /\ CopySupported(c.book, c.copy)'
  <2>1. c.book \in Books /\ c.id \in OrderIds /\ Present(c.id)
      BY <1>1, <1>3, <1>5 DEF WellFormed, Call, CallSupported
  <2> QED
      BY <1>5, <2>1, PastStays, CopySupportedStays DEF CallSupported
<1>6. c.op = "update" /\ c.pc \in Running =>
            \A b \in Books : c.doc.items[b] > 0 => <<c.id, b>> \in everIn'
    BY DEF CallSupported, Grows
<1>7. c.op = "create" /\ c.pc = "start" => \E u \in Users : c.doc = NewOrder(u)
    BY DEF CallSupported
<1> QED
    BY <1>2, <1>4, <1>5, <1>6, <1>7 DEF CallSupported

LEMMA AdminSupportedStays ==
    ASSUME TypeOK, Customers, Grows, NEW c \in AdminCall, AdminSupported(c),
           c.pc = "writeOrder" => c.id # NoOrder, c.pc = "writeBook" => c.book # NoBook
    PROVE  AdminSupported(c)'
<1>1. c.pc = "writeOrder" => c.id \in OrderIds
    BY DEF AdminCall
<1>2. c.pc = "writeBook" => c.book \in Books
    BY DEF AdminCall
<1> QED
    BY <1>1, <1>2, CopySupportedStays DEF AdminSupported, Grows, Present

\* An order is created, or keeps its customer.
OrdersGrow ==
    \A o \in OrderIds : \/ orders'[o] = orders[o]
                        \/ /\ orders'[o].userId # NoUser
                           /\ Present(o) => orders'[o].userId = orders[o].userId

\* The history of such a step, and what a search sees after it.
LEMMA RecordedAfter ==
    ASSUME TypeOK, Recorded, Customers, Record, IndexTypeOK', OrdersGrow,
           \A o \in OrderIds : visible'[o] \in {visible[o], orders[o]}
    PROVE  Recorded' /\ Customers' /\ Grows
<1> USE NoUserAssumption
<1>1. /\ everIn \subseteq everIn' /\ everPlacedWith \subseteq everPlacedWith'
      /\ \A o \in OrderIds, b \in Books : orders'[o].items[b] > 0 =>
            /\ <<o, b>> \in everIn'
            /\ orders'[o].state \in PlacedStates => <<o, b>> \in everPlacedWith'
  <2>1. everIn \subseteq everIn' /\ everPlacedWith \subseteq everPlacedWith'
      BY DEF Record
  <2>2. ASSUME NEW o \in OrderIds, NEW b \in Books, orders'[o].items[b] > 0
        PROVE  /\ <<o, b>> \in everIn'
               /\ orders'[o].state \in PlacedStates => <<o, b>> \in everPlacedWith'
    <3>1. <<o, b>> \in InIndex(orders')
        BY <2>2 DEF InIndex
    <3> QED
        BY <3>1 DEF Record
  <2> QED
      BY <2>1, <2>2
<1>2. Grows
    BY <1>1 DEF OrdersGrow, Grows
<1>3. Recorded'
    BY <1>1 DEF Recorded
<1>4. \A o \in OrderIds : ~Present(o)' => orders'[o] = NoDoc
    BY DEF OrdersGrow, Customers, Present
<1>5. ASSUME NEW x \in everIn' PROVE Present(x[1])'
  <2>1. CASE x \in everIn
      BY <2>1 DEF TypeOK, Customers, OrdersGrow, Present
  <2>2. CASE x \in InIndex(orders')
    <3>1. x[1] \in OrderIds /\ x[2] \in Books /\ orders'[x[1]].items[x[2]] > 0
        BY <2>2 DEF InIndex
    <3>2. orders'[x[1]] # NoDoc
        BY <3>1 DEF NoDoc, NewOrder, NoItems
    <3> QED
        BY <1>4, <3>1, <3>2
  <2> QED
      BY <2>1, <2>2 DEF Record
<1>6. \A o \in OrderIds : visible'[o].userId \in {NoUser, orders'[o].userId}
    BY DEF OrdersGrow, Customers, Present
<1> QED
    BY <1>2, <1>3, <1>4, <1>5, <1>6 DEF Customers

\* It is enough that every call, and every book, is supported by what was there
\* before the step.
LEMMA CountingAfter ==
    ASSUME TypeOK, TypeOK', Counting, Recorded', Customers', Grows, LoopsOK',
           \A w \in Workers : \E d : d = srv'[w] /\ CallSupported(d),
           \A a \in Admins : \E d : d = adm'[a] /\ AdminSupported(d),
           \A b \in Books : \E copy : copy = books'[b] /\ CopySupported(b, copy)
    PROVE  Counting'
<1>2. Customers
    BY DEF Counting
<1>3. ASSUME NEW w \in Workers PROVE CallSupported(srv[w])'
  <2>1. PICK d : d = srv'[w] /\ CallSupported(d)
      OBVIOUS
  <2>2. d \in Call /\ WellFormed(d)
    <3>1. srv'[w] \in Call /\ WellFormed(srv'[w])
        BY DEF TypeOK, ServerTypeOK
    <3> QED
        BY <2>1, <3>1
  <2>3. CallSupported(d)'
      BY <1>2, <2>1, <2>2, CallSupportedStays
  <2> QED
      BY <2>1, <2>3 DEF CallSupported
<1>4. ASSUME NEW a \in Admins PROVE AdminSupported(adm[a])'
  <2>1. PICK d : d = adm'[a] /\ AdminSupported(d)
      OBVIOUS
  <2>2. /\ d \in AdminCall
        /\ d.pc = "writeOrder" => d.id # NoOrder
        /\ d.pc = "writeBook" => d.book # NoBook
      BY <2>1 DEF TypeOK, AdminTypeOK
  <2>3. AdminSupported(d)'
      BY <1>2, <2>1, <2>2, AdminSupportedStays
  <2> QED
      BY <2>1, <2>3 DEF AdminSupported
<1>5. ASSUME NEW b \in Books PROVE CopySupported(b, books[b])'
  <2>1. PICK copy : copy = books'[b] /\ CopySupported(b, copy)
      OBVIOUS
  <2>2. CopySupported(b, copy)'
      BY <1>2, <2>1, CopySupportedStays
  <2> QED
      BY <2>1, <2>2 DEF CopySupported
<1> QED
    BY <1>3, <1>4, <1>5 DEF Counting


\* What has to be shown of a thread that saves an order.
LEMMA SavingSupported ==
    ASSUME NEW d, d.op = "update", Present(d.id), d.doc.userId = orders[d.id].userId,
           \A b \in Books : d.doc.items[b] > 0 => <<d.id, b>> \in everIn,
           d.pc \in {"readBook", "writeBook"} => \A b \in d.todo : Past(d.id, b),
           d.pc = "writeBook" => Past(d.id, d.book) /\ CopySupported(d.book, d.copy)
    PROVE  CallSupported(d)
<1>1. Holds(d) => Present(d.id) /\ d.doc.userId = orders[d.id].userId
    OBVIOUS
<1>2. d.op # "create"
    OBVIOUS
<1>3. d.op = "update" /\ d.pc \in Running =>
            \A b \in Books : d.doc.items[b] > 0 => <<d.id, b>> \in everIn
    OBVIOUS
<1> QED
    BY <1>1, <1>2, <1>3, Zenon DEF CallSupported

\* What a search finds is an order of the customer whose copy the thread holds.
LEMMA FoundIsPast ==
    ASSUME TypeOK, Counting, NEW id \in OrderIds, NEW b \in Books,
           NEW o \in OrderIds \ {id}, Present(id),
           visible[o].userId = orders[id].userId,
           visible[o].state \in PlacedStates, visible[o].items[b] > 0
    PROVE  Past(id, b)
<1>1. orders[id].userId # NoUser
    BY DEF Present
<1>2. visible[o].userId = orders[o].userId
    BY <1>1 DEF Counting, Customers
<1>3. <<o, b>> \in everPlacedWith
    BY DEF Counting, Recorded
<1> QED
    BY <1>2, <1>3 DEF Past

\* A thread of the order server goes on with what is supported ...
LEMMA ServerSupported ==
    ASSUME TypeOK, Counting, NEW w \in Workers, ServerStep(w)
    PROVE  \E d : d = srv'[w] /\ CallSupported(d)
<1> DEFINE c == srv[w]
<1>1. /\ srv \in [Workers -> Call] /\ c \in Call /\ WellFormed(c)
      /\ CallSupported(c) /\ LoopsOK
    BY DEF TypeOK, ServerTypeOK, Counting
<1>2. PICK d : Continues(c, d) /\ srv' = [srv EXCEPT ![w] = d]
    BY ServerStepTyped DEF TypeOK, ServerTypeOK
<1>3. d = srv'[w] /\ d.op = c.op /\ d \in Call /\ (c.op \notin {"create", "getActive"} => d.id = c.id)
    BY <1>1, <1>2 DEF Continues
<1>4. CopyStep(c, d)
    BY <1>1, <1>3, ServerCopyStep
<1>5. \A o \in OrderIds : orders[o] \in Order
    BY DEF TypeOK, IndexTypeOK
<1> SUFFICES CallSupported(d)
    BY <1>3
<1> HIDE DEF c
<1>6. ASSUME d.pc \notin Running PROVE CallSupported(d)
    BY <1>6 DEF CallSupported, Holds, Running
<1>7. ASSUME Creates(c, d) \/ Quits(c, d) \/ Writes(c, d) PROVE d.pc \notin Running
    BY <1>7 DEF Creates, Quits, Writes, Finished, Running
<1>8. CASE Recalculates(c, d)
    BY <1>3, <1>8 DEF Recalculates, CallSupported, Holds
<1>9. CASE Restates(c, d)
  <2>1. d.doc.userId = orders[c.id].userId
      BY <1>5, <1>9 DEF Restates, Order
  <2> QED
      BY <1>3, <1>9, <2>1 DEF Restates, CallSupported, Holds
<1>10. CASE AddsPrice(c, d)
  <2>1. c.pc = "price" /\ d.pc \in {"price", "write"} /\ c.op \notin {"create", "getActive"}
      BY <1>1, <1>10 DEF AddsPrice, WellFormed, Running, c
  <2>2. d.doc.userId = c.doc.userId /\ d.doc.items = c.doc.items
      BY <1>1, <1>10 DEF AddsPrice, Call, Order
  <2>3. Holds(c)
      BY <2>1 DEF Holds, Running
  <2> QED
      BY <1>1, <1>3, <2>1, <2>2, <2>3 DEF CallSupported, Running
<1>11. CASE Gathers(c, d)
  <2>1. /\ c.op = "update" /\ d.doc = c.doc /\ c.pc \in Running /\ d.id = c.id /\ d.op = "update"
        /\ c.id \in OrderIds
      BY <1>1, <1>3, <1>11 DEF Gathers, Running, WellFormed, Call
  <2>2. Present(c.id) /\ c.doc.userId = orders[c.id].userId
      BY <1>1, <2>1 DEF CallSupported, Holds, Running
  <2>3. \A b \in Books : c.doc.items[b] > 0 => <<c.id, b>> \in everIn
      BY <1>1, <2>1 DEF CallSupported
  <2>7. /\ d.op = "update" /\ Present(d.id) /\ d.doc.userId = orders[d.id].userId
        /\ \A b \in Books : d.doc.items[b] > 0 => <<d.id, b>> \in everIn
      BY <2>1, <2>2, <2>3
  <2>4. CASE c.pc = "start" /\ d.pc = "search"
      BY <2>4, <2>7, SavingSupported
  <2>5. CASE c.pc = "search"
    <3>1. d.pc \in {"readBook", "write"}
        BY <1>11, <2>5 DEF Gathers
    <3>2. ASSUME NEW b \in d.todo PROVE Past(c.id, b)
      <4>1. b \in Books
          BY <1>3 DEF Call
      <4>2. PICK o \in OrderIds \ {c.id} :
                /\ visible[o].userId = c.doc.userId
                /\ visible[o].state \in PlacedStates /\ visible[o].items[b] > 0
          BY <1>11, <2>5 DEF Gathers
      <4> QED
          BY <2>1, <2>2, <4>1, <4>2, FoundIsPast
    <3> QED
        BY <2>1, <2>7, <3>1, <3>2, SavingSupported
  <2>6. CASE c.pc = "readBook"
    <3>1. /\ d.pc = "writeBook" /\ d.book \in c.todo /\ d.copy = books[d.book]
          /\ d.todo \subseteq c.todo
        BY <1>11, <2>6 DEF Gathers
    <3>2. \A b \in c.todo : Past(c.id, b)
        BY <1>1, <2>6 DEF CallSupported
    <3>3. CopySupported(d.book, d.copy)
        BY <1>1, <3>1 DEF Counting, Call
    <3> QED
        BY <2>1, <2>7, <3>1, <3>2, <3>3, SavingSupported
  <2> QED
      BY <1>11, <2>4, <2>5, <2>6 DEF Gathers
<1>12. CASE Counts(c, d)
  <2>1. /\ c.op = "update" /\ c.pc = "writeBook" /\ d.pc \in {"readBook", "write"}
        /\ d.doc = c.doc /\ d.todo = c.todo /\ d.id = c.id /\ d.op = "update"
      BY <1>3, <1>12 DEF Counts
  <2>2. Present(c.id) /\ c.doc.userId = orders[c.id].userId
      BY <1>1, <2>1 DEF CallSupported, Holds, Running
  <2>3. /\ \A b \in Books : c.doc.items[b] > 0 => <<c.id, b>> \in everIn
        /\ \A b \in c.todo : Past(c.id, b)
      BY <1>1, <2>1 DEF CallSupported, Running
  <2>4. /\ d.op = "update" /\ Present(d.id) /\ d.doc.userId = orders[d.id].userId
        /\ \A b \in Books : d.doc.items[b] > 0 => <<d.id, b>> \in everIn
        /\ \A b \in d.todo : Past(d.id, b)
      BY <2>1, <2>2, <2>3
  <2> QED
      BY <2>1, <2>4, SavingSupported
<1> QED
    BY <1>3, <1>4, <1>6, <1>7, <1>8, <1>9, <1>10, <1>11, <1>12 DEF CopyStep

\* ... and what it writes into a book is supported: the books of the order that
\* is saved, with a book of another order of the customer.
LEMMA CountedIsSupported ==
    ASSUME TypeOK, Counting, NEW c \in Call, NEW d, CallSupported(c), WellFormed(c),
           Counts(c, d)
    PROVE  CopySupported(c.book, CountTogether(c.book, c.copy, c.doc.items))
<1> DEFINE copy == CountTogether(c.book, c.copy, c.doc.items)
<1>1. /\ c.op = "update" /\ c.pc = "writeBook" /\ c.book \in Books
      /\ c.id \in OrderIds /\ c.copy \in Book
    BY DEF Counts, WellFormed, Call
<1>2. /\ Past(c.id, c.book) /\ CopySupported(c.book, c.copy)
      /\ \A b \in Books : c.doc.items[b] > 0 => <<c.id, b>> \in everIn
    BY <1>1 DEF CallSupported, Running
<1>3. ASSUME NEW b \in Books, copy.boughtWith[b] > 0 PROVE Supported(c.book, b)
  <2>1. copy.boughtWith[b] = IF b # c.book /\ c.doc.items[b] > 0
                             THEN c.copy.boughtWith[b] + 1 ELSE c.copy.boughtWith[b]
      BY <1>1 DEF CountTogether, Book
  <2>2. CASE b # c.book /\ c.doc.items[b] > 0
    <3>1. PICK o \in OrderIds \ {c.id} :
            orders[o].userId = orders[c.id].userId /\ <<o, c.book>> \in everPlacedWith
        BY <1>2 DEF Past
    <3> QED
        BY <1>1, <1>2, <2>2, <3>1 DEF Supported
  <2>3. CASE ~(b # c.book /\ c.doc.items[b] > 0)
      BY <1>2, <1>3, <2>1, <2>3 DEF CopySupported
  <2> QED
      BY <2>2, <2>3
<1> QED
    BY <1>3 DEF CopySupported

\* A call begins at its start.
LEMMA ClientCallStarts == ASSUME TypeOK, NEW c \in ClientCalls PROVE c.pc = "start"
<1> USE StartCallTyped DEF Ops, Call
<1>1. ASSUME NEW u \in Users, c = CreateCall(u) \/ c = GetActiveCall(u) PROVE c.pc = "start"
    BY <1>1 DEF CreateCall, GetActiveCall
<1>2. ASSUME NEW o \in OrderIds,
             \/ c = GetCall(o) \/ c = CheckoutCall(o)
             \/ \E b \in Books : c = AddBookCall(o, b)
             \/ \E items \in [Books -> 0..MaxQuantity] : c = EditCartCall(o, items)
             \/ \E state \in OrderStates : c = SetStateCall(o, state)
      PROVE  c.pc = "start"
    BY <1>2 DEF GetCall, CheckoutCall, AddBookCall, EditCartCall, SetStateCall
<1>3. ASSUME NEW o \in OrderIds, NEW doc, c = UpdateCall(o, doc) PROVE c.pc = "start"
    BY <1>3 DEF UpdateCall
<1>4. \/ \E u \in Users : c = CreateCall(u) \/ c = GetActiveCall(u)
      \/ \E o \in OrderIds :
            \/ c = GetCall(o) \/ c = CheckoutCall(o)
            \/ \E b \in Books : c = AddBookCall(o, b)
            \/ \E items \in [Books -> 0..MaxQuantity] : c = EditCartCall(o, items)
            \/ \E state \in OrderStates : c = SetStateCall(o, state)
      \/ \E o \in OrderIds : c = UpdateCall(o, [orders[o] EXCEPT !.state = "PRE_SHIPPING"])
    BY DEF ClientCalls
<1>5. CASE \E u \in Users : c = CreateCall(u) \/ c = GetActiveCall(u)
    BY <1>1, <1>5
<1>6. CASE \E o \in OrderIds : c = UpdateCall(o, [orders[o] EXCEPT !.state = "PRE_SHIPPING"])
  <2>1. PICK o \in OrderIds : c = UpdateCall(o, [orders[o] EXCEPT !.state = "PRE_SHIPPING"])
      BY <1>6
  <2> DEFINE doc == [orders[o] EXCEPT !.state = "PRE_SHIPPING"]
  <2>2. c = UpdateCall(o, doc)
      BY <2>1
  <2> HIDE DEF doc
  <2> QED
      BY <1>3, <2>2
<1> QED
    BY <1>2, <1>4, <1>5, <1>6

\* A client's call is supported: the order that it updates is one that it read.
LEMMA ClientCallSupported ==
    ASSUME TypeOK, Counting, NEW c \in ClientCalls
    PROVE  CallSupported(c)
<1>1. \/ \E u \in Users : c = CreateCall(u) \/ c = GetActiveCall(u)
      \/ \E o \in OrderIds : c = GetCall(o) \/ c = CheckoutCall(o)
      \/ \E o \in OrderIds, b \in Books : c = AddBookCall(o, b)
      \/ \E o \in OrderIds, items \in [Books -> 0..MaxQuantity] : c = EditCartCall(o, items)
      \/ \E o \in OrderIds, state \in OrderStates : c = SetStateCall(o, state)
      \/ \E o \in OrderIds : Present(o) /\
            c = UpdateCall(o, [orders[o] EXCEPT !.state = "PRE_SHIPPING"])
    BY DEF ClientCalls
<1>2. ASSUME c.pc = "start", c.op \notin {"create", "update"} PROVE CallSupported(c)
    BY <1>2 DEF CallSupported, Holds
<1>3. ASSUME NEW u \in Users, c = CreateCall(u) PROVE CallSupported(c)
  <2>1. c.pc = "start" /\ c.op = "create" /\ c.doc = NewOrder(u)
      BY <1>3, StartCallTyped, Documents DEF CreateCall, Call, Ops
  <2> QED
      BY <2>1 DEF CallSupported, Holds
<1>4. ASSUME NEW u \in Users, c = GetActiveCall(u) PROVE CallSupported(c)
  <2>1. c.pc = "start" /\ c.op = "getActive"
      BY <1>4, StartCallTyped DEF GetActiveCall, Call, Ops
  <2> QED
      BY <1>2, <2>1
<1>5. ASSUME NEW o \in OrderIds,
             \/ c = GetCall(o) \/ c = CheckoutCall(o)
             \/ \E b \in Books : c = AddBookCall(o, b)
             \/ \E items \in [Books -> 0..MaxQuantity] : c = EditCartCall(o, items)
             \/ \E state \in OrderStates : c = SetStateCall(o, state)
      PROVE  CallSupported(c)
  <2>1. c.pc = "start"
      BY <1>5, StartCallTyped DEF GetCall, CheckoutCall, AddBookCall, EditCartCall,
                                  SetStateCall, Call, Ops
  <2>2. c.op \notin {"create", "update"}
      BY <1>5, CallsTyped
  <2> QED
      BY <1>2, <2>1, <2>2
<1>6. ASSUME NEW o \in OrderIds, Present(o),
             c = UpdateCall(o, [orders[o] EXCEPT !.state = "PRE_SHIPPING"])
      PROVE  CallSupported(c)
  <2> DEFINE doc == [orders[o] EXCEPT !.state = "PRE_SHIPPING"]
  <2>1. /\ orders[o] \in Order /\ doc \in Order
        /\ doc.userId = orders[o].userId /\ doc.items = orders[o].items
      BY DEF TypeOK, IndexTypeOK, Order, OrderStates
  <2>2. c = UpdateCall(o, doc)
      BY <1>6
  <2> HIDE DEF doc
  <2>3. c.op = "update" /\ c.pc = "start" /\ c.id = o /\ c.doc = doc
      BY <2>1, <2>2, StartCallTyped DEF UpdateCall, Call, Ops
  <2>4. \A b \in Books : doc.items[b] > 0 => <<o, b>> \in everIn
      BY <2>1 DEF Counting, Recorded
  <2> QED
      BY <1>6, <2>1, <2>3, <2>4, SavingSupported
<1> QED
    BY <1>1, <1>3, <1>4, <1>5, <1>6

\* A thread of the admin server goes on with what is supported.
LEMMA AdminSupportedNext ==
    ASSUME TypeOK, Counting, NEW a \in Admins, AdminStep(a), NEW x \in Admins
    PROVE  \E d : d = adm'[x] /\ AdminSupported(d)
<1>1. adm \in [Admins -> AdminCall] /\ adm[a] \in AdminCall /\ AdminSupported(adm[x])
    BY DEF TypeOK, AdminTypeOK, Counting
<1>2. AdminSupported(AdminIdle)
    BY DEF AdminSupported, AdminIdle
<1>3. CASE x # a
  <2>1. adm'[x] = adm[x]
      BY <1>1, <1>3, AdminStepEffect DEF TypeOK
  <2> QED
      BY <1>1, <2>1
<1>4. CASE x = a /\ adm' = [adm EXCEPT ![a] = AdminIdle]
    BY <1>1, <1>2, <1>4
<1>5. CASE x = a /\ \E o \in OrderIds : ReadForShipping(a, o)
  <2>1. PICK o \in OrderIds : ReadForShipping(a, o)
      BY <1>5
  <2> DEFINE doc == Shipped(orders[o])
             d == [adm[a] EXCEPT !.pc = "writeOrder", !.id = o, !.doc = doc]
  <2>2. doc.userId = orders[o].userId
      BY DEF Shipped, TypeOK, IndexTypeOK, Order
  <2>3. adm'[a] = d /\ Present(o)
      BY <1>1, <2>1 DEF ReadForShipping
  <2>4. d.pc = "writeOrder" /\ d.id = o /\ d.doc = doc
    <3> HIDE DEF doc
    <3> QED
        BY <1>1 DEF AdminCall
  <2> HIDE DEF d, doc
  <2> QED
      BY <1>5, <2>2, <2>3, <2>4 DEF AdminSupported
<1>6. CASE x = a /\ \E b \in Books, price \in Prices : ReadForPrice(a, b, price)
  <2>1. PICK b \in Books, price \in Prices : ReadForPrice(a, b, price)
      BY <1>6
  <2> DEFINE copy == [books[b] EXCEPT !.price = price]
             d == [adm[a] EXCEPT !.pc = "writeBook", !.book = b, !.copy = copy]
  <2>2. copy.boughtWith = books[b].boughtWith
      BY DEF TypeOK, IndexTypeOK, Book
  <2>3. adm'[a] = d
      BY <1>1, <2>1 DEF ReadForPrice
  <2>4. d.pc = "writeBook" /\ d.book = b /\ d.copy = copy
    <3> HIDE DEF copy
    <3> QED
        BY <1>1 DEF AdminCall
  <2>5. CopySupported(b, copy)
      BY <2>2 DEF Counting, CopySupported
  <2> HIDE DEF d, copy
  <2> QED
      BY <1>6, <2>3, <2>4, <2>5 DEF AdminSupported
<1>7. CASE x = a /\ (WriteShipped(a) \/ WritePrice(a) \/ AdminFail(a))
    BY <1>4, <1>7 DEF WriteShipped, WritePrice, AdminFail
<1> QED
    BY <1>3, <1>5, <1>6, <1>7 DEF AdminStep

\* What any step does to the documents: an order is created, or written by a
\* thread that holds it, and so is a book.
LEMMA DocumentsAfter ==
    ASSUME TypeOK, Counting, Step
    PROVE  /\ OrdersGrow
           /\ \A o \in OrderIds : visible'[o] \in {visible[o], orders[o]}
           /\ \A b \in Books : \E copy : copy = books'[b] /\ CopySupported(b, copy)
<1> DEFINE Grown == /\ OrdersGrow
                    /\ \A o \in OrderIds : visible'[o] \in {visible[o], orders[o]}
           Bought == \A b \in Books : \E copy : copy = books'[b] /\ CopySupported(b, copy)
<1> USE NoUserAssumption
<1>1. /\ orders \in [OrderIds -> Order] /\ visible \in [OrderIds -> Order]
      /\ books \in [Books -> Book]
      /\ \A b \in Books : CopySupported(b, books[b])
    BY DEF TypeOK, IndexTypeOK, Counting
<1>2. UNCHANGED books => Bought
    BY <1>1
<1>3. UNCHANGED <<orders, visible>> => Grown
    BY DEF OrdersGrow
<1>4. ASSUME NEW o \in OrderIds, NEW doc, StoreOrder(o, doc), doc.userId # NoUser,
             Present(o) => doc.userId = orders[o].userId
      PROVE  Grown /\ Bought
  <2>1. Grown
      BY <1>1, <1>4 DEF StoreOrder, OrdersGrow
  <2> QED
      BY <1>2, <1>4, <2>1 DEF StoreOrder
<1>5. ASSUME NEW b \in Books, NEW doc, StoreBook(b, doc), CopySupported(b, doc)
      PROVE  Grown /\ Bought
  <2>1. Bought
      BY <1>1, <1>5 DEF StoreBook
  <2> QED
      BY <1>3, <1>5, <2>1 DEF StoreBook
<1>6. CASE UNCHANGED indexVars
    BY <1>2, <1>3, <1>6 DEF indexVars
<1>7. CASE \E w \in Workers : NewCall(w) \/ TakeReply(w)
    BY <1>6, <1>7 DEF NewCall, TakeReply, Continue
<1>8. CASE \E w \in Workers : ServerStep(w)
  <2>1. PICK w \in Workers : ServerStep(w)
      BY <1>8
  <2> DEFINE c == srv[w]
             d == srv'[w]
  <2>2. c \in Call /\ WellFormed(c) /\ CallSupported(c) /\ CopyStep(c, d)
      BY <2>1, ServerCopyStep DEF TypeOK, ServerTypeOK, Counting
  <2> HIDE DEF c, d
  <2>3. CASE Creates(c, d)
    <3>1. PICK u \in Users : c.doc = NewOrder(u)
        BY <2>2, <2>3 DEF Creates, CallSupported
    <3>2. c.doc.userId # NoUser
        BY <3>1 DEF NewOrder
    <3> QED
        BY <1>4, <2>3, <3>2 DEF Creates
  <2>4. CASE Writes(c, d)
    <3>1. Present(c.id) /\ c.doc.userId = orders[c.id].userId
        BY <2>2, <2>4 DEF Writes, CallSupported, Holds, Running
    <3> QED
        BY <1>4, <2>4, <3>1 DEF Writes, Present
  <2>5. CASE Counts(c, d)
    <3>1. CopySupported(c.book, CountTogether(c.book, c.copy, c.doc.items))
        BY <2>2, <2>5, CountedIsSupported
    <3> QED
        BY <1>5, <2>5, <3>1 DEF Counts
  <2> QED
      BY <1>6, <2>2, <2>3, <2>4, <2>5
      DEF CopyStep, Quits, Recalculates, Restates, AddsPrice, Gathers
<1>9. CASE \E a \in Admins : AdminStep(a)
  <2>1. PICK a \in Admins : AdminStep(a)
      BY <1>9
  <2>2. adm[a] \in AdminCall /\ AdminSupported(adm[a])
      BY DEF TypeOK, AdminTypeOK, Counting
  <2>3. CASE WriteShipped(a)
    <3>1. /\ adm[a].id \in OrderIds /\ StoreOrder(adm[a].id, adm[a].doc)
          /\ adm[a].pc = "writeOrder"
        BY <2>2, <2>3 DEF WriteShipped, TypeOK, AdminTypeOK, AdminCall
    <3>2. Present(adm[a].id) /\ adm[a].doc.userId = orders[adm[a].id].userId
        BY <2>2, <3>1 DEF AdminSupported
    <3> QED
        BY <1>4, <3>1, <3>2 DEF Present
  <2>4. CASE WritePrice(a)
    <3>1. /\ adm[a].book \in Books /\ StoreBook(adm[a].book, adm[a].copy)
          /\ adm[a].pc = "writeBook"
        BY <2>2, <2>4 DEF WritePrice, TypeOK, AdminTypeOK, AdminCall
    <3> QED
        BY <1>5, <2>2, <3>1 DEF AdminSupported
  <2> QED
      BY <1>6, <2>1, <2>3, <2>4 DEF AdminStep, ReadForShipping, ReadForPrice, AdminFail
<1>10. CASE \E o \in OrderIds : Refresh(o)
  <2>1. Grown
      BY <1>1, <1>10 DEF Refresh, OrdersGrow
  <2> QED
      BY <1>2, <1>10, <2>1 DEF Refresh
<1> QED
    BY <1>7, <1>8, <1>9, <1>10 DEF Step

\* Counting is inductive.
LEMMA CountingStep == TypeOK /\ Counting /\ [Next]_vars => Counting'
<1> SUFFICES ASSUME TypeOK, Counting, [Next]_vars PROVE Counting'
    OBVIOUS
<1> DEFINE Servers == \A x \in Workers : \E d : d = srv'[x] /\ CallSupported(d)
           Operators == \A a \in Admins : \E d : d = adm'[a] /\ AdminSupported(d)
           Bought == \A b \in Books : \E copy : copy = books'[b] /\ CopySupported(b, copy)
<1>1. TypeOK'
    BY StepTyped
<1>2. /\ srv \in [Workers -> Call] /\ LoopsOK /\ Recorded /\ Customers
      /\ \A x \in Workers : CallSupported(srv[x])
      /\ \A a \in Admins : AdminSupported(adm[a])
      /\ \A b \in Books : CopySupported(b, books[b])
    BY DEF TypeOK, ServerTypeOK, Counting
<1>3. UNCHANGED srv => Servers /\ LoopsOK'
    BY <1>2 DEF LoopsOK
<1>4. UNCHANGED adm => Operators
    BY <1>2
<1>5. CASE UNCHANGED vars
  <2>1. UNCHANGED <<orders, visible, books, srv, adm, everIn, everPlacedWith>>
      BY <1>5 DEF vars, indexVars, historyVars
  <2>2. Bought
      BY <1>2, <2>1
  <2>3. Recorded' /\ Customers' /\ Grows
      BY <1>2, <2>1 DEF Recorded, Customers, Grows, Present
  <2> HIDE DEF Servers, Operators, Bought
  <2>4. Servers /\ LoopsOK' /\ Operators
      BY <1>3, <1>4, <2>1
  <2> QED
      BY <1>1, <2>2, <2>3, <2>4, CountingAfter DEF Servers, Operators, Bought
<1>6. ASSUME NEW w \in Workers, NEW c, srv' = [srv EXCEPT ![w] = c], CallSupported(c),
             c.pc \in {"start", "idle"}
      PROVE  Servers /\ LoopsOK'
    BY <1>2, <1>6 DEF LoopsOK
<1>7. ASSUME NEW w \in Workers, NewCall(w)
      PROVE  Servers /\ LoopsOK' /\ Operators
  <2>1. PICK c \in ClientCalls : Continue(w, c)
      BY <1>7 DEF NewCall
  <2>2. CallSupported(c) /\ c.pc = "start"
      BY ClientCallSupported, ClientCallStarts
  <2>3. srv' = [srv EXCEPT ![w] = c] /\ UNCHANGED adm
      BY <1>7, <2>1 DEF NewCall, Continue
  <2> HIDE DEF Servers, Operators
  <2> QED
      BY <1>4, <1>6, <2>2, <2>3
<1>8. ASSUME NEW w \in Workers, TakeReply(w)
      PROVE  Servers /\ LoopsOK' /\ Operators
  <2>1. CallSupported(Idle) /\ Idle.pc = "idle"
      BY DEF Idle, CallSupported, Holds, Running
  <2>2. srv' = [srv EXCEPT ![w] = Idle] /\ UNCHANGED adm
      BY <1>8 DEF TakeReply, Continue
  <2> HIDE DEF Servers, Operators
  <2> QED
      BY <1>4, <1>6, <2>1, <2>2
<1>9. ASSUME NEW w \in Workers, ServerStep(w), UNCHANGED adm
      PROVE  Servers /\ LoopsOK' /\ Operators
  <2>1. LoopsOK'
      BY <1>2, <1>9, LoopsKept
  <2>2. \E d : d = srv'[w] /\ CallSupported(d)
      BY <1>9, ServerSupported
  <2>3. \A x \in Workers : x # w => srv'[x] = srv[x]
      BY <1>2, <1>9, ServerStepTyped DEF TypeOK
  <2>4. Servers
      BY <1>2, <2>2, <2>3
  <2> HIDE DEF Servers, Operators
  <2> QED
      BY <1>4, <1>9, <2>1, <2>4
<1>10. ASSUME NEW a \in Admins, AdminStep(a), UNCHANGED srv
       PROVE  Servers /\ LoopsOK' /\ Operators
  <2>1. Operators
      BY <1>10, AdminSupportedNext
  <2> HIDE DEF Servers, Operators
  <2> QED
      BY <1>3, <1>10, <2>1
<1> HIDE DEF Servers, Operators, Bought
<1>11. CASE Next
  <2>1. Servers /\ LoopsOK' /\ Operators
      BY <1>3, <1>4, <1>7, <1>8, <1>9, <1>10, <1>11 DEF Next, Step
  <2>2. Step /\ Record
      BY <1>11 DEF Next
  <2>3. Bought
      BY <2>2, DocumentsAfter DEF Bought
  <2>4. Recorded' /\ Customers' /\ Grows
      BY <1>1, <1>2, <2>2, DocumentsAfter, RecordedAfter DEF TypeOK
  <2> QED
      BY <1>1, <2>1, <2>3, <2>4, CountingAfter DEF Servers, Operators, Bought
<1> QED
    BY <1>5, <1>11

\* It holds at the start, where there is nothing.
LEMMA CountingInit == Init => Counting
<1> SUFFICES ASSUME Init PROVE Counting
    OBVIOUS
<1>1. \A o \in OrderIds : orders[o] = NoDoc /\ visible[o] = NoDoc
    BY DEF Init, IndexInit
<1>2. NoDoc.userId = NoUser /\ \A b \in Books : NoDoc.items[b] = 0
    BY DEF NoDoc, NewOrder, NoItems
<1>3. Recorded /\ Customers
  <2>1. \A b \in Books : ~(NoDoc.items[b] > 0)
      BY <1>2
  <2>2. Recorded
      BY <1>1, <2>1 DEF Recorded
  <2> QED
      BY <1>1, <1>2, <2>2 DEF Customers, Init
<1>4. LoopsOK /\ \A w \in Workers : CallSupported(srv[w])
    BY DEF Init, ServerInit, Idle, LoopsOK, CallSupported, Holds, Running
<1>5. \A a \in Admins : AdminSupported(adm[a])
    BY DEF Init, AdminInit, AdminIdle, AdminSupported
<1>6. \A b \in Books : CopySupported(b, books[b])
    BY DEF Init, IndexInit, CopySupported, NoItems
<1> QED
    BY <1>3, <1>4, <1>5, <1>6 DEF Counting

\* updateBoughtWith counts what a search returned before the order is written,
\* and writes whole books back between the operator's writes; whatever the
\* interleaving, a book is counted as bought with another only if one customer
\* had the one in a placed order and the other in another order.
THEOREM BoughtWithSupported == Spec => []BoughtWithIsSupported
<1>1. Counting => BoughtWithIsSupported
  <2> SUFFICES ASSUME Counting, NEW b \in Books, NEW c \in Books, books[b].boughtWith[c] > 0
               PROVE  Supported(b, c)
      BY DEF BoughtWithIsSupported, Supported
  <2> QED
      BY DEF Counting, CopySupported
<1> QED
    BY <1>1, InitTyped, StepTyped, CountingInit, CountingStep, PTL DEF Spec

-----------------------------------------------------------------------------
(* Finite sums.  recalculateTotal adds in any order; Total is a fold that   *)
(* takes the books in one fixed order.                                     *)

\* Induction on numbers, as a least counterexample.
LEMMA LeastNumber ==
    ASSUME NEW N \in SUBSET Nat, N # {}
    PROVE  \E n \in N : n = 0 \/ n - 1 \notin N
<1>1. PICK n \in N : \A m \in N : ~(<<m, n>> \in OpToRel(<, Nat))
    BY NatLessThanWellFounded, WFMin
<1>2. \A y, z \in Nat : y < z => <<y, z>> \in OpToRel(<, Nat)
    BY DEF OpToRel
<1>3. n # 0 => n - 1 \in Nat /\ n - 1 < n
    OBVIOUS
<1> QED
    BY <1>1, <1>2, <1>3

\* Induction on finite sets, as a smallest counterexample.
LEMMA SmallestSet ==
    ASSUME NEW S, IsFiniteSet(S), NEW F \in SUBSET (SUBSET S), F # {}
    PROVE  \E s \in F : \A x \in s : s \ {x} \notin F
<1> DEFINE N == {n \in Nat : \E s \in F : Cardinality(s) = n}
<1>1. \A s \in F : Cardinality(s) \in Nat
    BY FS_Subset, FS_CardinalityType
<1>2. N # {}
    BY <1>1
<1>3. PICK n \in N : n = 0 \/ n - 1 \notin N
    <2> HIDE DEF N
    <2>1. N \in SUBSET Nat
        BY DEF N
    <2> QED
        BY <1>2, <2>1, LeastNumber
<1>4. PICK s \in F : Cardinality(s) = n
    OBVIOUS
<1>5. ASSUME NEW x \in s, s \ {x} \in F PROVE FALSE
    <2>1. IsFiniteSet(s)
        BY FS_Subset
    <2>2. Cardinality(s \ {x}) = n - 1
        BY <1>4, <2>1, FS_RemoveElement
    <2>3. n # 0
        BY <1>4, <2>1, FS_EmptySet
    <2>4. n - 1 \in Nat
        BY <2>3
    <2> QED
        BY <1>3, <1>5, <2>2, <2>3, <2>4
<1> QED
    BY <1>5

\* g gives the sum of the values of f over every subset of S.
First(S) == CHOOSE x \in S : TRUE
Adding(g, f, s) == IF s = {} THEN 0 ELSE f[First(s)] + g[s \ {First(s)}]
IsSum(g, f, S) == g = [s \in SUBSET S |-> Adding(g, f, s)]

\* The first element is an element.
LEMMA FirstIn == ASSUME NEW s, s # {} PROVE First(s) \in s
BY DEF First

\* There is such a function for every f: it is defined on ever larger subsets.
LEMMA SumExists ==
    ASSUME NEW S, IsFiniteSet(S), NEW f
    PROVE  \E g : IsSum(g, f, S)
<1> DEFINE D(n) == {s \in SUBSET S : Cardinality(s) <= n}
           UpTo(n, g) == g = [s \in D(n) |-> Adding(g, f, s)]
           N == {n \in Nat : ~\E g : UpTo(n, g)}
<1>0. \A s \in SUBSET S : IsFiniteSet(s) /\ Cardinality(s) \in Nat
    BY FS_Subset, FS_CardinalityType
<1>1. ASSUME N # {} PROVE FALSE
  <2>1. PICK n \in N : n = 0 \/ n - 1 \notin N
    <3> HIDE DEF N
    <3>1. N \in SUBSET Nat
        BY DEF N
    <3> QED
        BY <1>1, <3>1, LeastNumber
  <2>2. CASE n = 0
    <3> DEFINE g == [s \in D(n) |-> 0]
    <3>1. \A s \in D(n) : s = {}
        BY <1>0, <2>2, FS_EmptySet
    <3>2. \A s \in D(n) : Adding(g, f, s) = 0
        BY <3>1 DEF Adding
    <3>3. UpTo(n, g)
        BY <3>2
    <3> QED
        BY <3>3
  <2>3. CASE n # 0
    <3>1. n - 1 \in Nat /\ n - 1 \notin N
      <4>1. n \in Nat
          OBVIOUS
      <4> HIDE DEF N
      <4> QED
          BY <2>1, <2>3, <4>1
    <3>2. PICK h : UpTo(n - 1, h)
        BY <3>1
    <3> DEFINE g == [s \in D(n) |-> Adding(h, f, s)]
    <3>3. ASSUME NEW s \in D(n), s # {}
          PROVE  g[s \ {First(s)}] = h[s \ {First(s)}]
      <4> DEFINE u == s \ {First(s)}
      <4>1. First(s) \in s
          BY <3>3, FirstIn
      <4>2. Cardinality(u) = Cardinality(s) - 1
          BY <1>0, <4>1, FS_RemoveElement
      <4>3. u \in D(n - 1) /\ u \in D(n)
          BY <1>0, <4>2
      <4>4. g[u] = Adding(h, f, u)
          BY <4>3
      <4>5. h[u] = Adding(h, f, u)
        <5> HIDE DEF u, g
        <5>1. h = [t \in D(n - 1) |-> Adding(h, f, t)]
            BY <3>2
        <5> QED
            BY <4>3, <5>1
      <4> QED
          BY <4>4, <4>5
    <3>4. \A s \in D(n) : Adding(g, f, s) = Adding(h, f, s)
      <4> HIDE DEF g
      <4> QED
        BY <3>3 DEF Adding
    <3>5. UpTo(n, g)
        BY <3>4
    <3> QED
        BY <3>5
  <2> QED
      BY <2>2, <2>3
<1>2. Cardinality(S) \in Nat /\ D(Cardinality(S)) = SUBSET S
    BY <1>0, FS_Subset
<1>3. PICK g : UpTo(Cardinality(S), g)
    BY <1>1, <1>2
<1> QED
    BY <1>2, <1>3 DEF IsSum

\* The sum of the values of f over S.
SumOver(f, S) == (CHOOSE g : IsSum(g, f, S))[S]

\* Such a function is a number on every set, if f is one on every element.
LEMMA SumTyped ==
    ASSUME NEW S, IsFiniteSet(S), NEW f, \A x \in S : f[x] \in Nat,
           NEW g, IsSum(g, f, S), NEW s \in SUBSET S
    PROVE  g[s] \in Nat
<1> DEFINE F == {t \in SUBSET S : g[t] \notin Nat}
<1>1. ASSUME F # {} PROVE FALSE
  <2>1. PICK t \in F : \A x \in t : t \ {x} \notin F
    <3> HIDE DEF F
    <3>1. F \in SUBSET (SUBSET S)
        BY DEF F
    <3> QED
        BY <1>1, <3>1, SmallestSet
  <2>2. g[t] = Adding(g, f, t)
      BY DEF IsSum
  <2>3. CASE t = {}
      BY <2>2, <2>3 DEF Adding
  <2>4. CASE t # {}
    <3>1. First(t) \in t /\ g[t] = f[First(t)] + g[t \ {First(t)}]
        BY <2>2, <2>4, FirstIn DEF Adding
    <3>2. g[t \ {First(t)}] \in Nat
        BY <2>1, <3>1
    <3> QED
        BY <3>1, <3>2
  <2> QED
      BY <2>3, <2>4
<1> QED
    BY <1>1

\* It does not depend on the set over which it is defined, and of f only on the
\* values on that set.
LEMMA SumsAgree ==
    ASSUME NEW S, NEW T \in SUBSET S, IsFiniteSet(T), NEW e, NEW f,
           \A x \in T : e[x] = f[x],
           NEW g, IsSum(g, e, S), NEW h, IsSum(h, f, T)
    PROVE  g[T] = h[T]
<1> DEFINE F == {t \in SUBSET T : g[t] # h[t]}
<1>1. ASSUME F # {} PROVE FALSE
  <2>1. PICK t \in F : \A x \in t : t \ {x} \notin F
    <3> HIDE DEF F
    <3>1. F \in SUBSET (SUBSET T)
        BY DEF F
    <3> QED
        BY <1>1, <3>1, SmallestSet
  <2>2. t \in SUBSET S /\ g[t] = Adding(g, e, t) /\ h[t] = Adding(h, f, t)
      BY DEF IsSum
  <2>3. CASE t = {}
      BY <2>2, <2>3 DEF Adding
  <2>4. CASE t # {}
    <3>1. /\ First(t) \in t
          /\ g[t] = e[First(t)] + g[t \ {First(t)}]
          /\ h[t] = f[First(t)] + h[t \ {First(t)}]
        BY <2>2, <2>4, FirstIn DEF Adding
    <3>2. g[t \ {First(t)}] = h[t \ {First(t)}]
        BY <2>1, <3>1
    <3> QED
        BY <3>1, <3>2
  <2> QED
      BY <2>3, <2>4
<1> QED
    BY <1>1

\* The order in which the elements are added does not matter.
LEMMA SumSplits ==
    ASSUME NEW S, IsFiniteSet(S), NEW f, \A x \in S : f[x] \in Nat,
           NEW g, IsSum(g, f, S), NEW s \in SUBSET S, NEW y \in s
    PROVE  g[s] = f[y] + g[s \ {y}]
<1> DEFINE F == {t \in SUBSET S : \E x \in t : g[t] # f[x] + g[t \ {x}]}
<1>1. ASSUME F # {} PROVE FALSE
  <2>1. PICK t \in F : \A x \in t : t \ {x} \notin F
    <3> HIDE DEF F
    <3>1. F \in SUBSET (SUBSET S)
        BY DEF F
    <3> QED
        BY <1>1, <3>1, SmallestSet
  <2>2. PICK x \in t : g[t] # f[x] + g[t \ {x}]
      OBVIOUS
  <2> DEFINE c == First(t)
             both == t \ {c, x}
  <2>3. c \in t /\ g[t] = f[c] + g[t \ {c}]
    <3>1. t # {} /\ g[t] = Adding(g, f, t)
        BY <2>2 DEF IsSum
    <3> QED
        BY <3>1, FirstIn DEF Adding
  <2>4. c # x
      BY <2>2, <2>3
  <2>5. g[t \ {c}] = f[x] + g[both]
    <3>1. x \in t \ {c} /\ (t \ {c}) \ {x} = both /\ t \ {c} \in SUBSET S
        BY <2>4
    <3> HIDE DEF c, both
    <3> QED
        BY <2>1, <2>3, <3>1
  <2>6. g[t \ {x}] = f[c] + g[both]
    <3>1. c \in t \ {x} /\ (t \ {x}) \ {c} = both /\ t \ {x} \in SUBSET S
        BY <2>3, <2>4
    <3> HIDE DEF c, both
    <3> QED
        BY <2>1, <2>2, <3>1
  <2>7. f[c] \in Nat /\ f[x] \in Nat /\ g[both] \in Nat
    <3>1. c \in S /\ x \in S /\ both \in SUBSET S
        BY <2>3
    <3> HIDE DEF c, both
    <3> QED
        BY <3>1, SumTyped
  <2> HIDE DEF c, both
  <2> QED
      BY <2>2, <2>3, <2>5, <2>6, <2>7
<1>2. s \notin F
    BY <1>1
<1> QED
    BY <1>2

\* SumOver is the value of such a function.
LEMMA SumOverSums ==
    ASSUME NEW S, IsFiniteSet(S), NEW f
    PROVE  \E g : IsSum(g, f, S) /\ SumOver(f, S) = g[S]
  BY SumExists DEF SumOver

\* Nothing adds up to 0.
LEMMA SumOverEmpty == \A f : SumOver(f, {}) = 0
<1> TAKE f
<1>1. PICK g : IsSum(g, f, {}) /\ SumOver(f, {}) = g[{}]
    BY SumOverSums, FS_EmptySet
<1>2. g[{}] = Adding(g, f, {})
    BY <1>1 DEF IsSum
<1> QED
    BY <1>1, <1>2 DEF Adding

\* A sum of numbers is a number ...
LEMMA SumOverNat ==
    ASSUME NEW S, IsFiniteSet(S), NEW f, \A x \in S : f[x] \in Nat
    PROVE  SumOver(f, S) \in Nat
<1>1. PICK g : IsSum(g, f, S) /\ SumOver(f, S) = g[S]
    BY SumOverSums
<1> QED
    BY <1>1, SumTyped

\* ... which depends on the values only ...
LEMMA SumOverSame ==
    ASSUME NEW S, IsFiniteSet(S), NEW e, NEW f, \A x \in S : e[x] = f[x]
    PROVE  SumOver(e, S) = SumOver(f, S)
<1>1. PICK g : IsSum(g, e, S) /\ SumOver(e, S) = g[S]
    BY SumOverSums
<1>2. PICK h : IsSum(h, f, S) /\ SumOver(f, S) = h[S]
    BY SumOverSums
<1> QED
    BY <1>1, <1>2, SumsAgree

\* ... and grows by the value of any element that is added.
LEMMA SumOverSplits ==
    ASSUME NEW S, IsFiniteSet(S), NEW f, \A x \in S : f[x] \in Nat, NEW y \in S
    PROVE  SumOver(f, S) = f[y] + SumOver(f, S \ {y})
<1> DEFINE T == S \ {y}
<1>0. IsFiniteSet(T) /\ T \in SUBSET S
    BY FS_RemoveElement
<1> HIDE DEF T
<1>1. PICK g : IsSum(g, f, S) /\ SumOver(f, S) = g[S]
    BY SumOverSums
<1>2. PICK h : IsSum(h, f, T) /\ SumOver(f, T) = h[T]
    BY <1>0, SumOverSums
<1>3. g[T] = h[T]
    BY <1>0, <1>1, <1>2, SumsAgree
<1>4. g[S] = f[y] + g[T]
    BY <1>1, SumSplits DEF T
<1> QED
    BY <1>1, <1>2, <1>3, <1>4 DEF T

\* Zeros add up to 0.
LEMMA SumOverZeros ==
    ASSUME NEW S, IsFiniteSet(S), NEW f, \A x \in S : f[x] = 0
    PROVE  SumOver(f, S) = 0
<1> DEFINE F == {t \in SUBSET S : SumOver(f, t) # 0}
<1>1. ASSUME F # {} PROVE FALSE
  <2>1. PICK t \in F : \A x \in t : t \ {x} \notin F
    <3> HIDE DEF F
    <3>1. F \in SUBSET (SUBSET S)
        BY DEF F
    <3> QED
        BY <1>1, <3>1, SmallestSet
  <2>2. t # {} /\ IsFiniteSet(t)
      BY SumOverEmpty, FS_Subset
  <2>3. PICK x : x \in t
      BY <2>2
  <2>4. SumOver(f, t) = f[x] + SumOver(f, t \ {x})
      BY <2>2, <2>3, SumOverSplits
  <2> QED
      BY <2>1, <2>3, <2>4
<1> QED
    BY <1>1

-----------------------------------------------------------------------------
(* Subtotals.                                                              *)

Products(items, price) == [b \in Books |-> items[b] * price[b]]

\* total is what recalculateTotal has reached when the books of todo are left:
\* the sum over the other books, each at a price that it once had.
AddsUp(items, total, todo) ==
    \E price \in [Books -> Nat] :
        /\ \A b \in Books : price[b] \in priceLog[b]
        /\ total = SumOver(Products(items, price), Books \ todo)

\* The copy that a thread of the order server holds adds up, but for the books
\* that its loop has still to visit.
CallAddsUp(c) ==
    /\ c.pc = "price" => AddsUp(c.doc.items, c.doc.subtotal, c.todo)
    /\ \/ c.op = "create" /\ c.pc = "start"
       \/ c.pc # "price" /\ Holds(c)
       => AddsUp(c.doc.items, c.doc.subtotal, {})

AdminAddsUp(c) == c.pc = "writeOrder" => AddsUp(c.doc.items, c.doc.subtotal, {})

\* The inductive invariant, together with the types.
Totals ==
    /\ LoopsOK
    /\ \A b \in Books : books[b].price \in priceLog[b]
    /\ \A o \in OrderIds : AddsUp(orders[o].items, orders[o].subtotal, {})
    /\ \A w \in Workers : CallAddsUp(srv[w])
    /\ \A a \in Admins : AdminAddsUp(adm[a])

\* No price is forgotten.
LogGrows == \A b \in Books : priceLog[b] \subseteq priceLog'[b]

\* Products of numbers are numbers.
LEMMA ProductsTyped ==
    ASSUME NEW items \in Items, NEW price \in [Books -> Nat]
    PROVE  \A b \in Books : Products(items, price)[b] \in Nat
<1> TAKE b \in Books
<1>1. items[b] \in Nat /\ price[b] \in Nat
    BY DEF Items
<1>2. \A m, n \in Nat : m * n \in Nat
    OBVIOUS
<1> QED
    BY <1>1, <1>2 DEF Products

\* The fold of the model is this sum.
LEMMA TotalIsSum ==
    ASSUME NEW items, NEW price
    PROVE  Total(items, price) = SumOver(Products(items, price), Books)
<1> DEFINE S == Books
           f == Products(items, price)
<1>0. IsFiniteSet(S) /\ \A b \in S : f[b] = items[b] * price[b]
    BY BooksAssumption DEF Products
<1> HIDE DEF f
<1> DEFINE it == CHOOSE h : h = [s \in SUBSET S |-> IF s = {} THEN 0
                 ELSE items[CHOOSE x \in s : TRUE] * price[CHOOSE x \in s : TRUE]
                            + h[s \ {CHOOSE x \in s : TRUE}]]
<1>1. PICK g : IsSum(g, f, S) /\ SumOver(f, S) = g[S]
    BY <1>0, SumOverSums
<1>2. IsSum(it, f, S)
  <2>1. ASSUME NEW h
        PROVE  [s \in SUBSET S |-> IF s = {} THEN 0
                   ELSE items[CHOOSE x \in s : TRUE] * price[CHOOSE x \in s : TRUE]
                            + h[s \ {CHOOSE x \in s : TRUE}]]
                = [s \in SUBSET S |-> Adding(h, f, s)]
      BY <1>0, FirstIn DEF Adding, First
  <2>2. g = [s \in SUBSET S |-> IF s = {} THEN 0
                 ELSE items[CHOOSE x \in s : TRUE] * price[CHOOSE x \in s : TRUE]
                            + g[s \ {CHOOSE x \in s : TRUE}]]
      BY <1>1, <2>1 DEF IsSum
  <2>3. it = [s \in SUBSET S |-> IF s = {} THEN 0
                 ELSE items[CHOOSE x \in s : TRUE] * price[CHOOSE x \in s : TRUE]
                            + it[s \ {CHOOSE x \in s : TRUE}]]
      BY <2>2
  <2> HIDE DEF it
  <2> QED
      BY <2>1, <2>3 DEF IsSum
<1>3. Total(items, price) = it[S]
    BY DEF Total, MapThenSumSet, MapThenFoldSet
<1>4. it[S] = g[S]
    <2> HIDE DEF it
    <2> QED BY <1>0, <1>1, <1>2, SumsAgree
<1> QED BY <1>1, <1>3, <1>4 DEF f

\* A loop starts at 0, with the books of the order to do.
LEMMA AddsUpFromZero ==
    ASSUME TypeOK, NEW items \in Items, \A b \in Books : books[b].price \in priceLog[b]
    PROVE  AddsUp(items, 0, BooksOf(items))
<1> DEFINE price == [b \in Books |-> books[b].price]
           S == Books \ BooksOf(items)
<1>1. price \in [Books -> Nat] /\ \A b \in Books : price[b] \in priceLog[b]
    BY DEF TypeOK, IndexTypeOK, Book
<1>2. IsFiniteSet(S)
    BY BooksAssumption, FS_Subset
<1>3. \A b \in S : items[b] = 0
    BY DEF BooksOf, Items
<1> HIDE DEF S
<1>4. \A b \in S : Products(items, price)[b] = 0
  <2> TAKE b \in S
  <2>1. b \in Books /\ items[b] = 0 /\ price[b] \in Nat
      BY <1>1, <1>3 DEF S
  <2>2. Products(items, price)[b] = items[b] * price[b]
      BY <2>1 DEF Products
  <2> QED
      BY <2>1, <2>2
<1> HIDE DEF price
<1>5. SumOver(Products(items, price), S) = 0
    BY <1>2, <1>4, SumOverZeros
<1> QED
    BY <1>1, <1>5 DEF AddsUp, S

\* One book is added.
LEMMA AddsUpOneMore ==
    ASSUME TypeOK, NEW items \in Items, NEW total, NEW todo \in SUBSET Books,
           NEW b \in todo, books[b].price \in priceLog[b], AddsUp(items, total, todo)
    PROVE  AddsUp(items, total + books[b].price * items[b], todo \ {b})
<1>1. PICK old \in [Books -> Nat] :
        /\ \A c \in Books : old[c] \in priceLog[c]
        /\ total = SumOver(Products(items, old), Books \ todo)
    BY DEF AddsUp
<1> DEFINE price == [old EXCEPT ![b] = books[b].price]
           S == Books \ todo
           T == Books \ (todo \ {b})
<1>2. books[b].price \in Nat /\ items[b] \in Nat
    BY DEF TypeOK, IndexTypeOK, Book, Items
<1>3. /\ price \in [Books -> Nat] /\ price[b] = books[b].price
      /\ \A c \in Books : price[c] \in priceLog[c]
      /\ \A c \in S : price[c] = old[c]
    BY <1>1, <1>2
<1> HIDE DEF price
<1>4. IsFiniteSet(S) /\ IsFiniteSet(T) /\ b \in T /\ T \ {b} = S /\ T \subseteq Books
    BY BooksAssumption, FS_Subset
<1> HIDE DEF S, T
<1>5. \A c \in S : Products(items, price)[c] = Products(items, old)[c]
    BY <1>3 DEF Products, S
<1>6. SumOver(Products(items, price), S) = total
    BY <1>1, <1>4, <1>5, SumOverSame DEF S
<1>7. \A c \in T : Products(items, price)[c] \in Nat
    BY <1>3, <1>4, ProductsTyped
<1> DEFINE f == Products(items, price)
<1>8. f[b] = items[b] * price[b]
    BY DEF Products
<1>9. f[b] \in Nat /\ SumOver(f, S) \in Nat
    BY <1>4, <1>7, SumOverNat DEF S, T
<1>10. SumOver(f, T) = f[b] + SumOver(f, S)
    <2> HIDE DEF f
    <2>1. \A c \in T : f[c] \in Nat
        BY <1>7 DEF f
    <2> QED
        BY <1>4, <2>1, SumOverSplits
<1>11. total + books[b].price * items[b] = SumOver(f, T)
    <2> HIDE DEF f
    <2>1. books[b].price * items[b] = f[b]
        BY <1>2, <1>3, <1>8
    <2>2. SumOver(f, S) = total
        BY <1>6 DEF f
    <2> QED
        BY <1>9, <1>10, <2>1, <2>2
<1> QED
    BY <1>3, <1>11 DEF AddsUp, T

\* What adds up continues to do so.
LEMMA AddsUpStays ==
    ASSUME TypeOK, LogGrows, NEW items, NEW total, NEW todo, AddsUp(items, total, todo)
    PROVE  AddsUp(items, total, todo)'
    BY DEF AddsUp, LogGrows

\* It is enough that every copy, and every order, adds up with the prices from
\* before the step.
LEMMA TotalsAfter ==
    ASSUME TypeOK, LogGrows, LoopsOK',
           \A b \in Books : books'[b].price \in priceLog'[b],
           \A o \in OrderIds : \E doc : doc = orders'[o] /\ AddsUp(doc.items, doc.subtotal, {}),
           \A w \in Workers : \E d : d = srv'[w] /\ CallAddsUp(d),
           \A a \in Admins : \E d : d = adm'[a] /\ AdminAddsUp(d)
    PROVE  Totals'
<1>1. ASSUME NEW o \in OrderIds PROVE AddsUp(orders[o].items, orders[o].subtotal, {})'
  <2>1. PICK doc : doc = orders'[o] /\ AddsUp(doc.items, doc.subtotal, {})
      OBVIOUS
  <2>2. AddsUp(doc.items, doc.subtotal, {})'
      BY <2>1, AddsUpStays
  <2> QED
      BY <2>1, <2>2
<1>2. ASSUME NEW w \in Workers PROVE CallAddsUp(srv[w])'
  <2>1. PICK d : d = srv'[w] /\ CallAddsUp(d)
      OBVIOUS
  <2>2. CallAddsUp(d)'
      BY <2>1, AddsUpStays DEF CallAddsUp
  <2> QED
      BY <2>1, <2>2
<1>3. ASSUME NEW a \in Admins PROVE AdminAddsUp(adm[a])'
  <2>1. PICK d : d = adm'[a] /\ AdminAddsUp(d)
      OBVIOUS
  <2>2. AdminAddsUp(d)'
      BY <2>1, AddsUpStays DEF AdminAddsUp
  <2> QED
      BY <2>1, <2>2
<1> QED
    BY <1>1, <1>2, <1>3 DEF Totals

\* A thread of the order server goes on with a copy that adds up.
LEMMA ServerAddsUp ==
    ASSUME TypeOK, Totals, NEW w \in Workers, ServerStep(w)
    PROVE  \E d : d = srv'[w] /\ CallAddsUp(d)
<1> DEFINE c == srv[w]
<1>1. /\ srv \in [Workers -> Call] /\ c \in Call /\ WellFormed(c)
      /\ CallAddsUp(c) /\ LoopsOK /\ \A b \in Books : books[b].price \in priceLog[b]
    BY DEF TypeOK, ServerTypeOK, Totals
<1>2. PICK d : Continues(c, d) /\ srv' = [srv EXCEPT ![w] = d]
    BY ServerStepTyped DEF TypeOK, ServerTypeOK
<1>3. d = srv'[w] /\ d.op = c.op /\ d \in Call /\ d.doc.items \in Items
    BY <1>1, <1>2 DEF Continues, Call, Order
<1>4. CopyStep(c, d)
    BY <1>1, <1>3, ServerCopyStep
<1> SUFFICES CallAddsUp(d)
    BY <1>3
<1> HIDE DEF c
<1>5. CASE Creates(c, d) \/ Quits(c, d) \/ Writes(c, d)
  <2>1. d.pc \notin Running
      BY <1>5 DEF Creates, Quits, Writes, Finished, Running
  <2> QED
      BY <2>1 DEF CallAddsUp, Holds, Running
<1>6. CASE Recalculates(c, d)
  <2>1. AddsUp(d.doc.items, d.doc.subtotal, d.todo)
      BY <1>1, <1>3, <1>6, AddsUpFromZero DEF Recalculates
  <2>2. d.pc = "price" \/ d.todo = {}
      BY <1>6 DEF Recalculates
  <2>3. d.op # "create"
      BY <1>3, <1>6 DEF Recalculates
  <2> QED
      BY <2>1, <2>2, <2>3 DEF CallAddsUp
<1>7. CASE Restates(c, d)
  <2>1. /\ d.doc.items = orders[c.id].items /\ d.doc.subtotal = orders[c.id].subtotal
        /\ c.id \in OrderIds /\ d.pc = "write"
      BY <1>7 DEF Restates, TypeOK, IndexTypeOK, Order
  <2>2. AddsUp(d.doc.items, d.doc.subtotal, {})
      BY <2>1 DEF Totals
  <2> QED
      BY <2>1, <2>2 DEF CallAddsUp
<1>8. CASE AddsPrice(c, d)
  <2>1. PICK b \in c.todo :
            /\ d.doc = [c.doc EXCEPT !.subtotal = @ + books[b].price * c.doc.items[b]]
            /\ d.todo = c.todo \ {b}
            /\ d.pc = IF c.todo = {b} THEN "write" ELSE "price"
      BY <1>8 DEF AddsPrice
  <2>2. /\ c.pc = "price" /\ AddsUp(c.doc.items, c.doc.subtotal, c.todo)
        /\ c.doc.items \in Items /\ c.todo \in SUBSET Books
      BY <1>1, <1>8 DEF AddsPrice, CallAddsUp, Call, Order
  <2>3. /\ d.doc.items = c.doc.items
        /\ d.doc.subtotal = c.doc.subtotal + books[b].price * c.doc.items[b]
      BY <1>1, <2>1 DEF Call, Order
  <2>4. AddsUp(d.doc.items, d.doc.subtotal, d.todo)
    <3>1. books[b].price \in priceLog[b]
        BY <1>1, <2>2
    <3>2. AddsUp(c.doc.items, c.doc.subtotal + books[b].price * c.doc.items[b], c.todo \ {b})
        BY <2>2, <3>1, AddsUpOneMore
    <3> QED
        BY <2>1, <2>3, <3>2
  <2>5. (d.pc = "price" \/ d.todo = {}) /\ d.op # "create"
      BY <1>1, <1>3, <2>1, <2>2 DEF WellFormed, Running
  <2> QED
      BY <2>4, <2>5 DEF CallAddsUp
<1>9. CASE Gathers(c, d) \/ Counts(c, d)
  <2>1. /\ d.doc = c.doc /\ d.pc # "price" /\ c.op = "update" /\ c.pc # "price" /\ Holds(c)
      BY <1>9 DEF Gathers, Counts, Holds, Running
  <2>2. AddsUp(d.doc.items, d.doc.subtotal, {})
      BY <1>1, <2>1 DEF CallAddsUp
  <2> QED
      BY <2>1, <2>2 DEF CallAddsUp
<1> QED
    BY <1>4, <1>5, <1>6, <1>7, <1>8, <1>9 DEF CopyStep

\* A client's call adds up: a new order is empty, and the order that it updates
\* is one that it read.
LEMMA ClientCallAddsUp ==
    ASSUME TypeOK, Totals, NEW c \in ClientCalls
    PROVE  CallAddsUp(c)
<1>1. c.pc = "start"
    BY ClientCallStarts
<1>2. ASSUME NEW u \in Users, c = CreateCall(u) PROVE CallAddsUp(c)
  <2>1. c.doc = NewOrder(u)
      BY <1>2, StartCallTyped, Documents DEF CreateCall, Call, Ops
  <2>2. c.doc.items = NoItems /\ c.doc.subtotal = 0 /\ BooksOf(NoItems) = {}
      BY <2>1 DEF NewOrder, NoItems, BooksOf
  <2>3. AddsUp(NoItems, 0, BooksOf(NoItems))
      BY AddsUpFromZero, Documents DEF Totals
  <2> QED
      BY <1>1, <2>2, <2>3 DEF CallAddsUp
<1>3. ASSUME NEW o \in OrderIds,
             c = UpdateCall(o, [orders[o] EXCEPT !.state = "PRE_SHIPPING"])
      PROVE  CallAddsUp(c)
  <2> DEFINE doc == [orders[o] EXCEPT !.state = "PRE_SHIPPING"]
  <2>1. /\ orders[o] \in Order /\ doc \in Order
        /\ doc.subtotal = orders[o].subtotal /\ doc.items = orders[o].items
      BY DEF TypeOK, IndexTypeOK, Order, OrderStates
  <2>2. c = UpdateCall(o, doc)
      BY <1>3
  <2> HIDE DEF doc
  <2>3. c.doc = doc
      BY <2>1, <2>2, StartCallTyped DEF UpdateCall, Call, Ops
  <2>4. AddsUp(c.doc.items, c.doc.subtotal, {})
      BY <2>1, <2>3 DEF Totals
  <2> QED
      BY <1>1, <2>4 DEF CallAddsUp
<1>4. ASSUME c.op \notin {"create", "update"} PROVE CallAddsUp(c)
    BY <1>1, <1>4 DEF CallAddsUp, Holds
<1>5. ASSUME NEW u \in Users, c = GetActiveCall(u) PROVE c.op = "getActive"
    BY <1>5, CallsTyped
<1>6. ASSUME NEW o \in OrderIds,
             \/ c = GetCall(o) \/ c = CheckoutCall(o)
             \/ \E b \in Books : c = AddBookCall(o, b)
             \/ \E items \in [Books -> 0..MaxQuantity] : c = EditCartCall(o, items)
             \/ \E state \in OrderStates : c = SetStateCall(o, state)
      PROVE  c.op \notin {"create", "update"}
    BY <1>6, CallsTyped
<1>7. \/ \E u \in Users : c = CreateCall(u) \/ c = GetActiveCall(u)
      \/ \E o \in OrderIds :
            \/ c = GetCall(o) \/ c = CheckoutCall(o)
            \/ \E b \in Books : c = AddBookCall(o, b)
            \/ \E items \in [Books -> 0..MaxQuantity] : c = EditCartCall(o, items)
            \/ \E state \in OrderStates : c = SetStateCall(o, state)
      \/ \E o \in OrderIds : c = UpdateCall(o, [orders[o] EXCEPT !.state = "PRE_SHIPPING"])
    BY DEF ClientCalls
<1>8. (\E u \in Users : c = GetActiveCall(u)) => CallAddsUp(c)
    BY <1>4, <1>5
<1> QED
    BY <1>2, <1>3, <1>4, <1>6, <1>7, <1>8

\* A thread of the admin server goes on with a copy that adds up.
LEMMA AdminAddsUpNext ==
    ASSUME TypeOK, Totals, NEW a \in Admins, AdminStep(a), NEW x \in Admins
    PROVE  \E d : d = adm'[x] /\ AdminAddsUp(d)
<1>1. /\ adm \in [Admins -> AdminCall] /\ adm[a] \in AdminCall /\ AdminAddsUp(adm[x])
      /\ TakesShipping(adm[a], adm'[a]) \/ adm'[a].pc # "writeOrder"
      /\ \A y \in Admins : y # a => adm'[y] = adm[y]
    BY AdminStepEffect DEF TypeOK, AdminTypeOK, Totals, WritesShipping, AdminIdle
<1>2. CASE x # a
    BY <1>1, <1>2
<1>3. CASE x = a /\ adm'[a].pc # "writeOrder"
    BY <1>3 DEF AdminAddsUp
<1>4. CASE x = a /\ TakesShipping(adm[a], adm'[a])
  <2>1. PICK o \in OrderIds : adm'[a].doc = Shipped(orders[o])
      BY <1>4 DEF TakesShipping
  <2>2. orders[o] \in Order
      BY DEF TypeOK, IndexTypeOK
  <2>3. /\ Shipped(orders[o]).items = orders[o].items
        /\ Shipped(orders[o]).subtotal = orders[o].subtotal
      BY <2>2 DEF Shipped, Order
  <2> QED
      BY <1>4, <2>1, <2>3 DEF Totals, AdminAddsUp
<1> QED
    BY <1>1, <1>2, <1>3, <1>4

\* What any step does to the documents: an order that is written adds up, and
\* the price that is written is logged.
LEMMA DocumentsAddUp ==
    ASSUME TypeOK, Totals, Step
    PROVE  /\ LogGrows
           /\ \A b \in Books : books'[b].price \in priceLog'[b]
           /\ \A o \in OrderIds :
                \E doc : doc = orders'[o] /\ AddsUp(doc.items, doc.subtotal, {})
<1> DEFINE Logged == LogGrows /\ \A b \in Books : books'[b].price \in priceLog'[b]
           Sound == \A o \in OrderIds :
                        \E doc : doc = orders'[o] /\ AddsUp(doc.items, doc.subtotal, {})
<1>1. /\ orders \in [OrderIds -> Order] /\ books \in [Books -> Book]
      /\ priceLog \in [Books -> SUBSET Nat]
      /\ \A b \in Books : books[b].price \in priceLog[b]
      /\ \A o \in OrderIds : AddsUp(orders[o].items, orders[o].subtotal, {})
    BY DEF TypeOK, IndexTypeOK, Totals
<1>2. UNCHANGED <<books, priceLog>> => Logged
    BY <1>1 DEF LogGrows
<1>3. UNCHANGED orders => Sound
    BY <1>1
<1>4. ASSUME NEW o \in OrderIds, NEW doc, StoreOrder(o, doc),
             AddsUp(doc.items, doc.subtotal, {})
      PROVE  Logged /\ Sound
  <2>1. Sound
      BY <1>1, <1>4 DEF StoreOrder
  <2> HIDE DEF Logged, Sound
  <2> QED
      BY <1>2, <1>4, <2>1 DEF StoreOrder
<1>5. ASSUME NEW b \in Books, NEW doc, StoreBook(b, doc) PROVE Logged /\ Sound
  <2>1. Logged
      BY <1>1, <1>5 DEF StoreBook, LogGrows
  <2> HIDE DEF Logged, Sound
  <2> QED
      BY <1>3, <1>5, <2>1 DEF StoreBook
<1> SUFFICES Logged /\ Sound
    OBVIOUS
<1> HIDE DEF Logged, Sound
<1>6. CASE UNCHANGED indexVars
    BY <1>2, <1>3, <1>6 DEF indexVars
<1>7. CASE \E w \in Workers : NewCall(w) \/ TakeReply(w)
    BY <1>6, <1>7 DEF NewCall, TakeReply, Continue
<1>8. CASE \E w \in Workers : ServerStep(w)
  <2>1. PICK w \in Workers : ServerStep(w)
      BY <1>8
  <2> DEFINE c == srv[w]
             d == srv'[w]
  <2>2. c \in Call /\ CallAddsUp(c) /\ CopyStep(c, d)
      BY <2>1, ServerCopyStep DEF TypeOK, ServerTypeOK, Totals
  <2> HIDE DEF c, d
  <2>3. CASE Creates(c, d)
      BY <1>4, <2>2, <2>3 DEF Creates, CallAddsUp
  <2>4. CASE Writes(c, d)
    <3>1. AddsUp(c.doc.items, c.doc.subtotal, {})
        BY <2>2, <2>4 DEF Writes, CallAddsUp, Holds, Running
    <3> QED
        BY <1>4, <2>4, <3>1 DEF Writes
  <2>5. CASE Counts(c, d)
      BY <1>5, <2>5 DEF Counts
  <2> QED
      BY <1>6, <2>2, <2>3, <2>4, <2>5
      DEF CopyStep, Quits, Recalculates, Restates, AddsPrice, Gathers
<1>9. CASE \E a \in Admins : AdminStep(a)
  <2>1. PICK a \in Admins : AdminStep(a)
      BY <1>9
  <2>2. adm[a] \in AdminCall /\ AdminAddsUp(adm[a])
      BY DEF TypeOK, AdminTypeOK, Totals
  <2>3. CASE WriteShipped(a)
    <3>1. /\ adm[a].id \in OrderIds /\ StoreOrder(adm[a].id, adm[a].doc)
          /\ adm[a].pc = "writeOrder"
        BY <2>2, <2>3 DEF WriteShipped, TypeOK, AdminTypeOK, AdminCall
    <3> QED
        BY <1>4, <2>2, <3>1 DEF AdminAddsUp
  <2>4. CASE WritePrice(a)
    <3>1. adm[a].book \in Books /\ StoreBook(adm[a].book, adm[a].copy)
        BY <2>2, <2>4 DEF WritePrice, TypeOK, AdminTypeOK, AdminCall
    <3> QED
        BY <1>5, <3>1
  <2> QED
      BY <1>6, <2>1, <2>3, <2>4 DEF AdminStep, ReadForShipping, ReadForPrice, AdminFail
<1>10. CASE \E o \in OrderIds : Refresh(o)
    BY <1>2, <1>3, <1>10 DEF Refresh
<1> QED
    BY <1>7, <1>8, <1>9, <1>10 DEF Step

\* Totals is inductive.
LEMMA TotalsStep == TypeOK /\ Totals /\ [Next]_vars => Totals'
<1> SUFFICES ASSUME TypeOK, Totals, [Next]_vars PROVE Totals'
    OBVIOUS
<1> DEFINE Servers == \A x \in Workers : \E d : d = srv'[x] /\ CallAddsUp(d)
           Operators == \A a \in Admins : \E d : d = adm'[a] /\ AdminAddsUp(d)
           Goal == Servers /\ LoopsOK' /\ Operators
<1>1. /\ srv \in [Workers -> Call] /\ LoopsOK
      /\ \A x \in Workers : CallAddsUp(srv[x])
      /\ \A a \in Admins : AdminAddsUp(adm[a])
    BY DEF TypeOK, ServerTypeOK, Totals
<1>2. UNCHANGED srv => Servers /\ LoopsOK'
    BY <1>1 DEF LoopsOK
<1>3. UNCHANGED adm => Operators
    BY <1>1
<1>4. CASE UNCHANGED vars
  <2>1. UNCHANGED <<orders, books, priceLog, srv, adm>>
      BY <1>4 DEF vars, indexVars
  <2>2. Goal
    <3> HIDE DEF Servers, Operators
    <3> QED
        BY <1>2, <1>3, <2>1
  <2>3. LogGrows /\ \A b \in Books : books'[b].price \in priceLog'[b]
      BY <2>1 DEF LogGrows, Totals
  <2>4. \A o \in OrderIds : \E doc : doc = orders'[o] /\ AddsUp(doc.items, doc.subtotal, {})
      BY <2>1 DEF Totals
  <2> QED
      BY <2>2, <2>3, <2>4, TotalsAfter
<1>5. ASSUME NEW w \in Workers, NEW c, srv' = [srv EXCEPT ![w] = c], CallAddsUp(c),
             c.pc \in {"start", "idle"}
      PROVE  Servers /\ LoopsOK'
    BY <1>1, <1>5 DEF LoopsOK
<1>6. ASSUME NEW w \in Workers, NewCall(w) PROVE Goal
  <2>1. PICK c \in ClientCalls : Continue(w, c)
      BY <1>6 DEF NewCall
  <2>2. CallAddsUp(c) /\ c.pc = "start"
      BY ClientCallAddsUp, ClientCallStarts
  <2>3. srv' = [srv EXCEPT ![w] = c] /\ UNCHANGED adm
      BY <1>6, <2>1 DEF NewCall, Continue
  <2> HIDE DEF Servers, Operators
  <2> QED
      BY <1>3, <1>5, <2>2, <2>3
<1>7. ASSUME NEW w \in Workers, TakeReply(w) PROVE Goal
  <2>1. CallAddsUp(Idle) /\ Idle.pc = "idle"
      BY DEF Idle, CallAddsUp, Holds, Running
  <2>2. srv' = [srv EXCEPT ![w] = Idle] /\ UNCHANGED adm
      BY <1>7 DEF TakeReply, Continue
  <2> HIDE DEF Servers, Operators
  <2> QED
      BY <1>3, <1>5, <2>1, <2>2
<1>8. ASSUME NEW w \in Workers, ServerStep(w), UNCHANGED adm PROVE Goal
  <2>1. LoopsOK'
      BY <1>1, <1>8, LoopsKept
  <2>2. \E d : d = srv'[w] /\ CallAddsUp(d)
      BY <1>8, ServerAddsUp
  <2>3. \A x \in Workers : x # w => srv'[x] = srv[x]
      BY <1>1, <1>8, ServerStepTyped DEF TypeOK
  <2>4. Servers
      BY <1>1, <2>2, <2>3
  <2> HIDE DEF Servers, Operators
  <2> QED
      BY <1>3, <1>8, <2>1, <2>4
<1>9. ASSUME NEW a \in Admins, AdminStep(a), UNCHANGED srv PROVE Goal
  <2>1. Operators
      BY <1>9, AdminAddsUpNext
  <2> HIDE DEF Servers, Operators
  <2> QED
      BY <1>2, <1>9, <2>1
<1>10. UNCHANGED <<srv, adm>> => Goal
  <2> HIDE DEF Servers, Operators
  <2> QED
      BY <1>2, <1>3
<1> HIDE DEF Goal
<1>11. CASE Next
  <2>1. Goal
      BY <1>6, <1>7, <1>8, <1>9, <1>10, <1>11 DEF Next, Step
  <2>2. Step
      BY <1>11 DEF Next
  <2> QED
      BY <2>1, <2>2, DocumentsAddUp, TotalsAfter DEF Goal
<1> QED
    BY <1>4, <1>11

\* It holds at the start, where every order is empty.
LEMMA TotalsInit == Init => Totals
<1> SUFFICES ASSUME Init PROVE Totals
    OBVIOUS
<1>1. \A b \in Books : books[b].price \in priceLog[b]
    BY DEF Init, IndexInit
<1>2. AddsUp(NoItems, 0, {})
  <2>1. BooksOf(NoItems) = {}
      BY DEF BooksOf, NoItems
  <2> QED
      BY <1>1, <2>1, InitTyped, AddsUpFromZero, Documents
<1>3. \A o \in OrderIds : AddsUp(orders[o].items, orders[o].subtotal, {})
    BY <1>2 DEF Init, IndexInit, NoDoc, NewOrder
<1>4. LoopsOK /\ \A w \in Workers : CallAddsUp(srv[w])
    BY DEF Init, ServerInit, Idle, LoopsOK, CallAddsUp, Holds, Running
<1>5. \A a \in Admins : AdminAddsUp(adm[a])
    BY DEF Init, AdminInit, AdminIdle, AdminAddsUp
<1> QED
    BY <1>1, <1>3, <1>4, <1>5 DEF Totals

\* A stored subtotal is the sum over the items that are stored with it, at
\* prices that the books once had: threads of the order server may overwrite
\* each other's order, and the operator change prices within a loop, but no
\* order is left with the items of one write and the subtotal of another.
THEOREM SubtotalCorrect == Spec => []SubtotalIsATotal
<1>1. TypeOK /\ Totals => SubtotalIsATotal
  <2> SUFFICES ASSUME TypeOK, Totals, NEW o \in OrderIds
               PROVE  \E price \in [Books -> UNION {priceLog[b] : b \in Books}] :
                        /\ \A b \in Books : price[b] \in priceLog[b]
                        /\ orders[o].subtotal = Total(orders[o].items, price)
      BY DEF SubtotalIsATotal
  <2> DEFINE items == orders[o].items
  <2>1. PICK price \in [Books -> Nat] :
            /\ \A b \in Books : price[b] \in priceLog[b]
            /\ orders[o].subtotal = SumOver(Products(items, price), Books \ {})
      BY DEF Totals, AddsUp
  <2>2. price \in [Books -> UNION {priceLog[b] : b \in Books}]
      BY <2>1
  <2>3. Total(items, price) = SumOver(Products(items, price), Books)
      BY TotalIsSum
  <2> QED
      BY <2>1, <2>2, <2>3
<1> QED
    BY <1>1, InitTyped, StepTyped, TotalsInit, TotalsStep, PTL DEF Spec
=============================================================================
