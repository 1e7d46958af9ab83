---------------------------- MODULE AdminServer -----------------------------
(***************************************************************************)
(* admin-server: the two calls of AdminRestEndpoint, each a get of a whole *)
(* document followed by an update with the whole document.  The server     *)
(* works on the same indices as the other servers and is called by an      *)
(* operator, at any time and for any order or book.                        *)
(***************************************************************************)
EXTENDS OrderIndex

CONSTANTS
    Admins,          \* threads of the admin server
    AdminOps         \* the calls the operator makes (bounds a run)

ASSUME AdminOpsAssumption == AdminOps \subseteq {"setShipped", "setBookPrice"}

VARIABLE adm         \* adm[a]: the call that thread a serves

AdminCall == [pc: {"idle", "writeOrder", "writeBook"},
              id: OrderIds \cup {NoOrder},
              doc: Order,
              book: Books \cup {NoBook},
              copy: Book]

AdminIdle == [pc |-> "idle", id |-> NoOrder, doc |-> NoDoc, book |-> NoBook,
              copy |-> NoCopy]

\* The order that setShipped writes: shipped only if it was placed.
AlwaysShipped(doc) == [doc EXCEPT !.state = "SHIPPED"]      \* mutant
Shipped(doc) ==
    IF doc.state = "PRE_SHIPPING" THEN [doc EXCEPT !.state = "SHIPPED"] ELSE doc

\* setShipped reads the order; the state changes only from PRE_SHIPPING, but
\* the document is written back in every case.
ReadForShipping(a, o) ==
    /\ "setShipped" \in AdminOps
    /\ adm[a].pc = "idle"
    /\ Present(o)
    /\ adm' = [adm EXCEPT ![a].pc = "writeOrder", ![a].id = o,
                          ![a].doc = Shipped(orders[o])]
    /\ UNCHANGED indexVars

WriteShipped(a) ==
    /\ adm[a].pc = "writeOrder"
    /\ StoreOrder(adm[a].id, adm[a].doc)
    /\ adm' = [adm EXCEPT ![a] = AdminIdle]

\* setBookPrice reads the book ...
ReadForPrice(a, b, price) ==
    /\ "setBookPrice" \in AdminOps
    /\ adm[a].pc = "idle"
    /\ adm' = [adm EXCEPT ![a].pc = "writeBook", ![a].book = b,
                          ![a].copy = [books[b] EXCEPT !.price = price]]
    /\ UNCHANGED indexVars

\* ... and writes it back whole, its boughtWith included.
WritePrice(a) ==
    /\ adm[a].pc = "writeBook"
    /\ StoreBook(adm[a].book, adm[a].copy)
    /\ adm' = [adm EXCEPT ![a] = AdminIdle]

\* A failed get or update, or an unknown id: nothing is written.
AdminFail(a) ==
    /\ adm[a].pc # "idle"
    /\ adm' = [adm EXCEPT ![a] = AdminIdle]
    /\ UNCHANGED indexVars

AdminStep(a) ==
    \/ \E o \in OrderIds : ReadForShipping(a, o)
    \/ \E b \in Books, price \in Prices : ReadForPrice(a, b, price)
    \/ WriteShipped(a) \/ WritePrice(a) \/ AdminFail(a)

AdminTypeOK ==
    /\ adm \in [Admins -> AdminCall]
    /\ \A a \in Admins :
        /\ adm[a].pc = "writeOrder" <=> adm[a].id # NoOrder
        /\ adm[a].pc = "writeBook" => adm[a].book # NoBook
AdminInit == adm = [a \in Admins |-> AdminIdle]
=============================================================================
