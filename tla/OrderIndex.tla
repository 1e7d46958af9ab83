----------------------------- MODULE OrderIndex -----------------------------
(***************************************************************************)
(* The documents of the shop and the two Elasticsearch indices that hold   *)
(* them, gutenberg-orders and gutenberg-books.  Elasticsearch is not part  *)
(* of the repository; it is modelled from the three calls the servers make *)
(* on it:                                                                  *)
(*   - get and update by id act on the current document, one document at a *)
(*     time (there is no transaction over two documents);                  *)
(*   - a search sees `visible`, the version of each document at the last   *)
(*     refresh of its shard.  initOrders.json asks for two shards, so two  *)
(*     orders need not become visible in the order they were written.      *)
(* A document is stored whole: doUpdateOrder and doUpdateBook send every   *)
(* field of the object they hold, so the last writer wins.                 *)
(***************************************************************************)
EXTENDS Integers, FiniteSets, FiniteSetsExt

CONSTANTS
    Users,           \* ids in gutenberg-users
    NoUser,          \* marks a document that does not exist
    Books,           \* ids in gutenberg-books
    NoBook,          \* the null book id
    OrderIds,        \* ids Elasticsearch can generate (bounds the orders)
    NoOrder,         \* the null order id
    Prices,          \* prices in cents
    MaxQuantity,     \* bound on the quantity of one item
    MaxBoughtWith    \* bound on a boughtWith counter

ASSUME NoUserAssumption == NoUser \notin Users
ASSUME NoBookAssumption == NoBook \notin Books
\* A cart and the index of books are finite, so a total is a finite sum.
ASSUME BooksAssumption == IsFiniteSet(Books)
ASSUME NoOrderAssumption == NoOrder \notin OrderIds
ASSUME PricesAssumption == Prices \subseteq Nat
ASSUME BoundsAssumption == MaxQuantity \in Nat /\ MaxBoughtWith \in Nat

VARIABLES
    orders,          \* gutenberg-orders: the current documents
    visible,         \* the documents as a search sees them
    books,           \* gutenberg-books: price and boughtWith of each book
    placed,          \* history: orders ever stored as PRE_SHIPPING
    priceLog         \* history: the prices each book ever had

indexVars == <<orders, visible, books, placed, priceLog>>

-----------------------------------------------------------------------------
OrderStates == {"CART", "PRE_AUTHORIZE", "PRE_SHIPPING", "SHIPPED"}
PlacedStates == {"PRE_SHIPPING", "SHIPPED"}
ActiveStates == OrderStates \ PlacedStates

\* lineItems: the quantity of each book, 0 when there is no line for it.
Items == [Books -> Nat]
NoItems == [b \in Books |-> 0]

Order == [userId: Users \cup {NoUser}, state: OrderStates,
          items: Items, subtotal: Nat]
NewOrder(u) == [userId |-> u, state |-> "CART",
                items |-> NoItems, subtotal |-> 0]
NoDoc == NewOrder(NoUser)

Book == [price: Nat, boughtWith: [Books -> Nat]]
NoCopy == [price |-> 0, boughtWith |-> NoItems]

IndexTypeOK ==
    /\ orders \in [OrderIds -> Order]
    /\ visible \in [OrderIds -> Order]
    /\ books \in [Books -> Book]
    /\ placed \in SUBSET OrderIds
    /\ priceLog \in [Books -> SUBSET Nat]

IndexInit ==
    /\ orders = [o \in OrderIds |-> NoDoc]
    /\ visible = orders
    /\ books \in [Books -> [price: Prices, boughtWith: {NoItems}]]
    /\ placed = {}
    /\ priceLog = [b \in Books |-> {books[b].price}]

-----------------------------------------------------------------------------
Present(o) == orders[o].userId # NoUser

BooksOf(items) == {b \in Books : items[b] > 0}

\* doUpdateOrder, or the index request of a new order.
StoreOrder(o, doc) ==
    /\ orders' = [orders EXCEPT ![o] = doc]
    /\ placed' = IF doc.state = "PRE_SHIPPING" THEN placed \cup {o} ELSE placed
    /\ UNCHANGED <<visible, books, priceLog>>

\* doUpdateBook.
StoreBook(b, doc) ==
    /\ books' = [books EXCEPT ![b] = doc]
    /\ priceLog' = [priceLog EXCEPT ![b] = @ \cup {doc.price}]
    /\ UNCHANGED <<orders, visible, placed>>

\* The orders of user u that a search finds in one of the given states.
Hits(u, states) ==
    {o \in OrderIds : visible[o].userId = u /\ visible[o].state \in states}

\* The shard of order o is refreshed: searches see its current version.
Refresh(o) ==
    /\ visible[o] # orders[o]
    /\ visible' = [visible EXCEPT ![o] = orders[o]]
    /\ UNCHANGED <<orders, books, placed, priceLog>>
=============================================================================
