--------------------------- MODULE StorefrontProps --------------------------
(***************************************************************************)
(* What the storefront keeps to, whatever its tabs, sessions, late answers *)
(* and failures do; and, at the end, what a comment of the code says that  *)
(* it does not keep to.                                                    *)
(***************************************************************************)
EXTENDS Storefront

\* Types; and no request compares totals before a payment page was shown.
TypeOK ==
    /\ IndexTypeOK /\ ServerTypeOK /\ AdminTypeOK
    /\ session \in [Sessions -> Session]
    /\ req \in [Tabs -> Request]
    /\ shown \in SUBSET (Sessions \X Nat)
    /\ payments \in SUBSET (Sessions \X OrderIds)
    /\ \A t \in Tabs : req[t].at \in {"precheck", "checkout", "recheck"}
                         => req[t].totalSave # NoTotal

Owns(s, o) == orders[o].userId = SessionUser[s]

\* The order a session holds active, the order a request works on and the order
\* a payment is for always belong to the customer of that session.  No server
\* checks it: it rests on the search of getActiveOrder and on the way the order
\* id travels through the session.
CustomersKeepToTheirOrders ==
    /\ \A s \in Sessions : session[s].activeOrderId # NoOrder
                             => Owns(s, session[s].activeOrderId)
    /\ \A t \in Tabs : req[t].orderId # NoOrder
                             => Owns(TabSession[t], req[t].orderId)
    /\ \A p \in payments : Owns(p[1], p[2])

\* A shipped order was placed before, though setShipped decides on a copy that
\* others may have overwritten when it is written back.
ShippedWasPlaced ==
    \A o \in OrderIds : orders[o].state = "SHIPPED" => o \in placed

\* An order is placed only if its customer had a payment accepted before: with
\* any number of tabs, paymentSuccess is TRUE only after an acceptance.
PlacedAfterPayment ==
    \A o \in placed : \E p \in payments : SessionUser[p[1]] = orders[o].userId

\* With one tab per session, the payment was for that very order: between the
\* acceptance and saveOrder, paymentSuccess and activeOrderId stay together,
\* across failed calls, late answers and other sessions of the customer.
PlacedWasPaidFor ==
    \A o \in placed : \E p \in payments : p[2] = o

\* The amount that the payment service accepts was displayed on a payment page
\* of that session: a price or cart that changed in between leads back to the
\* cart.
PaidAmountWasShown ==
    [][\A t \in Tabs :
            req[t].at = "recheck" /\ req'[t].at = "redirect"
                => <<TabSession[t], Reply(t).doc.subtotal>> \in shown]_vars

-----------------------------------------------------------------------------
\* The state of each order in the index, as the shop's promises see it.
Lifecycle == INSTANCE OrderLifecycle WITH
    state <- [o \in OrderIds |-> IF Present(o) THEN orders[o].state ELSE "none"]

\* As long as calls on one order do not overlap, orders follow the lifecycle:
\* of the handlers only setOrderState checks the state of an order, and yet no
\* order is placed twice, reopened or checked out once it is placed, however
\* late a search sees it and whichever calls fail.
OrdersFollowLifecycle == Lifecycle!Spec

-----------------------------------------------------------------------------
ContentsOf(doc) == <<doc.userId, doc.items, doc.subtotal>>

\* An order is settled when it is placed, a search sees it so, no session, no
\* request and no call in the order server (a late one included) holds it, and
\* what the admin server holds of it is its present contents.
Settled(o) ==
    /\ orders[o].state \in PlacedStates
    /\ visible[o].state \in PlacedStates
    /\ \A s \in Sessions : session[s].activeOrderId # o
    /\ \A t \in Tabs : req[t].orderId # o
    /\ \A w \in Workers : srv[w].id # o
    /\ \A a \in Admins : adm[a].id = o =>
            /\ adm[a].doc.state \in {orders[o].state, "SHIPPED"}
            /\ ContentsOf(adm[a].doc) = ContentsOf(orders[o])

\* A settled order stays settled, its customer, items and subtotal never change
\* and its state only becomes SHIPPED: though no handler of the order server
\* but setOrderState looks at the state of an order before it changes it,
\* nothing can reach a settled order.
SettledOrdersAreFinal ==
    [][\A o \in OrderIds : Settled(o) =>
            /\ Settled(o)'
            /\ ContentsOf(orders'[o]) = ContentsOf(orders[o])
            /\ orders'[o].state \in {orders[o].state, "SHIPPED"}]_vars

-----------------------------------------------------------------------------
\* "order becomes non editable" (OrderController): the items of an order that
\* was placed do not change.
PlacedOrdersAreNotEdited ==
    [][\A o \in placed : orders'[o].items = orders[o].items]_vars
=============================================================================
