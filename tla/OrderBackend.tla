---------------------------- MODULE OrderBackend ----------------------------
(***************************************************************************)
(* The order server and the admin server on their own, called by arbitrary *)
(* clients: what holds here owes nothing to the discipline of the          *)
(* storefront's controllers.  A client may make any call of                *)
(* OrderRestEndpoint at any time; an order that it updates is one that it  *)
(* has read, with the changes of finalizeOrder.                            *)
(***************************************************************************)
EXTENDS OrderServer, AdminServer

CONSTANT ClientOps   \* the calls the clients make (bounds a run)

ASSUME ClientOpsAssumption == ClientOps \subseteq Ops \ {"none"}

VARIABLES
    everIn,          \* history: <<o, b>> when book b ever was in order o
    everPlacedWith   \* history: the same, of placed orders only

historyVars == <<everIn, everPlacedWith>>
vars == <<indexVars, srv, adm, historyVars>>

\* Any call a client can make.
ClientCalls ==
    {CreateCall(u) : u \in Users} \cup {GetActiveCall(u) : u \in Users}
    \cup {GetCall(o) : o \in OrderIds} \cup {CheckoutCall(o) : o \in OrderIds}
    \cup {AddBookCall(o, b) : o \in OrderIds, b \in Books}
    \cup {EditCartCall(o, items) : o \in OrderIds, items \in [Books -> 0..MaxQuantity]}
    \cup {SetStateCall(o, state) : o \in OrderIds, state \in OrderStates}
    \cup {UpdateCall(o, [orders[o] EXCEPT !.state = "PRE_SHIPPING"]) :
            o \in {p \in OrderIds : Present(p)}}

NewCall(w) ==
    /\ srv[w] = Idle
    /\ \E c \in ClientCalls : c.op \in ClientOps /\ Continue(w, c)
    /\ UNCHANGED adm

TakeReply(w) ==
    /\ srv[w].pc \in Finished
    /\ Continue(w, Idle)
    /\ UNCHANGED adm

InIndex(docs) == {x \in OrderIds \X Books : docs[x[1]].items[x[2]] > 0}

Init ==
    /\ IndexInit /\ ServerInit /\ AdminInit
    /\ everIn = {} /\ everPlacedWith = {}

Step ==
    \/ \E w \in Workers : NewCall(w)
    \/ \E w \in Workers : TakeReply(w)
    \/ \E w \in Workers : ServerStep(w) /\ UNCHANGED adm
    \/ \E a \in Admins : AdminStep(a) /\ UNCHANGED srv
    \/ \E o \in OrderIds : Refresh(o) /\ UNCHANGED <<srv, adm>>

Record ==
    /\ everIn' = everIn \cup InIndex(orders')
    /\ everPlacedWith' = everPlacedWith \cup
            {x \in InIndex(orders') : orders'[x[1]].state \in PlacedStates}

Next == Step /\ Record

Spec == Init /\ [][Next]_vars

-----------------------------------------------------------------------------
\* Every variable stays in its type.
TypeOK ==
    /\ IndexTypeOK /\ ServerTypeOK /\ AdminTypeOK
    /\ everIn \in SUBSET (OrderIds \X Books)
    /\ everPlacedWith \in SUBSET everIn

Total(items, price) == MapThenSumSet(LAMBDA b : items[b] * price[b], Books)

\* recalculateTotal reads the prices one by one and the order is written later
\* by whoever comes last, but items and subtotal never come apart: a stored
\* subtotal is the sum over the stored items, at prices the books once had.
SubtotalIsATotal ==
    \A o \in OrderIds :
        \E price \in [Books -> UNION {priceLog[b] : b \in Books}] :
            /\ \A b \in Books : price[b] \in priceLog[b]
            /\ orders[o].subtotal = Total(orders[o].items, price)

\* updateBoughtWith runs before the order it counts is written, and on what a
\* search returned: still, book c is counted as bought with book b only if one
\* user had b in a placed order and c in another order.
BoughtWithIsSupported ==
    \A b, c \in Books :
        books[b].boughtWith[c] > 0 =>
            /\ b # c
            /\ \E o, p \in OrderIds :
                /\ o # p /\ orders[o].userId = orders[p].userId
                /\ <<o, b>> \in everPlacedWith /\ <<p, c>> \in everIn
=============================================================================
