----------------------------- MODULE Storefront -----------------------------
(***************************************************************************)
(* frontend-server together with the servers it calls: OrderController,    *)
(* PaymentController, OrderUtilsImpl and OrderServiceImpl of the frontend, *)
(* the order server behind the gateway, and the admin server beside them.  *)
(*                                                                         *)
(* A browser session keeps three attributes that matter here:              *)
(* activeOrderId, total and paymentSuccess.  Nothing serialises the        *)
(* requests of a session, nor the sessions of a user: every Tab sends its  *)
(* own requests, TabSession says which session it belongs to.  A handler   *)
(* runs without interruption between two remote calls, except where a      *)
(* comment says otherwise.                                                 *)
(***************************************************************************)
EXTENDS OrderServer, AdminServer

CONSTANTS
    Sessions,        \* HTTP sessions
    Tabs,            \* sources of concurrent requests
    NoWorker,
    SessionUser,     \* the logged user of each session
    TabSession,      \* the session each tab uses
    Kinds            \* the requests the tabs send

ASSUME NoWorkerAssumption == NoWorker \notin Workers
ASSUME KindsAssumption ==
    Kinds \subseteq {"getCart", "addToCart", "editCart", "payment", "authorize"}
ASSUME SessionUserAssumption == SessionUser \in [Sessions -> Users]
ASSUME TabSessionAssumption == TabSession \in [Tabs -> Sessions]

VARIABLES
    session,         \* session[s]: its attributes
    req,             \* req[t]: the request that tab t waits for
    shown,           \* history: totals displayed on a payment page
    payments         \* history: the session and order of each accepted payment

frontVars == <<session, req, shown, payments>>
vars == <<indexVars, srv, adm, frontVars>>
\* What a step of the frontend leaves alone.
backVars == <<indexVars, adm>>

NoTotal == -1

Session == [activeOrderId: OrderIds \cup {NoOrder},
            total: Nat \cup {NoTotal},
            paymentSuccess: {"null", "true", "false"}]
NewSession == [activeOrderId |-> NoOrder, total |-> NoTotal,
               paymentSuccess |-> "null"]

\* The remote call a request waits for, named for what its reply is used for;
\* "redirect": the browser was told to GET /payment; "clear": see Placed.
Waiting == {"lookup", "create", "add", "edit", "order", "save", "reset",
            "precheck", "checkout", "recheck", "deny", "mismatch"}

Request == [at: {"idle", "redirect", "clear"} \cup Waiting,
            kind: Kinds \cup {"none", "payment"},
            redirected: BOOLEAN,
            orderId: OrderIds \cup {NoOrder},
            totalSave: Nat \cup {NoTotal},
            worker: Workers \cup {NoWorker}]
NoRequest == [at |-> "idle", kind |-> "none", redirected |-> FALSE,
              orderId |-> NoOrder, totalSave |-> NoTotal, worker |-> NoWorker]

Sess(t) == session[TabSession[t]]
UserOf(t) == SessionUser[TabSession[t]]

StorefrontInit ==
    /\ IndexInit /\ ServerInit /\ AdminInit
    /\ session = [s \in Sessions |-> NewSession]
    /\ req = [t \in Tabs |-> NoRequest]
    /\ shown = {}
    /\ payments = {}

-----------------------------------------------------------------------------
(* Remote calls through the gateway.                                       *)

\* The threads that are free once the request r has taken its reply.
Free(r) == {w \in Workers : srv[w] = Idle \/ w = r.worker}

\* The reply to request r has been read and its thread is free again.
Released(r) == IF r.worker = NoWorker THEN srv
                                      ELSE [srv EXCEPT ![r.worker] = Idle]

\* Request r of tab t goes on with call c and waits for its reply at `at`.
Send(t, r, c, at) ==
    \E w \in Free(r) :
        /\ srv' = [Released(r) EXCEPT ![w] = c]
        /\ req' = [req EXCEPT ![t] = [r EXCEPT !.at = at, !.worker = w]]

\* Request r of tab t ends; `at` is "idle", or "redirect" to /payment.
End(t, r, at) ==
    /\ srv' = Released(r)
    /\ req' = [req EXCEPT ![t] = [NoRequest EXCEPT !.at = at]]

\* Tab t waits at `at` and the reply is there.
Replied(t, at, outcomes) ==
    /\ req[t].at = at
    /\ req[t].worker # NoWorker
    /\ srv[req[t].worker].pc \in outcomes

Reply(t) == srv[req[t].worker]

SetSession(t, attributes) ==
    session' = [session EXCEPT ![TabSession[t]] = attributes]

-----------------------------------------------------------------------------
(* OrderUtilsImpl.getActiveOrderId, with which every handler begins.       *)

\* No payment page was shown in this session: authorizePayment fails on
\* (int) null.
NeverMissing(t) == FALSE            \* mutant: the null total goes through
TotalMissing(t) == Sess(t).total = NoTotal

\* What each handler does once it knows its order o.
Dispatch(t, r, o) ==
    LET q == [r EXCEPT !.orderId = o]
    IN  \/ /\ r.kind = "getCart"
           /\ End(t, q, "idle")
        \/ /\ r.kind = "addToCart"
           /\ \E b \in Books : Send(t, q, AddBookCall(o, b), "add")
        \/ /\ r.kind = "editCart"
           /\ \E items \in [Books -> 0..MaxQuantity] :
                Send(t, q, EditCartCall(o, items), "edit")
        \/ /\ r.kind = "payment"
           /\ Send(t, q, GetCall(o), "order")
        \/ /\ r.kind = "authorize" /\ TotalMissing(t)
           /\ End(t, q, "idle")
        \/ /\ r.kind = "authorize" /\ ~TotalMissing(t)
           /\ Send(t, [q EXCEPT !.totalSave = Sess(t).total], GetCall(o), "precheck")

\* A request arrives; the order id is in the session, or has to be looked up.
Begin(t, kind, redirected) ==
    /\ LET r == [NoRequest EXCEPT !.kind = kind, !.redirected = redirected]
           active == Sess(t).activeOrderId
       IN  \/ active # NoOrder /\ Dispatch(t, r, active)
           \/ active = NoOrder /\ Send(t, r, GetActiveCall(UserOf(t)), "lookup")
    /\ UNCHANGED <<session, shown, payments, backVars>>

NewRequest(t) ==
    /\ req[t].at = "idle"
    /\ \E kind \in Kinds : Begin(t, kind, FALSE)

\* The browser follows the redirection that ended authorizePayment ...
FollowRedirect(t) ==
    /\ req[t].at = "redirect"
    /\ Begin(t, "payment", TRUE)

\* ... or the user closes the page before it does.
LeaveRedirect(t) ==
    /\ req[t].at = "redirect"
    /\ End(t, req[t], "idle")
    /\ UNCHANGED <<session, shown, payments, backVars>>

\* A persisted active order was found, or a new one was created: it becomes
\* the session's, whatever another tab has stored there meanwhile.
ActiveOrderKnown(t) ==
    /\ Replied(t, "lookup", {"done"}) \/ Replied(t, "create", {"done"})
    /\ LET o == Reply(t).id
       IN  /\ SetSession(t, [Sess(t) EXCEPT !.activeOrderId = o])
           /\ Dispatch(t, req[t], o)
    /\ UNCHANGED <<shown, payments, backVars>>

\* "no persisted active order found, create a new order"
CreateActiveOrder(t) ==
    /\ Replied(t, "lookup", {"notFound"})
    /\ Send(t, req[t], CreateCall(UserOf(t)), "create")
    /\ UNCHANGED <<session, shown, payments, backVars>>

-----------------------------------------------------------------------------
(* OrderController: the cart, and the payment page.                        *)

\* addToCart, POST /editCart and a denied payment end with their last call.
Finish(t) ==
    /\ \E at \in {"add", "edit", "reset", "mismatch"} : Replied(t, at, {"done"})
    /\ End(t, req[t], "idle")
    /\ UNCHANGED <<session, shown, payments, backVars>>

\* GET /payment has read the order: its subtotal becomes the session's total,
\* and paymentSuccess says what else happens.  The order that is saved is the
\* one read here.
PaymentPage(t) ==
    /\ Replied(t, "order", {"done"})
    /\ LET order == Reply(t).doc
           o == req[t].orderId
       IN  /\ SetSession(t, [Sess(t) EXCEPT !.total = order.subtotal])
           /\ shown' = shown \cup {<<TabSession[t], order.subtotal>>}
           /\ \/ /\ Sess(t).paymentSuccess = "null"
                 /\ End(t, req[t], "idle")
              \/ /\ Sess(t).paymentSuccess = "true"
                 /\ Send(t, req[t],
                         UpdateCall(o, [order EXCEPT !.state = "PRE_SHIPPING"]),
                         "save")
              \/ /\ Sess(t).paymentSuccess = "false"
                 /\ Send(t, req[t], SetStateCall(o, "CART"), "reset")
    /\ UNCHANGED <<payments, backVars>>

\* The order is saved: invalidActiveOrderId ...
Placed(t) ==
    /\ Replied(t, "save", {"done"})
    /\ SetSession(t, [Sess(t) EXCEPT !.activeOrderId = NoOrder])
    /\ End(t, req[t], "clear")
    /\ UNCHANGED <<shown, payments, backVars>>

\* ... and then paymentSuccess = null; another tab can run between the two.
KeepPayment(t) ==                   \* mutant: paymentSuccess is not cleared
    /\ req[t].at = "clear"
    /\ End(t, req[t], "idle")
    /\ UNCHANGED <<session, shown, payments, backVars>>
ClearPayment(t) ==
    /\ req[t].at = "clear"
    /\ SetSession(t, [Sess(t) EXCEPT !.paymentSuccess = "null"])
    /\ End(t, req[t], "idle")
    /\ UNCHANGED <<shown, payments, backVars>>

-----------------------------------------------------------------------------
(* PaymentController.authorizePayment.                                     *)

\* The order was read: checkoutOrder if it is a cart, else on to the recheck.
CheckOut(t) ==
    /\ Replied(t, "precheck", {"done"})
    /\ \/ /\ Reply(t).doc.state = "CART"
          /\ Send(t, req[t], CheckoutCall(req[t].orderId), "checkout")
       \/ /\ Reply(t).doc.state # "CART"
          /\ Send(t, req[t], GetCall(req[t].orderId), "recheck")
    /\ UNCHANGED <<session, shown, payments, backVars>>

CheckedOut(t) ==
    /\ Replied(t, "checkout", {"done"})
    /\ Send(t, req[t], GetCall(req[t].orderId), "recheck")
    /\ UNCHANGED <<session, shown, payments, backVars>>

\* The order was read again and its subtotal is the total of the session: the
\* payment service accepts the card ...
AcceptAnyTotal(t) ==                \* mutant: the totals are not compared
    /\ Replied(t, "recheck", {"done"})
    /\ payments' = payments \cup {<<TabSession[t], req[t].orderId>>}
    /\ SetSession(t, [Sess(t) EXCEPT !.paymentSuccess = "true"])
    /\ End(t, req[t], "redirect")
    /\ UNCHANGED <<shown, backVars>>
Accept(t) ==
    /\ Replied(t, "recheck", {"done"})
    /\ req[t].totalSave = Reply(t).doc.subtotal
    /\ payments' = payments \cup {<<TabSession[t], req[t].orderId>>}
    /\ SetSession(t, [Sess(t) EXCEPT !.paymentSuccess = "true"])
    /\ End(t, req[t], "redirect")
    /\ UNCHANGED <<shown, backVars>>

\* ... or refuses it, and the order becomes a cart again.
Refuse(t) ==
    /\ Replied(t, "recheck", {"done"})
    /\ req[t].totalSave = Reply(t).doc.subtotal
    /\ Send(t, req[t], SetStateCall(req[t].orderId, "CART"), "deny")
    /\ UNCHANGED <<session, shown, payments, backVars>>

\* The total has changed since the payment page was shown.
TotalChanged(t) ==
    /\ Replied(t, "recheck", {"done"})
    /\ req[t].totalSave # Reply(t).doc.subtotal
    /\ Send(t, req[t], SetStateCall(req[t].orderId, "CART"), "mismatch")
    /\ UNCHANGED <<session, shown, payments, backVars>>

\* The cart is back and the result goes into the session.
DeniedAsSuccess(t) ==               \* mutant: the wrong result is kept
    /\ Replied(t, "deny", {"done"})
    /\ SetSession(t, [Sess(t) EXCEPT !.paymentSuccess = "true"])
    /\ End(t, req[t], "redirect")
    /\ UNCHANGED <<shown, payments, backVars>>
Denied(t) ==
    /\ Replied(t, "deny", {"done"})
    /\ SetSession(t, [Sess(t) EXCEPT !.paymentSuccess = "false"])
    /\ End(t, req[t], "redirect")
    /\ UNCHANGED <<shown, payments, backVars>>

-----------------------------------------------------------------------------
(* Failures and sessions.                                                  *)

\* An error status becomes an exception, and the request an error page.  Only
\* the 404 of getActiveOrder is not an error.
CallFailed(t) ==
    /\ \E at \in Waiting :
        \/ Replied(t, at, {"failed"})
        \/ at # "lookup" /\ Replied(t, at, {"notFound"})
    /\ End(t, req[t], "idle")
    /\ UNCHANGED <<session, shown, payments, backVars>>

\* The gateway's response-timeout: the client gets an error, the order server
\* goes on with the call and may still write.
Timeout(t) ==
    /\ "timeout" \in Faults
    /\ req[t].worker # NoWorker
    /\ req' = [req EXCEPT ![t] = NoRequest]
    /\ UNCHANGED <<srv, session, shown, payments, backVars>>

\* Nobody waits for the reply of thread w any more.
DropReply(w) ==
    /\ srv[w].pc \in Finished
    /\ \A t \in Tabs : req[t].worker # w
    /\ srv' = [srv EXCEPT ![w] = Idle]
    /\ UNCHANGED <<frontVars, backVars>>

\* Log out or session expiry, and a new login in the same browser.
NewLogin(s) ==
    /\ \A t \in Tabs : TabSession[t] = s => req[t].at = "idle"
    /\ session[s] # NewSession
    /\ session' = [session EXCEPT ![s] = NewSession]
    /\ UNCHANGED <<srv, req, shown, payments, backVars>>

TabStep(t) ==
    \/ NewRequest(t) \/ FollowRedirect(t) \/ LeaveRedirect(t)
    \/ ActiveOrderKnown(t) \/ CreateActiveOrder(t) \/ Finish(t)
    \/ PaymentPage(t) \/ Placed(t) \/ ClearPayment(t)
    \/ CheckOut(t) \/ CheckedOut(t) \/ Accept(t) \/ Refuse(t)
    \/ TotalChanged(t) \/ Denied(t) \/ CallFailed(t) \/ Timeout(t)

Next ==
    \/ \E t \in Tabs : TabStep(t)
    \/ \E w \in Workers : DropReply(w)
    \/ \E s \in Sessions : NewLogin(s)
    \/ \E w \in Workers : ServerStep(w) /\ UNCHANGED <<adm, frontVars>>
    \/ \E a \in Admins : AdminStep(a) /\ UNCHANGED <<srv, frontVars>>
    \/ \E o \in OrderIds : Refresh(o) /\ UNCHANGED <<srv, adm, frontVars>>

Spec == StorefrontInit /\ [][Next]_vars
=============================================================================
