-------------------------- MODULE StorefrontProofs --------------------------
(***************************************************************************)
(* The type invariant of the storefront.  It is not inductive: that the    *)
(* reply a request takes has an order, or that a finished thread is not    *)
(* taken by two requests, needs to know which thread serves which request. *)
(* Requests says so, and IInv is what is proved to be inductive.           *)
(***************************************************************************)
EXTENDS StorefrontProps, ServerProofs

\* The operation of the order server that a request waits for.
CallAt == {<<"lookup", "getActive">>, <<"create", "create">>,
           <<"add", "addBook">>, <<"edit", "editCart">>,
           <<"order", "get">>, <<"precheck", "get">>, <<"recheck", "get">>,
           <<"save", "update">>, <<"checkout", "checkout">>,
           <<"reset", "setState">>, <<"deny", "setState">>,
           <<"mismatch", "setState">>}

\* Where a request does not know its order yet, and where it has copied the
\* total of its session.
NoOrderYet == {"lookup", "create"}
Charging == {"precheck", "checkout", "recheck"}

\* Requests that wait have a thread each, no two the same, which serves a call of
\* the right operation, on the right order.
Linked ==
    \A t \in Tabs :
        /\ req[t].at \in Waiting <=> req[t].worker # NoWorker
        /\ req[t].at \in Waiting =>
            /\ <<req[t].at, srv[req[t].worker].op>> \in CallAt
            /\ req[t].at \notin NoOrderYet => srv[req[t].worker].id = req[t].orderId
        /\ \A t2 \in Tabs : req[t].worker = req[t2].worker /\ t # t2
                              => req[t].worker = NoWorker

\* Requests and threads are consistent.
Requests ==
    /\ ServerTypeOK
    /\ req \in [Tabs -> Request]
    /\ \A t \in Tabs : req[t].at \in Charging => req[t].totalSave # NoTotal
    /\ Linked

\* A request that starts a well-formed call, of the kind it waits for, keeps
\* requests and threads consistent.
LEMMA SendOK ==
    ASSUME Requests, NEW t \in Tabs, NEW r \in Request, r.worker = req[t].worker,
           NEW c \in Call, WellFormed(c),
           NEW at \in Waiting, <<at, c.op>> \in CallAt,
           at \notin NoOrderYet => c.id = r.orderId,
           at \in Charging => r.totalSave # NoTotal,
           Send(t, r, c, at)
    PROVE  Requests'
<1> USE NoWorkerAssumption
<1>1. PICK w \in Free(r) :
        /\ srv' = [Released(r) EXCEPT ![w] = c]
        /\ req' = [req EXCEPT ![t] = [r EXCEPT !.at = at, !.worker = w]]
    BY DEF Send
<1>2. w \in Workers /\ (srv[w] = Idle \/ w = r.worker)
    BY <1>1 DEF Free
<1>3. /\ srv \in [Workers -> Call] /\ \A x \in Workers : WellFormed(srv[x])
      /\ req \in [Tabs -> Request]
    BY DEF Requests, ServerTypeOK
<1>4. Idle \in Call /\ WellFormed(Idle) /\ Idle.op = "none"
    BY IdleTyped
<1>5. /\ srv' \in [Workers -> Call]
      /\ srv'[w] = c
      /\ \A x \in Workers : x # w /\ x # r.worker => srv'[x] = srv[x]
      /\ \A x \in Workers : WellFormed(srv[x])'
    <2>1. /\ Released(r) \in [Workers -> Call]
          /\ \A x \in Workers : Released(r)[x] = IF x = r.worker THEN Idle ELSE srv[x]
        BY <1>3, <1>4 DEF Released, Request
    <2> QED BY <2>1, <1>1, <1>2, <1>3, <1>4 DEF WellFormed
<1>6. /\ req' \in [Tabs -> Request]
      /\ req'[t].at = at /\ req'[t].worker = w
      /\ req'[t].orderId = r.orderId /\ req'[t].totalSave = r.totalSave
      /\ \A t2 \in Tabs : t2 # t => req'[t2] = req[t2]
    BY <1>1, <1>2, <1>3 DEF Request
<1>7. \A t2 \in Tabs : t2 # t => req[t2].worker # w
    <2> SUFFICES ASSUME NEW t2 \in Tabs, t2 # t, req[t2].worker = w PROVE FALSE
        OBVIOUS
    <2>1. w # r.worker
        BY <1>2 DEF Requests, Linked
    <2>2. srv[w].op = "none"
        BY <2>1, <1>2, <1>4
    <2> QED BY <2>2, <1>2 DEF Requests, Linked, CallAt
<1>8. Linked'
    <2> SUFFICES ASSUME NEW t1 \in Tabs
                 PROVE  /\ req'[t1].at \in Waiting <=> req'[t1].worker # NoWorker
                        /\ req'[t1].at \in Waiting =>
                            /\ <<req'[t1].at, srv'[req'[t1].worker].op>> \in CallAt
                            /\ req'[t1].at \notin NoOrderYet =>
                                srv'[req'[t1].worker].id = req'[t1].orderId
                        /\ \A t2 \in Tabs : req'[t1].worker = req'[t2].worker /\ t1 # t2
                              => req'[t1].worker = NoWorker
        BY DEF Linked
    <2>1. CASE t1 = t
        BY <2>1, <1>2, <1>5, <1>6, <1>7 DEF Requests, Linked
    <2>2. CASE t1 # t
        <3>1. req'[t1] = req[t1]
            BY <2>2, <1>6
        <3>2. req[t1].worker # NoWorker =>
                /\ req[t1].worker \in Workers
                /\ req[t1].worker # w
                /\ req[t1].worker # r.worker
            BY <1>3, <1>7, <2>2 DEF Request, Requests, Linked
        <3>3. req[t1].worker # NoWorker => srv'[req[t1].worker] = srv[req[t1].worker]
            BY <3>2, <1>5
        <3>4. \A t2 \in Tabs : req'[t1].worker = req'[t2].worker /\ t1 # t2
                                  => req'[t1].worker = NoWorker
            BY <3>1, <3>2, <1>6 DEF Requests, Linked
        <3> QED BY <3>1, <3>3, <3>4 DEF Requests, Linked
    <2> QED BY <2>1, <2>2
<1> QED BY <1>5, <1>6, <1>8 DEF Requests, ServerTypeOK

\* So does a request that ends and frees its thread.
LEMMA EndOK ==
    ASSUME Requests, NEW t \in Tabs, NEW r, r.worker = req[t].worker,
           NEW at \in {"idle", "redirect", "clear"}, End(t, r, at)
    PROVE  Requests'
<1> USE NoWorkerAssumption
<1>1. /\ srv \in [Workers -> Call] /\ \A x \in Workers : WellFormed(srv[x])
      /\ req \in [Tabs -> Request]
    BY DEF Requests, ServerTypeOK
<1>2. /\ srv' \in [Workers -> Call]
      /\ \A x \in Workers : x # r.worker => srv'[x] = srv[x]
      /\ \A x \in Workers : WellFormed(srv[x])'
    <2>1. CASE r.worker = NoWorker
        BY <1>1, <2>1 DEF End, Released
    <2>2. CASE r.worker # NoWorker
        BY <1>1, <2>2, IdleTyped DEF End, Released, Request, WellFormed
    <2> QED BY <2>1, <2>2
<1>3. /\ req' \in [Tabs -> Request]
      /\ req'[t].at = at /\ req'[t].worker = NoWorker
      /\ \A t2 \in Tabs : t2 # t => req'[t2] = req[t2]
    BY <1>1 DEF End, Request, NoRequest
<1>4. at \notin Waiting /\ at \notin Charging
    BY DEF Waiting, Charging
<1>5. \A t2 \in Tabs : t2 # t /\ req[t2].worker # NoWorker =>
            /\ req[t2].worker \in Workers
            /\ req[t2].worker # r.worker
    BY <1>1 DEF Request, Requests, Linked
<1>6. Linked'
    <2> SUFFICES ASSUME NEW t1 \in Tabs
                 PROVE  /\ req'[t1].at \in Waiting <=> req'[t1].worker # NoWorker
                        /\ req'[t1].at \in Waiting =>
                            /\ <<req'[t1].at, srv'[req'[t1].worker].op>> \in CallAt
                            /\ req'[t1].at \notin NoOrderYet =>
                                srv'[req'[t1].worker].id = req'[t1].orderId
                        /\ \A t2 \in Tabs : req'[t1].worker = req'[t2].worker /\ t1 # t2
                              => req'[t1].worker = NoWorker
        BY DEF Linked
    <2>1. CASE t1 = t
        BY <2>1, <1>3, <1>4
    <2>2. CASE t1 # t
        <3>1. req'[t1] = req[t1]
            BY <2>2, <1>3
        <3>2. req[t1].worker # NoWorker => srv'[req[t1].worker] = srv[req[t1].worker]
            BY <2>2, <1>2, <1>5
        <3>3. \A t2 \in Tabs : req'[t1].worker = req'[t2].worker /\ t1 # t2
                                  => req'[t1].worker = NoWorker
            BY <3>1, <1>3 DEF Requests, Linked
        <3> QED BY <3>1, <3>2, <3>3 DEF Requests, Linked
    <2> QED BY <2>1, <2>2
<1> QED BY <1>2, <1>3, <1>4, <1>6 DEF Requests, ServerTypeOK

\* So does a thread that goes on with its call: it keeps the operation and,
\* except in the two operations that find or create it, the order.
LEMMA ContinueOK ==
    ASSUME Requests, NEW w \in Workers, NEW d, Continues(srv[w], d),
           srv' = [srv EXCEPT ![w] = d], UNCHANGED req
    PROVE  Requests'
<1>1. /\ srv \in [Workers -> Call] /\ \A x \in Workers : WellFormed(srv[x])
      /\ req \in [Tabs -> Request]
    BY DEF Requests, ServerTypeOK
<1>2. ServerTypeOK'
    BY <1>1 DEF Continues, ServerTypeOK
<1>3. ASSUME NEW t \in Tabs, req[t].at \in Waiting
      PROVE  /\ srv'[req[t].worker].op = srv[req[t].worker].op
             /\ req[t].at \notin NoOrderYet =>
                    srv'[req[t].worker].id = srv[req[t].worker].id
    <2>1. <<req[t].at, srv[req[t].worker].op>> \in CallAt
        BY <1>3 DEF Requests, Linked
    <2>2. req[t].worker \in Workers
        BY <1>1, <1>3 DEF Requests, Linked, Request
    <2>3. req[t].at \notin NoOrderYet => srv[req[t].worker].op \notin {"create", "getActive"}
        BY <2>1 DEF NoOrderYet, CallAt
    <2> QED BY <1>1, <2>2, <2>3 DEF Continues
<1>4. Linked'
    BY <1>3 DEF Requests, Linked
<1> QED BY <1>2, <1>4 DEF Requests

\* Whatever a handler does once it knows its order keeps them consistent (the
\* handlers of OrderController and PaymentController after getActiveOrderId).
LEMMA DispatchOK ==
    ASSUME Requests, session \in [Sessions -> Session],
           NEW t \in Tabs, NEW r \in Request, r.worker = req[t].worker,
           NEW o \in OrderIds, Dispatch(t, r, o)
    PROVE  Requests'
<1> DEFINE q == [r EXCEPT !.orderId = o]
<1>1. q \in Request /\ q.worker = req[t].worker /\ q.orderId = o
    BY DEF Request
<1> HIDE DEF q
<1>2. CASE End(t, q, "idle")
    BY <1>1, <1>2, EndOK
<1>3. ASSUME NEW b \in Books, Send(t, q, AddBookCall(o, b), "add")
      PROVE  Requests'
    BY <1>1, <1>3, SendOK, CallsTyped DEF Waiting, Charging, CallAt
<1>4. ASSUME NEW items \in [Books -> 0..MaxQuantity],
             Send(t, q, EditCartCall(o, items), "edit")
      PROVE  Requests'
    BY <1>1, <1>4, SendOK, CallsTyped DEF Waiting, Charging, CallAt
<1>5. CASE Send(t, q, GetCall(o), "order")
    BY <1>1, <1>5, SendOK, CallsTyped DEF Waiting, Charging, CallAt
<1>6. CASE /\ ~TotalMissing(t)
           /\ Send(t, [q EXCEPT !.totalSave = Sess(t).total], GetCall(o), "precheck")
    <2>1. Sess(t).total \in Nat \cup {NoTotal} /\ Sess(t).total # NoTotal
        BY <1>6, TabSessionAssumption DEF TotalMissing, Sess, Session
    <2> DEFINE p == [q EXCEPT !.totalSave = Sess(t).total]
    <2>2. /\ p \in Request /\ p.worker = req[t].worker
          /\ p.orderId = o /\ p.totalSave # NoTotal
        BY <1>1, <2>1 DEF Request
    <2> HIDE DEF p
    <2> QED BY <1>6, <2>2, SendOK, CallsTyped DEF Waiting, CallAt, p
<1> QED BY <1>2, <1>3, <1>4, <1>5, <1>6 DEF Dispatch, q

\* The reply that a request takes is that of a well-formed call of the
\* operation it waits for, on the order it works on.
LEMMA ReplyOK ==
    ASSUME Requests, NEW t \in Tabs, NEW at \in Waiting, NEW outcomes,
           Replied(t, at, outcomes)
    PROVE  /\ req[t].worker \in Workers
           /\ Reply(t) \in Call /\ WellFormed(Reply(t))
           /\ <<at, Reply(t).op>> \in CallAt
           /\ at \notin NoOrderYet =>
                /\ req[t].orderId \in OrderIds
                /\ Reply(t).id = req[t].orderId
<1>1. req[t] \in Request /\ req[t].worker \in Workers
    BY DEF Requests, Replied, Request
<1>2. Reply(t) \in Call /\ WellFormed(Reply(t))
    BY <1>1 DEF Requests, ServerTypeOK, Reply
<1>3. /\ <<at, Reply(t).op>> \in CallAt
      /\ at \notin NoOrderYet => Reply(t).id = req[t].orderId
    BY DEF Requests, Linked, Replied, Reply
<1>4. at \notin NoOrderYet => Reply(t).op \notin {"none", "create", "getActive"}
    BY <1>3 DEF CallAt, NoOrderYet
<1> QED BY <1>1, <1>2, <1>3, <1>4 DEF WellFormed, Call

\* The sessions, and the history of what they showed and paid.
Attributes ==
    /\ session \in [Sessions -> Session]
    /\ shown \in SUBSET (Sessions \X Nat)
    /\ payments \in SUBSET (Sessions \X OrderIds)

\* The inductive invariant behind TypeOK.
IInv == IndexTypeOK /\ AdminTypeOK /\ Requests /\ Attributes

\* The inductive invariant is a strengthening of the type invariant.
LEMMA IInvTypeOK == IInv => TypeOK
    BY DEF IInv, Requests, Attributes, Charging, TypeOK

\* A session whose attributes change keeps its type.
LEMMA SetSessionOK ==
    ASSUME session \in [Sessions -> Session], NEW t \in Tabs,
           NEW attributes \in Session, SetSession(t, attributes)
    PROVE  session' \in [Sessions -> Session]
    BY TabSessionAssumption DEF SetSession

\* A request that arrives keeps the inductive invariant, whether the session
\* knows the active order or not.
LEMMA BeginOK ==
    ASSUME IInv, NEW t \in Tabs, req[t].worker = NoWorker,
           NEW kind \in Kinds \cup {"payment"}, NEW redirected \in BOOLEAN,
           Begin(t, kind, redirected)
    PROVE  Requests'
<1> DEFINE r == [NoRequest EXCEPT !.kind = kind, !.redirected = redirected]
<1>1. r \in Request /\ r.worker = req[t].worker
    BY DEF NoRequest, Request
<1>2. Sess(t).activeOrderId \in OrderIds \cup {NoOrder} /\ UserOf(t) \in Users
    BY TabSessionAssumption, SessionUserAssumption
    DEF IInv, Attributes, Sess, Session, UserOf
<1> HIDE DEF r
<1>3. CASE Sess(t).activeOrderId # NoOrder /\ Dispatch(t, r, Sess(t).activeOrderId)
    BY <1>1, <1>2, <1>3, DispatchOK DEF IInv, Attributes
<1>4. CASE Send(t, r, GetActiveCall(UserOf(t)), "lookup")
    BY <1>1, <1>2, <1>4, SendOK, CallsTyped
    DEF IInv, Waiting, Charging, CallAt, NoOrderYet
<1> QED BY <1>3, <1>4 DEF Begin, r

\* Every step of a tab keeps the inductive invariant: one case per action of
\* TabStep.
LEMMA TabStepOK ==
    ASSUME IInv, NEW t \in Tabs, TabStep(t)
    PROVE  IInv'
<1>1. Requests /\ req[t] \in Request /\ session \in [Sessions -> Session]
    BY DEF IInv, Requests, Attributes
<1>2. TabSession[t] \in Sessions /\ Sess(t) \in Session /\ UserOf(t) \in Users
    BY TabSessionAssumption, SessionUserAssumption DEF IInv, Attributes, Sess, UserOf
<1>3. IndexTypeOK' /\ AdminTypeOK'
    <2>1. UNCHANGED backVars
        BY DEF TabStep, NewRequest, FollowRedirect, LeaveRedirect, ActiveOrderKnown,
           CreateActiveOrder, Finish, PaymentPage, Placed, ClearPayment, CheckOut,
           CheckedOut, Accept, Refuse, TotalChanged, Denied, CallFailed, Timeout, Begin
    <2> QED BY <2>1, IndexStutter DEF backVars, IInv, AdminTypeOK
<1>4. ASSUME UNCHANGED <<session, shown, payments>>
      PROVE  Attributes'
    BY <1>4 DEF IInv, Attributes
<1>5. ASSUME NEW attributes \in Session, SetSession(t, attributes),
             UNCHANGED <<shown, payments>>
      PROVE  Attributes'
    BY <1>1, <1>5, SetSessionOK DEF IInv, Attributes
<1>6. ASSUME NEW at \in {"idle", "redirect", "clear"}, End(t, req[t], at)
      PROVE  Requests'
    BY <1>1, <1>6, EndOK
<1>7. CASE NewRequest(t)
    <2>1. req[t].worker = NoWorker
        BY <1>1, <1>7 DEF NewRequest, Requests, Linked, Waiting
    <2>2. PICK kind \in Kinds : Begin(t, kind, FALSE)
        BY <1>7 DEF NewRequest
    <2> QED BY <1>4, <2>1, <2>2, BeginOK, <1>3 DEF Begin, IInv
<1>8. CASE FollowRedirect(t)
    <2>1. req[t].worker = NoWorker
        BY <1>1, <1>8 DEF FollowRedirect, Requests, Linked, Waiting
    <2> QED BY <1>4, <1>8, <2>1, BeginOK, <1>3 DEF FollowRedirect, Begin, IInv
<1>9. CASE LeaveRedirect(t)
    BY <1>3, <1>4, <1>6, <1>9 DEF LeaveRedirect, IInv
<1>10. CASE ActiveOrderKnown(t)
    <2> DEFINE o == Reply(t).id
    <2>1. /\ o \in OrderIds
          /\ SetSession(t, [Sess(t) EXCEPT !.activeOrderId = o])
          /\ Dispatch(t, req[t], o)
        <3>1. /\ Reply(t) \in Call /\ WellFormed(Reply(t)) /\ Reply(t).pc = "done"
            BY <1>1, <1>10, ReplyOK DEF ActiveOrderKnown, Waiting, Replied, Reply
        <3> QED BY <3>1, <1>10 DEF ActiveOrderKnown, WellFormed, Call
    <2>2. [Sess(t) EXCEPT !.activeOrderId = o] \in Session
        BY <1>2, <2>1 DEF Session
    <2> HIDE DEF o
    <2>3. Requests'
        BY <1>1, <2>1, DispatchOK
    <2>4. Attributes'
        BY <1>5, <1>10, <2>1, <2>2 DEF ActiveOrderKnown
    <2> QED BY <1>3, <2>3, <2>4 DEF IInv
<1>11. CASE CreateActiveOrder(t)
    <2>1. Requests'
        BY <1>1, <1>2, <1>11, SendOK, CallsTyped
        DEF CreateActiveOrder, Waiting, Charging, CallAt, NoOrderYet
    <2> QED BY <1>3, <1>4, <1>11, <2>1 DEF CreateActiveOrder, IInv
<1>12. CASE Finish(t)
    BY <1>3, <1>4, <1>6, <1>12 DEF Finish, IInv
<1>13. CASE PaymentPage(t)
    <2> DEFINE order == Reply(t).doc
               o == req[t].orderId
               placing == [order EXCEPT !.state = "PRE_SHIPPING"]
    <2>1. o \in OrderIds /\ order \in Order /\ order.subtotal \in Nat /\ placing \in Order
        BY <1>1, <1>13, ReplyOK
        DEF PaymentPage, Waiting, Call, NoOrderYet, Order, OrderStates
    <2>2. [Sess(t) EXCEPT !.total = order.subtotal] \in Session
        BY <1>2, <2>1 DEF Session
    <2>3. \/ End(t, req[t], "idle")
          \/ Send(t, req[t], UpdateCall(o, placing), "save")
          \/ Send(t, req[t], SetStateCall(o, "CART"), "reset")
        BY <1>13 DEF PaymentPage
    <2>4. /\ SetSession(t, [Sess(t) EXCEPT !.total = order.subtotal])
          /\ shown' = shown \cup {<<TabSession[t], order.subtotal>>}
          /\ payments' = payments
        BY <1>13 DEF PaymentPage
    <2> HIDE DEF order, placing
    <2>5. ASSUME Send(t, req[t], UpdateCall(o, placing), "save")
          PROVE  Requests'
        BY <1>1, <2>1, <2>5, SendOK, CallsTyped DEF Waiting, Charging, CallAt
    <2>6. ASSUME Send(t, req[t], SetStateCall(o, "CART"), "reset")
          PROVE  Requests'
        BY <1>1, <2>1, <2>6, SendOK, CallsTyped DEF Waiting, Charging, CallAt, OrderStates
    <2>7. Requests'
        BY <1>6, <2>3, <2>5, <2>6
    <2>8. Attributes'
        BY <1>1, <1>2, <2>1, <2>2, <2>4, SetSessionOK DEF IInv, Attributes
    <2> QED BY <1>3, <2>7, <2>8 DEF IInv
<1>14. CASE Placed(t)
    <2>1. [Sess(t) EXCEPT !.activeOrderId = NoOrder] \in Session
        BY <1>2 DEF Session
    <2> QED BY <1>3, <1>5, <1>6, <1>14, <2>1 DEF Placed, IInv
<1>15. ASSUME NEW result \in {"null", "true", "false"}
       PROVE  [Sess(t) EXCEPT !.paymentSuccess = result] \in Session
    BY <1>2 DEF Session
<1>16. CASE ClearPayment(t)
    BY <1>3, <1>5, <1>6, <1>15, <1>16 DEF ClearPayment, IInv
<1>17. ASSUME NEW at \in {"precheck", "checkout", "recheck"}, Replied(t, at, {"done"})
       PROVE  req[t].orderId \in OrderIds /\ req[t].totalSave # NoTotal
    BY <1>1, <1>17, ReplyOK DEF Requests, Replied, Waiting, Charging, NoOrderYet
<1>18. CASE CheckOut(t)
    <2>1. req[t].orderId \in OrderIds /\ req[t].totalSave # NoTotal
        BY <1>17, <1>18 DEF CheckOut
    <2>2. Requests'
        BY <1>1, <1>18, <2>1, SendOK, CallsTyped DEF CheckOut, Waiting, CallAt
    <2> QED BY <1>3, <1>4, <1>18, <2>2 DEF CheckOut, IInv
<1>19. CASE CheckedOut(t)
    <2>1. req[t].orderId \in OrderIds /\ req[t].totalSave # NoTotal
        BY <1>17, <1>19 DEF CheckedOut
    <2>2. Requests'
        BY <1>1, <1>19, <2>1, SendOK, CallsTyped DEF CheckedOut, Waiting, CallAt
    <2> QED BY <1>3, <1>4, <1>19, <2>2 DEF CheckedOut, IInv
<1>20. CASE Accept(t)
    <2>1. req[t].orderId \in OrderIds
        BY <1>17, <1>20 DEF Accept
    <2>2. Attributes'
        BY <1>1, <1>2, <1>15, <1>20, <2>1, SetSessionOK DEF Accept, IInv, Attributes
    <2> QED BY <1>3, <1>6, <1>20, <2>2 DEF Accept, IInv
<1>21. ASSUME NEW at \in {"deny", "mismatch"}, Replied(t, "recheck", {"done"}),
              Send(t, req[t], SetStateCall(req[t].orderId, "CART"), at)
       PROVE  Requests'
    <2>1. req[t].orderId \in OrderIds
        BY <1>17, <1>21
    <2> QED BY <1>1, <1>21, <2>1, SendOK, CallsTyped
            DEF Waiting, Charging, CallAt, OrderStates
<1>22. CASE Refuse(t)
    BY <1>3, <1>4, <1>21, <1>22 DEF Refuse, IInv
<1>23. CASE TotalChanged(t)
    BY <1>3, <1>4, <1>21, <1>23 DEF TotalChanged, IInv
<1>24. CASE Denied(t)
    BY <1>3, <1>5, <1>6, <1>15, <1>24 DEF Denied, IInv
<1>25. CASE CallFailed(t)
    BY <1>3, <1>4, <1>6, <1>25 DEF CallFailed, IInv
<1>26. CASE Timeout(t)
    <2>1. /\ srv' = srv /\ req' \in [Tabs -> Request] /\ req'[t] = NoRequest
          /\ \A t2 \in Tabs : t2 # t => req'[t2] = req[t2]
        BY <1>1, <1>26 DEF Timeout, Requests, Request, NoRequest
    <2>2. NoRequest.at = "idle" /\ NoRequest.worker = NoWorker
        BY DEF NoRequest
    <2>3. Linked'
        <3>1. \A t1 \in Tabs : req'[t1] = req[t1] \/ req'[t1] = NoRequest
            BY <2>1
        <3>2. NoRequest.at \notin Waiting
            BY <2>2 DEF Waiting
        <3> QED BY <1>1, <2>1, <2>2, <3>1, <3>2 DEF Requests, Linked
    <2>4. Requests'
        BY <1>1, <2>1, <2>2, <2>3 DEF Requests, ServerTypeOK, Charging
    <2> QED BY <1>3, <1>4, <1>26, <2>4 DEF Timeout, IInv
<1> QED
    BY <1>7, <1>8, <1>9, <1>10, <1>11, <1>12, <1>13, <1>14, <1>16, <1>18, <1>19, <1>20,
       <1>22, <1>23, <1>24, <1>25, <1>26
    DEF TabStep

\* The inductive invariant holds initially.
LEMMA InitOK == StorefrontInit => IInv
<1> SUFFICES ASSUME StorefrontInit PROVE IInv
    OBVIOUS
<1>1. IndexTypeOK
    BY IndexInitTyped DEF StorefrontInit
<1>2. AdminTypeOK
    BY AdminIdleTyped, NoOrderAssumption, NoBookAssumption
    DEF StorefrontInit, AdminInit, AdminTypeOK
<1>3. Requests
    <2>1. /\ NoRequest \in Request
          /\ NoRequest.at \notin Waiting /\ NoRequest.at \notin Charging
          /\ NoRequest.worker = NoWorker
        BY DEF NoRequest, Request, Waiting, Charging
    <2>2. ServerTypeOK
        BY IdleTyped DEF StorefrontInit, ServerInit, ServerTypeOK
    <2> QED BY <2>1, <2>2 DEF StorefrontInit, Requests, Linked
<1>4. Attributes
    BY DEF StorefrontInit, Attributes, Session, NewSession
<1> QED BY <1>1, <1>2, <1>3, <1>4 DEF IInv

\* Every step keeps the inductive invariant: tabs, order server, admin server,
\* refreshes, abandoned replies and new logins.
LEMMA NextOK == IInv /\ [Next]_vars => IInv'
<1> SUFFICES ASSUME IInv, [Next]_vars PROVE IInv'
    OBVIOUS
<1>1. CASE \E t \in Tabs : TabStep(t)
    BY <1>1, TabStepOK
<1>2. CASE \E w \in Workers : DropReply(w)
    <2>1. PICK w \in Workers : DropReply(w)
        BY <1>2
    <2>2. /\ srv' = [srv EXCEPT ![w] = Idle] /\ req' = req
          /\ \A t \in Tabs : req[t].worker # w
        BY <2>1 DEF DropReply, frontVars
    <2>3. ServerTypeOK'
        BY <2>2, IdleTyped DEF IInv, Requests, ServerTypeOK
    <2>4. \A t \in Tabs : srv'[req[t].worker] = srv[req[t].worker]
        BY <2>2 DEF IInv, Requests, ServerTypeOK
    <2>5. Requests'
        BY <2>2, <2>3, <2>4 DEF IInv, Requests, Linked
    <2> QED BY <2>1, <2>5, IndexStutter
            DEF DropReply, IInv, Attributes, AdminTypeOK, frontVars, backVars
<1>3. CASE \E s \in Sessions : NewLogin(s)
    <2>1. PICK s \in Sessions : NewLogin(s)
        BY <1>3
    <2>2. session' \in [Sessions -> Session]
        BY <2>1 DEF NewLogin, IInv, Attributes, Session, NewSession
    <2> QED BY <2>1, <2>2, IndexStutter
            DEF NewLogin, IInv, Attributes, Requests, ServerTypeOK, Linked, AdminTypeOK,
                backVars
<1>4. CASE \E w \in Workers : ServerStep(w) /\ UNCHANGED <<adm, frontVars>>
    <2>1. PICK w \in Workers : ServerStep(w) /\ UNCHANGED <<adm, frontVars>>
        BY <1>4
    <2>2. IndexTypeOK' /\ Requests'
        BY <2>1, ServerStepTyped, ContinueOK DEF IInv, Requests, frontVars
    <2> QED BY <2>1, <2>2 DEF IInv, Attributes, AdminTypeOK, frontVars
<1>5. CASE \E a \in Admins : AdminStep(a) /\ UNCHANGED <<srv, frontVars>>
    <2>1. PICK a \in Admins : AdminStep(a) /\ UNCHANGED <<srv, frontVars>>
        BY <1>5
    <2>2. IndexTypeOK' /\ AdminTypeOK'
        BY <2>1, AdminStepTyped DEF IInv
    <2> QED BY <2>1, <2>2 DEF IInv, Attributes, Requests, ServerTypeOK, Linked, frontVars
<1>6. CASE \E o \in OrderIds : Refresh(o) /\ UNCHANGED <<srv, adm, frontVars>>
    <2>1. PICK o \in OrderIds : Refresh(o) /\ UNCHANGED <<srv, adm, frontVars>>
        BY <1>6
    <2> QED BY <2>1, RefreshTyped
            DEF IInv, Attributes, Requests, ServerTypeOK, Linked, AdminTypeOK, frontVars
<1>7. CASE UNCHANGED vars
    BY <1>7, IndexStutter
    DEF IInv, Attributes, Requests, ServerTypeOK, Linked, AdminTypeOK, frontVars, vars
<1> QED BY <1>1, <1>2, <1>3, <1>4, <1>5, <1>6, <1>7 DEF Next

\* The inductive invariant always holds.
LEMMA Invariant == Spec => []IInv
    BY InitOK, NextOK, PTL DEF Spec

\* Every variable keeps its type, each request waits for a call of the kind it
\* made, and no request compares totals before a payment page was shown in its
\* session (authorizePayment would fail on the null total), for every number
\* of tabs, sessions, threads, orders and books.
THEOREM TypeCorrect == Spec => []TypeOK
    BY Invariant, IInvTypeOK, PTL
=============================================================================
