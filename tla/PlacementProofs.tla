-------------------------- MODULE PlacementProofs --------------------------
(***************************************************************************)
(* Theorems about whose order an order is and how it comes to be placed    *)
(* and shipped.  None of the invariants is inductive on its own, since     *)
(* threads hold copies of documents and write them back later: Placement   *)
(* adds what is known of every copy.  The first part reduces the many      *)
(* actions of a tab to what they have in common (TabStepEffect), as        *)
(* ServerStepEffect did for the order server, so that the invariants are   *)
(* proved on a few kinds of step instead of on every action.  The last     *)
(* part is the refinement of OrderLifecycle, for calls that do not overlap *)
(* on an order; Fresh says that what they hold of it is then still true.   *)
(***************************************************************************)
EXTENDS StorefrontProofs

(***************************************************************************)
(* What a step of a tab does.                                              *)
(***************************************************************************)

\* Tab t has just learnt the id of its active order.
Learns(t) == Replied(t, "lookup", {"done"}) \/ Replied(t, "create", {"done"})

\* The orders that tab t can name in its step.
Known(t) ==
    {o \in OrderIds : \/ o = Sess(t).activeOrderId
                      \/ o = req[t].orderId
                      \/ Learns(t) /\ o = Reply(t).id}

\* A call that tab t can start in its step.
Starts(t, c) ==
    /\ c.pc = "start"
    /\ c.op \in {"create", "getActive"} => c.doc = NewOrder(UserOf(t)) /\ c.id = NoOrder
    /\ c.op \notin {"create", "getActive"} => c.id \in Known(t)
    /\ c.op = "setState" => c.doc.state = "CART"
    /\ c.op = "checkout" =>
        /\ Replied(t, "precheck", {"done"})
        /\ c.id = Reply(t).id
        /\ Reply(t).doc.state = "CART"
    /\ c.op = "update" =>
        /\ Replied(t, "order", {"done"})
        /\ Sess(t).paymentSuccess = "true"
        /\ c.id = Reply(t).id
        /\ c.doc.userId = Reply(t).doc.userId
        /\ c.doc.state = "PRE_SHIPPING"

\* The threads: none or one starts a call, some become idle.
ThreadsAfter(t) ==
    /\ \A w \in Workers :
        \/ srv'[w] \in {srv[w], Idle}
        \/ w = req'[t].worker /\ Starts(t, srv'[w])
    /\ req'[t].at \in Waiting => Starts(t, srv'[req'[t].worker])

\* The requests: only that of tab t changes.
RequestAfter(t) ==
    /\ \A t2 \in Tabs : t2 # t => req'[t2] = req[t2]
    /\ req'[t].orderId \in Known(t) \cup {NoOrder}
    /\ req'[t].totalSave \in {NoTotal, req[t].totalSave, Sess(t).total}

\* The payment service accepts the payment of tab t.
Accepts(t) ==
    /\ Replied(t, "recheck", {"done"})
    /\ req[t].totalSave = Reply(t).doc.subtotal
    /\ payments' = payments \cup {<<TabSession[t], req[t].orderId>>}

\* The attributes: only those of the session of tab t change.
SessionAfter(t) ==
    /\ \A s \in Sessions : s # TabSession[t] => session'[s] = session[s]
    /\ Sess(t)'.activeOrderId \in Known(t) \cup {NoOrder}
    /\ \/ Sess(t)'.total = Sess(t).total
       \/ <<TabSession[t], Sess(t)'.total>> \in shown'
    /\ shown \subseteq shown'
    /\ payments' = payments \/ Accepts(t)
    /\ Sess(t)'.paymentSuccess = "true" =>
        Sess(t).paymentSuccess = "true" \/ Accepts(t)

\* A request that ends starts no call and forgets its order.
LEMMA EndEffect ==
    ASSUME Requests, NEW t \in Tabs, NEW r, r.worker = req[t].worker,
           NEW at \in {"idle", "redirect", "clear"}, End(t, r, at)
    PROVE  ThreadsAfter(t) /\ RequestAfter(t)
<1>1. req \in [Tabs -> Request] /\ srv \in [Workers -> Call]
    BY DEF Requests, ServerTypeOK
<1>2. \A w \in Workers : srv'[w] \in {srv[w], Idle}
    BY <1>1 DEF End, Released
<1>3. /\ \A t2 \in Tabs : t2 # t => req'[t2] = req[t2]
      /\ req'[t].at = at /\ req'[t].orderId = NoOrder /\ req'[t].totalSave = NoTotal
    BY <1>1 DEF End, NoRequest
<1>4. at \notin Waiting
    BY DEF Waiting
<1> QED BY <1>2, <1>3, <1>4 DEF ThreadsAfter, RequestAfter

\* A request that goes on with a call starts that call only.
LEMMA SendEffect ==
    ASSUME Requests, NEW t \in Tabs, NEW r \in Request, r.worker = req[t].worker,
           r.orderId \in Known(t) \cup {NoOrder},
           r.totalSave \in {NoTotal, req[t].totalSave, Sess(t).total},
           NEW c, Starts(t, c), NEW at, Send(t, r, c, at)
    PROVE  ThreadsAfter(t) /\ RequestAfter(t)
<1>1. req \in [Tabs -> Request] /\ srv \in [Workers -> Call]
    BY DEF Requests, ServerTypeOK
<1>2. PICK w \in Free(r) :
        /\ srv' = [Released(r) EXCEPT ![w] = c]
        /\ req' = [req EXCEPT ![t] = [r EXCEPT !.at = at, !.worker = w]]
    BY DEF Send
<1>3. w \in Workers
    BY DEF Free
<1>4. Released(r) \in [Workers -> Call]
      /\ \A x \in Workers : Released(r)[x] \in {srv[x], Idle}
    BY <1>1, IdleTyped DEF Released
<1>5. /\ srv'[w] = c
      /\ \A x \in Workers : x # w => srv'[x] \in {srv[x], Idle}
    BY <1>2, <1>3, <1>4
<1>6. /\ \A t2 \in Tabs : t2 # t => req'[t2] = req[t2]
      /\ req'[t].worker = w
      /\ req'[t].orderId = r.orderId /\ req'[t].totalSave = r.totalSave
    BY <1>1, <1>2 DEF Request
<1> QED BY <1>3, <1>5, <1>6 DEF ThreadsAfter, RequestAfter

\* The arguments of the calls a tab starts.
LEMMA CallArguments ==
    /\ \A u \in Users :
        /\ CreateCall(u).pc = "start" /\ CreateCall(u).doc = NewOrder(u)
        /\ CreateCall(u).id = NoOrder /\ GetActiveCall(u).id = NoOrder
        /\ GetActiveCall(u).pc = "start" /\ GetActiveCall(u).doc = NewOrder(u)
    /\ \A o \in OrderIds :
        /\ GetCall(o).pc = "start" /\ CheckoutCall(o).pc = "start"
        /\ \A b \in Books : AddBookCall(o, b).pc = "start"
        /\ \A items \in [Books -> 0..MaxQuantity] : EditCartCall(o, items).pc = "start"
        /\ \A state \in OrderStates : /\ SetStateCall(o, state).pc = "start"
                                      /\ SetStateCall(o, state).doc.state = state
        /\ \A doc \in Order : UpdateCall(o, doc).pc = "start" /\ UpdateCall(o, doc).doc = doc
<1> USE StartCallTyped DEF Ops
<1>1. ASSUME NEW u \in Users
      PROVE  /\ CreateCall(u).pc = "start" /\ CreateCall(u).doc = NewOrder(u)
             /\ CreateCall(u).id = NoOrder /\ GetActiveCall(u).id = NoOrder
             /\ GetActiveCall(u).pc = "start" /\ GetActiveCall(u).doc = NewOrder(u)
    BY <1>1 DEF CreateCall, GetActiveCall, Call
<1>2. ASSUME NEW o \in OrderIds
      PROVE  /\ GetCall(o).pc = "start" /\ CheckoutCall(o).pc = "start"
             /\ \A b \in Books : AddBookCall(o, b).pc = "start"
             /\ \A items \in [Books -> 0..MaxQuantity] : EditCartCall(o, items).pc = "start"
    BY <1>2 DEF GetCall, CheckoutCall, AddBookCall, EditCartCall, Call
<1>3. ASSUME NEW o \in OrderIds, NEW state \in OrderStates
      PROVE  SetStateCall(o, state).pc = "start" /\ SetStateCall(o, state).doc.state = state
    BY <1>3, Documents DEF SetStateCall, Call, Order
<1>4. ASSUME NEW o \in OrderIds, NEW doc \in Order
      PROVE  UpdateCall(o, doc).pc = "start" /\ UpdateCall(o, doc).doc = doc
    BY <1>4 DEF UpdateCall, Call
<1> QED BY <1>1, <1>2, <1>3, <1>4

\* Calls on a known order that carry no document can be started ...
LEMMA OrderCallStarts ==
    ASSUME NEW t \in Tabs, NEW o \in Known(t)
    PROVE  /\ Starts(t, GetCall(o))
           /\ Replied(t, "precheck", {"done"}) /\ Reply(t).id = o /\ Reply(t).doc.state = "CART"
                => Starts(t, CheckoutCall(o))
           /\ \A b \in Books : Starts(t, AddBookCall(o, b))
           /\ \A items \in [Books -> 0..MaxQuantity] : Starts(t, EditCartCall(o, items))
           /\ Starts(t, SetStateCall(o, "CART"))
<1>1. o \in OrderIds /\ "CART" \in OrderStates
    BY DEF Known, OrderStates
<1> QED BY <1>1, CallsTyped, CallArguments DEF Starts

\* ... and so can the search for the active order and the creation of one.
LEMMA ActiveCallStarts ==
    ASSUME NEW t \in Tabs
    PROVE  Starts(t, GetActiveCall(UserOf(t))) /\ Starts(t, CreateCall(UserOf(t)))
<1>1. UserOf(t) \in Users
    BY TabSessionAssumption, SessionUserAssumption DEF UserOf
<1> QED BY <1>1, CallsTyped, CallArguments DEF Starts

\* What a handler does once it knows its order o: any call it starts is on o.
LEMMA DispatchEffect ==
    ASSUME Requests, NEW t \in Tabs, NEW r \in Request, r.worker = req[t].worker,
           r.totalSave \in {NoTotal, req[t].totalSave}, session \in [Sessions -> Session],
           NEW o \in Known(t), Dispatch(t, r, o)
    PROVE  ThreadsAfter(t) /\ RequestAfter(t)
<1> DEFINE q == [r EXCEPT !.orderId = o]
           Goal == ThreadsAfter(t) /\ RequestAfter(t)
<1>1. o \in OrderIds
    BY DEF Known
<1>2. /\ q \in Request /\ q.worker = req[t].worker /\ q.orderId = o
      /\ q.totalSave = r.totalSave
    BY <1>1 DEF Request
<1> HIDE DEF q
<1>3. ASSUME NEW c, Starts(t, c), NEW at, Send(t, q, c, at)
      PROVE  Goal
    BY <1>2, <1>3, SendEffect
<1>4. CASE End(t, q, "idle")
    BY <1>2, <1>4, EndEffect
<1>5. CASE /\ ~TotalMissing(t)
           /\ Send(t, [q EXCEPT !.totalSave = Sess(t).total], GetCall(o), "precheck")
    <2> DEFINE p == [q EXCEPT !.totalSave = Sess(t).total]
    <2>1. Sess(t).total \in Nat \cup {NoTotal}
        BY TabSessionAssumption DEF Sess, Session
    <2>2. /\ p \in Request /\ p.worker = req[t].worker
          /\ p.orderId = o /\ p.totalSave = Sess(t).total
        BY <1>2, <2>1 DEF Request
    <2>3. Send(t, p, GetCall(o), "precheck")
        BY <1>5
    <2> HIDE DEF p
    <2> QED BY <2>2, <2>3, SendEffect, OrderCallStarts
<1> QED BY <1>3, <1>4, <1>5, OrderCallStarts DEF Dispatch, q

\* A request that arrives starts a search for the active order, or a call on
\* the one the session holds.
LEMMA BeginEffect ==
    ASSUME IInv, NEW t \in Tabs, req[t].worker = NoWorker,
           NEW kind \in Kinds \cup {"payment"}, NEW redirected \in BOOLEAN,
           Begin(t, kind, redirected)
    PROVE  ThreadsAfter(t) /\ RequestAfter(t)
<1> DEFINE r == [NoRequest EXCEPT !.kind = kind, !.redirected = redirected]
<1>1. /\ r \in Request /\ r.worker = req[t].worker
      /\ r.totalSave = NoTotal /\ r.orderId = NoOrder
    BY DEF NoRequest, Request
<1>2. Sess(t).activeOrderId \in OrderIds \cup {NoOrder}
    BY TabSessionAssumption DEF IInv, Attributes, Sess, Session
<1> HIDE DEF r
<1>3. CASE Sess(t).activeOrderId # NoOrder /\ Dispatch(t, r, Sess(t).activeOrderId)
    <2>1. Sess(t).activeOrderId \in Known(t)
        BY <1>2, <1>3 DEF Known
    <2> QED BY <1>1, <1>3, <2>1, DispatchEffect DEF IInv, Attributes
<1>4. CASE Send(t, r, GetActiveCall(UserOf(t)), "lookup")
    BY <1>1, <1>4, SendEffect, ActiveCallStarts DEF IInv
<1> QED BY <1>3, <1>4 DEF Begin, r

\* Every step of a tab is as ThreadsAfter, RequestAfter and SessionAfter say,
\* and places no order itself: one case per action of TabStep.
LEMMA TabStepEffect ==
    ASSUME IInv, NEW t \in Tabs, TabStep(t)
    PROVE  /\ ThreadsAfter(t) /\ RequestAfter(t) /\ SessionAfter(t)
           /\ UNCHANGED <<orders, visible, placed, adm>>
<1> DEFINE Goal == ThreadsAfter(t) /\ RequestAfter(t) /\ SessionAfter(t)
           Served == ThreadsAfter(t) /\ RequestAfter(t)
<1>1. Requests /\ req[t] \in Request /\ session \in [Sessions -> Session]
    BY DEF IInv, Requests, Attributes
<1>2. TabSession[t] \in Sessions /\ Sess(t) \in Session
      /\ Sess(t).activeOrderId \in OrderIds \cup {NoOrder}
    BY TabSessionAssumption DEF IInv, Attributes, Sess, Session
<1>3. UNCHANGED <<orders, visible, placed, adm>>
    BY DEF TabStep, NewRequest, FollowRedirect, LeaveRedirect, ActiveOrderKnown,
       CreateActiveOrder, Finish, PaymentPage, Placed, ClearPayment, CheckOut,
       CheckedOut, Accept, Refuse, TotalChanged, Denied, CallFailed, Timeout, Begin,
       backVars, indexVars
<1>4. Sess(t).activeOrderId \in Known(t) \cup {NoOrder}
      /\ req[t].orderId \in Known(t) \cup {NoOrder}
    BY <1>1, <1>2 DEF Known, Request
<1>5. ASSUME UNCHANGED <<session, shown, payments>>
      PROVE  SessionAfter(t)
    BY <1>4, <1>5 DEF SessionAfter, Sess
<1>6. ASSUME NEW attributes \in Session, SetSession(t, attributes)
      PROVE  /\ \A s \in Sessions : s # TabSession[t] => session'[s] = session[s]
             /\ Sess(t)' = attributes
    BY <1>1, <1>2, <1>6 DEF SetSession, Sess
<1>7. ASSUME NEW at \in {"idle", "redirect", "clear"}, End(t, req[t], at)
      PROVE  Served
    BY <1>1, <1>7, EndEffect
<1>8. ASSUME NEW c, Starts(t, c), NEW at, Send(t, req[t], c, at)
      PROVE  Served
    BY <1>1, <1>4, <1>8, SendEffect
<1>9. ASSUME NEW at \in Waiting \ NoOrderYet, NEW outcomes, Replied(t, at, outcomes)
      PROVE  req[t].orderId \in Known(t) /\ Reply(t).id = req[t].orderId
    BY <1>1, <1>9, ReplyOK DEF Known
<1>10. ASSUME NEW result \in {"null", "true", "false"}
       PROVE  LET after == [Sess(t) EXCEPT !.paymentSuccess = result]
              IN  /\ after \in Session
                  /\ after.activeOrderId = Sess(t).activeOrderId
                  /\ after.total = Sess(t).total /\ after.paymentSuccess = result
    BY <1>2 DEF Session
<1>11. CASE NewRequest(t)
    <2>1. req[t].worker = NoWorker
        BY <1>1, <1>11 DEF NewRequest, Requests, Linked, Waiting
    <2>2. PICK kind \in Kinds : Begin(t, kind, FALSE)
        BY <1>11 DEF NewRequest
    <2> QED BY <1>3, <1>5, <2>1, <2>2, BeginEffect DEF Begin
<1>12. CASE FollowRedirect(t)
    <2>1. req[t].worker = NoWorker
        BY <1>1, <1>12 DEF FollowRedirect, Requests, Linked, Waiting
    <2> QED BY <1>3, <1>5, <1>12, <2>1, BeginEffect DEF FollowRedirect, Begin
<1>13. CASE LeaveRedirect(t)
    BY <1>3, <1>5, <1>7, <1>13 DEF LeaveRedirect
<1>14. CASE ActiveOrderKnown(t)
    <2> DEFINE o == Reply(t).id
               after == [Sess(t) EXCEPT !.activeOrderId = o]
    <2>1. SetSession(t, after) /\ Dispatch(t, req[t], o) /\ UNCHANGED <<shown, payments>>
        BY <1>14 DEF ActiveOrderKnown
    <2>2. Reply(t) \in Call /\ WellFormed(Reply(t)) /\ Reply(t).pc = "done"
        BY <1>1, <1>14, ReplyOK DEF ActiveOrderKnown, Waiting, Replied, Reply
    <2>3. o \in Known(t)
        BY <1>14, <2>2 DEF ActiveOrderKnown, Known, Learns, WellFormed, Call
    <2>4. /\ after \in Session /\ after.activeOrderId = o /\ after.total = Sess(t).total
          /\ after.paymentSuccess = Sess(t).paymentSuccess
        BY <1>2, <2>3 DEF Session, Known
    <2> HIDE DEF o, after
    <2>5. SessionAfter(t)
        BY <1>6, <2>1, <2>3, <2>4 DEF SessionAfter
    <2> QED BY <1>1, <1>3, <2>1, <2>3, <2>5, DispatchEffect
<1>15. CASE CreateActiveOrder(t)
    BY <1>3, <1>5, <1>8, <1>15, ActiveCallStarts DEF CreateActiveOrder
<1>16. CASE Finish(t)
    BY <1>3, <1>5, <1>7, <1>16 DEF Finish
<1>17. CASE PaymentPage(t)
    <2> DEFINE order == Reply(t).doc
               o == req[t].orderId
               placing == [order EXCEPT !.state = "PRE_SHIPPING"]
               after == [Sess(t) EXCEPT !.total = order.subtotal]
    <2>1. o \in Known(t) /\ Reply(t).id = o /\ Replied(t, "order", {"done"})
        BY <1>9, <1>17 DEF PaymentPage, Waiting, NoOrderYet
    <2>2. order \in Order /\ o \in OrderIds
        BY <1>1, <1>17, ReplyOK DEF PaymentPage, Waiting, Call, NoOrderYet
    <2>3. placing \in Order /\ placing.userId = order.userId /\ placing.state = "PRE_SHIPPING"
        BY <2>2 DEF Order, OrderStates
    <2>4. /\ after \in Session /\ after.activeOrderId = Sess(t).activeOrderId
          /\ after.total = order.subtotal
          /\ after.paymentSuccess = Sess(t).paymentSuccess
        BY <1>2, <2>2 DEF Session, Order
    <2>5. /\ SetSession(t, after)
          /\ shown' = shown \cup {<<TabSession[t], order.subtotal>>}
          /\ payments' = payments
          /\ \/ End(t, req[t], "idle")
             \/ Sess(t).paymentSuccess = "true" /\ Send(t, req[t], UpdateCall(o, placing), "save")
             \/ Send(t, req[t], SetStateCall(o, "CART"), "reset")
        BY <1>17 DEF PaymentPage
    <2> HIDE DEF order, placing, after
    <2>6. SessionAfter(t)
        BY <1>4, <1>6, <2>4, <2>5 DEF SessionAfter
    <2>7. Sess(t).paymentSuccess = "true" => Starts(t, UpdateCall(o, placing))
        <3>1. UpdateCall(o, placing).pc = "start" /\ UpdateCall(o, placing).doc = placing
            BY <2>2, <2>3, CallArguments
        <3>2. UpdateCall(o, placing).op = "update" /\ UpdateCall(o, placing).id = o
            BY <2>2, <2>3, CallsTyped
        <3> QED BY <2>1, <2>3, <3>1, <3>2 DEF Starts, order
    <2>8. Served
        BY <1>7, <1>8, <2>1, <2>5, <2>7, OrderCallStarts
    <2> QED BY <1>3, <2>6, <2>8
<1>18. CASE Placed(t)
    <2> DEFINE after == [Sess(t) EXCEPT !.activeOrderId = NoOrder]
    <2>1. /\ after \in Session /\ after.activeOrderId = NoOrder
          /\ after.total = Sess(t).total /\ after.paymentSuccess = Sess(t).paymentSuccess
        BY <1>2 DEF Session
    <2>2. SetSession(t, after) /\ UNCHANGED <<shown, payments>>
        BY <1>18 DEF Placed
    <2> HIDE DEF after
    <2>3. SessionAfter(t)
        BY <1>6, <2>1, <2>2 DEF SessionAfter
    <2> QED BY <1>3, <1>7, <1>18, <2>3 DEF Placed
<1>19. ASSUME NEW result \in {"null", "false"}, UNCHANGED <<shown, payments>>,
              SetSession(t, [Sess(t) EXCEPT !.paymentSuccess = result])
       PROVE  SessionAfter(t)
    BY <1>4, <1>6, <1>10, <1>19 DEF SessionAfter
<1>20. CASE ClearPayment(t)
    BY <1>3, <1>7, <1>19, <1>20 DEF ClearPayment
<1>21. CASE CheckOut(t)
    <2>1. req[t].orderId \in Known(t) /\ Reply(t).id = req[t].orderId
        BY <1>9, <1>21 DEF CheckOut, Waiting, NoOrderYet
    <2> QED BY <1>3, <1>5, <1>8, <1>21, <2>1, OrderCallStarts DEF CheckOut
<1>22. CASE CheckedOut(t)
    <2>1. req[t].orderId \in Known(t)
        BY <1>9, <1>22 DEF CheckedOut, Waiting, NoOrderYet
    <2> QED BY <1>3, <1>5, <1>8, <1>22, <2>1, OrderCallStarts DEF CheckedOut
<1>23. CASE Accept(t)
    <2>1. Accepts(t)
        BY <1>23 DEF Accept, Accepts
    <2>2. SessionAfter(t)
        BY <1>4, <1>6, <1>10, <1>23, <2>1 DEF Accept, SessionAfter
    <2> QED BY <1>3, <1>7, <1>23, <2>2 DEF Accept
<1>24. ASSUME NEW at, Replied(t, "recheck", {"done"}),
              Send(t, req[t], SetStateCall(req[t].orderId, "CART"), at)
       PROVE  Served
    <2>1. req[t].orderId \in Known(t)
        BY <1>9, <1>24 DEF Waiting, NoOrderYet
    <2> QED BY <1>8, <1>24, <2>1, OrderCallStarts
<1>25. CASE Refuse(t)
    BY <1>3, <1>5, <1>24, <1>25 DEF Refuse
<1>26. CASE TotalChanged(t)
    BY <1>3, <1>5, <1>24, <1>26 DEF TotalChanged
<1>27. CASE Denied(t)
    BY <1>3, <1>7, <1>19, <1>27 DEF Denied
<1>28. CASE CallFailed(t)
    BY <1>3, <1>5, <1>7, <1>28 DEF CallFailed
<1>29. CASE Timeout(t)
    <2>1. /\ srv' = srv /\ req'[t] = NoRequest
          /\ \A t2 \in Tabs : t2 # t => req'[t2] = req[t2]
        BY <1>1, <1>29 DEF Timeout, Requests
    <2>2. Served
        BY <2>1 DEF ThreadsAfter, RequestAfter, NoRequest, Waiting
    <2> QED BY <1>3, <1>5, <1>29, <2>2 DEF Timeout
<1> QED
    BY <1>11, <1>12, <1>13, <1>14, <1>15, <1>16, <1>17, <1>18, <1>20, <1>21, <1>22,
       <1>23, <1>25, <1>26, <1>27, <1>28, <1>29
    DEF TabStep

(***************************************************************************)
(* Whose order it is, whether it was placed, and who paid.                 *)
(***************************************************************************)

\* A payment of customer u was accepted.
Paid(u) == \E p \in payments : SessionUser[p[1]] = u

\* Call c has a copy of its order.
Holds(c) ==
    \/ c.pc \in Running \ {"start"}
    \/ c.op = "update" /\ c.pc = "start"
    \/ c.op = "get" /\ c.pc = "done"

\* A call finds, creates or holds an order of the customer it says; a copy that
\* would make it a placed order is that of an order placed already, or that of
\* a customer who paid.
CallOK(c) ==
    /\ c.op \in {"create", "getActive"} =>
        /\ c.doc.userId \in Users
        /\ c.pc = "start" => c.doc.state = "CART"
        /\ c.pc = "done" => orders[c.id].userId = c.doc.userId
    /\ Holds(c) => c.doc.userId \in Users /\ orders[c.id].userId = c.doc.userId
    /\ c.op = "setState" /\ c.pc = "start" => c.doc.state = "CART"
    /\ c.op = "update" /\ c.pc \in Running =>
        c.doc.state = "PRE_SHIPPING" /\ Paid(c.doc.userId)
    /\ c.op # "update" /\ c.pc \in Running \ {"start"} /\ c.doc.state \in PlacedStates =>
        c.id \in placed

\* A copy the admin server is about to write belongs to the same customer, is
\* that of a placed order if it looks so, and does not place the order again.
AdminCallOK(c) ==
    c.pc = "writeOrder" =>
        /\ c.doc.userId \in Users /\ orders[c.id].userId = c.doc.userId
        /\ c.doc.state \in PlacedStates => c.id \in placed
        /\ c.doc.state # "PRE_SHIPPING"

\* What a search sees belongs to the same customer; only placed orders, which
\* exist, have the state of a placed order.
DocumentsOK ==
    \A o \in OrderIds :
        /\ ~Present(o) => orders[o].state = "CART"
        /\ visible[o].userId \in {NoUser, orders[o].userId}
        /\ orders[o].state \in PlacedStates => o \in placed
        /\ o \in placed => Present(o)

\* A request looks for, or creates, an order of its own customer; a session with
\* a successful payment belongs to a customer who paid.
FrontOK ==
    /\ \A t \in Tabs : req[t].at \in NoOrderYet =>
            srv[req[t].worker].doc.userId = UserOf(t)
    /\ \A s \in Sessions : session[s].paymentSuccess = "true" => Paid(SessionUser[s])

\* The inductive invariant, together with IInv.
Placement ==
    /\ DocumentsOK
    /\ \A w \in Workers : CallOK(srv[w])
    /\ \A a \in Admins : AdminCallOK(adm[a])
    /\ FrontOK
    /\ CustomersKeepToTheirOrders
    /\ PlacedAfterPayment

\* What no step takes back.
Stay ==
    /\ \A o \in OrderIds : Present(o) => orders'[o].userId = orders[o].userId
    /\ placed \subseteq placed'
    /\ payments \subseteq payments'

\* A call that is all right remains so as long as orders keep their customer,
\* placed orders stay placed and payments are not forgotten.
LEMMA CallStays ==
    ASSUME Stay, NEW c \in Call, WellFormed(c), CallOK(c)
    PROVE  CallOK(c)'
<1>1. Holds(c) => c.id \in OrderIds
    BY DEF Holds, WellFormed, Call
<1>2. c.pc = "done" => c.id \in OrderIds
    BY DEF WellFormed, Call
<1>3. \A u : Paid(u) => Paid(u)'
    BY DEF Stay, Paid
<1> QED BY <1>1, <1>2, <1>3, NoUserAssumption DEF Stay, CallOK, Present

\* The same for a call of the admin server.
LEMMA AdminCallStays ==
    ASSUME Stay, NEW c \in AdminCall, c.pc = "writeOrder" => c.id # NoOrder, AdminCallOK(c)
    PROVE  AdminCallOK(c)'
    BY NoUserAssumption DEF Stay, AdminCallOK, AdminCall, Present

\* Sessions, requests and payments stay with their customers when only orders
\* change and none of them changes its customer.
LEMMA CustomersStay ==
    ASSUME Stay, CustomersKeepToTheirOrders, IInv, UNCHANGED frontVars
    PROVE  CustomersKeepToTheirOrders'
<1>1. ASSUME NEW s \in Sessions, NEW o \in OrderIds, Owns(s, o)
      PROVE  Owns(s, o)'
    BY <1>1, SessionUserAssumption, NoUserAssumption DEF Owns, Stay, Present
<1>2. ASSUME NEW s \in Sessions
      PROVE  session[s].activeOrderId \in OrderIds \cup {NoOrder}
    BY DEF IInv, Attributes, Session
<1>3. ASSUME NEW t \in Tabs
      PROVE  req[t].orderId \in OrderIds \cup {NoOrder} /\ TabSession[t] \in Sessions
    BY TabSessionAssumption DEF IInv, Requests, Request
<1>4. ASSUME NEW p \in payments
      PROVE  p[1] \in Sessions /\ p[2] \in OrderIds
    BY DEF IInv, Attributes
<1>5. UNCHANGED <<session, req, payments>>
    BY DEF frontVars
<1> QED BY <1>1, <1>2, <1>3, <1>4, <1>5 DEF CustomersKeepToTheirOrders

\* Every step of the order server keeps Placement: one case per kind of step
\* that ServerStepEffect names.
LEMMA ServerKeepsPlacement ==
    ASSUME IInv, Placement, NEW w \in Workers, ServerStep(w), UNCHANGED <<adm, frontVars>>
    PROVE  Placement'
<1> DEFINE c == srv[w]
<1> PICK d : d = srv'[w]
    OBVIOUS
<1>1. /\ IndexTypeOK /\ srv \in [Workers -> Call] /\ c \in Call
      /\ \A x \in Workers : WellFormed(srv[x])
    BY DEF IInv, Requests, ServerTypeOK
<1>2. Advances(c, d) /\ \A x \in Workers : x # w => srv'[x] = srv[x]
    BY ServerStepEffect DEF IInv, Requests
<1>3. DocumentsOK /\ CallOK(c) /\ PlacedAfterPayment
    BY DEF Placement
<1>4. \A o \in OrderIds : orders[o].userId \in Users \cup {NoUser}
    BY <1>1 DEF IndexTypeOK, Order
<1>5. ASSUME NEW o \in OrderIds, NEW doc, StoreOrder(o, doc)
      PROVE  /\ orders'[o] = doc
             /\ \A x \in OrderIds : x # o => orders'[x] = orders[x]
             /\ visible' = visible
             /\ placed' = IF doc.state = "PRE_SHIPPING" THEN placed \cup {o} ELSE placed
    BY <1>1, <1>5 DEF StoreOrder, IndexTypeOK
<1>6. payments' = payments /\ \A u : Paid(u)' <=> Paid(u)
    BY DEF frontVars, Paid
<1>7. PlacedAfterPayment <=> \A o \in placed : Paid(orders[o].userId)
    BY DEF PlacedAfterPayment, Paid
<1>8. PlacedAfterPayment' <=> \A o \in placed' : Paid(orders'[o].userId)
    BY <1>6 DEF PlacedAfterPayment, Paid
<1>9. placed \subseteq OrderIds
    BY <1>1 DEF IndexTypeOK
<1>10. Stay /\ DocumentsOK' /\ PlacedAfterPayment'
    <2>1. CASE Creates(c, d)
        <3>1. c.doc.userId \in Users /\ c.doc.state = "CART"
            BY <1>3, <2>1 DEF Creates, CallOK
        <3>2. /\ d.id \in OrderIds /\ ~Present(d.id) /\ orders'[d.id] = c.doc
              /\ \A x \in OrderIds : x # d.id => orders'[x] = orders[x]
              /\ visible' = visible /\ placed' = placed
            BY <1>5, <2>1, <3>1 DEF Creates
        <3>3. DocumentsOK'
            BY <1>3, <3>1, <3>2, NoUserAssumption DEF DocumentsOK, Present, PlacedStates
        <3>4. PlacedAfterPayment'
            BY <1>3, <1>7, <1>8, <1>9, <3>2 DEF DocumentsOK
        <3> QED BY <1>6, <3>2, <3>3, <3>4 DEF Stay
    <2>2. CASE Writes(c, d)
        <3>1. /\ c.doc.userId \in Users /\ orders[c.id].userId = c.doc.userId
              /\ c.doc.state = "PRE_SHIPPING" => c.id \in placed \/ Paid(c.doc.userId)
              /\ c.doc.state = "SHIPPED" => c.id \in placed
            BY <1>3, <2>2 DEF Writes, CallOK, Holds, Running, PlacedStates
        <3>2. /\ c.id \in OrderIds /\ orders'[c.id] = c.doc
              /\ \A x \in OrderIds : x # c.id => orders'[x] = orders[x]
              /\ visible' = visible
              /\ placed' = IF c.doc.state = "PRE_SHIPPING" THEN placed \cup {c.id} ELSE placed
            BY <1>5, <2>2 DEF Writes
        <3>3. DocumentsOK'
            BY <1>3, <3>1, <3>2, NoUserAssumption DEF DocumentsOK, Present, PlacedStates
        <3>4. PlacedAfterPayment'
            BY <1>3, <1>7, <1>8, <1>9, <3>1, <3>2
        <3> QED BY <1>6, <3>1, <3>2, <3>3, <3>4 DEF Stay
    <2>3. CASE OrdersKept
        BY <1>3, <1>6, <1>7, <1>8, <2>3 DEF OrdersKept, Stay, DocumentsOK, Present
    <2> QED BY <1>2, <2>1, <2>2, <2>3 DEF Advances, Ends, Finds, Gets, Takes, Works
<1>11. CallOK(d)'
    <2>1. CASE Creates(c, d)
        BY <1>3, <1>5, <2>1 DEF Creates, CallOK, Holds, Running
    <2>2. CASE Writes(c, d)
        BY <2>2 DEF Writes, CallOK, Holds, Running
    <2>3. CASE Ends(c, d)
        BY <1>3, <2>3 DEF Ends, CallOK, Holds, Running
    <2>4. CASE Finds(c, d)
        BY <1>3, <2>4, NoUserAssumption
        DEF Finds, OrdersKept, DocumentsOK, CallOK, Holds, Running
    <2>5. CASE Gets(c, d)
        BY <1>3, <1>4, <2>5 DEF Gets, OrdersKept, Present, CallOK, Holds, Running
    <2>6. CASE Takes(c, d)
        BY <1>3, <1>4, <2>6
        DEF Takes, OrdersKept, Present, DocumentsOK, CallOK, Holds, Running, PlacedStates
    <2>7. CASE Works(c, d)
        BY <1>3, <1>6, <2>7 DEF Works, OrdersKept, CallOK, Holds, Running
    <2> QED BY <1>2, <2>1, <2>2, <2>3, <2>4, <2>5, <2>6, <2>7 DEF Advances
<1>12. \A x \in Workers : CallOK(srv[x])'
    <2>2. CallOK(srv[w])'
        BY <1>11 DEF CallOK, Holds
    <2> SUFFICES ASSUME NEW x \in Workers, x # w PROVE CallOK(srv[x])'
        BY <2>2
    <2>1. srv[x] \in Call /\ WellFormed(srv[x]) /\ CallOK(srv[x]) /\ srv'[x] = srv[x]
        BY <1>1, <1>2 DEF Placement
    <2> QED BY <1>10, <2>1, CallStays
<1>13. \A a \in Admins : AdminCallOK(adm[a])'
    <2> SUFFICES ASSUME NEW a \in Admins PROVE AdminCallOK(adm[a])'
        OBVIOUS
    <2>1. /\ adm[a] \in AdminCall
          /\ adm[a].pc = "writeOrder" => adm[a].id # NoOrder
          /\ AdminCallOK(adm[a]) /\ adm'[a] = adm[a]
        BY DEF IInv, AdminTypeOK, Placement
    <2> QED BY <1>10, <2>1, AdminCallStays
<1>14. FrontOK'
    <2>1. ASSUME NEW t \in Tabs, req'[t].at \in NoOrderYet
          PROVE  srv'[req'[t].worker].doc.userId = UserOf(t)
        <3>1. req' = req
            BY DEF frontVars
        <3>2. req[t].worker \in Workers /\ srv[req[t].worker].op \in {"create", "getActive"}
            BY <2>1, <3>1
            DEF IInv, Requests, Request, Linked, NoOrderYet, CallAt, Waiting
        <3>3. c.op \in {"create", "getActive"} => d.doc.userId = c.doc.userId
            BY <1>2
            DEF Advances, Creates, Writes, Ends, Finds, Gets, Takes, Works
        <3>4. srv'[req[t].worker].doc.userId = srv[req[t].worker].doc.userId
            BY <1>2, <3>2, <3>3
        <3>5. srv[req[t].worker].doc.userId = UserOf(t)
            BY <2>1, <3>1 DEF Placement, FrontOK
        <3> QED BY <3>1, <3>4, <3>5
    <2> QED BY <1>6, <2>1 DEF Placement, FrontOK, frontVars
<1>15. CustomersKeepToTheirOrders'
    BY <1>10, CustomersStay DEF Placement
<1> QED BY <1>10, <1>12, <1>13, <1>14, <1>15 DEF Placement

\* Every step of the admin server keeps Placement.
LEMMA AdminKeepsPlacement ==
    ASSUME IInv, Placement, NEW a \in Admins, AdminStep(a), UNCHANGED <<srv, frontVars>>
    PROVE  Placement'
<1> DEFINE c == adm[a]
<1> PICK d : d = adm'[a]
    OBVIOUS
<1>1. /\ IndexTypeOK /\ adm \in [Admins -> AdminCall] /\ c \in AdminCall
      /\ \A x \in Admins : adm[x].pc = "writeOrder" => adm[x].id # NoOrder
    BY DEF IInv, AdminTypeOK
<1>2. /\ \/ TakesShipping(c, d)
         \/ WritesShipping(c, d)
         \/ d.id = NoOrder /\ d.pc # "writeOrder" /\ OrdersKept
      /\ \A x \in Admins : x # a => adm'[x] = adm[x]
    BY AdminStepEffect DEF IInv
<1>3. DocumentsOK /\ AdminCallOK(c) /\ PlacedAfterPayment
    BY DEF Placement
<1>4. \A o \in OrderIds : orders[o] \in Order /\ orders[o].userId \in Users \cup {NoUser}
    BY <1>1 DEF IndexTypeOK, Order
<1>5. payments' = payments /\ \A u : Paid(u)' <=> Paid(u)
    BY DEF frontVars, Paid
<1>6. PlacedAfterPayment <=> \A o \in placed : Paid(orders[o].userId)
    BY DEF PlacedAfterPayment, Paid
<1>7. PlacedAfterPayment' <=> \A o \in placed' : Paid(orders'[o].userId)
    BY <1>5 DEF PlacedAfterPayment, Paid
<1>8. Stay /\ DocumentsOK' /\ PlacedAfterPayment'
    <2>1. CASE WritesShipping(c, d)
        <3>1. /\ c.doc.userId \in Users /\ orders[c.id].userId = c.doc.userId
              /\ c.doc.state \in PlacedStates => c.id \in placed
            BY <1>3, <2>1 DEF WritesShipping, AdminCallOK
        <3>2. /\ c.id \in OrderIds /\ orders'[c.id] = c.doc
              /\ \A x \in OrderIds : x # c.id => orders'[x] = orders[x]
              /\ visible' = visible /\ placed' = placed
            BY <1>1, <2>1, <3>1
            DEF WritesShipping, StoreOrder, IndexTypeOK, PlacedStates
        <3>3. DocumentsOK'
            BY <1>3, <3>1, <3>2, NoUserAssumption DEF DocumentsOK, Present, PlacedStates
        <3>4. PlacedAfterPayment'
            BY <1>1, <1>3, <1>6, <1>7, <1>5, <3>1, <3>2 DEF IndexTypeOK
        <3> QED BY <1>5, <3>1, <3>2, <3>3, <3>4 DEF Stay
    <2>2. CASE OrdersKept
        BY <1>3, <1>5, <1>6, <1>7, <2>2 DEF OrdersKept, Stay, DocumentsOK, Present
    <2> QED BY <1>2, <2>1, <2>2 DEF TakesShipping
<1>9. AdminCallOK(d)'
    <2>1. CASE TakesShipping(c, d)
        <3>1. d.doc.userId = orders[d.id].userId
              /\ (d.doc.state \in PlacedStates <=> orders[d.id].state \in PlacedStates)
              /\ d.doc.state # "PRE_SHIPPING"
            BY <1>4, <2>1 DEF TakesShipping, Shipped, Order, PlacedStates
        <3> QED BY <1>3, <1>4, <2>1, <3>1
                DEF TakesShipping, OrdersKept, DocumentsOK, AdminCallOK, Present
    <2>2. CASE WritesShipping(c, d)
        BY <2>2, AdminIdleTyped DEF WritesShipping, AdminCallOK
    <2>3. CASE d.pc # "writeOrder"
        BY <2>3 DEF AdminCallOK
    <2> QED BY <1>2, <2>1, <2>2, <2>3
<1>10. \A x \in Admins : AdminCallOK(adm[x])'
    <2>1. AdminCallOK(adm[a])'
        BY <1>9 DEF AdminCallOK
    <2> SUFFICES ASSUME NEW x \in Admins, x # a PROVE AdminCallOK(adm[x])'
        BY <2>1
    <2>2. /\ adm[x] \in AdminCall /\ AdminCallOK(adm[x]) /\ adm'[x] = adm[x]
          /\ adm[x].pc = "writeOrder" => adm[x].id # NoOrder
        BY <1>1, <1>2 DEF Placement
    <2> QED BY <1>8, <2>2, AdminCallStays
<1>11. \A x \in Workers : CallOK(srv[x])'
    <2> SUFFICES ASSUME NEW x \in Workers PROVE CallOK(srv[x])'
        OBVIOUS
    <2>1. srv[x] \in Call /\ WellFormed(srv[x]) /\ CallOK(srv[x]) /\ srv'[x] = srv[x]
        BY DEF IInv, Requests, ServerTypeOK, Placement
    <2> QED BY <1>8, <2>1, CallStays
<1>12. FrontOK'
    BY <1>5 DEF Placement, FrontOK, frontVars
<1>13. CustomersKeepToTheirOrders'
    BY <1>8, CustomersStay DEF Placement
<1> QED BY <1>8, <1>10, <1>11, <1>12, <1>13 DEF Placement

\* Every order that a tab can name belongs to the customer of its session: the
\* id was in the session, in the request, or came from getActiveOrder or
\* createOrder for that customer.
LEMMA KnownOwned ==
    ASSUME IInv, Placement, NEW t \in Tabs, NEW o \in Known(t)
    PROVE  Owns(TabSession[t], o)
<1>1. TabSession[t] \in Sessions /\ Requests /\ CustomersKeepToTheirOrders
    BY TabSessionAssumption DEF IInv, Placement
<1>2. o # NoOrder
    BY NoOrderAssumption DEF Known
<1>3. CASE o = Sess(t).activeOrderId
    BY <1>1, <1>2, <1>3 DEF CustomersKeepToTheirOrders, Sess
<1>4. CASE o = req[t].orderId
    BY <1>1, <1>2, <1>4 DEF CustomersKeepToTheirOrders
<1>5. CASE Learns(t) /\ o = Reply(t).id
    <2>1. PICK at \in NoOrderYet : Replied(t, at, {"done"})
        BY <1>5 DEF Learns, NoOrderYet
    <2>2. /\ req[t].worker \in Workers /\ <<at, Reply(t).op>> \in CallAt
          /\ Reply(t).pc = "done"
        BY <1>1, <2>1, ReplyOK DEF NoOrderYet, Waiting, Replied, Reply
    <2>3. Reply(t).op \in {"create", "getActive"}
        BY <2>1, <2>2 DEF CallAt, NoOrderYet
    <2>4. CallOK(Reply(t)) /\ Reply(t).doc.userId = UserOf(t)
        BY <2>1, <2>2 DEF Placement, FrontOK, Replied, Reply
    <2> QED BY <1>5, <2>2, <2>3, <2>4 DEF CallOK, Owns, UserOf
<1> QED BY <1>3, <1>4, <1>5 DEF Known

\* An idle thread is all right.
LEMMA IdleOK == CallOK(Idle)
    BY IdleTyped DEF CallOK, Holds, Idle, Running

\* Every step of a tab keeps Placement.
LEMMA TabKeepsPlacement ==
    ASSUME IInv, Placement, NEW t \in Tabs, TabStep(t)
    PROVE  Placement'
<1>1. /\ ThreadsAfter(t) /\ RequestAfter(t) /\ SessionAfter(t)
      /\ UNCHANGED <<orders, visible, placed, adm>>
    BY TabStepEffect
<1>2. Requests /\ Requests' /\ IInv'
    BY TabStepOK DEF IInv
<1>3. TabSession[t] \in Sessions /\ UserOf(t) \in Users
    BY TabSessionAssumption, SessionUserAssumption DEF UserOf
<1>4. Stay
    BY <1>1 DEF Stay, SessionAfter, Accepts
<1>5. ASSUME Accepts(t)
      PROVE  req[t].orderId \in OrderIds /\ Owns(TabSession[t], req[t].orderId)
    <2>1. req[t].orderId \in OrderIds
        BY <1>2, <1>5, ReplyOK DEF Accepts, Waiting, NoOrderYet
    <2> QED BY <2>1, KnownOwned DEF Known
<1>6. DocumentsOK'
    BY <1>1 DEF Placement, DocumentsOK, Present
<1>7. \A u : Paid(u) => Paid(u)'
    BY <1>4 DEF Stay, Paid
<1>8. PlacedAfterPayment'
    BY <1>1, <1>4 DEF Placement, PlacedAfterPayment, Stay
<1>9. ASSUME NEW c, Starts(t, c)
      PROVE  CallOK(c)'
    <2>1. c.op = "update" => c.doc.userId \in Users /\ orders'[c.id].userId = c.doc.userId
                             /\ Paid(c.doc.userId)'
        <3> SUFFICES ASSUME c.op = "update"
                     PROVE  /\ c.doc.userId \in Users /\ orders'[c.id].userId = c.doc.userId
                            /\ Paid(c.doc.userId)'
            OBVIOUS
        <3>1. /\ Replied(t, "order", {"done"}) /\ Sess(t).paymentSuccess = "true"
              /\ c.id = Reply(t).id /\ c.doc.userId = Reply(t).doc.userId
            BY <1>9 DEF Starts
        <3>2. /\ req[t].worker \in Workers /\ Reply(t).op = "get" /\ Reply(t).pc = "done"
              /\ Reply(t).id = req[t].orderId /\ req[t].orderId \in OrderIds
            BY <1>2, <3>1, ReplyOK DEF Waiting, NoOrderYet, CallAt, Replied, Reply
        <3>3. CallOK(Reply(t))
            BY <3>2 DEF Placement, Reply
        <3>4. c.doc.userId \in Users /\ orders[c.id].userId = c.doc.userId
            BY <3>1, <3>2, <3>3 DEF CallOK, Holds
        <3>5. orders[c.id].userId = SessionUser[TabSession[t]]
            BY <3>1, <3>2, KnownOwned DEF Known, Owns
        <3>6. Paid(SessionUser[TabSession[t]])
            BY <1>3, <3>1 DEF Placement, FrontOK, Sess
        <3> QED BY <1>1, <1>7, <3>4, <3>5, <3>6
    <2>2. c.op \in {"create", "getActive"} => c.doc.userId \in Users /\ c.doc.state = "CART"
        BY <1>3, <1>9 DEF Starts, NewOrder
    <2> QED BY <1>9, <2>1, <2>2 DEF Starts, CallOK, Holds, Running
<1>10. \A w \in Workers : CallOK(srv[w])'
    <2> SUFFICES ASSUME NEW w \in Workers PROVE CallOK(srv[w])'
        OBVIOUS
    <2> PICK c : c = srv'[w]
        OBVIOUS
    <2>1. CallOK(c)'
        <3>1. CASE c = srv[w]
            <4>1. srv[w] \in Call /\ WellFormed(srv[w]) /\ CallOK(srv[w])
                BY <1>2 DEF Requests, ServerTypeOK, Placement
            <4> QED BY <1>4, <3>1, <4>1, CallStays
        <3>2. CASE c = Idle
            BY <1>4, <3>2, IdleTyped, IdleOK, CallStays
        <3>3. CASE Starts(t, c)
            BY <1>9, <3>3
        <3> QED BY <1>1, <3>1, <3>2, <3>3 DEF ThreadsAfter
    <2> QED BY <2>1 DEF CallOK, Holds
<1>11. \A a \in Admins : AdminCallOK(adm[a])'
    <2> SUFFICES ASSUME NEW a \in Admins PROVE AdminCallOK(adm[a])'
        OBVIOUS
    <2>1. /\ adm[a] \in AdminCall /\ AdminCallOK(adm[a]) /\ adm'[a] = adm[a]
          /\ adm[a].pc = "writeOrder" => adm[a].id # NoOrder
        BY <1>1 DEF IInv, AdminTypeOK, Placement
    <2> QED BY <1>4, <2>1, AdminCallStays
<1>12. ASSUME NEW t2 \in Tabs, req'[t2].at \in NoOrderYet
       PROVE  srv'[req'[t2].worker].doc.userId = UserOf(t2)
    <2>1. /\ req'[t2].worker \in Workers /\ req'[t2].at \in Waiting
          /\ srv'[req'[t2].worker].op \in {"create", "getActive"}
        BY <1>2, <1>12 DEF Requests, Request, Linked, NoOrderYet, CallAt, Waiting
    <2>2. CASE t2 = t
        BY <1>1, <2>1, <2>2 DEF ThreadsAfter, Starts, NewOrder
    <2>3. CASE t2 # t
        <3>1. req'[t2] = req[t2]
            BY <1>1, <2>3 DEF RequestAfter
        <3>2. req'[t2].worker # req'[t].worker
            BY <1>2, <2>1, <2>3, NoWorkerAssumption DEF Requests, Linked
        <3>3. srv'[req'[t2].worker] = srv[req[t2].worker]
            BY <1>1, <2>1, <3>1, <3>2, IdleTyped DEF ThreadsAfter
        <3> QED BY <1>12, <3>1, <3>3 DEF Placement, FrontOK
    <2> QED BY <2>2, <2>3
<1>13. ASSUME NEW s \in Sessions, session'[s].paymentSuccess = "true"
       PROVE  Paid(SessionUser[s])'
    <2>1. CASE session[s].paymentSuccess = "true"
        BY <1>7, <2>1 DEF Placement, FrontOK
    <2>2. CASE s = TabSession[t] /\ Accepts(t)
        <3> DEFINE p == <<s, req[t].orderId>>
        <3>1. p \in payments' /\ p[1] = s
            BY <2>2 DEF Accepts
        <3> QED BY <3>1 DEF Paid
    <2> QED BY <1>1, <1>13, <2>1, <2>2 DEF SessionAfter, Sess
<1>14. CustomersKeepToTheirOrders'
    <2>1. ASSUME NEW o \in Known(t)
          PROVE  o \in OrderIds /\ orders'[o].userId = SessionUser[TabSession[t]]
        BY <1>1, KnownOwned DEF Known, Owns
    <2>2. CustomersKeepToTheirOrders
        BY DEF Placement
    <2>3. ASSUME NEW s \in Sessions, session'[s].activeOrderId # NoOrder
          PROVE  orders'[session'[s].activeOrderId].userId = SessionUser[s]
        <3>1. CASE s = TabSession[t]
            BY <1>1, <2>1, <2>3, <3>1 DEF SessionAfter, Sess
        <3>2. CASE s # TabSession[t]
            BY <1>1, <2>2, <2>3, <3>2 DEF SessionAfter, CustomersKeepToTheirOrders, Owns
        <3> QED BY <3>1, <3>2
    <2>4. ASSUME NEW t2 \in Tabs, req'[t2].orderId # NoOrder
          PROVE  orders'[req'[t2].orderId].userId = SessionUser[TabSession[t2]]
        <3>1. CASE t2 = t
            BY <1>1, <2>1, <2>4, <3>1 DEF RequestAfter
        <3>2. CASE t2 # t
            BY <1>1, <2>2, <2>4, <3>2 DEF RequestAfter, CustomersKeepToTheirOrders, Owns
        <3> QED BY <3>1, <3>2
    <2>5. ASSUME NEW p \in payments'
          PROVE  orders'[p[2]].userId = SessionUser[p[1]]
        <3>1. CASE p \in payments
            BY <1>1, <2>2, <3>1 DEF CustomersKeepToTheirOrders, Owns
        <3>2. CASE Accepts(t) /\ p = <<TabSession[t], req[t].orderId>>
            BY <1>1, <1>5, <3>2 DEF Owns
        <3> QED BY <1>1, <3>1, <3>2 DEF SessionAfter, Accepts
    <2> QED BY <2>3, <2>4, <2>5 DEF CustomersKeepToTheirOrders, Owns
<1> QED BY <1>6, <1>8, <1>10, <1>11, <1>12, <1>13, <1>14 DEF Placement, FrontOK

\* Placement holds initially.
LEMMA InitPlacement == StorefrontInit => Placement
<1> SUFFICES ASSUME StorefrontInit PROVE Placement
    OBVIOUS
<1>1. /\ \A o \in OrderIds : orders[o] = NoDoc /\ visible[o] = NoDoc
      /\ placed = {} /\ payments = {}
      /\ \A s \in Sessions : session[s] = NewSession
      /\ \A t \in Tabs : req[t] = NoRequest
      /\ \A a \in Admins : adm[a] = AdminIdle
      /\ \A w \in Workers : srv[w] = Idle
    BY DEF StorefrontInit, IndexInit, ServerInit, AdminInit
<1>2. DocumentsOK
    BY <1>1 DEF DocumentsOK, Present, NoDoc, NewOrder, PlacedStates
<1>3. \A w \in Workers : CallOK(srv[w])
    BY <1>1, IdleOK
<1>4. \A a \in Admins : AdminCallOK(adm[a])
    BY <1>1, AdminIdleTyped DEF AdminCallOK
<1>5. FrontOK
    BY <1>1 DEF FrontOK, NewSession, NoRequest, NoOrderYet
<1>6. CustomersKeepToTheirOrders
    BY <1>1 DEF CustomersKeepToTheirOrders, NewSession, NoRequest
<1>7. PlacedAfterPayment
    BY <1>1 DEF PlacedAfterPayment
<1> QED BY <1>2, <1>3, <1>4, <1>5, <1>6, <1>7 DEF Placement

\* Every step keeps Placement.
LEMMA NextPlacement == IInv /\ Placement /\ [Next]_vars => Placement'
<1> SUFFICES ASSUME IInv, Placement, [Next]_vars PROVE Placement'
    OBVIOUS
<1>1. ASSUME Stay, NEW a \in Admins, adm' = adm
      PROVE  AdminCallOK(adm[a])'
    <2>1. /\ adm[a] \in AdminCall /\ AdminCallOK(adm[a]) /\ adm'[a] = adm[a]
          /\ adm[a].pc = "writeOrder" => adm[a].id # NoOrder
        BY <1>1 DEF IInv, AdminTypeOK, Placement
    <2> QED BY <1>1, <2>1, AdminCallStays
<1>2. ASSUME Stay, NEW w \in Workers, srv'[w] = srv[w] \/ srv'[w] = Idle
      PROVE  CallOK(srv[w])'
    <2>1. srv[w] \in Call /\ WellFormed(srv[w]) /\ CallOK(srv[w])
        BY DEF IInv, Requests, ServerTypeOK, Placement
    <2>2. CASE srv'[w] = srv[w]
        BY <1>2, <2>1, <2>2, CallStays
    <2>3. CASE srv'[w] = Idle
        <3>1. CallOK(Idle)'
            BY <1>2, IdleTyped, IdleOK, CallStays
        <3> QED BY <2>3, <3>1 DEF CallOK, Holds
    <2> QED BY <1>2, <2>2, <2>3
<1>3. CASE \E t \in Tabs : TabStep(t)
    BY <1>3, TabKeepsPlacement
<1>4. CASE \E w \in Workers : ServerStep(w) /\ UNCHANGED <<adm, frontVars>>
    BY <1>4, ServerKeepsPlacement
<1>5. CASE \E a \in Admins : AdminStep(a) /\ UNCHANGED <<srv, frontVars>>
    BY <1>5, AdminKeepsPlacement
<1>6. CASE \E w \in Workers : DropReply(w)
    <2>1. PICK w \in Workers : DropReply(w)
        BY <1>6
    <2>2. /\ srv' = [srv EXCEPT ![w] = Idle] /\ UNCHANGED <<orders, visible, placed, adm>>
          /\ UNCHANGED frontVars /\ \A t \in Tabs : req[t].worker # w
        BY <2>1 DEF DropReply, backVars, indexVars
    <2>3. Stay /\ \A x \in Workers : srv'[x] = srv[x] \/ srv'[x] = Idle
        BY <2>2 DEF Stay, frontVars, IInv, Requests, ServerTypeOK
    <2>4. DocumentsOK' /\ PlacedAfterPayment'
        BY <2>2 DEF Placement, DocumentsOK, Present, PlacedAfterPayment, frontVars
    <2>5. \A t \in Tabs : srv'[req[t].worker] = srv[req[t].worker]
        BY <2>2 DEF IInv, Requests, ServerTypeOK
    <2>6. FrontOK'
        BY <2>2, <2>5 DEF Placement, FrontOK, frontVars, Paid
    <2>7. CustomersKeepToTheirOrders'
        BY <2>2, <2>3, CustomersStay DEF Placement
    <2> QED BY <1>1, <1>2, <2>2, <2>3, <2>4, <2>6, <2>7 DEF Placement
<1>7. CASE \E s \in Sessions : NewLogin(s)
    <2>1. PICK s \in Sessions : NewLogin(s)
        BY <1>7
    <2>2. /\ session' = [session EXCEPT ![s] = NewSession]
          /\ UNCHANGED <<orders, visible, placed, adm, srv, req, payments>>
        BY <2>1 DEF NewLogin, backVars, indexVars
    <2>3. Stay
        BY <2>2 DEF Stay
    <2>4. DocumentsOK' /\ PlacedAfterPayment'
        BY <2>2 DEF Placement, DocumentsOK, Present, PlacedAfterPayment
    <2>5. \A x \in Sessions : session'[x] = session[x] \/ session'[x] = NewSession
        BY <2>2 DEF IInv, Attributes
    <2>6. FrontOK'
        BY <2>2, <2>5 DEF Placement, FrontOK, Paid, NewSession
    <2>7. CustomersKeepToTheirOrders'
        BY <2>2, <2>5 DEF Placement, CustomersKeepToTheirOrders, Owns, NewSession
    <2> QED BY <1>1, <1>2, <2>2, <2>3, <2>4, <2>6, <2>7 DEF Placement
<1>8. CASE \E o \in OrderIds : Refresh(o) /\ UNCHANGED <<srv, adm, frontVars>>
    <2>1. PICK o \in OrderIds : Refresh(o) /\ UNCHANGED <<srv, adm, frontVars>>
        BY <1>8
    <2>2. /\ visible' = [visible EXCEPT ![o] = orders[o]]
          /\ UNCHANGED <<orders, placed, srv, adm>> /\ UNCHANGED frontVars
        BY <2>1 DEF Refresh
    <2>3. Stay
        BY <2>2 DEF Stay, frontVars
    <2>4. DocumentsOK' /\ PlacedAfterPayment'
        BY <2>2 DEF Placement, DocumentsOK, Present, PlacedAfterPayment, frontVars,
           IInv, IndexTypeOK
    <2>5. FrontOK'
        BY <2>2 DEF Placement, FrontOK, frontVars, Paid
    <2>6. CustomersKeepToTheirOrders'
        BY <2>2, <2>3, CustomersStay DEF Placement
    <2> QED BY <1>1, <1>2, <2>2, <2>3, <2>4, <2>5, <2>6 DEF Placement
<1>9. CASE UNCHANGED vars
    <2>1. /\ UNCHANGED <<orders, visible, placed, srv, adm>> /\ UNCHANGED frontVars
        BY <1>9 DEF vars, indexVars
    <2>2. Stay
        BY <2>1 DEF Stay, frontVars
    <2>3. DocumentsOK' /\ PlacedAfterPayment' /\ FrontOK'
        BY <2>1 DEF Placement, DocumentsOK, Present, PlacedAfterPayment, FrontOK,
           frontVars, Paid
    <2>4. CustomersKeepToTheirOrders'
        BY <2>1, <2>2, CustomersStay DEF Placement
    <2> QED BY <1>1, <1>2, <2>1, <2>2, <2>3, <2>4 DEF Placement
<1> QED BY <1>3, <1>4, <1>5, <1>6, <1>7, <1>8, <1>9 DEF Next

\* Placement always holds.
LEMMA PlacementInvariant == Spec => []Placement
<1>1. Spec => []IInv
    BY Invariant
<1> QED BY <1>1, InitPlacement, NextPlacement, PTL DEF Spec

\* The order a session holds active, the one a request works on and the one a
\* payment is for always belong to the customer of the session: no server
\* checks it, the order id only travels from getActiveOrder or createOrder
\* through the session (OrderUtilsImpl.getActiveOrderId).
THEOREM CustomersKept == Spec => []CustomersKeepToTheirOrders
<1>1. Placement => CustomersKeepToTheirOrders
    BY DEF Placement
<1> QED BY <1>1, PlacementInvariant, PTL

\* A shipped order was placed before, although setShipped writes back a copy
\* that may be stale (OrderServiceImpl.setShipped of the admin server).
THEOREM ShippedPlaced == Spec => []ShippedWasPlaced
<1>1. Placement => ShippedWasPlaced
    BY DEF Placement, DocumentsOK, PlacedStates, ShippedWasPlaced
<1> QED BY <1>1, PlacementInvariant, PTL

\* An order is placed only if its customer had a payment accepted, with any
\* number of tabs, sessions, failures and late answers
\* (OrderController.payment, PaymentController.authorizePayment).
THEOREM PlacedPaid == Spec => []PlacedAfterPayment
<1>1. Placement => PlacedAfterPayment
    BY DEF Placement
<1> QED BY <1>1, PlacementInvariant, PTL

(***************************************************************************)
(* Settled orders.                                                         *)
(***************************************************************************)

\* No step unsettles a settled order or changes more of it than its state,
\* which can become SHIPPED.
LEMMA SettledStep ==
    ASSUME IInv, Placement, [Next]_vars, NEW o \in OrderIds, Settled(o)
    PROVE  /\ Settled(o)'
           /\ ContentsOf(orders'[o]) = ContentsOf(orders[o])
           /\ orders'[o].state \in {orders[o].state, "SHIPPED"}
<1> DEFINE Final == /\ Settled(o)'
                    /\ ContentsOf(orders'[o]) = ContentsOf(orders[o])
                    /\ orders'[o].state \in {orders[o].state, "SHIPPED"}
<1> USE NoOrderAssumption
<1>1. Present(o) /\ o # NoOrder
    BY DEF Settled, Placement, DocumentsOK, PlacedStates
<1>2. ASSUME UNCHANGED <<visible, adm>>, orders'[o] = orders[o],
             \A s \in Sessions : session'[s].activeOrderId # o,
             \A t \in Tabs : req'[t].orderId # o,
             \A w \in Workers : srv'[w].id # o
      PROVE  Final
    BY <1>2 DEF Settled, ContentsOf
<1>3. CASE \E t \in Tabs : TabStep(t)
    <2>1. PICK t \in Tabs : TabStep(t)
        BY <1>3
    <2>2. /\ ThreadsAfter(t) /\ RequestAfter(t) /\ SessionAfter(t)
          /\ UNCHANGED <<orders, visible, placed, adm>>
        BY <2>1, TabStepEffect
    <2>3. o \notin Known(t)
        <3>1. Learns(t) => req[t].worker \in Workers
            BY ReplyOK DEF Learns, IInv, Waiting
        <3> QED BY <3>1, TabSessionAssumption DEF Settled, Known, Sess, Reply
    <2>4. \A s \in Sessions : session'[s].activeOrderId # o
        BY <1>1, <2>2, <2>3 DEF SessionAfter, Sess, Settled
    <2>5. \A t2 \in Tabs : req'[t2].orderId # o
        BY <1>1, <2>2, <2>3 DEF RequestAfter, Settled
    <2>6. \A w \in Workers : srv'[w].id # o
        BY <1>1, <2>2, <2>3 DEF ThreadsAfter, Starts, Settled, Idle
    <2> QED BY <1>2, <2>2, <2>4, <2>5, <2>6
<1>4. CASE \E w \in Workers : ServerStep(w) /\ UNCHANGED <<adm, frontVars>>
    <2>1. PICK w \in Workers : ServerStep(w) /\ UNCHANGED <<adm, frontVars>>
        BY <1>4
    <2>2. Advances(srv[w], srv'[w]) /\ \A x \in Workers : x # w => srv'[x] = srv[x]
        BY <2>1, ServerStepEffect DEF IInv, Requests
    <2>3. srv[w].id # o /\ visible[o].state \in PlacedStates
        BY DEF Settled
    <2>4. srv'[w].id # o
        BY <1>1, <2>2, <2>3
        DEF Advances, Creates, Writes, Ends, Finds, Gets, Takes, Works, ActiveStates
    <2>5. orders'[o] = orders[o] /\ visible' = visible
        <3>1. ASSUME NEW x \in OrderIds, x # o, NEW doc, StoreOrder(x, doc)
              PROVE  orders'[o] = orders[o] /\ visible' = visible
            BY <3>1 DEF StoreOrder, IInv, IndexTypeOK
        <3> QED BY <1>1, <2>2, <2>3, <3>1
                DEF Advances, Creates, Writes, Ends, Finds, Gets, Takes, Works, OrdersKept
    <2> QED BY <1>2, <2>1, <2>2, <2>4, <2>5 DEF Settled, frontVars
<1>5. CASE \E a \in Admins : AdminStep(a) /\ UNCHANGED <<srv, frontVars>>
    <2>1. PICK a \in Admins : AdminStep(a) /\ UNCHANGED <<srv, frontVars>>
        BY <1>5
    <2>2. /\ \/ TakesShipping(adm[a], adm'[a])
             \/ WritesShipping(adm[a], adm'[a])
             \/ adm'[a].id = NoOrder /\ OrdersKept
          /\ \A x \in Admins : x # a => adm'[x] = adm[x]
        BY <2>1, AdminStepEffect DEF IInv
    <2>3. \A x \in Admins : adm[x].id = o =>
            /\ adm[x].doc.state = "SHIPPED"
            /\ ContentsOf(adm[x].doc) = ContentsOf(orders[o])
        <3>1. ASSUME NEW x \in Admins, adm[x].id = o
              PROVE  adm[x].doc.state # "PRE_SHIPPING"
            BY <1>1, <3>1 DEF IInv, AdminTypeOK, Placement, AdminCallOK
        <3> QED BY <3>1 DEF Settled, PlacedStates
    <2>4. \/ orders'[o] = orders[o]
          \/ \E x \in Admins : adm[x].id = o /\ orders'[o] = adm[x].doc
        BY <2>2 DEF TakesShipping, WritesShipping, StoreOrder, OrdersKept, IInv, IndexTypeOK
    <2>5. /\ ContentsOf(orders'[o]) = ContentsOf(orders[o])
          /\ orders'[o].state \in {orders[o].state, "SHIPPED"}
        BY <2>3, <2>4
    <2>6. visible' = visible /\ UNCHANGED <<session, req, srv>>
        BY <2>1, <2>2
        DEF TakesShipping, WritesShipping, StoreOrder, OrdersKept, frontVars
    <2>7. \A x \in Admins : adm'[x].id = o =>
            /\ adm'[x].doc.state = "SHIPPED"
            /\ ContentsOf(adm'[x].doc) = ContentsOf(orders'[o])
        <3> SUFFICES ASSUME NEW x \in Admins, adm'[x].id = o
                     PROVE  /\ adm'[x].doc.state = "SHIPPED"
                            /\ ContentsOf(adm'[x].doc) = ContentsOf(orders'[o])
            OBVIOUS
        <3>1. CASE x # a
            BY <2>2, <2>3, <2>5, <3>1
        <3>2. CASE x = a
            <4>1. TakesShipping(adm[a], adm'[a])
                BY <1>1, <2>2, <3>2, AdminIdleTyped DEF WritesShipping
            <4>2. adm'[a].doc = Shipped(orders[o]) /\ orders' = orders
                BY <3>2, <4>1 DEF TakesShipping, OrdersKept
            <4>3. orders[o] \in Order /\ orders[o].state \in PlacedStates
                BY DEF IInv, IndexTypeOK, Settled
            <4> QED BY <3>2, <4>2, <4>3 DEF Shipped, Order, PlacedStates, ContentsOf
        <3> QED BY <3>1, <3>2
    <2> QED BY <2>5, <2>6, <2>7 DEF Settled, PlacedStates
<1>6. CASE \E w \in Workers : DropReply(w)
    BY <1>1, <1>2, <1>6
    DEF DropReply, backVars, indexVars, frontVars, Settled, Idle, IInv, Requests, ServerTypeOK
<1>7. CASE \E s \in Sessions : NewLogin(s)
    BY <1>1, <1>2, <1>7
    DEF NewLogin, backVars, indexVars, Settled, NewSession, IInv, Attributes
<1>8. CASE \E x \in OrderIds : Refresh(x) /\ UNCHANGED <<srv, adm, frontVars>>
    BY <1>8 DEF Refresh, frontVars, Settled, ContentsOf, IInv, IndexTypeOK
<1>9. CASE UNCHANGED vars
    BY <1>2, <1>9 DEF vars, indexVars, frontVars, Settled
<1> QED BY <1>3, <1>4, <1>5, <1>6, <1>7, <1>8, <1>9 DEF Next

\* A settled order stays settled and keeps its customer, items and subtotal:
\* nothing that is still under way, late answers and the operator included,
\* can reach it, although most handlers of the order server change an order
\* whatever its state.
THEOREM SettledFinal == Spec => SettledOrdersAreFinal
<1>1. IInv /\ Placement /\ [Next]_vars =>
        \A o \in OrderIds : Settled(o) =>
            /\ Settled(o)'
            /\ ContentsOf(orders'[o]) = ContentsOf(orders[o])
            /\ orders'[o].state \in {orders[o].state, "SHIPPED"}
    BY SettledStep
<1> QED BY <1>1, Invariant, PlacementInvariant, PTL DEF Spec, SettledOrdersAreFinal

(***************************************************************************)
(* The life of an order, when the calls on it do not overlap.  Only one    *)
(* handler looks at the state before it writes one; of the others the      *)
(* state is right because what they, or the page that called them, have    *)
(* read is still true.                                                     *)
(***************************************************************************)

\* No two threads hold the same order, from the call to the moment its reply is
\* picked up.
Apart == \A w, x \in Workers : srv[w].id = srv[x].id /\ srv[w].id # NoOrder => w = x

\* The operator ships no order.
NoShipping == Admins = {} \/ "setShipped" \notin AdminOps

\* What call c has read of its order is still so.
CallFresh(c) ==
    /\ c.op = "get" /\ c.pc = "done" => c.doc.state = orders[c.id].state
    /\ c.op = "checkout" /\ c.pc \in Running =>
        /\ orders[c.id].state = "CART"
        /\ c.pc # "start" => c.doc.state = "PRE_AUTHORIZE"
    /\ c.op \in {"addBook", "editCart"} /\ c.pc \in Running \ {"start"} =>
        c.doc.state = orders[c.id].state
    /\ c.op = "setState" /\ c.pc \in Running \ {"start"} =>
        c.doc.state = "CART" /\ orders[c.id].state \in ActiveStates

\* The inductive invariant, together with IInv and Placement, as long as Apart
\* holds.
Fresh ==
    /\ \A w \in Workers : CallFresh(srv[w])
    /\ \A a \in Admins : adm[a].pc # "writeOrder"
    /\ \A o \in OrderIds : orders[o].state # "SHIPPED"

\* The state of order o as the lifecycle sees it, and that of all orders.
Phase(o) == IF Present(o) THEN orders[o].state ELSE "none"
Life == [o \in OrderIds |-> IF Present(o) THEN orders[o].state ELSE "none"]

\* The steps from one state of an order to another, or none.
Allowed(from, to) ==
    \/ from = to
    \/ from = "none" /\ to = "CART"
    \/ from = "CART" /\ to = "PRE_AUTHORIZE"
    \/ from = "PRE_AUTHORIZE" /\ to = "CART"
    \/ from \in {"CART", "PRE_AUTHORIZE"} /\ to = "PRE_SHIPPING"

\* Nothing happens to the orders, or one of them takes such a step.
Lives ==
    \/ orders' = orders
    \/ \E o \in OrderIds, doc \in Order :
        /\ orders' = [orders EXCEPT ![o] = doc]
        /\ doc.userId # NoUser /\ Allowed(Phase(o), doc.state)

\* Then it is a step of the lifecycle.
LEMMA LivesIsAStep ==
    ASSUME IndexTypeOK, Lives PROVE [Lifecycle!Next]_Life
<1>1. CASE orders' = orders
    BY <1>1 DEF Life, Present
<1>2. ASSUME NEW o \in OrderIds, NEW doc \in Order, orders' = [orders EXCEPT ![o] = doc],
             doc.userId # NoUser, Allowed(Phase(o), doc.state)
      PROVE  [Lifecycle!Next]_Life
    <2>1. Life' = [Life EXCEPT ![o] = doc.state]
        BY <1>2 DEF Life, Present, IndexTypeOK
    <2>2. Life[o] = Phase(o)
        BY DEF Life, Phase
    <2>3. CASE Phase(o) = doc.state
        BY <2>1, <2>2, <2>3 DEF Life
    <2>4. ASSUME NEW from, Phase(o) \in from PROVE Lifecycle!Move(o, from, doc.state)
        BY <2>1, <2>2, <2>4 DEF Life, Lifecycle!Move
    <2>5. CASE Phase(o) = "none" /\ doc.state = "CART"
        <3>1. Lifecycle!Create(o)
            BY <2>4, <2>5 DEF Lifecycle!Create
        <3> QED BY <3>1 DEF Lifecycle!Next
    <2>6. CASE Phase(o) = "CART" /\ doc.state = "PRE_AUTHORIZE"
        <3>1. Lifecycle!CheckOut(o)
            BY <2>4, <2>6 DEF Lifecycle!CheckOut
        <3> QED BY <3>1 DEF Lifecycle!Next
    <2>7. CASE Phase(o) = "PRE_AUTHORIZE" /\ doc.state = "CART"
        <3>1. Lifecycle!Reopen(o)
            BY <2>4, <2>7 DEF Lifecycle!Reopen
        <3> QED BY <3>1 DEF Lifecycle!Next
    <2>8. CASE Phase(o) \in {"CART", "PRE_AUTHORIZE"} /\ doc.state = "PRE_SHIPPING"
        <3>1. Lifecycle!Place(o)
            BY <2>4, <2>8 DEF Lifecycle!Place
        <3> QED BY <3>1 DEF Lifecycle!Next
    <2> QED BY <1>2, <2>3, <2>5, <2>6, <2>7, <2>8 DEF Allowed
<1> QED BY <1>1, <1>2 DEF Lives

\* A call whose order is not written stays fresh.
LEMMA FreshStays ==
    ASSUME NEW c, CallFresh(c), orders'[c.id] = orders[c.id] PROVE CallFresh(c)'
    BY DEF CallFresh

\* An idle thread has read nothing.
LEMMA IdleFresh == CallFresh(Idle)
    BY DEF CallFresh, Idle, Running

\* A step of the order server that writes order o: no other thread has it.
LEMMA WriteKeepsFresh ==
    ASSUME IInv, Placement, Fresh, NEW w \in Workers, NEW o \in OrderIds, NEW doc \in Order,
           StoreOrder(o, doc), UNCHANGED adm, doc.state # "SHIPPED",
           \A x \in Workers : x # w => srv'[x] = srv[x] /\ srv[x].id # o,
           srv'[w].pc = "done", srv'[w].op # "get"
    PROVE  Fresh'
<1>1. \A p \in OrderIds : orders'[p] = IF p = o THEN doc ELSE orders[p]
    BY DEF StoreOrder, IInv, IndexTypeOK
<1>2. orders \in [OrderIds -> Order] /\ orders' = [orders EXCEPT ![o] = doc]
    BY DEF StoreOrder, IInv, IndexTypeOK
<1>3. ASSUME NEW x \in Workers, x # w PROVE CallFresh(srv[x])'
    <2>1. CallFresh(srv[x]) /\ srv'[x] = srv[x] /\ srv[x].id # o
        BY <1>3 DEF Fresh
    <2>2. orders'[srv[x].id] = orders[srv[x].id]
        BY <1>2, <2>1
    <2> QED BY <2>1, <2>2 DEF CallFresh
<1>4. CallFresh(srv[w])'
    BY DEF CallFresh, Running
<1>5. \A x \in Workers : CallFresh(srv[x])'
    BY <1>3, <1>4
<1> QED BY <1>1, <1>5 DEF Fresh

\* A step of the order server that writes no order.
LEMMA CallKeepsFresh ==
    ASSUME Fresh, NEW w \in Workers, UNCHANGED <<orders, adm>>,
           \A x \in Workers : x # w => srv'[x] = srv[x], CallFresh(srv[w])'
    PROVE  Fresh' /\ Lives
<1>1. \A x \in Workers : CallFresh(srv[x])'
    BY DEF Fresh, CallFresh
<1> QED BY <1>1 DEF Fresh, Lives

\* Every step of the order server: one case per kind of step.
LEMMA ServerLives ==
    ASSUME IInv, Placement, Fresh, Apart, Apart', NEW w \in Workers, ServerStep(w),
           UNCHANGED <<adm, frontVars>>
    PROVE  Fresh' /\ Lives
<1> DEFINE c == srv[w]
           d == srv'[w]
<1> USE NoOrderAssumption, NoUserAssumption
<1>1. /\ Advances(c, d) /\ \A x \in Workers : x # w => srv'[x] = srv[x]
      /\ c \in Call /\ CallOK(c) /\ CallFresh(c)
    BY ServerStepEffect DEF IInv, Requests, ServerTypeOK, Placement, Fresh
<1>2. \A x \in Workers : x # w /\ srv[w].id # NoOrder => srv[x].id # srv[w].id
    BY DEF Apart
<1>3. \A x \in Workers : x # w /\ srv'[w].id # NoOrder => srv'[x].id # srv'[w].id
    BY DEF Apart
<1>4. c.doc \in Order
    BY <1>1 DEF Call
<1>5. \A o \in OrderIds : orders[o] \in Order /\ orders[o].state # "SHIPPED"
    BY DEF IInv, IndexTypeOK, Fresh
<1>6. ASSUME orders' = orders, CallFresh(srv[w])' PROVE Fresh' /\ Lives
    BY <1>1, <1>6, CallKeepsFresh
<1>7. ASSUME NEW o \in OrderIds, StoreOrder(o, c.doc), d.pc = "done", d.op # "get",
             \A x \in Workers : x # w => srv[x].id # o,
             c.doc.userId # NoUser, Allowed(Phase(o), c.doc.state), c.doc.state # "SHIPPED"
      PROVE  Fresh' /\ Lives
    <2>1. Fresh'
        BY <1>1, <1>4, <1>7, WriteKeepsFresh
    <2> QED BY <1>4, <1>7, <2>1 DEF Lives, StoreOrder
<1> HIDE DEF c, d
<1>8. CASE Creates(c, d)
    <2>1. /\ d.id \in OrderIds /\ ~Present(d.id) /\ StoreOrder(d.id, c.doc)
          /\ d.pc = "done" /\ d.op # "get"
        BY <1>8 DEF Creates
    <2>2. c.doc.userId # NoUser /\ c.doc.state = "CART"
        BY <1>1, <1>8 DEF Creates, CallOK
    <2>3. \A x \in Workers : x # w => srv[x].id # d.id
        BY <1>1, <1>3, <2>1 DEF d
    <2> QED BY <1>7, <2>1, <2>2, <2>3 DEF Allowed, Phase
<1>9. CASE Writes(c, d)
    <2>1. /\ c.id \in OrderIds /\ StoreOrder(c.id, c.doc) /\ d.pc = "done" /\ d.op # "get"
          /\ c.op \in {"addBook", "editCart", "setState", "checkout", "update"}
          /\ c.pc = "write"
        BY <1>1, <1>9 DEF Writes, Call, Ops
    <2>2. c.doc.userId # NoUser /\ Phase(c.id) = orders[c.id].state
        BY <1>1, <2>1 DEF CallOK, Holds, Running, Phase, Present
    <2>3. \A x \in Workers : x # w => srv[x].id # c.id
        BY <1>2, <2>1 DEF c
    <2>4. orders[c.id].state \in {"CART", "PRE_AUTHORIZE", "PRE_SHIPPING"}
        BY <1>5, <2>1 DEF Order, OrderStates
    <2>5. Allowed(orders[c.id].state, c.doc.state) /\ c.doc.state # "SHIPPED"
        <3>1. CASE c.op \in {"addBook", "editCart"}
            BY <1>1, <2>1, <2>4, <3>1 DEF CallFresh, Running, Allowed
        <3>2. CASE c.op = "setState"
            BY <1>1, <2>1, <3>2 DEF CallFresh, Running, Allowed, ActiveStates, PlacedStates,
                                    OrderStates
        <3>3. CASE c.op = "checkout"
            BY <1>1, <2>1, <3>3 DEF CallFresh, Running, Allowed
        <3>4. CASE c.op = "update"
            BY <1>1, <2>1, <2>4, <3>4 DEF CallOK, Running, Allowed
        <3> QED BY <2>1, <3>1, <3>2, <3>3, <3>4
    <2> QED BY <1>7, <2>1, <2>2, <2>3, <2>5
<1>10. CASE Ends(c, d) \/ Finds(c, d)
    <2>1. orders' = orders /\ d.pc \in Finished /\ d.op = c.op /\ (d.op = "get" => d.pc # "done")
        BY <1>10 DEF Ends, Finds, OrdersKept, Finished
    <2>2. CallFresh(srv[w])'
        BY <2>1 DEF CallFresh, Running, Finished, d
    <2> QED BY <1>6, <2>1, <2>2
<1>11. CASE Gets(c, d)
    <2>1. /\ orders' = orders /\ d.pc = "done" /\ d.op = "get" /\ d.doc = orders[d.id]
        BY <1>11 DEF Gets, OrdersKept
    <2>2. CallFresh(srv[w])'
        BY <2>1 DEF CallFresh, Running, d
    <2> QED BY <1>6, <2>1, <2>2
<1>12. CASE Takes(c, d)
    <2>1. /\ orders' = orders /\ d.op = c.op /\ d.id = c.id /\ c.id \in OrderIds
          /\ c.pc = "start" /\ d.pc \in {"price", "write"}
        BY <1>12 DEF Takes, OrdersKept
    <2>2. CASE c.op \in {"addBook", "editCart"}
        <3>1. d.doc.state = orders[c.id].state
            BY <1>12, <2>2 DEF Takes
        <3>2. CallFresh(srv[w])'
            BY <2>1, <2>2, <3>1 DEF CallFresh, d
        <3> QED BY <1>6, <2>1, <3>2
    <2>3. CASE c.op = "checkout"
        <3>1. d.doc.state = "PRE_AUTHORIZE" /\ orders[c.id].state = "CART"
            BY <1>1, <1>12, <2>1, <2>3 DEF Takes, CallFresh, Running
        <3>2. CallFresh(srv[w])'
            BY <2>1, <2>3, <3>1 DEF CallFresh, d
        <3> QED BY <1>6, <2>1, <3>2
    <2>4. CASE c.op = "setState"
        <3>1. d.doc.state = "CART" /\ LegalTransition(orders[c.id].state, "CART")
            BY <1>1, <1>12, <2>1, <2>4 DEF Takes, CallOK
        <3>2. orders[c.id].state \in ActiveStates
            BY <3>1 DEF LegalTransition
        <3>3. CallFresh(srv[w])'
            BY <2>1, <2>4, <3>1, <3>2 DEF CallFresh, d
        <3> QED BY <1>6, <2>1, <3>3
    <2> QED BY <1>12, <2>2, <2>3, <2>4 DEF Takes
<1>13. CASE Works(c, d)
    <2>1. /\ orders' = orders /\ d.op = c.op /\ d.id = c.id /\ c.pc \in Running
          /\ c.pc = "start" => c.op = "update"
          /\ d.pc \in Running \ {"start"} /\ d.doc.state = c.doc.state /\ c.op # "get"
        BY <1>13 DEF Works, OrdersKept
    <2>2. CallFresh(srv[w])'
        BY <1>1, <2>1 DEF CallFresh, d
    <2> QED BY <1>6, <2>1, <2>2
<1> QED BY <1>1, <1>8, <1>9, <1>10, <1>11, <1>12, <1>13 DEF Advances

\* Every step of a tab: a checkout is only asked for when the cart was read in
\* the reply that is picked up in the same step.
LEMMA TabLives ==
    ASSUME IInv, Fresh, NEW t \in Tabs, TabStep(t)
    PROVE  Fresh' /\ Lives
<1>1. /\ ThreadsAfter(t) /\ UNCHANGED <<orders, adm>>
    BY TabStepEffect
<1>2. Requests
    BY DEF IInv
<1>3. ASSUME NEW w \in Workers PROVE CallFresh(srv[w])'
    <2>1. CASE srv'[w] = srv[w]
        BY <1>1, <2>1 DEF Fresh, CallFresh
    <2>2. CASE srv'[w] = Idle
        BY <2>2, IdleTyped DEF CallFresh
    <2>3. CASE Starts(t, srv'[w])
        <3>1. srv'[w].pc = "start"
            BY <2>3 DEF Starts
        <3>2. CASE srv'[w].op = "checkout"
            <4>1. /\ Replied(t, "precheck", {"done"}) /\ srv'[w].id = Reply(t).id
                  /\ Reply(t).doc.state = "CART"
                BY <2>3, <3>2 DEF Starts
            <4>2. /\ req[t].worker \in Workers /\ Reply(t).op = "get" /\ Reply(t).pc = "done"
                BY <1>2, <4>1, ReplyOK DEF Waiting, CallAt, Replied, Reply
            <4>3. orders[Reply(t).id].state = "CART"
                BY <4>1, <4>2 DEF Fresh, CallFresh, Reply
            <4> QED BY <1>1, <3>1, <3>2, <4>1, <4>3 DEF CallFresh
        <3>3. CASE srv'[w].op # "checkout"
            BY <3>1, <3>3 DEF CallFresh
        <3> QED BY <3>2, <3>3
    <2> QED BY <1>1, <2>1, <2>2, <2>3 DEF ThreadsAfter
<1> QED BY <1>1, <1>3 DEF Fresh, Lives

\* Every step.
LEMMA NextLives ==
    ASSUME NoShipping
    PROVE  IInv /\ Placement /\ Fresh /\ Apart /\ Apart' /\ [Next]_vars => Fresh' /\ Lives
<1> SUFFICES ASSUME IInv, Placement, Fresh, Apart, Apart', [Next]_vars
             PROVE  Fresh' /\ Lives
    OBVIOUS
<1>1. CASE \E t \in Tabs : TabStep(t)
    BY <1>1, TabLives
<1>2. CASE \E w \in Workers : ServerStep(w) /\ UNCHANGED <<adm, frontVars>>
    BY <1>2, ServerLives
<1>3. ASSUME NEW a \in Admins, AdminStep(a), UNCHANGED <<srv, frontVars>>
      PROVE  Fresh' /\ Lives
    <2>1. ~TakesShipping(adm[a], adm'[a])
        <3>1. \A o \in OrderIds : ~ReadForShipping(a, o)
            BY DEF NoShipping, ReadForShipping
        <3>2. CASE \E b \in Books, price \in Prices : ReadForPrice(a, b, price)
            BY <3>2 DEF ReadForPrice, TakesShipping, IInv, AdminTypeOK, AdminCall
        <3>3. CASE WriteShipped(a) \/ WritePrice(a) \/ AdminFail(a)
            BY <3>3 DEF WriteShipped, WritePrice, AdminFail, TakesShipping
        <3> QED BY <1>3, <3>1, <3>2, <3>3 DEF AdminStep
    <2>2. ~WritesShipping(adm[a], adm'[a])
        BY DEF WritesShipping, Fresh
    <2>3. /\ adm'[a].pc # "writeOrder" /\ orders' = orders
          /\ \A x \in Admins : x # a => adm'[x] = adm[x]
        BY <1>3, <2>1, <2>2, AdminStepEffect DEF OrdersKept, IInv
    <2>4. \A w \in Workers : CallFresh(srv[w])'
        BY <1>3, <2>3 DEF Fresh, CallFresh
    <2> QED BY <2>3, <2>4 DEF Fresh, Lives
<1>4. CASE \E w \in Workers : DropReply(w)
    <2>1. PICK w \in Workers : srv' = [srv EXCEPT ![w] = Idle]
        BY <1>4 DEF DropReply
    <2>2. UNCHANGED <<orders, adm>>
        BY <1>4 DEF DropReply, backVars, indexVars
    <2>3. /\ srv'[w] = Idle /\ \A x \in Workers : x # w => srv'[x] = srv[x]
        BY <2>1 DEF IInv, Requests, ServerTypeOK
    <2>4. CallFresh(srv[w])'
        BY <2>3, IdleTyped DEF CallFresh
    <2> QED BY <2>2, <2>3, <2>4, CallKeepsFresh
<1>5. CASE UNCHANGED <<orders, adm, srv>>
    BY <1>5 DEF Fresh, CallFresh, Lives
<1>6. CASE \E s \in Sessions : NewLogin(s)
    BY <1>5, <1>6 DEF NewLogin, backVars, indexVars
<1>7. CASE \E o \in OrderIds : Refresh(o) /\ UNCHANGED <<srv, adm, frontVars>>
    BY <1>5, <1>7 DEF Refresh
<1> QED BY <1>1, <1>2, <1>3, <1>4, <1>5, <1>6, <1>7 DEF Next, vars, indexVars

\* Initially there are no orders and no calls.
LEMMA InitLives == StorefrontInit => Fresh /\ Lifecycle!Init
<1> SUFFICES ASSUME StorefrontInit PROVE Fresh /\ Lifecycle!Init
    OBVIOUS
<1>1. /\ \A o \in OrderIds : orders[o] = NoDoc
      /\ \A w \in Workers : srv[w] = Idle
      /\ \A a \in Admins : adm[a] = AdminIdle
    BY DEF StorefrontInit, IndexInit, ServerInit, AdminInit
<1>2. NoDoc.userId = NoUser /\ NoDoc.state = "CART" /\ AdminIdle.pc = "idle"
    BY DEF NoDoc, NewOrder, AdminIdle
<1>3. \A w \in Workers : CallFresh(srv[w])
    BY <1>1, IdleTyped DEF CallFresh
<1>4. Life = [o \in OrderIds |-> "none"]
    BY <1>1, <1>2 DEF Life, Present
<1> QED BY <1>1, <1>2, <1>3, <1>4 DEF Fresh, Lifecycle!Init, Life

\* Orders follow the lifecycle as long as no two calls on one order overlap,
\* with any number of customers, sessions, tabs and threads and whichever calls
\* fail or are given up, although checkoutOrder and updateOrder write a state
\* without looking at the one they replace (OrderServiceImpl).  Without
\* setShipped: a session that still holds an order which another has placed
\* would place it again, shipped or not.
THEOREM LifecycleImplemented ==
    ASSUME NoShipping PROVE Spec /\ []Apart => OrdersFollowLifecycle
<1>1. IInv /\ Placement /\ Fresh /\ Apart /\ Apart' /\ [Next]_vars
        => /\ Fresh'
           /\ [Lifecycle!Next]_[o \in OrderIds |-> IF Present(o) THEN orders[o].state ELSE "none"]
    <2>1. IInv => IndexTypeOK
        BY DEF IInv
    <2> QED BY <2>1, NextLives, LivesIsAStep DEF Life
<1> QED BY <1>1, Invariant, PlacementInvariant, InitLives, PTL
        DEF Spec, OrdersFollowLifecycle, Lifecycle!Spec

\* Orders follow the lifecycle when the order server has one thread: then there
\* are no calls to overlap.
THEOREM LifecycleOneThread ==
    ASSUME NoShipping, \A w, x \in Workers : w = x PROVE Spec => OrdersFollowLifecycle
<1>1. Apart
    BY DEF Apart
<1> QED BY <1>1, LifecycleImplemented, PTL
=============================================================================
