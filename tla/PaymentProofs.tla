--------------------------- MODULE PaymentProofs ---------------------------
(***************************************************************************)
(* Theorems about payments: the amount that is charged was displayed       *)
(* before, and, as long as a session has one tab, an order that is placed  *)
(* is one that was paid.                                                   *)
(***************************************************************************)
EXTENDS PlacementProofs

(***************************************************************************)
(* The amount.                                                             *)
(***************************************************************************)

\* The total of a session, and the copy a request compares, were displayed.
Displayed ==
    /\ \A s \in Sessions : session[s].total # NoTotal => <<s, session[s].total>> \in shown
    /\ \A t \in Tabs : req[t].totalSave # NoTotal
                         => <<TabSession[t], req[t].totalSave>> \in shown

\* Displayed holds initially.
LEMMA InitDisplayed == StorefrontInit => Displayed
    BY DEF StorefrontInit, Displayed, NewSession, NoRequest

\* Every step keeps Displayed: a session's total only comes from a payment
\* page, a request's copy only from its session.
LEMMA NextDisplayed == IInv /\ Displayed /\ [Next]_vars => Displayed'
<1> SUFFICES ASSUME IInv, Displayed, [Next]_vars PROVE Displayed'
    OBVIOUS
<1>1. CASE \E t \in Tabs : TabStep(t)
    <2>1. PICK t \in Tabs : TabStep(t)
        BY <1>1
    <2>2. RequestAfter(t) /\ SessionAfter(t) /\ TabSession[t] \in Sessions
        BY <2>1, TabStepEffect, TabSessionAssumption
    <2>3. ASSUME NEW s \in Sessions, session'[s].total # NoTotal
          PROVE  <<s, session'[s].total>> \in shown'
        BY <2>2, <2>3 DEF SessionAfter, Sess, Displayed
    <2>4. ASSUME NEW t2 \in Tabs, req'[t2].totalSave # NoTotal
          PROVE  <<TabSession[t2], req'[t2].totalSave>> \in shown'
        BY <2>2, <2>4 DEF RequestAfter, SessionAfter, Sess, Displayed
    <2> QED BY <2>3, <2>4 DEF Displayed
<1>2. CASE \E s \in Sessions : NewLogin(s)
    BY <1>2 DEF NewLogin, Displayed, NewSession, IInv, Attributes
<1>3. CASE UNCHANGED <<session, req, shown>>
    BY <1>3 DEF Displayed
<1> QED BY <1>1, <1>2, <1>3 DEF Next, DropReply, frontVars, vars

\* Only an acceptance leads from the recheck to the redirection.
LEMMA OnlyAccept ==
    ASSUME IInv, [Next]_vars, NEW t \in Tabs, req[t].at = "recheck", req'[t].at = "redirect"
    PROVE  Accept(t)
<1>1. req \in [Tabs -> Request]
    BY DEF IInv, Requests
<1>2. req'[t] # req[t]
    OBVIOUS
<1>3. PICK t2 \in Tabs : TabStep(t2)
    BY <1>2 DEF Next, DropReply, NewLogin, frontVars, vars
<1>4. t2 = t
    BY <1>2, <1>3, TabStepEffect DEF RequestAfter
<1>5. CASE CallFailed(t)
    BY <1>1, <1>5 DEF CallFailed, End, NoRequest
<1>6. CASE Timeout(t)
    BY <1>1, <1>6 DEF Timeout, NoRequest
<1>7. ASSUME NEW c, NEW at \in {"deny", "mismatch"}, Send(t, req[t], c, at)
      PROVE  FALSE
    BY <1>1, <1>7 DEF Send, Request
<1> QED BY <1>3, <1>4, <1>5, <1>6, <1>7
    DEF TabStep, NewRequest, FollowRedirect, LeaveRedirect, ActiveOrderKnown,
        CreateActiveOrder, Finish, PaymentPage, Placed, ClearPayment, CheckOut,
        CheckedOut, Refuse, TotalChanged, Denied, Replied

\* The amount that the payment service accepts was displayed on a payment page
\* of the same session (PaymentController compares it with the total that
\* OrderController.payment stored there), with any number of tabs and sessions.
THEOREM AmountShown == Spec => PaidAmountWasShown
<1>1. IInv /\ Displayed /\ [Next]_vars =>
        \A t \in Tabs : req[t].at = "recheck" /\ req'[t].at = "redirect"
                            => <<TabSession[t], Reply(t).doc.subtotal>> \in shown
    <2> SUFFICES ASSUME IInv, Displayed, [Next]_vars, NEW t \in Tabs,
                        req[t].at = "recheck", req'[t].at = "redirect"
                 PROVE  <<TabSession[t], Reply(t).doc.subtotal>> \in shown
        OBVIOUS
    <2>1. req[t].totalSave = Reply(t).doc.subtotal
        BY OnlyAccept DEF Accept
    <2>2. req[t].totalSave # NoTotal
        BY DEF IInv, Requests, Charging
    <2> QED BY <2>1, <2>2 DEF Displayed
<1> QED BY <1>1, Invariant, InitDisplayed, NextDisplayed, PTL DEF Spec, PaidAmountWasShown

(***************************************************************************)
(* The order, when every session has one tab.                              *)
(***************************************************************************)

\* Every session has one tab.
OneTab == \A t1, t2 \in Tabs : TabSession[t1] = TabSession[t2] => t1 = t2

\* A payment for order o was accepted.
PaidFor(o) == \E p \in payments : p[2] = o

\* The request of tab t, session attributes a and request r, is about the active
\* order, and a payment result in the session is about it too, until Placed has
\* cleared the one and ClearPayment has not yet cleared the other.
TabOK(a, r) ==
    /\ r.at \in Waiting \ NoOrderYet => a.activeOrderId = r.orderId
    /\ r.at \in NoOrderYet => a.activeOrderId = NoOrder
    /\ a.paymentSuccess = "true" => r.at = "clear" \/ PaidFor(a.activeOrderId)

\* The inductive invariant, together with IInv and Placement: placed orders, and
\* those a saveOrder that still runs is about to place, were paid.
Payment ==
    /\ \A o \in placed : PaidFor(o)
    /\ \A w \in Workers : srv[w].op = "update" /\ srv[w].pc \in Running => PaidFor(srv[w].id)
    /\ \A t \in Tabs : TabOK(Sess(t), req[t])

\* Payment holds initially.
LEMMA InitPayment == StorefrontInit => Payment
<1> SUFFICES ASSUME StorefrontInit PROVE Payment
    OBVIOUS
<1>1. /\ placed = {} /\ \A t \in Tabs : req[t] = NoRequest /\ Sess(t) = NewSession
      /\ \A w \in Workers : srv[w] = Idle
    BY TabSessionAssumption DEF StorefrontInit, IndexInit, ServerInit, Sess
<1> QED BY <1>1, IdleTyped
        DEF Payment, TabOK, NewSession, NoRequest, Waiting, NoOrderYet

\* Where tab t is after Send, End and Dispatch.
LEMMA EndAt ==
    ASSUME Requests, NEW t \in Tabs, NEW r,
           NEW at \in {"idle", "redirect", "clear"}, End(t, r, at)
    PROVE  req'[t].at = at
    BY DEF Requests, End, NoRequest

\* ... it waits where Send says, for the order it had ...
LEMMA SendAt ==
    ASSUME Requests, NEW t \in Tabs, NEW r \in Request, NEW c, NEW at, Send(t, r, c, at)
    PROVE  req'[t].at = at /\ req'[t].orderId = r.orderId
    BY DEF Requests, Send, Request

\* ... and Dispatch gives it the order it waits for, if it waits.
LEMMA DispatchAt ==
    ASSUME Requests, NEW t \in Tabs, NEW r \in Request, NEW o \in OrderIds, Dispatch(t, r, o)
    PROVE  /\ req'[t].at \notin NoOrderYet
           /\ req'[t].at \in Waiting => req'[t].orderId = o
<1> DEFINE q == [r EXCEPT !.orderId = o]
<1>1. q \in Request /\ q.orderId = o
    BY DEF Request
<1> HIDE DEF q
<1>2. CASE End(t, q, "idle")
    BY <1>2, EndAt DEF Waiting, NoOrderYet
<1>3. ASSUME NEW c, NEW at \in {"add", "edit", "order"}, Send(t, q, c, at)
      PROVE  req'[t].at = at /\ req'[t].orderId = o
    BY <1>1, <1>3, SendAt
<1>4. ASSUME NEW c, NEW total, Send(t, [q EXCEPT !.totalSave = total], c, "precheck")
      PROVE  req'[t].at = "precheck" /\ req'[t].orderId = o
    BY <1>1, <1>4 DEF Requests, Send, Request
<1> QED BY <1>2, <1>3, <1>4 DEF Dispatch, q, NoOrderYet

\* Every step of a tab keeps Payment when it is the only tab of its session:
\* one case per action of TabStep, of which only Accept and PaymentPage have
\* to do with payments.
LEMMA TabKeepsPayment ==
    ASSUME OneTab, IInv, Payment, NEW t \in Tabs, TabStep(t)
    PROVE  Payment'
<1>1. /\ ThreadsAfter(t) /\ RequestAfter(t) /\ SessionAfter(t)
      /\ placed' = placed
    BY TabStepEffect
<1>2. /\ Requests /\ req[t] \in Request /\ session \in [Sessions -> Session]
      /\ TabSession[t] \in Sessions /\ Sess(t) \in Session
    BY TabSessionAssumption DEF IInv, Requests, Attributes, Sess
<1>3. /\ payments \subseteq payments'
      /\ \A o : PaidFor(o) => PaidFor(o)'
    BY <1>1 DEF SessionAfter, Accepts, PaidFor
<1>4. ~PaidFor(NoOrder)
    BY NoOrderAssumption DEF IInv, Attributes, PaidFor
<1>5. TabOK(Sess(t), req[t])
    BY DEF Payment
<1>6. ASSUME NEW w \in Workers, srv'[w].op = "update", srv'[w].pc \in Running
      PROVE  \E p \in payments' : p[2] = srv'[w].id
    <2>1. CASE srv'[w] = srv[w]
        BY <1>3, <1>6, <2>1 DEF Payment, PaidFor
    <2>2. CASE srv'[w] = Idle
        BY <1>6, <2>2, IdleTyped
    <2>3. CASE Starts(t, srv'[w])
        <3>1. /\ Replied(t, "order", {"done"}) /\ Sess(t).paymentSuccess = "true"
              /\ srv'[w].id = Reply(t).id
            BY <1>6, <2>3 DEF Starts
        <3>2. Reply(t).id = req[t].orderId /\ req[t].at = "order"
            BY <1>2, <3>1, ReplyOK DEF Waiting, NoOrderYet, Replied
        <3>3. PaidFor(req[t].orderId)
            BY <1>5, <3>1, <3>2 DEF TabOK, Waiting, NoOrderYet
        <3> QED BY <1>3, <3>1, <3>2, <3>3 DEF PaidFor
    <2> QED BY <1>1, <2>1, <2>2, <2>3 DEF ThreadsAfter
<1>7. ASSUME NEW t2 \in Tabs, t2 # t
      PROVE  TabOK(Sess(t2), req[t2])'
    <2>1. TabSession[t2] # TabSession[t] /\ TabSession[t2] \in Sessions
        BY <1>7, TabSessionAssumption DEF OneTab
    <2>2. Sess(t2)' = Sess(t2) /\ req'[t2] = req[t2]
        BY <1>1, <1>7, <2>1 DEF SessionAfter, RequestAfter, Sess
    <2>3. TabOK(Sess(t2), req[t2])
        BY DEF Payment
    <2> QED BY <1>3, <2>2, <2>3 DEF TabOK
<1>8. TabOK(Sess(t), req[t])'
    <2> DEFINE Goal == TabOK(Sess(t), req[t])'
    <2>1. ASSUME Sess(t)'.activeOrderId = Sess(t).activeOrderId,
                 Sess(t)'.paymentSuccess = "true" => Sess(t).paymentSuccess = "true",
                 req[t].at # "clear",
                 req'[t].at \in Waiting \ NoOrderYet =>
                    req'[t].orderId = Sess(t).activeOrderId,
                 req'[t].at \in NoOrderYet => Sess(t).activeOrderId = NoOrder
          PROVE  Goal
        BY <1>3, <1>5, <2>1 DEF TabOK
    <2>2. session' = session => Sess(t)' = Sess(t)
        BY DEF Sess
    <2>3. ASSUME NEW attributes \in Session, SetSession(t, attributes)
          PROVE  Sess(t)' = attributes
        BY <1>2, <2>3 DEF SetSession, Sess
    <2>4. ASSUME NEW at \in {"idle", "redirect", "clear"}, End(t, req[t], at)
          PROVE  req'[t].at = at /\ at \notin Waiting /\ at \notin NoOrderYet
        BY <1>2, <2>4, EndAt DEF Waiting, NoOrderYet
    <2>5. ASSUME NEW c, NEW at, Send(t, req[t], c, at)
          PROVE  req'[t].at = at /\ req'[t].orderId = req[t].orderId
        BY <1>2, <2>5, SendAt
    <2>6. ASSUME NEW at \in Waiting \ NoOrderYet, NEW outcomes, Replied(t, at, outcomes)
          PROVE  req[t].orderId = Sess(t).activeOrderId /\ req[t].at # "clear"
        BY <1>5, <2>6 DEF TabOK, Replied, Waiting
    <2>7. ASSUME NEW kind \in Kinds \cup {"payment"}, NEW redirected \in BOOLEAN,
                 req[t].at \in {"idle", "redirect"}, Begin(t, kind, redirected)
          PROVE  Goal
        <3> DEFINE r == [NoRequest EXCEPT !.kind = kind, !.redirected = redirected]
        <3>1. r \in Request
            BY DEF NoRequest, Request
        <3>2. session' = session
              /\ \/ /\ Sess(t).activeOrderId # NoOrder
                    /\ Dispatch(t, r, Sess(t).activeOrderId)
                 \/ /\ Sess(t).activeOrderId = NoOrder
                    /\ Send(t, r, GetActiveCall(UserOf(t)), "lookup")
            BY <2>7 DEF Begin
        <3> HIDE DEF r
        <3>3. CASE /\ Sess(t).activeOrderId # NoOrder
                   /\ Dispatch(t, r, Sess(t).activeOrderId)
            <4>1. Sess(t).activeOrderId \in OrderIds
                BY <1>2, <3>3 DEF Session
            <4> QED BY <1>2, <2>1, <2>2, <2>7, <3>1, <3>2, <3>3, <4>1, DispatchAt
        <3>4. CASE /\ Sess(t).activeOrderId = NoOrder
                   /\ Send(t, r, GetActiveCall(UserOf(t)), "lookup")
            BY <1>2, <2>1, <2>2, <2>7, <3>1, <3>2, <3>4, SendAt DEF NoOrderYet
        <3> QED BY <3>2, <3>3, <3>4
    <2>8. ASSUME session' = session, req[t].at # "clear", End(t, req[t], "idle")
          PROVE  Goal
        BY <2>1, <2>2, <2>4, <2>8
    <2>9. ASSUME session' = session, NEW from \in Waiting \ NoOrderYet,
                 Replied(t, from, {"done"}), NEW c, NEW at \in Waiting \ NoOrderYet,
                 Send(t, req[t], c, at)
          PROVE  Goal
        BY <2>1, <2>2, <2>5, <2>6, <2>9
    <2>10. CASE NewRequest(t)
        BY <2>7, <2>10 DEF NewRequest
    <2>11. CASE FollowRedirect(t)
        BY <2>7, <2>11 DEF FollowRedirect
    <2>12. CASE LeaveRedirect(t)
        BY <2>8, <2>12 DEF LeaveRedirect
    <2>13. CASE ActiveOrderKnown(t)
        <3> DEFINE o == Reply(t).id
                   after == [Sess(t) EXCEPT !.activeOrderId = o]
        <3>1. SetSession(t, after) /\ Dispatch(t, req[t], o) /\ req[t].at \in NoOrderYet
            BY <2>13 DEF ActiveOrderKnown, Replied, NoOrderYet
        <3>2. o \in OrderIds
            <4>1. Reply(t) \in Call /\ WellFormed(Reply(t)) /\ Reply(t).pc = "done"
                BY <1>2, <2>13, ReplyOK DEF ActiveOrderKnown, Waiting, Replied, Reply
            <4> QED BY <4>1 DEF WellFormed, Call
        <3>3. /\ after \in Session /\ after.activeOrderId = o
              /\ after.paymentSuccess = Sess(t).paymentSuccess
            BY <1>2, <3>2 DEF Session
        <3>4. Sess(t).paymentSuccess # "true"
            BY <1>4, <1>5, <3>1 DEF TabOK, NoOrderYet
        <3> HIDE DEF o, after
        <3>5. /\ req'[t].at \notin NoOrderYet
              /\ req'[t].at \in Waiting => req'[t].orderId = o
            BY <1>2, <3>1, <3>2, DispatchAt
        <3> QED BY <2>3, <3>1, <3>3, <3>4, <3>5 DEF TabOK
    <2>14. CASE CreateActiveOrder(t)
        <3>1. /\ req[t].at = "lookup" /\ session' = session
              /\ Send(t, req[t], CreateCall(UserOf(t)), "create")
            BY <2>14 DEF CreateActiveOrder, Replied
        <3>2. Sess(t).activeOrderId = NoOrder
            BY <1>5, <3>1 DEF TabOK, NoOrderYet
        <3> QED BY <2>1, <2>2, <2>5, <3>1, <3>2 DEF NoOrderYet
    <2>15. CASE Finish(t)
        BY <2>8, <2>15 DEF Finish, Replied
    <2>16. CASE PaymentPage(t)
        <3> DEFINE after == [Sess(t) EXCEPT !.total = Reply(t).doc.subtotal]
        <3>1. /\ Replied(t, "order", {"done"}) /\ SetSession(t, after)
              /\ \/ End(t, req[t], "idle")
                 \/ \E c : Send(t, req[t], c, "save")
                 \/ \E c : Send(t, req[t], c, "reset")
            BY <2>16 DEF PaymentPage
        <3>2. Reply(t).doc \in Order
            BY <1>2, <3>1, ReplyOK DEF Waiting, Call
        <3>3. /\ after \in Session /\ after.activeOrderId = Sess(t).activeOrderId
              /\ after.paymentSuccess = Sess(t).paymentSuccess
            BY <1>2, <3>2 DEF Session, Order
        <3> HIDE DEF after
        <3>4. Sess(t)' = after
            BY <2>3, <3>1, <3>3
        <3>5. req[t].orderId = Sess(t).activeOrderId /\ req[t].at # "clear"
            BY <2>6, <3>1 DEF Waiting, NoOrderYet
        <3>6. /\ req'[t].at \in Waiting => req'[t].orderId = req[t].orderId
              /\ req'[t].at \notin NoOrderYet
            BY <2>4, <2>5, <3>1 DEF NoOrderYet
        <3> QED BY <2>1, <3>3, <3>4, <3>5, <3>6
    <2>17. CASE Placed(t)
        <3>1. req'[t].at = "clear"
            BY <2>4, <2>17 DEF Placed
        <3> QED BY <3>1 DEF TabOK, Waiting, NoOrderYet
    <2>18. ASSUME NEW result \in {"null", "true", "false"}
           PROVE  LET after == [Sess(t) EXCEPT !.paymentSuccess = result]
                  IN  /\ after \in Session
                      /\ after.activeOrderId = Sess(t).activeOrderId
                      /\ after.paymentSuccess = result
        BY <1>2 DEF Session
    <2>19. CASE ClearPayment(t)
        <3>1. Sess(t)'.paymentSuccess = "null" /\ req'[t].at = "idle"
            BY <2>3, <2>4, <2>18, <2>19 DEF ClearPayment
        <3> QED BY <3>1 DEF TabOK, Waiting, NoOrderYet
    <2>20. CASE CheckOut(t)
        BY <2>9, <2>20 DEF CheckOut, Waiting, NoOrderYet
    <2>21. CASE CheckedOut(t)
        BY <2>9, <2>21 DEF CheckedOut, Waiting, NoOrderYet
    <2>22. CASE Accept(t)
        <3>1. req[t].orderId = Sess(t).activeOrderId
            BY <2>6, <2>22 DEF Accept, Waiting, NoOrderYet
        <3>2. Sess(t)'.activeOrderId = req[t].orderId /\ req'[t].at = "redirect"
            BY <2>3, <2>4, <2>18, <2>22, <3>1 DEF Accept
        <3>3. \E p \in payments' : p[2] = req[t].orderId
            <4> DEFINE p == <<TabSession[t], req[t].orderId>>
            <4>1. p \in payments' /\ p[2] = req[t].orderId
                BY <2>22 DEF Accept
            <4> QED BY <4>1
        <3> QED BY <3>2, <3>3 DEF TabOK, PaidFor, Waiting, NoOrderYet
    <2>23. CASE Refuse(t)
        BY <2>9, <2>23 DEF Refuse, Waiting, NoOrderYet
    <2>24. CASE TotalChanged(t)
        BY <2>9, <2>24 DEF TotalChanged, Waiting, NoOrderYet
    <2>25. CASE Denied(t)
        <3>1. Sess(t)'.paymentSuccess = "false" /\ req'[t].at = "redirect"
            BY <2>3, <2>4, <2>18, <2>25 DEF Denied
        <3> QED BY <3>1 DEF TabOK, Waiting, NoOrderYet
    <2>26. CASE CallFailed(t)
        BY <2>8, <2>26 DEF CallFailed, Replied, Waiting
    <2>27. CASE Timeout(t)
        <3>1. session' = session /\ req'[t] = NoRequest /\ req[t].at # "clear"
            BY <1>2, <2>27 DEF Timeout, Requests, Linked, Waiting
        <3> QED BY <2>1, <2>2, <3>1 DEF NoRequest, Waiting, NoOrderYet
    <2> QED
        BY <2>10, <2>11, <2>12, <2>13, <2>14, <2>15, <2>16, <2>17, <2>19, <2>20, <2>21,
           <2>22, <2>23, <2>24, <2>25, <2>26, <2>27
        DEF TabStep
<1>9. \A o \in placed' : PaidFor(o)'
    BY <1>1, <1>3 DEF Payment
<1>10. \A w \in Workers : srv'[w].op = "update" /\ srv'[w].pc \in Running => PaidFor(srv[w].id)'
    BY <1>6 DEF PaidFor
<1> QED BY <1>7, <1>8, <1>9, <1>10 DEF Payment

\* A step of no tab keeps TabOK: the requests stay, and a session stays or, when
\* none of its tabs waits, is replaced by a new one.
LEMMA TabsKept ==
    ASSUME Payment, payments' = payments, req' = req,
           \A t \in Tabs : \/ Sess(t)' = Sess(t)
                           \/ req[t].at = "idle" /\ Sess(t)' = NewSession
    PROVE  \A t \in Tabs : TabOK(Sess(t), req[t])'
<1> SUFFICES ASSUME NEW t \in Tabs PROVE TabOK(Sess(t), req[t])'
    OBVIOUS
<1>1. TabOK(Sess(t), req[t]) /\ \A o : PaidFor(o) => PaidFor(o)'
    BY DEF Payment, PaidFor
<1>2. CASE Sess(t)' = Sess(t)
    BY <1>1, <1>2 DEF TabOK
<1>3. CASE req[t].at = "idle" /\ Sess(t)' = NewSession
    BY <1>3 DEF TabOK, NewSession, Waiting, NoOrderYet
<1> QED BY <1>2, <1>3

\* A step of the order server places only an order it was told to place.
LEMMA ServerKeepsPayment ==
    ASSUME IInv, Placement, Payment, NEW w \in Workers, ServerStep(w),
           UNCHANGED <<adm, frontVars>>
    PROVE  Payment'
<1> DEFINE c == srv[w]
           d == srv'[w]
<1>1. /\ Advances(c, d) /\ \A x \in Workers : x # w => srv'[x] = srv[x]
      /\ c \in Call /\ CallOK(c)
      /\ c.op = "update" /\ c.pc \in Running => PaidFor(c.id)
    BY ServerStepEffect DEF IInv, Requests, ServerTypeOK, Placement, Payment
<1>2. /\ payments' = payments /\ req' = req /\ session' = session
      /\ \A o : PaidFor(o) => PaidFor(o)'
    BY DEF frontVars, PaidFor
<1>3. \A t \in Tabs : TabOK(Sess(t), req[t])'
    BY <1>2, TabsKept DEF Sess
<1> HIDE DEF c, d
<1>4. d.op = "update" /\ d.pc \in Running
        => c.op = "update" /\ c.pc \in Running /\ d.id = c.id
    BY <1>1 DEF Advances, Creates, Writes, Ends, Finds, Gets, Takes, Works, Running
<1>5. \A x \in Workers : srv'[x].op = "update" /\ srv'[x].pc \in Running
                            => \E p \in payments' : p[2] = srv'[x].id
    BY <1>1, <1>2, <1>4 DEF Payment, PaidFor, c, d
<1>6. \A o \in placed' : o \in placed \/ PaidFor(o)
    <2>1. CASE placed' = placed
        BY <2>1
    <2>2. CASE Creates(c, d)
        BY <1>1, <2>2 DEF Creates, CallOK, StoreOrder
    <2>3. CASE Writes(c, d)
        <3>1. c.doc.state = "PRE_SHIPPING" => c.id \in placed \/ PaidFor(c.id)
            BY <1>1, <2>3 DEF Writes, CallOK, Running, PlacedStates
        <3> QED BY <2>3, <3>1 DEF Writes, StoreOrder
    <2> QED BY <1>1, <2>1, <2>2, <2>3
            DEF Advances, Ends, Finds, Gets, Takes, Works, OrdersKept
<1>7. \A o \in placed' : PaidFor(o)'
    BY <1>2, <1>6 DEF Payment
<1>8. \A x \in Workers : srv'[x].op = "update" /\ srv'[x].pc \in Running => PaidFor(srv[x].id)'
    BY <1>5 DEF PaidFor
<1> QED BY <1>3, <1>7, <1>8 DEF Payment

\* The admin server places no order: it writes SHIPPED, or the state it read if
\* that was not PRE_SHIPPING.
LEMMA AdminKeepsPayment ==
    ASSUME IInv, Placement, Payment, NEW a \in Admins, AdminStep(a),
           UNCHANGED <<srv, frontVars>>
    PROVE  Payment'
<1>1. /\ \/ TakesShipping(adm[a], adm'[a])
         \/ WritesShipping(adm[a], adm'[a])
         \/ OrdersKept
      /\ AdminCallOK(adm[a])
    BY AdminStepEffect DEF IInv, Placement
<1>2. placed' = placed
    BY <1>1 DEF TakesShipping, WritesShipping, OrdersKept, StoreOrder, AdminCallOK
<1>3. /\ payments' = payments /\ req' = req /\ session' = session /\ srv' = srv
      /\ \A o : PaidFor(o) => PaidFor(o)'
    BY DEF frontVars, PaidFor
<1>4. \A t \in Tabs : TabOK(Sess(t), req[t])'
    BY <1>3, TabsKept DEF Sess
<1> QED BY <1>2, <1>3, <1>4 DEF Payment

\* Every step keeps Payment when every session has one tab.
LEMMA NextPayment ==
    ASSUME OneTab
    PROVE  IInv /\ Placement /\ Payment /\ [Next]_vars => Payment'
<1> SUFFICES ASSUME IInv, Placement, Payment, [Next]_vars PROVE Payment'
    OBVIOUS
<1>1. ASSUME placed' = placed, payments' = payments, req' = req,
             \A w \in Workers : srv'[w] = srv[w] \/ srv'[w] = Idle,
             \A t \in Tabs : \/ Sess(t)' = Sess(t)
                             \/ req[t].at = "idle" /\ Sess(t)' = NewSession
      PROVE  Payment'
    <2>1. \A t \in Tabs : TabOK(Sess(t), req[t])'
        BY <1>1, TabsKept
    <2>2. \A o : PaidFor(o) => PaidFor(o)'
        BY <1>1 DEF PaidFor
    <2>3. \A w \in Workers : srv'[w].op = "update" /\ srv'[w].pc \in Running
                                => srv'[w] = srv[w]
        BY <1>1, IdleTyped
    <2>4. \A w \in Workers : srv'[w].op = "update" /\ srv'[w].pc \in Running
                                => PaidFor(srv[w].id)'
        BY <1>1, <2>3 DEF Payment, PaidFor
    <2> QED BY <1>1, <2>1, <2>2, <2>4 DEF Payment
<1>2. CASE \E t \in Tabs : TabStep(t)
    BY <1>2, TabKeepsPayment
<1>3. CASE \E w \in Workers : ServerStep(w) /\ UNCHANGED <<adm, frontVars>>
    BY <1>3, ServerKeepsPayment
<1>4. CASE \E a \in Admins : AdminStep(a) /\ UNCHANGED <<srv, frontVars>>
    BY <1>4, AdminKeepsPayment
<1>5. CASE \E w \in Workers : DropReply(w)
    <2>1. PICK w \in Workers : srv' = [srv EXCEPT ![w] = Idle]
        BY <1>5 DEF DropReply
    <2>2. /\ UNCHANGED <<placed, payments, req, session>>
          /\ \A x \in Workers : srv'[x] = srv[x] \/ srv'[x] = Idle
        BY <1>5, <2>1 DEF DropReply, backVars, indexVars, frontVars, IInv, Requests,
                          ServerTypeOK
    <2> QED BY <1>1, <2>2 DEF Sess
<1>6. CASE \E s \in Sessions : NewLogin(s)
    <2>1. PICK s \in Sessions : NewLogin(s)
        BY <1>6
    <2>2. UNCHANGED <<placed, payments, req, srv>>
        BY <2>1 DEF NewLogin, backVars, indexVars
    <2>3. \A t \in Tabs : \/ Sess(t)' = Sess(t)
                          \/ req[t].at = "idle" /\ Sess(t)' = NewSession
        BY <2>1, TabSessionAssumption DEF NewLogin, Sess, IInv, Attributes
    <2> QED BY <1>1, <2>2, <2>3
<1>7. CASE \E o \in OrderIds : Refresh(o) /\ UNCHANGED <<srv, adm, frontVars>>
    BY <1>1, <1>7 DEF Refresh, frontVars, Sess
<1>8. CASE UNCHANGED vars
    BY <1>1, <1>8 DEF vars, indexVars, frontVars, Sess
<1> QED BY <1>2, <1>3, <1>4, <1>5, <1>6, <1>7, <1>8 DEF Next

\* When every session has one tab, an order is placed only after a payment for
\* that very order was accepted, whatever late answers, failed calls, other
\* sessions of the customer and the operator do (OrderController.payment,
\* PaymentController.authorizePayment, OrderUtilsImpl.getActiveOrderId).
THEOREM OrderPaidFor == ASSUME OneTab PROVE Spec => []PlacedWasPaidFor
<1>1. Payment => PlacedWasPaidFor
    BY DEF Payment, PaidFor, PlacedWasPaidFor
<1>2. IInv /\ Placement /\ Payment /\ [Next]_vars => Payment'
    BY NextPayment
<1>3. Spec => []IInv
    BY Invariant
<1>4. Spec => []Placement
    BY PlacementInvariant
<1> QED BY <1>1, <1>2, <1>3, <1>4, InitPayment, PTL DEF Spec
=============================================================================
