---------------------------- MODULE MonitorProofs ----------------------------
(***************************************************************************)
(* The cluster monitor: types, and that exclusions are lost only by        *)
(* updates that overlap.  As long as none did, one operator's update is    *)
(* under way at most, and the list it will put back is the present one     *)
(* with its change; Undisturbed says so.                                   *)
(***************************************************************************)
EXTENDS ClusterMonitor, TLAPS

\* One update at a time, on the exclusions as they are.
Undisturbed ==
    ~contested =>
        /\ exclusions = asked
        /\ \A o, q \in Operators :
                update[o].pc # "idle" /\ update[q].pc # "idle" => o = q
        /\ \A o \in Operators : update[o].pc = "put" =>
                update[o].ips = Applied(update[o], exclusions)

IInv == TypeOK /\ Undisturbed

-----------------------------------------------------------------------------
\* NoHost is the address of no node.
LEMMA NoHostOutside == NoHost \notin Hosts
  BY NumHostsAssumption DEF Hosts, NoHost

\* Records of the right shape.
LEMMA RecordsOK ==
    /\ NoThread \in Thread /\ NoThread.pc = "idle"
    /\ Polling \in Thread /\ Polling.pc = "check"
    /\ NoUpdate \in Update /\ NoUpdate.pc = "idle"
<1>1. NoState \in State /\ 1 \in Hosts
    BY NumHostsAssumption DEF NoState, State, Hosts
<1>2. NoThread \in Thread /\ NoThread.pc = "idle"
    BY <1>1 DEF NoThread, Thread
<1>3. Polling \in Thread /\ Polling.pc = "check"
    BY <1>1 DEF Polling, Thread
<1>4. NoUpdate \in Update /\ NoUpdate.pc = "idle"
    BY DEF NoUpdate, Update
<1> QED
    BY <1>2, <1>3, <1>4

\* The initial state.
LEMMA InitOK == Init => IInv
<1> SUFFICES ASSUME Init PROVE IInv
    OBVIOUS
<1>1. TypeOK
  <2>1. thread \in [Handlers \cup {Monitor} -> Thread]
        /\ \A p \in DOMAIN thread : thread[p].pc # "state"
        /\ thread[Monitor].pc = "check"
      BY RecordsOK DEF Init
  <2>2. /\ update \in [Operators -> Update] /\ NoState \in State
        /\ \A o \in Operators : update[o].pc = "idle"
      BY RecordsOK DEF Init, NoState, State
  <2> QED
    <3>1. /\ up \in [Hosts -> BOOLEAN] /\ changes \in 0..MaxChanges
          /\ display \in [Dashboards -> State]
        BY <2>2, MaxChangesAssumption DEF Init
    <3> QED
        BY <2>1, <2>2, <3>1 DEF Init, TypeOK
<1>2. Undisturbed
    BY RecordsOK DEF Init, Undisturbed
<1> QED
    BY <1>1, <1>2 DEF IInv

\* A step that leaves the exclusions and the operators alone.
LEMMA UndisturbedStays ==
    ASSUME Undisturbed, UNCHANGED <<exclusions, update, asked, contested>>
    PROVE  Undisturbed'
  BY DEF Undisturbed, Applied

\* A thread goes on, the monitor to something it does.
LEMMA ThreadOK ==
    ASSUME TypeOK, NEW p \in Handlers \cup {Monitor}, NEW t \in Thread, SetThread(p, t),
           t.pc = "state" => t.host # NoHost,
           p = Monitor => t.pc \notin {"idle", "connecting"}
    PROVE  /\ thread' \in [Handlers \cup {Monitor} -> Thread]
           /\ \A q \in DOMAIN thread' : thread'[q].pc = "state" => thread'[q].host # NoHost
           /\ thread'[Monitor].pc \notin {"idle", "connecting"}
  BY DEF TypeOK, SetThread

\* A thread that has finished: the monitor polls again.
LEMMA FinishedOK ==
    ASSUME TypeOK, NEW p \in Handlers \cup {Monitor}, Finished(p)
    PROVE  /\ thread' \in [Handlers \cup {Monitor} -> Thread]
           /\ \A q \in DOMAIN thread' : thread'[q].pc = "state" => thread'[q].host # NoHost
           /\ thread'[Monitor].pc \notin {"idle", "connecting"}
  BY RecordsOK, ThreadOK DEF Finished

\* Nodes and dashboards.
LEMMA WorldOK ==
    ASSUME IInv,
           \/ \E h \in Hosts : StartNode(h) \/ StopNode(h)
           \/ \E d \in Dashboards : Connect(d) \/ Disconnect(d)
    PROVE  IInv'
<1> USE MaxChangesAssumption DEF IInv, TypeOK
<1>1. ASSUME NEW h \in Hosts, StartNode(h) PROVE IInv'
    BY <1>1, UndisturbedStays DEF StartNode, Change, dashboardVars, operatorVars
<1>2. ASSUME NEW h \in Hosts, StopNode(h) PROVE IInv'
  <2>1. Undisturbed'
      BY <1>2 DEF StopNode, Undisturbed, Quiet, Applied
  <2> QED
      BY <1>2, <2>1 DEF StopNode, Change, dashboardVars
<1>3. ASSUME NEW d \in Dashboards, Connect(d) PROVE IInv'
    BY <1>3, UndisturbedStays DEF Connect, Change, clusterVars, operatorVars, Event
<1>4. ASSUME NEW d \in Dashboards, Disconnect(d) PROVE IInv'
    BY <1>4, UndisturbedStays
       DEF Disconnect, clusterVars, operatorVars, Event, NoState, State
<1> QED
    BY <1>1, <1>2, <1>3, <1>4

-----------------------------------------------------------------------------
\* sendState, of the monitor or of a handler.
LEMMA SendStateOK ==
    ASSUME IInv, NEW p \in Handlers \cup {Monitor}, ServerStep(p) PROVE IInv'
<1> USE DEF IInv
<1>1. Undisturbed'
    BY UndisturbedStays DEF ServerStep, ReadExclusions, ReadState, SendState,
                            clusterVars, operatorVars
<1>2. thread[p] \in Thread
    BY DEF TypeOK
<1>3. CASE ReadExclusions(p)
  <2>1. CASE Finished(p) /\ UNCHANGED excluded
      BY <1>1, <1>3, <2>1, FinishedOK
         DEF ReadExclusions, TypeOK, clusterVars, dashboardVars, operatorVars
  <2>2. ASSUME NEW h \in Hosts, NEW t, t = [NoThread EXCEPT
                    !.pc = "state", !.host = h,
                    !.session = IF p = Monitor THEN stompSession ELSE TRUE],
               SetThread(p, t), excluded' = exclusions
        PROVE  IInv'
    <3>1. t \in Thread /\ t.pc = "state" /\ t.host # NoHost
      <4> DEFINE b == IF p = Monitor THEN stompSession ELSE TRUE
      <4>1. h # NoHost /\ b \in BOOLEAN
          BY NoHostOutside DEF TypeOK
      <4>2. t = [NoThread EXCEPT !.pc = "state", !.host = h, !.session = b]
          BY <2>2
      <4> HIDE DEF b
      <4> QED
          BY <4>1, <4>2, RecordsOK DEF Thread
    <3> QED
        BY <1>1, <1>3, <2>2, <3>1, ThreadOK
           DEF ReadExclusions, TypeOK, clusterVars, dashboardVars, operatorVars
  <2> QED
      BY <1>3, <2>1, <2>2 DEF ReadExclusions
<1>4. CASE ReadState(p)
  <2>1. CASE Finished(p)
      BY <1>1, <1>4, <2>1, FinishedOK
         DEF ReadState, TypeOK, clusterVars, dashboardVars, operatorVars
  <2>2. ASSUME NEW t, t = [thread[p] EXCEPT !.pc = "send",
                              !.state = [nodes |-> alive, excluded |-> excluded]],
               SetThread(p, t)
        PROVE  IInv'
    <3>1. t \in Thread /\ t.pc = "send"
        BY <1>2, <2>2 DEF Thread, TypeOK, State
    <3> QED
        BY <1>1, <1>4, <2>2, <3>1, ThreadOK
           DEF ReadState, TypeOK, clusterVars, dashboardVars, operatorVars
  <2> QED
      BY <1>4, <2>1, <2>2 DEF ReadState
<1>5. CASE SendState(p)
    BY <1>1, <1>2, <1>5, FinishedOK
       DEF SendState, TypeOK, Thread, clusterVars, operatorVars
<1> QED
    BY <1>3, <1>4, <1>5 DEF ServerStep

\* The monitor's loop.
LEMMA MonitorStepOK ==
    ASSUME IInv, MonitorStep PROVE IInv'
<1> USE DEF IInv
<1>1. ASSUME NEW h \in Hosts, Check(h) PROVE IInv'
  <2>1. Undisturbed'
      BY <1>1, UndisturbedStays DEF Check, clusterVars, operatorVars
  <2>2. PICK t : /\ SetThread(Monitor, t)
                 /\ t = IF h = NumHosts THEN [NoThread EXCEPT !.pc = "publish"]
                                        ELSE [Polling EXCEPT !.host = h + 1]
      BY <1>1 DEF Check, PollNext
  <2>3. t \in Thread /\ t.pc \in {"publish", "check"}
    <3>1. CASE h = NumHosts
        BY <2>2, <3>1, RecordsOK DEF Thread
    <3>2. CASE h # NumHosts
      <4>1. h + 1 \in Hosts
          BY <3>2, NumHostsAssumption DEF Hosts
      <4> QED
          BY <2>2, <3>2, <4>1, RecordsOK DEF Thread
    <3> QED
        BY <3>1, <3>2
  <2>4. /\ thread' \in [Handlers \cup {Monitor} -> Thread]
        /\ \A q \in DOMAIN thread' : thread'[q].pc = "state" => thread'[q].host # NoHost
        /\ thread'[Monitor].pc \notin {"idle", "connecting"}
      BY <2>2, <2>3, ThreadOK
  <2> QED
      BY <1>1, <2>1, <2>4
         DEF Check, TypeOK, clusterVars, dashboardVars, operatorVars
<1>2. ASSUME Publish PROVE IInv'
  <2>1. Undisturbed'
      BY <1>2, UndisturbedStays DEF Publish, clusterVars, operatorVars
  <2>2. CASE Finished(Monitor)
      BY <1>2, <2>1, <2>2, FinishedOK
         DEF Publish, TypeOK, clusterVars, dashboardVars, operatorVars
  <2>3. ASSUME NEW t, t = [NoThread EXCEPT !.pc = "exclusions"], SetThread(Monitor, t)
        PROVE  IInv'
    <3>1. t \in Thread /\ t.pc = "exclusions"
        BY <2>3, RecordsOK DEF Thread
    <3> QED
        BY <1>2, <2>1, <2>3, <3>1, ThreadOK
           DEF Publish, TypeOK, clusterVars, dashboardVars, operatorVars
  <2> QED
      BY <1>2, <2>2, <2>3 DEF Publish
<1> QED
    BY <1>1, <1>2, SendStateOK DEF MonitorStep

\* The handlers of connect and disconnect events.
LEMMA HandlerStepOK ==
    ASSUME IInv, NEW p \in Handlers, HandlerStep(p) PROVE IInv'
<1> USE MonitorAssumption DEF IInv
<1>1. ASSUME NEW e \in events, HandleConnect(p, e) PROVE IInv'
  <2>1. Undisturbed'
      BY <1>1, UndisturbedStays DEF HandleConnect, clusterVars, operatorVars
  <2>2. events' \in SUBSET Event
      BY <1>1 DEF HandleConnect, TypeOK, Event
  <2>3. CASE UNCHANGED thread
      BY <1>1, <2>1, <2>2, <2>3
         DEF HandleConnect, TypeOK, clusterVars, dashboardVars, operatorVars
  <2>4. ASSUME NEW t, t = [NoThread EXCEPT !.pc = "connecting"], SetThread(p, t)
        PROVE  IInv'
    <3>1. t \in Thread /\ t.pc = "connecting"
        BY <2>4, RecordsOK DEF Thread
    <3> QED
        BY <1>1, <2>1, <2>2, <2>4, <3>1, ThreadOK
           DEF HandleConnect, TypeOK, clusterVars, dashboardVars, operatorVars
  <2> QED
      BY <1>1, <2>3, <2>4 DEF HandleConnect
<1>2. ASSUME NEW e \in events, HandleDisconnect(p, e) PROVE IInv'
    BY <1>2, UndisturbedStays DEF HandleDisconnect, TypeOK, clusterVars, operatorVars
<1>3. ASSUME Connected(p) PROVE IInv'
  <2>1. Undisturbed'
      BY <1>3, UndisturbedStays DEF Connected, clusterVars, operatorVars
  <2>2. PICK t : /\ SetThread(p, t)
                 /\ t = [NoThread EXCEPT !.pc = "exclusions", !.session = TRUE]
      BY <1>3 DEF Connected
  <2>3. t \in Thread /\ t.pc = "exclusions"
      BY <2>2, RecordsOK DEF Thread
  <2> QED
      BY <1>3, <2>1, <2>2, <2>3, ThreadOK
         DEF Connected, TypeOK, clusterVars, dashboardVars, operatorVars
<1> QED
    BY <1>1, <1>2, <1>3, SendStateOK DEF HandlerStep

\* The operators' updates.
LEMMA OperatorStepOK ==
    ASSUME IInv, NEW o \in Operators, BeginUpdate(o) \/ UpdateStep(o) PROVE IInv'
<1> USE DEF IInv
<1>1. update \in [Operators -> Update] /\ update[o] \in Update
    BY DEF TypeOK
<1>2. ASSUME BeginUpdate(o) PROVE IInv'
  <2>1. PICK action \in {"EXCLUDE", "INCLUDE"}, ip \in Hosts :
            SetUpdate(o, [NoUpdate EXCEPT !.pc = "get", !.action = action, !.ip = ip])
      BY <1>2 DEF BeginUpdate
  <2> DEFINE u == [NoUpdate EXCEPT !.pc = "get", !.action = action, !.ip = ip]
  <2>2. u \in Update /\ u.pc = "get" /\ u.ip # NoHost
      BY RecordsOK, NoHostOutside DEF Update
  <2>3. update' = [update EXCEPT ![o] = u]
      BY <2>1 DEF SetUpdate
  <2> HIDE DEF u
  <2>4. \A q \in Operators : update'[q] = IF q = o THEN u ELSE update[q]
      BY <1>1, <2>3
  <2>5. TypeOK'
    <3>1. /\ update' \in [Operators -> Update]
          /\ \A q \in Operators : update'[q].pc # "idle" => update'[q].ip # NoHost
        BY <1>1, <2>2, <2>3, <2>4 DEF TypeOK
    <3>2. contested' \in BOOLEAN
        BY <1>2 DEF BeginUpdate, Quiet, TypeOK
    <3>3. changes' \in 0..MaxChanges
      <4>1. Change /\ changes \in 0..MaxChanges
          BY <1>2 DEF BeginUpdate, TypeOK
      <4> QED
          BY <4>1, MaxChangesAssumption DEF Change
    <3> QED
        BY <1>2, <3>1, <3>2, <3>3
           DEF BeginUpdate, TypeOK, clusterVars, dashboardVars
  <2>6. Undisturbed'
    <3>1. contested' = (contested \/ ~Quiet) /\ UNCHANGED <<exclusions, asked>>
        BY <1>2 DEF BeginUpdate, clusterVars
    <3> QED
        BY <2>2, <2>4, <3>1 DEF Undisturbed, Quiet, Applied
  <2> QED
      BY <2>5, <2>6
<1>3. ASSUME GetExclusions(o) PROVE IInv'
  <2> DEFINE u == [update[o] EXCEPT !.pc = "put", !.host = ActiveHost,
                        !.ips = Applied(update[o], exclusions)]
  <2>1. /\ update[o].pc = "get" /\ ActiveHost \in alive
        /\ update' = [update EXCEPT ![o] = u]
        /\ UNCHANGED <<alive, exclusions, up, excluded, stompSession, events, watching,
                       display, forgotten, thread, asked, contested, changes>>
      BY <1>3 DEF GetExclusions, SetUpdate, clusterVars, dashboardVars
  <2>2. /\ Applied(update[o], exclusions) \in SUBSET Hosts
        /\ ActiveHost \in Hosts
    <3>1. update[o].ip \in Hosts
        BY <1>1, <2>1 DEF TypeOK, Update
    <3> QED
        BY <2>1, <3>1 DEF TypeOK, Applied
  <2>3. /\ u \in Update /\ u.pc = "put" /\ u.action = update[o].action
        /\ u.ip = update[o].ip /\ u.ips = Applied(update[o], exclusions)
      BY <1>1, <2>2 DEF Update
  <2> HIDE DEF u
  <2>4. \A q \in Operators : update'[q] = IF q = o THEN u ELSE update[q]
      BY <1>1, <2>1
  <2>5. TypeOK'
      BY <1>1, <2>1, <2>3 DEF TypeOK
  <2>6. Undisturbed'
    <3>1. ASSUME ~contested, NEW q \in Operators, q # o PROVE update[q].pc = "idle"
        BY <2>1, <3>1 DEF Undisturbed
    <3>2. Applied(u, exclusions) = Applied(update[o], exclusions)
        BY <2>3 DEF Applied
    <3>3. ASSUME ~contested', NEW q \in Operators, update'[q].pc # "idle" PROVE q = o
        BY <2>1, <2>4, <3>1, <3>3
    <3>4. ASSUME NEW q \in Operators, q = o
          PROVE  update'[q].ips = Applied(update'[q], exclusions')
        BY <2>1, <2>3, <2>4, <3>2, <3>4
    <3> QED
        BY <2>1, <3>3, <3>4 DEF Undisturbed, Applied
  <2> QED
      BY <2>5, <2>6
<1>4. ASSUME PutExclusions(o) PROVE IInv'
  <2>1. /\ update[o].pc = "put"
        /\ exclusions' = update[o].ips
        /\ asked' = Applied(update[o], asked)
        /\ update' = [update EXCEPT ![o] = NoUpdate]
        /\ UNCHANGED <<alive, up, excluded, stompSession, events, watching, display,
                       forgotten, thread, contested, changes>>
      BY <1>4 DEF PutExclusions, SetUpdate, Applied, dashboardVars
  <2>2. \A q \in Operators : update'[q] = IF q = o THEN NoUpdate ELSE update[q]
      BY <1>1, <2>1
  <2>3. Undisturbed'
    <3>1. ASSUME ~contested PROVE exclusions' = asked'
        BY <2>1, <3>1 DEF Undisturbed
    <3>2. ASSUME ~contested, NEW q \in Operators PROVE update'[q].pc = "idle"
        BY <2>1, <2>2, <3>2, RecordsOK DEF Undisturbed
    <3> QED
        BY <2>1, <3>1, <3>2 DEF Undisturbed
  <2>4. TypeOK'
    <3>1. update[o].ips \in SUBSET Hosts /\ update[o].ip \in Hosts
        BY <1>1, <2>1 DEF TypeOK, Update
    <3>2. asked' \in SUBSET Hosts
        BY <2>1, <3>1 DEF Applied, TypeOK
    <3> QED
        BY <1>1, <2>1, <2>2, <3>1, <3>2, RecordsOK DEF TypeOK
  <2> QED
      BY <2>3, <2>4
<1>5. ASSUME UpdateFails(o) PROVE IInv'
  <2>1. /\ update' = [update EXCEPT ![o] = NoUpdate]
        /\ UNCHANGED <<alive, exclusions, up, excluded, stompSession, events, watching,
                       display, forgotten, thread, asked, contested, changes>>
      BY <1>5 DEF UpdateFails, SetUpdate, clusterVars, dashboardVars
  <2>2. \A q \in Operators : update'[q] = IF q = o THEN NoUpdate ELSE update[q]
      BY <1>1, <2>1
  <2> QED
      BY <2>1, <2>2, RecordsOK DEF TypeOK, Undisturbed, Applied
<1> QED
    BY <1>2, <1>3, <1>4, <1>5 DEF UpdateStep

\* Every step keeps the inductive invariant.
LEMMA NextOK == IInv /\ [Next]_vars => IInv'
<1> SUFFICES ASSUME IInv, [Next]_vars PROVE IInv'
    OBVIOUS
<1>1. CASE UNCHANGED vars
    BY <1>1, UndisturbedStays
       DEF vars, IInv, TypeOK, clusterVars, dashboardVars, operatorVars
<1> QED
    BY <1>1, WorldOK, MonitorStepOK, HandlerStepOK, OperatorStepOK DEF Next

\* The inductive invariant always holds.
THEOREM Invariant == Spec => []IInv
  BY InitOK, NextOK, PTL DEF Spec

\* Every variable keeps its type, the monitor never ends and whoever sends a state
\* has a node to ask, for any number of nodes, dashboards, threads and operators.
THEOREM TypeCorrect == Spec => []TypeOK
<1>1. IInv => TypeOK
    BY DEF IInv
<1> QED
    BY <1>1, Invariant, PTL

\* Exclusions are lost only by updates that overlap (or with the last node): until
\* then the cluster has exactly what operators were told it has.
THEOREM ExclusionsKept == Spec => []ExclusionsAsAsked
<1>1. IInv => ExclusionsAsAsked
    BY DEF IInv, Undisturbed, ExclusionsAsAsked
<1> QED
    BY <1>1, Invariant, PTL
=============================================================================
