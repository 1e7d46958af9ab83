---------------------------- MODULE ClusterMonitor ----------------------------
(***************************************************************************)
(* cluster-monitor: the thread that polls the nodes of the Elasticsearch   *)
(* cluster, the dashboards it publishes to, and the operators who exclude  *)
(* nodes from allocation.                                                  *)
(*                                                                         *)
(* The server publishes to its dashboards through a STOMP client of its    *)
(* own.  The handlers of Spring's connect and disconnect events keep that  *)
(* client: the first dashboard opens it, and any dashboard that leaves     *)
(* makes the server forget it.  The client's own connection is an event    *)
(* too.  Events are handled by any thread, in any order.                   *)
(*                                                                         *)
(* The nodes are external: they start and stop, and a call to one that is  *)
(* down fails.                                                             *)
(***************************************************************************)
EXTENDS Integers, FiniteSets

CONSTANTS
    NumHosts,        \* how many nodes hostsHolder.hosts lists
    Dashboards,      \* browsers that show the dashboard
    Handlers,        \* threads that handle connect and disconnect events
    Operators,       \* dashboards' requests to exclude or include a node
    Monitor,         \* the thread of ClusterMonitor
    MaxChanges       \* bound on the changes of nodes, exclusions and dashboards

ASSUME NumHostsAssumption == NumHosts \in Nat \ {0}
ASSUME MonitorAssumption == Monitor \notin Handlers
ASSUME MaxChangesAssumption == MaxChanges \in Nat

\* The nodes' addresses, in the order of the list.
Hosts == 1..NumHosts
NoHost == 0

VARIABLES
    alive,           \* the nodes that answer
    exclusions,      \* cluster.routing.allocation.exclude._ip, transient
    up,              \* hostsHolder.up: the nodes the monitor thinks answer
    excluded,        \* hostsHolder.excluded
    stompSession,    \* has the server its client session?
    events,          \* connect and disconnect events not handled yet
    watching,        \* the dashboards that are connected
    display,         \* display[d]: what dashboard d shows
    thread,          \* thread[p]: the monitor and the handlers
    update,          \* update[o]: the exclusion that operator o changes
    changes,         \* counts stops, starts, updates and connections
    forgotten,       \* history: dashboards connected when the session was forgotten
    asked,           \* history: the exclusions acknowledged to operators
    contested        \* history: did updates overlap, or lose the cluster?

clusterVars == <<alive, exclusions>>
dashboardVars == <<watching, display, forgotten>>
operatorVars == <<update, asked, contested>>
vars == <<clusterVars, up, excluded, stompSession, events, dashboardVars, thread,
          operatorVars, changes>>

State == [nodes: SUBSET Hosts, excluded: SUBSET Hosts]
NoState == [nodes |-> {}, excluded |-> {}]

Event == [type: {"connect", "disconnect"}, from: Dashboards \cup Handlers]

Thread == [pc: {"idle", "check", "publish", "connecting", "exclusions", "state", "send"},
           host: Hosts \cup {NoHost}, \* check: to be polled next; state: asked
           session: BOOLEAN,         \* sendState's argument: not null
           state: State]
NoThread == [pc |-> "idle", host |-> NoHost, session |-> FALSE, state |-> NoState]
Polling == [pc |-> "check", host |-> 1, session |-> FALSE, state |-> NoState]

Update == [pc: {"idle", "get", "put"}, action: {"EXCLUDE", "INCLUDE"},
           ip: Hosts \cup {NoHost}, host: Hosts \cup {NoHost}, ips: SUBSET Hosts]
NoUpdate == [pc |-> "idle", action |-> "EXCLUDE", ip |-> NoHost, host |-> NoHost,
             ips |-> {}]

\* Types; a thread that sends has a node to ask, an operator a node to change, and
\* the monitor never ends or waits for a connection.
TypeOK ==
    /\ alive \in SUBSET Hosts /\ exclusions \in SUBSET Hosts
    /\ up \in [Hosts -> BOOLEAN] /\ excluded \in SUBSET Hosts
    /\ stompSession \in BOOLEAN
    /\ events \in SUBSET Event
    /\ watching \in SUBSET Dashboards
    /\ display \in [Dashboards -> State]
    /\ thread \in [Handlers \cup {Monitor} -> Thread]
    /\ update \in [Operators -> Update]
    /\ changes \in 0..MaxChanges
    /\ forgotten \in SUBSET Dashboards
    /\ asked \in SUBSET Hosts /\ contested \in BOOLEAN
    /\ \A p \in DOMAIN thread : thread[p].pc = "state" => thread[p].host # NoHost
    /\ thread[Monitor].pc \notin {"idle", "connecting"}
    /\ \A o \in Operators : update[o].pc # "idle" => update[o].ip # NoHost

Init ==
    /\ alive = Hosts /\ exclusions = {}
    /\ up = [h \in Hosts |-> TRUE] /\ excluded = {}
    /\ stompSession = FALSE
    /\ events = {}
    /\ watching = {} /\ forgotten = {}
    /\ display = [d \in Dashboards |-> NoState]
    /\ thread = [p \in Handlers \cup {Monitor} |->
                    IF p = Monitor THEN Polling ELSE NoThread]
    /\ update = [o \in Operators |-> NoUpdate]
    /\ changes = 0
    /\ asked = {} /\ contested = FALSE

-----------------------------------------------------------------------------
(* The nodes.  StartNode and StopNode of the dashboard run scripts that do *)
(* the same as anybody else who starts or stops a container.               *)

Change == changes < MaxChanges /\ changes' = changes + 1

StartNode(h) ==
    /\ Change
    /\ h \notin alive
    /\ alive' = alive \cup {h}
    /\ UNCHANGED <<exclusions, up, excluded, stompSession, events, dashboardVars,
                   thread, operatorVars>>

\* No operator's update is under way.
Quiet == \A o \in Operators : update[o].pc = "idle"

\* A transient setting is gone when the last node is.
StopNode(h) ==
    /\ Change
    /\ h \in alive
    /\ alive' = alive \ {h}
    /\ exclusions' = IF alive = {h} THEN {} ELSE exclusions
    /\ asked' = IF alive = {h} THEN {} ELSE asked
    /\ contested' = (contested \/ (alive = {h} /\ ~Quiet))
    /\ UNCHANGED <<up, excluded, stompSession, events, dashboardVars, thread, update>>

-----------------------------------------------------------------------------
(* Dashboards and their events.                                            *)

Connect(d) ==
    /\ Change
    /\ d \notin watching
    /\ [type |-> "connect", from |-> d] \notin events
    /\ watching' = watching \cup {d}
    /\ events' = events \cup {[type |-> "connect", from |-> d]}
    /\ UNCHANGED <<clusterVars, up, excluded, stompSession, display, forgotten,
                   thread, operatorVars>>

\* A page that is loaded again disconnects and connects, and nothing orders the
\* two events.  (At most one event of each type of a dashboard is waiting.)
Disconnect(d) ==
    /\ d \in watching
    /\ [type |-> "disconnect", from |-> d] \notin events
    /\ forgotten' = forgotten \ {d}
    /\ watching' = watching \ {d}
    /\ display' = [display EXCEPT ![d] = NoState]
    /\ events' = events \cup {[type |-> "disconnect", from |-> d]}
    /\ UNCHANGED <<clusterVars, up, excluded, stompSession, thread, operatorVars,
                   changes>>

SetThread(p, t) == thread' = [thread EXCEPT ![p] = t]

\* StompConnectEventListener: without a session it opens a client, whose own
\* connection is another event, and waits for it.
HandleConnect(p, e) ==
    /\ e.type = "connect"
    /\ thread[p].pc = "idle"
    /\ \/ /\ stompSession
          /\ events' = events \ {e}
          /\ UNCHANGED thread
       \/ /\ ~stompSession
          /\ events' = (events \ {e}) \cup {[type |-> "connect", from |-> p]}
          /\ SetThread(p, [NoThread EXCEPT !.pc = "connecting"])
    /\ UNCHANGED <<clusterVars, up, excluded, stompSession, dashboardVars,
                   operatorVars, changes>>

\* The client is connected: the listener keeps its session, and afterConnected
\* sends the state through it.
Connected(p) ==
    /\ thread[p].pc = "connecting"
    /\ stompSession' = TRUE
    /\ SetThread(p, [NoThread EXCEPT !.pc = "exclusions", !.session = TRUE])
    /\ UNCHANGED <<clusterVars, up, excluded, events, dashboardVars, operatorVars,
                   changes>>

\* StompDisconnectEventListener: whoever left, the session is forgotten.
HandleDisconnect(p, e) ==
    /\ e.type = "disconnect"
    /\ thread[p].pc = "idle"
    /\ events' = events \ {e}
    /\ stompSession' = FALSE
    /\ forgotten' = forgotten \cup watching
    /\ UNCHANGED <<clusterVars, up, excluded, watching, display, thread,
                   operatorVars, changes>>

-----------------------------------------------------------------------------
(* The monitor's loop, and sendState.                                      *)

\* The nodes are polled one after the other; any exception means that one is down.
PollNext == SetThread(Monitor, IF thread[Monitor].host = NumHosts
                               THEN [NoThread EXCEPT !.pc = "publish"]
                               ELSE [Polling EXCEPT !.host = thread[Monitor].host + 1])
Check(h) ==
    /\ thread[Monitor].pc = "check" /\ h = thread[Monitor].host
    /\ up' = [up EXCEPT ![h] = h \in alive]
    /\ PollNext
    /\ UNCHANGED <<clusterVars, excluded, stompSession, events, dashboardVars,
                   operatorVars, changes>>

\* sendState ends: the monitor sleeps and polls again, a handler is done.
ThreadEnds(p) == SetThread(p, NoThread)   \* mutant: the monitor stops
Finished(p) == SetThread(p, IF p = Monitor THEN Polling ELSE NoThread)

Publish ==
    /\ thread[Monitor].pc = "publish"
    /\ \/ /\ stompSession
          /\ SetThread(Monitor, [NoThread EXCEPT !.pc = "exclusions"])
       \/ /\ ~stompSession
          /\ Finished(Monitor)
    /\ UNCHANGED <<clusterVars, up, excluded, stompSession, events, dashboardVars,
                   operatorVars, changes>>

\* sendState(getStompSession()): the session is read a second time.  Some node
\* that is thought to be up (the first in the order of a HashMap) is asked for
\* the exclusions; with none, or one that is down, sendState gives up.
ReadExclusions(p) ==
    /\ thread[p].pc = "exclusions"
    /\ \/ \E h \in Hosts :
            /\ up[h] /\ h \in alive
            /\ excluded' = exclusions
            /\ SetThread(p, [NoThread EXCEPT
                    !.pc = "state", !.host = h,
                    !.session = IF p = Monitor THEN stompSession ELSE TRUE])
       \/ /\ (\A h \in Hosts : ~up[h]) \/ (\E h \in Hosts : up[h] /\ h \notin alive)
          /\ Finished(p)
          /\ UNCHANGED excluded
    /\ UNCHANGED <<clusterVars, up, stompSession, events, dashboardVars,
                   operatorVars, changes>>

\* The same node is asked for the state of the cluster, shown together with
\* hostsHolder.excluded.
ReadStateOnly(p) ==                 \* mutant: the exclusions are left out
    /\ thread[p].pc = "state"
    /\ SetThread(p, [thread[p] EXCEPT !.pc = "send",
                        !.state = [nodes |-> alive, excluded |-> {}]])
    /\ UNCHANGED <<clusterVars, up, excluded, stompSession, events, dashboardVars,
                   operatorVars, changes>>
ReadState(p) ==
    /\ thread[p].pc = "state"
    /\ \/ /\ thread[p].host \in alive
          /\ SetThread(p, [thread[p] EXCEPT !.pc = "send",
                              !.state = [nodes |-> alive, excluded |-> excluded]])
       \/ /\ thread[p].host \notin alive
          /\ Finished(p)
    /\ UNCHANGED <<clusterVars, up, excluded, stompSession, events, dashboardVars,
                   operatorVars, changes>>

\* Through a session, the state goes to every dashboard; a null one is an
\* exception that sendState catches.
SendState(p) ==
    /\ thread[p].pc = "send"
    /\ display' = [d \in Dashboards |->
            IF thread[p].session /\ d \in watching THEN thread[p].state
                                                   ELSE display[d]]
    /\ Finished(p)
    /\ UNCHANGED <<clusterVars, up, excluded, stompSession, events, watching,
                   forgotten, operatorVars, changes>>

-----------------------------------------------------------------------------
(* updateExclusions.                                                       *)

SetUpdate(o, u) == update' = [update EXCEPT ![o] = u]

BeginUpdate(o) ==
    /\ Change
    /\ update[o].pc = "idle"
    /\ \E action \in {"EXCLUDE", "INCLUDE"}, ip \in Hosts :
        SetUpdate(o, [NoUpdate EXCEPT !.pc = "get", !.action = action, !.ip = ip])
    /\ contested' = (contested \/ ~Quiet)
    /\ UNCHANGED <<clusterVars, up, excluded, stompSession, events, dashboardVars,
                   thread, asked>>

\* What the operator asks for, applied to the exclusions ips.
OnlyThis(u, ips) ==                 \* mutant: the other exclusions are dropped
    IF u.action = "EXCLUDE" THEN {u.ip} ELSE ips \ {u.ip}
Applied(u, ips) ==
    IF u.action = "EXCLUDE" THEN ips \cup {u.ip} ELSE ips \ {u.ip}

\* The first node of the list that is thought to be up (NoHost: there is none).
ActiveHost == CHOOSE h \in Hosts \cup {NoHost} :
                IF h = NoHost THEN \A g \in Hosts : ~up[g]
                              ELSE up[h] /\ \A g \in 1..(h - 1) : ~up[g]

\* It is asked for all exclusions ...
GetExclusions(o) ==
    /\ update[o].pc = "get" /\ ActiveHost \in alive
    /\ SetUpdate(o, [update[o] EXCEPT !.pc = "put", !.host = ActiveHost,
                        !.ips = Applied(update[o], exclusions)])
    /\ UNCHANGED <<clusterVars, up, excluded, stompSession, events, dashboardVars,
                   thread, asked, contested, changes>>

\* ... and gets the whole list back.
PutExclusions(o) ==
    /\ update[o].pc = "put" /\ update[o].host \in alive
    /\ exclusions' = update[o].ips
    /\ asked' = IF update[o].action = "EXCLUDE" THEN asked \cup {update[o].ip}
                                                ELSE asked \ {update[o].ip}
    /\ SetUpdate(o, NoUpdate)
    /\ UNCHANGED <<alive, up, excluded, stompSession, events, dashboardVars, thread,
                   contested, changes>>

\* No node is thought to be up, or the one that is asked is down: an error.
UpdateFails(o) ==
    /\ \/ update[o].pc = "get" /\ ActiveHost \notin alive
       \/ update[o].pc = "put" /\ update[o].host \notin alive
    /\ SetUpdate(o, NoUpdate)
    /\ UNCHANGED <<clusterVars, up, excluded, stompSession, events, dashboardVars,
                   thread, asked, contested, changes>>

ServerStep(p) ==
    \/ ReadExclusions(p) \/ ReadState(p) \/ SendState(p)

MonitorStep ==
    \/ \E h \in Hosts : Check(h)
    \/ Publish \/ ServerStep(Monitor)

HandlerStep(p) ==
    \/ \E e \in events : HandleConnect(p, e) \/ HandleDisconnect(p, e)
    \/ Connected(p) \/ ServerStep(p)

UpdateStep(o) == GetExclusions(o) \/ PutExclusions(o) \/ UpdateFails(o)

Next ==
    \/ \E h \in Hosts : StartNode(h) \/ StopNode(h)
    \/ \E d \in Dashboards : Connect(d) \/ Disconnect(d)
    \/ MonitorStep
    \/ \E p \in Handlers : HandlerStep(p)
    \/ \E o \in Operators : BeginUpdate(o) \/ UpdateStep(o)

\* The server's threads go on; nodes, browsers and operators need not.
Fairness ==
    /\ WF_vars(MonitorStep)
    /\ \A p \in Handlers : WF_vars(HandlerStep(p))
    /\ \A o \in Operators : WF_vars(UpdateStep(o))

Spec == Init /\ [][Next]_vars /\ Fairness

-----------------------------------------------------------------------------
\* Reading the exclusions and writing them back loses an exclusion only if two
\* updates overlap: until then the cluster has what was acknowledged, whichever
\* nodes the updates went to and whatever stops and starts on the way, as long as
\* one node is left.
ExclusionsAsAsked == ~contested => exclusions = asked

\* While a node answers, a dashboard that stays connected shows in the end which
\* nodes do and which are excluded, unless the session was forgotten after it
\* connected.  (The changes are bounded, so there is an end.)
DisplayCatchesUp ==
    \A d \in Dashboards :
        <>[](d \in watching \ forgotten /\ alive # {})
            => <>[](display[d] = [nodes |-> alive, excluded |-> exclusions])
=============================================================================
