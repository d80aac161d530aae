--------------------------- MODULE SlackSocketMode ---------------------------
(***************************************************************************)
(* The connection of a SlackSocketModeIngestor                             *)
(* (src/remote/ingestors/slack/socket-mode.ts): every listener, timer      *)
(* callback and continuation after an await is an action.  Events that     *)
(* replaced sockets still deliver are received like any other, because     *)
(* the listeners do not ask which socket they belong to.  Event envelopes  *)
(* change nothing here; what becomes of them is in BaseIngestor.           *)
(***************************************************************************)
EXTENDS Naturals, FiniteSets

CONSTANTS
  Sockets,                \* WebSocket objects; a closed one is made anew
  NoSocket,               \* null
  maxReconnectAttempts,   \* 10
  MaxFaults               \* bound: disconnects, drops, refusals

ASSUME SocketsAssumption == IsFiniteSet(Sockets) /\ NoSocket \notin Sockets
ASSUME AttemptsAssumption == maxReconnectAttempts \in Nat \ {0}
ASSUME FaultsAssumption == MaxFaults \in Nat

VARIABLES
  state,                  \* what getStatus() reports
  ws,                     \* the field: the socket made last, or null
  reconnectAttempts,
  reconnectTimer,         \* the field holds a timer that is armed
  timers,                 \* how many timers are armed, held or overwritten
  fetches,                \* calls of openConnection() that await the URL
  sockets,                \* how far each socket is
  asked,                  \* history: what the manager has called
  faults,                 \* history: what Slack and the network have done
  refreshes,              \* history: how many of these were refreshes
  linkDisabled,           \* history: Slack has sent link_disabled
  quiet                   \* history: stop() found only what the fields name

fields == <<state, ws, reconnectAttempts>>
armed == <<reconnectTimer, timers>>
history == <<refreshes, linkDisabled, quiet>>

vars == <<fields, armed, fetches, sockets, asked, faults, history>>

(***************************************************************************)
(* A socket is greeted when it is open and its hello has come.             *)
(***************************************************************************)
Live == {"connecting", "open", "greeted"}

Init ==
  /\ state = "stopped"
  /\ ws = NoSocket
  /\ reconnectAttempts = 0
  /\ reconnectTimer = FALSE
  /\ timers = 0
  /\ fetches = 0
  /\ sockets = [s \in Sockets |-> "closed"]
  /\ asked = "nothing"
  /\ faults = 0
  /\ refreshes = 0
  /\ linkDisabled = FALSE
  /\ quiet = FALSE

Fault == faults < MaxFaults /\ faults' = faults + 1

-----------------------------------------------------------------------------
(***************************************************************************)
(* clearTimeout() reaches the timer the field holds, and no other.         *)
(***************************************************************************)
Unheld == IF reconnectTimer THEN timers - 1 ELSE timers

(***************************************************************************)
(* ws.close(): the close event comes later.                                *)
(***************************************************************************)
CloseWs ==
  /\ ws' = NoSocket
  /\ sockets' = [s \in Sockets |->
                   IF s = ws /\ sockets[s] \in Live THEN "closing" ELSE sockets[s]]

\* Mutant: the limit is tested with > for >=.
ScheduleReconnectOnceMore(attempts, held, left) ==
  /\ state # "stopped" /\ attempts <= maxReconnectAttempts
  /\ state' = "reconnecting"
  /\ reconnectAttempts' = attempts + 1
  /\ reconnectTimer' = TRUE
  /\ timers' = left + 1

(***************************************************************************)
(* scheduleReconnect(), with the attempts counted so far and the timers    *)
(* that are left.                                                          *)
(***************************************************************************)
ScheduleReconnect(attempts, held, left) ==
  \/ /\ state = "stopped"
     /\ reconnectAttempts' = attempts
     /\ reconnectTimer' = held
     /\ timers' = left
     /\ UNCHANGED state
  \/ /\ state # "stopped" /\ attempts >= maxReconnectAttempts
     /\ state' = "error"
     /\ reconnectAttempts' = attempts
     /\ reconnectTimer' = held
     /\ timers' = left
  \/ /\ state # "stopped" /\ attempts < maxReconnectAttempts
     /\ state' = "reconnecting"
     /\ reconnectAttempts' = attempts + 1
     /\ reconnectTimer' = TRUE
     /\ timers' = left + 1

-----------------------------------------------------------------------------
Start ==
  /\ asked = "nothing"
  /\ asked' = "start"
  /\ state' = "starting"
  /\ fetches' = fetches + 1
  /\ UNCHANGED <<ws, reconnectAttempts, armed, sockets, faults, history>>

\* Mutant: the reconnect timer is not cleared.
StopKeepsTimer ==
  /\ asked = "start"
  /\ asked' = "stop"
  /\ state' = "stopped"
  /\ CloseWs
  /\ quiet' = /\ fetches = 0
              /\ Unheld = 0
              /\ \A s \in Sockets : sockets[s] \in Live => s = ws
  /\ UNCHANGED <<armed, reconnectAttempts, fetches, faults, refreshes, linkDisabled>>

(***************************************************************************)
(* The manager stops an ingestor at any time, even while start() runs.     *)
(***************************************************************************)
Stop ==
  /\ asked = "start"
  /\ asked' = "stop"
  /\ state' = "stopped"
  /\ reconnectTimer' = FALSE
  /\ timers' = Unheld
  /\ CloseWs
  /\ quiet' = /\ fetches = 0
              /\ Unheld = 0
              /\ \A s \in Sockets : sockets[s] \in Live => s = ws
  /\ UNCHANGED <<reconnectAttempts, fetches, faults, refreshes, linkDisabled>>

(***************************************************************************)
(* openConnection() after its await: Slack has given a URL, or not.  The   *)
(* state is not looked at.                                                 *)
(***************************************************************************)
UrlRefused ==
  /\ fetches > 0
  /\ Fault
  /\ fetches' = fetches - 1
  /\ state' = "error"
  /\ UNCHANGED <<ws, reconnectAttempts, armed, sockets, asked, history>>

UrlGiven(s) ==
  /\ fetches > 0
  /\ sockets[s] = "closed"
  /\ fetches' = fetches - 1
  /\ ws' = s
  /\ sockets' = [sockets EXCEPT ![s] = "connecting"]
  /\ UNCHANGED <<state, reconnectAttempts, armed, asked, faults, history>>

OnOpen(s) ==
  /\ sockets[s] = "connecting"
  /\ sockets' = [sockets EXCEPT ![s] = "open"]
  /\ UNCHANGED <<fields, armed, fetches, asked, faults, history>>

\* Mutant: hello matters only while starting.
OnHelloOnce(s) ==
  /\ sockets[s] = "open"
  /\ sockets' = [sockets EXCEPT ![s] = "greeted"]
  /\ state' = IF state = "starting" THEN "connected" ELSE state
  /\ reconnectAttempts' = 0
  /\ UNCHANGED <<ws, armed, fetches, asked, faults, history>>

OnHello(s) ==
  /\ sockets[s] = "open"
  /\ sockets' = [sockets EXCEPT ![s] = "greeted"]
  /\ state' = "connected"
  /\ reconnectAttempts' = 0
  /\ UNCHANGED <<ws, armed, fetches, asked, faults, history>>

\* Mutant: a refresh leaves reconnecting to the close event.
OnRefreshAwaitsClose(s) ==
  /\ sockets[s] = "greeted"
  /\ Fault
  /\ CloseWs
  /\ refreshes' = refreshes + 1
  /\ UNCHANGED <<state, reconnectAttempts, armed, fetches, asked, linkDisabled, quiet>>

(***************************************************************************)
(* handleDisconnect(): refresh_requested and warning, then link_disabled.  *)
(* What is closed is the current socket, whichever got the message.        *)
(***************************************************************************)
OnRefresh(s) ==
  /\ sockets[s] = "greeted"
  /\ Fault
  /\ CloseWs
  /\ ScheduleReconnect(0, FALSE, Unheld)
  /\ refreshes' = refreshes + 1
  /\ UNCHANGED <<fetches, asked, linkDisabled, quiet>>

OnLinkDisabled(s) ==
  /\ sockets[s] = "greeted"
  /\ Fault
  /\ CloseWs
  /\ state' = "error"
  /\ linkDisabled' = TRUE
  /\ UNCHANGED <<reconnectAttempts, armed, fetches, asked, refreshes, quiet>>

\* Mutant: the error event, which comes before it, reconnects as well.
OnCloseAfterError(s) ==
  /\ sockets[s] \in Live
  /\ Fault
  /\ sockets' = [sockets EXCEPT ![s] = "closed"]
  /\ ScheduleReconnect(reconnectAttempts, TRUE, timers + 1)
  /\ UNCHANGED <<ws, fetches, asked, history>>

(***************************************************************************)
(* The close event, after close() or because the connection has dropped.   *)
(***************************************************************************)
OnClose(s) ==
  /\ sockets[s] # "closed"
  /\ \/ sockets[s] = "closing" /\ UNCHANGED faults
     \/ sockets[s] \in Live /\ Fault
  /\ sockets' = [sockets EXCEPT ![s] = "closed"]
  /\ ScheduleReconnect(reconnectAttempts, reconnectTimer, timers)
  /\ UNCHANGED <<ws, fetches, asked, history>>

(***************************************************************************)
(* The callback clears the field, even when it holds another timer.        *)
(***************************************************************************)
OnTimer ==
  /\ timers > 0
  /\ timers' = timers - 1
  /\ reconnectTimer' = FALSE
  /\ fetches' = fetches + 1
  /\ UNCHANGED <<fields, sockets, asked, faults, history>>

Next ==
  \/ Start
  \/ Stop
  \/ UrlRefused
  \/ OnTimer
  \/ \E s \in Sockets :
       \/ UrlGiven(s) \/ OnOpen(s) \/ OnHello(s)
       \/ OnRefresh(s) \/ OnLinkDisabled(s) \/ OnClose(s)

(***************************************************************************)
(* Timers fire, requests are answered, sockets open, Slack greets them,    *)
(* closed sockets say so.                                                  *)
(***************************************************************************)
Fairness ==
  /\ WF_vars(OnTimer)
  /\ WF_vars(\E s \in Sockets : UrlGiven(s))
  /\ \A s \in Sockets :
       /\ WF_vars(OnOpen(s))
       /\ WF_vars(OnHello(s))
       /\ WF_vars(sockets[s] = "closing" /\ OnClose(s))

Spec == Init /\ [][Next]_vars /\ Fairness

-----------------------------------------------------------------------------
(***************************************************************************)
(* The type invariant of an ingestor's connection.                         *)
(***************************************************************************)
TypeOK ==
  /\ state \in {"stopped", "starting", "connected", "reconnecting", "error"}
  /\ ws \in Sockets \cup {NoSocket}
  /\ reconnectAttempts \in 0 .. maxReconnectAttempts
  /\ reconnectTimer \in BOOLEAN
  /\ timers \in Nat
  /\ reconnectTimer => timers > 0
  /\ fetches \in Nat
  /\ sockets \in [Sockets -> Live \cup {"closing", "closed"}]
  /\ asked \in {"nothing", "start", "stop"}
  /\ faults \in 0 .. MaxFaults
  /\ refreshes \in 0 .. faults
  /\ linkDisabled \in BOOLEAN
  /\ quiet \in BOOLEAN

(***************************************************************************)
(* The state that ingestor_status reports is true.  Connected: some socket *)
(* is open and greeted, although late events of replaced sockets move the  *)
(* state as well.  On its way: a timer, a request or a socket is left      *)
(* whose next event moves it on.                                           *)
(***************************************************************************)
Unclosed == {s \in Sockets : sockets[s] # "closed"}

ConnectedIsTrue == state = "connected" => \E s \in Sockets : sockets[s] = "greeted"

NeverStranded ==
  state \in {"starting", "connected", "reconnecting"}
    => timers > 0 \/ fetches > 0 \/ Unclosed # {}

StateIsTrue == ConnectedIsTrue /\ NeverStranded

(***************************************************************************)
(* A refresh schedules a reconnect, and so does the close event of the     *)
(* socket it closes: each adds one connection to those there are.  Nothing *)
(* else does: a dropped socket is replaced by one.                         *)
(***************************************************************************)
OneMorePerRefresh == timers + fetches + Cardinality(Unclosed) <= 1 + refreshes

(***************************************************************************)
(* stop() is final if it finds no request under way, and no timer or       *)
(* socket but those its fields name.                                       *)
(***************************************************************************)
NothingLeft ==
  /\ timers = 0
  /\ \A s \in Sockets : sockets[s] \notin Live

QuietStopIsFinal == quiet => state = "stopped" /\ fetches = 0 /\ NothingLeft

(***************************************************************************)
(* An ingestor that starts or reconnects gets there or gives up.           *)
(***************************************************************************)
Settles ==
  state \in {"starting", "reconnecting"} ~> state \in {"connected", "error", "stopped"}

(***************************************************************************)
(* What base-ingestor.ts says of stop(): connections closed, timers        *)
(* cleared.                                                                *)
(***************************************************************************)
StopLeavesNothing == asked = "stop" => NothingLeft

(***************************************************************************)
(* What handleDisconnect() says of link_disabled: stop permanently.        *)
(***************************************************************************)
LinkDisabledIsFinal == linkDisabled /\ asked = "start" => state # "reconnecting"
=============================================================================
