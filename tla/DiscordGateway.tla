--------------------------- MODULE DiscordGateway ---------------------------
(***************************************************************************)
(* The connection of a DiscordGatewayIngestor                              *)
(* (src/remote/ingestors/discord/discord-gateway.ts): every listener and   *)
(* timer callback is an action.  Unlike Slack's, its timers are all held   *)
(* by fields and all cleared together, but the listeners of a replaced     *)
(* socket still act on the shared fields, and what they send goes to the   *)
(* socket that ws names now.  Sequence numbers are left out: the fields    *)
(* sequenceNumber and discordSessionId are set and cleared together.       *)
(***************************************************************************)
EXTENDS Naturals, FiniteSets

CONSTANTS
  Sockets,                \* WebSocket objects; a closed one is made anew
  NoSocket,               \* null
  maxReconnectAttempts,   \* 10
  MaxSessions,            \* bound: Gateway sessions that Discord creates
  MaxFaults               \* bound: what Discord and the network do wrong

ASSUME SocketsAssumption == IsFiniteSet(Sockets) /\ NoSocket \notin Sockets
ASSUME AttemptsAssumption == maxReconnectAttempts \in Nat \ {0}
ASSUME BoundsAssumption == MaxSessions \in Nat /\ MaxFaults \in Nat

VARIABLES
  state,                  \* what getStatus() reports
  ws,                     \* the field: the socket made last, or null
  discordSessionId,       \* the field; 0 is null
  reconnectAttempts,
  timers,                 \* the timer fields that hold an armed timer
  heartbeatAcked,
  delayed,                \* requests that wait after an invalid session
  sockets,                \* how far each socket is
  given,                  \* the session each socket resumes or was given
  token,                  \* DISCORD_BOT_TOKEN is among the secrets
  asked,                  \* history: what the manager has called
  made,                   \* history: sessions that Discord has created
  faults,                 \* history: of any kind
  replaced,               \* history: sockets that the code closed to reconnect
  keyed,                  \* history: <<session in the key, session>> of events
  quiet                   \* history: stop() found no socket but its own

fields == <<state, ws, discordSessionId, reconnectAttempts>>
beats == <<timers, heartbeatAcked, delayed>>
gateway == <<sockets, given>>
history == <<made, replaced, keyed, quiet>>

vars == <<fields, beats, gateway, token, asked, faults, history>>

(***************************************************************************)
(* A socket is greeted when Discord's hello has come, then asks to         *)
(* identify or resume, and is ready when Discord has said so.  A silent    *)
(* one delivers nothing and has not noticed.                               *)
(***************************************************************************)
Requests == {"identify", "resume"}
Usable == {"open", "greeted", "ready"} \cup Requests
Live == Usable \cup {"connecting", "silent"}

Init ==
  /\ state = "stopped"
  /\ ws = NoSocket
  /\ discordSessionId = 0
  /\ reconnectAttempts = 0
  /\ timers = {}
  /\ heartbeatAcked = TRUE
  /\ delayed = [r \in Requests |-> 0]
  /\ sockets = [s \in Sockets |-> "closed"]
  /\ given = [s \in Sockets |-> 0]
  /\ token \in BOOLEAN
  /\ asked = "nothing"
  /\ made = 0
  /\ faults = 0
  /\ replaced = 0
  /\ keyed = {}
  /\ quiet = FALSE

Fault == faults < MaxFaults /\ faults' = faults + 1

-----------------------------------------------------------------------------
(***************************************************************************)
(* connect(), whose URL may be one the constructor refuses.                *)
(***************************************************************************)
Connect ==
  \/ \E s \in Sockets :
       /\ sockets[s] = "closed"
       /\ ws' = s
       /\ sockets' = [sockets EXCEPT ![s] = "connecting"]
       /\ UNCHANGED <<state, faults>>
  \/ /\ Fault
     /\ state' = "error"
     /\ UNCHANGED <<ws, sockets>>

CloseWs ==
  /\ ws' = NoSocket
  /\ sockets' = [s \in Sockets |->
                   IF s = ws /\ sockets[s] \in Live THEN "closing" ELSE sockets[s]]

(***************************************************************************)
(* send(), after the sockets have come as far as now says: a request of a  *)
(* greeted socket reaches Discord; any other does nothing.                 *)
(***************************************************************************)
Request(r, now) ==
  IF ws # NoSocket /\ now[ws] = "greeted"
    THEN /\ sockets' = [now EXCEPT ![ws] = r]
         /\ given' = [given EXCEPT ![ws] = IF r = "resume" THEN discordSessionId ELSE 0]
    ELSE sockets' = now /\ UNCHANGED given

SendIdentify(now) ==
  \/ token /\ Request("identify", now) /\ UNCHANGED state
  \/ ~token /\ state' = "error" /\ sockets' = now /\ UNCHANGED given

SendResume(now) == Request("resume", now) /\ UNCHANGED state

\* Mutant: the limit is tested with > for >=.
ScheduleReconnectOnceMore ==
  /\ reconnectAttempts <= maxReconnectAttempts
  /\ state' = "reconnecting"
  /\ reconnectAttempts' = reconnectAttempts + 1
  /\ timers' = {"reconnect"}

(***************************************************************************)
(* scheduleReconnect(); its callers have cleared every timer.              *)
(***************************************************************************)
ScheduleReconnect ==
  \/ /\ reconnectAttempts >= maxReconnectAttempts
     /\ state' = "error"
     /\ timers' = {}
     /\ UNCHANGED reconnectAttempts
  \/ /\ reconnectAttempts < maxReconnectAttempts
     /\ state' = "reconnecting"
     /\ reconnectAttempts' = reconnectAttempts + 1
     /\ timers' = {"reconnect"}

InitiateReconnect ==
  /\ CloseWs
  /\ ScheduleReconnect
  /\ replaced' = replaced + 1
  /\ UNCHANGED <<discordSessionId, heartbeatAcked, delayed, given, token, asked,
                 made, keyed, quiet>>

-----------------------------------------------------------------------------
Start ==
  /\ asked = "nothing"
  /\ asked' = "start"
  /\ \/ /\ state' = "starting"
        /\ \E s \in Sockets :
             /\ ws' = s
             /\ sockets' = [sockets EXCEPT ![s] = "connecting"]
        /\ UNCHANGED faults
     \/ /\ Fault
        /\ state' = "error"
        /\ UNCHANGED <<ws, sockets>>
  /\ UNCHANGED <<discordSessionId, reconnectAttempts, beats, given, token, history>>

\* Mutant: the timers are not cleared.
StopKeepsTimers ==
  /\ asked = "start"
  /\ asked' = "stop"
  /\ state' = "stopped"
  /\ CloseWs
  /\ quiet' = \A s \in Sockets : sockets[s] \in Live => s = ws
  /\ UNCHANGED <<discordSessionId, reconnectAttempts, beats, given, token, faults,
                 made, replaced, keyed>>

Stop ==
  /\ asked = "start"
  /\ asked' = "stop"
  /\ state' = "stopped"
  /\ timers' = {}
  /\ CloseWs
  /\ quiet' = \A s \in Sockets : sockets[s] \in Live => s = ws
  /\ UNCHANGED <<discordSessionId, reconnectAttempts, heartbeatAcked, delayed,
                 given, token, faults, made, replaced, keyed>>

OnOpen(s) ==
  /\ sockets[s] = "connecting"
  /\ sockets' = [sockets EXCEPT ![s] = "open"]
  /\ UNCHANGED <<fields, beats, given, token, asked, faults, history>>

(***************************************************************************)
(* handleHello(): clears every timer, a scheduled reconnect included, and  *)
(* sends on the current socket, whichever was greeted.                     *)
(***************************************************************************)
OnHello(s) ==
  /\ sockets[s] = "open"
  /\ timers' = {"jitter"}
  /\ LET now == [sockets EXCEPT ![s] = "greeted"]
     IN  \/ discordSessionId # 0 /\ SendResume(now)
         \/ discordSessionId = 0 /\ SendIdentify(now)
  /\ UNCHANGED <<ws, discordSessionId, reconnectAttempts, heartbeatAcked, delayed,
                 token, asked, faults, history>>

(***************************************************************************)
(* handleDispatch() of an event of a session, while the field names id:    *)
(* its idempotency key carries id.                                         *)
(***************************************************************************)
PushEvent(id, session) == keyed' = keyed \cup {<<id, session>>}

OnReady(s) ==
  /\ sockets[s] = "identify"
  /\ made < MaxSessions
  /\ made' = made + 1
  /\ discordSessionId' = made'
  /\ sockets' = [sockets EXCEPT ![s] = "ready"]
  /\ given' = [given EXCEPT ![s] = made']
  /\ state' = "connected"
  /\ reconnectAttempts' = 0
  /\ PushEvent(made', made')
  /\ UNCHANGED <<ws, beats, token, asked, faults, replaced, quiet>>

\* Mutant: RESUMED does not say that the ingestor is connected.
OnResumedSilently(s) ==
  /\ sockets[s] = "resume" /\ given[s] # 0
  /\ sockets' = [sockets EXCEPT ![s] = "ready"]
  /\ reconnectAttempts' = 0
  /\ PushEvent(discordSessionId, given[s])
  /\ UNCHANGED <<state, ws, discordSessionId, beats, given, token, asked, faults,
                 made, replaced, quiet>>

OnResumed(s) ==
  /\ sockets[s] = "resume" /\ given[s] # 0
  /\ sockets' = [sockets EXCEPT ![s] = "ready"]
  /\ state' = "connected"
  /\ reconnectAttempts' = 0
  /\ PushEvent(discordSessionId, given[s])
  /\ UNCHANGED <<ws, discordSessionId, beats, given, token, asked, faults,
                 made, replaced, quiet>>

OnDispatch(s) ==
  /\ sockets[s] = "ready"
  /\ PushEvent(discordSessionId, given[s])
  /\ UNCHANGED <<fields, beats, gateway, token, asked, faults, made, replaced, quiet>>

(***************************************************************************)
(* handleInvalidSession(): the request that follows is held by no field.   *)
(***************************************************************************)
OnInvalidSession(s, resumable) ==
  /\ sockets[s] \in Requests \cup {"ready"}
  /\ \/ Fault
     \/ sockets[s] = "resume" /\ given[s] = 0 /\ ~resumable /\ UNCHANGED faults
  /\ sockets' = [sockets EXCEPT ![s] = "greeted"]
  /\ given' = [given EXCEPT ![s] = 0]
  /\ discordSessionId' = IF resumable THEN discordSessionId ELSE 0
  /\ delayed' = [delayed EXCEPT ![IF resumable THEN "resume" ELSE "identify"] = @ + 1]
  /\ UNCHANGED <<state, ws, reconnectAttempts, timers, heartbeatAcked, token, asked,
                 history>>

OnDelayed(r) ==
  /\ delayed[r] > 0
  /\ delayed' = [delayed EXCEPT ![r] = @ - 1]
  /\ IF r = "resume" THEN SendResume(sockets) ELSE SendIdentify(sockets)
  /\ UNCHANGED <<ws, discordSessionId, reconnectAttempts, timers, heartbeatAcked,
                 token, asked, faults, history>>

\* Op 7: Discord asks for a reconnect.
OnReconnect(s) ==
  /\ sockets[s] \in Usable \ {"open"}
  /\ Fault
  /\ InitiateReconnect

-----------------------------------------------------------------------------
(***************************************************************************)
(* The heartbeat: after the jitter, one at each interval, whose answer     *)
(* must come before the next.                                              *)
(***************************************************************************)
OnJitter ==
  /\ "jitter" \in timers
  /\ timers' = (timers \ {"jitter"}) \cup {"heartbeat"}
  /\ UNCHANGED <<fields, heartbeatAcked, delayed, gateway, token, asked, faults, history>>

OnHeartbeat ==
  /\ "heartbeat" \in timers
  /\ heartbeatAcked
  /\ heartbeatAcked' = FALSE
  /\ UNCHANGED <<fields, timers, delayed, gateway, token, asked, faults, history>>

Answers == ws # NoSocket /\ sockets[ws] \in Usable

OnHeartbeatAck ==
  /\ "heartbeat" \in timers /\ ~heartbeatAcked
  /\ Answers
  /\ heartbeatAcked' = TRUE
  /\ UNCHANGED <<fields, timers, delayed, gateway, token, asked, faults, history>>

\* Mutant: a missing answer only makes for another heartbeat.
OnHeartbeatMissedPatient ==
  /\ "heartbeat" \in timers /\ ~heartbeatAcked
  /\ ~Answers
  /\ UNCHANGED vars

\* The answer is late, which is a fault, or cannot come.
OnHeartbeatMissed ==
  /\ "heartbeat" \in timers /\ ~heartbeatAcked
  /\ \/ Answers /\ Fault
     \/ ~Answers /\ UNCHANGED faults
  /\ InitiateReconnect

FallSilent(s) ==
  /\ sockets[s] = "ready"
  /\ Fault
  /\ sockets' = [sockets EXCEPT ![s] = "silent"]
  /\ UNCHANGED <<fields, beats, given, token, asked, history>>

-----------------------------------------------------------------------------
\* Mutant: a code that invalidates the session does no more than that.
HandleCloseForgets(code) ==
  \/ /\ code = "nonRecoverable"
     /\ state' = "error"
     /\ timers' = {}
     /\ UNCHANGED <<discordSessionId, reconnectAttempts>>
  \/ /\ code = "invalidatesSession"
     /\ discordSessionId' = 0
     /\ timers' = {}
     /\ UNCHANGED <<state, reconnectAttempts>>
  \/ /\ code = "other"
     /\ UNCHANGED discordSessionId
     /\ ScheduleReconnect

(***************************************************************************)
(* handleClose(): what the code of a close event asks for.                 *)
(***************************************************************************)
HandleClose(code) ==
  \/ /\ code = "nonRecoverable"
     /\ state' = "error"
     /\ timers' = {}
     /\ UNCHANGED <<discordSessionId, reconnectAttempts>>
  \/ /\ code = "invalidatesSession"
     /\ discordSessionId' = 0
     /\ ScheduleReconnect
  \/ /\ code = "other"
     /\ UNCHANGED discordSessionId
     /\ ScheduleReconnect

(***************************************************************************)
(* The close event, late after close(), or because the connection is lost, *)
(* or because Discord waits no longer for a socket that never identified.  *)
(***************************************************************************)
OnClose(s, code) ==
  /\ \/ sockets[s] \in {"closing", "greeted"} /\ code = "other" /\ UNCHANGED faults
     \/ sockets[s] \in Usable /\ Fault
     \/ sockets[s] \in {"connecting", "silent"} /\ code = "other" /\ Fault
  /\ sockets' = [sockets EXCEPT ![s] = "closed"]
  /\ given' = [given EXCEPT ![s] = 0]
  /\ IF state = "stopped"
       THEN timers' = {} /\ UNCHANGED <<state, discordSessionId, reconnectAttempts>>
       ELSE HandleClose(code)
  /\ UNCHANGED <<ws, heartbeatAcked, delayed, token, asked, history>>

\* Mutant: setInterval for setTimeout.
OnTimerRepeats ==
  /\ "reconnect" \in timers
  /\ Connect
  /\ UNCHANGED <<discordSessionId, reconnectAttempts, beats, given, token, asked, history>>

OnTimer ==
  /\ "reconnect" \in timers
  /\ timers' = timers \ {"reconnect"}
  /\ Connect
  /\ UNCHANGED <<discordSessionId, reconnectAttempts, heartbeatAcked, delayed, given,
                 token, asked, history>>

Codes == {"nonRecoverable", "invalidatesSession", "other"}

Next ==
  \/ Start \/ Stop
  \/ OnJitter \/ OnHeartbeat \/ OnHeartbeatAck \/ OnHeartbeatMissed
  \/ OnTimer
  \/ \E r \in Requests : OnDelayed(r)
  \/ \E s \in Sockets :
       \/ OnOpen(s) \/ OnHello(s) \/ OnReady(s) \/ OnResumed(s) \/ OnDispatch(s)
       \/ \E resumable \in BOOLEAN : OnInvalidSession(s, resumable)
       \/ OnReconnect(s) \/ FallSilent(s)
       \/ \E code \in Codes : OnClose(s, code)

(***************************************************************************)
(* Timers fire, sockets open, Discord greets, answers and closes.          *)
(***************************************************************************)
Fairness ==
  /\ WF_vars(OnTimer) /\ WF_vars(OnJitter)
  /\ WF_vars(OnHeartbeat) /\ WF_vars(OnHeartbeatAck) /\ WF_vars(OnHeartbeatMissed)
  /\ \A r \in Requests : WF_vars(OnDelayed(r))
  /\ \A s \in Sockets :
       /\ WF_vars(OnOpen(s)) /\ WF_vars(OnHello(s))
       /\ WF_vars(OnReady(s)) /\ WF_vars(OnResumed(s))
       /\ WF_vars(given[s] = 0 /\ OnInvalidSession(s, FALSE))
       /\ WF_vars(sockets[s] \in {"closing", "greeted"} /\ OnClose(s, "other"))

Spec == Init /\ [][Next]_vars /\ Fairness

-----------------------------------------------------------------------------
(***************************************************************************)
(* The type invariant of an ingestor's connection.  At most one timer is   *)
(* armed: each is set after all are cleared.                               *)
(***************************************************************************)
TypeOK ==
  /\ state \in {"stopped", "starting", "connected", "reconnecting", "error"}
  /\ ws \in Sockets \cup {NoSocket}
  /\ discordSessionId \in 0 .. made
  /\ reconnectAttempts \in 0 .. maxReconnectAttempts
  /\ timers \in {{}, {"reconnect"}, {"jitter"}, {"heartbeat"}}
  /\ heartbeatAcked \in BOOLEAN
  /\ delayed \in [Requests -> Nat]
  /\ sockets \in [Sockets -> Live \cup {"closing", "closed"}]
  /\ given \in [Sockets -> 0 .. made]
  /\ token \in BOOLEAN
  /\ asked \in {"nothing", "start", "stop"}
  /\ made \in 0 .. MaxSessions
  /\ faults \in 0 .. MaxFaults
  /\ replaced \in Nat
  /\ keyed \subseteq (0 .. made) \X (0 .. made)
  /\ quiet \in BOOLEAN

(***************************************************************************)
(* The state that ingestor_status reports is true.  Connected: Discord has *)
(* greeted a socket that is still open, although late events of replaced   *)
(* sockets move the state as well.  On its way: a timer or a socket is     *)
(* left whose next event moves it on, although hello clears a scheduled    *)
(* reconnect.                                                              *)
(***************************************************************************)
Unclosed == {s \in Sockets : sockets[s] # "closed"}

ConnectedIsTrue ==
  state = "connected"
    => \E s \in Sockets : sockets[s] \in Live \ {"connecting", "open"}

NeverStranded ==
  state \in {"starting", "connected", "reconnecting"}
    => "reconnect" \in timers \/ Unclosed # {}

StateIsTrue == ConnectedIsTrue /\ NeverStranded

(***************************************************************************)
(* Closing a socket to reconnect schedules a connection, and so does its   *)
(* close event.  Nothing else adds a connection.                           *)
(***************************************************************************)
Scheduled == IF "reconnect" \in timers THEN 1 ELSE 0

OneMorePerReplaced == Scheduled + Cardinality(Unclosed) <= 1 + replaced

(***************************************************************************)
(* stop() is final if no replaced socket is still live.                    *)
(***************************************************************************)
QuietStopIsFinal ==
  quiet => /\ state = "stopped"
           /\ timers = {}
           /\ \A s \in Sockets : sockets[s] \notin Live

(***************************************************************************)
(* Idempotency keys of events of different Gateway sessions never collide: *)
(* that is what the comment on them says.                                  *)
(***************************************************************************)
KeysNeverCollide == \A p, q \in keyed : p[1] = q[1] => p[2] = q[2]

(***************************************************************************)
(* An ingestor that starts or reconnects gets there or gives up.           *)
(***************************************************************************)
Settles ==
  state \in {"starting", "reconnecting"} ~> state \in {"connected", "error", "stopped"}

(***************************************************************************)
(* As long as the code has not closed a socket to reconnect, silence is    *)
(* noticed by the heartbeat, which closes it.                              *)
(***************************************************************************)
SilenceIsNoticed ==
  replaced = 0 /\ state = "connected" /\ (\A s \in Sockets : sockets[s] # "ready")
    ~> replaced > 0 \/ state # "connected" \/ \E s \in Sockets : sockets[s] = "ready"
=============================================================================
