----------------------- MODULE DiscordGateway_proofs -----------------------
(***************************************************************************)
(* Proofs about DiscordGateway, for any number of sockets, attempts,       *)
(* sessions and faults.                                                    *)
(***************************************************************************)
EXTENDS DiscordGateway, FiniteSetTheorems, TLAPS

Stages == Live \cup {"closing", "closed"}

(***************************************************************************)
(* Nothing is under way before start(); only stop() makes it quiet; and    *)
(* without a token Discord has never been asked for a session, so that no  *)
(* request is delayed whose refusal would change the state after stop().   *)
(***************************************************************************)
IdleBeforeStart == asked = "nothing" => timers = {} /\ Unclosed = {}

QuietIsStopped == quiet => asked = "stop"

NothingWithoutToken ==
  ~token => /\ made = 0
            /\ \A r \in Requests : delayed[r] = 0
            /\ \A s \in Sockets : sockets[s] \notin Requests \cup {"ready"}

IInv ==
  /\ TypeOK
  /\ ConnectedIsTrue
  /\ NeverStranded
  /\ IdleBeforeStart
  /\ OneMorePerReplaced
  /\ NothingWithoutToken
  /\ QuietIsStopped
  /\ QuietStopIsFinal

(***************************************************************************)
(* What close() does to the current socket, and what a request does.       *)
(***************************************************************************)
LEMMA CloseWsType ==
  ASSUME TypeOK, CloseWs
  PROVE  /\ ws' \in Sockets \cup {NoSocket}
         /\ sockets' \in [Sockets -> Stages]
         /\ \A s \in Sockets : sockets'[s] = "closed" <=> sockets[s] = "closed"
         /\ \A s \in Sockets : sockets'[s] \in Live => s # ws /\ sockets'[s] = sockets[s]
BY DEF TypeOK, CloseWs, Live, Usable, Requests, Stages

LEMMA RequestType ==
  ASSUME TypeOK, NEW r \in Requests, NEW now \in [Sockets -> Stages], Request(r, now)
  PROVE  /\ sockets' \in [Sockets -> Stages]
         /\ given' \in [Sockets -> 0 .. made]
         /\ \A s \in Sockets : \/ sockets'[s] = now[s]
                               \/ now[s] = "greeted" /\ sockets'[s] = r
<1>1. r \in Stages
  BY DEF Stages, Live, Usable
<1>2. CASE ws # NoSocket /\ now[ws] = "greeted"
  BY <1>1, <1>2 DEF TypeOK, Request
<1>3. CASE ~(ws # NoSocket /\ now[ws] = "greeted")
  BY <1>3 DEF TypeOK, Request
<1> QED
  BY <1>2, <1>3

(***************************************************************************)
(* sendIdentify() and sendResume(): no socket is closed or made, and       *)
(* without a token only the state changes.                                 *)
(***************************************************************************)
LEMMA SendType ==
  ASSUME TypeOK, NEW now \in [Sockets -> Stages],
         SendIdentify(now) \/ SendResume(now)
  PROVE  /\ sockets' \in [Sockets -> Stages]
         /\ given' \in [Sockets -> 0 .. made]
         /\ state' = state \/ (state' = "error" /\ ~token)
         /\ \A s \in Sockets : \/ sockets'[s] = now[s]
                               \/ now[s] = "greeted" /\ sockets'[s] \in Requests
         /\ SendIdentify(now) /\ ~token => sockets' = now
<1>1. CASE token /\ Request("identify", now) /\ UNCHANGED state
  BY <1>1, RequestType DEF Requests
<1>2. CASE ~token /\ state' = "error" /\ sockets' = now /\ UNCHANGED given
  BY <1>2 DEF TypeOK
<1>3. CASE SendResume(now)
  <2>1. Request("resume", now) /\ state' = state
    BY <1>3 DEF SendResume
  <2>2. SendIdentify(now) /\ ~token => sockets' = now
    BY DEF SendIdentify
  <2> QED
    BY <2>1, <2>2, RequestType DEF Requests
<1> QED
  BY <1>1, <1>2, <1>3 DEF SendIdentify

(***************************************************************************)
(* What scheduleReconnect() leaves: a timer, or a state that promises      *)
(* nothing.                                                                *)
(***************************************************************************)
LEMMA ScheduleReconnectType ==
  ASSUME TypeOK, ScheduleReconnect
  PROVE  /\ state' \in {"error", "reconnecting"}
         /\ state' = "reconnecting" => "reconnect" \in timers'
         /\ reconnectAttempts' \in 0 .. maxReconnectAttempts
         /\ timers' \in {{}, {"reconnect"}}
BY AttemptsAssumption DEF TypeOK, ScheduleReconnect

LEMMA ScheduledType ==
  /\ Scheduled \in {0, 1}
  /\ Scheduled' \in {0, 1}
BY DEF Scheduled

(***************************************************************************)
(* A timer or a live socket: start() has been called, and stop() was not   *)
(* final.                                                                  *)
(***************************************************************************)
LEMMA SocketActs ==
  ASSUME IInv, NEW s \in Sockets, sockets[s] \in Live
  PROVE  ~quiet /\ asked # "nothing" /\ s \in Unclosed
<1>1. s \in Unclosed
  BY DEF Unclosed, Live, Usable, Requests
<1> QED
  BY <1>1 DEF IInv, QuietStopIsFinal, IdleBeforeStart

LEMMA TimerActs ==
  ASSUME IInv, timers # {}
  PROVE  ~quiet /\ asked # "nothing"
BY DEF IInv, QuietStopIsFinal, IdleBeforeStart

LEMMA InitIInv == Init => IInv
<1> SUFFICES ASSUME Init PROVE IInv
  OBVIOUS
<1> USE AttemptsAssumption, BoundsAssumption DEF Init
<1>1. /\ state \in {"stopped", "starting", "connected", "reconnecting", "error"}
      /\ ws \in Sockets \cup {NoSocket}
      /\ timers \in {{}, {"reconnect"}, {"jitter"}, {"heartbeat"}}
      /\ sockets \in [Sockets -> Live \cup {"closing", "closed"}]
      /\ asked \in {"nothing", "start", "stop"}
  BY DEF Live
<1>2. /\ discordSessionId \in 0 .. made
      /\ reconnectAttempts \in 0 .. maxReconnectAttempts
      /\ delayed \in [Requests -> Nat]
      /\ given \in [Sockets -> 0 .. made]
      /\ made \in 0 .. MaxSessions
      /\ faults \in 0 .. MaxFaults
      /\ replaced \in Nat
      /\ keyed \subseteq (0 .. made) \X (0 .. made)
  OBVIOUS
<1>3. /\ heartbeatAcked \in BOOLEAN
      /\ token \in BOOLEAN
      /\ quiet \in BOOLEAN
  OBVIOUS
<1>4. TypeOK
  BY <1>1, <1>2, <1>3 DEF TypeOK
<1>5. Unclosed = {} /\ Cardinality(Unclosed) = 0
  BY FS_EmptySet DEF Unclosed
<1>6. IdleBeforeStart /\ OneMorePerReplaced
  BY <1>5 DEF IdleBeforeStart, OneMorePerReplaced, Scheduled
<1>7. ConnectedIsTrue /\ NeverStranded /\ ~quiet
  BY DEF ConnectedIsTrue, NeverStranded
<1>8. NothingWithoutToken
  BY DEF NothingWithoutToken, Requests
<1> QED
  BY <1>4, <1>6, <1>7, <1>8 DEF IInv, QuietIsStopped, QuietStopIsFinal

-----------------------------------------------------------------------------
(***************************************************************************)
(* How many sockets are not closed, after one is made and one is closed.   *)
(***************************************************************************)
LEMMA UnclosedFinite ==
  IsFiniteSet(Unclosed) /\ Cardinality(Unclosed) \in Nat
<1>1. Unclosed \subseteq Sockets
  BY DEF Unclosed
<1> QED
  BY <1>1, SocketsAssumption, FS_Subset, FS_CardinalityType

LEMMA SocketMade ==
  ASSUME TypeOK, NEW s \in Sockets, sockets[s] = "closed",
         sockets' = [sockets EXCEPT ![s] = "connecting"]
  PROVE  s \in Unclosed' /\ Cardinality(Unclosed') = Cardinality(Unclosed) + 1
<1>1. Unclosed' = Unclosed \cup {s} /\ s \notin Unclosed
  BY DEF TypeOK, Unclosed
<1> QED
  BY <1>1, UnclosedFinite, FS_AddElement

LEMMA SocketClosed ==
  ASSUME TypeOK, NEW s \in Sockets, sockets[s] # "closed",
         sockets' = [sockets EXCEPT ![s] = "closed"]
  PROVE  Cardinality(Unclosed') = Cardinality(Unclosed) - 1
<1>1. Unclosed' = Unclosed \ {s} /\ s \in Unclosed
  BY DEF TypeOK, Unclosed
<1> QED
  BY <1>1, UnclosedFinite, FS_RemoveElement

LEMMA CloseWsKeepsUnclosed ==
  ASSUME TypeOK, CloseWs
  PROVE  Unclosed' = Unclosed
BY CloseWsType DEF Unclosed

-----------------------------------------------------------------------------
(***************************************************************************)
(* What the manager calls, and each listener and callback, preserves the   *)
(* invariant.                                                              *)
(***************************************************************************)
LEMMA StartStep ==
  ASSUME IInv, Start
  PROVE  IInv'
<1>1. /\ TypeOK
      /\ asked = "nothing" /\ asked' = "start"
      /\ timers = {} /\ Unclosed = {} /\ replaced \in Nat
      /\ UNCHANGED <<discordSessionId, reconnectAttempts, timers, heartbeatAcked, delayed,
                     given, token, made, replaced, keyed, quiet>>
      /\ ~quiet
  BY DEF IInv, TypeOK, IdleBeforeStart, QuietIsStopped, Start, beats, history
<1>2. CASE /\ state' = "starting"
           /\ \E s \in Sockets : ws' = s /\ sockets' = [sockets EXCEPT ![s] = "connecting"]
           /\ UNCHANGED faults
  <2>1. PICK s \in Sockets : ws' = s /\ sockets' = [sockets EXCEPT ![s] = "connecting"]
    BY <1>2
  <2>2. sockets[s] = "closed"
    BY <1>1 DEF Unclosed
  <2>3. s \in Unclosed' /\ Cardinality(Unclosed') = 1
    <3>1. Cardinality(Unclosed) = 0
      BY <1>1, FS_EmptySet
    <3>2. TypeOK /\ sockets' = [sockets EXCEPT ![s] = "connecting"]
      BY <1>1, <2>1
    <3>3. s \in Unclosed' /\ Cardinality(Unclosed') = Cardinality(Unclosed) + 1
      BY <2>2, <3>2, SocketMade
    <3> QED
      BY <3>1, <3>3
  <2>4. TypeOK'
    BY <1>1, <1>2, <2>1 DEF TypeOK, Live
  <2>5. OneMorePerReplaced'
    BY <1>1, <2>3 DEF OneMorePerReplaced, Scheduled
  <2>6. NothingWithoutToken'
    BY <1>1, <2>1 DEF IInv, TypeOK, NothingWithoutToken, Requests
  <2> QED
    BY <1>1, <1>2, <2>3, <2>4, <2>5, <2>6
    DEF IInv, ConnectedIsTrue, NeverStranded, IdleBeforeStart, QuietIsStopped, QuietStopIsFinal
<1>3. CASE Fault /\ state' = "error" /\ UNCHANGED <<ws, sockets>>
  <2>1. TypeOK'
    BY <1>1, <1>3, BoundsAssumption DEF TypeOK, Fault
  <2>2. Unclosed' = Unclosed
    BY <1>3 DEF Unclosed
  <2>3. OneMorePerReplaced'
    BY <1>1, <2>2 DEF IInv, OneMorePerReplaced, Scheduled
  <2>4. NothingWithoutToken'
    BY <1>1, <1>3 DEF IInv, NothingWithoutToken
  <2> QED
    BY <1>1, <1>3, <2>1, <2>3, <2>4
    DEF IInv, ConnectedIsTrue, NeverStranded, IdleBeforeStart, QuietIsStopped, QuietStopIsFinal
<1> QED
  BY <1>2, <1>3 DEF Start

LEMMA StopStep ==
  ASSUME IInv, Stop
  PROVE  IInv'
<1>1. /\ TypeOK /\ CloseWs
      /\ asked' = "stop" /\ state' = "stopped" /\ timers' = {}
      /\ UNCHANGED <<discordSessionId, reconnectAttempts, heartbeatAcked, delayed,
                     given, token, faults, made, replaced, keyed>>
  BY DEF IInv, Stop
<1>2. quiet' = \A s \in Sockets : sockets[s] \in Live => s = ws
  BY DEF Stop
<1>3. quiet' \in BOOLEAN
  BY <1>2
<1>4. /\ ws' \in Sockets \cup {NoSocket}
      /\ sockets' \in [Sockets -> Stages]
      /\ \A s \in Sockets : sockets'[s] \in Live => s # ws /\ sockets'[s] = sockets[s]
  BY <1>1, CloseWsType
<1>5. TypeOK'
  BY <1>1, <1>3, <1>4 DEF TypeOK, Stages
<1>6. Unclosed' = Unclosed
  BY <1>1, CloseWsKeepsUnclosed
<1>7. OneMorePerReplaced'
  <2>1. Scheduled' = 0
    BY <1>1 DEF Scheduled
  <2> QED
    BY <1>1, <1>6, <2>1, ScheduledType, UnclosedFinite DEF IInv, TypeOK, OneMorePerReplaced
<1>8. NothingWithoutToken'
  BY <1>1, <1>4 DEF IInv, NothingWithoutToken, Live, Usable
<1>9. QuietStopIsFinal'
  BY <1>1, <1>2, <1>4 DEF QuietStopIsFinal
<1> QED
  BY <1>1, <1>5, <1>7, <1>8, <1>9
  DEF IInv, ConnectedIsTrue, NeverStranded, IdleBeforeStart, QuietIsStopped

(***************************************************************************)
(* A socket opens; a socket falls silent; Discord delivers an event.       *)
(***************************************************************************)
LEMMA OpenStep ==
  ASSUME IInv, NEW s \in Sockets, OnOpen(s)
  PROVE  IInv'
<1>1. /\ TypeOK /\ sockets[s] = "connecting" /\ sockets[s] \in Live
      /\ sockets' = [sockets EXCEPT ![s] = "open"]
      /\ UNCHANGED <<state, ws, discordSessionId, reconnectAttempts, timers, heartbeatAcked,
                     delayed, given, token, asked, faults, made, replaced, keyed, quiet>>
  BY DEF IInv, OnOpen, fields, beats, history, Live
<1>2. ~quiet /\ asked # "nothing" /\ s \in Unclosed
  BY <1>1, SocketActs
<1>3. TypeOK'
  BY <1>1 DEF TypeOK, Live, Usable
<1>4. Unclosed' = Unclosed
  BY <1>1 DEF TypeOK, Unclosed
<1>5. ConnectedIsTrue'
  BY <1>1 DEF IInv, TypeOK, ConnectedIsTrue
<1>6. NeverStranded' /\ OneMorePerReplaced'
  BY <1>1, <1>2, <1>4 DEF IInv, NeverStranded, OneMorePerReplaced, Scheduled
<1>7. NothingWithoutToken'
  BY <1>1 DEF IInv, TypeOK, NothingWithoutToken, Requests
<1> QED
  BY <1>1, <1>2, <1>3, <1>5, <1>6, <1>7
  DEF IInv, IdleBeforeStart, QuietIsStopped, QuietStopIsFinal

LEMMA SilentStep ==
  ASSUME IInv, NEW s \in Sockets, FallSilent(s)
  PROVE  IInv'
<1>1. /\ TypeOK /\ sockets[s] = "ready" /\ sockets[s] \in Live
      /\ faults < MaxFaults /\ faults' = faults + 1
      /\ sockets' = [sockets EXCEPT ![s] = "silent"]
      /\ UNCHANGED <<state, ws, discordSessionId, reconnectAttempts, timers, heartbeatAcked,
                     delayed, given, token, asked, made, replaced, keyed, quiet>>
  BY DEF IInv, FallSilent, Fault, fields, beats, history, Live, Usable
<1>2. ~quiet /\ asked # "nothing" /\ s \in Unclosed
  BY <1>1, SocketActs
<1>3. TypeOK'
  BY <1>1, BoundsAssumption DEF TypeOK, Live
<1>4. Unclosed' = Unclosed
  BY <1>1 DEF TypeOK, Unclosed
<1>5. ConnectedIsTrue'
  BY <1>1 DEF IInv, TypeOK, ConnectedIsTrue, Live
<1>6. NeverStranded' /\ OneMorePerReplaced'
  BY <1>1, <1>2, <1>4 DEF IInv, NeverStranded, OneMorePerReplaced, Scheduled
<1>7. NothingWithoutToken'
  BY <1>1 DEF IInv, TypeOK, NothingWithoutToken, Requests
<1> QED
  BY <1>1, <1>2, <1>3, <1>5, <1>6, <1>7
  DEF IInv, IdleBeforeStart, QuietIsStopped, QuietStopIsFinal

LEMMA DispatchStep ==
  ASSUME IInv, NEW s \in Sockets, OnDispatch(s)
  PROVE  IInv'
<1>1. /\ TypeOK /\ sockets[s] = "ready" /\ sockets[s] \in Live
      /\ keyed' = keyed \cup {<<discordSessionId, given[s]>>}
      /\ UNCHANGED <<state, ws, discordSessionId, reconnectAttempts, timers, heartbeatAcked,
                     delayed, sockets, given, token, asked, faults, made, replaced, quiet>>
  BY DEF IInv, OnDispatch, PushEvent, fields, beats, gateway, Live, Usable
<1>2. TypeOK'
  BY <1>1 DEF TypeOK
<1>3. Unclosed' = Unclosed
  BY <1>1 DEF Unclosed
<1> QED
  BY <1>1, <1>2, <1>3
  DEF IInv, ConnectedIsTrue, NeverStranded, OneMorePerReplaced, Scheduled, NothingWithoutToken,
      IdleBeforeStart, QuietIsStopped, QuietStopIsFinal

(***************************************************************************)
(* hello, and the delayed identify and resume: a request goes out, or      *)
(* without a token the state becomes an error.                             *)
(***************************************************************************)
LEMMA HelloStep ==
  ASSUME IInv, NEW s \in Sockets, OnHello(s)
  PROVE  IInv'
<1> DEFINE now == [sockets EXCEPT ![s] = "greeted"]
<1>1. /\ TypeOK /\ sockets[s] = "open" /\ sockets[s] \in Live
      /\ timers' = {"jitter"}
      /\ (discordSessionId # 0 /\ SendResume(now)) \/ (discordSessionId = 0 /\ SendIdentify(now))
      /\ UNCHANGED <<ws, discordSessionId, reconnectAttempts, heartbeatAcked, delayed, token,
                     asked, faults, made, replaced, keyed, quiet>>
  BY DEF IInv, OnHello, history, Live, Usable
<1>2. ~quiet /\ asked # "nothing" /\ s \in Unclosed
  BY <1>1, SocketActs
<1>3. now \in [Sockets -> Stages]
  BY <1>1 DEF TypeOK, Stages, Live, Usable
<1>4. /\ sockets' \in [Sockets -> Stages]
      /\ given' \in [Sockets -> 0 .. made]
      /\ state' = state \/ (state' = "error" /\ ~token)
      /\ \A q \in Sockets : \/ sockets'[q] = now[q]
                            \/ now[q] = "greeted" /\ sockets'[q] \in Requests
      /\ SendIdentify(now) /\ ~token => sockets' = now
  <2>1. SendIdentify(now) \/ SendResume(now)
    BY <1>1
  <2> HIDE DEF now
  <2> QED
    BY <1>1, <1>3, <2>1, SendType
<1>5. TypeOK'
  BY <1>1, <1>4 DEF TypeOK, Stages
<1>6. Unclosed' = Unclosed
  BY <1>1, <1>4 DEF TypeOK, Unclosed, Requests
<1>7. ConnectedIsTrue'
  <2> SUFFICES ASSUME state' = "connected"
               PROVE  \E q \in Sockets : sockets'[q] \in Live \ {"connecting", "open"}
    BY DEF ConnectedIsTrue
  <2>1. sockets'[s] \in {"greeted"} \cup Requests
    BY <1>1, <1>4 DEF TypeOK
  <2> QED
    BY <2>1 DEF Live, Usable, Requests
<1>8. NeverStranded'
  BY <1>2, <1>6 DEF NeverStranded
<1>9. OneMorePerReplaced'
  <2>1. Scheduled' = 0
    BY <1>1 DEF Scheduled
  <2> QED
    BY <1>1, <1>6, <2>1, ScheduledType, UnclosedFinite DEF IInv, TypeOK, OneMorePerReplaced
<1>10. NothingWithoutToken'
  <2> SUFFICES ASSUME ~token
               PROVE  /\ made = 0
                      /\ \A r \in Requests : delayed[r] = 0
                      /\ \A q \in Sockets : sockets'[q] \notin Requests \cup {"ready"}
    BY <1>1 DEF NothingWithoutToken
  <2>1. /\ made = 0
        /\ \A r \in Requests : delayed[r] = 0
        /\ \A q \in Sockets : sockets[q] \notin Requests \cup {"ready"}
    BY DEF IInv, NothingWithoutToken
  <2>2. discordSessionId = 0
    BY <1>1, <2>1 DEF TypeOK
  <2>3. sockets' = now
    BY <1>1, <1>4, <2>2
  <2> QED
    BY <1>1, <2>1, <2>3 DEF TypeOK, Requests
<1> QED
  BY <1>1, <1>2, <1>5, <1>7, <1>8, <1>9, <1>10
  DEF IInv, IdleBeforeStart, QuietIsStopped, QuietStopIsFinal

LEMMA DelayedStep ==
  ASSUME IInv, NEW r \in Requests, OnDelayed(r)
  PROVE  IInv'
<1>1. /\ TypeOK /\ delayed[r] > 0
      /\ delayed' = [delayed EXCEPT ![r] = @ - 1]
      /\ SendIdentify(sockets) \/ SendResume(sockets)
      /\ UNCHANGED <<ws, discordSessionId, reconnectAttempts, timers, heartbeatAcked, token,
                     asked, faults, made, replaced, keyed, quiet>>
  BY DEF IInv, OnDelayed, history
<1>2. token
  BY <1>1 DEF IInv, TypeOK, NothingWithoutToken
<1>3. sockets \in [Sockets -> Stages]
  BY <1>1 DEF TypeOK, Stages
<1>4. /\ sockets' \in [Sockets -> Stages]
      /\ given' \in [Sockets -> 0 .. made]
      /\ state' = state
      /\ \A q \in Sockets : \/ sockets'[q] = sockets[q]
                            \/ sockets[q] = "greeted" /\ sockets'[q] \in Requests
  BY <1>1, <1>2, <1>3, SendType
<1>5. delayed' \in [Requests -> Nat]
  BY <1>1 DEF TypeOK
<1>6. TypeOK'
  BY <1>1, <1>4, <1>5 DEF TypeOK, Stages
<1>7. Unclosed' = Unclosed
  BY <1>4 DEF Unclosed, Requests
<1>8. ConnectedIsTrue'
  <2> SUFFICES ASSUME state = "connected"
               PROVE  \E q \in Sockets : sockets'[q] \in Live \ {"connecting", "open"}
    BY <1>4 DEF ConnectedIsTrue
  <2>1. PICK q \in Sockets : sockets[q] \in Live \ {"connecting", "open"}
    BY DEF IInv, ConnectedIsTrue
  <2>2. sockets'[q] \in Live \ {"connecting", "open"}
    BY <1>4, <2>1 DEF Live, Usable, Requests
  <2> QED
    BY <2>2
<1>9. NeverStranded' /\ OneMorePerReplaced' /\ IdleBeforeStart'
  BY <1>1, <1>4, <1>7 DEF IInv, NeverStranded, OneMorePerReplaced, Scheduled, IdleBeforeStart
<1>10. NothingWithoutToken' /\ QuietIsStopped'
  BY <1>1, <1>2 DEF IInv, NothingWithoutToken, QuietIsStopped
<1>11. QuietStopIsFinal'
  <2> SUFFICES ASSUME quiet
               PROVE  /\ state = "stopped"
                      /\ timers = {}
                      /\ \A q \in Sockets : sockets'[q] \notin Live
    BY <1>1, <1>4 DEF QuietStopIsFinal
  <2>1. state = "stopped" /\ timers = {} /\ \A q \in Sockets : sockets[q] \notin Live
    BY DEF IInv, QuietStopIsFinal
  <2> QED
    BY <1>4, <2>1 DEF Live, Usable
<1> QED
  BY <1>6, <1>8, <1>9, <1>10, <1>11 DEF IInv

(***************************************************************************)
(* READY, RESUMED and an invalid session.                                  *)
(***************************************************************************)
LEMMA ReadyStep ==
  ASSUME IInv, NEW s \in Sockets, OnReady(s)
  PROVE  IInv'
<1>1. /\ TypeOK /\ sockets[s] = "identify" /\ sockets[s] \in Live
      /\ made < MaxSessions /\ made' = made + 1
      /\ discordSessionId' = made'
      /\ sockets' = [sockets EXCEPT ![s] = "ready"]
      /\ given' = [given EXCEPT ![s] = made']
      /\ state' = "connected" /\ reconnectAttempts' = 0
      /\ keyed' = keyed \cup {<<made', made'>>}
      /\ UNCHANGED <<ws, timers, heartbeatAcked, delayed, token, asked, faults, replaced, quiet>>
  BY DEF IInv, OnReady, PushEvent, beats, Live, Usable, Requests
<1>2. ~quiet /\ asked # "nothing" /\ s \in Unclosed
  BY <1>1, SocketActs
<1>3. token
  BY <1>1 DEF IInv, NothingWithoutToken, Requests
<1>4. made' \in 0 .. MaxSessions /\ made' \in 0 .. made' /\ 0 .. made \subseteq 0 .. made'
  BY <1>1, BoundsAssumption DEF TypeOK
<1>5. TypeOK'
  <2>1. sockets' \in [Sockets -> Live \cup {"closing", "closed"}]
    BY <1>1 DEF TypeOK, Live, Usable
  <2>2. given' \in [Sockets -> 0 .. made']
    BY <1>1, <1>4 DEF TypeOK
  <2>3. keyed' \subseteq (0 .. made') \X (0 .. made')
    BY <1>1, <1>4 DEF TypeOK
  <2>4. reconnectAttempts' \in 0 .. maxReconnectAttempts
    BY <1>1, AttemptsAssumption
  <2> QED
    BY <1>1, <1>4, <2>1, <2>2, <2>3, <2>4 DEF TypeOK
<1>6. Unclosed' = Unclosed
  BY <1>1 DEF TypeOK, Unclosed
<1>7. ConnectedIsTrue'
  BY <1>1 DEF TypeOK, ConnectedIsTrue, Live, Usable
<1>8. NeverStranded' /\ OneMorePerReplaced'
  BY <1>1, <1>2, <1>6 DEF IInv, NeverStranded, OneMorePerReplaced, Scheduled
<1> QED
  BY <1>1, <1>2, <1>3, <1>5, <1>7, <1>8
  DEF IInv, NothingWithoutToken, IdleBeforeStart, QuietIsStopped, QuietStopIsFinal

LEMMA ResumedStep ==
  ASSUME IInv, NEW s \in Sockets, OnResumed(s)
  PROVE  IInv'
<1>1. /\ TypeOK /\ sockets[s] = "resume" /\ sockets[s] \in Live
      /\ sockets' = [sockets EXCEPT ![s] = "ready"]
      /\ state' = "connected" /\ reconnectAttempts' = 0
      /\ keyed' = keyed \cup {<<discordSessionId, given[s]>>}
      /\ UNCHANGED <<ws, discordSessionId, timers, heartbeatAcked, delayed, given, token, asked,
                     faults, made, replaced, quiet>>
  BY DEF IInv, OnResumed, PushEvent, beats, Live, Usable, Requests
<1>2. ~quiet /\ asked # "nothing" /\ s \in Unclosed
  BY <1>1, SocketActs
<1>3. token
  BY <1>1 DEF IInv, NothingWithoutToken, Requests
<1>4. TypeOK'
  <2>1. sockets' \in [Sockets -> Live \cup {"closing", "closed"}]
    BY <1>1 DEF TypeOK, Live, Usable
  <2>2. keyed' \subseteq (0 .. made) \X (0 .. made)
    BY <1>1 DEF TypeOK
  <2>3. reconnectAttempts' \in 0 .. maxReconnectAttempts
    BY <1>1, AttemptsAssumption
  <2> QED
    BY <1>1, <2>1, <2>2, <2>3 DEF TypeOK
<1>5. Unclosed' = Unclosed
  BY <1>1 DEF TypeOK, Unclosed
<1>6. ConnectedIsTrue'
  BY <1>1 DEF TypeOK, ConnectedIsTrue, Live, Usable
<1>7. NeverStranded' /\ OneMorePerReplaced'
  BY <1>1, <1>2, <1>5 DEF IInv, NeverStranded, OneMorePerReplaced, Scheduled
<1> QED
  BY <1>1, <1>2, <1>3, <1>4, <1>6, <1>7
  DEF IInv, NothingWithoutToken, IdleBeforeStart, QuietIsStopped, QuietStopIsFinal

LEMMA InvalidSessionStep ==
  ASSUME IInv, NEW s \in Sockets, NEW resumable \in BOOLEAN, OnInvalidSession(s, resumable)
  PROVE  IInv'
<1> DEFINE r == IF resumable THEN "resume" ELSE "identify"
<1>1. /\ TypeOK /\ sockets[s] \in Requests \cup {"ready"} /\ sockets[s] \in Live
      /\ sockets' = [sockets EXCEPT ![s] = "greeted"]
      /\ given' = [given EXCEPT ![s] = 0]
      /\ discordSessionId' \in {discordSessionId, 0}
      /\ delayed' = [delayed EXCEPT ![r] = @ + 1]
      /\ UNCHANGED <<state, ws, reconnectAttempts, timers, heartbeatAcked, token, asked,
                     made, replaced, keyed, quiet>>
  BY DEF IInv, OnInvalidSession, history, Live, Usable
<1>2. faults' \in 0 .. MaxFaults
  BY BoundsAssumption DEF IInv, TypeOK, OnInvalidSession, Fault
<1>3. ~quiet /\ asked # "nothing" /\ s \in Unclosed
  BY <1>1, SocketActs
<1>4. token
  BY <1>1 DEF IInv, NothingWithoutToken
<1>5. TypeOK'
  <2>1. r \in Requests
    BY DEF Requests
  <2>2. delayed' \in [Requests -> Nat]
    BY <1>1, <2>1 DEF TypeOK
  <2>3. discordSessionId' \in 0 .. made /\ given' \in [Sockets -> 0 .. made]
    BY <1>1 DEF TypeOK
  <2>4. sockets' \in [Sockets -> Live \cup {"closing", "closed"}]
    BY <1>1 DEF TypeOK, Live, Usable
  <2> QED
    BY <1>1, <1>2, <2>2, <2>3, <2>4 DEF TypeOK
<1>6. Unclosed' = Unclosed
  BY <1>1, <1>3 DEF TypeOK, Unclosed
<1>7. ConnectedIsTrue'
  BY <1>1 DEF TypeOK, ConnectedIsTrue, Live, Usable
<1>8. NeverStranded' /\ OneMorePerReplaced'
  BY <1>1, <1>3, <1>6 DEF IInv, NeverStranded, OneMorePerReplaced, Scheduled
<1> QED
  BY <1>1, <1>3, <1>4, <1>5, <1>7, <1>8
  DEF IInv, NothingWithoutToken, IdleBeforeStart, QuietIsStopped, QuietStopIsFinal

(***************************************************************************)
(* The heartbeat's timers and answers.                                     *)
(***************************************************************************)
LEMMA HeartbeatStep ==
  ASSUME IInv, OnJitter \/ OnHeartbeat \/ OnHeartbeatAck
  PROVE  IInv'
<1>1. /\ TypeOK /\ timers # {} /\ "reconnect" \notin timers
      /\ timers' \in {timers, {"heartbeat"}}
      /\ UNCHANGED <<state, ws, discordSessionId, reconnectAttempts, delayed, sockets, given,
                     token, asked, faults, made, replaced, keyed, quiet>>
  BY DEF IInv, TypeOK, OnJitter, OnHeartbeat, OnHeartbeatAck, fields, gateway, history
<1>2. heartbeatAcked' \in BOOLEAN
  BY DEF IInv, TypeOK, OnJitter, OnHeartbeat, OnHeartbeatAck
<1>3. ~quiet /\ asked # "nothing"
  BY <1>1, TimerActs
<1>4. "reconnect" \notin timers'
  BY <1>1
<1>5. TypeOK'
  BY <1>1, <1>2 DEF TypeOK
<1>6. Unclosed' = Unclosed
  BY <1>1 DEF Unclosed
<1>7. ConnectedIsTrue' /\ NothingWithoutToken'
  BY <1>1 DEF IInv, ConnectedIsTrue, NothingWithoutToken
<1>8. NeverStranded' /\ OneMorePerReplaced'
  BY <1>1, <1>4, <1>6 DEF IInv, NeverStranded, OneMorePerReplaced, Scheduled
<1> QED
  BY <1>1, <1>3, <1>5, <1>7, <1>8 DEF IInv, IdleBeforeStart, QuietIsStopped, QuietStopIsFinal

(***************************************************************************)
(* initiateReconnect(), of op 7 or of a heartbeat without answer, which    *)
(* costs at most a fault.                                                  *)
(***************************************************************************)
LEMMA ReconnectStep ==
  ASSUME IInv, InitiateReconnect, faults' \in 0 .. MaxFaults, ~quiet, asked # "nothing"
  PROVE  IInv'
<1>1. /\ TypeOK /\ CloseWs /\ ScheduleReconnect
      /\ replaced' = replaced + 1
      /\ UNCHANGED <<discordSessionId, heartbeatAcked, delayed, given, token, asked,
                     made, keyed, quiet>>
  BY DEF IInv, InitiateReconnect
<1>2. /\ ws' \in Sockets \cup {NoSocket}
      /\ sockets' \in [Sockets -> Stages]
      /\ \A s \in Sockets : sockets'[s] \in Live => s # ws /\ sockets'[s] = sockets[s]
  BY <1>1, CloseWsType
<1>3. /\ state' \in {"error", "reconnecting"}
      /\ state' = "reconnecting" => "reconnect" \in timers'
      /\ reconnectAttempts' \in 0 .. maxReconnectAttempts
      /\ timers' \in {{}, {"reconnect"}}
  BY <1>1, ScheduleReconnectType
<1>4. TypeOK'
  <2>1. replaced' \in Nat
    BY <1>1 DEF TypeOK
  <2> QED
    BY <1>1, <1>2, <1>3, <2>1 DEF TypeOK, Stages
<1>5. Unclosed' = Unclosed
  BY <1>1, CloseWsKeepsUnclosed
<1>6. OneMorePerReplaced'
  BY <1>1, <1>5, ScheduledType, UnclosedFinite DEF IInv, TypeOK, OneMorePerReplaced
<1>7. ConnectedIsTrue' /\ NeverStranded'
  BY <1>3 DEF ConnectedIsTrue, NeverStranded
<1>8. NothingWithoutToken'
  BY <1>1, <1>2 DEF IInv, NothingWithoutToken, Live, Usable
<1> QED
  BY <1>1, <1>4, <1>6, <1>7, <1>8 DEF IInv, IdleBeforeStart, QuietIsStopped, QuietStopIsFinal

LEMMA Op7Step ==
  ASSUME IInv, NEW s \in Sockets, OnReconnect(s)
  PROVE  IInv'
<1>1. sockets[s] \in Live /\ InitiateReconnect
  BY DEF OnReconnect, Live
<1>2. faults' \in 0 .. MaxFaults
  BY BoundsAssumption DEF IInv, TypeOK, OnReconnect, Fault
<1> QED
  BY <1>1, <1>2, SocketActs, ReconnectStep

LEMMA HeartbeatMissedStep ==
  ASSUME IInv, OnHeartbeatMissed
  PROVE  IInv'
<1>1. timers # {} /\ InitiateReconnect
  BY DEF OnHeartbeatMissed
<1>2. faults' \in 0 .. MaxFaults
  BY BoundsAssumption DEF IInv, TypeOK, OnHeartbeatMissed, Fault
<1> QED
  BY <1>1, <1>2, TimerActs, ReconnectStep

LEMMA HandleCloseType ==
  ASSUME TypeOK, NEW code, HandleClose(code)
  PROVE  /\ state' \in {"error", "reconnecting"}
         /\ state' = "reconnecting" => "reconnect" \in timers'
         /\ reconnectAttempts' \in 0 .. maxReconnectAttempts
         /\ timers' \in {{}, {"reconnect"}}
         /\ discordSessionId' \in {discordSessionId, 0}
<1>1. CASE ScheduleReconnect /\ discordSessionId' \in {discordSessionId, 0}
  BY <1>1, ScheduleReconnectType
<1>2. CASE state' = "error" /\ timers' = {} /\ UNCHANGED <<discordSessionId, reconnectAttempts>>
  BY <1>2 DEF TypeOK
<1> QED
  BY <1>1, <1>2 DEF HandleClose

LEMMA CloseStep ==
  ASSUME IInv, NEW s \in Sockets, NEW code \in Codes, OnClose(s, code)
  PROVE  IInv'
<1>1. /\ TypeOK /\ sockets[s] # "closed"
      /\ sockets' = [sockets EXCEPT ![s] = "closed"]
      /\ given' = [given EXCEPT ![s] = 0]
      /\ UNCHANGED <<ws, heartbeatAcked, delayed, token, asked, made, replaced, keyed, quiet>>
  BY DEF IInv, OnClose, history, Usable, Requests
<1>2. faults' \in 0 .. MaxFaults
  BY BoundsAssumption DEF IInv, TypeOK, OnClose, Fault
<1>3. \/ state = "stopped" /\ state' = "stopped" /\ timers' = {}
      \/ state # "stopped" /\ state' \in {"error", "reconnecting"}
  BY <1>1, HandleCloseType DEF OnClose
<1>4. /\ state' = "reconnecting" => "reconnect" \in timers'
      /\ reconnectAttempts' \in 0 .. maxReconnectAttempts
      /\ timers' \in {{}, {"reconnect"}}
      /\ discordSessionId' \in {discordSessionId, 0}
  <2>1. CASE state = "stopped"
    BY <1>1, <2>1 DEF OnClose, TypeOK
  <2>2. CASE state # "stopped"
    BY <1>1, <2>2, HandleCloseType DEF OnClose
  <2> QED
    BY <2>1, <2>2
<1>5. TypeOK'
  <2>1. given' \in [Sockets -> 0 .. made] /\ discordSessionId' \in 0 .. made
    BY <1>1, <1>4 DEF TypeOK
  <2>2. sockets' \in [Sockets -> Live \cup {"closing", "closed"}]
    BY <1>1 DEF TypeOK
  <2>3. timers' \in {{}, {"reconnect"}, {"jitter"}, {"heartbeat"}}
    BY <1>4
  <2>4. state' \in {"stopped", "starting", "connected", "reconnecting", "error"}
    BY <1>3
  <2> QED
    BY <1>1, <1>2, <1>4, <2>1, <2>2, <2>3, <2>4 DEF TypeOK
<1>6. OneMorePerReplaced'
  <2>1. Cardinality(Unclosed') = Cardinality(Unclosed) - 1
    BY <1>1, SocketClosed
  <2> QED
    BY <1>1, <2>1, ScheduledType, UnclosedFinite DEF IInv, TypeOK, OneMorePerReplaced
<1>7. ConnectedIsTrue' /\ NeverStranded'
  BY <1>3, <1>4 DEF ConnectedIsTrue, NeverStranded
<1>8. NothingWithoutToken'
  BY <1>1 DEF IInv, TypeOK, NothingWithoutToken, Requests
<1>9. IdleBeforeStart' /\ QuietIsStopped'
  <2>1. s \in Unclosed
    BY <1>1 DEF Unclosed
  <2> QED
    BY <1>1, <2>1 DEF IInv, IdleBeforeStart, QuietIsStopped
<1>10. QuietStopIsFinal'
  <2> SUFFICES ASSUME quiet
               PROVE  /\ state' = "stopped"
                      /\ timers' = {}
                      /\ \A q \in Sockets : sockets'[q] \notin Live
    BY <1>1 DEF QuietStopIsFinal
  <2>1. state = "stopped" /\ \A q \in Sockets : sockets[q] \notin Live
    BY DEF IInv, QuietStopIsFinal
  <2> QED
    BY <1>1, <1>3, <2>1 DEF TypeOK, Live, Usable, Requests
<1> QED
  BY <1>5, <1>6, <1>7, <1>8, <1>9, <1>10 DEF IInv

LEMMA TimerStep ==
  ASSUME IInv, OnTimer
  PROVE  IInv'
<1>1. /\ TypeOK /\ "reconnect" \in timers /\ timers' = timers \ {"reconnect"} /\ Connect
      /\ UNCHANGED <<discordSessionId, reconnectAttempts, heartbeatAcked, delayed, given,
                     token, asked, made, replaced, keyed, quiet>>
  BY DEF IInv, OnTimer, history
<1>2. ~quiet /\ asked # "nothing"
  BY <1>1, TimerActs
<1>3. timers' = {} /\ Scheduled = 1 /\ Scheduled' = 0
  BY <1>1 DEF TypeOK, Scheduled
<1>4. CASE \E s \in Sockets :
             /\ sockets[s] = "closed" /\ ws' = s
             /\ sockets' = [sockets EXCEPT ![s] = "connecting"]
             /\ UNCHANGED <<state, faults>>
  <2>1. PICK s \in Sockets :
          /\ sockets[s] = "closed" /\ ws' = s
          /\ sockets' = [sockets EXCEPT ![s] = "connecting"]
          /\ UNCHANGED <<state, faults>>
    BY <1>4
  <2>2. s \in Unclosed' /\ Cardinality(Unclosed') = Cardinality(Unclosed) + 1
    BY <1>1, <2>1, SocketMade
  <2>3. TypeOK'
    BY <1>1, <1>3, <2>1 DEF TypeOK, Live
  <2>4. ConnectedIsTrue'
    BY <1>1, <2>1 DEF IInv, TypeOK, ConnectedIsTrue, Live, Usable, Requests
  <2>5. NeverStranded'
    BY <2>2 DEF NeverStranded
  <2>6. OneMorePerReplaced'
    BY <1>1, <1>3, <2>2, UnclosedFinite DEF IInv, TypeOK, OneMorePerReplaced
  <2>7. NothingWithoutToken'
    BY <1>1, <2>1 DEF IInv, TypeOK, NothingWithoutToken, Requests
  <2> QED
    BY <1>1, <1>2, <2>3, <2>4, <2>5, <2>6, <2>7
    DEF IInv, IdleBeforeStart, QuietIsStopped, QuietStopIsFinal
<1>5. CASE Fault /\ state' = "error" /\ UNCHANGED <<ws, sockets>>
  <2>1. TypeOK'
    BY <1>1, <1>3, <1>5, BoundsAssumption DEF TypeOK, Fault
  <2>2. Unclosed' = Unclosed
    BY <1>5 DEF Unclosed
  <2>3. OneMorePerReplaced'
    BY <1>1, <1>3, <2>2, UnclosedFinite DEF IInv, TypeOK, OneMorePerReplaced
  <2>4. ConnectedIsTrue' /\ NeverStranded' /\ NothingWithoutToken'
    BY <1>1, <1>5 DEF IInv, ConnectedIsTrue, NeverStranded, NothingWithoutToken
  <2> QED
    BY <1>1, <1>2, <2>1, <2>3, <2>4 DEF IInv, IdleBeforeStart, QuietIsStopped, QuietStopIsFinal
<1> QED
  BY <1>1, <1>4, <1>5 DEF Connect

LEMMA Stutter ==
  ASSUME IInv, UNCHANGED vars
  PROVE  IInv'
<1>1. UNCHANGED <<state, ws, discordSessionId, reconnectAttempts, timers, heartbeatAcked,
                  delayed, sockets, given, token, asked, faults, made, replaced, keyed, quiet>>
  BY DEF vars, fields, beats, gateway, history
<1>2. TypeOK'
  BY <1>1 DEF IInv, TypeOK
<1>3. Unclosed' = Unclosed /\ Scheduled' = Scheduled
  BY <1>1 DEF Unclosed, Scheduled
<1> QED
  BY <1>1, <1>2, <1>3
  DEF IInv, ConnectedIsTrue, NeverStranded, IdleBeforeStart, OneMorePerReplaced,
      NothingWithoutToken, QuietIsStopped, QuietStopIsFinal

LEMMA Invariance == Spec => []IInv
<1>1. IInv /\ [Next]_vars => IInv'
  <2> SUFFICES ASSUME IInv, [Next]_vars PROVE IInv'
    OBVIOUS
  <2>1. CASE Start \/ Stop \/ OnTimer
    BY <2>1, StartStep, StopStep, TimerStep
  <2>2. CASE OnJitter \/ OnHeartbeat \/ OnHeartbeatAck \/ OnHeartbeatMissed
    BY <2>2, HeartbeatStep, HeartbeatMissedStep
  <2>3. CASE \E r \in Requests : OnDelayed(r)
    BY <2>3, DelayedStep
  <2>4. CASE \E s \in Sockets :
               \/ OnOpen(s) \/ OnHello(s) \/ OnReady(s) \/ OnResumed(s) \/ OnDispatch(s)
               \/ OnReconnect(s) \/ FallSilent(s)
    BY <2>4, OpenStep, HelloStep, ReadyStep, ResumedStep, DispatchStep, Op7Step, SilentStep
  <2>5. CASE \E s \in Sockets, resumable \in BOOLEAN : OnInvalidSession(s, resumable)
    BY <2>5, InvalidSessionStep
  <2>6. CASE \E s \in Sockets, code \in Codes : OnClose(s, code)
    BY <2>6, CloseStep
  <2>7. CASE UNCHANGED vars
    BY <2>7, Stutter
  <2> QED
    BY <2>1, <2>2, <2>3, <2>4, <2>5, <2>6, <2>7 DEF Next
<1> QED
  BY <1>1, InitIInv, PTL DEF Spec

-----------------------------------------------------------------------------
(***************************************************************************)
(* The fields of discord-gateway.ts keep their types; at most one of its   *)
(* timers is armed, and the attempts stay within the limit.                *)
(***************************************************************************)
THEOREM TypeCorrect == Spec => []TypeOK
BY Invariance, PTL DEF IInv

(***************************************************************************)
(* An ingestor that reports connected has a greeted socket, whatever       *)
(* events of replaced sockets have come; one that reports starting,        *)
(* connected or reconnecting has a reconnect timer or a socket left.       *)
(***************************************************************************)
THEOREM ReportedStateIsTrue == Spec => []StateIsTrue
<1>1. IInv => StateIsTrue
  BY DEF IInv, StateIsTrue
<1> QED
  BY <1>1, Invariance, PTL

(***************************************************************************)
(* Sockets and the scheduled connection together number at most one more   *)
(* than the sockets the code has closed to reconnect.                      *)
(***************************************************************************)
THEOREM BoundedConnections == Spec => []OneMorePerReplaced
BY Invariance, PTL DEF IInv

(***************************************************************************)
(* A stop() with no live socket but the current one leaves nothing, not    *)
(* even through a delayed identify or resume.                              *)
(***************************************************************************)
THEOREM QuietStop == Spec => []QuietStopIsFinal
BY Invariance, PTL DEF IInv
=============================================================================
