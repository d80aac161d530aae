----------------------- MODULE SlackSocketMode_proofs -----------------------
(***************************************************************************)
(* Proofs about SlackSocketMode, for any number of sockets, attempts and   *)
(* faults.                                                                 *)
(***************************************************************************)
EXTENDS SlackSocketMode, FiniteSetTheorems, TLAPS

(***************************************************************************)
(* Nothing is under way before start(); only stop() makes it quiet.        *)
(***************************************************************************)
IdleBeforeStart ==
  asked = "nothing" => timers = 0 /\ fetches = 0 /\ Unclosed = {}

QuietIsStopped == quiet => asked = "stop"

IInv ==
  /\ TypeOK
  /\ ConnectedIsTrue
  /\ NeverStranded
  /\ IdleBeforeStart
  /\ OneMorePerRefresh
  /\ QuietIsStopped
  /\ QuietStopIsFinal

(***************************************************************************)
(* What the timers are after clearTimeout(), and the sockets after close() *)
(***************************************************************************)
LEMMA UnheldType ==
  ASSUME TypeOK
  PROVE  Unheld \in Nat /\ Unheld <= timers
BY DEF TypeOK, Unheld

LEMMA CloseWsType ==
  ASSUME TypeOK, CloseWs
  PROVE  /\ ws' \in Sockets \cup {NoSocket}
         /\ sockets' \in [Sockets -> Live \cup {"closing", "closed"}]
         /\ \A s \in Sockets : sockets'[s] = "closed" <=> sockets[s] = "closed"
         /\ \A s \in Sockets : sockets'[s] \in Live => s # ws /\ sockets[s] \in Live
BY DEF TypeOK, CloseWs, Live

(***************************************************************************)
(* What scheduleReconnect() leaves: a timer, or a state that promises      *)
(* nothing.                                                                *)
(***************************************************************************)
LEMMA ScheduleReconnectType ==
  ASSUME TypeOK,
         NEW attempts \in 0 .. maxReconnectAttempts,
         NEW held \in BOOLEAN,
         NEW left \in Nat,
         held => left > 0,
         ScheduleReconnect(attempts, held, left)
  PROVE  /\ state' \in {"stopped", "error", "reconnecting"}
         /\ state' = "stopped" <=> state = "stopped"
         /\ state' = "reconnecting" => timers' > 0
         /\ reconnectAttempts' \in 0 .. maxReconnectAttempts
         /\ reconnectTimer' \in BOOLEAN
         /\ timers' \in Nat
         /\ timers' <= left + 1
         /\ state = "stopped" => timers' = left
         /\ reconnectTimer' => timers' > 0
<1> USE AttemptsAssumption
<1>1. CASE state = "stopped"
  BY <1>1 DEF ScheduleReconnect
<1>2. CASE state # "stopped" /\ attempts >= maxReconnectAttempts
  BY <1>2 DEF ScheduleReconnect
<1>3. CASE state # "stopped" /\ attempts < maxReconnectAttempts
  <2>1. /\ state' = "reconnecting"
        /\ reconnectAttempts' = attempts + 1
        /\ timers' = left + 1
    BY <1>3 DEF ScheduleReconnect
  <2>2. reconnectTimer' = TRUE
    BY <1>3 DEF ScheduleReconnect
  <2>3. reconnectTimer' \in BOOLEAN
    BY <2>2
  <2>4. reconnectAttempts' \in 0 .. maxReconnectAttempts /\ timers' \in Nat /\ timers' > 0
    BY <1>3, <2>1
  <2>5. timers' <= left + 1
    BY <2>1
  <2> QED
    BY <1>3, <2>1, <2>2, <2>3, <2>4, <2>5
<1> QED
  BY <1>1, <1>2, <1>3

LEMMA InitIInv == Init => IInv
<1> SUFFICES ASSUME Init PROVE IInv
  OBVIOUS
<1> USE AttemptsAssumption, FaultsAssumption DEF Init
<1>1. /\ state \in {"stopped", "starting", "connected", "reconnecting", "error"}
      /\ ws \in Sockets \cup {NoSocket}
      /\ sockets \in [Sockets -> Live \cup {"closing", "closed"}]
      /\ asked \in {"nothing", "start", "stop"}
  BY DEF Live
<1>2. /\ reconnectAttempts \in 0 .. maxReconnectAttempts
      /\ timers \in Nat
      /\ fetches \in Nat
      /\ faults \in 0 .. MaxFaults
      /\ refreshes \in 0 .. faults
  OBVIOUS
<1>3. /\ reconnectTimer \in BOOLEAN
      /\ linkDisabled \in BOOLEAN
      /\ quiet \in BOOLEAN
      /\ reconnectTimer => timers > 0
  OBVIOUS
<1>4. TypeOK
  BY <1>1, <1>2, <1>3 DEF TypeOK
<1>5. Unclosed = {} /\ Cardinality(Unclosed) = 0
  BY FS_EmptySet DEF Unclosed
<1>6. IdleBeforeStart /\ OneMorePerRefresh
  BY <1>5 DEF IdleBeforeStart, OneMorePerRefresh
<1>7. ConnectedIsTrue /\ NeverStranded /\ ~quiet
  BY DEF ConnectedIsTrue, NeverStranded
<1> QED
  BY <1>4, <1>6, <1>7 DEF IInv, QuietIsStopped, QuietStopIsFinal

-----------------------------------------------------------------------------
(***************************************************************************)
(* How many sockets are not closed, after one is made and one is closed.   *)
(***************************************************************************)
LEMMA UnclosedFinite ==
  IsFiniteSet(Unclosed) /\ Cardinality(Unclosed) \in Nat
<1>1. Unclosed \subseteq Sockets
  BY DEF Unclosed
<1> QED
  BY <1>1, SocketsAssumption, FS_Subset, FS_CardinalityType

LEMMA SocketMade ==
  ASSUME TypeOK, NEW s \in Sockets, UrlGiven(s)
  PROVE  Cardinality(Unclosed') = Cardinality(Unclosed) + 1
<1>1. Unclosed' = Unclosed \cup {s} /\ s \notin Unclosed
  BY DEF TypeOK, UrlGiven, Unclosed
<1> QED
  BY <1>1, UnclosedFinite, FS_AddElement

LEMMA SocketClosed ==
  ASSUME TypeOK, NEW s \in Sockets, OnClose(s)
  PROVE  Cardinality(Unclosed') = Cardinality(Unclosed) - 1
<1>1. Unclosed' = Unclosed \ {s} /\ s \in Unclosed
  BY DEF TypeOK, OnClose, Unclosed
<1> QED
  BY <1>1, UnclosedFinite, FS_RemoveElement

LEMMA CloseWsKeepsUnclosed ==
  ASSUME TypeOK, CloseWs
  PROVE  Unclosed' = Unclosed
BY CloseWsType DEF Unclosed

-----------------------------------------------------------------------------
(***************************************************************************)
(* What the manager calls, and each listener, callback and continuation,   *)
(* preserves the invariant.                                                *)
(***************************************************************************)
LEMMA StartStep ==
  ASSUME IInv, Start
  PROVE  IInv'
<1> USE DEF Start, armed, history
<1>1. TypeOK'
  BY DEF IInv, TypeOK
<1>2. timers = 0 /\ fetches = 0 /\ Unclosed' = {} /\ Cardinality(Unclosed') = 0
  BY FS_EmptySet DEF IInv, IdleBeforeStart, Unclosed
<1>3. OneMorePerRefresh'
  BY <1>2 DEF IInv, TypeOK, OneMorePerRefresh
<1>4. ConnectedIsTrue' /\ IdleBeforeStart'
  BY DEF ConnectedIsTrue, IdleBeforeStart
<1>5. NeverStranded'
  BY DEF IInv, TypeOK, NeverStranded
<1>6. ~quiet'
  BY DEF IInv, QuietIsStopped
<1> QED
  BY <1>1, <1>3, <1>4, <1>5, <1>6 DEF IInv, QuietIsStopped, QuietStopIsFinal

LEMMA StopStep ==
  ASSUME IInv, Stop
  PROVE  IInv'
<1> USE DEF Stop
<1>1. TypeOK
  BY DEF IInv
<1>2. Unheld \in Nat /\ Unheld <= timers
  BY <1>1, UnheldType
<1>3. CloseWs
  OBVIOUS
<1>4. TypeOK'
  <2>1. /\ ws' \in Sockets \cup {NoSocket}
        /\ sockets' \in [Sockets -> Live \cup {"closing", "closed"}]
    BY <1>1, <1>3, CloseWsType
  <2>2. timers' \in Nat /\ reconnectTimer' = FALSE /\ quiet' \in BOOLEAN
    BY <1>2
  <2> QED
    BY <1>1, <2>1, <2>2 DEF TypeOK
<1>5. Unclosed' = Unclosed
  BY <1>1, <1>3, CloseWsKeepsUnclosed
<1>6. OneMorePerRefresh'
  BY <1>1, <1>2, <1>5, UnclosedFinite DEF IInv, TypeOK, OneMorePerRefresh
<1>7. /\ ConnectedIsTrue'
      /\ NeverStranded'
      /\ IdleBeforeStart'
      /\ QuietIsStopped'
  BY DEF ConnectedIsTrue, NeverStranded, IdleBeforeStart, QuietIsStopped
<1>8. QuietStopIsFinal'
  <2> SUFFICES ASSUME quiet'
               PROVE  state' = "stopped" /\ fetches' = 0 /\ NothingLeft'
    BY DEF QuietStopIsFinal
  <2>1. \A s \in Sockets : sockets'[s] \notin Live
    BY <1>1, <1>3, CloseWsType
  <2> QED
    BY <2>1 DEF NothingLeft
<1> QED
  BY <1>4, <1>6, <1>7, <1>8 DEF IInv

LEMMA UrlRefusedStep ==
  ASSUME IInv, UrlRefused
  PROVE  IInv'
<1> USE FaultsAssumption DEF UrlRefused, Fault, armed, history
<1>1. TypeOK'
  BY DEF IInv, TypeOK
<1>2. ConnectedIsTrue' /\ NeverStranded'
  BY DEF ConnectedIsTrue, NeverStranded
<1>3. Unclosed' = Unclosed
  BY DEF Unclosed
<1>4. OneMorePerRefresh'
  BY <1>3, UnclosedFinite DEF IInv, TypeOK, OneMorePerRefresh
<1>5. IdleBeforeStart' /\ QuietIsStopped' /\ QuietStopIsFinal'
  BY <1>3 DEF IInv, TypeOK, IdleBeforeStart, QuietIsStopped, QuietStopIsFinal, NothingLeft
<1> QED
  BY <1>1, <1>2, <1>4, <1>5 DEF IInv

LEMMA UrlGivenStep ==
  ASSUME IInv, NEW s \in Sockets, UrlGiven(s)
  PROVE  IInv'
<1> USE DEF UrlGiven, armed, history
<1>1. TypeOK'
  BY DEF IInv, TypeOK, Live
<1>2. ConnectedIsTrue'
  BY DEF IInv, TypeOK, ConnectedIsTrue
<1>3. s \in Unclosed'
  BY DEF IInv, TypeOK, Unclosed
<1>4. NeverStranded'
  BY <1>3 DEF NeverStranded
<1>5. Cardinality(Unclosed') = Cardinality(Unclosed) + 1
  BY SocketMade DEF IInv
<1>6. OneMorePerRefresh'
  BY <1>5, UnclosedFinite DEF IInv, TypeOK, OneMorePerRefresh
<1>7. IdleBeforeStart' /\ QuietIsStopped' /\ QuietStopIsFinal'
  BY DEF IInv, TypeOK, IdleBeforeStart, QuietIsStopped, QuietStopIsFinal
<1> QED
  BY <1>1, <1>2, <1>4, <1>6, <1>7 DEF IInv

(***************************************************************************)
(* The open event and hello take a socket further.                         *)
(***************************************************************************)
LEMMA ProgressStep ==
  ASSUME IInv, NEW s \in Sockets, OnOpen(s) \/ OnHello(s)
  PROVE  IInv'
<1> USE AttemptsAssumption DEF OnOpen, OnHello, fields, armed, history
<1>1. TypeOK'
  BY DEF IInv, TypeOK, Live
<1>2. ConnectedIsTrue'
  BY DEF IInv, TypeOK, ConnectedIsTrue
<1>3. Unclosed' = Unclosed /\ s \in Unclosed
  BY DEF IInv, TypeOK, Unclosed
<1>4. NeverStranded'
  BY <1>3 DEF NeverStranded
<1>5. OneMorePerRefresh'
  BY <1>3, UnclosedFinite DEF IInv, TypeOK, OneMorePerRefresh
<1>6. sockets[s] \in Live
  BY DEF Live
<1>7. ~quiet'
  BY <1>6 DEF IInv, QuietStopIsFinal, NothingLeft
<1>8. IdleBeforeStart'
  BY <1>3 DEF IInv, IdleBeforeStart
<1> QED
  BY <1>1, <1>2, <1>4, <1>5, <1>7, <1>8 DEF IInv, QuietIsStopped, QuietStopIsFinal

LEMMA RefreshStep ==
  ASSUME IInv, NEW s \in Sockets, OnRefresh(s)
  PROVE  IInv'
<1>1. /\ TypeOK
      /\ sockets[s] = "greeted"
      /\ faults < MaxFaults /\ faults' = faults + 1
      /\ CloseWs
      /\ ScheduleReconnect(0, FALSE, Unheld)
      /\ refreshes' = refreshes + 1
      /\ UNCHANGED <<fetches, asked, linkDisabled, quiet>>
  BY DEF IInv, OnRefresh, Fault
<1>2. Unheld \in Nat /\ Unheld <= timers
  BY <1>1, UnheldType
<1>3. 0 \in 0 .. maxReconnectAttempts
  BY AttemptsAssumption
<1>4. /\ state' \in {"stopped", "error", "reconnecting"}
      /\ state' = "reconnecting" => timers' > 0
      /\ reconnectAttempts' \in 0 .. maxReconnectAttempts
      /\ reconnectTimer' \in BOOLEAN
      /\ timers' \in Nat
      /\ timers' <= Unheld + 1
      /\ reconnectTimer' => timers' > 0
  BY <1>1, <1>2, <1>3, ScheduleReconnectType
<1>5. TypeOK'
  <2>1. /\ ws' \in Sockets \cup {NoSocket}
        /\ sockets' \in [Sockets -> Live \cup {"closing", "closed"}]
    BY <1>1, CloseWsType
  <2>2. faults' \in 0 .. MaxFaults /\ refreshes' \in 0 .. faults'
    BY <1>1, FaultsAssumption DEF TypeOK
  <2> QED
    BY <1>1, <1>4, <2>1, <2>2 DEF TypeOK
<1>6. ConnectedIsTrue' /\ NeverStranded'
  BY <1>4 DEF ConnectedIsTrue, NeverStranded
<1>7. Unclosed' = Unclosed /\ s \in Unclosed
  BY <1>1, CloseWsKeepsUnclosed DEF Unclosed
<1>8. OneMorePerRefresh'
  BY <1>1, <1>2, <1>4, <1>7, UnclosedFinite DEF IInv, TypeOK, OneMorePerRefresh
<1>9. IdleBeforeStart'
  BY <1>1, <1>7 DEF IInv, IdleBeforeStart
<1>10. ~quiet'
  BY <1>1 DEF IInv, QuietStopIsFinal, NothingLeft, Live
<1> QED
  BY <1>5, <1>6, <1>8, <1>9, <1>10 DEF IInv, QuietIsStopped, QuietStopIsFinal

LEMMA LinkDisabledStep ==
  ASSUME IInv, NEW s \in Sockets, OnLinkDisabled(s)
  PROVE  IInv'
<1> USE FaultsAssumption DEF OnLinkDisabled, Fault, armed
<1>1. TypeOK /\ CloseWs
  BY DEF IInv
<1>2. /\ ws' \in Sockets \cup {NoSocket}
      /\ sockets' \in [Sockets -> Live \cup {"closing", "closed"}]
  BY <1>1, CloseWsType
<1>3. TypeOK'
  BY <1>1, <1>2 DEF TypeOK
<1>4. ConnectedIsTrue' /\ NeverStranded'
  BY DEF ConnectedIsTrue, NeverStranded
<1>5. Unclosed' = Unclosed /\ s \in Unclosed
  BY <1>1, CloseWsKeepsUnclosed DEF Unclosed
<1>6. OneMorePerRefresh'
  BY <1>5, UnclosedFinite DEF IInv, TypeOK, OneMorePerRefresh
<1>7. IdleBeforeStart'
  BY <1>5 DEF IInv, IdleBeforeStart
<1>8. ~quiet'
  BY DEF IInv, QuietStopIsFinal, NothingLeft, Live
<1> QED
  BY <1>3, <1>4, <1>6, <1>7, <1>8 DEF IInv, QuietIsStopped, QuietStopIsFinal

LEMMA CloseStep ==
  ASSUME IInv, NEW s \in Sockets, OnClose(s)
  PROVE  IInv'
<1>1. /\ TypeOK
      /\ sockets[s] # "closed"
      /\ \/ sockets[s] = "closing" /\ faults' = faults
         \/ sockets[s] \in Live /\ faults < MaxFaults /\ faults' = faults + 1
      /\ sockets' = [sockets EXCEPT ![s] = "closed"]
      /\ ScheduleReconnect(reconnectAttempts, reconnectTimer, timers)
      /\ UNCHANGED <<ws, fetches, asked, refreshes, linkDisabled, quiet>>
  BY DEF IInv, OnClose, Fault, history
<1>2. /\ state' \in {"stopped", "error", "reconnecting"}
      /\ state' = "stopped" <=> state = "stopped"
      /\ state' = "reconnecting" => timers' > 0
      /\ reconnectAttempts' \in 0 .. maxReconnectAttempts
      /\ reconnectTimer' \in BOOLEAN
      /\ timers' \in Nat
      /\ timers' <= timers + 1
      /\ state = "stopped" => timers' = timers
      /\ reconnectTimer' => timers' > 0
  <2>1. /\ reconnectAttempts \in 0 .. maxReconnectAttempts
        /\ reconnectTimer \in BOOLEAN
        /\ timers \in Nat
        /\ reconnectTimer => timers > 0
    BY <1>1 DEF TypeOK
  <2> QED
    BY <1>1, <2>1, ScheduleReconnectType
<1>3. TypeOK'
  <2>1. faults' \in 0 .. MaxFaults /\ refreshes' \in 0 .. faults'
    BY <1>1, FaultsAssumption DEF TypeOK
  <2>2. sockets' \in [Sockets -> Live \cup {"closing", "closed"}]
    BY <1>1 DEF TypeOK
  <2> QED
    BY <1>1, <1>2, <2>1, <2>2 DEF TypeOK
<1>4. ConnectedIsTrue' /\ NeverStranded'
  BY <1>2 DEF ConnectedIsTrue, NeverStranded
<1>5. Cardinality(Unclosed') = Cardinality(Unclosed) - 1
  BY <1>1, SocketClosed
<1>6. OneMorePerRefresh'
  BY <1>1, <1>2, <1>5, UnclosedFinite DEF IInv, TypeOK, OneMorePerRefresh
<1>7. s \in Unclosed
  BY <1>1 DEF Unclosed
<1>8. IdleBeforeStart'
  BY <1>1, <1>7 DEF IInv, IdleBeforeStart
<1>9. QuietIsStopped'
  BY <1>1 DEF IInv, QuietIsStopped
<1>10. QuietStopIsFinal'
  <2> SUFFICES ASSUME quiet'
               PROVE  state' = "stopped" /\ fetches' = 0 /\ NothingLeft'
    BY DEF QuietStopIsFinal
  <2>1. state = "stopped" /\ fetches = 0 /\ NothingLeft
    BY <1>1 DEF IInv, QuietStopIsFinal
  <2>2. \A r \in Sockets : sockets'[r] \notin Live
    BY <1>1, <2>1 DEF TypeOK, NothingLeft, Live
  <2> QED
    BY <1>1, <1>2, <2>1, <2>2 DEF NothingLeft
<1> QED
  BY <1>3, <1>4, <1>6, <1>8, <1>9, <1>10 DEF IInv

LEMMA TimerStep ==
  ASSUME IInv, OnTimer
  PROVE  IInv'
<1> USE DEF OnTimer, fields, history
<1>1. TypeOK'
  <2>1. TypeOK /\ timers' \in Nat /\ fetches' \in Nat
    BY DEF IInv, TypeOK
  <2>2. reconnectTimer' = FALSE
    OBVIOUS
  <2>3. reconnectTimer' \in BOOLEAN /\ (reconnectTimer' => timers' > 0)
    BY <2>2
  <2> QED
    BY <2>1, <2>3 DEF TypeOK
<1>2. ConnectedIsTrue'
  BY DEF IInv, ConnectedIsTrue
<1>3. NeverStranded'
  BY DEF IInv, TypeOK, NeverStranded
<1>4. Unclosed' = Unclosed
  BY DEF Unclosed
<1>5. OneMorePerRefresh'
  BY <1>4, UnclosedFinite DEF IInv, TypeOK, OneMorePerRefresh
<1>6. asked # "nothing" /\ ~quiet
  BY DEF IInv, TypeOK, IdleBeforeStart, QuietStopIsFinal, NothingLeft
<1> QED
  BY <1>1, <1>2, <1>3, <1>5, <1>6
  DEF IInv, IdleBeforeStart, QuietIsStopped, QuietStopIsFinal

LEMMA Stutter ==
  ASSUME IInv, UNCHANGED vars
  PROVE  IInv'
BY DEF IInv, TypeOK, ConnectedIsTrue, NeverStranded, IdleBeforeStart,
       OneMorePerRefresh, QuietIsStopped, QuietStopIsFinal, NothingLeft, Unclosed,
       vars, fields, armed, history

LEMMA Invariance == Spec => []IInv
<1>1. IInv /\ [Next]_vars => IInv'
  <2> SUFFICES ASSUME IInv, [Next]_vars PROVE IInv'
    OBVIOUS
  <2>1. CASE Start
    BY <2>1, StartStep
  <2>2. CASE Stop
    BY <2>2, StopStep
  <2>3. CASE UrlRefused
    BY <2>3, UrlRefusedStep
  <2>4. CASE OnTimer
    BY <2>4, TimerStep
  <2>5. CASE \E s \in Sockets :
               \/ UrlGiven(s) \/ OnOpen(s) \/ OnHello(s)
               \/ OnRefresh(s) \/ OnLinkDisabled(s) \/ OnClose(s)
    <3>1. PICK s \in Sockets :
             \/ UrlGiven(s) \/ OnOpen(s) \/ OnHello(s)
             \/ OnRefresh(s) \/ OnLinkDisabled(s) \/ OnClose(s)
      BY <2>5
    <3> QED
      BY <3>1, UrlGivenStep, ProgressStep, RefreshStep, LinkDisabledStep, CloseStep
  <2>6. CASE UNCHANGED vars
    BY <2>6, Stutter
  <2> QED
    BY <2>1, <2>2, <2>3, <2>4, <2>5, <2>6 DEF Next
<1> QED
  BY <1>1, InitIInv, PTL DEF Spec

-----------------------------------------------------------------------------
(***************************************************************************)
(* The fields of socket-mode.ts keep their types.                          *)
(***************************************************************************)
THEOREM TypeCorrect == Spec => []TypeOK
BY Invariance, PTL DEF IInv

(***************************************************************************)
(* An ingestor that reports connected has a greeted socket, whatever       *)
(* events of replaced sockets have come; one that reports starting,        *)
(* connected or reconnecting has a timer, a request or a socket left.      *)
(***************************************************************************)
THEOREM ReportedStateIsTrue == Spec => []StateIsTrue
<1>1. IInv => StateIsTrue
  BY DEF IInv, StateIsTrue
<1> QED
  BY <1>1, Invariance, PTL

(***************************************************************************)
(* There is at most one connection, armed, requested or made, and one more *)
(* for each refresh.                                                       *)
(***************************************************************************)
THEOREM BoundedConnections == Spec => []OneMorePerRefresh
BY Invariance, PTL DEF IInv

(***************************************************************************)
(* A stop() with nothing under way but what the fields name leaves         *)
(* nothing.                                                                *)
(***************************************************************************)
THEOREM QuietStop == Spec => []QuietStopIsFinal
BY Invariance, PTL DEF IInv
=============================================================================
