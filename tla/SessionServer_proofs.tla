------------------------ MODULE SessionServer_proofs ------------------------
(***************************************************************************)
(* Proofs about SessionServer for every set of session ids, every limit    *)
(* and every TTL.                                                          *)
(***************************************************************************)
EXTENDS RateLimitHistory, TLAPS

(***************************************************************************)
(* Both ages count from the last cleanup at the latest; a session is used  *)
(* no earlier than its handshake began; an accepted finish message ends    *)
(* the handshake.                                                          *)
(***************************************************************************)
AgesSinceCleanup ==
  /\ \A s \in sessions : idle[s] <= SESSION_TTL + sinceCleanup
  /\ \A s \in pendingHandshakes : age[s] <= HANDSHAKE_TTL + sinceCleanup

IdleWithinAge == \A s \in pendingHandshakes : idle[s] <= age[s]

FinishedIsNotPending == established \cap pendingHandshakes = {}

IInv ==
  /\ TypeOK
  /\ PendingHasSession
  /\ AgesSinceCleanup
  /\ IdleWithinAge
  /\ FinishedIsNotPending

(***************************************************************************)
(* The operators of the anti-replay window stay within its type.           *)
(***************************************************************************)
LEMMA NewWindowType == NewWindow \in Windows
BY DEF NewWindow, Windows, Counters

LEMMA RecordType ==
  ASSUME NEW w \in Windows, NEW c \in Counters
  PROVE  Record(w, c) \in Windows
BY DEF Record, Prune, Windows, Counters

LEMMA InitIInv == Init => IInv
BY NewWindowType, LimitsAssumption
DEF Init, IInv, TypeOK, PendingHasSession, AgesSinceCleanup, IdleWithinAge,
    FinishedIsNotPending

LEMMA ChargeType ==
  ASSUME TypeOK, NEW s \in SessionIds, ChargeRequest(s)
  PROVE  /\ windowAge' \in [SessionIds -> 0 .. RATE_WINDOW + 1]
         /\ windowRequests' \in [SessionIds -> 0 .. RATE_LIMIT + 1]
BY LimitsAssumption DEF TypeOK, ChargeRequest, WithinLimit, Charge, Expired

-----------------------------------------------------------------------------
(***************************************************************************)
(* Each handler, the clock and the cleanup preserve the invariant.         *)
(***************************************************************************)
LEMMA InitHandler ==
  ASSUME IInv, NEW s \in SessionIds, HandshakeInit(s)
  PROVE  IInv'
<1> USE LimitsAssumption
<1>1. TypeOK'
  BY NewWindowType DEF IInv, TypeOK, HandshakeInit
<1>2. PendingHasSession'
  BY DEF IInv, PendingHasSession, HandshakeInit
<1>3. AgesSinceCleanup'
  BY DEF IInv, TypeOK, AgesSinceCleanup, HandshakeInit
<1>4. IdleWithinAge'
  BY DEF IInv, TypeOK, IdleWithinAge, HandshakeInit
<1>5. FinishedIsNotPending'
  BY DEF IInv, TypeOK, FinishedIsNotPending, HandshakeInit
<1> QED
  BY <1>1, <1>2, <1>3, <1>4, <1>5 DEF IInv

LEMMA FinishHandler ==
  ASSUME IInv, NEW s \in SessionIds, FinishUnverified(s) \/ FinishVerified(s)
  PROVE  IInv'
<1>1. CASE FinishUnverified(s)
  BY <1>1 DEF IInv, TypeOK, PendingHasSession, AgesSinceCleanup, IdleWithinAge,
              FinishedIsNotPending, FinishUnverified, limiter, history
<1>2. CASE FinishVerified(s)
  BY <1>2 DEF IInv, TypeOK, PendingHasSession, AgesSinceCleanup, IdleWithinAge,
              FinishedIsNotPending, FinishVerified, limiter
<1> QED
  BY <1>1, <1>2

LEMMA RequestHandler ==
  ASSUME IInv, NEW s \in SessionIds, NEW r \in Requests,
         RequestLimited(s) \/ RequestUnreadable(s, r) \/ RequestDispatched(s, r)
  PROVE  IInv'
<1> USE LimitsAssumption
<1>1. ChargeRequest(s) /\ UNCHANGED <<maps, age, sinceCleanup, history>>
  BY DEF RequestLimited, RequestUnreadable, RequestDispatched
<1>2. idle' = idle \/ idle' = [idle EXCEPT ![s] = 0]
  BY DEF RequestLimited, RequestUnreadable, RequestDispatched
<1>3. TypeOK'
  <2>1. window' \in [SessionIds -> Windows]
    <3>1. CASE UNCHANGED window
      BY <3>1 DEF IInv, TypeOK
    <3>2. CASE RequestDispatched(s, r)
      <4>1. r.counter \in Counters
        BY DEF Requests, Counters
      <4>2. Record(window[s], r.counter) \in Windows
        BY <4>1, RecordType DEF IInv, TypeOK
      <4> QED
        BY <3>2, <4>2 DEF IInv, TypeOK, RequestDispatched
    <3> QED
      BY <3>1, <3>2 DEF RequestLimited, RequestUnreadable
  <2>2. handlers' \subseteq [session : created, counter : 0 .. MaxCounter]
    BY DEF IInv, TypeOK, Requests, RequestLimited, RequestUnreadable, RequestDispatched
  <2> QED
    BY <1>1, <1>2, <2>1, <2>2, ChargeType DEF IInv, TypeOK, maps, history
<1>4. \A x \in SessionIds : idle'[x] <= idle[x] /\ idle'[x] \in Nat
  BY <1>2 DEF IInv, TypeOK
<1>5. PendingHasSession' /\ FinishedIsNotPending'
  BY <1>1 DEF IInv, PendingHasSession, FinishedIsNotPending, maps, history
<1>6. AgesSinceCleanup'
  BY <1>1, <1>4 DEF IInv, TypeOK, AgesSinceCleanup, maps
<1>7. IdleWithinAge'
  BY <1>1, <1>4 DEF IInv, TypeOK, IdleWithinAge, maps
<1> QED
  BY <1>3, <1>5, <1>6, <1>7 DEF IInv

LEMMA TickStep ==
  ASSUME IInv, Tick
  PROVE  IInv'
<1> USE LimitsAssumption
<1>1. TypeOK'
  BY DEF IInv, TypeOK, Tick, maps, history, Expired
<1>2. PendingHasSession' /\ FinishedIsNotPending'
  BY DEF IInv, PendingHasSession, FinishedIsNotPending, Tick, maps, history
<1>3. AgesSinceCleanup'
  BY DEF IInv, TypeOK, AgesSinceCleanup, Tick, maps
<1>4. IdleWithinAge'
  BY DEF IInv, TypeOK, PendingHasSession, IdleWithinAge, Tick, maps
<1> QED
  BY <1>1, <1>2, <1>3, <1>4 DEF IInv

(***************************************************************************)
(* An expired session takes its pending handshake with it: the handshake   *)
(* is at least as old as the session is idle, and its TTL no longer.       *)
(***************************************************************************)
LEMMA CleanupStep ==
  ASSUME IInv, CleanupSessions
  PROVE  IInv'
<1> USE LimitsAssumption
<1>1. TypeOK'
  BY DEF IInv, TypeOK, CleanupSessions, limiter, history
<1>2. PendingHasSession'
  <2> SUFFICES ASSUME NEW s \in pendingHandshakes, age[s] <= HANDSHAKE_TTL
               PROVE  s \in sessions /\ idle[s] <= SESSION_TTL
    BY DEF PendingHasSession, CleanupSessions
  <2>1. idle[s] \in Nat /\ age[s] \in Nat /\ idle[s] <= age[s]
    BY DEF IInv, TypeOK, IdleWithinAge
  <2> QED
    BY <2>1 DEF IInv, PendingHasSession
<1>3. AgesSinceCleanup'
  BY DEF IInv, TypeOK, AgesSinceCleanup, CleanupSessions
<1>4. IdleWithinAge' /\ FinishedIsNotPending'
  BY DEF IInv, IdleWithinAge, FinishedIsNotPending, CleanupSessions, history
<1> QED
  BY <1>1, <1>2, <1>3, <1>4 DEF IInv

LEMMA NextIInv ==
  ASSUME IInv, [Next]_vars
  PROVE  IInv'
<1>1. CASE UNCHANGED vars
  BY <1>1 DEF vars, maps, limiter, history, IInv, TypeOK, PendingHasSession,
              AgesSinceCleanup, IdleWithinAge, FinishedIsNotPending
<1>2. ASSUME NEW s \in SessionIds, Handshake(s)
      PROVE  IInv'
  BY <1>1, <1>2, InitHandler, FinishHandler DEF Handshake, FinishUnknown
<1>3. ASSUME NEW s \in SessionIds, NEW r \in Requests, Request(s, r)
      PROVE  IInv'
  BY <1>1, <1>3, RequestHandler DEF Request, RequestUnknown
<1>4. ASSUME NEW h \in handlers, HandlerReturns(h)
      PROVE  IInv'
  BY <1>4 DEF HandlerReturns, maps, limiter, history, IInv, TypeOK,
              PendingHasSession, AgesSinceCleanup, IdleWithinAge, FinishedIsNotPending
<1>5. CASE Tick
  BY <1>5, TickStep
<1>6. CASE CleanupSessions
  BY <1>6, CleanupStep
<1>7. CASE Restart
  BY <1>7, LimitsAssumption
  DEF Restart, limiter, history, IInv, TypeOK, PendingHasSession,
      AgesSinceCleanup, IdleWithinAge, FinishedIsNotPending
<1> QED
  BY <1>1, <1>2, <1>3, <1>4, <1>5, <1>6, <1>7 DEF Next

(***************************************************************************)
(* The strengthened invariant holds in every reachable state.              *)
(***************************************************************************)
THEOREM Invariance == Spec => []IInv
BY InitIInv, NextIInv, PTL DEF Spec

-----------------------------------------------------------------------------
(***************************************************************************)
(* The session maps stay typed.                                            *)
(***************************************************************************)
THEOREM TypeCorrect == Spec => []TypeOK
<1>1. IInv => TypeOK
  BY DEF IInv
<1> QED
  BY <1>1, Invariance, PTL

(***************************************************************************)
(* A pending handshake never outlives its session, provided the handshake  *)
(* TTL is no longer than the session TTL.                                  *)
(***************************************************************************)
THEOREM PendingNeverDangles == Spec => []PendingHasSession
<1>1. IInv => PendingHasSession
  BY DEF IInv
<1> QED
  BY <1>1, Invariance, PTL

(***************************************************************************)
(* cleanupSessions bounds how long an unused session or an abandoned       *)
(* handshake is kept.                                                      *)
(***************************************************************************)
THEOREM NothingUnusedIsKept == Spec => []UnusedIsReclaimed
<1>1. IInv => UnusedIsReclaimed
  BY LimitsAssumption
  DEF IInv, TypeOK, PendingHasSession, AgesSinceCleanup, UnusedIsReclaimed
<1> QED
  BY <1>1, Invariance, PTL

(***************************************************************************)
(* No message and no cleanup costs a peer an established session that is   *)
(* in use.                                                                 *)
(***************************************************************************)
THEOREM NoEarlyLoss == Spec => EstablishedLastsUntilIdle
<1>1. ASSUME IInv, [Next]_vars
      PROVE  [Restart \/ LostOnlyByIdling]_vars
  <2> SUFFICES ASSUME Next PROVE Restart \/ LostOnlyByIdling
    BY <1>1
  <2>1. CASE sessions \subseteq sessions'
    BY <2>1 DEF LostOnlyByIdling
  <2>2. ASSUME NEW s \in SessionIds, FinishUnverified(s)
        PROVE  LostOnlyByIdling
    BY <1>1, <2>2 DEF FinishUnverified, LostOnlyByIdling, IInv, FinishedIsNotPending
  <2>3. CASE CleanupSessions
    BY <1>1, <2>3, LimitsAssumption
    DEF CleanupSessions, LostOnlyByIdling, IInv, TypeOK
  <2>4. \/ \E s \in SessionIds : FinishUnverified(s)
        \/ CleanupSessions
        \/ Restart
        \/ sessions \subseteq sessions'
    BY DEF Next, Handshake, HandshakeInit, FinishUnknown, FinishVerified, Request,
           RequestUnknown, RequestLimited, RequestUnreadable, RequestDispatched,
           HandlerReturns, Tick, maps, vars
  <2> QED
    BY <2>1, <2>2, <2>3, <2>4
<1> QED
  BY <1>1, Invariance, PTL DEF Spec, EstablishedLastsUntilIdle

-----------------------------------------------------------------------------
(***************************************************************************)
(* The rate limit.  As far back as the current window reaches, no more was *)
(* admitted than was charged to it and was within the limit; beyond it,    *)
(* the window before adds at most the limit.  A window that has run out    *)
(* has admitted nothing since, so the next one starts with nothing         *)
(* admitted in its first instant.                                          *)
(***************************************************************************)
Within(s) == IF windowRequests[s] <= RATE_LIMIT THEN windowRequests[s] ELSE RATE_LIMIT

CountsMatch(s) ==
  /\ admitted[s] \in [LastMinute -> Nat]
  /\ s \notin created => \A a \in LastMinute : admitted[s][a] = 0
  /\ \A a \in LastMinute : a # 0 => admitted[s][a - 1] <= admitted[s][a]
  /\ \A a \in LastMinute : a <= windowAge[s] => admitted[s][a] <= Within(s)
  /\ windowAge[s] > RATE_WINDOW => admitted[s][0] = 0
  /\ \A a \in LastMinute : admitted[s][a] <= Within(s) + RATE_LIMIT

HInv ==
  /\ IInv
  /\ admitted = [s \in SessionIds |-> admitted[s]]
  /\ \A s \in SessionIds : CountsMatch(s)

LEMMA HInitInv == HInit => HInv
<1> SUFFICES ASSUME HInit PROVE HInv
  OBVIOUS
<1>1. IInv
  BY InitIInv DEF HInit
<1>2. ASSUME NEW s \in SessionIds PROVE CountsMatch(s)
  BY LimitsAssumption DEF HInit, Init, CountsMatch, LastMinute, Within
<1> QED
  BY <1>1, <1>2 DEF HInv, HInit

(***************************************************************************)
(* A session none of whose fields changes.                                 *)
(***************************************************************************)
LEMMA SameCounts ==
  ASSUME NEW s \in SessionIds, CountsMatch(s), admitted'[s] = admitted[s],
         windowAge'[s] = windowAge[s], windowRequests'[s] = windowRequests[s],
         created \subseteq created'
  PROVE  CountsMatch(s)'
BY DEF CountsMatch, Within

LEMMA TickKeepsCounts ==
  ASSUME HInv, HTick, NEW s \in SessionIds
  PROVE  CountsMatch(s)'
<1> DEFINE counts == admitted[s]
<1>1. /\ counts \in [LastMinute -> Nat]
      /\ \A a \in LastMinute : a # 0 => counts[a - 1] <= counts[a]
      /\ windowAge[s] \in 0 .. RATE_WINDOW + 1
      /\ windowRequests[s] \in 0 .. RATE_LIMIT + 1
      /\ CountsMatch(s)
  BY DEF HInv, IInv, TypeOK, CountsMatch
<1>2. /\ admitted'[s] = [a \in LastMinute |-> IF a = 0 THEN 0 ELSE counts[a - 1]]
      /\ windowRequests' = windowRequests
      /\ created' = created
      /\ windowAge'[s] = windowAge[s] \/ windowAge'[s] = windowAge[s] + 1
      /\ windowAge'[s] \in 0 .. RATE_WINDOW + 1
  <2>1. /\ windowRequests' = windowRequests
        /\ created' = created
        /\ windowAge'[s] = IF s \in sessions /\ ~Expired(s) THEN windowAge[s] + 1 ELSE windowAge[s]
    BY DEF HTick, Tick, history
  <2>2. admitted'[s] = [a \in LastMinute |-> IF a = 0 THEN 0 ELSE counts[a - 1]]
    BY DEF HTick, Elapse
  <2>3. windowAge'[s] \in 0 .. RATE_WINDOW + 1
    BY <1>1, <2>1, LimitsAssumption DEF Expired
  <2> QED
    BY <2>1, <2>2, <2>3
<1>3. ASSUME NEW a \in LastMinute
      PROVE  /\ admitted'[s][a] = IF a = 0 THEN 0 ELSE counts[a - 1]
             /\ admitted'[s][a] \in Nat
             /\ admitted'[s][a] <= counts[a]
             /\ a # 0 => a - 1 \in LastMinute
  <2>1. a # 0 => a - 1 \in LastMinute
    BY LimitsAssumption DEF LastMinute
  <2> QED
    BY <2>1, <1>1, <1>2
<1>4. admitted'[s] \in [LastMinute -> Nat]
  BY <1>2, <1>3
<1>5. \A a \in LastMinute : a # 0 => admitted'[s][a - 1] <= admitted'[s][a]
  <2> SUFFICES ASSUME NEW a \in LastMinute, a # 0
               PROVE  admitted'[s][a - 1] <= admitted'[s][a]
    OBVIOUS
  <2>1. a - 1 \in LastMinute /\ admitted'[s][a] = counts[a - 1]
    BY <1>3
  <2> QED
    BY <2>1, <1>3
<1>6. ASSUME NEW a \in LastMinute, a <= windowAge'[s]
      PROVE  admitted'[s][a] <= Within(s)
  <2>1. CASE a = 0
    BY <2>1, <1>1, <1>3, LimitsAssumption DEF Within
  <2>2. CASE a # 0
    <3>1. a - 1 \in LastMinute /\ a - 1 <= windowAge[s]
      BY <2>2, <1>1, <1>2, <1>3, <1>6 DEF LastMinute
    <3> QED
      BY <2>2, <3>1, <1>1, <1>3 DEF CountsMatch
  <2> QED
    BY <2>1, <2>2
<1>7. \A a \in LastMinute : admitted'[s][a] <= Within(s) + RATE_LIMIT
  <2> TAKE a \in LastMinute
  <2>1. counts[a] <= Within(s) + RATE_LIMIT /\ Within(s) \in Nat
    BY <1>1, LimitsAssumption DEF CountsMatch, Within
  <2>2. counts[a] \in Nat
    BY <1>1
  <2> QED
    BY <2>1, <2>2, <1>3, LimitsAssumption
<1>8. admitted'[s][0] = 0
  BY <1>3, LimitsAssumption DEF LastMinute
<1>9. s \notin created => \A a \in LastMinute : admitted'[s][a] = 0
  BY <1>1, <1>3 DEF CountsMatch
<1> QED
  BY <1>2, <1>4, <1>5, <1>6, <1>7, <1>8, <1>9 DEF CountsMatch, Within

LEMMA RequestKeepsCounts ==
  ASSUME HInv, NEW s \in SessionIds, NEW r \in Requests, HRequest(s, r), NEW q \in SessionIds
  PROVE  CountsMatch(q)'
<1> DEFINE counts == admitted[s]
<1>1. /\ counts \in [LastMinute -> Nat]
      /\ windowAge[s] \in 0 .. RATE_WINDOW + 1
      /\ windowRequests[s] \in 0 .. RATE_LIMIT + 1
      /\ CountsMatch(s) /\ CountsMatch(q)
  BY DEF HInv, IInv, TypeOK, CountsMatch
<1>2. CASE s \notin sessions
  <2>1. UNCHANGED <<limiter, created, admitted>>
    BY <1>2 DEF HRequest, Request, RequestUnknown, RequestLimited, RequestUnreadable,
                RequestDispatched, vars, history
  <2> QED
    BY <2>1, <1>1, SameCounts DEF limiter
<1>3. CASE s \in sessions
  <2>1. ChargeRequest(s) /\ created' = created
    BY <1>3 DEF HRequest, Request, RequestUnknown, RequestLimited, RequestUnreadable,
                RequestDispatched, history
  <2>2. admitted' = IF WithinLimit(s)
                      THEN [admitted EXCEPT ![s] = [a \in LastMinute |-> @[a] + 1]]
                      ELSE admitted
    BY <1>3 DEF HRequest
  <2>3. CASE q # s
    <3>1. /\ windowAge'[q] = windowAge[q]
          /\ windowRequests'[q] = windowRequests[q]
      BY <2>1, <2>3 DEF ChargeRequest, HInv, IInv, TypeOK
    <3>2. admitted'[q] = admitted[q]
      BY <2>2, <2>3 DEF HInv
    <3> QED
      BY <3>1, <3>2, <2>1, <1>1, SameCounts
  <2>4. CASE q = s
    <3>1. s \in created
      BY <1>3 DEF HInv, IInv, TypeOK
    <3>2. /\ windowAge'[s] = IF windowAge[s] > RATE_WINDOW THEN 0 ELSE windowAge[s]
          /\ windowRequests'[s] = IF WithinLimit(s) THEN Charge(s) ELSE RATE_LIMIT + 1
      BY <2>1 DEF ChargeRequest, Expired, HInv, IInv, TypeOK
    <3>3. Charge(s) = IF windowAge[s] > RATE_WINDOW THEN 1 ELSE windowRequests[s] + 1
      BY DEF Charge, Expired
    <3>4. 0 \in LastMinute /\ RATE_LIMIT \in Nat /\ RATE_WINDOW \in Nat
      BY LimitsAssumption DEF LastMinute
    <3>5. \A a \in LastMinute : counts[a] \in Nat
      BY <1>1
    <3>6. CASE ~WithinLimit(s)
      <4>1. admitted'[s] = counts /\ windowRequests'[s] = RATE_LIMIT + 1
        BY <2>2, <3>2, <3>6
      <4>2. Within(s)' = RATE_LIMIT /\ Within(s) \in Nat /\ Within(s) <= RATE_LIMIT
        BY <4>1, <3>4, <1>1 DEF Within
      <4>3. \A a \in LastMinute : a <= windowAge'[s] => counts[a] <= RATE_LIMIT
        <5> SUFFICES ASSUME NEW a \in LastMinute, a <= windowAge'[s]
                     PROVE  counts[a] <= RATE_LIMIT
          OBVIOUS
        <5>1. a <= windowAge[s]
          BY <3>2, <3>4, <1>1 DEF LastMinute
        <5>2. counts[a] <= Within(s)
          BY <5>1, <1>1 DEF CountsMatch
        <5> QED
          BY <5>2, <4>2, <3>4, <3>5
      <4>4. \A a \in LastMinute : counts[a] <= RATE_LIMIT + RATE_LIMIT
        <5> TAKE a \in LastMinute
        <5>1. counts[a] <= Within(s) + RATE_LIMIT
          BY <1>1 DEF CountsMatch
        <5> QED
          BY <5>1, <4>2, <3>4, <3>5
      <4>5. ~(windowAge'[s] > RATE_WINDOW)
        BY <3>2, <3>4, <1>1
      <4> QED
        BY <4>1, <4>2, <4>3, <4>4, <4>5, <2>1, <2>4, <3>1, <1>1 DEF CountsMatch
    <3>7. CASE WithinLimit(s)
      <4>1. /\ admitted'[s] = [a \in LastMinute |-> counts[a] + 1]
            /\ windowRequests'[s] = Charge(s)
            /\ Charge(s) <= RATE_LIMIT
        BY <2>2, <3>2, <3>7 DEF HInv, WithinLimit
      <4>2. Within(s)' = Charge(s)
        BY <4>1 DEF Within
      <4>3. \A a \in LastMinute : admitted'[s][a] = counts[a] + 1
        BY <4>1
      <4>4. ASSUME NEW a \in LastMinute, a # 0
            PROVE  admitted'[s][a - 1] <= admitted'[s][a]
        <5>1. a - 1 \in LastMinute /\ counts[a - 1] <= counts[a]
          BY <4>4, <3>4, <1>1 DEF LastMinute, CountsMatch
        <5> QED
          BY <5>1, <4>3, <3>5
      <4>5. CASE windowAge[s] > RATE_WINDOW
        <5>1. Charge(s) = 1 /\ windowAge'[s] = 0 /\ counts[0] = 0
          BY <4>5, <3>2, <3>3, <1>1 DEF CountsMatch
        <5>2. ASSUME NEW a \in LastMinute PROVE counts[a] <= RATE_LIMIT
          <6>1. a <= windowAge[s]
            BY <4>5, <3>4, <1>1 DEF LastMinute
          <6>2. counts[a] <= Within(s)
            BY <6>1, <1>1 DEF CountsMatch
          <6>3. Within(s) <= RATE_LIMIT /\ Within(s) \in Nat
            BY <3>4, <1>1 DEF Within
          <6> QED
            BY <6>2, <6>3, <3>4, <3>5
        <5>3. \A a \in LastMinute : a <= windowAge'[s] => admitted'[s][a] <= Charge(s)
          BY <5>1, <4>3, <3>4 DEF LastMinute
        <5>4. \A a \in LastMinute : admitted'[s][a] <= Charge(s) + RATE_LIMIT
          BY <5>1, <5>2, <4>3, <3>4, <3>5
        <5>5. admitted'[s] \in [LastMinute -> Nat]
          BY <4>1, <3>5
        <5> QED
          BY <5>1, <5>3, <5>4, <5>5, <4>2, <4>4, <2>1, <2>4, <3>1, <3>4 DEF CountsMatch
      <4>6. CASE ~(windowAge[s] > RATE_WINDOW)
        <5>1. /\ Charge(s) = windowRequests[s] + 1
              /\ windowAge'[s] = windowAge[s]
              /\ Within(s) = windowRequests[s]
          BY <4>1, <4>6, <3>2, <3>3, <3>4, <1>1 DEF Within
        <5>2. \A a \in LastMinute : a <= windowAge'[s] => admitted'[s][a] <= Charge(s)
          BY <5>1, <4>3, <3>4, <3>5, <1>1 DEF CountsMatch
        <5>3. \A a \in LastMinute : admitted'[s][a] <= Charge(s) + RATE_LIMIT
          BY <5>1, <4>3, <3>4, <3>5, <1>1 DEF CountsMatch
        <5>4. admitted'[s] \in [LastMinute -> Nat]
          BY <4>1, <3>5
        <5> QED
          BY <5>1, <5>2, <5>3, <5>4, <4>2, <4>4, <4>6, <2>1, <2>4, <3>1 DEF CountsMatch
      <4> QED
        BY <4>5, <4>6
    <3> QED
      BY <3>6, <3>7
  <2> QED
    BY <2>3, <2>4
<1> QED
  BY <1>2, <1>3

LEMMA OtherKeepsCounts ==
  ASSUME HInv, HOther, NEW s \in SessionIds
  PROVE  CountsMatch(s)'
<1>1. CountsMatch(s)
  BY DEF HInv
<1>2. ASSUME NEW q \in SessionIds, HandshakeInit(q) PROVE CountsMatch(s)'
  <2>1. /\ created' = created \cup {q}
        /\ windowAge' = [windowAge EXCEPT ![q] = 0]
        /\ windowRequests' = [windowRequests EXCEPT ![q] = 0]
        /\ admitted' = admitted
        /\ q \notin created
    BY <1>2 DEF HandshakeInit, HOther
  <2>2. CASE s # q
    <3>1. windowAge'[s] = windowAge[s] /\ windowRequests'[s] = windowRequests[s]
      BY <2>1, <2>2 DEF HInv, IInv, TypeOK
    <3> QED
      BY <3>1, <2>1, <1>1, SameCounts
  <2>3. CASE s = q
    <3>1. \A a \in LastMinute : admitted[s][a] = 0
      BY <2>1, <2>3, <1>1 DEF CountsMatch
    <3>2. windowAge'[s] = 0 /\ windowRequests'[s] = 0
      BY <2>1, <2>3 DEF HInv, IInv, TypeOK
    <3>3. Within(s)' = 0 /\ RATE_LIMIT \in Nat /\ RATE_WINDOW \in Nat
      BY <3>2, LimitsAssumption DEF Within
    <3>4. \A a \in LastMinute : a # 0 => a - 1 \in LastMinute
      BY <3>3 DEF LastMinute
    <3> QED
      BY <2>1, <2>3, <3>1, <3>2, <3>3, <3>4, <1>1 DEF CountsMatch
  <2> QED
    BY <2>2, <2>3
<1>3. CASE UNCHANGED <<limiter, created>>
  BY <1>1, <1>3, SameCounts DEF HOther, limiter
<1>4. (\E q \in SessionIds : HandshakeInit(q)) \/ UNCHANGED <<limiter, created>>
  BY DEF HOther, Handshake, FinishUnknown, FinishUnverified, FinishVerified,
         HandlerReturns, CleanupSessions, Restart, vars, history
<1> QED
  BY <1>2, <1>3, <1>4

LEMMA HNextInv == HInv /\ [HNext]_<<vars, admitted>> => HInv'
<1> SUFFICES ASSUME HInv, [HNext]_<<vars, admitted>> PROVE HInv'
  OBVIOUS
<1>1. [Next]_vars
  BY DEF HNext, HTick, HRequest, HOther, Next
<1>2. IInv'
  BY <1>1, NextIInv DEF HInv
<1>3. CASE HTick
  <2>1. admitted' = [s \in SessionIds |-> admitted'[s]]
    BY <1>3 DEF HTick
  <2> QED
    BY <2>1, <1>2, <1>3, TickKeepsCounts DEF HInv
<1>4. ASSUME NEW s \in SessionIds, NEW r \in Requests, HRequest(s, r) PROVE HInv'
  <2>1. admitted' = [q \in SessionIds |-> admitted'[q]]
    BY <1>4 DEF HRequest, HInv
  <2> QED
    BY <2>1, <1>2, <1>4, RequestKeepsCounts DEF HInv
<1>5. CASE HOther
  <2>1. admitted' = [q \in SessionIds |-> admitted'[q]]
    BY <1>5 DEF HOther, HInv
  <2> QED
    BY <2>1, <1>2, <1>5, OtherKeepsCounts DEF HInv
<1>6. CASE UNCHANGED <<vars, admitted>>
  <2>1. \A s \in SessionIds : CountsMatch(s)'
    BY <1>6, SameCounts DEF HInv, vars, limiter, history
  <2> QED
    BY <2>1, <1>2, <1>6 DEF HInv
<1> QED
  BY <1>3, <1>4, <1>5, <1>6 DEF HNext

(***************************************************************************)
(* The history changes nothing of what the server does.                    *)
(***************************************************************************)
THEOREM HistoryIsHistory == HSpec => Spec
<1>1. HInit => Init
  BY DEF HInit
<1>2. [HNext]_<<vars, admitted>> => [Next]_vars
  BY DEF HNext, HTick, HRequest, HOther, Next
<1> QED
  BY <1>1, <1>2, PTL DEF HSpec, Spec

(***************************************************************************)
(* The fixed windows of checkRateLimit admit at most twice the limit in    *)
(* any minute, for every limit, length of window and number of sessions.   *)
(***************************************************************************)
THEOREM RateIsBounded == HSpec => []AtMostTwiceTheLimit
<1>1. HInv => AtMostTwiceTheLimit
  <2> SUFFICES ASSUME HInv, NEW s \in SessionIds
               PROVE  admitted[s][RATE_WINDOW] <= 2 * RATE_LIMIT
    BY DEF AtMostTwiceTheLimit, AdmittedLastMinute
  <2>1. RATE_WINDOW \in LastMinute /\ RATE_LIMIT \in Nat
    BY LimitsAssumption DEF LastMinute
  <2>2. admitted[s][RATE_WINDOW] \in Nat /\ admitted[s][RATE_WINDOW] <= Within(s) + RATE_LIMIT
    BY <2>1 DEF HInv, CountsMatch
  <2>3. windowRequests[s] \in 0 .. RATE_LIMIT + 1
    BY DEF HInv, IInv, TypeOK
  <2>4. Within(s) \in Nat /\ Within(s) <= RATE_LIMIT
    BY <2>1, <2>3 DEF Within
  <2> QED
    BY <2>1, <2>2, <2>4
<1> QED
  BY <1>1, HInitInv, HNextInv, PTL DEF HSpec
=============================================================================
