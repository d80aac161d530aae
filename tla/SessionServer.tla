---------------------------- MODULE SessionServer ----------------------------
(***************************************************************************)
(* The session layer of the remote server (src/remote/server.ts): the two  *)
(* maps sessions and pendingHandshakes, the handlers of /handshake/init,   *)
(* /handshake/finish and /request, checkRateLimit and cleanupSessions.     *)
(* The environment is open: any message may come for any session at any    *)
(* time.  SecureProxy closes it with the MCP proxy.                        *)
(*                                                                         *)
(* A timestamp t of the code is kept as its age, now - t, which is all the *)
(* code ever computes from it.                                             *)
(***************************************************************************)
EXTENDS AntiReplayWindow

CONSTANTS
  SessionIds,           \* session ids the key derivation can produce
  MaxCounter,           \* bound: counters a peer's channel puts on requests
  RATE_LIMIT,           \* rateLimitPerMinute
  RATE_WINDOW,          \* windowMs, one minute
  SESSION_TTL,          \* thirty minutes
  HANDSHAKE_TTL,        \* thirty seconds
  CLEANUP_INTERVAL      \* period of the setInterval around cleanupSessions

ASSUME LimitsAssumption ==
  /\ MaxCounter \in Nat
  /\ RATE_LIMIT \in Nat
  /\ RATE_WINDOW \in Nat
  /\ SESSION_TTL \in Nat
  /\ HANDSHAKE_TTL \in Nat
  /\ CLEANUP_INTERVAL \in Nat
  /\ HANDSHAKE_TTL <= SESSION_TTL

Requests == [counter : 0 .. MaxCounter, intact : BOOLEAN]

VARIABLES
  sessions,             \* ids in the map sessions
  pendingHandshakes,    \* ids in the map pendingHandshakes
  idle,                 \* now - lastActivity, of each session
  age,                  \* now - createdAt, of each pending handshake
  windowAge,            \* now - windowStart, of each session
  windowRequests,       \* requests charged to the current rate window
  window,               \* the anti-replay window of each session's channel
  handlers,             \* requests decrypted, whose tool handler still runs
  sinceCleanup,         \* time since cleanupSessions last ran
  created,              \* history: ids ever given to a session
  established           \* history: ids whose finish message was accepted

maps == <<sessions, pendingHandshakes>>
limiter == <<windowAge, windowRequests>>
history == <<created, established>>

vars == <<maps, idle, age, limiter, window, handlers, sinceCleanup, history>>

Init ==
  /\ sessions = {}
  /\ pendingHandshakes = {}
  /\ idle = [s \in SessionIds |-> 0]
  /\ age = [s \in SessionIds |-> 0]
  /\ windowAge = [s \in SessionIds |-> 0]
  /\ windowRequests = [s \in SessionIds |-> 0]
  /\ window = [s \in SessionIds |-> NewWindow]
  /\ handlers = {}
  /\ sinceCleanup = 0
  /\ created = {}
  /\ established = {}

-----------------------------------------------------------------------------
(***************************************************************************)
(* POST /handshake/init from an authorized peer.  The keys, and with them  *)
(* the id, depend on a fresh ephemeral key, so no id comes twice.  The     *)
(* session exists from here on, before the peer has shown its keys.        *)
(***************************************************************************)
HandshakeInit(s) ==
  /\ s \notin created
  /\ created' = created \cup {s}
  /\ pendingHandshakes' = pendingHandshakes \cup {s}
  /\ sessions' = sessions \cup {s}
  /\ age' = [age EXCEPT ![s] = 0]
  /\ idle' = [idle EXCEPT ![s] = 0]
  /\ windowAge' = [windowAge EXCEPT ![s] = 0]
  /\ windowRequests' = [windowRequests EXCEPT ![s] = 0]
  /\ window' = [window EXCEPT ![s] = NewWindow]
  /\ UNCHANGED <<handlers, sinceCleanup, established>>

(***************************************************************************)
(* POST /handshake/finish: 404, 403 or 200.                                *)
(***************************************************************************)
FinishUnknown(s) ==
  /\ s \notin sessions \/ s \notin pendingHandshakes
  /\ UNCHANGED vars

\* Mutant: the catch block forgets the pending handshake.
FinishUnverifiedHalf(s) ==
  /\ s \in sessions \cap pendingHandshakes
  /\ sessions' = sessions \ {s}
  /\ UNCHANGED <<pendingHandshakes, idle, age, limiter, window, handlers, sinceCleanup, history>>

\* Mutant: a finish message for a session that has finished is verified again.
FinishUnverifiedAnytime(s) ==
  /\ s \in sessions
  /\ sessions' = sessions \ {s}
  /\ pendingHandshakes' = pendingHandshakes \ {s}
  /\ UNCHANGED <<idle, age, limiter, window, handlers, sinceCleanup, history>>

FinishUnverified(s) ==
  /\ s \in sessions \cap pendingHandshakes
  /\ sessions' = sessions \ {s}
  /\ pendingHandshakes' = pendingHandshakes \ {s}
  /\ UNCHANGED <<idle, age, limiter, window, handlers, sinceCleanup, history>>

FinishVerified(s) ==
  /\ s \in sessions \cap pendingHandshakes
  /\ pendingHandshakes' = pendingHandshakes \ {s}
  /\ established' = established \cup {s}
  /\ UNCHANGED <<sessions, idle, age, limiter, window, handlers, sinceCleanup, created>>

-----------------------------------------------------------------------------
(***************************************************************************)
(* checkRateLimit(): the fixed window restarts when more than a minute     *)
(* old, the request is charged to it, then compared with the limit.  Once  *)
(* over the limit the count makes no difference and stops.                 *)
(***************************************************************************)
Expired(s) == windowAge[s] > RATE_WINDOW

Charge(s) == IF Expired(s) THEN 1 ELSE windowRequests[s] + 1

WithinLimit(s) == Charge(s) <= RATE_LIMIT

\* Mutant: the count restarts, windowStart does not.
ChargeRequestStale(s) ==
  /\ UNCHANGED windowAge
  /\ windowRequests' = [windowRequests EXCEPT
                          ![s] = IF WithinLimit(s) THEN Charge(s) ELSE RATE_LIMIT + 1]

ChargeRequest(s) ==
  /\ windowAge' = [windowAge EXCEPT ![s] = IF Expired(s) THEN 0 ELSE @]
  /\ windowRequests' = [windowRequests EXCEPT
                          ![s] = IF WithinLimit(s) THEN Charge(s) ELSE RATE_LIMIT + 1]

(***************************************************************************)
(* POST /request for session s, one action for each way it ends up to the  *)
(* await of the tool handler: 401, 429, an encrypted error, or a handler.  *)
(* The handler keeps the session it looked up, whatever becomes of the     *)
(* map, so its response does not depend on it.                             *)
(***************************************************************************)
RequestUnknown(s) ==
  /\ s \notin sessions
  /\ UNCHANGED vars

RequestLimited(s) ==
  /\ s \in sessions
  /\ ~WithinLimit(s)
  /\ ChargeRequest(s)
  /\ UNCHANGED <<maps, idle, age, window, handlers, sinceCleanup, history>>

RequestUnreadable(s, r) ==
  /\ s \in sessions
  /\ WithinLimit(s)
  /\ ~r.intact \/ ~Admits(window[s], r.counter)
  /\ ChargeRequest(s)
  /\ idle' = [idle EXCEPT ![s] = 0]
  /\ UNCHANGED <<maps, age, window, handlers, sinceCleanup, history>>

RequestDispatched(s, r) ==
  /\ s \in sessions
  /\ WithinLimit(s)
  /\ r.intact /\ Admits(window[s], r.counter)
  /\ ChargeRequest(s)
  /\ idle' = [idle EXCEPT ![s] = 0]
  /\ window' = [window EXCEPT ![s] = Record(@, r.counter)]
  /\ handlers' = handlers \cup {[session |-> s, counter |-> r.counter]}
  /\ UNCHANGED <<maps, age, sinceCleanup, history>>

HandlerReturns(h) ==
  /\ h \in handlers
  /\ handlers' = handlers \ {h}
  /\ UNCHANGED <<maps, idle, age, limiter, window, sinceCleanup, history>>

-----------------------------------------------------------------------------
\* Mutant: the cleanup timer is not periodic.
TickUnbounded ==
  /\ sinceCleanup' = sinceCleanup + 1
  /\ idle' = [s \in SessionIds |-> IF s \in sessions THEN idle[s] + 1 ELSE idle[s]]
  /\ UNCHANGED <<maps, age, limiter, window, handlers, history>>

(***************************************************************************)
(* Time passes, never past the next run of cleanupSessions.  The age of a  *)
(* rate window beyond RATE_WINDOW makes no difference and is not counted.  *)
(***************************************************************************)
Tick ==
  /\ sinceCleanup < CLEANUP_INTERVAL
  /\ sinceCleanup' = sinceCleanup + 1
  /\ idle' = [s \in SessionIds |-> IF s \in sessions THEN idle[s] + 1 ELSE idle[s]]
  /\ age' = [s \in SessionIds |-> IF s \in pendingHandshakes THEN age[s] + 1 ELSE age[s]]
  /\ windowAge' = [s \in SessionIds |->
       IF s \in sessions /\ ~Expired(s) THEN windowAge[s] + 1 ELSE windowAge[s]]
  /\ UNCHANGED <<maps, windowRequests, window, handlers, history>>

\* Mutant: only the map of sessions is cleaned.
CleanupSessionsOnly ==
  /\ sinceCleanup = CLEANUP_INTERVAL
  /\ sinceCleanup' = 0
  /\ sessions' = {s \in sessions : idle[s] <= SESSION_TTL}
  /\ UNCHANGED <<pendingHandshakes, idle, age, limiter, window, handlers, history>>

CleanupSessions ==
  /\ sinceCleanup = CLEANUP_INTERVAL
  /\ sinceCleanup' = 0
  /\ sessions' = {s \in sessions : idle[s] <= SESSION_TTL}
  /\ pendingHandshakes' = {s \in pendingHandshakes : age[s] <= HANDSHAKE_TTL}
  /\ UNCHANGED <<idle, age, limiter, window, handlers, history>>

(***************************************************************************)
(* The process dies and is started again: both maps live in memory only.   *)
(***************************************************************************)
Restart ==
  /\ sessions' = {}
  /\ pendingHandshakes' = {}
  /\ handlers' = {}
  /\ sinceCleanup' = 0
  /\ UNCHANGED <<idle, age, limiter, window, history>>

Handshake(s) ==
  \/ HandshakeInit(s)
  \/ FinishUnknown(s)
  \/ FinishUnverified(s)
  \/ FinishVerified(s)

Request(s, r) ==
  \/ RequestUnknown(s)
  \/ RequestLimited(s)
  \/ RequestUnreadable(s, r)
  \/ RequestDispatched(s, r)

Next ==
  \/ \E s \in SessionIds : Handshake(s)
  \/ \E s \in SessionIds, r \in Requests : Request(s, r)
  \/ \E h \in handlers : HandlerReturns(h)
  \/ Tick
  \/ CleanupSessions
  \/ Restart

Spec == Init /\ [][Next]_vars

-----------------------------------------------------------------------------
(***************************************************************************)
(* The type invariant of the server's session state.                       *)
(***************************************************************************)
TypeOK ==
  /\ sessions \subseteq created
  /\ pendingHandshakes \subseteq SessionIds
  /\ idle \in [SessionIds -> Nat]
  /\ age \in [SessionIds -> Nat]
  /\ windowAge \in [SessionIds -> 0 .. RATE_WINDOW + 1]
  /\ windowRequests \in [SessionIds -> 0 .. RATE_LIMIT + 1]
  /\ window \in [SessionIds -> Windows]
  /\ handlers \subseteq [session : created, counter : 0 .. MaxCounter]
  /\ sinceCleanup \in 0 .. CLEANUP_INTERVAL
  /\ created \subseteq SessionIds
  /\ established \subseteq created

(***************************************************************************)
(* The two maps are pruned by different clocks, yet a pending handshake    *)
(* never outlives its session: /handshake/finish cannot be left with a     *)
(* handshake and no session to activate.                                   *)
(***************************************************************************)
PendingHasSession == pendingHandshakes \subseteq sessions

(***************************************************************************)
(* Whatever peers do, nothing unused stays in memory for longer than its   *)
(* TTL plus one cleanup period: sessions whose handshake never finished or *)
(* whose proxy is gone, and handshakes abandoned half-way.                 *)
(***************************************************************************)
UnusedIsReclaimed ==
  /\ \A s \in sessions : idle[s] <= SESSION_TTL + CLEANUP_INTERVAL
  /\ \A s \in pendingHandshakes : age[s] <= HANDSHAKE_TTL + CLEANUP_INTERVAL

(***************************************************************************)
(* As long as the process lives, an established session is lost only by    *)
(* being idle for its TTL: a late, repeated or damaged finish message, a   *)
(* replayed or unreadable request, and the expiry of its handshake do not  *)
(* cost the peer its session.                                              *)
(***************************************************************************)
LostOnlyByIdling ==
  \A s \in (sessions \cap established) \ sessions' : idle[s] > SESSION_TTL

EstablishedLastsUntilIdle == [][Restart \/ LostOnlyByIdling]_vars
=============================================================================
