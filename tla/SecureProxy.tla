----------------------------- MODULE SecureProxy -----------------------------
(***************************************************************************)
(* The MCP proxy (src/mcp/server.ts: establishChannel, getChannel and      *)
(* sendEncryptedRequest) calling the remote server over HTTP.  Tool calls  *)
(* run concurrently and share the module's one channel variable; each is   *)
(* cut into the steps between its awaits.  The network delays, repeats,    *)
(* damages and loses messages; the server restarts and forgets.            *)
(***************************************************************************)
EXTENDS SessionServer

CONSTANTS
  Calls,               \* tool calls the agent makes
  NoSession,           \* channel = null
  MaxFaults            \* bound: restarts, ticks, timeouts, copies, damage

ASSUME NoSessionAssumption == NoSession \notin SessionIds
ASSUME MaxFaultsAssumption == MaxFaults \in Nat

VARIABLES
  channel,             \* the session of the proxy's channel, or NoSession
  sendCounter,         \* the send counter of the proxy's channel per session
  call,                \* where each tool call stands
  net,                 \* messages on their way to the server
  faults,              \* faults so far
  losses,              \* history: how often the server forgot a session
  repeated,            \* history: calls of which a message came again
  executed             \* history: how often each call's tool was run

proxy == <<channel, sendCounter, call>>
past == <<losses, repeated, executed>>

pvars == <<vars, proxy, net, faults, past>>

(***************************************************************************)
(* A tool call is idle, awaits the answer to one HTTP exchange, or is over *)
(* attempt counts its handshakes after a 401.                              *)
(***************************************************************************)
Exchanges == {"init", "finish", "request"}

NoReply == [status |-> "none", session |-> NoSession]

Idle == [pc |-> "idle", attempt |-> 0, session |-> NoSession, counter |-> 0,
         reply |-> NoReply]

PInit ==
  /\ Init
  /\ channel = NoSession
  /\ sendCounter = [s \in SessionIds |-> 0]
  /\ call = [c \in Calls |-> Idle]
  /\ net = {}
  /\ faults = 0
  /\ losses = 0
  /\ repeated = {}
  /\ executed = [c \in Calls |-> 0]

-----------------------------------------------------------------------------
(***************************************************************************)
(* The proxy.  fetch() puts a message on the wire and awaits its reply.    *)
(***************************************************************************)
Fetch(c, type, s, k, n) ==
  /\ call' = [call EXCEPT ![c] = [pc |-> type, attempt |-> n, session |-> s,
                                  counter |-> k, reply |-> NoReply]]
  /\ net' = net \cup {[type |-> type, call |-> c, attempt |-> n, session |-> s,
                       counter |-> k, intact |-> TRUE]}

Awaits(c, type) == call[c].pc = type /\ call[c].reply # NoReply

Over(c, pc) ==
  /\ call' = [call EXCEPT ![c].pc = pc]
  /\ UNCHANGED net

(***************************************************************************)
(* establishChannel() up to its first await.                               *)
(***************************************************************************)
BeginHandshake(c, n) ==
  /\ Fetch(c, "init", NoSession, 0, n)
  /\ UNCHANGED sendCounter

(***************************************************************************)
(* sendEncryptedRequest() after getChannel(): encrypt on the channel it    *)
(* was given, whatever becomes of the shared variable.  MaxCounter is a    *)
(* bound that no run reaches.                                              *)
(***************************************************************************)
SendRequest(c, s, n) ==
  /\ sendCounter[s] <= MaxCounter
  /\ Fetch(c, "request", s, sendCounter[s], n)
  /\ sendCounter' = [sendCounter EXCEPT ![s] = @ + 1]

Start(c) ==
  /\ call[c].pc = "idle"
  /\ \/ channel = NoSession /\ BeginHandshake(c, 0)
     \/ channel # NoSession /\ SendRequest(c, channel, 0)
  /\ UNCHANGED channel

\* Mutant: the channel is shared before the finish message is answered.
OnInitReplyShares(c) ==
  /\ Awaits(c, "init")
  /\ \/ /\ call[c].reply.status = "ok"
        /\ channel' = call[c].reply.session
        /\ Fetch(c, "finish", call[c].reply.session, 0, call[c].attempt)
     \/ /\ call[c].reply.status # "ok"
        /\ Over(c, "failed")
        /\ UNCHANGED channel
  /\ UNCHANGED sendCounter

\* Mutant: the finish message is skipped.
OnInitReplySkips(c) ==
  /\ Awaits(c, "init")
  /\ call[c].reply.status = "ok"
  /\ SendRequest(c, call[c].reply.session, call[c].attempt)
  /\ UNCHANGED channel

(***************************************************************************)
(* The reply to /handshake/init: derive the keys, send the finish message. *)
(***************************************************************************)
OnInitReply(c) ==
  /\ Awaits(c, "init")
  /\ \/ /\ call[c].reply.status = "ok"
        /\ Fetch(c, "finish", call[c].reply.session, 0, call[c].attempt)
     \/ call[c].reply.status # "ok" /\ Over(c, "failed")
  /\ UNCHANGED <<channel, sendCounter>>

\* Mutant: a refused finish message is not reported.
OnFinishReplyOkOnly(c) ==
  /\ Awaits(c, "finish")
  /\ call[c].reply.status = "ok"
  /\ channel' = call[c].session
  /\ SendRequest(c, call[c].session, call[c].attempt)

(***************************************************************************)
(* The reply to /handshake/finish: channel ??= assigns even if another     *)
(* call has set channel since it was found null.                           *)
(***************************************************************************)
OnFinishReply(c) ==
  /\ Awaits(c, "finish")
  /\ \/ /\ call[c].reply.status = "ok"
        /\ channel' = call[c].session
        /\ SendRequest(c, call[c].session, call[c].attempt)
     \/ /\ call[c].reply.status # "ok"
        /\ Over(c, "failed")
        /\ UNCHANGED <<channel, sendCounter>>

\* Mutant: a 401 repeats the request on the channel at hand.
OnResponseSameChannel(c) ==
  /\ Awaits(c, "request")
  /\ call[c].reply.status = "401"
  /\ SendRequest(c, call[c].session, call[c].attempt + 1)
  /\ UNCHANGED channel

\* Mutant: a 401 ends the call like any other error.
OnResponseNoRetry(c) ==
  /\ Awaits(c, "request")
  /\ Over(c, IF call[c].reply.status = "result" THEN "done" ELSE "failed")
  /\ UNCHANGED <<channel, sendCounter>>

(***************************************************************************)
(* The reply to /request: a 401 drops the shared channel, whichever it is  *)
(* by now, and the call begins again; any other error ends it.             *)
(***************************************************************************)
OnResponse(c) ==
  /\ Awaits(c, "request")
  /\ \/ /\ call[c].reply.status = "result"
        /\ Over(c, "done")
        /\ UNCHANGED <<channel, sendCounter>>
     \/ /\ call[c].reply.status = "401"
        /\ channel' = NoSession
        /\ BeginHandshake(c, call[c].attempt + 1)
     \/ /\ call[c].reply.status \notin {"result", "401"}
        /\ Over(c, "failed")
        /\ UNCHANGED <<channel, sendCounter>>

ProxyStep(c) ==
  /\ Start(c) \/ OnInitReply(c) \/ OnFinishReply(c) \/ OnResponse(c)
  /\ UNCHANGED <<vars, faults, past>>

-----------------------------------------------------------------------------
(***************************************************************************)
(* The server takes a message.  A fault may leave a copy on the wire, as   *)
(* when a hop repeats a request; the answer may then be lost, and that may *)
(* be why the hop repeats it.  Otherwise the answer reaches the call if it *)
(* still awaits this very exchange.                                        *)
(***************************************************************************)
Waiting(c) == call[c].pc \in Exchanges /\ call[c].reply = NoReply

AwaitedBy(m) ==
  /\ Waiting(m.call)
  /\ call[m.call].pc = m.type
  /\ call[m.call].attempt = m.attempt

Fault == faults < MaxFaults /\ faults' = faults + 1

Take(m) ==
  \/ net' = net \ {m} /\ UNCHANGED <<faults, repeated>>
  \/ Fault /\ repeated' = repeated \cup {m.call} /\ UNCHANGED net

Answer(m, status, s) ==
  \/ AwaitedBy(m) /\ call' = [call EXCEPT ![m.call].reply = [status |-> status, session |-> s]]
  \/ (~AwaitedBy(m) \/ m \in net') /\ UNCHANGED call

FreshId == CHOOSE s \in SessionIds : s \notin created

(***************************************************************************)
(* An init damaged where nothing is signed gets a session, whose id the    *)
(* proxy does not find: the transcripts differ (module Handshake).  There  *)
(* is always a fresh id: SessionIds is a bound that no run may reach.      *)
(***************************************************************************)
ServeInit(m) ==
  /\ m.type = "init"
  /\ FreshId \in SessionIds
  /\ \/ m.intact /\ HandshakeInit(FreshId) /\ Answer(m, "ok", FreshId)
     \/ ~m.intact /\ UNCHANGED vars /\ Answer(m, "403", NoSession)
     \/ ~m.intact /\ HandshakeInit(FreshId) /\ Answer(m, "ok", NoSession)
  /\ UNCHANGED executed

ServeFinish(m) ==
  /\ m.type = "finish"
  /\ \/ FinishUnknown(m.session) /\ Answer(m, "404", NoSession)
     \/ ~m.intact /\ FinishUnverified(m.session) /\ Answer(m, "403", NoSession)
     \/ m.intact /\ FinishVerified(m.session) /\ Answer(m, "ok", m.session)
  /\ UNCHANGED executed

ServeRequest(m) ==
  /\ m.type = "request"
  /\ LET r == [counter |-> m.counter, intact |-> m.intact] IN
     \/ /\ RequestUnknown(m.session)
        /\ Answer(m, "401", NoSession)
        /\ UNCHANGED executed
     \/ /\ RequestLimited(m.session)
        /\ Answer(m, "429", NoSession)
        /\ UNCHANGED executed
     \/ /\ RequestUnreadable(m.session, r)
        /\ Answer(m, "error", NoSession)
        /\ UNCHANGED executed
     \/ /\ RequestDispatched(m.session, r)
        /\ executed' = [executed EXCEPT ![m.call] = @ + 1]
        /\ UNCHANGED call

Serve(m) ==
  /\ Take(m)
  /\ ServeInit(m) \/ ServeFinish(m) \/ ServeRequest(m)
  /\ UNCHANGED <<channel, sendCounter, losses>>

(***************************************************************************)
(* A tool handler settles; a tool's own error is a result like any other.  *)
(***************************************************************************)
RequestOf(c) == [session |-> call[c].session, counter |-> call[c].counter]

Requesters(h) == {c \in Calls : call[c].pc = "request" /\ Waiting(c) /\ RequestOf(c) = h}

Return(h) ==
  /\ HandlerReturns(h)
  /\ call' = [c \in Calls |->
       IF c \in Requesters(h)
         THEN [call[c] EXCEPT !.reply = [status |-> "result", session |-> NoSession]]
         ELSE call[c]]
  /\ UNCHANGED <<channel, sendCounter, net, faults, past>>

-----------------------------------------------------------------------------
(***************************************************************************)
(* What can go wrong.  A timeout strikes while the exchange is under way;  *)
(* a broken connection is noticed when nothing can answer any more.        *)
(***************************************************************************)
UnderWay(c) ==
  \/ \E m \in net : m.call = c /\ AwaitedBy(m)
  \/ call[c].pc = "request" /\ RequestOf(c) \in handlers

Timeout(c) ==
  /\ Fault
  /\ Waiting(c) /\ UnderWay(c)
  /\ Over(c, "failed")
  /\ UNCHANGED <<vars, channel, sendCounter, past>>

ConnectionLost(c) ==
  /\ Waiting(c) /\ ~UnderWay(c)
  /\ Over(c, "failed")
  /\ UNCHANGED <<vars, channel, sendCounter, faults, past>>

Damage(m) ==
  /\ Fault
  /\ net' = (net \ {m}) \cup {[m EXCEPT !.intact = FALSE]}
  /\ UNCHANGED <<vars, proxy, past>>

TimePasses == Fault /\ Tick /\ UNCHANGED <<proxy, net, past>>

Cleanup ==
  /\ CleanupSessions
  /\ losses' = IF sessions' = sessions THEN losses ELSE losses + 1
  /\ UNCHANGED <<proxy, net, faults, repeated, executed>>

ServerRestart ==
  /\ Fault
  /\ Restart
  /\ losses' = losses + 1
  /\ UNCHANGED <<proxy, net, repeated, executed>>

PNext ==
  \/ \E c \in Calls : ProxyStep(c) \/ Timeout(c) \/ ConnectionLost(c)
  \/ \E m \in net : Serve(m) \/ Damage(m)
  \/ \E h \in handlers : Return(h)
  \/ TimePasses
  \/ Cleanup
  \/ ServerRestart

(***************************************************************************)
(* Promises settle, messages still on the wire arrive, a broken connection *)
(* is reported.  Nothing obliges the agent to start a call.                *)
(***************************************************************************)
Fairness ==
  /\ \A c \in Calls :
       /\ WF_pvars(ProxyStep(c) /\ call[c].pc # "idle")
       /\ WF_pvars(ConnectionLost(c))
  /\ WF_pvars(\E m \in net : Serve(m))
  /\ WF_pvars(\E h \in handlers : Return(h))

PSpec == PInit /\ [][PNext]_pvars /\ Fairness

-----------------------------------------------------------------------------
(***************************************************************************)
(* The type invariant of the composed system.                              *)
(***************************************************************************)
PTypeOK ==
  /\ TypeOK
  /\ channel \in established \cup {NoSession}
  /\ sendCounter \in [SessionIds -> Nat]
  /\ \A c \in Calls :
       /\ call[c].pc \in Exchanges \cup {"idle", "done", "failed"}
       /\ call[c].pc = "finish" => call[c].session \in created \cup {NoSession}
       /\ call[c].pc = "request" => call[c].session \in established
  /\ \A m \in net : m.type \in Exchanges /\ m.call \in Calls
  /\ faults \in 0 .. MaxFaults
  /\ losses \in Nat

(***************************************************************************)
(* Although the proxy sends a call again after a 401, and the call may     *)
(* have timed out in between, its tool is run at most once: a 401 means    *)
(* that this request was not run.  The one exception is a request that a   *)
(* hop repeats across the loss of its session: one copy may run, and the   *)
(* other get the 401 that makes the proxy begin again.  A call that        *)
(* reports success was run.                                                *)
(***************************************************************************)
CallRunsAtMostOnce ==
  \A c \in Calls :
    /\ executed[c] <= 1 \/ (c \in repeated /\ losses > 0)
    /\ call[c].pc = "done" => executed[c] >= 1

(***************************************************************************)
(* The server would serve a session whose handshake is not finished: the   *)
(* session is created by /handshake/init and /request does not ask.  With  *)
(* this proxy no tool is ever run on one.                                  *)
(***************************************************************************)
ServedOnlyWhenFinished == \A h \in handlers : h.session \in established

(***************************************************************************)
(* sendEncryptedRequest calls itself after a 401, with no count.  A call   *)
(* goes round no more often than the server has forgotten sessions, even   *)
(* when calls drop and overwrite each other's channel.                     *)
(***************************************************************************)
RetriesBoundedByLosses == \A c \in Calls : call[c].attempt <= losses

(***************************************************************************)
(* Every tool call the agent makes returns: whenever calls are under way,  *)
(* the time comes when none is.  There are finitely many, and a call that  *)
(* is over stays over.                                                     *)
(***************************************************************************)
CallsReturn ==
  (\E c \in Calls : call[c].pc \in Exchanges) ~> (\A c \in Calls : call[c].pc \notin Exchanges)

(***************************************************************************)
(* Once faults have stopped, a new call succeeds whatever they left behind *)
(* - a channel the server has forgotten, orphaned sessions, half a         *)
(* handshake, copies of old messages - unless it meets the rate limit.     *)
(***************************************************************************)
Succeeds(c) == call[c].pc = "done" \/ call[c].reply.status = "429"

CallsRecover ==
  \A c \in Calls :
    (faults = MaxFaults /\ call[c].pc = "idle" /\ <>(call[c].pc # "idle")) ~> Succeeds(c)
=============================================================================
