--------------------------- MODULE IngestorManager ---------------------------
(***************************************************************************)
(* The IngestorManager (src/remote/ingestors/manager.ts) with one poll     *)
(* ingestor and the webhook ingestors of one path, the route that fans     *)
(* webhooks out to them (src/remote/server.ts), and the service that       *)
(* posts each event until it is answered 200.  startAll() awaits the first *)
(* poll: whatever else the server does can come in between.                *)
(***************************************************************************)
EXTENDS PollIngestor, WebhookIngestor

CONSTANTS
  Poll,                   \* the poll ingestor
  Order,                  \* the connections in the order of the config
  Disabled,               \* those disabled by overrides, or with no factory
  Signed,                 \* each event's service, the secret and URL it signs with
  Observed                \* the webhook shown to buffer every event once

Ingestors == Webhooks \cup {Poll}
Events == 1 .. Len(Signed)

ASSUME OrderAssumption ==
  /\ Order \in Seq(Ingestors) /\ Range(Order) = Ingestors
  /\ Poll \notin Webhooks
ASSUME SignedAssumption == Signed \in Seq(Range(Signed))
ASSUME DisabledAssumption == Disabled \subseteq Webhooks
ASSUME ObservedAssumption ==
  Observed \in Webhooks /\ signatureSecret[Observed] # Unsigned

VARIABLES
  ingestors,              \* the keys of the map
  at,                     \* the entry whose start() startAll() awaits
  sent,                   \* the service's events so far
  acked,                  \* those answered 200
  buffers,                \* for each webhook, how often it buffered an event
  absent,                 \* history: webhooks not in the map when it was acked
  stopped,                \* history: stopAll() was called
  quiet                   \* history: and found nothing under way

managerVars == <<ingestors, at>>
webhookVars == <<sent, acked, buffers, absent>>
vars == <<pollVars, managerVars, webhookVars, stopped, quiet>>

Init ==
  /\ PollInit
  /\ ingestors = {}
  /\ at = 0
  /\ sent = 0
  /\ acked = {}
  /\ buffers = [w \in Webhooks |-> [e \in Events |-> 0]]
  /\ absent = [e \in Events |-> {}]
  /\ stopped = FALSE
  /\ quiet = FALSE

-----------------------------------------------------------------------------
(***************************************************************************)
(* startAll() from entry i on: webhooks start at once, the poll ingestor   *)
(* is awaited.  Nothing asks whether stopAll() has come.                   *)
(***************************************************************************)
Awaited(i) ==
  LET polling == {k \in DOMAIN Order : k >= i /\ Order[k] = Poll}
  IN  IF polling = {} THEN Len(Order) + 1 ELSE CHOOSE k \in polling : TRUE

Proceed(i) ==
  /\ at' = Awaited(i)
  /\ ingestors' = ingestors
       \cup ({Order[k] : k \in {n \in DOMAIN Order : i <= n /\ n <= Awaited(i)}} \ Disabled)

StartAll ==
  /\ at = 0
  /\ Proceed(1)
  /\ IF at' \in DOMAIN Order THEN StartPoll ELSE UNCHANGED pollVars
  /\ UNCHANGED <<webhookVars, stopped, quiet>>

(***************************************************************************)
(* stopAll(), which main() may even call before startAll(), while it waits *)
(* for the tunnel.                                                         *)
(***************************************************************************)
StopAll ==
  /\ ~stopped
  /\ stopped' = TRUE
  /\ quiet' = (at = Len(Order) + 1 /\ \A i \in Polls : polls[i] = "idle")
  /\ IF Poll \in ingestors THEN StopPoll ELSE UNCHANGED pollVars
  /\ ingestors' = {}
  /\ UNCHANGED <<at, webhookVars>>

(***************************************************************************)
(* The end of a poll; of the first one, with the rest of startAll().       *)
(***************************************************************************)
EndPoll(i) ==
  /\ PollSucceeds(i) \/ PollFails(i)
  /\ IF EndsStart(i) THEN Proceed(at + 1) ELSE UNCHANGED managerVars
  /\ UNCHANGED <<webhookVars, stopped, quiet>>

BetweenPolls ==
  /\ NewItem \/ \E i \in Polls : OnInterval(i) \/ Answered(i)
  /\ UNCHANGED <<managerVars, webhookVars, stopped, quiet>>

-----------------------------------------------------------------------------
SendEvent ==
  /\ sent + 1 \in Events
  /\ sent' = sent + 1
  /\ UNCHANGED <<pollVars, managerVars, acked, buffers, absent, stopped, quiet>>

Request(event, age) ==
  [event |-> event, age |-> age,
   signature |-> Signature(Signed[event].protocol, Signed[event].secret, event,
                           Signed[event].url)]

GetWebhookIngestors == ingestors \cap Webhooks

\* Mutant: the first ingestor that accepts ends the loop.
PostWebhookFirst(request, lost) ==
  LET accepts == {w \in GetWebhookIngestors : VerifySignature(w, request)}
      first == CHOOSE w \in accepts : TRUE
  IN  /\ accepts # {}
      /\ buffers' = [buffers EXCEPT ![first] = HandleWebhook(first, @, request)]
      /\ acked' = IF lost THEN acked ELSE acked \cup {request.event}
      /\ absent' = IF lost THEN absent
                   ELSE [absent EXCEPT ![request.event] = Webhooks \ ingestors]

\* Mutant: 403 if any rejects.
PostWebhookUnanimous(request, lost) ==
  /\ buffers' = [w \in Webhooks |->
                   IF w \in GetWebhookIngestors
                     THEN HandleWebhook(w, buffers[w], request) ELSE buffers[w]]
  /\ IF ~lost /\ \A w \in GetWebhookIngestors : VerifySignature(w, request)
       THEN /\ acked' = acked \cup {request.event}
            /\ absent' = [absent EXCEPT ![request.event] = Webhooks \ ingestors]
       ELSE UNCHANGED <<acked, absent>>

(***************************************************************************)
(* POST /webhooks/:path: 404 without ingestors, 403 if none accepts, 200   *)
(* if any does.  The answer may be lost.                                   *)
(***************************************************************************)
PostWebhook(request, lost) ==
  /\ buffers' = [w \in Webhooks |->
                   IF w \in GetWebhookIngestors
                     THEN HandleWebhook(w, buffers[w], request) ELSE buffers[w]]
  /\ IF ~lost /\ \E w \in GetWebhookIngestors : VerifySignature(w, request)
       THEN /\ acked' = acked \cup {request.event}
            /\ absent' = [absent EXCEPT ![request.event] = Webhooks \ ingestors]
       ELSE UNCHANGED <<acked, absent>>

Ages == {0, DEFAULT_TIMESTAMP_TOLERANCE + 1}

Deliver(event, age, lost) ==
  /\ event <= sent /\ event \notin acked
  /\ PostWebhook(Request(event, age), lost)
  /\ UNCHANGED <<pollVars, managerVars, sent, stopped, quiet>>

Next ==
  \/ StartAll \/ StopAll \/ BetweenPolls \/ SendEvent
  \/ \E i \in Polls : EndPoll(i)
  \/ \E event \in Events, age \in Ages, lost \in BOOLEAN : Deliver(event, age, lost)

(***************************************************************************)
(* The server starts, the first poll ends well or badly, and the service   *)
(* repeats an event until its answer comes.                                *)
(***************************************************************************)
Fairness ==
  /\ WF_vars(StartAll)
  /\ WF_vars(starting /\ EndPoll(1))
  /\ \A event \in Events : WF_vars(Deliver(event, 0, FALSE))

Spec == Init /\ [][Next]_vars /\ Fairness

-----------------------------------------------------------------------------
(***************************************************************************)
(* The type invariant of the manager and its ingestors.                    *)
(***************************************************************************)
TypeOK ==
  /\ PollTypeOK
  /\ ingestors \subseteq Ingestors \ Disabled
  /\ at \in 0 .. Len(Order) + 1
  /\ sent \in 0 .. Len(Signed)
  /\ acked \subseteq 1 .. sent
  /\ buffers \in [Webhooks -> [Events -> Nat]]
  /\ absent \in [Events -> SUBSET Webhooks]
  /\ stopped \in BOOLEAN /\ quiet \in BOOLEAN

(***************************************************************************)
(* As long as polls do not overlap, the poll ingestor's state is true and  *)
(* no item is pushed twice: while it says it is connected or reconnecting  *)
(* another poll will come, when it has given up none does, and pruning     *)
(* forgets no item that the feed still shows.  Without the condition both  *)
(* fail: a poll that ends after the tenth error says connected, and one    *)
(* that was answered long ago brings items already pruned.                 *)
(***************************************************************************)
PollStateIsTrue ==
  /\ pollState \in {"starting", "connected", "reconnecting"} /\ ~stopped
       => pollTimer \/ \E i \in Polls : polls[i] # "idle"
  /\ pollState = "error" => ~pollTimer /\ \A i \in Polls : polls[i] = "idle"

SinglePollsAreSound == ~overlapped => PollStateIsTrue /\ repeated = {}

(***************************************************************************)
(* A webhook that was answered 200 is in the buffer of every ingestor of   *)
(* the path that verifies it and was in the map by then, although the      *)
(* answer says only that some ingestor accepted it.  This needs that no    *)
(* ingestor in use goes without a secret: one that does takes an event     *)
(* that is too old for the others, and it is not sent again.               *)
(***************************************************************************)
AllVerify == \A w \in Webhooks \ Disabled : signatureSecret[w] # Unsigned

AckedReachesAll ==
  AllVerify =>
    \A e \in acked : \A w \in Webhooks \ absent[e] :
      VerifySignature(w, Request(e, 0)) => buffers[w][e] > 0

(***************************************************************************)
(* stopAll() is final once startAll() has returned and no poll is under    *)
(* way.  Earlier, it is followed by ingestors that startAll() adds, and by *)
(* the interval that start() sets.                                         *)
(***************************************************************************)
QuietStopIsFinal ==
  quiet => ingestors = {} /\ pollState = "stopped" /\ ~pollTimer

(***************************************************************************)
(* A webhook ingestor with a secret buffers every event at most once,      *)
(* however often the service repeats it: it implements at-most-once        *)
(* delivery.                                                               *)
(***************************************************************************)
Buffer ==
  INSTANCE AtMostOnceDelivery
    WITH Messages <- Events, sent <- sent, deliveries <- buffers[Observed]

WebhookIsBufferedOnce == Buffer!Spec

(***************************************************************************)
(* Every event is accepted in the end, even one that the service sends     *)
(* before startAll() has come to an ingestor that verifies it, unless the  *)
(* server stops.                                                           *)
(***************************************************************************)
EventsAreAccepted == \A e \in Events : e <= sent ~> (e \in acked \/ stopped)
=============================================================================
