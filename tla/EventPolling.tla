----------------------------- MODULE EventPolling -----------------------------
(***************************************************************************)
(* One caller's ingestors as the IngestorManager keeps them                *)
(* (src/remote/ingestors/manager.ts), fed by their services, and agents    *)
(* that poll them with poll_events: for each connection one that names it, *)
(* and one that names none and gets the events of all.  Each agent passes  *)
(* as after_id the id of the last event it received, as the tool's         *)
(* description in src/mcp/server.ts tells it to.  The server reboots.      *)
(***************************************************************************)
EXTENDS BaseIngestor

CONSTANTS
  NumConnections,       \* connections of the caller that have an ingestor
  Agents,               \* the connections an agent polls by name, and All
  Keys,                 \* idempotency keys the services use
  MaxEvents,            \* bound: events accepted per boot and connection
  MaxBoots              \* bound: times the server boots

ASSUME BoundsAssumption ==
  /\ NumConnections \in Nat
  /\ MaxEvents \in Nat
  /\ MaxBoots \in Nat \ {0}
  /\ MaxEvents <= ID_MULTIPLIER    \* fewer than a million events per boot
  /\ NoKey \notin Keys
  /\ Keys \cap Int = {}            \* a random key is none of a service's

Connections == 1 .. NumConnections     \* in the order of the manager's map

All == 0                               \* the agent that names no connection

ASSUME AgentsAssumption == Agents \subseteq Connections \cup {All}

VARIABLES
  bootEpoch,        \* BOOT_EPOCH, counted in boots: they are a second apart
  ingestors,        \* the manager's map
  now,              \* a clock that tells any two events apart
  cursor,           \* each agent's after_id
  accepted,         \* history: events accepted this boot, by connection
  received          \* history: events each agent was given

vars == <<bootEpoch, ingestors, now, cursor, accepted, received>>

Init ==
  /\ bootEpoch = 1
  /\ ingestors = [c \in Connections |-> NewIngestor]
  /\ now = 0
  /\ cursor = [a \in Agents |-> -1]
  /\ accepted = [c \in Connections |-> <<>>]
  /\ received = [a \in Agents |-> {}]

(***************************************************************************)
(* A service delivers an event.                                            *)
(***************************************************************************)
Ingest(c, key) ==
  /\ ingestors[c].counter < MaxEvents
  /\ ingestors' = [ingestors EXCEPT ![c] = PushEvent(@, bootEpoch, now, key)]
  /\ IF IsDuplicate(ingestors[c], key)
       THEN UNCHANGED <<now, accepted>>
       ELSE /\ now' = now + 1
            /\ accepted' = [accepted EXCEPT
                 ![c] = Append(@, Event(ingestors[c], bootEpoch, now, key))]
  /\ UNCHANGED <<bootEpoch, cursor, received>>

(***************************************************************************)
(* getAllEvents(): the same cursor for every ingestor, then sorted by the  *)
(* time of receipt.                                                        *)
(***************************************************************************)
GetAllEvents(afterId) ==
  LET given == FlattenSeq([c \in Connections |-> GetEvents(ingestors[c], afterId)])
  IN  SortSeq(given, LAMBDA e, f : e.receivedAt < f.receivedAt)

PollEvents(a) == IF a = All THEN GetAllEvents(cursor[a])
                            ELSE GetEvents(ingestors[a], cursor[a])

Poll(a) ==
  LET events == PollEvents(a) IN
  /\ events # <<>>
  /\ cursor' = [cursor EXCEPT ![a] = Last(events).id]
  /\ received' = [received EXCEPT ![a] = @ \cup ToSet(events)]
  /\ UNCHANGED <<bootEpoch, ingestors, now, accepted>>

(***************************************************************************)
(* Ingestors live in memory: a reboot empties them.  Agents live on.       *)
(***************************************************************************)
Reboot ==
  /\ bootEpoch < MaxBoots
  /\ bootEpoch' = bootEpoch + 1
  /\ ingestors' = [c \in Connections |-> NewIngestor]
  /\ accepted' = [c \in Connections |-> <<>>]
  /\ UNCHANGED <<now, cursor, received>>

Next ==
  \/ \E c \in Connections, key \in Keys \cup {NoKey} : Ingest(c, key)
  \/ \E a \in Agents : Poll(a)
  \/ Reboot

Spec == Init /\ [][Next]_vars

-----------------------------------------------------------------------------
Buffered(c) == ToArray(ingestors[c].ring)

(***************************************************************************)
(* The type invariant: ids grow within their boot's range.                 *)
(***************************************************************************)
TypeOK ==
  /\ bootEpoch \in 1 .. MaxBoots
  /\ now \in Nat
  /\ \A a \in Agents : cursor[a] \in -1 .. (bootEpoch + 1) * ID_MULTIPLIER - 1
  /\ \A c \in Connections :
       /\ ingestors[c].ring.head \in 0 .. Capacity - 1
       /\ ingestors[c].ring.count \in 0 .. Capacity
       /\ ingestors[c].counter \in 0 .. MaxEvents
       /\ Len(ingestors[c].seenKeys) <= MAX_SEEN_KEYS

(***************************************************************************)
(* The circular buffer holds exactly the latest events, oldest first: as   *)
(* many as were accepted since boot, at most its capacity.                 *)
(***************************************************************************)
Latest(events) ==
  SubSeq(events, IF Len(events) > Capacity THEN Len(events) - Capacity + 1 ELSE 1,
         Len(events))

RingHoldsLatest == \A c \in Connections : Buffered(c) = Latest(accepted[c])

(***************************************************************************)
(* Although half of the seen keys are forgotten at a time, a buffer never  *)
(* holds two events with one key, as long as it is no larger than the half *)
(* that is kept.                                                           *)
(***************************************************************************)
NoKeyTwiceInBuffer ==
  \A c \in Connections : \A i, j \in 1 .. Len(Buffered(c)) :
    Buffered(c)[i].key = Buffered(c)[j].key => i = j

(***************************************************************************)
(* What an agent's next poll gives it is exactly what is buffered and it   *)
(* was not given before: it gets nothing twice, and misses nothing but     *)
(* what was evicted before it polled, across evictions, dropped duplicates *)
(* and reboots.                                                            *)
(***************************************************************************)
Visible(a) == UNION {ToSet(Buffered(c)) : c \in IF a = All THEN Connections ELSE {a}}

PollGivesTheUnread(a) == ToSet(PollEvents(a)) = Visible(a) \ received[a]

EachPollGivesTheUnread == \A a \in Agents : PollGivesTheUnread(a)
=============================================================================
