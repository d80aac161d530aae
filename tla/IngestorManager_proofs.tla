------------------------ MODULE IngestorManager_proofs ------------------------
(***************************************************************************)
(* Proofs about IngestorManager for any webhook ingestors on the path,     *)
(* with any secrets and in any order, any events and any feed.             *)
(***************************************************************************)
EXTENDS IngestorManager, FiniteSetTheorems, SequenceTheorems, TLAPS

(***************************************************************************)
(* The types the proofs need.  What the poll ingestor remembers is the     *)
(* fold of a response, of which nothing is said here.                      *)
(***************************************************************************)
Typed ==
  /\ ingestors \subseteq Ingestors \ Disabled
  /\ at \in Nat
  /\ acked \subseteq Events
  /\ sent \in Nat
  /\ buffers \in [Webhooks -> [Events -> Nat]]
  /\ absent \in [Events -> SUBSET Webhooks]
  /\ stopped \in BOOLEAN /\ quiet \in BOOLEAN

(***************************************************************************)
(* Once startAll() has begun, the poll ingestor is in the map, so that     *)
(* stopAll() stops it.                                                     *)
(***************************************************************************)
PollIsKnown == at # 0 /\ ~stopped => Poll \in ingestors

(***************************************************************************)
(* After a quiet stop nothing is left that could begin.                    *)
(***************************************************************************)
QuietIsOver ==
  quiet => /\ stopped
           /\ at = Len(Order) + 1
           /\ \A i \in Polls : polls[i] = "idle"

IInv ==
  /\ Typed
  /\ PollIsKnown
  /\ QuietIsOver
  /\ QuietStopIsFinal
  /\ AckedReachesAll

-----------------------------------------------------------------------------
(***************************************************************************)
(* An ingestor with a secret takes only its own service's deliveries, so   *)
(* it finds their key.                                                     *)
(***************************************************************************)
LEMMA VerifiedHasKey ==
  ASSUME NEW w \in Webhooks, signatureSecret[w] # Unsigned,
         NEW event, NEW age, VerifySignature(w, Request(event, age))
  PROVE  HasKey(w, Request(event, age))
<1> USE WebhooksAssumption DEF VerifySignature, Skips, HasKey, Request, Signature
<1>1. CASE protocolOf[w] = "generic"
  BY <1>1 DEF GitHubVerifies, VerifyGitHubSignature
<1>2. CASE protocolOf[w] = "stripe"
  BY <1>2 DEF StripeVerifies, VerifyStripeSignature
<1>3. CASE protocolOf[w] = "trello"
  BY <1>3 DEF TrelloVerifies, VerifyTrelloSignature
<1> QED
  BY <1>1, <1>2, <1>3

(***************************************************************************)
(* If two ingestors with secrets each take a delivery of an event at some  *)
(* age, they are of one service, whose scheme alone judges the age: both   *)
(* take it at either age.                                                  *)
(***************************************************************************)
LEMMA SameJudgement ==
  ASSUME NEW v \in Webhooks, NEW w \in Webhooks,
         signatureSecret[v] # Unsigned, signatureSecret[w] # Unsigned,
         NEW event, NEW age,
         VerifySignature(v, Request(event, age)), VerifySignature(w, Request(event, 0))
  PROVE  VerifySignature(w, Request(event, age))
<1>1. protocolOf[v] = protocolOf[w]
  BY VerifiedHasKey DEF HasKey, Request
<1> USE WebhooksAssumption DEF VerifySignature, Skips, Request
<1>2. CASE protocolOf[w] = "generic"
  BY <1>1, <1>2 DEF GitHubVerifies, VerifyGitHubSignature
<1>3. CASE protocolOf[w] = "stripe"
  BY <1>1, <1>3 DEF StripeVerifies, VerifyStripeSignature
<1>4. CASE protocolOf[w] = "trello"
  BY <1>1, <1>4 DEF TrelloVerifies, VerifyTrelloSignature
<1> QED
  BY <1>2, <1>3, <1>4

(***************************************************************************)
(* A request leaves no buffer with less, and one more event at most.       *)
(***************************************************************************)
LEMMA HandleWebhookEffect ==
  ASSUME NEW w \in Webhooks, NEW buffer \in [Events -> Nat],
         NEW event \in Events, NEW age
  PROVE  LET handled == HandleWebhook(w, buffer, Request(event, age)) IN
         /\ handled \in [Events -> Nat]
         /\ \A e \in Events : handled[e] >= buffer[e]
         /\ VerifySignature(w, Request(event, age)) => handled[event] > 0
<1> DEFINE r == Request(event, age)
<1>1. r.event = event
  BY DEF Request
<1>2. [buffer EXCEPT ![event] = @ + 1] \in [Events -> Nat]
  OBVIOUS
<1> QED
  BY <1>1, <1>2 DEF HandleWebhook, Buffered

-----------------------------------------------------------------------------
LEMMA InitIInv == Init => IInv
<1> SUFFICES ASSUME Init PROVE IInv
  OBVIOUS
<1>1. Typed
  BY DEF Init, Typed
<1>2. PollIsKnown /\ QuietIsOver /\ QuietStopIsFinal
  BY DEF Init, PollIsKnown, QuietIsOver, QuietStopIsFinal
<1>3. AckedReachesAll
  BY DEF Init, AckedReachesAll
<1> QED
  BY <1>1, <1>2, <1>3 DEF IInv

LEMMA OrderLength == Len(Order) \in Nat
BY OrderAssumption

(***************************************************************************)
(* startAll() puts the poll ingestor in the map.                           *)
(***************************************************************************)
LEMMA ProceedEffect ==
  ASSUME IInv, NEW i \in Nat, Proceed(i)
  PROVE  /\ ingestors \subseteq ingestors'
         /\ ingestors' \subseteq Ingestors \ Disabled
         /\ at' \in Nat
         /\ i = 1 => Poll \in ingestors'
<1> DEFINE polling(n) == {k \in DOMAIN Order : k >= n /\ Order[k] = Poll}
<1>1. DOMAIN Order = 1 .. Len(Order) /\ \A k \in DOMAIN Order : Order[k] \in Ingestors
  BY OrderAssumption
<1>2. \E k \in DOMAIN Order : Order[k] = Poll
  BY OrderAssumption DEF Ingestors, Range
<1>3. polling(1) # {}
  BY <1>1, <1>2, OrderLength
<1>4. i = 1 => Awaited(i) \in polling(1)
  BY <1>3 DEF Awaited
<1>5. Poll \notin Disabled
  BY OrderAssumption, DisabledAssumption
<1>6. i = 1 => Poll \in ingestors'
  BY <1>1, <1>4, <1>5, OrderLength DEF Proceed
<1>7. ingestors' \subseteq Ingestors \ Disabled
  BY <1>1 DEF Proceed, IInv, Typed
<1>8. at' \in Nat
  BY <1>1, OrderLength DEF Proceed, Awaited
<1> QED
  BY <1>6, <1>7, <1>8 DEF Proceed

LEMMA StartAllStep ==
  ASSUME IInv, StartAll
  PROVE  IInv'
<1>1. Proceed(1) /\ at = 0 /\ UNCHANGED <<webhookVars, stopped, quiet>>
  BY DEF StartAll
<1>2. ~quiet
  BY <1>1, OrderLength DEF IInv, QuietIsOver
<1>3. /\ ingestors' \subseteq Ingestors \ Disabled
      /\ Poll \in ingestors' /\ at' \in Nat
  BY <1>1, ProceedEffect
<1> QED
  BY <1>1, <1>2, <1>3
  DEF IInv, Typed, PollIsKnown, QuietIsOver, QuietStopIsFinal, AckedReachesAll, webhookVars

LEMMA StopAllStep ==
  ASSUME IInv, StopAll
  PROVE  IInv'
<1>1. /\ UNCHANGED <<at, webhookVars>>
      /\ ingestors' = {} /\ stopped' = TRUE /\ ~stopped
      /\ quiet' = (at = Len(Order) + 1 /\ \A i \in Polls : polls[i] = "idle")
  BY DEF StopAll
<1>2. polls' = polls
  BY DEF StopAll, StopPoll, pollVars
<1>3. ASSUME quiet' PROVE pollState' = "stopped" /\ ~pollTimer'
  <2>2. at = Len(Order) + 1
    BY <1>1, <1>3
  <2>3. at # 0
    BY <2>2, OrderLength
  <2>1. Poll \in ingestors
    BY <1>1, <2>3 DEF IInv, PollIsKnown
  <2> QED
    BY <2>1 DEF StopAll, StopPoll
<1>4. quiet' \in BOOLEAN
  BY <1>1
<1>5. Typed'
  BY <1>1, <1>4 DEF IInv, Typed, webhookVars
<1>6. PollIsKnown' /\ QuietIsOver'
  BY <1>1, <1>2 DEF PollIsKnown, QuietIsOver
<1>7. QuietStopIsFinal'
  BY <1>1, <1>3 DEF QuietStopIsFinal
<1>8. AckedReachesAll'
  BY <1>1 DEF IInv, AckedReachesAll, webhookVars
<1> QED
  BY <1>5, <1>6, <1>7, <1>8 DEF IInv

(***************************************************************************)
(* After a quiet stop no poll is under way that could end.                 *)
(***************************************************************************)
LEMMA EndPollStep ==
  ASSUME IInv, NEW i \in Polls, EndPoll(i)
  PROVE  IInv'
<1>1. polls[i] # "idle" /\ UNCHANGED <<webhookVars, stopped, quiet>>
  BY DEF EndPoll, PollSucceeds, PollFails
<1>2. ~quiet
  BY <1>1 DEF IInv, QuietIsOver
<1>3. CASE Proceed(at + 1)
  <2>1. /\ ingestors \subseteq ingestors' /\ ingestors' \subseteq Ingestors \ Disabled
        /\ at' \in Nat
        /\ at + 1 = 1 => Poll \in ingestors'
    BY <1>3, ProceedEffect DEF IInv, Typed
  <2>2. PollIsKnown'
    BY <1>1, <2>1 DEF IInv, Typed, PollIsKnown
  <2> QED
    BY <1>1, <1>2, <2>1, <2>2
    DEF IInv, Typed, QuietIsOver, QuietStopIsFinal, AckedReachesAll, webhookVars
<1>4. CASE UNCHANGED managerVars
  BY <1>1, <1>2, <1>4
  DEF IInv, Typed, PollIsKnown, QuietIsOver, QuietStopIsFinal, AckedReachesAll,
      webhookVars, managerVars
<1> QED
  BY <1>3, <1>4 DEF EndPoll

LEMMA BetweenPollsStep ==
  ASSUME IInv, BetweenPolls
  PROVE  IInv'
<1>1. UNCHANGED <<ingestors, at, webhookVars, stopped, quiet>> /\ UNCHANGED <<pollState, pollTimer>>
  BY DEF BetweenPolls, NewItem, OnInterval, Answered, managerVars
<1>2. quiet => UNCHANGED polls
  BY DEF BetweenPolls, NewItem, OnInterval, Answered, IInv, QuietIsOver, QuietStopIsFinal
<1> QED
  BY <1>1, <1>2
  DEF IInv, Typed, PollIsKnown, QuietIsOver, QuietStopIsFinal, AckedReachesAll, webhookVars

LEMMA SendEventStep ==
  ASSUME IInv, SendEvent
  PROVE  IInv'
BY DEF SendEvent, pollVars, managerVars, IInv, Typed, PollIsKnown, QuietIsOver,
       QuietStopIsFinal, AckedReachesAll

(***************************************************************************)
(* A delivery: whoever accepts it, all who verify it have it.              *)
(***************************************************************************)
LEMMA DeliverEffect ==
  ASSUME IInv, NEW event \in Events, NEW age, NEW lost, Deliver(event, age, lost)
  PROVE  /\ buffers' \in [Webhooks -> [Events -> Nat]]
         /\ \A w \in Webhooks, e \in Events : buffers'[w][e] >= buffers[w][e]
         /\ \A w \in ingestors \cap Webhooks :
              VerifySignature(w, Request(event, age)) => buffers'[w][event] > 0
<1> DEFINE r == Request(event, age)
           new == [w \in Webhooks |-> IF w \in GetWebhookIngestors
                                        THEN HandleWebhook(w, buffers[w], r) ELSE buffers[w]]
<1>1. buffers' = new
  BY DEF Deliver, PostWebhook
<1>2. \A w \in Webhooks : buffers[w] \in [Events -> Nat]
  BY DEF IInv, Typed
<1>3. \A w \in Webhooks :
        /\ HandleWebhook(w, buffers[w], r) \in [Events -> Nat]
        /\ \A e \in Events : HandleWebhook(w, buffers[w], r)[e] >= buffers[w][e]
        /\ VerifySignature(w, r) => HandleWebhook(w, buffers[w], r)[event] > 0
  BY <1>2, HandleWebhookEffect
<1> HIDE DEF r
<1>4. \A w \in Webhooks :
        buffers'[w] = IF w \in ingestors THEN HandleWebhook(w, buffers[w], r) ELSE buffers[w]
  BY <1>1 DEF GetWebhookIngestors
<1>5. \A w \in Webhooks : buffers'[w] \in [Events -> Nat]
  BY <1>2, <1>3, <1>4
<1>6. buffers' \in [Webhooks -> [Events -> Nat]]
  BY <1>1, <1>5
<1>7. \A w \in Webhooks, e \in Events : buffers'[w][e] >= buffers[w][e]
  BY <1>2, <1>3, <1>4
<1>8. \A w \in ingestors \cap Webhooks : VerifySignature(w, r) => buffers'[w][event] > 0
  BY <1>3, <1>4
<1> QED
  BY <1>6, <1>7, <1>8 DEF r

LEMMA DeliverStep ==
  ASSUME IInv, NEW event \in Events, NEW age, NEW lost, Deliver(event, age, lost)
  PROVE  IInv'
<1>1. /\ buffers' \in [Webhooks -> [Events -> Nat]]
      /\ \A w \in Webhooks, e \in Events : buffers'[w][e] >= buffers[w][e]
      /\ \A w \in ingestors \cap Webhooks :
           VerifySignature(w, Request(event, age)) => buffers'[w][event] > 0
  BY DeliverEffect
<1>2. UNCHANGED <<pollVars, ingestors, at, sent, stopped, quiet>>
  BY DEF Deliver, managerVars
<1>3. \/ UNCHANGED <<acked, absent>>
      \/ /\ \E w \in ingestors \cap Webhooks : VerifySignature(w, Request(event, age))
         /\ acked' = acked \cup {event}
         /\ absent' = [absent EXCEPT ![event] = Webhooks \ ingestors]
  <2>1. Request(event, age).event = event
    BY DEF Request
  <2> QED
    BY <2>1 DEF Deliver, PostWebhook, GetWebhookIngestors
<1>4. Typed'
  BY <1>1, <1>2, <1>3 DEF IInv, Typed
<1>5. PollIsKnown' /\ QuietIsOver' /\ QuietStopIsFinal'
  BY <1>2 DEF IInv, PollIsKnown, QuietIsOver, QuietStopIsFinal, pollVars
<1>6. AckedReachesAll'
  <2> SUFFICES ASSUME AllVerify, NEW e \in acked', NEW w \in Webhooks \ absent'[e],
                      VerifySignature(w, Request(e, 0))
               PROVE  buffers'[w][e] > 0
    BY DEF AckedReachesAll
  <2>1. e \in Events /\ buffers[w][e] \in Nat /\ buffers'[w][e] \in Nat
    BY <1>1, <1>4 DEF IInv, Typed
  <2>2. CASE e \in acked /\ absent'[e] = absent[e]
    BY <1>1, <2>1, <2>2 DEF IInv, AckedReachesAll
  <2>3. CASE /\ e = event /\ absent'[e] = Webhooks \ ingestors
             /\ \E v \in ingestors \cap Webhooks : VerifySignature(v, Request(event, age))
    <3>1. PICK v \in ingestors \cap Webhooks : VerifySignature(v, Request(event, age))
      BY <2>3
    <3>2. w \in ingestors \cap Webhooks
      BY <2>3
    <3>3. signatureSecret[v] # Unsigned /\ signatureSecret[w] # Unsigned
      BY <3>1, <3>2 DEF AllVerify, IInv, Typed
    <3>4. VerifySignature(w, Request(event, age))
      BY <2>3, <3>1, <3>2, <3>3, SameJudgement
    <3> QED
      BY <1>1, <2>3, <3>2, <3>4
  <2>4. \/ e \in acked /\ absent'[e] = absent[e]
        \/ e = event /\ absent'[e] = Webhooks \ ingestors
    BY <1>3, <2>1 DEF IInv, Typed
  <2>5. event \notin acked
    BY DEF Deliver
  <2> QED
    BY <1>3, <2>2, <2>3, <2>4, <2>5
<1> QED
  BY <1>4, <1>5, <1>6 DEF IInv

LEMMA NextIInv ==
  ASSUME IInv, [Next]_vars
  PROVE  IInv'
<1>1. CASE UNCHANGED vars
  BY <1>1 DEF vars, pollVars, managerVars, webhookVars, IInv, Typed, PollIsKnown,
              QuietIsOver, QuietStopIsFinal, AckedReachesAll
<1>2. CASE Next
  BY <1>2, StartAllStep, StopAllStep, BetweenPollsStep, SendEventStep, EndPollStep,
     DeliverStep
  DEF Next
<1> QED
  BY <1>1, <1>2

(***************************************************************************)
(* The strengthened invariant holds in every reachable state.              *)
(***************************************************************************)
THEOREM Invariance == Spec => []IInv
BY InitIInv, NextIInv, PTL DEF Spec

-----------------------------------------------------------------------------
(***************************************************************************)
(* A webhook that was answered 200 has reached every ingestor in the map   *)
(* that verifies it, if all in use have secrets.                           *)
(***************************************************************************)
THEOREM AckReachesAll == Spec => []AckedReachesAll
<1>1. IInv => AckedReachesAll
  BY DEF IInv
<1> QED
  BY <1>1, Invariance, PTL

(***************************************************************************)
(* stopAll() after startAll() and between polls is final.                  *)
(***************************************************************************)
THEOREM QuietStop == Spec => []QuietStopIsFinal
<1>1. IInv => QuietStopIsFinal
  BY DEF IInv
<1> QED
  BY <1>1, Invariance, PTL

(***************************************************************************)
(* The observed ingestor implements at-most-once delivery: the service's   *)
(* next event is a Send, a delivery it buffers a Deliver, and a repetition *)
(* a stutter, since the ingestor has a secret and so finds the key.        *)
(***************************************************************************)
LEMMA DeliverImplements ==
  ASSUME IInv, NEW event \in Events, NEW age, NEW lost, Deliver(event, age, lost)
  PROVE  Buffer!Deliver(event) \/ UNCHANGED <<sent, buffers[Observed]>>
<1> DEFINE r == Request(event, age)
           buffer == buffers[Observed]
<1>1. /\ Observed \in Webhooks /\ signatureSecret[Observed] # Unsigned
      /\ buffer \in [Events -> Nat]
  BY ObservedAssumption DEF IInv, Typed
<1>2. event <= sent /\ UNCHANGED sent /\ r.event = event
  BY DEF Deliver, Request
<1>3. \/ buffers'[Observed] = HandleWebhook(Observed, buffer, r)
      \/ buffers'[Observed] = buffer
  BY <1>1 DEF Deliver, PostWebhook
<1>4. CASE buffers'[Observed] = buffer
  BY <1>2, <1>4
<1>5. CASE /\ VerifySignature(Observed, r)
           /\ buffers'[Observed] = Buffered(Observed, buffer, r)
  <2>1. HasKey(Observed, r)
    BY <1>1, <1>5, VerifiedHasKey
  <2>2. CASE buffer[event] > 0
    BY <1>2, <1>5, <2>1, <2>2 DEF Buffered
  <2>3. CASE ~(buffer[event] > 0)
    <3>1. buffer[event] = 0
      BY <1>1, <2>3
    <3>2. buffers'[Observed] = [buffer EXCEPT ![event] = 1]
      BY <1>1, <1>2, <1>5, <2>3, <3>1 DEF Buffered
    <3> QED
      BY <1>2, <3>1, <3>2 DEF Buffer!Deliver
  <2> QED
    BY <2>2, <2>3
<1> QED
  BY <1>3, <1>4, <1>5 DEF HandleWebhook

THEOREM WebhooksAreBufferedOnce == Spec => WebhookIsBufferedOnce
<1>1. Init => Buffer!Init
  BY ObservedAssumption DEF Init, Buffer!Init
<1>2. ASSUME IInv, [Next]_vars
      PROVE  [Buffer!Next]_<<sent, buffers[Observed]>>
  <2>1. CASE SendEvent
    BY <2>1 DEF SendEvent, Buffer!Next, Buffer!Send
  <2>2. ASSUME NEW event \in Events, NEW age, NEW lost, Deliver(event, age, lost)
        PROVE  [Buffer!Next]_<<sent, buffers[Observed]>>
    BY <1>2, <2>2, DeliverImplements DEF Buffer!Next
  <2>3. CASE StartAll \/ StopAll \/ BetweenPolls \/ (\E i \in Polls : EndPoll(i))
    BY <2>3 DEF StartAll, StopAll, BetweenPolls, EndPoll, webhookVars
  <2>4. CASE UNCHANGED vars
    BY <2>4 DEF vars, webhookVars
  <2> QED
    BY <1>2, <2>1, <2>2, <2>3, <2>4 DEF Next
<1> QED
  BY <1>1, <1>2, Invariance, PTL DEF Spec, WebhookIsBufferedOnce, Buffer!Spec

-----------------------------------------------------------------------------
(***************************************************************************)
(* The poll ingestor.  First the loop of poll(): its recursion is          *)
(* defined, so that what every item preserves holds of the whole.          *)
(***************************************************************************)
LEMMA Least ==
  ASSUME NEW T \in SUBSET Nat, T # {}
  PROVE  \E n \in T : \A m \in T : n <= m
<1>1. PICK n \in T : \A m \in T : <<m, n>> \notin OpToRel(<, Nat)
  BY NatLessThanWellFounded, WFMin, Zenon
<1>2. \A m \in T : ~(m < n)
  BY <1>1, Zenon DEF OpToRel
<1> QED
  BY <1>2

Memory == [ids |-> seenIds, pushed |-> pushed, repeated |-> repeated]

PushStep(response, g, k) == IF k = 0 THEN Memory ELSE ShouldPush(g[k - 1], response[k])

PushUpTo(response, m) == CHOOSE g : g = [k \in 0 .. m |-> PushStep(response, g, k)]

LEMMA PushExists ==
  ASSUME NEW response, NEW m \in Nat
  PROVE  \E g : g = [k \in 0 .. m |-> PushStep(response, g, k)]
<1> DEFINE Exists(n) == \E g : g = [k \in 0 .. n |-> PushStep(response, g, k)]
           Failing == {n \in Nat : ~Exists(n)}
<1> SUFFICES ASSUME Failing # {} PROVE FALSE
  OBVIOUS
<1>1. PICK n \in Failing : \A j \in Failing : n <= j
  <2> HIDE DEF Exists
  <2> QED
    BY Least
<1>2. n # 0
  <2> DEFINE g == [k \in 0 .. 0 |-> Memory]
  <2>1. g = [k \in 0 .. 0 |-> PushStep(response, g, k)]
    BY DEF PushStep
  <2>2. Exists(0)
    <3> HIDE DEF g
    <3> QED
      BY <2>1
  <2> QED
    BY <2>2
<1>3. Exists(n - 1)
  <2> HIDE DEF Exists
  <2> QED
    BY <1>1, <1>2
<1>4. PICK g : g = [k \in 0 .. n - 1 |-> PushStep(response, g, k)]
  BY <1>3
<1> DEFINE h == [k \in 0 .. n |-> IF k = n THEN PushStep(response, g, n) ELSE g[k]]
<1>5. ASSUME NEW k \in 0 .. n
      PROVE  h[k] = PushStep(response, h, k)
  <2>1. CASE k = 0
    BY <1>1, <1>2, <1>4, <2>1 DEF PushStep
  <2>2. CASE k # 0 /\ k # n
    <3>1. g[k] = PushStep(response, g, k)
      BY <1>4, <2>2
    <3>2. h[k - 1] = g[k - 1] /\ h[k] = g[k]
      BY <2>2
    <3> HIDE DEF h
    <3> QED
      BY <3>1, <3>2, <2>2 DEF PushStep
  <2>3. CASE k = n
    <3>1. h[k - 1] = g[k - 1] /\ h[k] = PushStep(response, g, k)
      BY <1>1, <1>2, <2>3
    <3> HIDE DEF h
    <3> QED
      BY <1>2, <3>1, <2>3 DEF PushStep
  <2> QED
    BY <2>1, <2>2, <2>3
<1>6. h = [k \in 0 .. n |-> PushStep(response, h, k)]
  <2> SUFFICES ASSUME NEW k \in 0 .. n PROVE h[k] = PushStep(response, h, k)
    OBVIOUS
  <2> QED
    BY <1>5
<1>7. Exists(n)
  <2> HIDE DEF h
  <2> QED
    BY <1>6
<1> QED
  BY <1>1, <1>7

(***************************************************************************)
(* A set that no item leads out of holds the outcome of the loop.          *)
(***************************************************************************)
LEMMA PushItemsStays ==
  ASSUME NEW G, NEW response, Len(response) \in Nat, Memory \in G,
         \A d \in G, k \in 1 .. Len(response) : ShouldPush(d, response[k]) \in G
  PROVE  PushItems(response) \in G
<1> DEFINE n == Len(response)
           g == PushUpTo(response, n)
           Failing == {k \in 0 .. n : g[k] \notin G}
<1>1. g = [k \in 0 .. n |-> PushStep(response, g, k)]
  BY PushExists DEF PushUpTo
<1>2. PushItems(response) = g[n]
  BY DEF PushItems, PushUpTo, PushStep, Memory
<1> HIDE DEF g
<1>3. \A k \in 0 .. n : g[k] = PushStep(response, g, k)
  BY <1>1
<1>4. Failing = {}
  <2> SUFFICES ASSUME Failing # {} PROVE FALSE
    OBVIOUS
  <2>1. Failing \in SUBSET Nat
    OBVIOUS
  <2>2. PICK k \in Failing : \A j \in Failing : k <= j
    BY <2>1, Least
  <2>3. k # 0
    BY <1>3, <2>2 DEF PushStep
  <2>4. k - 1 \in 0 .. n /\ k - 1 \notin Failing
    BY <2>2, <2>3
  <2>5. g[k - 1] \in G /\ g[k] = ShouldPush(g[k - 1], response[k])
    BY <1>3, <2>2, <2>3, <2>4 DEF PushStep
  <2> QED
    BY <2>2, <2>3, <2>5
<1> QED
  BY <1>2, <1>4

(***************************************************************************)
(* What the loop leads from and to when the feed's newest item is n.       *)
(***************************************************************************)
Memories(n) ==
  {d \in [ids : Seq(1 .. n), pushed : SUBSET (1 .. n), repeated : SUBSET (1 .. n)] :
     Len(d.ids) <= MAX_SEEN_IDS /\ d.repeated \subseteq d.pushed}

LEMMA PageBounds == PageSize \in Nat \ {0} /\ MAX_SEEN_IDS \in Nat \ {0}
BY SeenAssumption

(***************************************************************************)
(* What pruneSeenIds leaves of the ids after one was added: the latest.    *)
(***************************************************************************)
Dropped(ids) == IF Len(ids) > MAX_SEEN_IDS THEN Len(ids) \div 2 ELSE 0

LEMMA PruneGives ==
  ASSUME NEW T, NEW ids \in Seq(T), Len(ids) <= MAX_SEEN_IDS + 1
  PROVE  /\ PruneSeenIds(ids) \in Seq(T)
         /\ Dropped(ids) \in 0 .. Len(ids)
         /\ Len(PruneSeenIds(ids)) = Len(ids) - Dropped(ids)
         /\ Len(PruneSeenIds(ids)) <= MAX_SEEN_IDS
         /\ \A k \in 1 .. Len(PruneSeenIds(ids)) : PruneSeenIds(ids)[k] = ids[k + Dropped(ids)]
         /\ Dropped(ids) # 0 => Len(ids) - Dropped(ids) >= 2 * PageSize - 1
<1>1. Len(ids) \in Nat /\ MAX_SEEN_IDS \in Nat \ {0} /\ PageSize \in Nat \ {0}
  BY PageBounds
<1>2. CASE Len(ids) > MAX_SEEN_IDS
  <2> DEFINE h == Len(ids) \div 2
             q == MAX_SEEN_IDS \div 2 + 1
  <2>1. Len(ids) = MAX_SEEN_IDS + 1
    BY <1>1, <1>2
  <2>2. q \in Nat /\ h \in 1 .. MAX_SEEN_IDS /\ Len(ids) - h = q
    BY <1>1, <2>1
  <2>3. Dropped(ids) = h /\ PruneSeenIds(ids) = SubSeq(ids, h + 1, Len(ids))
    BY <1>2 DEF Dropped, PruneSeenIds
  <2>4. 2 * PageSize - 1 <= q
    BY SeenAssumption DEF q
  <2> HIDE DEF h, q
  <2>5. /\ PruneSeenIds(ids) \in Seq(T)
        /\ Len(PruneSeenIds(ids)) = Len(ids) - h
        /\ \A k \in 1 .. Len(ids) - h : PruneSeenIds(ids)[k] = ids[k + h]
    <3> DEFINE kept == SubSeq(ids, h + 1, Len(ids))
               left == Len(ids) - h
    <3>1. /\ h + 1 \in Int /\ h + 1 <= Len(ids) /\ left \in Nat
          /\ \A k \in 1 .. left : h + 1 + k - 1 = k + h
          /\ Len(ids) - (h + 1) + 1 = left
      BY <1>1, <2>1, <2>2
    <3>2. \A k \in h + 1 .. Len(ids) : ids[k] \in T
      BY <1>1, <2>2
    <3>3. /\ kept \in Seq(T)
          /\ Len(kept) = left
          /\ \A k \in 1 .. left : kept[k] = ids[h + 1 + k - 1]
      <4> HIDE DEF left
      <4> QED
        BY <1>1, <3>1, <3>2, SubSeqProperties
    <3> HIDE DEF kept, left
    <3>4. \A k \in 1 .. left : kept[k] = ids[k + h]
      BY <3>1, <3>3
    <3> QED
      BY <2>3, <3>3, <3>4 DEF kept, left
  <2>6. Dropped(ids) \in 0 .. Len(ids) /\ Len(ids) - h <= MAX_SEEN_IDS
    BY <1>1, <2>1, <2>2, <2>3
  <2>7. Len(ids) - Dropped(ids) >= 2 * PageSize - 1
    BY <1>1, <2>2, <2>3, <2>4
  <2> QED
    BY <2>3, <2>5, <2>6, <2>7
<1>3. CASE ~(Len(ids) > MAX_SEEN_IDS)
  BY <1>1, <1>3 DEF Dropped, PruneSeenIds
<1> QED
  BY <1>2, <1>3

LEMMA ItemStaysTyped ==
  ASSUME NEW n \in Nat, NEW d \in Memories(n), NEW item \in 1 .. n
  PROVE  ShouldPush(d, item) \in Memories(n)
<1> DEFINE added == Append(d.ids, item)
           pruned == PruneSeenIds(added)
<1>1. /\ d \in [ids : Seq(1 .. n), pushed : SUBSET (1 .. n), repeated : SUBSET (1 .. n)]
      /\ Len(d.ids) <= MAX_SEEN_IDS /\ d.repeated \subseteq d.pushed
  BY DEF Memories
<1>2. added \in Seq(1 .. n) /\ Len(added) = Len(d.ids) + 1 /\ Len(d.ids) \in Nat
  BY <1>1
<1>3. Len(added) <= MAX_SEEN_IDS + 1
  BY <1>1, <1>2, PageBounds
<1>4. pruned \in Seq(1 .. n) /\ Len(pruned) <= MAX_SEEN_IDS
  BY <1>2, <1>3, PruneGives
<1> HIDE DEF pruned
<1>5. ShouldPush(d, item) = IF item \in Range(d.ids) THEN d
        ELSE [ids |-> pruned, pushed |-> d.pushed \cup {item},
              repeated |-> d.repeated \cup (d.pushed \cap {item})]
  BY DEF ShouldPush, pruned
<1> QED
  BY <1>1, <1>4, <1>5 DEF Memories

(***************************************************************************)
(* As long as every response shows items as new as the ones before it: an  *)
(* id that was added later is of an item at most a page older, and what is *)
(* forgotten is no longer shown.  So no item is pushed again.              *)
(***************************************************************************)
InOrder(ids) ==
  \A j, k \in 1 .. Len(ids) : j < k => ids[j] # ids[k] /\ ids[k] + PageSize > ids[j]

Remembers(d, n) ==
  /\ \A k \in 1 .. Len(d.ids) : d.ids[k] \in d.pushed
  /\ InOrder(d.ids)
  /\ \A b \in d.pushed : b + PageSize <= n \/ \E k \in 1 .. Len(d.ids) : d.ids[k] = b
  /\ d.repeated = {}

SoundMemories(n) == {d \in Memories(n) : Remembers(d, n)}

(***************************************************************************)
(* More ids were added after an item than the feed can have shown together *)
(* with it: the item is shown no longer.                                   *)
(***************************************************************************)
LEMMA TooManyAfter ==
  ASSUME NEW n \in Nat, NEW ids \in Seq(1 .. n), InOrder(ids),
         NEW j \in 1 .. Len(ids), Len(ids) - j >= 2 * PageSize - 1
  PROVE  ids[j] + PageSize <= n
<1> SUFFICES ASSUME ~(ids[j] + PageSize <= n) PROVE FALSE
  OBVIOUS
<1> DEFINE b == ids[j]
           S == j + 1 .. Len(ids)
           T == (b - PageSize + 1 .. b + PageSize - 1) \ {b}
           f == [k \in S |-> ids[k]]
<1>1. Len(ids) \in Nat /\ PageSize \in Nat \ {0} /\ b \in 1 .. n
  BY PageBounds
<1>2. \A k \in S : ids[k] \in T
  <2> TAKE k \in S
  <2>1. ids[k] \in 1 .. n /\ b # ids[k] /\ ids[k] + PageSize > b
    <3>1. k \in 1 .. Len(ids) /\ j < k
      BY <1>1
    <3> QED
      BY <3>1 DEF InOrder
  <2> DEFINE c == ids[k]
  <2>2. c \in 1 .. n /\ b # c /\ c + PageSize > b
    BY <2>1
  <2> HIDE DEF b, c
  <2>3. b \in Int /\ c \in Int /\ PageSize \in Int /\ c <= n /\ ~(b + PageSize <= n) /\ n \in Int
    BY <1>1, <2>2 DEF b
  <2>4. c \in b - PageSize + 1 .. b + PageSize - 1
    BY <2>2, <2>3
  <2> QED
    BY <2>2, <2>4 DEF c
<1>3. IsFiniteSet(S) /\ Cardinality(S) = Len(ids) - j
  BY <1>1, FS_Interval
<1>4. IsFiniteSet(T) /\ Cardinality(T) = 2 * PageSize - 2
  <2> DEFINE U == b - PageSize + 1 .. b + PageSize - 1
  <2>1. IsFiniteSet(U) /\ Cardinality(U) = 2 * PageSize - 1 /\ b \in U
    <3>1. b - PageSize + 1 \in Int /\ b + PageSize - 1 \in Int
      <4>1. b \in Int /\ PageSize \in Int
        BY <1>1
      <4> HIDE DEF b
      <4> QED
        BY <4>1
    <3>2. IsFiniteSet(U) /\ Cardinality(U) = IF b - PageSize + 1 > b + PageSize - 1 THEN 0
            ELSE (b + PageSize - 1) - (b - PageSize + 1) + 1
      BY <3>1, FS_Interval
    <3> HIDE DEF b
    <3> QED
      BY <1>1, <3>2
  <2>2. T = U \ {b}
    OBVIOUS
  <2> HIDE DEF U, T
  <2>3. IsFiniteSet(T) /\ Cardinality(T) = Cardinality(U) - 1
    BY <2>1, <2>2, FS_RemoveElement
  <2> QED
    BY <1>1, <2>1, <2>3
<1>5. f \in [S -> T]
  BY <1>2
<1>6. \E x, y \in S : x # y /\ f[x] = f[y]
  <2>1. Cardinality(T) < Cardinality(S)
    BY <1>1, <1>3, <1>4
  <2> HIDE DEF S, T, f
  <2> QED
    BY <1>3, <1>4, <1>5, <2>1, FS_PigeonHole
<1>7. PICK x, y \in S : x # y /\ ids[x] = ids[y]
  BY <1>6
<1>8. x < y \/ y < x
  BY <1>1, <1>7
<1> QED
  BY <1>1, <1>7, <1>8 DEF InOrder

LEMMA ItemStaysSound ==
  ASSUME NEW n \in Nat, NEW d \in SoundMemories(n), NEW item \in Oldest(n) .. n
  PROVE  ShouldPush(d, item) \in SoundMemories(n)
<1> DEFINE added == Append(d.ids, item)
           pruned == PruneSeenIds(added)
           gone == Dropped(added)
           pushedNow == d.pushed \cup {item}
<1>1. PageSize \in Nat \ {0}
  BY PageBounds
<1>2. item \in 1 .. n /\ item + PageSize > n
  BY <1>1 DEF Oldest
<1>3. /\ d \in Memories(n) /\ Remembers(d, n)
      /\ d.ids \in Seq(1 .. n) /\ d.pushed \subseteq 1 .. n
      /\ Len(d.ids) <= MAX_SEEN_IDS
  BY DEF SoundMemories, Memories
<1>4. ShouldPush(d, item) \in Memories(n)
  BY <1>2, <1>3, ItemStaysTyped
<1>5. CASE item \in Range(d.ids)
  BY <1>5 DEF ShouldPush
<1>6. CASE item \notin Range(d.ids)
  <2>1. \A k \in 1 .. Len(d.ids) : d.ids[k] # item
    BY <1>3, <1>6 DEF Range
  <2>2. item \notin d.pushed
    BY <1>2, <1>3, <2>1, <1>1 DEF Remembers
  <2>3. /\ Len(d.ids) \in Nat
        /\ added \in Seq(1 .. n) /\ Len(added) = Len(d.ids) + 1
        /\ \A k \in 1 .. Len(d.ids) : added[k] = d.ids[k]
        /\ added[Len(d.ids) + 1] = item
    BY <1>2, <1>3
  <2> HIDE DEF added
  <2>4. InOrder(added)
    <3> SUFFICES ASSUME NEW j \in 1 .. Len(added), NEW k \in 1 .. Len(added), j < k
                 PROVE  added[j] # added[k] /\ added[k] + PageSize > added[j]
      BY DEF InOrder
    <3>1. j \in 1 .. Len(d.ids)
      BY <2>3
    <3>2. added[j] = d.ids[j] /\ d.ids[j] \in 1 .. n
      <4>1. added[j] = d.ids[j]
        BY <2>3, <3>1
      <4>2. d.ids[j] \in 1 .. n
        BY <1>3, <3>1
      <4> QED
        BY <4>1, <4>2
    <3>3. CASE k \in 1 .. Len(d.ids)
      BY <1>3, <2>3, <3>1, <3>3 DEF Remembers, InOrder
    <3>4. CASE k = Len(d.ids) + 1
      <4>1. added[k] = item /\ d.ids[j] # item
        BY <2>1, <2>3, <3>1, <3>4
      <4> DEFINE c == d.ids[j]
      <4> HIDE DEF c
      <4>2. c \in 1 .. n => item + PageSize > c
        BY <1>1, <1>2
      <4> QED
        BY <3>2, <4>1, <4>2 DEF c
    <3>5. k \in 1 .. Len(d.ids) \/ k = Len(d.ids) + 1
      BY <2>3
    <3> QED
      BY <3>3, <3>4, <3>5
  <2>5. /\ pruned \in Seq(1 .. n)
        /\ gone \in 0 .. Len(added)
        /\ Len(pruned) = Len(added) - gone
        /\ \A k \in 1 .. Len(pruned) : pruned[k] = added[k + gone]
        /\ gone # 0 => Len(added) - gone >= 2 * PageSize - 1
    <3>1. Len(added) <= MAX_SEEN_IDS + 1
      BY <1>3, <2>3, PageBounds
    <3> QED
      BY <2>3, <3>1, PruneGives
  <2> HIDE DEF pruned, gone
  <2>6. \A k \in 1 .. Len(added) : added[k] \in pushedNow
    <3> TAKE k \in 1 .. Len(added)
    <3>1. k \in 1 .. Len(d.ids) \/ k = Len(d.ids) + 1
      BY <2>3
    <3>2. ASSUME NEW i \in 1 .. Len(d.ids) PROVE added[i] \in d.pushed
      BY <1>3, <2>3 DEF Remembers
    <3> QED
      BY <2>3, <3>1, <3>2
  <2>7. \A k \in 1 .. Len(pruned) : k + gone \in 1 .. Len(added)
    <3> DEFINE all == Len(added)
               left == Len(pruned)
    <3>1. all \in Nat /\ gone \in 0 .. all /\ left = all - gone
      BY <2>3, <2>5
    <3> HIDE DEF all, left
    <3>2. \A k \in 1 .. left : k + gone \in 1 .. all
      BY <3>1
    <3> QED
      BY <3>2 DEF all, left
  <2>8. \A k \in 1 .. Len(pruned) : pruned[k] \in pushedNow
    BY <2>5, <2>6, <2>7
  <2>9. InOrder(pruned)
    <3> SUFFICES ASSUME NEW j \in 1 .. Len(pruned), NEW k \in 1 .. Len(pruned), j < k
                 PROVE  pruned[j] # pruned[k] /\ pruned[k] + PageSize > pruned[j]
      BY DEF InOrder
    <3>1. j + gone < k + gone
      BY <2>3, <2>5
    <3>2. j + gone \in 1 .. Len(added) /\ k + gone \in 1 .. Len(added)
      BY <2>7
    <3>3. /\ added[j + gone] # added[k + gone]
          /\ added[k + gone] + PageSize > added[j + gone]
      BY <2>4, <3>1, <3>2 DEF InOrder
    <3> QED
      BY <2>5, <3>3
  <2>10. \A b \in pushedNow : b + PageSize <= n \/ \E k \in 1 .. Len(pruned) : pruned[k] = b
    <3> SUFFICES ASSUME NEW b \in pushedNow, ~(b + PageSize <= n)
                 PROVE  \E k \in 1 .. Len(pruned) : pruned[k] = b
      OBVIOUS
    <3>1. PICK j \in 1 .. Len(added) : added[j] = b
      <4>1. CASE b = item
        BY <2>3, <4>1
      <4>2. CASE b \in d.pushed
        <5>1. PICK k \in 1 .. Len(d.ids) : d.ids[k] = b
          BY <1>3, <4>2 DEF Remembers
        <5>2. k \in 1 .. Len(added)
          BY <2>3
        <5>3. added[k] = b
          BY <2>3, <5>1
        <5> QED
          BY <5>2, <5>3
      <4> QED
        BY <4>1, <4>2
    <3>2. CASE j > gone
      <4>1. j - gone \in 1 .. Len(pruned) /\ pruned[j - gone] = added[j]
        BY <2>3, <2>5, <3>2
      <4> QED
        BY <3>1, <4>1
    <3>3. CASE ~(j > gone)
      <4>1. gone # 0 /\ Len(added) - j >= 2 * PageSize - 1
        <5> DEFINE all == Len(added)
                   p == 2 * PageSize - 1
        <5>1. all \in Nat /\ p \in Int /\ j \in 1 .. all
          BY <2>3, PageBounds
        <5>2. gone \in 0 .. all /\ (gone # 0 => all - gone >= p)
          BY <2>5
        <5> HIDE DEF all, p
        <5>3. gone # 0 /\ all - j >= p
          BY <3>3, <5>1, <5>2
        <5> QED
          BY <5>3 DEF all, p
      <4> QED
        BY <2>3, <2>4, <3>1, <4>1, TooManyAfter
    <3> QED
      BY <3>2, <3>3
  <2>11. ShouldPush(d, item) = [ids |-> pruned, pushed |-> pushedNow,
                                repeated |-> d.repeated \cup (d.pushed \cap {item})]
    BY <1>6 DEF ShouldPush, pruned, added
  <2>12. d.repeated \cup (d.pushed \cap {item}) = {}
    BY <1>3, <2>2 DEF Remembers
  <2> HIDE DEF pushedNow
  <2> QED
    BY <1>4, <2>8, <2>9, <2>10, <2>11, <2>12 DEF SoundMemories, Remembers
<1> QED
  BY <1>3, <1>5, <1>6

LEMMA ResponseItems ==
  ASSUME NEW n \in Nat, NEW response \in Responses(n)
  PROVE  /\ Len(response) \in Nat
         /\ \A k \in 1 .. Len(response) : response[k] \in Oldest(n) .. n
<1> DEFINE m == n - Oldest(n) + 1
           page == [k \in 1 .. m |-> Oldest(n) + k - 1]
<1>1. Oldest(n) \in 1 .. n + 1 /\ m \in Nat
  BY PageBounds DEF Oldest
<1> HIDE DEF m
<1>2. page \in [1 .. m -> Oldest(n) .. n]
  <2> SUFFICES ASSUME NEW k \in 1 .. m PROVE Oldest(n) + k - 1 \in Oldest(n) .. n
    OBVIOUS
  <2> QED
    BY <1>1 DEF m
<1>3. page \in Seq(Oldest(n) .. n) /\ Len(page) = m
  BY <1>1, <1>2
<1> HIDE DEF page
<1>4. CASE response = page
  BY <1>1, <1>3, <1>4
<1>5. CASE response = Reverse(page)
  BY <1>1, <1>3, <1>5 DEF Reverse
<1> QED
  BY <1>4, <1>5 DEF Responses, page, m

-----------------------------------------------------------------------------
(***************************************************************************)
(* The invariant of the poll ingestor.  A poll under way adds at most one  *)
(* error, and the interval starts none after the last.                     *)
(***************************************************************************)
UnderWay == {i \in Polls : polls[i] # "idle"}

ErrorsCounted ==
  /\ consecutiveErrors \in Nat
  /\ consecutiveErrors + Cardinality(UnderWay) <= MAX_CONSECUTIVE_ERRORS + MaxPolls
  /\ pollTimer => consecutiveErrors < MAX_CONSECUTIVE_ERRORS

NotBegun ==
  at = 0 => /\ pollState = "stopped" /\ ~pollTimer /\ ~starting
            /\ consecutiveErrors = 0 /\ UnderWay = {}

(***************************************************************************)
(* Polls that never overlapped: one at most is under way, the first one    *)
(* while start() waits, and any other only while the interval runs.        *)
(***************************************************************************)
Lone ==
  /\ \A i, j \in UnderWay : i = j
  /\ starting => 1 \in UnderWay
  /\ \A i \in UnderWay : ~stopped => pollTimer \/ EndsStart(i)
  /\ PollStateIsTrue

(***************************************************************************)
(* What is remembered fits every response that is or will be worked on.    *)
(***************************************************************************)
Recalls ==
  /\ Memory \in SoundMemories(feed)
  /\ \A i \in Polls : polls[i] = "answered" => Memory \in SoundMemories(pages[i])

PollInv ==
  /\ PollTypeOK
  /\ ErrorsCounted
  /\ NotBegun
  /\ ~overlapped => Lone /\ Recalls

LEMMA UnderWayCounted ==
  ASSUME PollTypeOK
  PROVE  /\ UnderWay \subseteq Polls /\ IsFiniteSet(UnderWay)
         /\ Cardinality(UnderWay) \in 0 .. MaxPolls
<1>1. MaxPolls \in Nat \ {0}
  BY PollBoundsAssumption
<1>2. IsFiniteSet(Polls) /\ Cardinality(Polls) = MaxPolls
  <2>1. IsFiniteSet(1 .. MaxPolls)
        /\ Cardinality(1 .. MaxPolls) = IF 1 > MaxPolls THEN 0 ELSE MaxPolls - 1 + 1
    BY <1>1, FS_Interval
  <2> QED
    BY <1>1, <2>1 DEF Polls
<1>3. UnderWay \in SUBSET Polls
  BY DEF UnderWay
<1>4. IsFiniteSet(UnderWay) /\ Cardinality(UnderWay) <= Cardinality(Polls)
  BY <1>2, <1>3, FS_Subset
<1>5. Cardinality(UnderWay) \in Nat
  BY <1>4, FS_CardinalityType
<1> QED
  BY <1>1, <1>2, <1>3, <1>4, <1>5

LEMMA MoreItems ==
  ASSUME NEW n \in Nat, NEW m \in Nat, n <= m
  PROVE  Memories(n) \subseteq Memories(m) /\ SoundMemories(n) \subseteq SoundMemories(m)
<1>1. 1 .. n \subseteq 1 .. m /\ Seq(1 .. n) \subseteq Seq(1 .. m)
  <2>1. 1 .. n \subseteq 1 .. m
    OBVIOUS
  <2>2. ASSUME NEW q \in Seq(1 .. n) PROVE q \in Seq(1 .. m)
    BY <2>1
  <2> QED
    BY <2>1, <2>2
<1>2. Memories(n) \subseteq Memories(m)
  BY <1>1 DEF Memories
<1>3. ASSUME NEW d \in SoundMemories(n)
      PROVE  Remembers(d, m)
  <2>1. /\ Remembers(d, n) /\ d.pushed \subseteq 1 .. n
    BY DEF SoundMemories, Memories
  <2>2. \A b \in d.pushed : b + PageSize <= n => b + PageSize <= m
    BY <2>1, PageBounds
  <2> QED
    BY <2>1, <2>2 DEF Remembers
<1> QED
  BY <1>2, <1>3 DEF SoundMemories

(***************************************************************************)
(* PollTypeOK is the types of what is remembered and of the rest.          *)
(***************************************************************************)
Scheduled ==
  /\ pollState \in {"stopped", "starting", "connected", "reconnecting", "error"}
  /\ pollTimer \in BOOLEAN
  /\ starting \in BOOLEAN
  /\ polls \in [Polls -> {"idle", "asked", "answered"}]
  /\ pages \in [Polls -> 0 .. feed]
  /\ feed \in 0 .. MaxItems
  /\ overlapped \in BOOLEAN

LEMMA PollTypes ==
  ErrorsCounted =>
    (PollTypeOK <=> Scheduled /\ Memory \in Memories(feed)
                     /\ consecutiveErrors <= MAX_CONSECUTIVE_ERRORS + MaxPolls)
BY ErrorsAssumption, PollBoundsAssumption
DEF PollTypeOK, Scheduled, Memory, Memories, ErrorsCounted

(***************************************************************************)
(* A response leads from memories that fit it to memories that fit it.     *)
(***************************************************************************)
LEMMA ResponseKeeps ==
  ASSUME NEW n \in Nat, NEW response \in Responses(n)
  PROVE  /\ \A m \in Nat : n <= m /\ Memory \in Memories(m) => PushItems(response) \in Memories(m)
         /\ Memory \in SoundMemories(n) => PushItems(response) \in SoundMemories(n)
<1>1. /\ Len(response) \in Nat
      /\ \A k \in 1 .. Len(response) : response[k] \in Oldest(n) .. n
  BY ResponseItems
<1>2. Oldest(n) >= 1 /\ Oldest(n) \in Nat
  BY PageBounds DEF Oldest
<1>3. ASSUME NEW m \in Nat, n <= m, Memory \in Memories(m)
      PROVE  PushItems(response) \in Memories(m)
  <2>1. \A k \in 1 .. Len(response) : response[k] \in 1 .. m
    BY <1>1, <1>2, <1>3
  <2>2. \A d \in Memories(m), k \in 1 .. Len(response) : ShouldPush(d, response[k]) \in Memories(m)
    BY <2>1, ItemStaysTyped
  <2> QED
    BY <1>1, <1>3, <2>2, PushItemsStays
<1>4. ASSUME Memory \in SoundMemories(n)
      PROVE  PushItems(response) \in SoundMemories(n)
  <2>1. \A d \in SoundMemories(n), k \in 1 .. Len(response) :
          ShouldPush(d, response[k]) \in SoundMemories(n)
    BY <1>1, ItemStaysSound
  <2> QED
    BY <1>1, <1>4, <2>1, PushItemsStays
<1> QED
  BY <1>3, <1>4

LEMMA CountBounds ==
  ASSUME PollInv
  PROVE  /\ Scheduled /\ Memory \in Memories(feed) /\ ErrorsCounted
         /\ consecutiveErrors \in Nat /\ Cardinality(UnderWay) \in 0 .. MaxPolls
         /\ MAX_CONSECUTIVE_ERRORS \in Nat /\ MAX_CONSECUTIVE_ERRORS > 1
         /\ MaxPolls \in Nat \ {0} /\ 1 \in Polls
BY PollTypes, UnderWayCounted, ErrorsAssumption, PollBoundsAssumption
DEF PollInv, ErrorsCounted, Polls

(***************************************************************************)
(* Each step of the poll ingestor preserves its invariant.                 *)
(***************************************************************************)
LEMMA NewItemStep ==
  ASSUME PollInv, NewItem, UNCHANGED <<at, stopped>>
  PROVE  PollInv'
<1>1. /\ Scheduled /\ Memory \in Memories(feed) /\ ErrorsCounted
      /\ Cardinality(UnderWay) \in 0 .. MaxPolls /\ MaxPolls \in Nat \ {0}
  BY CountBounds
<1>2. /\ feed' = feed + 1 /\ feed < MaxItems /\ feed \in Nat /\ MaxItems \in Nat
      /\ UNCHANGED <<pollState, pollTimer, starting, polls, pages, consecutiveErrors,
                     seenIds, pushed, repeated, overlapped, at, stopped>>
  BY <1>1, PollBoundsAssumption DEF NewItem, Scheduled
<1>3. Memory' = Memory /\ UnderWay' = UnderWay
  BY <1>2 DEF Memory, UnderWay
<1>4. Scheduled'
  BY <1>1, <1>2 DEF Scheduled
<1>5. Memories(feed) \subseteq Memories(feed)' /\ SoundMemories(feed) \subseteq SoundMemories(feed)'
  BY <1>2, MoreItems
<1>6. ErrorsCounted' /\ NotBegun'
  BY <1>2, <1>3 DEF PollInv, ErrorsCounted, NotBegun
<1>7. PollTypeOK'
  <2>1. Memory' \in Memories(feed)'
    BY <1>1, <1>3, <1>5
  <2>2. Cardinality(UnderWay)' \in Nat
    BY <1>1, <1>3
  <2> QED
    BY <1>4, <1>6, <2>1, <2>2, ErrorsAssumption, PollBoundsAssumption
    DEF PollTypeOK, Scheduled, Memory, Memories, ErrorsCounted
<1>8. ~overlapped' => Lone' /\ Recalls'
  <2>1. Lone => Lone'
    BY <1>2, <1>3 DEF Lone, PollStateIsTrue, EndsStart
  <2>2. Recalls => Recalls'
    BY <1>2, <1>3, <1>5 DEF Recalls, SoundMemories
  <2> QED
    BY <1>2, <2>1, <2>2 DEF PollInv
<1> QED
  BY <1>6, <1>7, <1>8 DEF PollInv

LEMMA StartPollStep ==
  ASSUME PollInv, StartPoll, at = 0, at' # 0, UNCHANGED stopped
  PROVE  PollInv'
<1>1. /\ Scheduled /\ Memory \in Memories(feed)
      /\ MAX_CONSECUTIVE_ERRORS \in Nat /\ MaxPolls \in Nat \ {0} /\ 1 \in Polls
  BY CountBounds
<1>2. /\ pollState' = "starting" /\ starting' = TRUE
      /\ polls' = [polls EXCEPT ![1] = "asked"]
      /\ UNCHANGED <<pollTimer, pages, consecutiveErrors, seenIds, feed, pushed, repeated,
                     overlapped, stopped>>
  BY DEF StartPoll
<1>3. consecutiveErrors = 0 /\ UnderWay = {} /\ ~pollTimer
  BY DEF PollInv, NotBegun
<1>4. UnderWay' = {1} /\ Cardinality({1}) = 1
  <2>1. \A i \in Polls : polls'[i] = IF i = 1 THEN "asked" ELSE "idle"
    BY <1>1, <1>2, <1>3 DEF UnderWay, Scheduled
  <2>2. UnderWay' = {1}
    BY <1>1, <2>1 DEF UnderWay, Polls
  <2> QED
    BY <2>2, FS_Singleton
<1>5. Memory' = Memory
  BY <1>2 DEF Memory
<1>6. Scheduled'
  BY <1>1, <1>2 DEF Scheduled
<1>7. ErrorsCounted'
  BY <1>1, <1>2, <1>3, <1>4 DEF ErrorsCounted
<1>8. PollTypeOK'
  <2>1. Memory' \in Memories(feed)'
    BY <1>1, <1>2, <1>5
  <2>2. Cardinality(UnderWay)' \in Nat
    BY <1>4
  <2> QED
    BY <1>6, <1>7, <2>1, <2>2, ErrorsAssumption, PollBoundsAssumption
    DEF PollTypeOK, Scheduled, Memory, Memories, ErrorsCounted
<1>9. ~overlapped' => Lone' /\ Recalls'
  <2>1. Lone'
    BY <1>2, <1>3, <1>4 DEF Lone, PollStateIsTrue, EndsStart, UnderWay
  <2>2. Recalls => Recalls'
    BY <1>1, <1>2, <1>5 DEF Recalls, SoundMemories, Scheduled
  <2> QED
    BY <1>2, <2>1, <2>2 DEF PollInv
<1> QED
  BY <1>7, <1>8, <1>9 DEF PollInv, NotBegun

LEMMA StopPollStep ==
  ASSUME PollInv, StopPoll \/ (UNCHANGED pollVars /\ pollState = "stopped"),
         UNCHANGED at, stopped' = TRUE
  PROVE  PollInv'
<1>1. /\ Scheduled /\ Memory \in Memories(feed) /\ ErrorsCounted
      /\ Cardinality(UnderWay) \in 0 .. MaxPolls /\ MaxPolls \in Nat \ {0}
  BY CountBounds
<1>2. /\ pollState' = "stopped"
      /\ pollTimer' = FALSE \/ pollTimer' = pollTimer
      /\ UNCHANGED <<starting, polls, pages, consecutiveErrors, seenIds, feed, pushed,
                     repeated, overlapped, at>>
  BY DEF StopPoll, pollVars
<1>3. Memory' = Memory /\ UnderWay' = UnderWay
  BY <1>2 DEF Memory, UnderWay
<1>4. Scheduled'
  BY <1>1, <1>2 DEF Scheduled
<1>5. ErrorsCounted' /\ NotBegun'
  BY <1>1, <1>2, <1>3 DEF PollInv, ErrorsCounted, NotBegun
<1>6. PollTypeOK'
  <2>1. Memory' \in Memories(feed)'
    BY <1>1, <1>2, <1>3
  <2>2. Cardinality(UnderWay)' \in Nat
    BY <1>1, <1>3
  <2> QED
    BY <1>4, <1>5, <2>1, <2>2, ErrorsAssumption, PollBoundsAssumption
    DEF PollTypeOK, Scheduled, Memory, Memories, ErrorsCounted
<1>7. ~overlapped' => Lone' /\ Recalls'
  BY <1>2, <1>3 DEF PollInv, Lone, PollStateIsTrue, Recalls, SoundMemories
<1> QED
  BY <1>5, <1>6, <1>7 DEF PollInv

LEMMA IntervalStep ==
  ASSUME PollInv, NEW i \in Polls, OnInterval(i), UNCHANGED <<at, stopped>>
  PROVE  PollInv'
<1>1. /\ Scheduled /\ Memory \in Memories(feed) /\ ErrorsCounted
      /\ Cardinality(UnderWay) \in 0 .. MaxPolls /\ MaxPolls \in Nat \ {0}
      /\ MAX_CONSECUTIVE_ERRORS \in Nat
  BY CountBounds
<1>2. /\ pollTimer /\ polls[i] = "idle"
      /\ polls' = [polls EXCEPT ![i] = "asked"]
      /\ overlapped' = (overlapped \/ \E k \in Polls : polls[k] # "idle")
      /\ UNCHANGED <<pollState, pollTimer, starting, pages, consecutiveErrors, seenIds,
                     feed, pushed, repeated, at, stopped>>
  BY DEF OnInterval
<1>3. Memory' = Memory
  BY <1>2 DEF Memory
<1>4. UnderWay' = UnderWay \cup {i} /\ i \notin UnderWay
  BY <1>1, <1>2 DEF UnderWay, Scheduled
<1>5. Scheduled'
  BY <1>1, <1>2 DEF Scheduled
<1>6. Cardinality(UnderWay') \in 0 .. MaxPolls
  <2>1. UnderWay' \subseteq Polls
    BY DEF UnderWay, Polls
  <2>2. IsFiniteSet(Polls) /\ Cardinality(Polls) = MaxPolls
    <3>1. IsFiniteSet(1 .. MaxPolls)
          /\ Cardinality(1 .. MaxPolls) = IF 1 > MaxPolls THEN 0 ELSE MaxPolls - 1 + 1
      BY <1>1, FS_Interval
    <3> QED
      BY <1>1, <3>1 DEF Polls
  <2>3. IsFiniteSet(UnderWay') /\ Cardinality(UnderWay') <= Cardinality(Polls)
    BY <2>1, <2>2, FS_Subset
  <2> QED
    BY <1>1, <2>2, <2>3, FS_CardinalityType
<1>7. ErrorsCounted'
  BY <1>1, <1>2, <1>6 DEF ErrorsCounted
<1>8. NotBegun'
  BY <1>2 DEF PollInv, NotBegun
<1>9. PollTypeOK'
  <2>1. Memory' \in Memories(feed)'
    BY <1>1, <1>2, <1>3
  <2> QED
    BY <1>5, <1>6, <1>7, <2>1, ErrorsAssumption, PollBoundsAssumption
    DEF PollTypeOK, Scheduled, Memory, Memories, ErrorsCounted
<1>10. ~overlapped' => Lone' /\ Recalls'
  <2> SUFFICES ASSUME ~overlapped' PROVE Lone' /\ Recalls'
    OBVIOUS
  <2>1. UnderWay = {} /\ Lone /\ Recalls
    BY <1>2 DEF UnderWay, PollInv
  <2>2. UnderWay' = {i}
    BY <1>4, <2>1
  <2>3. polls'[i] = "asked"
    BY <1>1, <1>2 DEF Scheduled
  <2>4. Lone'
    BY <1>2, <2>1, <2>2, <2>3 DEF Lone, PollStateIsTrue
  <2>5. Recalls'
    BY <1>1, <1>2, <1>3, <2>1 DEF Recalls, SoundMemories, Scheduled
  <2> QED
    BY <2>4, <2>5
<1> QED
  BY <1>7, <1>8, <1>9, <1>10 DEF PollInv

LEMMA AnsweredStep ==
  ASSUME PollInv, NEW i \in Polls, Answered(i), UNCHANGED <<at, stopped>>
  PROVE  PollInv'
<1>1. /\ Scheduled /\ Memory \in Memories(feed) /\ ErrorsCounted
      /\ Cardinality(UnderWay) \in 0 .. MaxPolls /\ MaxPolls \in Nat \ {0}
  BY CountBounds
<1>2. /\ polls[i] = "asked"
      /\ polls' = [polls EXCEPT ![i] = "answered"]
      /\ pages' = [pages EXCEPT ![i] = feed]
      /\ UNCHANGED <<pollState, pollTimer, starting, consecutiveErrors, seenIds, feed,
                     pushed, repeated, overlapped, at, stopped>>
  BY DEF Answered
<1>3. Memory' = Memory
  BY <1>2 DEF Memory
<1>4. UnderWay' = UnderWay
  BY <1>1, <1>2 DEF UnderWay, Scheduled
<1>5. Scheduled'
  BY <1>1, <1>2 DEF Scheduled
<1>6. ErrorsCounted' /\ NotBegun'
  BY <1>2, <1>4 DEF PollInv, ErrorsCounted, NotBegun
<1>7. PollTypeOK'
  <2>1. Memory' \in Memories(feed)'
    BY <1>1, <1>2, <1>3
  <2>2. Cardinality(UnderWay)' \in Nat
    BY <1>1, <1>4
  <2> QED
    BY <1>5, <1>6, <2>1, <2>2, ErrorsAssumption, PollBoundsAssumption
    DEF PollTypeOK, Scheduled, Memory, Memories, ErrorsCounted
<1>8. ~overlapped' => Lone' /\ Recalls'
  <2> SUFFICES ASSUME ~overlapped PROVE Lone' /\ Recalls'
    BY <1>2
  <2>1. Lone /\ Recalls
    BY DEF PollInv
  <2>2. \A k \in Polls : (polls'[k] = "idle") = (polls[k] = "idle")
    BY <1>1, <1>2 DEF Scheduled
  <2>3. Lone'
    BY <1>2, <1>4, <2>1, <2>2 DEF Lone, PollStateIsTrue, EndsStart
  <2>4. \A k \in Polls : IF k = i THEN pages'[k] = feed ELSE pages'[k] = pages[k] /\ polls'[k] = polls[k]
    BY <1>1, <1>2 DEF Scheduled
  <2>5. Recalls'
    BY <1>2, <1>3, <2>1, <2>4 DEF Recalls, SoundMemories
  <2> QED
    BY <2>3, <2>5
<1> QED
  BY <1>6, <1>7, <1>8 DEF PollInv

(***************************************************************************)
(* The end of a poll, however it ends.                                     *)
(***************************************************************************)
LEMMA EndEffect ==
  ASSUME PollInv, NEW i \in Polls, polls[i] # "idle",
         polls' = [polls EXCEPT ![i] = "idle"]
  PROVE  /\ UnderWay' = UnderWay \ {i} /\ i \in UnderWay
         /\ Cardinality(UnderWay') = Cardinality(UnderWay) - 1
         /\ Cardinality(UnderWay') \in Nat
         /\ \A k \in Polls : polls'[k] = IF k = i THEN "idle" ELSE polls[k]
<1>1. polls \in [Polls -> {"idle", "asked", "answered"}]
  BY DEF PollInv, PollTypeOK
<1>2. \A k \in Polls : polls'[k] = IF k = i THEN "idle" ELSE polls[k]
  BY <1>1
<1>3. UnderWay' = UnderWay \ {i} /\ i \in UnderWay
  BY <1>2 DEF UnderWay, Polls
<1>4. IsFiniteSet(UnderWay)
  BY UnderWayCounted DEF PollInv
<1>5. Cardinality(UnderWay') = Cardinality(UnderWay) - 1 /\ IsFiniteSet(UnderWay')
  BY <1>3, <1>4, FS_RemoveElement
<1>6. Cardinality(UnderWay') \in Nat
  BY <1>5, FS_CardinalityType
<1> QED
  BY <1>2, <1>3, <1>5, <1>6

LEMMA SucceedStep ==
  ASSUME PollInv, NEW i \in Polls, PollSucceeds(i), at' # 0, UNCHANGED stopped
  PROVE  PollInv'
<1>1. /\ Scheduled /\ Memory \in Memories(feed) /\ ErrorsCounted
      /\ Cardinality(UnderWay) \in 0 .. MaxPolls /\ MaxPolls \in Nat \ {0}
      /\ MAX_CONSECUTIVE_ERRORS \in Nat /\ MAX_CONSECUTIVE_ERRORS > 1
  BY CountBounds
<1>2. /\ polls[i] = "answered"
      /\ consecutiveErrors' = 0
      /\ pollState' = "connected"
      /\ pollTimer' = (pollTimer \/ EndsStart(i))
      /\ starting' = (starting /\ i # 1)
      /\ polls' = [polls EXCEPT ![i] = "idle"]
      /\ pages' = [pages EXCEPT ![i] = 0]
      /\ UNCHANGED <<feed, overlapped, stopped>>
  BY DEF PollSucceeds
<1>3. PICK response \in Responses(pages[i]) :
        LET done == PushItems(response)
        IN  seenIds' = done.ids /\ pushed' = done.pushed /\ repeated' = done.repeated
  BY DEF PollSucceeds
<1>4. pages[i] \in Nat /\ feed \in Nat /\ pages[i] <= feed
  BY <1>1, PollBoundsAssumption DEF Scheduled
<1>5. PushItems(response) \in Memories(feed)
  BY <1>1, <1>4, ResponseKeeps
<1>6. Memory' = PushItems(response)
  BY <1>3, <1>5 DEF Memory, Memories
<1>7. /\ UnderWay' = UnderWay \ {i} /\ i \in UnderWay
      /\ Cardinality(UnderWay') \in Nat /\ Cardinality(UnderWay') <= Cardinality(UnderWay)
  <2>1. /\ UnderWay' = UnderWay \ {i} /\ i \in UnderWay
        /\ Cardinality(UnderWay') \in Nat
        /\ Cardinality(UnderWay') = Cardinality(UnderWay) - 1
    BY <1>2, EndEffect
  <2> QED
    BY <1>1, <2>1
<1>8. Scheduled'
  BY <1>1, <1>2, <1>4 DEF Scheduled, EndsStart
<1>9. ErrorsCounted'
  BY <1>1, <1>2, <1>7 DEF ErrorsCounted
<1>10. PollTypeOK'
  <2>1. Memory' \in Memories(feed)'
    BY <1>2, <1>5, <1>6
  <2> QED
    BY <1>7, <1>8, <1>9, <2>1, ErrorsAssumption, PollBoundsAssumption
    DEF PollTypeOK, Scheduled, Memory, Memories, ErrorsCounted
<1>11. ~overlapped' => Lone' /\ Recalls'
  <2> SUFFICES ASSUME ~overlapped PROVE Lone' /\ Recalls'
    BY <1>2
  <2>1. Lone /\ Recalls
    BY DEF PollInv
  <2>2. UnderWay' = {} /\ (starting => i = 1)
    BY <1>7, <2>1 DEF Lone
  <2>3. ~stopped => pollTimer'
    BY <1>2, <1>7, <2>1 DEF Lone
  <2>4. Lone'
    <3>1. PollStateIsTrue'
      BY <1>2, <2>3 DEF PollStateIsTrue
    <3>2. ~starting'
      BY <1>2, <2>2
    <3> QED
      BY <2>2, <3>1, <3>2 DEF Lone
  <2>5. Memory' \in SoundMemories(pages[i])
    BY <1>2, <1>4, <1>6, <2>1, ResponseKeeps DEF Recalls
  <2>6. Memory' \in SoundMemories(feed)
    BY <1>4, <2>5, MoreItems
  <2>7. \A k \in Polls : polls'[k] = "idle"
    BY <2>2 DEF UnderWay, Polls
  <2>8. Recalls'
    BY <1>2, <2>6, <2>7 DEF Recalls, SoundMemories
  <2> QED
    BY <2>4, <2>8
<1> QED
  BY <1>9, <1>10, <1>11 DEF PollInv, NotBegun

LEMMA FailStep ==
  ASSUME PollInv, NEW i \in Polls, PollFails(i), at' # 0, UNCHANGED stopped
  PROVE  PollInv'
<1>1. /\ Scheduled /\ Memory \in Memories(feed) /\ ErrorsCounted
      /\ Cardinality(UnderWay) \in 0 .. MaxPolls /\ MaxPolls \in Nat \ {0}
      /\ MAX_CONSECUTIVE_ERRORS \in Nat /\ consecutiveErrors \in Nat
  BY CountBounds
<1>2. /\ polls[i] # "idle"
      /\ consecutiveErrors' = consecutiveErrors + 1
      /\ starting' = (starting /\ i # 1)
      /\ polls' = [polls EXCEPT ![i] = "idle"]
      /\ pages' = [pages EXCEPT ![i] = 0]
      /\ UNCHANGED <<seenIds, feed, pushed, repeated, overlapped, stopped>>
  BY DEF PollFails
<1>3. \/ pollState' = "error" /\ pollTimer' = FALSE
      \/ /\ consecutiveErrors' < MAX_CONSECUTIVE_ERRORS
         /\ pollState' = "reconnecting"
         /\ pollTimer' = (pollTimer \/ EndsStart(i))
  BY DEF PollFails
<1>4. Memory' = Memory
  BY <1>2 DEF Memory
<1>5. /\ UnderWay' = UnderWay \ {i} /\ i \in UnderWay
      /\ Cardinality(UnderWay') \in Nat /\ Cardinality(UnderWay') = Cardinality(UnderWay) - 1
  BY <1>1, <1>2, EndEffect
<1>6. Scheduled'
  <2>1. 0 \in 0 .. feed
    BY <1>1, PollBoundsAssumption DEF Scheduled
  <2> QED
    BY <1>1, <1>2, <1>3, <2>1 DEF Scheduled, EndsStart
<1>7. ErrorsCounted'
  BY <1>1, <1>2, <1>3, <1>5 DEF ErrorsCounted
<1>8. PollTypeOK'
  <2>1. Memory' \in Memories(feed)'
    BY <1>1, <1>2, <1>4
  <2> QED
    BY <1>5, <1>6, <1>7, <2>1, ErrorsAssumption, PollBoundsAssumption
    DEF PollTypeOK, Scheduled, Memory, Memories, ErrorsCounted
<1>9. ~overlapped' => Lone' /\ Recalls'
  <2> SUFFICES ASSUME ~overlapped PROVE Lone' /\ Recalls'
    BY <1>2
  <2>1. Lone /\ Recalls
    BY DEF PollInv
  <2>2. UnderWay' = {} /\ (starting => i = 1)
    BY <1>5, <2>1 DEF Lone
  <2>3. \A k \in Polls : polls'[k] = "idle"
    BY <2>2 DEF UnderWay, Polls
  <2>4. ~stopped => pollTimer \/ EndsStart(i)
    BY <1>5, <2>1 DEF Lone
  <2>5. Lone'
    <3>1. ~stopped /\ pollState' # "error" => pollTimer'
      BY <1>3, <2>4
    <3>2. pollState' = "error" => ~pollTimer'
      BY <1>3
    <3>3. PollStateIsTrue'
      BY <1>2, <2>3, <3>1, <3>2 DEF PollStateIsTrue
    <3>4. ~starting'
      BY <1>2, <2>2
    <3> QED
      BY <2>2, <3>3, <3>4 DEF Lone
  <2>6. Recalls'
    BY <1>2, <1>4, <2>1, <2>3 DEF Recalls, SoundMemories
  <2> QED
    BY <2>5, <2>6
<1> QED
  BY <1>7, <1>8, <1>9 DEF PollInv, NotBegun

(***************************************************************************)
(* The manager and the service around it.                                  *)
(***************************************************************************)
Managed ==
  /\ at \in 0 .. Len(Order) + 1
  /\ sent \in 0 .. Len(Signed)
  /\ acked \subseteq 1 .. sent

AllInv == IInv /\ PollInv /\ Managed

LEMMA AwaitedRange ==
  ASSUME NEW n \in Nat
  PROVE  n >= 1 => Awaited(n) \in 1 .. Len(Order) + 1
<1>1. DOMAIN Order = 1 .. Len(Order)
  BY OrderAssumption
<1> QED
  BY <1>1, OrderLength DEF Awaited

LEMMA InitAllInv == Init => AllInv
<1> SUFFICES ASSUME Init PROVE AllInv
  OBVIOUS
<1>1. MAX_CONSECUTIVE_ERRORS \in Nat /\ MaxPolls \in Nat \ {0} /\ MaxItems \in Nat
      /\ MAX_SEEN_IDS \in Nat /\ PageSize \in Nat
  BY ErrorsAssumption, PollBoundsAssumption, PageBounds
<1>2. UnderWay = {}
  BY DEF Init, PollInit, UnderWay
<1>3. Cardinality(UnderWay) = 0
  BY <1>2, FS_EmptySet
<1>4. Scheduled
  <2>1. 0 \in 0 .. MaxItems /\ 0 \in 0 .. 0
    BY <1>1
  <2>2. pages \in [Polls -> 0 .. feed] /\ feed \in 0 .. MaxItems
    BY <2>1 DEF Init, PollInit
  <2> QED
    BY <2>2 DEF Init, PollInit, Scheduled
<1>5. Memory \in Memories(feed)
  <2>1. Memory = [ids |-> <<>>, pushed |-> {}, repeated |-> {}] /\ feed = 0
    BY DEF Init, PollInit, Memory
  <2>2. <<>> \in Seq(1 .. 0) /\ Len(<<>>) = 0
    OBVIOUS
  <2> QED
    BY <1>1, <2>1, <2>2 DEF Memories
<1>6. ErrorsCounted /\ NotBegun
  BY <1>1, <1>2, <1>3 DEF Init, PollInit, ErrorsCounted, NotBegun
<1>8. Lone
  BY <1>2 DEF Init, PollInit, Lone, PollStateIsTrue
<1>9. Recalls
  <2>2. Remembers(Memory, feed)
    BY DEF Init, PollInit, Memory, Remembers, InOrder
  <2>3. \A i \in Polls : polls[i] = "idle"
    BY DEF Init, PollInit
  <2> QED
    BY <1>5, <2>2, <2>3 DEF Recalls, SoundMemories
<1>10. Managed
  BY OrderLength, SignedAssumption DEF Init, Managed
<1>7. PollTypeOK
  <2>1. consecutiveErrors <= MAX_CONSECUTIVE_ERRORS + MaxPolls
    BY <1>1 DEF Init, PollInit
  <2> QED
    BY <1>4, <1>6, <1>5, <2>1, PollTypes
<1> QED
  BY <1>6, <1>8, <1>9, <1>10, <1>7, InitIInv DEF AllInv, PollInv

(***************************************************************************)
(* startAll() and stopAll() around the poll ingestor's own steps.          *)
(***************************************************************************)
LEMMA StartAllAll ==
  ASSUME AllInv, StartAll
  PROVE  PollInv' /\ Managed'
<1>1. Proceed(1) /\ at = 0 /\ UNCHANGED <<webhookVars, stopped>>
  BY DEF StartAll
<1>2. at' \in 1 .. Len(Order) + 1
  BY <1>1, AwaitedRange DEF Proceed
<1>3. Managed'
  BY <1>1, <1>2, OrderLength DEF AllInv, Managed, webhookVars
<1>4. CASE StartPoll
  BY <1>1, <1>2, <1>3, <1>4, StartPollStep DEF AllInv
<1>5. CASE UNCHANGED pollVars
  <2>1. Memory' = Memory /\ UnderWay' = UnderWay
    BY <1>5 DEF pollVars, Memory, UnderWay
  <2>2. PollTypeOK' /\ ErrorsCounted' /\ (~overlapped' => Lone' /\ Recalls')
    BY <1>1, <1>5, <2>1
    DEF AllInv, PollInv, PollTypeOK, ErrorsCounted, Lone, PollStateIsTrue, EndsStart,
        Recalls, SoundMemories, pollVars
  <2> QED
    BY <1>2, <1>3, <2>2 DEF PollInv, NotBegun
<1> QED
  BY <1>4, <1>5 DEF StartAll

LEMMA StopAllAll ==
  ASSUME AllInv, StopAll
  PROVE  PollInv' /\ Managed'
<1>1. /\ ~stopped /\ stopped' = TRUE /\ UNCHANGED <<at, webhookVars>>
      /\ IF Poll \in ingestors THEN StopPoll ELSE UNCHANGED pollVars
  BY DEF StopAll
<1>2. Managed'
  BY <1>1 DEF AllInv, Managed, webhookVars
<1>3. Poll \notin ingestors => pollState = "stopped"
  BY <1>1 DEF AllInv, IInv, PollIsKnown, PollInv, NotBegun
<1> QED
  BY <1>1, <1>2, <1>3, StopPollStep DEF AllInv

LEMMA EndPollAll ==
  ASSUME AllInv, NEW i \in Polls, EndPoll(i)
  PROVE  PollInv' /\ Managed'
<1>1. /\ PollSucceeds(i) \/ PollFails(i)
      /\ Proceed(at + 1) \/ UNCHANGED managerVars
      /\ UNCHANGED <<webhookVars, stopped>>
  BY DEF EndPoll
<1>2. polls[i] # "idle"
  BY <1>1 DEF PollSucceeds, PollFails
<1>3. at # 0 /\ at \in Nat
  BY <1>2, OrderLength DEF AllInv, PollInv, NotBegun, UnderWay, Managed
<1>4. at' \in 1 .. Len(Order) + 1
  <2>1. CASE Proceed(at + 1)
    <3>1. Awaited(at + 1) \in 1 .. Len(Order) + 1
      BY <1>3, AwaitedRange
    <3> QED
      BY <2>1, <3>1 DEF Proceed
  <2>2. CASE UNCHANGED managerVars
    BY <1>3, <2>2, OrderLength DEF AllInv, Managed, managerVars
  <2> QED
    BY <1>1, <2>1, <2>2
<1>5. Managed'
  BY <1>1, <1>4, OrderLength DEF AllInv, Managed, webhookVars
<1> QED
  BY <1>1, <1>4, <1>5, SucceedStep, FailStep DEF AllInv

LEMMA BetweenPollsAll ==
  ASSUME AllInv, BetweenPolls
  PROVE  PollInv' /\ Managed'
<1>1. UNCHANGED <<at, webhookVars, stopped>>
  BY DEF BetweenPolls, managerVars
<1>2. Managed'
  BY <1>1 DEF AllInv, Managed, webhookVars
<1> QED
  BY <1>1, <1>2, NewItemStep, IntervalStep, AnsweredStep DEF AllInv, BetweenPolls

LEMMA WebhookStepAll ==
  ASSUME AllInv, UNCHANGED <<pollVars, at, stopped>>
  PROVE  PollInv'
<1>1. Memory' = Memory /\ UnderWay' = UnderWay
  BY DEF pollVars, Memory, UnderWay
<1> QED
  BY <1>1
  DEF AllInv, PollInv, PollTypeOK, ErrorsCounted, NotBegun, Lone, PollStateIsTrue,
      EndsStart, Recalls, SoundMemories, pollVars

LEMMA NextAllInv == AllInv /\ [Next]_vars => AllInv'
<1> SUFFICES ASSUME AllInv, [Next]_vars PROVE AllInv'
  OBVIOUS
<1>1. IInv'
  BY NextIInv DEF AllInv
<1>2. CASE UNCHANGED vars
  <2>1. PollInv'
    BY <1>2, WebhookStepAll DEF vars, managerVars
  <2> QED
    BY <1>1, <1>2, <2>1 DEF AllInv, Managed, vars, managerVars, webhookVars
<1>3. CASE SendEvent
  <2>1. PollInv'
    BY <1>3, WebhookStepAll DEF SendEvent, managerVars
  <2>2. Managed'
    BY <1>3, SignedAssumption DEF SendEvent, managerVars, AllInv, Managed, Events
  <2> QED
    BY <1>1, <2>1, <2>2 DEF AllInv
<1>4. ASSUME NEW event \in Events, NEW age, NEW lost, Deliver(event, age, lost)
      PROVE  AllInv'
  <2>1. PollInv'
    BY <1>4, WebhookStepAll DEF Deliver, managerVars
  <2>2. UNCHANGED <<at, sent>> /\ acked' \subseteq acked \cup {event} /\ event <= sent
    <3>1. Request(event, age).event = event
      BY DEF Request
    <3> QED
      BY <1>4, <3>1 DEF Deliver, PostWebhook, managerVars
  <2>3. event \in 1 .. sent
    BY <2>2, SignedAssumption DEF AllInv, Managed, Events
  <2>4. Managed'
    BY <2>2, <2>3 DEF AllInv, Managed
  <2> QED
    BY <1>1, <2>1, <2>4 DEF AllInv
<1>5. CASE Next
  BY <1>1, <1>3, <1>4, <1>5, StartAllAll, StopAllAll, BetweenPollsAll, EndPollAll
  DEF Next, AllInv
<1> QED
  BY <1>2, <1>5

LEMMA AllInvariance == Spec => []AllInv
BY InitAllInv, NextAllInv, PTL DEF Spec

(***************************************************************************)
(* The manager, its ingestors and the service stay typed: neither the      *)
(* remembered ids nor the errors grow beyond their limits, even if polls   *)
(* overlap.                                                                *)
(***************************************************************************)
THEOREM TypeCorrect == Spec => []TypeOK
<1>1. AllInv => TypeOK
  BY DEF AllInv, IInv, Typed, PollInv, Managed, TypeOK
<1> QED
  BY <1>1, AllInvariance, PTL

(***************************************************************************)
(* As long as polls do not overlap, the poll ingestor's state is true, and *)
(* no item is pushed twice: for every size of a page that, taken twice, is *)
(* no more than what pruning leaves remembered, and in whichever order a   *)
(* response lists its items.                                               *)
(***************************************************************************)
THEOREM PollsAreSound == Spec => []SinglePollsAreSound
<1>1. AllInv => SinglePollsAreSound
  BY DEF AllInv, PollInv, Lone, Recalls, Memory, SoundMemories, Remembers,
         SinglePollsAreSound
<1> QED
  BY <1>1, AllInvariance, PTL
=============================================================================
