------------------------- MODULE SecureProxy_proofs -------------------------
(***************************************************************************)
(* Proofs about SecureProxy for every set of calls, every limit and TTL,   *)
(* every size of the anti-replay window and every number of faults.        *)
(***************************************************************************)
EXTENDS SecureProxy, SessionServer_proofs

Statuses == {"none", "ok", "403", "404", "401", "429", "error", "result"}

Ids == SessionIds \cup {NoSession}

Replies == [status : Statuses, session : Ids]

CallStates ==
  [pc : Exchanges \cup {"idle", "done", "failed"}, attempt : Nat, session : Ids,
   counter : Nat, reply : Replies]

Mail ==
  [type : Exchanges, call : Calls, attempt : Nat, session : Ids, counter : Nat,
   intact : BOOLEAN]

(***************************************************************************)
(* The types the proofs need.                                              *)
(***************************************************************************)
ServerTyped ==
  /\ window \in [SessionIds -> Windows]
  /\ handlers \subseteq [session : SessionIds, counter : Nat]
  /\ created \subseteq SessionIds
  /\ sessions \subseteq created
  /\ established \subseteq created
  /\ established \cap pendingHandshakes = {}

Typed ==
  /\ call \in [Calls -> CallStates]
  /\ net \subseteq Mail
  /\ sendCounter \in [SessionIds -> Nat]
  /\ losses \in Nat
  /\ executed \in [Calls -> Nat]
  /\ ServerTyped

(***************************************************************************)
(* A request is sent, and thus served, only on an established session: a   *)
(* call goes from finish to request on the server's word.                  *)
(***************************************************************************)
OnEstablished ==
  /\ channel \in established \cup {NoSession}
  /\ \A m \in net : m.type = "request" => m.session \in established
  /\ \A c \in Calls : call[c].pc = "request" => call[c].session \in established
  /\ \A c \in Calls :
       call[c].pc = "finish" /\ call[c].reply.status = "ok"
         => call[c].session \in established
  /\ ServedOnlyWhenFinished

(***************************************************************************)
(* What is on the wire is no news to its call: it is of an earlier         *)
(* attempt, or of an exchange of this attempt that was begun, and then     *)
(* names the same session and counter.                                     *)
(***************************************************************************)
InOrder(m) ==
  LET d == call[m.call] IN
  /\ d.pc # "idle"
  /\ m.attempt <= d.attempt
  /\ m.attempt = d.attempt /\ m.type = "finish" =>
       /\ d.pc # "init"
       /\ d.pc = "finish" => m.session = d.session
  /\ m.attempt = d.attempt /\ m.type = "request" =>
       /\ d.pc \notin {"init", "finish"}
       /\ m.session = d.session
       /\ m.counter = d.counter

Ordered == \A m \in net : InOrder(m)

(***************************************************************************)
(* The send counter of a session is beyond every counter in use, and a     *)
(* session and counter belong to one call.                                 *)
(***************************************************************************)
Numbered ==
  /\ \A m \in net : m.type = "request" => m.counter < sendCounter[m.session]
  /\ \A c \in Calls : call[c].pc = "request" => call[c].counter < sendCounter[call[c].session]
  /\ \A h \in handlers : h.counter < sendCounter[h.session]
  /\ \A m \in net, c \in Calls :
       /\ m.type = "request" /\ call[c].pc = "request"
       /\ m.session = call[c].session /\ m.counter = call[c].counter
       => m.call = c

(***************************************************************************)
(* A call on a session the server has forgotten has gone round less often  *)
(* than sessions were forgotten.                                           *)
(***************************************************************************)
SessionOf(d) == IF d.pc = "init" THEN d.reply.session ELSE d.session

Forgotten == established \ sessions

LossesCounted ==
  /\ Forgotten # {} => losses > 0
  /\ RetriesBoundedByLosses
  /\ \A c \in Calls :
       call[c].pc \in Exchanges /\ SessionOf(call[c]) \in Forgotten
         => call[c].attempt < losses
  /\ \A c \in Calls :
       call[c].pc = "request" /\ call[c].reply.status = "401" => call[c].attempt < losses

(***************************************************************************)
(* A result comes from a run.                                              *)
(***************************************************************************)
ResultsAreRuns ==
  /\ \A h \in handlers, c \in Calls :
       call[c].pc = "request" /\ RequestOf(c) = h => executed[c] >= 1
  /\ \A c \in Calls :
       call[c].pc = "request" /\ call[c].reply.status = "result" => executed[c] >= 1
  /\ \A c \in Calls : call[c].pc = "done" => executed[c] >= 1

(***************************************************************************)
(* As long as no message of a call is repeated, it has at most one request *)
(* on the wire, of its last attempt, not run and not answered.             *)
(***************************************************************************)
RequestsOf(c) == {m \in net : m.call = c /\ m.type = "request"}

BeforeRequest == {"idle", "init", "finish"}

RunOnceIfUnrepeated ==
  \A c \in Calls \ repeated :
    /\ executed[c] <= 1
    /\ call[c].pc \in BeforeRequest => executed[c] = 0
    /\ call[c].pc = "request" /\ call[c].reply.status = "401" => executed[c] = 0
    /\ \A m, n \in RequestsOf(c) : m = n
    /\ \A m \in RequestsOf(c) :
         /\ executed[c] = 0
         /\ m.attempt = call[c].attempt
         /\ call[c].pc = "request" => call[c].reply = NoReply

(***************************************************************************)
(* As long as no session is lost, a call sends one request, and the        *)
(* anti-replay window refuses it once it has been run.                     *)
(***************************************************************************)
RunOnceIfNothingLost ==
  /\ \A c \in Calls :
       /\ call[c].pc \in BeforeRequest
       /\ call[c].pc = "idle" \/ call[c].attempt = 0
       => executed[c] = 0
  /\ losses = 0 =>
       \A c \in Calls :
         /\ executed[c] <= 1
         /\ executed[c] = 1 =>
              \A m \in RequestsOf(c) : ~Admits(window[m.session], m.counter)

PInv ==
  /\ Typed
  /\ OnEstablished
  /\ Ordered
  /\ Numbered
  /\ LossesCounted
  /\ ResultsAreRuns
  /\ RunOnceIfUnrepeated
  /\ RunOnceIfNothingLost

-----------------------------------------------------------------------------
(***************************************************************************)
(* The anti-replay window does not admit a counter it has recorded, nor    *)
(* one it once refused.                                                    *)
(***************************************************************************)
LEMMA RecordedIsRefused ==
  ASSUME NEW w \in Windows, NEW c \in Nat
  PROVE  /\ Record(w, c) \in Windows
         /\ ~Admits(Record(w, c), c)
BY DEF Record, Prune, Windows, Counters, Admits, TooOld, Duplicate

LEMMA RefusedStaysRefused ==
  ASSUME NEW w \in Windows, NEW c \in Nat, NEW d \in Nat, ~Admits(w, d)
  PROVE  ~Admits(Record(w, c), d)
<1> USE WindowSizeAssumption
<1>1. CASE c > w.maxRecvCounter
  BY <1>1 DEF Record, Prune, Windows, Counters, Admits, TooOld, Duplicate
<1>2. CASE ~(c > w.maxRecvCounter)
  BY <1>2 DEF Record, Prune, Windows, Counters, Admits, TooOld, Duplicate
<1> QED
  BY <1>1, <1>2

-----------------------------------------------------------------------------
LEMMA InitPInv == PInit => PInv
<1> SUFFICES ASSUME PInit PROVE PInv
  OBVIOUS
<1> USE NoSessionAssumption DEF PInit, Init
<1>1. Typed
  BY NewWindowType DEF Typed, ServerTyped, CallStates, Idle, NoReply, Replies, Statuses, Ids
<1>2. \A c \in Calls : call[c].pc = "idle" /\ call[c].attempt = 0
  BY DEF Idle
<1>3. OnEstablished /\ Ordered /\ Numbered
  BY <1>2 DEF OnEstablished, Ordered, Numbered, ServedOnlyWhenFinished
<1>4. LossesCounted
  BY <1>2 DEF LossesCounted, Forgotten, RetriesBoundedByLosses, Exchanges
<1>5. ResultsAreRuns /\ RunOnceIfUnrepeated /\ RunOnceIfNothingLost
  BY <1>2 DEF ResultsAreRuns, RunOnceIfUnrepeated, RunOnceIfNothingLost, RequestsOf
<1> QED
  BY <1>1, <1>3, <1>4, <1>5 DEF PInv

-----------------------------------------------------------------------------
(***************************************************************************)
(* What fetch() does to the state of a call and to the wire.               *)
(***************************************************************************)
LEMMA FetchEffect ==
  ASSUME Typed, NEW c \in Calls, NEW type \in Exchanges, NEW s \in Ids,
         NEW k \in Nat, NEW n \in Nat, Fetch(c, type, s, k, n)
  PROVE  /\ call' \in [Calls -> CallStates]
         /\ net' \subseteq Mail
         /\ \A d \in Calls : d # c => call'[d] = call[d]
         /\ call'[c].pc = type
         /\ call'[c].attempt = n
         /\ call'[c].session = s
         /\ call'[c].counter = k
         /\ call'[c].reply = NoReply
         /\ \E m \in Mail :
              /\ net' = net \cup {m}
              /\ m.call = c
              /\ m.type = type
              /\ m.attempt = n
              /\ m.session = s
              /\ m.counter = k
<1> DEFINE e == [pc |-> type, attempt |-> n, session |-> s, counter |-> k,
                 reply |-> NoReply]
           m == [type |-> type, call |-> c, attempt |-> n, session |-> s,
                 counter |-> k, intact |-> TRUE]
<1>1. NoReply \in Replies
  BY DEF NoReply, Replies, Statuses, Ids
<1>2. e \in CallStates
  BY <1>1 DEF CallStates
<1>3. /\ m \in Mail
      /\ m.call = c /\ m.type = type /\ m.attempt = n
      /\ m.session = s /\ m.counter = k
  BY DEF Mail
<1>4. call' = [call EXCEPT ![c] = e] /\ net' = net \cup {m}
  BY DEF Fetch
<1>5. call'[c] = e /\ \A d \in Calls : d # c => call'[d] = call[d]
  BY <1>4 DEF Typed, ServerTyped
<1>6. call' \in [Calls -> CallStates] /\ net' \subseteq Mail
  <2> HIDE DEF e, m
  <2> QED
    BY <1>2, <1>3, <1>4 DEF Typed, ServerTyped
<1>7. \E x \in Mail :
        /\ net' = net \cup {x}
        /\ x.call = c /\ x.type = type /\ x.attempt = n
        /\ x.session = s /\ x.counter = k
  <2> HIDE DEF m
  <2> QED
    BY <1>3, <1>4
<1> QED
  BY <1>5, <1>6, <1>7

LEMMA OverEffect ==
  ASSUME Typed, NEW c \in Calls, NEW pc \in {"done", "failed"}, Over(c, pc)
  PROVE  /\ call' \in [Calls -> CallStates]
         /\ net' = net
         /\ \A d \in Calls : d # c => call'[d] = call[d]
         /\ call'[c].pc = pc
         /\ call'[c].attempt = call[c].attempt
         /\ call'[c].session = call[c].session
         /\ call'[c].counter = call[c].counter
         /\ call'[c].reply = call[c].reply
BY DEF Typed, ServerTyped, Over, CallStates

-----------------------------------------------------------------------------
(***************************************************************************)
(* A step of the proxy leaves the server and the history alone.  Faults    *)
(* are counted for the bound only.                                         *)
(***************************************************************************)
ProxyFrame == UNCHANGED <<vars, past>>

LEMMA ProxyFrameEffect ==
  ASSUME ProxyFrame
  PROVE  /\ UNCHANGED <<sessions, pendingHandshakes, window, handlers, created, established>>
         /\ UNCHANGED <<losses, repeated, executed>>
BY DEF ProxyFrame, vars, maps, limiter, history, past

LEMMA BeginStep ==
  ASSUME PInv, NEW c \in Calls, NEW n \in Nat, ProxyFrame,
         BeginHandshake(c, n), channel' \in {channel, NoSession},
         \/ call[c].pc = "idle" /\ n = 0
         \/ /\ call[c].pc = "request" /\ call[c].reply.status = "401"
            /\ n = call[c].attempt + 1
  PROVE  PInv'
<1> USE ProxyFrameEffect
<1>1. Typed /\ NoSession \in Ids /\ "init" \in Exchanges
  BY DEF PInv, Ids, Exchanges
<1>2. PICK e \in Mail :
        /\ call' \in [Calls -> CallStates]
        /\ net' \subseteq Mail
        /\ \A d \in Calls : d # c => call'[d] = call[d]
        /\ call'[c].pc = "init" /\ call'[c].attempt = n
        /\ call'[c].reply = NoReply
        /\ net' = net \cup {e}
        /\ e.call = c /\ e.type = "init" /\ e.attempt = n
  BY <1>1, FetchEffect DEF BeginHandshake
<1>3. UNCHANGED sendCounter
  BY DEF BeginHandshake
<1>4. call[c] \in CallStates /\ call'[c] \in CallStates
  BY <1>1, <1>2 DEF Typed, ServerTyped
<1>5. Typed'
  BY <1>1, <1>2, <1>3 DEF Typed, ServerTyped
<1>6. OnEstablished'
  BY <1>1, <1>2 DEF PInv, OnEstablished, ServedOnlyWhenFinished, Typed, ServerTyped, Mail
<1>7. Ordered'
  BY <1>1, <1>2, <1>4 DEF PInv, Ordered, InOrder, Typed, ServerTyped, Mail, CallStates
<1>8. Numbered'
  BY <1>1, <1>2, <1>3 DEF PInv, Numbered, Typed, ServerTyped, Mail
<1>9. LossesCounted'
  BY <1>1, <1>2, <1>4, NoSessionAssumption
  DEF PInv, LossesCounted, Forgotten, RetriesBoundedByLosses, SessionOf, NoReply,
      Typed, ServerTyped, CallStates
<1>10. ResultsAreRuns'
  BY <1>1, <1>2 DEF PInv, ResultsAreRuns, RequestOf
<1>11. \A d \in Calls : RequestsOf(d)' = RequestsOf(d)
  BY <1>2 DEF RequestsOf
<1>12. c \notin repeated => executed[c] = 0 /\ RequestsOf(c) = {}
  BY <1>1, <1>4
  DEF PInv, Typed, ServerTyped, CallStates, RunOnceIfUnrepeated, BeforeRequest, RequestsOf,
      Ordered, InOrder, NoReply
<1>13. RunOnceIfUnrepeated'
  BY <1>2, <1>11, <1>12 DEF PInv, RunOnceIfUnrepeated
<1>14. RunOnceIfNothingLost'
  <2>1. n = 0 => executed[c] = 0
    BY <1>4 DEF PInv, RunOnceIfNothingLost, BeforeRequest, CallStates
  <2> QED
    BY <1>2, <1>11, <2>1 DEF PInv, RunOnceIfNothingLost, BeforeRequest
<1> QED
  BY <1>5, <1>6, <1>7, <1>8, <1>9, <1>10, <1>13, <1>14 DEF PInv

LEMMA FinishSent ==
  ASSUME PInv, NEW c \in Calls, NEW s \in Ids, NEW n \in Nat, ProxyFrame,
         call[c].pc = "init", s = call[c].reply.session, n = call[c].attempt,
         Fetch(c, "finish", s, 0, n),
         UNCHANGED <<channel, sendCounter>>
  PROVE  PInv'
<1> USE ProxyFrameEffect
<1>1. Typed /\ "finish" \in Exchanges
  BY DEF PInv, Exchanges
<1>2. call[c] \in CallStates
  BY <1>1 DEF Typed, ServerTyped, CallStates
<1>3. PICK e \in Mail :
        /\ call' \in [Calls -> CallStates]
        /\ net' \subseteq Mail
        /\ \A d \in Calls : d # c => call'[d] = call[d]
        /\ call'[c].pc = "finish" /\ call'[c].attempt = n
        /\ call'[c].session = s /\ call'[c].reply = NoReply
        /\ net' = net \cup {e}
        /\ e.call = c /\ e.type = "finish" /\ e.attempt = n
        /\ e.session = s
  BY <1>1, FetchEffect
<1>4. call'[c] \in CallStates
  BY <1>3
<1>5. Typed'
  BY <1>1, <1>3 DEF Typed, ServerTyped
<1>6. OnEstablished'
  BY <1>1, <1>3 DEF PInv, OnEstablished, ServedOnlyWhenFinished, Typed, ServerTyped, Mail, NoReply
<1>7. Ordered'
  BY <1>1, <1>2, <1>3, <1>4 DEF PInv, Ordered, InOrder, Typed, ServerTyped, Mail, CallStates
<1>8. Numbered'
  BY <1>1, <1>3 DEF PInv, Numbered, Typed, ServerTyped, Mail
<1>9. LossesCounted'
  <2>1. SessionOf(call[c]) = s /\ SessionOf(call'[c]) = s
    BY <1>3 DEF SessionOf
  <2>2. \A d \in Calls : SessionOf(call'[d]) = SessionOf(call[d])
    BY <1>3, <2>1
  <2> QED
    BY <1>3, <2>2 DEF PInv, LossesCounted, Forgotten, RetriesBoundedByLosses, Exchanges
<1>10. ResultsAreRuns'
  BY <1>1, <1>3 DEF PInv, ResultsAreRuns, RequestOf
<1>11. \A d \in Calls : RequestsOf(d)' = RequestsOf(d)
  BY <1>3 DEF RequestsOf
<1>12. RunOnceIfUnrepeated'
  BY <1>3, <1>11 DEF PInv, RunOnceIfUnrepeated, BeforeRequest
<1>13. RunOnceIfNothingLost'
  BY <1>3, <1>11 DEF PInv, RunOnceIfNothingLost, BeforeRequest
<1> QED
  BY <1>5, <1>6, <1>7, <1>8, <1>9, <1>10, <1>12, <1>13 DEF PInv

LEMMA RequestSent ==
  ASSUME PInv, NEW c \in Calls, NEW s \in established, NEW n \in Nat, ProxyFrame,
         SendRequest(c, s, n), channel' \in {channel, s},
         \/ call[c].pc = "idle" /\ n = 0
         \/ call[c].pc = "finish" /\ n = call[c].attempt /\ s = call[c].session
  PROVE  PInv'
<1> USE ProxyFrameEffect
<1>1. Typed /\ s \in Ids /\ s \in SessionIds /\ "request" \in Exchanges
  BY DEF PInv, Typed, ServerTyped, Ids, Exchanges
<1>2. sendCounter[s] \in Nat
  BY <1>1 DEF Typed, ServerTyped
<1>3. PICK e \in Mail :
        /\ call' \in [Calls -> CallStates]
        /\ net' \subseteq Mail
        /\ \A d \in Calls : d # c => call'[d] = call[d]
        /\ call'[c].pc = "request" /\ call'[c].attempt = n
        /\ call'[c].session = s /\ call'[c].counter = sendCounter[s]
        /\ call'[c].reply = NoReply
        /\ net' = net \cup {e}
        /\ e.call = c /\ e.type = "request" /\ e.attempt = n
        /\ e.session = s /\ e.counter = sendCounter[s]
  BY <1>1, <1>2, FetchEffect DEF SendRequest
<1>4. call[c] \in CallStates /\ call'[c] \in CallStates
  BY <1>1, <1>3 DEF Typed, ServerTyped
<1>5. /\ sendCounter' \in [SessionIds -> Nat]
      /\ sendCounter'[s] = sendCounter[s] + 1
      /\ \A t \in SessionIds : sendCounter'[t] >= sendCounter[t]
  BY <1>1 DEF SendRequest, Typed, ServerTyped
<1>6. Typed'
  BY <1>1, <1>3, <1>5 DEF Typed, ServerTyped
<1>7. OnEstablished'
  BY <1>1, <1>3 DEF PInv, OnEstablished, ServedOnlyWhenFinished, Typed, ServerTyped, Mail, NoReply
<1>8. Ordered'
  BY <1>1, <1>3, <1>4 DEF PInv, Ordered, InOrder, Typed, ServerTyped, Mail, CallStates
<1>9. Numbered'
  <2>1. \A m \in net : m.type = "request" =>
          /\ m.session \in SessionIds
          /\ m.counter < sendCounter[m.session]
          /\ m.counter < sendCounter'[m.session]
    BY <1>1, <1>5 DEF PInv, OnEstablished, Numbered, Typed, ServerTyped, Mail
  <2>2. \A d \in Calls : d # c /\ call[d].pc = "request" =>
          /\ call[d].session \in SessionIds
          /\ call[d].counter < sendCounter[call[d].session]
          /\ call[d].counter < sendCounter'[call[d].session]
    BY <1>1, <1>5 DEF PInv, OnEstablished, Numbered, Typed, ServerTyped, CallStates
  <2>3. \A h \in handlers' : h.counter < sendCounter'[h.session]
    BY <1>1, <1>5 DEF PInv, Numbered, Typed, ServerTyped
  <2>4. ASSUME NEW m \in net', NEW d \in Calls,
               m.type = "request", call'[d].pc = "request",
               m.session = call'[d].session, m.counter = call'[d].counter
        PROVE  m.call = d
    <3>1. CASE m \in net /\ d # c
      BY <1>3, <2>4, <3>1 DEF PInv, Numbered
    <3>2. CASE m \in net /\ d = c
      BY <1>2, <1>3, <2>1, <2>4, <3>2 DEF Typed, ServerTyped, Mail
    <3>3. CASE m = e /\ d # c
      BY <1>2, <1>3, <2>2, <2>4, <3>3
    <3>4. CASE m = e /\ d = c
      BY <1>3, <3>4
    <3> QED
      BY <1>3, <3>1, <3>2, <3>3, <3>4
  <2>5. /\ \A m \in net' : m.type = "request" => m.counter < sendCounter'[m.session]
        /\ \A d \in Calls : call'[d].pc = "request" =>
             call'[d].counter < sendCounter'[call'[d].session]
    BY <1>2, <1>3, <1>5, <2>1, <2>2
  <2> QED
    BY <2>3, <2>4, <2>5 DEF Numbered
<1>10. LossesCounted'
  <2>1. s \in Forgotten => n < losses
    BY <1>4 DEF PInv, LossesCounted, SessionOf, Exchanges, Forgotten
  <2>2. n <= losses
    BY <1>1, <1>4 DEF PInv, LossesCounted, RetriesBoundedByLosses, Typed
  <2>3. SessionOf(call'[c]) = s /\ call'[c].reply.status # "401"
    BY <1>3 DEF SessionOf, NoReply
  <2>4. \A d \in Calls : d # c => call'[d] = call[d]
    BY <1>3
  <2> QED
    BY <1>3, <2>1, <2>2, <2>3, <2>4
    DEF PInv, LossesCounted, Forgotten, RetriesBoundedByLosses
<1>11. ResultsAreRuns'
  BY <1>1, <1>3 DEF PInv, ResultsAreRuns, RequestOf, Numbered, NoReply, Typed, ServerTyped
<1>12. /\ \A d \in Calls : d # c => RequestsOf(d)' = RequestsOf(d)
       /\ RequestsOf(c)' = RequestsOf(c) \cup {e}
  BY <1>3 DEF RequestsOf
<1>13. RunOnceIfUnrepeated'
  <2>1. c \notin repeated => executed[c] = 0 /\ RequestsOf(c) = {}
    BY <1>1, <1>4
    DEF PInv, Typed, ServerTyped, CallStates, RunOnceIfUnrepeated, BeforeRequest, RequestsOf,
        Ordered, InOrder
  <2>2. e.attempt = call'[c].attempt /\ call'[c].reply.status = "none"
    BY <1>3 DEF NoReply
  <2> QED
    BY <1>3, <1>12, <2>1, <2>2 DEF PInv, RunOnceIfUnrepeated, BeforeRequest
<1>14. RunOnceIfNothingLost'
  <2>1. ASSUME losses = 0 PROVE executed[c] = 0
    BY <1>1, <1>4, <2>1
    DEF PInv, RunOnceIfNothingLost, BeforeRequest, LossesCounted,
        RetriesBoundedByLosses, Typed, ServerTyped, CallStates
  <2> QED
    BY <1>3, <1>12, <2>1 DEF PInv, RunOnceIfNothingLost, BeforeRequest
<1> QED
  BY <1>6, <1>7, <1>8, <1>9, <1>10, <1>11, <1>13, <1>14 DEF PInv

LEMMA CallOver ==
  ASSUME PInv, NEW c \in Calls, NEW pc \in {"done", "failed"}, ProxyFrame,
         Over(c, pc), UNCHANGED <<channel, sendCounter>>,
         call[c].pc \in Exchanges,
         pc = "done" => call[c].pc = "request" /\ call[c].reply.status = "result"
  PROVE  PInv'
<1> USE ProxyFrameEffect
<1>1. Typed
  BY DEF PInv
<1>2. /\ call' \in [Calls -> CallStates]
      /\ net' = net
      /\ \A d \in Calls : d # c => call'[d] = call[d]
      /\ call'[c].pc = pc /\ call'[c].attempt = call[c].attempt
      /\ call'[c].session = call[c].session /\ call'[c].counter = call[c].counter
  BY <1>1, OverEffect
<1>3. pc \notin Exchanges \cup BeforeRequest
  BY DEF Exchanges, BeforeRequest
<1>4. Typed'
  BY <1>1, <1>2 DEF Typed, ServerTyped
<1>5. OnEstablished'
  BY <1>2, <1>3 DEF PInv, OnEstablished, ServedOnlyWhenFinished, Exchanges
<1>6. Ordered'
  BY <1>1, <1>2, <1>3
  DEF PInv, Ordered, InOrder, Typed, ServerTyped, Mail, Exchanges, BeforeRequest
<1>7. Numbered'
  BY <1>2, <1>3 DEF PInv, Numbered, Exchanges
<1>8. LossesCounted'
  BY <1>2, <1>3
  DEF PInv, LossesCounted, Forgotten, RetriesBoundedByLosses, SessionOf, Exchanges
<1>9. ResultsAreRuns'
  BY <1>2 DEF PInv, ResultsAreRuns, RequestOf
<1>10. \A d \in Calls : RequestsOf(d)' = RequestsOf(d)
  BY <1>2 DEF RequestsOf
<1>11. RunOnceIfUnrepeated'
  BY <1>2, <1>3, <1>10 DEF PInv, RunOnceIfUnrepeated, Exchanges
<1>12. RunOnceIfNothingLost'
  BY <1>2, <1>3, <1>10 DEF PInv, RunOnceIfNothingLost
<1> QED
  BY <1>4, <1>5, <1>6, <1>7, <1>8, <1>9, <1>11, <1>12 DEF PInv

LEMMA ProxyStepPInv ==
  ASSUME PInv, NEW c \in Calls, ProxyStep(c)
  PROVE  PInv'
<1>1. ProxyFrame /\ Typed /\ call[c] \in CallStates
  BY DEF ProxyStep, ProxyFrame, PInv, Typed, ServerTyped
<1>2. call[c].reply.session \in Ids /\ call[c].attempt \in Nat
  BY <1>1 DEF CallStates, Replies
<1>3. CASE Start(c)
  <2>1. CASE channel = NoSession /\ BeginHandshake(c, 0)
    BY <1>1, <1>3, <2>1, BeginStep DEF Start
  <2>2. CASE channel # NoSession /\ SendRequest(c, channel, 0)
    BY <1>1, <1>3, <2>2, RequestSent DEF Start, PInv, OnEstablished
  <2> QED
    BY <1>3, <2>1, <2>2 DEF Start
<1>4. CASE OnInitReply(c)
  BY <1>1, <1>2, <1>4, FinishSent, CallOver DEF OnInitReply, Awaits, Exchanges
<1>5. CASE OnFinishReply(c)
  <2>1. call[c].pc = "finish"
    BY <1>5 DEF OnFinishReply, Awaits
  <2>2. CASE call[c].reply.status = "ok" /\ channel' = call[c].session
             /\ SendRequest(c, call[c].session, call[c].attempt)
    <3>1. call[c].session \in established
      BY <2>1, <2>2 DEF PInv, OnEstablished
    <3> QED
      BY <1>1, <1>2, <2>1, <2>2, <3>1, RequestSent
  <2>3. CASE Over(c, "failed") /\ UNCHANGED <<channel, sendCounter>>
    BY <1>1, <2>1, <2>3, CallOver DEF Exchanges
  <2> QED
    BY <1>5, <2>2, <2>3 DEF OnFinishReply
<1>6. CASE OnResponse(c)
  <2>1. call[c].pc = "request" /\ call[c].pc \in Exchanges
    BY <1>6 DEF OnResponse, Awaits, Exchanges
  <2>2. CASE call[c].reply.status = "result" /\ Over(c, "done")
             /\ UNCHANGED <<channel, sendCounter>>
    BY <1>1, <2>1, <2>2, CallOver
  <2>3. CASE call[c].reply.status = "401" /\ channel' = NoSession
             /\ BeginHandshake(c, call[c].attempt + 1)
    BY <1>1, <1>2, <2>1, <2>3, BeginStep
  <2>4. CASE Over(c, "failed") /\ UNCHANGED <<channel, sendCounter>>
    BY <1>1, <2>1, <2>4, CallOver
  <2> QED
    BY <1>6, <2>2, <2>3, <2>4 DEF OnResponse
<1> QED
  BY <1>3, <1>4, <1>5, <1>6 DEF ProxyStep

-----------------------------------------------------------------------------
(***************************************************************************)
(* The server takes a message: what is left on the wire was there before,  *)
(* and the message itself only if its call counts as repeated.             *)
(***************************************************************************)
LEMMA TakeEffect ==
  ASSUME NEW m \in net, Take(m)
  PROVE  /\ net' \subseteq net
         /\ repeated \subseteq repeated'
         /\ m \in net' => m.call \in repeated'
         /\ \A c \in Calls : RequestsOf(c)' \subseteq RequestsOf(c)
BY DEF Take, RequestsOf

LEMMA AnswerEffect ==
  ASSUME Typed, NEW m \in net, NEW status \in Statuses, NEW s \in Ids,
         Answer(m, status, s)
  PROVE  /\ call' \in [Calls -> CallStates]
         /\ \A c \in Calls :
              /\ call'[c].pc = call[c].pc
              /\ call'[c].attempt = call[c].attempt
              /\ call'[c].session = call[c].session
              /\ call'[c].counter = call[c].counter
              /\ \/ call'[c] = call[c]
                 \/ /\ c = m.call
                    /\ AwaitedBy(m)
                    /\ call'[c].reply = [status |-> status, session |-> s]
<1>1. m.call \in Calls /\ call[m.call] \in CallStates
  BY DEF Typed, Mail
<1>2. CASE (~AwaitedBy(m) \/ m \in net') /\ UNCHANGED call
  BY <1>2 DEF Typed
<1>3. CASE /\ AwaitedBy(m)
           /\ call' = [call EXCEPT ![m.call].reply = [status |-> status, session |-> s]]
  <2> DEFINE r == [status |-> status, session |-> s]
  <2>1. r \in Replies
    BY DEF Replies
  <2>2. [call[m.call] EXCEPT !.reply = r] \in CallStates
    BY <1>1, <2>1 DEF CallStates
  <2>3. call'[m.call] = [call[m.call] EXCEPT !.reply = r]
    BY <1>1, <1>3 DEF Typed
  <2>4. \A c \in Calls : c # m.call => call'[c] = call[c]
    BY <1>3 DEF Typed
  <2>5. call' \in [Calls -> CallStates]
    BY <1>1, <1>3, <2>2 DEF Typed
  <2>6. /\ call'[m.call].pc = call[m.call].pc
        /\ call'[m.call].attempt = call[m.call].attempt
        /\ call'[m.call].session = call[m.call].session
        /\ call'[m.call].counter = call[m.call].counter
        /\ call'[m.call].reply = r
    BY <1>1, <2>3 DEF CallStates
  <2> QED
    BY <1>1, <1>3, <2>4, <2>5, <2>6
<1> QED
  BY <1>2, <1>3 DEF Answer

(***************************************************************************)
(* The server answers a message without running a tool.                    *)
(***************************************************************************)
LEMMA ReplyStep ==
  ASSUME PInv, NEW m \in net, NEW status \in Statuses \ {"none", "result"}, NEW s \in Ids,
         Take(m), Answer(m, status, s), ServerTyped',
         UNCHANGED <<channel, sendCounter, losses, executed, handlers>>,
         established \subseteq established', Forgotten' = Forgotten,
         \A t \in established : window'[t] = window[t],
         m.type = "init" => s \notin Forgotten,
         m.type = "finish" /\ status = "ok" => m.session \in established',
         status = "401" => m.type = "request" /\ m.session \notin sessions
  PROVE  PInv'
<1>1. Typed /\ m.call \in Calls /\ call[m.call] \in CallStates
  BY DEF PInv, Typed, Mail
<1>2. /\ net' \subseteq net
      /\ repeated \subseteq repeated'
      /\ m \in net' => m.call \in repeated'
      /\ \A c \in Calls : RequestsOf(c)' \subseteq RequestsOf(c)
  BY TakeEffect
<1>3. /\ call' \in [Calls -> CallStates]
      /\ \A c \in Calls :
           /\ call'[c].pc = call[c].pc
           /\ call'[c].attempt = call[c].attempt
           /\ call'[c].session = call[c].session
           /\ call'[c].counter = call[c].counter
           /\ \/ call'[c] = call[c]
              \/ /\ c = m.call
                 /\ AwaitedBy(m)
                 /\ call'[c].reply = [status |-> status, session |-> s]
  BY <1>1, AnswerEffect
<1>4. AwaitedBy(m) =>
        /\ call[m.call].pc = m.type
        /\ call[m.call].attempt = m.attempt
        /\ m.type \in {"finish", "request"} => call[m.call].session = m.session
  BY DEF AwaitedBy, PInv, Ordered, InOrder
<1>5. Typed'
  BY <1>1, <1>2, <1>3 DEF Typed
<1>6. OnEstablished'
  BY <1>2, <1>3, <1>4 DEF PInv, OnEstablished, ServedOnlyWhenFinished
<1>7. Ordered'
  BY <1>1, <1>2, <1>3 DEF PInv, Ordered, InOrder, Typed, Mail
<1>8. Numbered'
  BY <1>2, <1>3 DEF PInv, Numbered
<1>9. LossesCounted'
  <2>1. status = "401" /\ AwaitedBy(m) => call[m.call].attempt < losses
    BY <1>1, <1>4
    DEF PInv, OnEstablished, LossesCounted, SessionOf, Forgotten, Exchanges
  <2>2. \A c \in Calls : SessionOf(call'[c]) \in Forgotten => SessionOf(call[c]) \in Forgotten
    BY <1>3, <1>4 DEF SessionOf
  <2>3. \A c \in Calls :
          call'[c].pc = "request" /\ call'[c].reply.status = "401" => call[c].attempt < losses
    BY <1>3, <2>1 DEF PInv, LossesCounted
  <2> QED
    BY <1>3, <2>2, <2>3 DEF PInv, LossesCounted, RetriesBoundedByLosses
<1>10. ResultsAreRuns'
  BY <1>3 DEF PInv, ResultsAreRuns, RequestOf
<1>11. RunOnceIfUnrepeated'
  <2>1. status = "401" => m \in RequestsOf(m.call)
    BY DEF RequestsOf
  <2>2. m.type = "request" => m \in RequestsOf(m.call)
    BY DEF RequestsOf
  <2>3. SUFFICES ASSUME NEW c \in Calls \ repeated'
        PROVE  /\ executed[c] <= 1
               /\ call'[c].pc \in BeforeRequest => executed[c] = 0
               /\ call'[c].pc = "request" /\ call'[c].reply.status = "401" => executed[c] = 0
               /\ \A x, y \in RequestsOf(c)' : x = y
               /\ \A x \in RequestsOf(c)' :
                    /\ executed[c] = 0
                    /\ x.attempt = call'[c].attempt
                    /\ call'[c].pc = "request" => call'[c].reply = NoReply
    BY DEF RunOnceIfUnrepeated
  <2>4. c \in Calls \ repeated
    BY <1>2
  <2>5. CASE call'[c] = call[c]
    BY <1>2, <2>4, <2>5 DEF PInv, RunOnceIfUnrepeated
  <2>6. CASE c = m.call /\ AwaitedBy(m) /\ call'[c].reply = [status |-> status, session |-> s]
    <3>1. m \notin RequestsOf(c)'
      BY <1>2, <2>3, <2>6 DEF RequestsOf
    <3>2. call[c].pc = "request" => RequestsOf(c)' = {} /\ executed[c] = 0
      BY <1>2, <1>4, <2>2, <2>4, <2>6, <3>1 DEF PInv, RunOnceIfUnrepeated
    <3> QED
      BY <1>2, <1>3, <2>4, <2>6, <3>2 DEF PInv, RunOnceIfUnrepeated
  <2> QED
    BY <1>3, <2>5, <2>6
<1>12. RunOnceIfNothingLost'
  <2>1. \A c \in Calls : \A x \in RequestsOf(c) : window'[x.session] = window[x.session]
    BY DEF PInv, OnEstablished, RequestsOf
  <2> QED
    BY <1>2, <1>3, <2>1 DEF PInv, RunOnceIfNothingLost
<1> QED
  BY <1>5, <1>6, <1>7, <1>8, <1>9, <1>10, <1>11, <1>12 DEF PInv

(***************************************************************************)
(* The server decrypts a request and starts its tool.                      *)
(***************************************************************************)
LEMMA RunStep ==
  ASSUME PInv, NEW m \in net, Take(m), m.type = "request",
         Admits(window[m.session], m.counter),
         window' = [window EXCEPT ![m.session] = Record(@, m.counter)],
         handlers' = handlers \cup {[session |-> m.session, counter |-> m.counter]},
         executed' = [executed EXCEPT ![m.call] = @ + 1],
         UNCHANGED <<call, channel, sendCounter, losses>>,
         UNCHANGED <<sessions, pendingHandshakes, created, established>>
  PROVE  PInv'
<1> DEFINE c == m.call
           h == [session |-> m.session, counter |-> m.counter]
<1>1. /\ Typed /\ c \in Calls /\ call[c] \in CallStates
      /\ m.session \in established /\ m.session \in SessionIds
      /\ m.counter \in Nat /\ m.attempt \in Nat
  BY DEF PInv, Typed, ServerTyped, Mail, OnEstablished
<1>2. /\ net' \subseteq net
      /\ repeated \subseteq repeated'
      /\ m \in net' => c \in repeated'
      /\ \A d \in Calls : RequestsOf(d)' \subseteq RequestsOf(d)
  BY TakeEffect
<1>3. /\ executed' \in [Calls -> Nat]
      /\ executed'[c] = executed[c] + 1
      /\ \A d \in Calls : d # c => executed'[d] = executed[d]
  BY <1>1 DEF Typed
<1>4. /\ window' \in [SessionIds -> Windows]
      /\ window'[m.session] = Record(window[m.session], m.counter)
      /\ \A t \in SessionIds : t # m.session => window'[t] = window[t]
  BY <1>1, RecordedIsRefused DEF Typed, ServerTyped
<1>5. Typed'
  BY <1>1, <1>2, <1>3, <1>4 DEF Typed, ServerTyped
<1>6. OnEstablished'
  BY <1>1, <1>2 DEF PInv, OnEstablished, ServedOnlyWhenFinished
<1>7. Ordered'
  BY <1>2 DEF PInv, Ordered, InOrder
<1>8. Numbered'
  BY <1>2 DEF PInv, Numbered
<1>9. LossesCounted'
  BY DEF PInv, LossesCounted, Forgotten, RetriesBoundedByLosses
<1>10. ResultsAreRuns'
  <2>1. \A d \in Calls : executed'[d] >= executed[d] /\ executed[d] \in Nat /\ executed'[d] \in Nat
    BY <1>1, <1>3 DEF Typed
  <2>2. \A d \in Calls : call[d].pc = "request" /\ RequestOf(d) = h => executed'[d] >= 1
    BY <1>1, <1>3, <2>1 DEF PInv, Numbered, RequestOf
  <2> QED
    BY <2>1, <2>2 DEF PInv, ResultsAreRuns, RequestOf
<1>11. m \in RequestsOf(c)
  BY DEF RequestsOf
<1>12. RunOnceIfUnrepeated'
  <2>1. \A d \in Calls \ repeated' : d # c =>
          executed'[d] = executed[d] /\ d \notin repeated
    BY <1>2, <1>3
  <2>2. ASSUME c \notin repeated'
        PROVE  /\ executed[c] = 0
               /\ RequestsOf(c)' = {}
               /\ call[c].pc \notin BeforeRequest
               /\ call[c].pc = "request" => call[c].reply.status # "401"
    <3>1. /\ executed[c] = 0
          /\ m.attempt = call[c].attempt
          /\ call[c].pc = "request" => call[c].reply = NoReply
          /\ \A x, y \in RequestsOf(c) : x = y
      BY <1>1, <1>2, <1>11, <2>2 DEF PInv, RunOnceIfUnrepeated
    <3>2. m \notin RequestsOf(c)'
      BY <1>2, <2>2 DEF RequestsOf
    <3>3. call[c].pc \notin BeforeRequest
      BY <3>1 DEF PInv, Ordered, InOrder, BeforeRequest
    <3> QED
      BY <1>1, <1>2, <1>11, <3>1, <3>2, <3>3 DEF NoReply
  <2> QED
    BY <1>1, <1>2, <1>3, <2>1, <2>2 DEF PInv, RunOnceIfUnrepeated
<1>13. RunOnceIfNothingLost'
  <2>1. call[c].attempt = 0 => call[c].pc \notin BeforeRequest
    BY <1>1 DEF PInv, Ordered, InOrder, BeforeRequest, CallStates
  <2>2. call[c].pc # "idle"
    BY DEF PInv, Ordered, InOrder
  <2>3. \A d \in Calls :
          /\ call[d].pc \in BeforeRequest
          /\ call[d].pc = "idle" \/ call[d].attempt = 0
          => executed'[d] = 0
    BY <1>3, <2>1, <2>2 DEF PInv, RunOnceIfNothingLost
  <2>4. ASSUME losses = 0, NEW d \in Calls
        PROVE  /\ executed'[d] <= 1
               /\ executed'[d] = 1 =>
                    \A x \in RequestsOf(d)' : ~Admits(window'[x.session], x.counter)
    <3>1. executed[c] = 0
      BY <1>1, <1>11, <2>4 DEF PInv, RunOnceIfNothingLost, Typed
    <3>2. \A x \in RequestsOf(c) : x.session = m.session /\ x.counter = m.counter
      <4>1. call[c].attempt = 0
        BY <1>1, <2>4 DEF PInv, LossesCounted, RetriesBoundedByLosses, CallStates
      <4> QED
        BY <1>1, <4>1 DEF PInv, Ordered, InOrder, RequestsOf, Typed, Mail
    <3>3. CASE d = c
      BY <1>1, <1>2, <1>3, <1>4, <3>1, <3>2, <3>3, RecordedIsRefused
      DEF Typed, ServerTyped
    <3>4. CASE d # c
      <4>1. \A x \in RequestsOf(d) : x.session \in SessionIds /\ x.counter \in Nat
        BY <1>1 DEF PInv, OnEstablished, RequestsOf, Typed, ServerTyped, Mail
      <4>2. ASSUME NEW x \in RequestsOf(d), ~Admits(window[x.session], x.counter)
            PROVE  ~Admits(window'[x.session], x.counter)
        BY <1>1, <1>4, <4>1, <4>2, RefusedStaysRefused DEF Typed, ServerTyped
      <4> QED
        BY <1>2, <1>3, <2>4, <3>4, <4>2 DEF PInv, RunOnceIfNothingLost
    <3> QED
      BY <3>3, <3>4
  <2> QED
    BY <2>3, <2>4 DEF RunOnceIfNothingLost
<1> QED
  BY <1>5, <1>6, <1>7, <1>8, <1>9, <1>10, <1>12, <1>13 DEF PInv

-----------------------------------------------------------------------------
(***************************************************************************)
(* The handlers of the server, answering a message of the proxy.           *)
(***************************************************************************)
LEMMA InitHandlerEffect ==
  ASSUME PInv, NEW s \in SessionIds, HandshakeInit(s)
  PROVE  /\ ServerTyped'
         /\ UNCHANGED <<established, handlers>>
         /\ Forgotten' = Forgotten
         /\ s \notin Forgotten
         /\ \A t \in established : window'[t] = window[t]
<1>1. ServerTyped
  BY DEF PInv, Typed
<1> QED
  BY <1>1, NewWindowType DEF ServerTyped, HandshakeInit, Forgotten

LEMMA ServeInitStep ==
  ASSUME PInv, NEW m \in net, Take(m), ServeInit(m),
         UNCHANGED <<channel, sendCounter, losses>>
  PROVE  PInv'
<1>1. m.type = "init" /\ FreshId \in SessionIds /\ UNCHANGED executed
  BY DEF ServeInit
<1>2. ServerTyped /\ NoSession \notin Forgotten /\ NoSession \in Ids
  BY NoSessionAssumption DEF PInv, Typed, ServerTyped, Forgotten, Ids
<1>3. CASE HandshakeInit(FreshId) /\ Answer(m, "ok", FreshId)
  BY <1>1, <1>3, InitHandlerEffect, ReplyStep DEF Statuses, Ids
<1>4. CASE HandshakeInit(FreshId) /\ Answer(m, "ok", NoSession)
  BY <1>1, <1>2, <1>4, InitHandlerEffect, ReplyStep DEF Statuses
<1>5. CASE UNCHANGED vars /\ Answer(m, "403", NoSession)
  <2>1. ServerTyped' /\ UNCHANGED <<established, handlers, window>> /\ Forgotten' = Forgotten
    BY <1>2, <1>5 DEF vars, maps, history, ServerTyped, Forgotten
  <2> QED
    BY <1>1, <1>2, <1>5, <2>1, ReplyStep DEF Statuses
<1> QED
  BY <1>3, <1>4, <1>5 DEF ServeInit

LEMMA ServeFinishStep ==
  ASSUME PInv, NEW m \in net, Take(m), ServeFinish(m),
         UNCHANGED <<channel, sendCounter, losses>>
  PROVE  PInv'
<1>1. m.type = "finish" /\ UNCHANGED executed /\ m.session \in Ids
  BY DEF ServeFinish, PInv, Typed, Mail
<1>2. ServerTyped /\ NoSession \in Ids
  BY DEF PInv, Typed, Ids
<1>3. CASE FinishUnknown(m.session) /\ Answer(m, "404", NoSession)
  <2>1. ServerTyped' /\ UNCHANGED <<established, handlers, window>> /\ Forgotten' = Forgotten
    BY <1>2, <1>3 DEF FinishUnknown, vars, maps, history, ServerTyped, Forgotten
  <2> QED
    BY <1>1, <1>2, <1>3, <2>1, ReplyStep DEF Statuses
<1>4. CASE FinishUnverified(m.session) /\ Answer(m, "403", NoSession)
  <2>1. ServerTyped' /\ UNCHANGED <<established, handlers, window>> /\ Forgotten' = Forgotten
    BY <1>2, <1>4 DEF FinishUnverified, history, ServerTyped, Forgotten
  <2> QED
    BY <1>1, <1>2, <1>4, <2>1, ReplyStep DEF Statuses
<1>5. CASE FinishVerified(m.session) /\ Answer(m, "ok", m.session)
  <2>1. /\ ServerTyped' /\ UNCHANGED <<handlers, window>> /\ Forgotten' = Forgotten
        /\ established' = established \cup {m.session}
    BY <1>2, <1>5 DEF FinishVerified, ServerTyped, Forgotten
  <2> QED
    BY <1>1, <1>2, <1>5, <2>1, ReplyStep DEF Statuses
<1> QED
  BY <1>3, <1>4, <1>5 DEF ServeFinish

LEMMA ServeRequestStep ==
  ASSUME PInv, NEW m \in net, Take(m), ServeRequest(m),
         UNCHANGED <<channel, sendCounter, losses>>
  PROVE  PInv'
<1> DEFINE r == [counter |-> m.counter, intact |-> m.intact]
<1>1. m.type = "request"
  BY DEF ServeRequest
<1>2. ServerTyped /\ NoSession \in Ids
  BY DEF PInv, Typed, Ids
<1>3. ASSUME NEW status \in {"401", "429", "error"}, Answer(m, status, NoSession),
             UNCHANGED <<maps, window, handlers, history, executed>>,
             status = "401" => m.session \notin sessions
      PROVE  PInv'
  <2>1. ServerTyped' /\ UNCHANGED <<established, window>> /\ Forgotten' = Forgotten
    BY <1>2, <1>3 DEF maps, history, ServerTyped, Forgotten
  <2>2. status \in Statuses \ {"none", "result"}
    BY DEF Statuses
  <2> QED
    BY <1>1, <1>2, <1>3, <2>1, <2>2, ReplyStep
<1>4. CASE RequestUnknown(m.session) /\ Answer(m, "401", NoSession) /\ UNCHANGED executed
  BY <1>3, <1>4 DEF RequestUnknown, vars
<1>5. CASE RequestLimited(m.session) /\ Answer(m, "429", NoSession) /\ UNCHANGED executed
  BY <1>3, <1>5 DEF RequestLimited
<1>6. CASE RequestUnreadable(m.session, r) /\ Answer(m, "error", NoSession) /\ UNCHANGED executed
  BY <1>3, <1>6 DEF RequestUnreadable
<1>7. CASE /\ RequestDispatched(m.session, r)
           /\ executed' = [executed EXCEPT ![m.call] = @ + 1]
           /\ UNCHANGED call
  BY <1>1, <1>7, RunStep DEF RequestDispatched, maps, history
<1> QED
  BY <1>4, <1>5, <1>6, <1>7 DEF ServeRequest

LEMMA ServeStep ==
  ASSUME PInv, NEW m \in net, Serve(m)
  PROVE  PInv'
BY ServeInitStep, ServeFinishStep, ServeRequestStep DEF Serve

(***************************************************************************)
(* A tool handler settles: the result reaches the call whose request it    *)
(* ran.                                                                    *)
(***************************************************************************)
LEMMA ReturnStep ==
  ASSUME PInv, NEW h \in handlers, Return(h)
  PROVE  PInv'
<1> DEFINE r == [status |-> "result", session |-> NoSession]
<1>1. Typed /\ ServerTyped
  BY DEF PInv, Typed
<1>2. /\ UNCHANGED <<sessions, pendingHandshakes, created, established, window>>
      /\ UNCHANGED <<channel, sendCounter, net, losses, repeated, executed>>
      /\ handlers' \subseteq handlers
  BY DEF Return, HandlerReturns, maps, history, past
<1>3. r \in Replies
  BY DEF Replies, Statuses, Ids
<1>4. \A c \in Calls : [call[c] EXCEPT !.reply = r] \in CallStates
  BY <1>1, <1>3 DEF Typed, CallStates
<1>5. call' \in [Calls -> CallStates]
  BY <1>1, <1>4 DEF Typed, Return
<1>6. \A c \in Calls :
        /\ call'[c].pc = call[c].pc
        /\ call'[c].attempt = call[c].attempt
        /\ call'[c].session = call[c].session
        /\ call'[c].counter = call[c].counter
        /\ \/ call'[c] = call[c]
           \/ c \in Requesters(h) /\ call'[c].reply = r
  BY <1>1 DEF Typed, CallStates, Return
<1>7. \A c \in Requesters(h) : c \in Calls /\ call[c].pc = "request" /\ executed[c] >= 1
  BY DEF Requesters, PInv, ResultsAreRuns
<1>8. Typed'
  BY <1>1, <1>2, <1>5 DEF Typed, ServerTyped
<1>9. OnEstablished'
  BY <1>2, <1>6, <1>7 DEF PInv, OnEstablished, ServedOnlyWhenFinished
<1>10. Ordered' /\ Numbered'
  BY <1>1, <1>2, <1>6 DEF PInv, Ordered, InOrder, Numbered, Typed, Mail
<1>11. LossesCounted'
  <2>1. \A c \in Calls : SessionOf(call'[c]) = SessionOf(call[c])
    BY <1>6, <1>7 DEF SessionOf
  <2> QED
    BY <1>2, <1>6, <2>1 DEF PInv, LossesCounted, Forgotten, RetriesBoundedByLosses
<1>12. ResultsAreRuns'
  BY <1>2, <1>6, <1>7 DEF PInv, ResultsAreRuns, RequestOf
<1>13. \A c \in Calls : RequestsOf(c)' = RequestsOf(c)
  BY <1>2 DEF RequestsOf
<1>14. RunOnceIfUnrepeated'
  <2>1. \A c \in Calls : executed[c] = 0 => call'[c] = call[c]
    BY <1>6, <1>7
  <2> QED
    BY <1>2, <1>6, <1>13, <2>1 DEF PInv, RunOnceIfUnrepeated
<1>15. RunOnceIfNothingLost'
  BY <1>2, <1>6, <1>13 DEF PInv, RunOnceIfNothingLost
<1> QED
  BY <1>8, <1>9, <1>10, <1>11, <1>12, <1>14, <1>15 DEF PInv

-----------------------------------------------------------------------------
(***************************************************************************)
(* What can go wrong.                                                      *)
(***************************************************************************)
LEMMA FailStep ==
  ASSUME PInv, NEW c \in Calls, Timeout(c) \/ ConnectionLost(c)
  PROVE  PInv'
BY CallOver DEF Timeout, ConnectionLost, Waiting, ProxyFrame

LEMMA DamageStep ==
  ASSUME PInv, NEW m \in net, Damage(m)
  PROVE  PInv'
<1> DEFINE e == [m EXCEPT !.intact = FALSE]
<1>1. Typed /\ ServerTyped /\ m \in Mail
  BY DEF PInv, Typed
<1>2. /\ UNCHANGED <<sessions, pendingHandshakes, created, established, window, handlers>>
      /\ UNCHANGED <<channel, sendCounter, call, losses, repeated, executed>>
  BY DEF Damage, vars, maps, history, proxy, past
<1>3. /\ e \in Mail
      /\ e.type = m.type /\ e.call = m.call /\ e.attempt = m.attempt
      /\ e.session = m.session /\ e.counter = m.counter
  BY <1>1 DEF Mail
<1>4. net' = (net \ {m}) \cup {e}
  BY DEF Damage
<1> HIDE DEF e
<1>5. Typed'
  BY <1>1, <1>2, <1>3, <1>4 DEF Typed, ServerTyped
<1>6. OnEstablished'
  BY <1>2, <1>3, <1>4 DEF PInv, OnEstablished, ServedOnlyWhenFinished
<1>7. Ordered'
  BY <1>2, <1>3, <1>4 DEF PInv, Ordered, InOrder
<1>8. Numbered'
  BY <1>2, <1>3, <1>4 DEF PInv, Numbered
<1>9. LossesCounted'
  BY <1>2 DEF PInv, LossesCounted, Forgotten, RetriesBoundedByLosses
<1>10. ResultsAreRuns'
  BY <1>2 DEF PInv, ResultsAreRuns, RequestOf
<1>11. \A c \in Calls : \A x \in RequestsOf(c)' :
         \/ x \in RequestsOf(c) /\ x # m
         \/ x = e /\ m \in RequestsOf(c)
  BY <1>3, <1>4 DEF RequestsOf
<1>12. RunOnceIfUnrepeated'
  BY <1>2, <1>3, <1>11 DEF PInv, RunOnceIfUnrepeated
<1>13. RunOnceIfNothingLost'
  BY <1>2, <1>3, <1>11 DEF PInv, RunOnceIfNothingLost
<1> QED
  BY <1>5, <1>6, <1>7, <1>8, <1>9, <1>10, <1>12, <1>13 DEF PInv

(***************************************************************************)
(* The server may forget sessions: then losses grows.                      *)
(***************************************************************************)
LEMMA LossStep ==
  ASSUME PInv, UNCHANGED <<proxy, net, repeated, executed, history, window>>,
         sessions' \subseteq sessions, pendingHandshakes' \subseteq pendingHandshakes,
         handlers' \subseteq handlers,
         \/ losses' = losses /\ sessions' = sessions
         \/ losses' = losses + 1
  PROVE  PInv'
<1>1. Typed /\ ServerTyped
  BY DEF PInv, Typed
<1>2. UNCHANGED <<channel, sendCounter, call, created, established>>
  BY DEF proxy, history
<1>3. Typed'
  BY <1>1, <1>2 DEF Typed, ServerTyped
<1>4. OnEstablished'
  BY <1>2 DEF PInv, OnEstablished, ServedOnlyWhenFinished
<1>5. Ordered' /\ Numbered'
  BY <1>2 DEF PInv, Ordered, InOrder, Numbered
<1>6. \A c \in Calls : call[c].attempt \in Nat
  BY <1>1 DEF Typed, CallStates
<1>7. LossesCounted'
  BY <1>1, <1>2, <1>6
  DEF PInv, LossesCounted, Forgotten, RetriesBoundedByLosses, SessionOf, Typed
<1>8. ResultsAreRuns'
  BY <1>2 DEF PInv, ResultsAreRuns, RequestOf
<1>9. \A c \in Calls : RequestsOf(c)' = RequestsOf(c)
  BY DEF RequestsOf
<1>10. RunOnceIfUnrepeated'
  BY <1>2, <1>9 DEF PInv, RunOnceIfUnrepeated
<1>11. RunOnceIfNothingLost'
  BY <1>1, <1>2, <1>9 DEF PInv, RunOnceIfNothingLost, Typed
<1> QED
  BY <1>3, <1>4, <1>5, <1>7, <1>8, <1>10, <1>11 DEF PInv

LEMMA NextPInv ==
  ASSUME PInv, [PNext]_pvars
  PROVE  PInv'
<1>1. CASE UNCHANGED pvars
  BY <1>1, LossStep DEF pvars, vars, maps, past
<1>2. ASSUME NEW c \in Calls, ProxyStep(c) \/ Timeout(c) \/ ConnectionLost(c)
      PROVE  PInv'
  BY <1>2, ProxyStepPInv, FailStep
<1>3. ASSUME NEW m \in net, Serve(m) \/ Damage(m)
      PROVE  PInv'
  BY <1>3, ServeStep, DamageStep
<1>4. ASSUME NEW h \in handlers, Return(h)
      PROVE  PInv'
  BY <1>4, ReturnStep
<1>5. CASE TimePasses
  BY <1>5, LossStep DEF TimePasses, Tick, maps, past
<1>6. CASE Cleanup
  BY <1>6, LossStep DEF Cleanup, CleanupSessions
<1>7. CASE ServerRestart
  BY <1>7, LossStep DEF ServerRestart, Restart
<1> QED
  BY <1>1, <1>2, <1>3, <1>4, <1>5, <1>6, <1>7 DEF PNext

(***************************************************************************)
(* The strengthened invariant holds in every reachable state.              *)
(***************************************************************************)
THEOREM ProxyInvariance == PSpec => []PInv
BY InitPInv, NextPInv, PTL DEF PSpec

-----------------------------------------------------------------------------
(***************************************************************************)
(* No tool is run on a session whose handshake is not finished, although   *)
(* the server itself would run it.                                         *)
(***************************************************************************)
THEOREM OnlyFinishedIsServed == PSpec => []ServedOnlyWhenFinished
<1>1. PInv => ServedOnlyWhenFinished
  BY DEF PInv, OnEstablished
<1> QED
  BY <1>1, ProxyInvariance, PTL

(***************************************************************************)
(* The uncounted recursion of sendEncryptedRequest goes round at most once *)
(* for each time the server forgot sessions.                               *)
(***************************************************************************)
THEOREM RetriesAreBounded == PSpec => []RetriesBoundedByLosses
<1>1. PInv => RetriesBoundedByLosses
  BY DEF PInv, LossesCounted
<1> QED
  BY <1>1, ProxyInvariance, PTL

(***************************************************************************)
(* Retries after a 401, timeouts, repeated and damaged messages do not run *)
(* a tool twice for one call, unless a message of the call is repeated and *)
(* a session is lost as well; and a call that succeeds was run.            *)
(***************************************************************************)
THEOREM CallsRunAtMostOnce == PSpec => []CallRunsAtMostOnce
<1>1. PInv => CallRunsAtMostOnce
  <2> SUFFICES ASSUME PInv, NEW c \in Calls
               PROVE  /\ executed[c] <= 1 \/ (c \in repeated /\ losses > 0)
                      /\ call[c].pc = "done" => executed[c] >= 1
    BY DEF CallRunsAtMostOnce
  <2>1. losses > 0 \/ losses = 0
    BY DEF PInv, Typed
  <2> QED
    BY <2>1 DEF PInv, RunOnceIfUnrepeated, RunOnceIfNothingLost, ResultsAreRuns
<1> QED
  BY <1>1, ProxyInvariance, PTL

-----------------------------------------------------------------------------
(***************************************************************************)
(* What the counters and session ids of the proxy stay within.             *)
(***************************************************************************)
Bounds ==
  /\ \A s \in SessionIds : sendCounter[s] <= MaxCounter + 1
  /\ faults \in 0 .. MaxFaults
  /\ \A c \in Calls :
       /\ call[c].pc = "init" => call[c].reply.session \in created \cup {NoSession}
       /\ call[c].pc = "finish" => call[c].session \in created \cup {NoSession}

(***************************************************************************)
(* Every step of the composed system is, to the server, one of its own     *)
(* actions or no step at all: the messages it is given are messages the    *)
(* open environment of SessionServer may send.                             *)
(***************************************************************************)
LEMMA ServedIsRequested ==
  ASSUME PInv, Bounds, NEW m \in net, ServeRequest(m)
  PROVE  [Next]_vars
<1> DEFINE r == [counter |-> m.counter, intact |-> m.intact]
<1>1. m \in Mail /\ ServerTyped /\ m.type = "request"
  BY DEF PInv, Typed, ServeRequest
<1>2. m.session \in SessionIds
  BY <1>1 DEF PInv, OnEstablished, ServerTyped
<1>3. m.counter \in 0 .. MaxCounter
  BY <1>1, <1>2, LimitsAssumption DEF PInv, Numbered, Bounds, Mail, Typed
<1>4. r \in Requests
  BY <1>1, <1>3 DEF Mail, Requests
<1>5. Request(m.session, r)
  BY DEF ServeRequest, Request
<1> QED
  BY <1>2, <1>4, <1>5 DEF Next

LEMMA ServedIsHandled ==
  ASSUME PInv, Bounds, NEW m \in net, Serve(m)
  PROVE  [Next]_vars
<1>1. CASE ServeInit(m)
  BY <1>1 DEF ServeInit, Next, Handshake
<1>2. CASE ServeFinish(m)
  <2>1. FinishUnknown(m.session) \/ FinishUnverified(m.session) \/ FinishVerified(m.session)
    BY <1>2 DEF ServeFinish
  <2>2. CASE FinishUnknown(m.session)
    BY <2>2 DEF FinishUnknown
  <2>3. CASE m.session \in sessions
    BY <2>1, <2>3 DEF Next, Handshake, PInv, Typed, ServerTyped
  <2> QED
    BY <2>1, <2>2, <2>3 DEF FinishUnverified, FinishVerified
<1> QED
  BY <1>1, <1>2, ServedIsRequested DEF Serve

LEMMA StepOfServer ==
  ASSUME PInv, Bounds, [PNext]_pvars
  PROVE  [Next]_vars
<1>1. CASE UNCHANGED pvars
  BY <1>1 DEF pvars
<1>2. ASSUME NEW c \in Calls, ProxyStep(c) \/ Timeout(c) \/ ConnectionLost(c)
      PROVE  [Next]_vars
  BY <1>2 DEF ProxyStep, Timeout, ConnectionLost
<1>3. ASSUME NEW m \in net, Serve(m) \/ Damage(m)
      PROVE  [Next]_vars
  BY <1>3, ServedIsHandled DEF Damage
<1>4. ASSUME NEW h \in handlers, Return(h)
      PROVE  [Next]_vars
  BY <1>4 DEF Return, Next
<1>5. CASE TimePasses \/ Cleanup \/ ServerRestart
  BY <1>5 DEF TimePasses, Cleanup, ServerRestart, Next
<1> QED
  BY <1>1, <1>2, <1>3, <1>4, <1>5 DEF PNext

LEMMA CreatedGrows ==
  ASSUME [Next]_vars
  PROVE  created \subseteq created'
BY DEF Next, Handshake, HandshakeInit, FinishUnknown, FinishUnverified, FinishVerified,
       Request, RequestUnknown, RequestLimited, RequestUnreadable, RequestDispatched,
       HandlerReturns, Tick, CleanupSessions, Restart, vars, history

LEMMA ProxyKeepsBounds ==
  ASSUME PInv, Bounds, NEW c \in Calls, ProxyStep(c)
  PROVE  Bounds'
<1>1. /\ call \in [Calls -> CallStates]
      /\ sendCounter \in [SessionIds -> Nat]
      /\ established \subseteq SessionIds
  BY DEF PInv, Typed, ServerTyped
<1>2. UNCHANGED <<created, established, faults>>
  BY DEF ProxyStep, vars, history
<1>3. ASSUME NEW s, NEW n, SendRequest(c, s, n), s \in SessionIds
      PROVE  Bounds'
  BY <1>1, <1>2, <1>3, LimitsAssumption DEF SendRequest, Fetch, Bounds
<1>4. ASSUME NEW n, BeginHandshake(c, n)
      PROVE  Bounds'
  BY <1>1, <1>2, <1>4 DEF BeginHandshake, Fetch, Bounds, NoReply
<1>5. ASSUME NEW pc \in {"done", "failed"}, Over(c, pc), UNCHANGED sendCounter
      PROVE  Bounds'
  BY <1>1, <1>2, <1>5 DEF Over, Bounds, CallStates
<1>6. CASE Start(c)
  BY <1>1, <1>3, <1>4, <1>6 DEF Start, PInv, OnEstablished
<1>7. CASE OnInitReply(c)
  <2>1. CASE /\ call[c].reply.status = "ok"
             /\ Fetch(c, "finish", call[c].reply.session, 0, call[c].attempt)
    BY <1>1, <1>2, <1>7, <2>1 DEF OnInitReply, Awaits, Fetch, Bounds, NoReply
  <2> QED
    BY <1>5, <1>7, <2>1 DEF OnInitReply
<1>8. CASE OnFinishReply(c)
  BY <1>1, <1>3, <1>5, <1>8 DEF OnFinishReply, Awaits, PInv, OnEstablished
<1>9. CASE OnResponse(c)
  <2>1. CASE OnResponse(c) /\ Over(c, "done") /\ UNCHANGED sendCounter
    BY <1>5, <2>1
  <2>2. CASE OnResponse(c) /\ Over(c, "failed") /\ UNCHANGED sendCounter
    BY <1>5, <2>2
  <2> QED
    BY <1>4, <1>9, <2>1, <2>2 DEF OnResponse
<1> QED
  BY <1>6, <1>7, <1>8, <1>9 DEF ProxyStep

(***************************************************************************)
(* What a call that makes no step of its own keeps or is given.            *)
(***************************************************************************)
Kept(c) ==
  /\ call'[c].pc \in {call[c].pc, "failed"}
  /\ call'[c].session = call[c].session
  /\ \/ call'[c].reply = call[c].reply
     \/ call'[c].reply.session \in created' \cup {NoSession}

LEMMA AnsweredIsKept ==
  ASSUME PInv, NEW m \in net, NEW status \in Statuses, Answer(m, status, NoSession),
         NEW c \in Calls
  PROVE  Kept(c)
<1>1. Typed /\ NoSession \in Ids
  BY DEF PInv, Ids
<1>2. /\ call'[c].pc = call[c].pc /\ call'[c].session = call[c].session
      /\ \/ call'[c] = call[c]
         \/ call'[c].reply = [status |-> status, session |-> NoSession]
  BY <1>1, AnswerEffect
<1> QED
  BY <1>2 DEF Kept

LEMMA AnsweredWithSessionIsKept ==
  ASSUME PInv, NEW m \in net, NEW s \in created', s \in SessionIds, Answer(m, "ok", s),
         NEW c \in Calls
  PROVE  Kept(c)
<1>1. Typed /\ s \in Ids /\ "ok" \in Statuses
  BY DEF PInv, Ids, Statuses
<1>2. /\ call'[c].pc = call[c].pc /\ call'[c].session = call[c].session
      /\ \/ call'[c] = call[c]
         \/ call'[c].reply = [status |-> "ok", session |-> s]
  BY <1>1, AnswerEffect
<1> QED
  BY <1>2 DEF Kept

LEMMA ServedIsKept ==
  ASSUME PInv, NEW m \in net, Serve(m), NEW c \in Calls
  PROVE  Kept(c)
<1>1. CASE ServeInit(m)
  <2>1. FreshId \in SessionIds
    BY <1>1 DEF ServeInit
  <2>2. HandshakeInit(FreshId) => FreshId \in created'
    BY DEF HandshakeInit
  <2>3. {"ok", "403"} \subseteq Statuses
    BY DEF Statuses
  <2>4. \/ HandshakeInit(FreshId) /\ Answer(m, "ok", FreshId)
        \/ Answer(m, "403", NoSession)
        \/ Answer(m, "ok", NoSession)
    BY <1>1 DEF ServeInit
  <2> HIDE DEF FreshId
  <2> QED
    BY <2>1, <2>2, <2>3, <2>4, AnsweredIsKept, AnsweredWithSessionIsKept
<1>2. CASE ServeFinish(m)
  <2>1. CASE FinishVerified(m.session) /\ Answer(m, "ok", m.session)
    <3>1. m.session \in created' /\ m.session \in SessionIds
      BY <2>1 DEF FinishVerified, PInv, Typed, ServerTyped
    <3> QED
      BY <2>1, <3>1, AnsweredWithSessionIsKept
  <2>2. "403" \in Statuses /\ "404" \in Statuses
    BY DEF Statuses
  <2> QED
    BY <1>2, <2>1, <2>2, AnsweredIsKept DEF ServeFinish
<1>3. CASE ServeRequest(m)
  <2>1. CASE UNCHANGED call
    BY <2>1 DEF Kept
  <2>2. {"401", "429", "error"} \subseteq Statuses
    BY DEF Statuses
  <2> QED
    BY <1>3, <2>1, <2>2, AnsweredIsKept DEF ServeRequest
<1> QED
  BY <1>1, <1>2, <1>3 DEF Serve

LEMMA ReturnedIsKept ==
  ASSUME PInv, NEW h \in handlers, Return(h), NEW c \in Calls
  PROVE  Kept(c)
<1>1. call[c] \in CallStates
  BY DEF PInv, Typed
<1>2. call'[c] = IF c \in Requesters(h)
                   THEN [call[c] EXCEPT !.reply = [status |-> "result", session |-> NoSession]]
                   ELSE call[c]
  BY DEF Return
<1> QED
  BY <1>1, <1>2 DEF Kept, CallStates

LEMMA OthersAreKept ==
  ASSUME PInv, [PNext]_pvars, ~\E c \in Calls : ProxyStep(c), NEW c \in Calls
  PROVE  Kept(c)
<1>1. CASE UNCHANGED call
  BY <1>1 DEF Kept
<1>2. ASSUME NEW d \in Calls, Timeout(d) \/ ConnectionLost(d)
      PROVE  Kept(c)
  <2>1. call[c] \in CallStates /\ call \in [Calls -> CallStates]
    BY DEF PInv, Typed
  <2>2. call' = [call EXCEPT ![d].pc = "failed"]
    BY <1>2 DEF Timeout, ConnectionLost, Over
  <2> QED
    BY <2>1, <2>2 DEF Kept, CallStates
<1>3. \/ UNCHANGED call
      \/ \E d \in Calls : Timeout(d) \/ ConnectionLost(d)
      \/ \E m \in net : Serve(m)
      \/ \E h \in handlers : Return(h)
  BY DEF PNext, Damage, TimePasses, Cleanup, ServerRestart, proxy, pvars
<1> QED
  BY <1>1, <1>2, <1>3, ServedIsKept, ReturnedIsKept

LEMMA OthersKeepBounds ==
  ASSUME PInv, Bounds, [PNext]_pvars, ~\E c \in Calls : ProxyStep(c)
  PROVE  Bounds'
<1>1. created \subseteq created'
  BY StepOfServer, CreatedGrows
<1>2. UNCHANGED sendCounter
  BY DEF PNext, Timeout, ConnectionLost, Serve, Damage, Return, TimePasses, Cleanup,
      ServerRestart, pvars, proxy
<1>3. faults' = faults \/ Fault
  BY DEF PNext, Timeout, ConnectionLost, Serve, Take, Damage, Return, TimePasses, Cleanup,
      ServerRestart, pvars
<1>4. faults' \in 0 .. MaxFaults
  BY <1>3, MaxFaultsAssumption DEF Fault, Bounds
<1>5. \A c \in Calls : Kept(c)
  BY OthersAreKept
<1> QED
  BY <1>1, <1>2, <1>4, <1>5 DEF Bounds, Kept

(***************************************************************************)
(* All that is known of every reachable state, the server's own invariant  *)
(* included.                                                               *)
(***************************************************************************)
AllInv == PInv /\ Bounds /\ IInv

LEMMA InitAllInv == PInit => AllInv
<1> SUFFICES ASSUME PInit PROVE AllInv
  OBVIOUS
<1>1. Bounds
  BY LimitsAssumption, MaxFaultsAssumption DEF PInit, Bounds, Idle, NoReply
<1> QED
  BY <1>1, InitPInv, InitIInv DEF PInit, AllInv

LEMMA NextAllInv == AllInv /\ [PNext]_pvars => AllInv'
<1> SUFFICES ASSUME AllInv, [PNext]_pvars PROVE AllInv'
  OBVIOUS
<1>1. PInv' /\ IInv'
  BY NextPInv, StepOfServer, NextIInv DEF AllInv
<1>2. Bounds'
  BY ProxyKeepsBounds, OthersKeepBounds DEF AllInv
<1> QED
  BY <1>1, <1>2 DEF AllInv

LEMMA AllInvariance == PSpec => []AllInv
BY InitAllInv, NextAllInv, PTL DEF PSpec

(***************************************************************************)
(* The composed system implements the server by itself: whatever the proxy *)
(* and the network do is allowed to the open environment of SessionServer, *)
(* and everything proved or checked of SessionServer holds of its sessions *)
(* here as well.                                                           *)
(***************************************************************************)
THEOREM ProxyUsesTheServer == PSpec => Spec
<1>1. PInit => Init
  BY DEF PInit
<1>2. AllInv /\ [PNext]_pvars => [Next]_vars
  BY StepOfServer DEF AllInv
<1> QED
  BY <1>1, <1>2, AllInvariance, PTL DEF PSpec, Spec

(***************************************************************************)
(* Of the server under this proxy: no handshake is left without its        *)
(* session, no unused session is kept, none in use is lost.                *)
(***************************************************************************)
THEOREM ServerSafeUnderProxy ==
  PSpec => [](PendingHasSession /\ UnusedIsReclaimed) /\ EstablishedLastsUntilIdle
BY ProxyUsesTheServer, PendingNeverDangles, NothingUnusedIsKept, NoEarlyLoss, PTL

(***************************************************************************)
(* The composed system stays typed.                                        *)
(***************************************************************************)
THEOREM ProxyTypeCorrect == PSpec => []PTypeOK
<1>1. AllInv => PTypeOK
  <2> SUFFICES ASSUME AllInv PROVE PTypeOK
    OBVIOUS
  <2>1. TypeOK /\ faults \in 0 .. MaxFaults
    BY DEF AllInv, IInv, Bounds
  <2>2. channel \in established \cup {NoSession}
    BY DEF AllInv, PInv, OnEstablished
  <2>3. sendCounter \in [SessionIds -> Nat] /\ losses \in Nat
    BY DEF AllInv, PInv, Typed
  <2>4. \A c \in Calls :
          /\ call[c].pc \in Exchanges \cup {"idle", "done", "failed"}
          /\ call[c].pc = "finish" => call[c].session \in created \cup {NoSession}
          /\ call[c].pc = "request" => call[c].session \in established
    BY DEF AllInv, PInv, Typed, CallStates, OnEstablished, Bounds
  <2>5. \A m \in net : m.type \in Exchanges /\ m.call \in Calls
    BY DEF AllInv, PInv, Typed, Mail
  <2> QED
    BY <2>1, <2>2, <2>3, <2>4, <2>5 DEF PTypeOK
<1> QED
  BY <1>1, AllInvariance, PTL
=============================================================================
