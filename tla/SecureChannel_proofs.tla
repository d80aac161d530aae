------------------------ MODULE SecureChannel_proofs ------------------------
(***************************************************************************)
(* Proofs about the channel, for every window size and every number of     *)
(* messages, about the handshake, for any number of peers, attempts and    *)
(* sessions, and about the two composed.                                   *)
(***************************************************************************)
EXTENDS SecureChannel, TLAPS

-----------------------------------------------------------------------------
(***************************************************************************)
(*                               The channel                               *)
(***************************************************************************)

(***************************************************************************)
(* What the two ends know of each other.  The counter of a packet names    *)
(* its message; a delivered message is behind the highest counter.         *)
(***************************************************************************)
Numbering ==
  /\ sendCounter = sent
  /\ \A p \in net : p.message <= sent /\ p.counter = p.message - 1

DeliveredOnce ==
  \A m \in Messages :
    /\ deliveries[m] \in {0, 1}
    /\ deliveries[m] = 1 => m <= sent /\ m - 1 <= window.maxRecvCounter

(***************************************************************************)
(* The seen-set is exactly what was delivered and is still in reach: this  *)
(* is why forgetting the other counters is harmless.                       *)
(***************************************************************************)
SeenIsDelivered ==
  /\ \A c \in window.replayWindow : c + 1 \in Messages
  /\ \A m \in Messages :
       m - 1 \in window.replayWindow <=>
         deliveries[m] = 1 /\ m - 1 > window.maxRecvCounter - ANTI_REPLAY_WINDOW_SIZE

ChannelInv == TypeOK /\ Numbering /\ DeliveredOnce /\ SeenIsDelivered

(***************************************************************************)
(* A packet on the wire is as the sender made it, and its message is the   *)
(* one its counter names.                                                  *)
(***************************************************************************)
LEMMA GenuinePacket ==
  ASSUME TypeOK, Numbering, NEW p \in net
  PROVE  /\ p.message \in Messages
         /\ p.counter \in Counters
         /\ p.message <= sent
         /\ p.counter = p.message - 1
         /\ p.condition = "intact"
  BY DEF TypeOK, Numbering, Intact, Packet, Messages, Counters

(***************************************************************************)
(* Only a packet from the wire can be intact: noise never is.              *)
(***************************************************************************)
LEMMA IntactIsGenuine ==
  ASSUME NEW p \in Arriving, p.condition = "intact"
  PROVE  p \in net
  BY DEF Arriving, Spoilt, Packet

(***************************************************************************)
(* decrypt() admits a genuine packet exactly when its message is new and   *)
(* not overtaken by the whole window.                                      *)
(***************************************************************************)
LEMMA AdmitsNew ==
  ASSUME ChannelInv, NEW p \in net
  PROVE  Admits(window, p.counter) <=> deliveries[p.message] = 0 /\ ~Overtaken(p)
<1> USE WindowSizeAssumption
<1>1. /\ p.message \in Messages /\ p.counter \in Nat
      /\ p.counter = p.message - 1
  BY GenuinePacket DEF ChannelInv, Counters
<1>2. /\ window.maxRecvCounter \in Nat \cup {-1}
      /\ deliveries[p.message] \in {0, 1}
      /\ deliveries[p.message] = 1 => p.counter <= window.maxRecvCounter
      /\ p.counter \in window.replayWindow <=>
            deliveries[p.message] = 1
            /\ p.counter > window.maxRecvCounter - ANTI_REPLAY_WINDOW_SIZE
  BY <1>1 DEF ChannelInv, TypeOK, Windows, Counters, DeliveredOnce, SeenIsDelivered
<1> QED
  BY <1>1, <1>2 DEF Admits, TooOld, Duplicate, Overtaken

-----------------------------------------------------------------------------
LEMMA InitChannelInv == Init => ChannelInv
<1> SUFFICES ASSUME Init PROVE ChannelInv
  OBVIOUS
<1> USE MaxMessagesAssumption
<1>1. TypeOK
  BY DEF Init, TypeOK, NewWindow, Windows, Counters, Outcomes, Messages
<1>2. Numbering /\ DeliveredOnce /\ SeenIsDelivered
  BY DEF Init, Numbering, DeliveredOnce, SeenIsDelivered, NewWindow
<1> QED
  BY <1>1, <1>2 DEF ChannelInv

LEMMA EncryptKeepsInv ==
  ASSUME ChannelInv, Encrypt
  PROVE  ChannelInv'
<1> USE MaxMessagesAssumption
<1>1. sent \in Nat /\ sendCounter = sent /\ sent + 1 \in Messages /\ sent \in 0 .. MaxMessages
  BY DEF ChannelInv, TypeOK, Numbering, Encrypt, Messages
<1>2. TypeOK'
  <2>1. Packet(sendCounter, sent + 1, "intact") \in Intact
    BY <1>1 DEF Intact, Packet
  <2> QED
    BY <1>1, <2>1 DEF ChannelInv, TypeOK, Encrypt, Counters, Messages
<1>3. Numbering'
  <2> SUFFICES ASSUME NEW p \in net'
               PROVE  p.message <= sent + 1 /\ p.counter = p.message - 1
    BY <1>1 DEF Numbering, Encrypt
  <2>1. CASE p \in net
    BY <1>1, <2>1, GenuinePacket DEF ChannelInv, Messages
  <2>2. CASE p = Packet(sendCounter, sent + 1, "intact")
    BY <1>1, <2>2 DEF Packet
  <2> QED
    BY <2>1, <2>2 DEF Encrypt
<1>4. DeliveredOnce'
  BY <1>1 DEF ChannelInv, DeliveredOnce, Encrypt, Messages
<1>5. SeenIsDelivered'
  BY DEF ChannelInv, SeenIsDelivered, Encrypt
<1> QED
  BY <1>2, <1>3, <1>4, <1>5 DEF ChannelInv

(***************************************************************************)
(* An accepted packet is one the sender made, whose message had not been   *)
(* delivered; its counter enters the seen-set and those the window has     *)
(* left behind go.                                                         *)
(***************************************************************************)
LEMMA AcceptKeepsInv ==
  ASSUME ChannelInv, NEW p \in Arriving, Accept(p)
  PROVE  ChannelInv'
<1> USE MaxMessagesAssumption, WindowSizeAssumption
<1> DEFINE W == ANTI_REPLAY_WINDOW_SIZE
           max == window.maxRecvCounter
           seen == window.replayWindow
<1>1. p \in net
  BY IntactIsGenuine DEF Accept
<1>2. /\ p.message \in Messages /\ p.counter \in Nat
      /\ p.counter = p.message - 1 /\ p.message <= sent
  BY <1>1, GenuinePacket DEF ChannelInv, Counters
<1>3. deliveries[p.message] = 0 /\ ~(p.counter + W <= max)
  BY <1>1, AdmitsNew DEF Accept, Overtaken
<1>4. max \in Nat \cup {-1} /\ seen \in SUBSET Nat /\ window = [maxRecvCounter |-> max, replayWindow |-> seen]
  BY DEF ChannelInv, TypeOK, Windows, Counters
<1>5. deliveries' = [deliveries EXCEPT ![p.message] = 1]
  BY <1>3 DEF Accept
<1>6. /\ window'.maxRecvCounter = IF p.counter > max THEN p.counter ELSE max
      /\ window'.replayWindow =
           {c \in seen : c > window'.maxRecvCounter - W} \cup {p.counter}
      /\ window' \in Windows
  <2>1. CASE p.counter > max
    BY <1>2, <1>4, <2>1 DEF Accept, Record, Prune, Windows, Counters
  <2>2. CASE ~(p.counter > max)
    <3>1. \A c \in seen : c > max - W
      <4> SUFFICES ASSUME NEW c \in seen PROVE c > max - W
        OBVIOUS
      <4>1. c \in Nat /\ c + 1 \in Messages /\ (c + 1) - 1 = c
        BY <1>4 DEF ChannelInv, SeenIsDelivered
      <4> QED
        BY <4>1 DEF ChannelInv, SeenIsDelivered
    <3>2. window' = [maxRecvCounter |-> max, replayWindow |-> seen \cup {p.counter}]
      BY <1>4, <2>2 DEF Accept, Record
    <3> QED
      BY <1>2, <1>4, <2>2, <3>1, <3>2 DEF Windows, Counters
  <2> QED
    BY <2>1, <2>2
<1>7. TypeOK'
  <2>1. deliveries' \in [Messages -> Nat]
    BY <1>5 DEF ChannelInv, TypeOK
  <2> QED
    BY <1>6, <2>1 DEF ChannelInv, TypeOK, Accept, Outcomes
<1>8. Numbering'
  BY DEF ChannelInv, Numbering, Accept
<1>9. DeliveredOnce'
  <2> SUFFICES ASSUME NEW m \in Messages
               PROVE  /\ deliveries'[m] \in {0, 1}
                      /\ deliveries'[m] = 1 => m <= sent /\ m - 1 <= window'.maxRecvCounter
    BY DEF DeliveredOnce, Accept
  <2>1. /\ deliveries[m] \in {0, 1} /\ m \in Nat
        /\ deliveries[m] = 1 => m <= sent /\ m - 1 <= max
    BY DEF ChannelInv, DeliveredOnce, Messages
  <2>2. deliveries'[m] = IF m = p.message THEN 1 ELSE deliveries[m]
    BY <1>5 DEF ChannelInv, TypeOK
  <2> QED
    BY <1>2, <1>4, <1>6, <2>1, <2>2
<1>10. SeenIsDelivered'
  <2>1. \A c \in window'.replayWindow : c + 1 \in Messages
    BY <1>2, <1>6 DEF ChannelInv, SeenIsDelivered, Messages
  <2>2. ASSUME NEW m \in Messages
        PROVE  m - 1 \in window'.replayWindow <=>
                 deliveries'[m] = 1 /\ m - 1 > window'.maxRecvCounter - W
    <3>1. deliveries'[m] = IF m = p.message THEN 1 ELSE deliveries[m]
      BY <1>5 DEF ChannelInv, TypeOK
    <3>2. m - 1 \in seen <=> deliveries[m] = 1 /\ m - 1 > max - W
      BY DEF ChannelInv, SeenIsDelivered
    <3>3. m - 1 = p.counter <=> m = p.message
      BY <1>2 DEF Messages
    <3> QED
      BY <1>2, <1>3, <1>4, <1>6, <3>1, <3>2, <3>3 DEF Messages
  <2> QED
    BY <2>1, <2>2 DEF SeenIsDelivered
<1> QED
  BY <1>7, <1>8, <1>9, <1>10 DEF ChannelInv

(***************************************************************************)
(* A decrypt() that throws changes nothing but its outcome.                *)
(***************************************************************************)
LEMMA ThrowKeepsInv ==
  ASSUME ChannelInv, NEW error \in Outcomes, Throw(error)
  PROVE  ChannelInv'
BY DEF ChannelInv, TypeOK, Numbering, DeliveredOnce, SeenIsDelivered, Throw

LEMMA NextKeepsChannelInv ==
  ASSUME ChannelInv, [Next]_vars
  PROVE  ChannelInv'
<1>1. CASE Encrypt
  BY <1>1, EncryptKeepsInv
<1>2. ASSUME NEW p \in Arriving, Decrypt(p)
      PROVE  ChannelInv'
  <2>1. CASE Accept(p)
    BY <2>1, AcceptKeepsInv
  <2>2. CASE ~Accept(p)
    <3>1. PICK error \in Outcomes : Throw(error)
      BY <1>2, <2>2 DEF Decrypt, RejectTruncated, RejectTooOld, RejectDuplicate,
                        RejectUnauthentic, Outcomes
    <3> QED
      BY <3>1, ThrowKeepsInv
  <2> QED
    BY <2>1, <2>2
<1>3. CASE UNCHANGED vars
  BY <1>3 DEF vars, ChannelInv, TypeOK, Numbering, DeliveredOnce, SeenIsDelivered
<1> QED
  BY <1>1, <1>2, <1>3 DEF Next

(***************************************************************************)
(* The strengthened invariant holds in every reachable state.              *)
(***************************************************************************)
THEOREM ChannelInvariance == Spec => []ChannelInv
BY InitChannelInv, NextKeepsChannelInv, PTL DEF Spec

-----------------------------------------------------------------------------
(***************************************************************************)
(* The state of a channel stays typed.                                     *)
(***************************************************************************)
THEOREM ChannelTypeCorrect == Spec => []TypeOK
<1>1. ChannelInv => TypeOK
  BY DEF ChannelInv
<1> QED
  BY <1>1, ChannelInvariance, PTL

(***************************************************************************)
(* The seen-set of decrypt() stays within the window behind the highest    *)
(* counter.                                                                *)
(***************************************************************************)
THEOREM SeenSetBounded == Spec => []WindowBounded
<1>1. ChannelInv => WindowBounded
  <2> SUFFICES ASSUME ChannelInv, NEW c \in window.replayWindow
               PROVE  InReach(c)
    BY DEF WindowBounded
  <2>1. c \in Nat /\ c + 1 \in Messages /\ (c + 1) - 1 = c
    BY DEF ChannelInv, TypeOK, Windows, Counters, SeenIsDelivered
  <2>2. /\ deliveries[c + 1] = 1
        /\ c > window.maxRecvCounter - ANTI_REPLAY_WINDOW_SIZE
    BY <2>1 DEF ChannelInv, SeenIsDelivered
  <2>3. c <= window.maxRecvCounter
    BY <2>1, <2>2 DEF ChannelInv, DeliveredOnce
  <2> QED
    BY <2>2, <2>3 DEF InReach
<1> QED
  BY <1>1, ChannelInvariance, PTL

(***************************************************************************)
(* A message overtaken by less than the window is never refused.           *)
(***************************************************************************)
THEOREM LateMessagesAdmitted == Spec => []LateIsNotLost
<1>1. ChannelInv => LateIsNotLost
  BY AdmitsNew DEF LateIsNotLost
<1> QED
  BY <1>1, ChannelInvariance, PTL

(***************************************************************************)
(* The channel implements at-most-once delivery: a step that encrypts is a *)
(* Send, one that accepts a Deliver, and every other a stutter.            *)
(***************************************************************************)
THEOREM ChannelImplementsAtMostOnce == Spec => ImplementsAtMostOnce
<1>1. Init => AtMostOnce!Init
  BY DEF Init, AtMostOnce!Init
<1>2. ASSUME ChannelInv, [Next]_vars
      PROVE  [AtMostOnce!Next]_<<sent, deliveries>>
  <2>1. CASE Encrypt
    <3>1. sent + 1 \in Messages
      BY <1>2, <2>1, MaxMessagesAssumption DEF Encrypt, ChannelInv, TypeOK, Messages
    <3> QED
      BY <2>1, <3>1 DEF Encrypt, AtMostOnce!Next, AtMostOnce!Send
  <2>2. ASSUME NEW p \in Arriving, Accept(p)
        PROVE  AtMostOnce!Next
    <3>1. p \in net
      BY <2>2, IntactIsGenuine DEF Accept
    <3>2. p.message \in Messages /\ p.message <= sent
      BY <1>2, <3>1, GenuinePacket DEF ChannelInv
    <3>3. deliveries[p.message] = 0
      BY <1>2, <2>2, <3>1, AdmitsNew DEF Accept
    <3>4. AtMostOnce!Deliver(p.message)
      BY <2>2, <3>2, <3>3 DEF Accept, AtMostOnce!Deliver
    <3> QED
      BY <3>2, <3>4 DEF AtMostOnce!Next
  <2>3. ASSUME NEW p \in Arriving, Decrypt(p), ~Accept(p)
        PROVE  UNCHANGED <<sent, deliveries>>
    BY <2>3 DEF Decrypt, RejectTruncated, RejectTooOld, RejectDuplicate,
                RejectUnauthentic, Throw
  <2>4. CASE UNCHANGED vars
    BY <2>4 DEF vars
  <2> QED
    BY <1>2, <2>1, <2>2, <2>3, <2>4 DEF Next
<1> QED
  BY <1>1, <1>2, ChannelInvariance, PTL DEF Spec, ImplementsAtMostOnce, AtMostOnce!Spec

-----------------------------------------------------------------------------
(***************************************************************************)
(*                              The handshake                              *)
(***************************************************************************)

(***************************************************************************)
(* The keys of an attempt, and of a session, were derived from what that   *)
(* side sent and received.                                                 *)
(***************************************************************************)
InitiatorKeys(i, reply) ==
  DeriveSessionKeys({i, reply.ephemeralPubKey}, TRUE, <<InitMessage(i), reply>>)

ResponderKeys(r, i, init) ==
  DeriveSessionKeys({r, i}, FALSE, <<init, ReplyMessage(r, i)>>)

Shape ==
  /\ initiators = [i \in Initiators |->
                     [pc |-> initiators[i].pc, keys |-> initiators[i].keys]]
  /\ responders = [r \in Responders |->
                     [pc |-> responders[r].pc, peer |-> responders[r].peer,
                      reply |-> responders[r].reply, keys |-> responders[r].keys]]

ProxyDerived(i) ==
  /\ initiators[i].pc \in {"new", "init"} => initiators[i].keys = Null
  /\ initiators[i].keys = Null \/ \E reply : initiators[i].keys = InitiatorKeys(i, reply)
  /\ initiators[i].pc \in {"finish", "connected"}
       => \E reply : initiators[i].keys = InitiatorKeys(i, reply)

ServerDerived(r) ==
  \/ responders[r].pc = "new" /\ responders[r].keys = Null
  \/ /\ responders[r].pc # "new"
     /\ \E i \in Initiators : \E init :
          /\ init.signingPubKey = responders[r].peer
          /\ init.signingPubKey = Owner[i]
          /\ responders[r].keys = ResponderKeys(r, i, init)

HandshakeInv ==
  /\ Shape
  /\ \A i \in Initiators : ProxyDerived(i)
  /\ \A r \in Responders : ServerDerived(r)
  /\ ServerAgrees
  /\ ProxyAgrees

-----------------------------------------------------------------------------
(***************************************************************************)
(* Keys of the two sides that share as little as an id or a direction's    *)
(* key were derived from the same messages.                                *)
(***************************************************************************)
LEMMA SharedKeys ==
  ASSUME NEW i, NEW reply, NEW r, NEW j, NEW init,
         \/ InitiatorKeys(i, reply).sessionId = ResponderKeys(r, j, init).sessionId
         \/ InitiatorKeys(i, reply).sendKey = ResponderKeys(r, j, init).recvKey
  PROVE  /\ Mirrored(InitiatorKeys(i, reply), ResponderKeys(r, j, init))
         /\ InitMessage(i) = init
<1>1. /\ <<InitMessage(i), reply>> = <<init, ReplyMessage(r, j)>>
      /\ {i, reply.ephemeralPubKey} = {r, j}
  BY DEF InitiatorKeys, ResponderKeys, DeriveSessionKeys
<1>2. InitMessage(i) = init
  BY <1>1
<1>3. Mirrored(InitiatorKeys(i, reply), ResponderKeys(r, j, init))
  BY <1>1 DEF InitiatorKeys, ResponderKeys, DeriveSessionKeys, Mirrored
<1> QED
  BY <1>2, <1>3

LEMMA ResponderKeysDiffer ==
  ASSUME NEW q, NEW r, NEW i, NEW j, NEW init, NEW other,
         ResponderKeys(q, i, init) = ResponderKeys(r, j, other)
  PROVE  q = r
<1>1. <<init, ReplyMessage(q, i)>> = <<other, ReplyMessage(r, j)>>
  BY DEF ResponderKeys, DeriveSessionKeys
<1>2. ReplyMessage(q, i) = ReplyMessage(r, j)
  BY <1>1
<1> QED
  BY <1>2 DEF ReplyMessage

LEMMA ReceivedInit ==
  ASSUME NEW i \in Initiators, NEW init \in Received(InitMessage(i)), Acceptable(init)
  PROVE  init.signingPubKey = Owner[i] /\ init.ephemeralPubKey = i /\ init.nonceI = i
<1>1. CASE init = InitMessage(i)
  BY <1>1 DEF InitMessage
<1>2. CASE init # InitMessage(i)
  <2>1. PICK field \in DOMAIN InitMessage(i) : init = [InitMessage(i) EXCEPT ![field] = Garbled]
    BY <1>2 DEF Received
  <2>2. field \in {"type", "version", "signingPubKey", "ephemeralPubKey", "nonceI", "signature"}
    BY <2>1 DEF InitMessage
  <2>3. CASE field = "signingPubKey"
    BY <2>1, <2>3, PeersAssumption, GarbledAssumption DEF Acceptable, InitMessage
  <2>4. CASE field \in {"ephemeralPubKey", "nonceI"}
    <3>1. init.signature = Sign(Owner[i], <<i, i>>)
      BY <2>1, <2>4 DEF InitMessage
    <3>2. <<init.ephemeralPubKey, init.nonceI>> = <<i, i>>
      BY <3>1 DEF Acceptable, Sign
    <3>3. init.ephemeralPubKey = Garbled \/ init.nonceI = Garbled
      BY <2>1, <2>4 DEF InitMessage
    <3> QED
      BY <3>2, <3>3, GarbledAssumption
  <2>5. CASE field \in {"type", "version", "signature"}
    BY <2>1, <2>5 DEF InitMessage
  <2> QED
    BY <2>2, <2>3, <2>4, <2>5
<1> QED
  BY <1>1, <1>2

-----------------------------------------------------------------------------
LEMMA InitHandshakeInv == HInit => HandshakeInv
<1> SUFFICES ASSUME HInit PROVE HandshakeInv
  OBVIOUS
<1>1. Shape
  BY DEF HInit, Shape
<1>2. \A i \in Initiators : ProxyDerived(i) /\ initiators[i].pc = "new"
  BY DEF HInit, ProxyDerived
<1>3. \A r \in Responders : ServerDerived(r) /\ responders[r].pc = "new"
  BY DEF HInit, ServerDerived
<1> QED
  BY <1>1, <1>2, <1>3 DEF HandshakeInv, ServerAgrees, ProxyAgrees, Established

(***************************************************************************)
(* The proxy's steps leave the server as it is, and an attempt's keys,     *)
(* once derived.                                                           *)
(***************************************************************************)
LEMMA ProxyMoves ==
  ASSUME HandshakeInv, NEW i \in Initiators, NEW pc,
         initiators' = [initiators EXCEPT ![i].pc = pc],
         pc \in {"init", "connected", "failed"},
         pc = "init" => initiators[i].pc = "new",
         pc = "connected" => initiators[i].pc = "finish",
         UNCHANGED responders
  PROVE  /\ Shape'
         /\ \A j \in Initiators : ProxyDerived(j)'
         /\ \A r \in Responders : ServerDerived(r)'
         /\ ServerAgrees'
         /\ \A j \in Initiators : initiators[j]'.keys = initiators[j].keys
         /\ \A j \in Initiators \ {i} : initiators[j]'.pc = initiators[j].pc
         /\ initiators[i]'.pc = pc
<1>1. /\ Shape'
      /\ \A j \in Initiators : initiators[j]'.keys = initiators[j].keys
      /\ \A j \in Initiators \ {i} : initiators[j]'.pc = initiators[j].pc
      /\ initiators[i]'.pc = pc
  BY DEF HandshakeInv, Shape
<1>2. \A j \in Initiators : ProxyDerived(j)'
  <2> TAKE j \in Initiators
  <2>1. ProxyDerived(j) /\ initiators[j]'.keys = initiators[j].keys
    BY <1>1 DEF HandshakeInv
  <2>2. CASE j = i
    <3>1. initiators[i]'.pc = pc
      BY <1>1
    <3> QED
      BY <2>1, <2>2, <3>1 DEF ProxyDerived, InitiatorKeys
  <2>3. CASE j # i
    <3>1. initiators[j]'.pc = initiators[j].pc
      BY <1>1, <2>3
    <3> QED
      BY <2>1, <3>1 DEF ProxyDerived, InitiatorKeys
  <2> QED
    BY <2>2, <2>3
<1>3. \A r \in Responders : ServerDerived(r)'
  BY DEF HandshakeInv, ServerDerived, ResponderKeys
<1>4. ServerAgrees'
  BY <1>1 DEF HandshakeInv, ServerAgrees, Established
<1> QED
  BY <1>1, <1>2, <1>3, <1>4

LEMMA CreateInitStep ==
  ASSUME HandshakeInv, NEW i \in Initiators, CreateInit(i)
  PROVE  HandshakeInv'
<1>1. /\ Shape'
      /\ \A j \in Initiators : ProxyDerived(j)'
      /\ \A r \in Responders : ServerDerived(r)'
      /\ ServerAgrees'
      /\ \A j \in Initiators : initiators[j]'.keys = initiators[j].keys
      /\ \A j \in Initiators \ {i} : initiators[j]'.pc = initiators[j].pc
      /\ initiators[i]'.pc = "init"
  BY ProxyMoves DEF CreateInit
<1>2. ProxyAgrees'
  BY <1>1 DEF HandshakeInv, ProxyAgrees, Established, CreateInit
<1> QED
  BY <1>1, <1>2 DEF HandshakeInv

LEMMA FailStep ==
  ASSUME HandshakeInv, NEW i \in Initiators, Fail(i)
  PROVE  HandshakeInv'
<1>1. /\ Shape'
      /\ \A j \in Initiators : ProxyDerived(j)'
      /\ \A r \in Responders : ServerDerived(r)'
      /\ ServerAgrees'
      /\ \A j \in Initiators : initiators[j]'.keys = initiators[j].keys
      /\ \A j \in Initiators \ {i} : initiators[j]'.pc = initiators[j].pc
      /\ initiators[i]'.pc = "failed"
  BY ProxyMoves DEF Fail
<1>2. ProxyAgrees'
  BY <1>1 DEF HandshakeInv, ProxyAgrees, Established, Fail
<1> QED
  BY <1>1, <1>2 DEF HandshakeInv

LEMMA OnFinishReplyStep ==
  ASSUME HandshakeInv, NEW i \in Initiators, OnFinishReply(i)
  PROVE  HandshakeInv'
<1>1. /\ Shape'
      /\ \A j \in Initiators : ProxyDerived(j)'
      /\ \A r \in Responders : ServerDerived(r)'
      /\ ServerAgrees'
      /\ \A j \in Initiators : initiators[j]'.keys = initiators[j].keys
      /\ \A j \in Initiators \ {i} : initiators[j]'.pc = initiators[j].pc
      /\ initiators[i]'.pc = "connected"
  BY ProxyMoves DEF OnFinishReply
<1>2. PICK r \in Responders :
        /\ responders[r].pc = "established"
        /\ responders[r].keys.sessionId = initiators[i].keys.sessionId
  BY DEF OnFinishReply
<1>3. PICK reply : initiators[i].keys = InitiatorKeys(i, reply)
  BY DEF HandshakeInv, ProxyDerived, OnFinishReply
<1>4. PICK j, init : j \in Initiators /\ responders[r].keys = ResponderKeys(r, j, init)
  BY <1>2 DEF HandshakeInv, ServerDerived
<1>5. Mirrored(initiators[i].keys, responders[r].keys)
  BY <1>2, <1>3, <1>4, SharedKeys
<1>6. ProxyAgrees'
  BY <1>1, <1>2, <1>5 DEF HandshakeInv, ProxyAgrees, Established, OnFinishReply
<1> QED
  BY <1>1, <1>6 DEF HandshakeInv

LEMMA ProcessReplyStep ==
  ASSUME HandshakeInv, NEW i \in Initiators, NEW reply, ProcessReply(i, reply)
  PROVE  HandshakeInv'
<1>1. /\ Shape'
      /\ initiators[i]'.keys = InitiatorKeys(i, reply)
      /\ initiators[i]'.pc = "finish"
      /\ \A j \in Initiators \ {i} : initiators[j]' = initiators[j]
      /\ responders' = responders
  BY DEF HandshakeInv, Shape, ProcessReply, InitiatorKeys
<1>2. \A j \in Initiators : ProxyDerived(j)'
  BY <1>1 DEF HandshakeInv, ProxyDerived, InitiatorKeys
<1>3. \A r \in Responders : ServerDerived(r)'
  BY <1>1 DEF HandshakeInv, ServerDerived, ResponderKeys
<1>4. initiators[i].keys = Null
  BY DEF HandshakeInv, ProxyDerived, ProcessReply
<1>5. ServerAgrees'
  BY <1>1, <1>4 DEF HandshakeInv, ServerAgrees, Established
<1>6. ProxyAgrees'
  BY <1>1 DEF HandshakeInv, ProxyAgrees, Established
<1> QED
  BY <1>1, <1>2, <1>3, <1>5, <1>6 DEF HandshakeInv

LEMMA ProcessInitStep ==
  ASSUME HandshakeInv, NEW r \in Responders, NEW i \in Initiators,
         NEW init \in Received(InitMessage(i)), ProcessInit(r, init)
  PROVE  HandshakeInv'
<1>1. init.signingPubKey = Owner[i] /\ init.ephemeralPubKey = i /\ init.nonceI = i
  BY ReceivedInit DEF ProcessInit
<1>2. /\ Shape'
      /\ responders[r]'.pc = "pending"
      /\ responders[r]'.peer = Owner[i]
      /\ responders[r]'.keys = ResponderKeys(r, i, init)
      /\ \A q \in Responders \ {r} : responders[q]' = responders[q]
      /\ initiators' = initiators
  BY <1>1 DEF HandshakeInv, Shape, ProcessInit, ReplyMessage, ResponderKeys
<1>3. \A j \in Initiators : ProxyDerived(j)'
  BY <1>2 DEF HandshakeInv, ProxyDerived, InitiatorKeys
<1>4. \A q \in Responders : ServerDerived(q)'
  <2>1. ServerDerived(r)'
    BY <1>1, <1>2 DEF ServerDerived, ResponderKeys
  <2>2. ASSUME NEW q \in Responders \ {r}
       PROVE  ServerDerived(q)'
    <3>1. ServerDerived(q) /\ responders[q]' = responders[q]
      BY <1>2 DEF HandshakeInv
    <3> QED
      BY <3>1 DEF ServerDerived, ResponderKeys
  <2> QED
    BY <2>1, <2>2
<1>5. responders[r].pc = "new" /\ Established' = Established
  BY <1>2 DEF ProcessInit, Established
<1>6. ServerAgrees' /\ ProxyAgrees'
  BY <1>2, <1>5 DEF HandshakeInv, ServerAgrees, ProxyAgrees, Established
<1> QED
  BY <1>2, <1>3, <1>4, <1>6 DEF HandshakeInv

LEMMA VerifyFinishStep ==
  ASSUME HandshakeInv, NEW r \in Responders, NEW i \in Initiators, initiators[i].keys # Null,
         NEW finish \in Received(FinishMessage(initiators[i].keys)), VerifyFinish(r, finish)
  PROVE  HandshakeInv'
<1>1. /\ Shape'
      /\ responders[r]'.pc = IF Verified(r, finish) THEN "established" ELSE "dropped"
      /\ responders[r]'.peer = responders[r].peer
      /\ responders[r]'.keys = responders[r].keys
      /\ \A q \in Responders \ {r} : responders[q]' = responders[q]
      /\ initiators' = initiators
      /\ responders[r].pc = "pending"
  <2> DEFINE pc == IF Verified(r, finish) THEN "established" ELSE "dropped"
  <2>1. /\ responders[r].pc = "pending" /\ initiators' = initiators
        /\ responders' = [responders EXCEPT ![r].pc = pc]
    BY DEF VerifyFinish
  <2> HIDE DEF pc
  <2>2. Shape'
    BY <2>1 DEF HandshakeInv, Shape
  <2>3. responders[r]' = [responders[r] EXCEPT !.pc = pc]
        /\ \A q \in Responders \ {r} : responders[q]' = responders[q]
    BY <2>1 DEF HandshakeInv, Shape
  <2>4. /\ responders[r]'.pc = pc
        /\ responders[r]'.peer = responders[r].peer
        /\ responders[r]'.keys = responders[r].keys
    BY <2>3 DEF HandshakeInv, Shape
  <2> QED
    BY <2>1, <2>2, <2>3, <2>4 DEF pc
<1>2. \A j \in Initiators : ProxyDerived(j)'
  <2> TAKE j \in Initiators
  <2>1. ProxyDerived(j) /\ initiators[j]' = initiators[j]
    BY <1>1 DEF HandshakeInv
  <2> QED
    BY <2>1 DEF ProxyDerived, InitiatorKeys
<1>3. \A q \in Responders : ServerDerived(q)'
  <2>1. ServerDerived(r)
    BY DEF HandshakeInv
  <2>2. ServerDerived(r)'
    BY <1>1, <2>1 DEF ServerDerived, ResponderKeys
  <2>3. ASSUME NEW q \in Responders \ {r}
       PROVE  ServerDerived(q)'
    <3>1. ServerDerived(q) /\ responders[q]' = responders[q]
      BY <1>1 DEF HandshakeInv
    <3> QED
      BY <3>1 DEF ServerDerived, ResponderKeys
  <2> QED
    BY <2>2, <2>3
<1>4. PICK reply : initiators[i].keys = InitiatorKeys(i, reply)
  BY DEF HandshakeInv, ProxyDerived
<1>5. PICK j, init :
        /\ j \in Initiators
        /\ init.signingPubKey = responders[r].peer
        /\ responders[r].keys = ResponderKeys(r, j, init)
  BY <1>1 DEF HandshakeInv, ServerDerived
<1>6. Verified(r, finish)
        => /\ Owner[i] = responders[r].peer
           /\ Mirrored(initiators[i].keys, responders[r].keys)
  <2> SUFFICES ASSUME Verified(r, finish)
               PROVE  /\ Owner[i] = responders[r].peer
                      /\ Mirrored(initiators[i].keys, responders[r].keys)
    OBVIOUS
  <2>1. \/ finish.sessionId = initiators[i].keys.sessionId
        \/ finish.payload = initiators[i].keys.sendKey
    BY DEF Received, FinishMessage
  <2>2. \/ initiators[i].keys.sessionId = responders[r].keys.sessionId
        \/ initiators[i].keys.sendKey = responders[r].keys.recvKey
    BY <2>1 DEF VerifyFinish, Verified
  <2>3. /\ Mirrored(initiators[i].keys, responders[r].keys)
        /\ InitMessage(i) = init
    BY <1>4, <1>5, <2>2, SharedKeys
  <2> QED
    BY <1>5, <2>3 DEF InitMessage
<1>7. ServerAgrees'
  BY <1>1, <1>6 DEF HandshakeInv, ServerAgrees, Established
<1>8. ProxyAgrees'
  BY <1>1 DEF HandshakeInv, ProxyAgrees, Established
<1> QED
  BY <1>1, <1>2, <1>3, <1>7, <1>8 DEF HandshakeInv

LEMMA HandshakeInvariance == HSpec => []HandshakeInv
<1>1. HandshakeInv /\ [HNext]_hvars => HandshakeInv'
  <2> SUFFICES ASSUME HandshakeInv, [HNext]_hvars PROVE HandshakeInv'
    OBVIOUS
  <2>1. CASE \E i \in Initiators : CreateInit(i) \/ OnFinishReply(i) \/ Fail(i)
    BY <2>1, CreateInitStep, OnFinishReplyStep, FailStep
  <2>2. CASE \E r \in Responders, i \in Initiators :
               Sent(i) /\ \E init \in Received(InitMessage(i)) : ProcessInit(r, init)
    BY <2>2, ProcessInitStep
  <2>3. CASE \E i \in Initiators, answer \in Replies :
               \E reply \in Received(answer) : ProcessReply(i, reply)
    BY <2>3, ProcessReplyStep
  <2>4. CASE \E r \in Responders, i \in Initiators :
               /\ initiators[i].keys # Null
               /\ \E finish \in Received(FinishMessage(initiators[i].keys)) :
                    VerifyFinish(r, finish)
    BY <2>4, VerifyFinishStep
  <2>5. CASE UNCHANGED hvars
    <3>1. initiators' = initiators /\ responders' = responders
      BY <2>5 DEF hvars
    <3>2. Shape' /\ ServerAgrees' /\ ProxyAgrees'
      BY <3>1 DEF HandshakeInv, Shape, ServerAgrees, ProxyAgrees, Established
    <3>3. \A i \in Initiators : ProxyDerived(i)'
      BY <3>1 DEF HandshakeInv, ProxyDerived, InitiatorKeys
    <3>4. ASSUME NEW r \in Responders
          PROVE  ServerDerived(r)'
      <4>1. ServerDerived(r)
        BY DEF HandshakeInv
      <4> QED
        BY <3>1, <4>1 DEF ServerDerived, ResponderKeys
    <3> QED
      BY <3>2, <3>3, <3>4 DEF HandshakeInv
  <2> QED
    BY <2>1, <2>2, <2>3, <2>4, <2>5 DEF HNext
<1> QED
  BY <1>1, InitHandshakeInv, PTL DEF HSpec

-----------------------------------------------------------------------------
(***************************************************************************)
(* Mutual agreement of handshake.ts: peer, session and keys.               *)
(***************************************************************************)
THEOREM Agreement == HSpec => []KeysAgree
<1>1. HandshakeInv => KeysAgree
  <2> SUFFICES ASSUME HandshakeInv,
                      NEW q \in Responders, NEW r \in Responders,
                      responders[q].keys # Null,
                      responders[r].keys = responders[q].keys
               PROVE  q = r
    BY DEF HandshakeInv, KeysAgree, SessionsDiffer
  <2>1. PICK i, init : i \in Initiators /\ responders[q].keys = ResponderKeys(q, i, init)
    BY DEF HandshakeInv, ServerDerived
  <2>2. PICK j, other : j \in Initiators /\ responders[r].keys = ResponderKeys(r, j, other)
    BY DEF HandshakeInv, ServerDerived
  <2> QED
    BY <2>1, <2>2, ResponderKeysDiffer
<1> QED
  BY <1>1, HandshakeInvariance, PTL

-----------------------------------------------------------------------------
(***************************************************************************)
(*                            The two composed                             *)
(***************************************************************************)

(***************************************************************************)
(* Handshakes do not touch the channel, nor does the channel touch them:   *)
(* what is proved of each holds of both together.                          *)
(***************************************************************************)
THEOREM Composition == SecureSpec => Spec /\ HSpec
<1>1. SecureInit => Init /\ HInit
  BY DEF SecureInit
<1>2. [SecureNext]_<<vars, hvars>> => [Next]_vars
  BY DEF SecureNext, Shaking, Talking
<1>3. [SecureNext]_<<vars, hvars>> => [HNext]_hvars
  BY DEF SecureNext, Shaking, Talking
<1> QED
  BY <1>1, <1>2, <1>3, PTL DEF SecureSpec, Spec, HSpec

(***************************************************************************)
(* What the two ends of a channel can rely on, as one statement: the       *)
(* seen-set stays small, no message that is merely late is lost, and the   *)
(* ends agree on peer, session and keys.                                   *)
(***************************************************************************)
THEOREM SecureChannelSafe ==
  SecureSpec => [](TypeOK /\ WindowBounded /\ LateIsNotLost /\ KeysAgree)
BY Composition, ChannelTypeCorrect, SeenSetBounded, LateMessagesAdmitted, Agreement, PTL

(***************************************************************************)
(* The composed system implements at-most-once delivery.                   *)
(***************************************************************************)
THEOREM SecureChannelImplementsAtMostOnce == SecureSpec => ImplementsAtMostOnce
BY Composition, ChannelImplementsAtMostOnce, PTL

(***************************************************************************)
(* Nothing is encrypted, let alone delivered, before both ends hold each   *)
(* other's keys: establishChannel() returns only after the server has      *)
(* established the session.                                                *)
(***************************************************************************)
SentOnAgreedKeys ==
  sent # 0 => \E i \in Initiators : \E r \in Established :
                /\ initiators[i].pc = "connected"
                /\ Mirrored(initiators[i].keys, responders[r].keys)

THEOREM NothingSentTooSoon == SecureSpec => []SentOnAgreedKeys
<1> DEFINE Connected == \E i \in Initiators : initiators[i].pc = "connected"
           Before == sent # 0 => Connected
<1>1. SecureInit => Before
  BY DEF SecureInit, Init
<1>2. HandshakeInv /\ Before /\ [SecureNext]_<<vars, hvars>> => Before'
  <2> SUFFICES ASSUME HandshakeInv, Before, [SecureNext]_<<vars, hvars>>, sent' # 0
               PROVE  Connected'
    OBVIOUS
  <2>1. CASE Talking
    BY <2>1 DEF Talking, hvars
  <2>2. CASE UNCHANGED <<vars, hvars>>
    BY <2>2 DEF vars, hvars
  <2>3. CASE Shaking
    <3>1. PICK i \in Initiators : initiators[i].pc = "connected"
      BY <2>3 DEF Shaking, vars
    <3>2. initiators = [j \in Initiators |-> [pc |-> initiators[j].pc, keys |-> initiators[j].keys]]
      BY DEF HandshakeInv, Shape
    <3>3. initiators'[i].pc = "connected"
      BY <2>3, <3>1, <3>2 DEF Shaking, HNext, CreateInit, OnFinishReply, Fail, ProcessInit,
                              ProcessReply, VerifyFinish
    <3> QED
      BY <3>3
  <2> QED
    BY <2>1, <2>2, <2>3 DEF SecureNext
<1>3. HandshakeInv /\ Before => SentOnAgreedKeys
  BY DEF HandshakeInv, ProxyAgrees, SentOnAgreedKeys
<1> QED
  BY <1>1, <1>2, <1>3, Composition, HandshakeInvariance, PTL DEF SecureSpec
=============================================================================
