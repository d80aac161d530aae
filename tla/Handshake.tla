----------------------------- MODULE Handshake -----------------------------
(***************************************************************************)
(* The mutual handshake of src/shared/protocol/handshake.ts, as            *)
(* establishChannel() and the two handshake routes of the server run it.   *)
(* Several attempts are under way at a time; the network repeats, delays   *)
(* and loses messages, hands a reply to another attempt, and damages any   *)
(* one field.  A key or nonce drawn at random is the object that drew it,  *)
(* and what a hash, a signature or a key derivation yields is equal only   *)
(* if all that goes into it is.                                            *)
(***************************************************************************)
EXTENDS FiniteSets

CONSTANTS
  Peers,          \* holders of a static key pair
  Authorized,     \* authorizedKeys: those the server has public keys of
  Initiators,     \* HandshakeInitiator objects, one for each attempt
  Owner,          \* the peer whose keys each attempt signs with
  Responders,     \* HandshakeResponder objects, one for each init served
  Garbled,        \* what a damaged field reads as
  Null            \* nothing found or derived yet

ASSUME PeersAssumption == Authorized \subseteq Peers /\ Owner \in [Initiators -> Peers]
ASSUME GarbledAssumption == Garbled \notin Peers \cup Initiators \cup Responders

VARIABLES
  initiators,     \* how far each attempt is, and its session keys
  responders      \* the same of the server's end, and the peer it found

hvars == <<initiators, responders>>

HInit ==
  /\ initiators = [i \in Initiators |-> [pc |-> "new", keys |-> Null]]
  /\ responders = [r \in Responders |->
                      [pc |-> "new", peer |-> Null, reply |-> Null, keys |-> Null]]

(***************************************************************************)
(* signData() of what a peer, or the server, signs.                        *)
(***************************************************************************)
Sign(signer, parts) == [signer |-> signer, parts |-> parts]

InitMessage(i) ==
  [type |-> "handshake_init", version |-> 1, signingPubKey |-> Owner[i],
   ephemeralPubKey |-> i, nonceI |-> i, signature |-> Sign(Owner[i], <<i, i>>)]

\* Mutant: the server's ephemeral key and nonce are made once.
ReplyMessageStatic(r, nonceI) ==
  LET s == CHOOSE s \in Responders : TRUE
  IN  [type |-> "handshake_reply", ephemeralPubKey |-> s, nonceR |-> s,
       signature |-> Sign("server", <<s, s, nonceI>>)]

ReplyMessage(r, nonceI) ==
  [type |-> "handshake_reply", ephemeralPubKey |-> r, nonceR |-> r,
   signature |-> Sign("server", <<r, r, nonceI>>)]

FinishMessage(keys) == [sessionId |-> keys.sessionId, payload |-> keys.sendKey]

(***************************************************************************)
(* deriveSessionKeys() from the shared secret of two ephemeral keys and    *)
(* the transcript.                                                         *)
(***************************************************************************)
DeriveSessionKeys(ephemerals, isInitiator, transcript) ==
  LET hkdf(info) == [secret |-> ephemerals, salt |-> transcript, info |-> info]
      i2r == hkdf("initiator-to-responder")
      r2i == hkdf("responder-to-initiator")
  IN  [sendKey |-> IF isInitiator THEN i2r ELSE r2i,
       recvKey |-> IF isInitiator THEN r2i ELSE i2r,
       sessionId |-> hkdf("session-id")]

\* What may be received for a message that was sent.
Received(m) == {m} \cup {[m EXCEPT ![field] = Garbled] : field \in DOMAIN m}

-----------------------------------------------------------------------------
(***************************************************************************)
(* A proxy sends its init message.                                         *)
(***************************************************************************)
CreateInit(i) ==
  /\ initiators[i].pc = "new"
  /\ initiators' = [initiators EXCEPT ![i].pc = "init"]
  /\ UNCHANGED responders

Sent(i) == initiators[i].pc # "new"

(***************************************************************************)
(* processInit() and deriveKeys(): an init whose version, peer and         *)
(* signature are right gets a reply and a session; any other gets a 403.   *)
(* The type of a message is neither checked nor signed, but the transcript *)
(* has it.                                                                 *)
(***************************************************************************)
Acceptable(init) ==
  /\ init.version = 1
  /\ init.signingPubKey \in Authorized
  /\ init.signature = Sign(init.signingPubKey, <<init.ephemeralPubKey, init.nonceI>>)

ProcessInit(r, init) ==
  /\ responders[r].pc = "new"
  /\ Acceptable(init)
  /\ LET reply == ReplyMessage(r, init.nonceI)
     IN  responders' = [responders EXCEPT ![r] =
           [pc |-> "pending", peer |-> init.signingPubKey, reply |-> reply,
            keys |-> DeriveSessionKeys({reply.ephemeralPubKey, init.ephemeralPubKey},
                                       FALSE, <<init, reply>>)]]
  /\ UNCHANGED initiators

Replies == {responders[r].reply : r \in {r \in Responders : responders[r].pc # "new"}}

(***************************************************************************)
(* processReply() and createFinish(): the reply must be signed by the      *)
(* server over this attempt's nonce.                                       *)
(***************************************************************************)
ProcessReply(i, reply) ==
  /\ initiators[i].pc = "init"
  /\ reply.signature = Sign("server", <<reply.ephemeralPubKey, reply.nonceR, i>>)
  /\ initiators' = [initiators EXCEPT ![i] =
       [pc |-> "finish",
        keys |-> DeriveSessionKeys({i, reply.ephemeralPubKey}, TRUE,
                                   <<InitMessage(i), reply>>)]]
  /\ UNCHANGED responders

(***************************************************************************)
(* POST /handshake/finish: the session is looked up by its id, and the     *)
(* payload must decrypt with the server's receiving key.  Unless it does,  *)
(* session and handshake are dropped.                                      *)
(***************************************************************************)
Verified(r, finish) == finish.payload = responders[r].keys.recvKey

VerifyFinish(r, finish) ==
  /\ responders[r].pc = "pending"
  /\ finish.sessionId = responders[r].keys.sessionId
  /\ responders' = [responders EXCEPT ![r].pc =
                      IF Verified(r, finish) THEN "established" ELSE "dropped"]
  /\ UNCHANGED initiators

(***************************************************************************)
(* The answer to the finish message, which the server gives once the       *)
(* session is established; it comes late, or not at all.                   *)
(***************************************************************************)
OnFinishReply(i) ==
  /\ initiators[i].pc = "finish"
  /\ \E r \in Responders :
       /\ responders[r].pc = "established"
       /\ responders[r].keys.sessionId = initiators[i].keys.sessionId
  /\ initiators' = [initiators EXCEPT ![i].pc = "connected"]
  /\ UNCHANGED responders

\* A 403, a 404, a bad signature or a timeout: establishChannel() throws.
Fail(i) ==
  /\ initiators[i].pc \in {"init", "finish"}
  /\ initiators' = [initiators EXCEPT ![i].pc = "failed"]
  /\ UNCHANGED responders

HNext ==
  \/ \E i \in Initiators : CreateInit(i) \/ OnFinishReply(i) \/ Fail(i)
  \/ \E r \in Responders, i \in Initiators :
       Sent(i) /\ \E init \in Received(InitMessage(i)) : ProcessInit(r, init)
  \/ \E i \in Initiators, sent \in Replies :
       \E reply \in Received(sent) : ProcessReply(i, reply)
  \/ \E r \in Responders, i \in Initiators :
       /\ initiators[i].keys # Null
       /\ \E finish \in Received(FinishMessage(initiators[i].keys)) :
            VerifyFinish(r, finish)

HSpec == HInit /\ [][HNext]_hvars

-----------------------------------------------------------------------------
(***************************************************************************)
(* The two ends of a session hold the same keys the other way round, and   *)
(* no key serves both directions.                                          *)
(***************************************************************************)
Mirrored(keys, peerKeys) ==
  /\ keys.sendKey = peerKeys.recvKey
  /\ keys.recvKey = peerKeys.sendKey
  /\ keys.sessionId = peerKeys.sessionId
  /\ keys.sendKey # keys.recvKey

Established == {r \in Responders : responders[r].pc = "established"}

(***************************************************************************)
(* Mutual agreement.  A session that the server has established belongs to *)
(* one attempt of the very peer the server takes it for; an attempt that   *)
(* is connected has its session; both ends have each other's keys; and no  *)
(* two sessions share keys, although an init message that comes twice is   *)
(* served twice and a changed but unsigned field goes unnoticed at first.  *)
(***************************************************************************)
ServerAgrees ==
  \A r \in Established :
    \E i \in Initiators :
      /\ Owner[i] = responders[r].peer
      /\ initiators[i].keys # Null
      /\ Mirrored(initiators[i].keys, responders[r].keys)

ProxyAgrees ==
  \A i \in Initiators :
    initiators[i].pc = "connected"
      => \E r \in Established : Mirrored(initiators[i].keys, responders[r].keys)

SessionsDiffer ==
  \A q, r \in Responders :
    responders[q].keys # Null /\ responders[r].keys = responders[q].keys => q = r

KeysAgree == ServerAgrees /\ ProxyAgrees /\ SessionsDiffer
=============================================================================
