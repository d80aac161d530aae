-------------------------- MODULE EncryptedChannel --------------------------
(***************************************************************************)
(* One direction of an EncryptedChannel (src/shared/crypto/channel.ts): a  *)
(* sender that calls encrypt(), a receiver that calls decrypt(), and       *)
(* between them a network that loses, delays, reorders, repeats and        *)
(* damages packets.  AES-256-GCM is abstracted to what decrypt() learns    *)
(* from it: whether the tag over counter and ciphertext is the one the     *)
(* sender made with this direction's key.                                  *)
(***************************************************************************)
EXTENDS AntiReplayWindow

CONSTANT MaxMessages                  \* bound: messages the sender encrypts

ASSUME MaxMessagesAssumption == MaxMessages \in Nat

Messages == 1 .. MaxMessages

VARIABLES
  sendCounter,    \* the sender's private field
  window,         \* the receiver's maxRecvCounter and replayWindow
  net,            \* every packet ever put on the wire, so any may come again
  outcome,        \* how the receiver's last decrypt() ended
  sent,           \* history: how many messages were encrypted
  deliveries      \* history: how often decrypt() returned each message

vars == <<sendCounter, window, net, outcome, sent, deliveries>>

(***************************************************************************)
(* message stands for the ciphertext; condition for the bytes: as sent,    *)
(* cut below the 36 bytes of header, or with counter, tag, IV or           *)
(* ciphertext altered, or sealed under another session's key.              *)
(***************************************************************************)
Packet(counter, message, condition) ==
  [counter |-> counter, message |-> message, condition |-> condition]

Intact == {Packet(c, m, "intact") : c \in 0 .. MaxMessages, m \in Messages}

Spoilt(p) == {Packet(c, p.message, cond) :
                c \in 0 .. MaxMessages, cond \in {"altered", "truncated"}}

Arriving == net \cup UNION {Spoilt(p) : p \in net}

Init ==
  /\ sendCounter = 0
  /\ window = NewWindow
  /\ net = {}
  /\ outcome = "none"
  /\ sent = 0
  /\ deliveries = [m \in Messages |-> 0]

Encrypt ==
  /\ sent < MaxMessages
  /\ net' = net \cup {Packet(sendCounter, sent + 1, "intact")}
  /\ sendCounter' = sendCounter + 1
  /\ sent' = sent + 1
  /\ UNCHANGED <<window, outcome, deliveries>>

(***************************************************************************)
(* decrypt(p): one disjunct for each way it ends, in the code's order.     *)
(* Every error leaves the window as it was.                                *)
(***************************************************************************)
Throw(error) ==
  /\ outcome' = error
  /\ UNCHANGED <<sendCounter, window, net, sent, deliveries>>

RejectTruncated(p) ==
  /\ p.condition = "truncated"
  /\ Throw("too short")

RejectTooOld(p) ==
  /\ p.condition # "truncated"
  /\ TooOld(window, p.counter)
  /\ Throw("too old")

RejectDuplicate(p) ==
  /\ p.condition # "truncated"
  /\ ~TooOld(window, p.counter)
  /\ Duplicate(window, p.counter)
  /\ Throw("duplicate")

\* Mutant: the window is updated before the tag is checked.
RejectUnauthenticLate(p) ==
  /\ p.condition = "altered"
  /\ Admits(window, p.counter)
  /\ window' = Record(window, p.counter)
  /\ outcome' = "tag mismatch"
  /\ UNCHANGED <<sendCounter, net, sent, deliveries>>

RejectUnauthentic(p) ==
  /\ p.condition = "altered"
  /\ Admits(window, p.counter)
  /\ Throw("tag mismatch")

Accept(p) ==
  /\ p.condition = "intact"
  /\ Admits(window, p.counter)
  /\ window' = Record(window, p.counter)
  /\ deliveries' = [deliveries EXCEPT ![p.message] = @ + 1]
  /\ outcome' = "accepted"
  /\ UNCHANGED <<sendCounter, net, sent>>

Decrypt(p) ==
  \/ RejectTruncated(p)
  \/ RejectTooOld(p)
  \/ RejectDuplicate(p)
  \/ RejectUnauthentic(p)
  \/ Accept(p)

Next == Encrypt \/ \E p \in Arriving : Decrypt(p)

Spec == Init /\ [][Next]_vars

-----------------------------------------------------------------------------
Outcomes == {"none", "too short", "too old", "duplicate", "tag mismatch", "accepted"}

(***************************************************************************)
(* The type invariant of the channel's state.                              *)
(***************************************************************************)
TypeOK ==
  /\ sendCounter \in Counters
  /\ window \in Windows
  /\ net \subseteq Intact
  /\ outcome \in Outcomes
  /\ sent \in 0 .. MaxMessages
  /\ deliveries \in [Messages -> Nat]

(***************************************************************************)
(* decrypt() keeps at most a window's worth of counters, all of them no    *)
(* further behind the highest one than the window reaches: the seen-set    *)
(* of a session that lives for days does not grow with its traffic.        *)
(***************************************************************************)
InReach(counter) ==
  /\ counter <= window.maxRecvCounter
  /\ counter > window.maxRecvCounter - ANTI_REPLAY_WINDOW_SIZE

WindowBounded == \A c \in window.replayWindow : InReach(c)

(***************************************************************************)
(* The window never costs a message that is merely late: as long as fewer  *)
(* than a window's worth of counters have overtaken it, a message that     *)
(* was sent and not yet returned still passes the checks of decrypt(),     *)
(* whatever replays and damaged copies arrived before it.                  *)
(***************************************************************************)
Overtaken(p) == p.counter + ANTI_REPLAY_WINDOW_SIZE <= window.maxRecvCounter

LateIsNotLost ==
  \A p \in net :
    deliveries[p.message] = 0 /\ ~Overtaken(p) => Admits(window, p.counter)

(***************************************************************************)
(* The channel implements at-most-once delivery: decrypt() returns only    *)
(* messages that were encrypted, and none of them twice, although packets  *)
(* are repeated and reordered and the seen-set forgets old counters.       *)
(***************************************************************************)
AtMostOnce ==
  INSTANCE AtMostOnceDelivery
    WITH Messages <- Messages, sent <- sent, deliveries <- deliveries

ImplementsAtMostOnce == AtMostOnce!Spec
=============================================================================
