------------------------- MODULE AtMostOnceDelivery -------------------------
(***************************************************************************)
(* What the header comment of src/shared/crypto/channel.ts promises of one *)
(* direction of a channel, with neither counters nor windows: every        *)
(* message that comes out was put in, in any order, and none comes out     *)
(* twice.                                                                  *)
(***************************************************************************)
EXTENDS Naturals

CONSTANT Messages     \* the messages in the order they are sent: 1 .. n

VARIABLES
  sent,               \* how many messages were put in
  deliveries          \* how often each message came out

Init ==
  /\ sent = 0
  /\ deliveries = [m \in Messages |-> 0]

Send ==
  /\ sent + 1 \in Messages
  /\ sent' = sent + 1
  /\ UNCHANGED deliveries

Deliver(m) ==
  /\ m <= sent
  /\ deliveries[m] = 0
  /\ deliveries' = [deliveries EXCEPT ![m] = 1]
  /\ UNCHANGED sent

Next == Send \/ \E m \in Messages : Deliver(m)

Spec == Init /\ [][Next]_<<sent, deliveries>>
=============================================================================
