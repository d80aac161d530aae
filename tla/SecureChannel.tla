--------------------------- MODULE SecureChannel ---------------------------
(***************************************************************************)
(* The handshake and the channel it makes, as src/mcp/server.ts and        *)
(* src/remote/server.ts put them together: once establishChannel() has     *)
(* returned, the proxy encrypts on the channel made of the session keys,   *)
(* and the server decrypts on the one of that session, while handshakes of *)
(* other attempts go on.  Of the two directions one is modelled.           *)
(***************************************************************************)
EXTENDS EncryptedChannel, Handshake

SecureInit == Init /\ HInit

Shaking == HNext /\ UNCHANGED vars

Talking ==
  /\ \E i \in Initiators : initiators[i].pc = "connected"
  /\ Next
  /\ UNCHANGED hvars

SecureNext == Shaking \/ Talking

SecureSpec == SecureInit /\ [][SecureNext]_<<vars, hvars>>
=============================================================================
