--------------------------- MODULE WebhookIngestor ---------------------------
(***************************************************************************)
(* What a webhook ingestor does with one request                           *)
(* (src/remote/ingestors/webhook/): verify the signature as the service's  *)
(* protocol has it, then buffer the event under the key of its delivery.   *)
(* A signature is the record of what it was computed from.                 *)
(***************************************************************************)
EXTENDS Naturals

CONSTANTS
  Webhooks,               \* webhook ingestors that share one path
  protocolOf,             \* "generic" (GitHub), "stripe" or "trello"
  signatureSecret,        \* the secret each resolves, or Unsigned or Unresolved
  callbackUrl,            \* the URL each has configured, or NoUrl
  Unsigned, Unresolved,   \* no secret is named; the one named is not set
  NoUrl,
  DEFAULT_TIMESTAMP_TOLERANCE   \* 300 seconds

ASSUME WebhooksAssumption ==
  /\ protocolOf \in [Webhooks -> {"generic", "stripe", "trello"}]
  /\ DEFAULT_TIMESTAMP_TOLERANCE \in Nat \ {0}

Signature(protocol, secret, event, url) ==
  [protocol |-> protocol, secret |-> secret, event |-> event,
   url |-> IF protocol = "trello" THEN url ELSE NoUrl]

-----------------------------------------------------------------------------
(***************************************************************************)
(* The three schemes.  Each looks for its own header, Stripe's tells when  *)
(* it was signed, and Trello signs the callback URL as well.               *)
(***************************************************************************)
VerifyGitHubSignature(request, secret) ==
  request.signature = Signature("generic", secret, request.event, NoUrl)

VerifyStripeSignature(request, secret) ==
  /\ request.age <= DEFAULT_TIMESTAMP_TOLERANCE
  /\ request.signature = Signature("stripe", secret, request.event, NoUrl)

VerifyTrelloSignature(request, secret, url) ==
  request.signature = Signature("trello", secret, request.event, url)

(***************************************************************************)
(* verifySignature() of the three classes.                                 *)
(***************************************************************************)
Skips(w) == signatureSecret[w] = Unsigned

GitHubVerifies(w, request) ==
  \/ Skips(w)
  \/ /\ signatureSecret[w] # Unresolved
     /\ VerifyGitHubSignature(request, signatureSecret[w])

StripeVerifies(w, request) ==
  \/ Skips(w)
  \/ /\ signatureSecret[w] # Unresolved
     /\ VerifyStripeSignature(request, signatureSecret[w])

TrelloVerifies(w, request) ==
  \/ Skips(w)
  \/ /\ signatureSecret[w] # Unresolved
     /\ callbackUrl[w] # NoUrl
     /\ VerifyTrelloSignature(request, signatureSecret[w], callbackUrl[w])

VerifySignature(w, request) ==
  CASE protocolOf[w] = "generic" -> GitHubVerifies(w, request)
    [] protocolOf[w] = "stripe" -> StripeVerifies(w, request)
    [] protocolOf[w] = "trello" -> TrelloVerifies(w, request)

-----------------------------------------------------------------------------
(***************************************************************************)
(* extractIdempotencyKey() finds a key in its own service's deliveries.    *)
(***************************************************************************)
HasKey(w, request) == request.signature.protocol = protocolOf[w]

\* Mutant: the delivery has no idempotency key.
BufferedAlways(w, buffer, request) == [buffer EXCEPT ![request.event] = @ + 1]

(***************************************************************************)
(* pushEvent(), in a buffer that has not yet forgotten the key.            *)
(***************************************************************************)
Buffered(w, buffer, request) ==
  IF HasKey(w, request) /\ buffer[request.event] > 0
    THEN buffer
    ELSE [buffer EXCEPT ![request.event] = @ + 1]

(***************************************************************************)
(* handleWebhook(): the buffer after a request.                            *)
(***************************************************************************)
HandleWebhook(w, buffer, request) ==
  IF VerifySignature(w, request) THEN Buffered(w, buffer, request) ELSE buffer
=============================================================================
