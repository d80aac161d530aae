-------------------------- MODULE MCIngestorManager --------------------------
(***************************************************************************)
(* One path for five webhook ingestors: a trello one with a stale callback *)
(* URL and a good one, two callers that share a stripe secret, and one     *)
(* that is disabled and would take anything.  Stripe and Trello post an    *)
(* event each.  The poll ingestor comes third.                             *)
(***************************************************************************)
EXTENDS IngestorManager

CONSTANTS stale, trello, stripe, shared, off, secret, otherSecret, url, oldUrl

MCOrder == <<stale, trello, Poll, stripe, shared, off>>
MCProtocol == [w \in Webhooks |-> CASE w \in {stale, trello} -> "trello"
                                    [] w \in {stripe, shared} -> "stripe"
                                    [] OTHER -> "generic"]
MCSecret == [w \in Webhooks |-> CASE w \in {stale, trello} -> otherSecret
                                  [] w \in {stripe, shared} -> secret
                                  [] OTHER -> Unsigned]
MCUrl == [w \in Webhooks |-> CASE w = stale -> oldUrl
                               [] w = trello -> url
                               [] OTHER -> NoUrl]
MCSigned == <<[protocol |-> "stripe", secret |-> secret, url |-> NoUrl],
              [protocol |-> "trello", secret |-> otherSecret, url |-> url]>>
=============================================================================
