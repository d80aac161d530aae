--------------------------- MODULE RateLimitHistory ---------------------------
(***************************************************************************)
(* SessionServer with a history of the requests that passed checkRateLimit *)
(* of src/remote/server.ts, as counts over times that end now.             *)
(***************************************************************************)
EXTENDS SessionServer

VARIABLE admitted     \* admitted[s][a]: requests of s admitted in the last a ticks

LastMinute == 0 .. RATE_WINDOW

HInit ==
  /\ Init
  /\ admitted = [s \in SessionIds |-> [a \in LastMinute |-> 0]]

Elapse(counts) == [a \in LastMinute |-> IF a = 0 THEN 0 ELSE counts[a - 1]]

HTick ==
  /\ Tick
  /\ admitted' = [s \in SessionIds |-> Elapse(admitted[s])]

HRequest(s, r) ==
  /\ Request(s, r)
  /\ admitted' = IF s \in sessions /\ WithinLimit(s)
                   THEN [admitted EXCEPT ![s] = [a \in LastMinute |-> @[a] + 1]]
                   ELSE admitted

HOther ==
  /\ \/ \E s \in SessionIds : Handshake(s)
     \/ \E h \in handlers : HandlerReturns(h)
     \/ CleanupSessions
     \/ Restart
  /\ UNCHANGED admitted

HNext ==
  \/ HTick
  \/ \E s \in SessionIds, r \in Requests : HRequest(s, r)
  \/ HOther

HSpec == HInit /\ [][HNext]_<<vars, admitted>>

-----------------------------------------------------------------------------
(***************************************************************************)
(* checkRateLimit counts in fixed windows, each starting at the first      *)
(* request after the last one ran out.  Over any minute, wherever it       *)
(* starts, a session gets at most twice its limit through.                 *)
(***************************************************************************)
AdmittedLastMinute(s) == admitted[s][RATE_WINDOW]

AtMostTwiceTheLimit == \A s \in SessionIds : AdmittedLastMinute(s) <= 2 * RATE_LIMIT
=============================================================================
