---------------------------- MODULE PollIngestor ----------------------------
(***************************************************************************)
(* A PollIngestor (src/remote/ingestors/poll/poll-ingestor.ts) with        *)
(* deduplicateBy set, and the feed it polls, which shows the newest items. *)
(* A poll has no timeout, so that the next may start before it ends.  The  *)
(* actions change the variables of this module only.                       *)
(***************************************************************************)
EXTENDS Naturals, SequencesExt

CONSTANTS
  MAX_CONSECUTIVE_ERRORS, \* 10
  MAX_SEEN_IDS,           \* 10000
  PageSize,               \* items the feed shows
  MaxItems,               \* bound: items there will ever be
  MaxPolls                \* bound: polls under way at a time

ASSUME ErrorsAssumption == MAX_CONSECUTIVE_ERRORS \in Nat /\ MAX_CONSECUTIVE_ERRORS > 1
ASSUME SeenAssumption ==
  /\ MAX_SEEN_IDS \in Nat \ {0}
  /\ PageSize \in Nat \ {0}
  /\ 2 * PageSize - 1 <= MAX_SEEN_IDS \div 2 + 1
ASSUME PollBoundsAssumption == MaxItems \in Nat /\ MaxPolls \in Nat \ {0}

VARIABLES
  pollState,              \* what getStatus() reports
  pollTimer,              \* the field holds an interval
  starting,               \* start() awaits the first poll
  polls,                  \* how far each poll is
  pages,                  \* the newest item in what a poll was answered
  consecutiveErrors,
  seenIds,
  feed,                   \* the feed's newest item
  pushed,                 \* history: items given to pushEvent()
  repeated,               \* history: those given to it again
  overlapped              \* history: a poll has started before another ended

pollVars == <<pollState, pollTimer, starting, polls, pages, consecutiveErrors,
              seenIds, feed, pushed, repeated, overlapped>>

Items == 1 .. MaxItems
Polls == 1 .. MaxPolls

PollInit ==
  /\ pollState = "stopped"
  /\ pollTimer = FALSE
  /\ starting = FALSE
  /\ polls = [i \in Polls |-> "idle"]
  /\ pages = [i \in Polls |-> 0]
  /\ consecutiveErrors = 0
  /\ seenIds = <<>>
  /\ feed = 0
  /\ pushed = {}
  /\ repeated = {}
  /\ overlapped = FALSE

NewItem ==
  /\ feed < MaxItems
  /\ feed' = feed + 1
  /\ UNCHANGED <<pollState, pollTimer, starting, polls, pages, consecutiveErrors,
                 seenIds, pushed, repeated, overlapped>>

-----------------------------------------------------------------------------
\* Mutant: the newest half is pruned.
PruneSeenIdsNewest(ids) ==
  IF Len(ids) > MAX_SEEN_IDS THEN SubSeq(ids, 1, Len(ids) - Len(ids) \div 2) ELSE ids

\* Mutant: the limit is passed by one.
PruneSeenIdsLate(ids) ==
  IF Len(ids) > MAX_SEEN_IDS + 1 THEN SubSeq(ids, Len(ids) \div 2 + 1, Len(ids)) ELSE ids

(***************************************************************************)
(* pruneSeenIds(): the oldest half goes.                                   *)
(***************************************************************************)
PruneSeenIds(ids) ==
  IF Len(ids) > MAX_SEEN_IDS THEN SubSeq(ids, Len(ids) \div 2 + 1, Len(ids)) ELSE ids

(***************************************************************************)
(* shouldPush() and what it does for one item of a response.               *)
(***************************************************************************)
ShouldPush(done, item) ==
  IF item \in Range(done.ids)
    THEN done
    ELSE [ids |-> PruneSeenIds(Append(done.ids, item)),
          pushed |-> done.pushed \cup {item},
          repeated |-> done.repeated \cup (done.pushed \cap {item})]

(***************************************************************************)
(* The loop of poll() over the items of a response.                        *)
(***************************************************************************)
PushItems(response) ==
  LET done[k \in 0 .. Len(response)] ==
        IF k = 0 THEN [ids |-> seenIds, pushed |-> pushed, repeated |-> repeated]
                 ELSE ShouldPush(done[k - 1], response[k])
  IN  done[Len(response)]

(***************************************************************************)
(* The items of a response, the newest first or last.                      *)
(***************************************************************************)
Oldest(n) == IF n > PageSize THEN n - PageSize + 1 ELSE 1
Responses(n) ==
  LET page == [k \in 1 .. n - Oldest(n) + 1 |-> Oldest(n) + k - 1]
  IN  {page, Reverse(page)}

-----------------------------------------------------------------------------
StartPoll ==
  /\ pollState' = "starting"
  /\ starting' = TRUE
  /\ polls' = [polls EXCEPT ![1] = "asked"]
  /\ UNCHANGED <<pollTimer, pages, consecutiveErrors, seenIds, feed, pushed, repeated,
                 overlapped>>

\* Mutant: the interval is not cleared.
StopPollKeepsTimer ==
  /\ pollState' = "stopped"
  /\ UNCHANGED <<pollTimer, starting, polls, pages, consecutiveErrors, seenIds, feed,
                 pushed, repeated, overlapped>>

StopPoll ==
  /\ pollState' = "stopped"
  /\ pollTimer' = FALSE
  /\ UNCHANGED <<starting, polls, pages, consecutiveErrors, seenIds, feed, pushed,
                 repeated, overlapped>>

(***************************************************************************)
(* The interval starts a poll, whether or not another is under way.        *)
(***************************************************************************)
OnInterval(i) ==
  /\ pollTimer
  /\ polls[i] = "idle"
  /\ polls' = [polls EXCEPT ![i] = "asked"]
  /\ overlapped' = (overlapped \/ \E k \in Polls : polls[k] # "idle")
  /\ UNCHANGED <<pollState, pollTimer, starting, pages, consecutiveErrors, seenIds,
                 feed, pushed, repeated>>

Answered(i) ==
  /\ polls[i] = "asked"
  /\ polls' = [polls EXCEPT ![i] = "answered"]
  /\ pages' = [pages EXCEPT ![i] = feed]
  /\ UNCHANGED <<pollState, pollTimer, starting, consecutiveErrors, seenIds, feed,
                 pushed, repeated, overlapped>>

EndsStart(i) == starting /\ i = 1

(***************************************************************************)
(* The end of poll(), which looks at no state that a stop or a permanent   *)
(* error may have left, and with the first poll the end of start().        *)
(***************************************************************************)
PollSucceeds(i) ==
  /\ polls[i] = "answered"
  /\ \E response \in Responses(pages[i]) :
       LET done == PushItems(response)
       IN  /\ seenIds' = done.ids
           /\ pushed' = done.pushed
           /\ repeated' = done.repeated
  /\ consecutiveErrors' = 0
  /\ pollState' = "connected"
  /\ pollTimer' = (pollTimer \/ EndsStart(i))
  /\ starting' = (starting /\ i # 1)
  /\ polls' = [polls EXCEPT ![i] = "idle"]
  /\ pages' = [pages EXCEPT ![i] = 0]
  /\ UNCHANGED <<feed, overlapped>>

PollFails(i) ==
  /\ polls[i] # "idle"
  /\ consecutiveErrors' = consecutiveErrors + 1
  /\ \/ /\ consecutiveErrors' >= MAX_CONSECUTIVE_ERRORS
        /\ pollState' = "error"
        /\ pollTimer' = FALSE
     \/ /\ consecutiveErrors' < MAX_CONSECUTIVE_ERRORS
        /\ pollState' = "reconnecting"
        /\ pollTimer' = (pollTimer \/ EndsStart(i))
  /\ starting' = (starting /\ i # 1)
  /\ polls' = [polls EXCEPT ![i] = "idle"]
  /\ pages' = [pages EXCEPT ![i] = 0]
  /\ UNCHANGED <<seenIds, feed, pushed, repeated, overlapped>>

-----------------------------------------------------------------------------
PollTypeOK ==
  /\ pollState \in {"stopped", "starting", "connected", "reconnecting", "error"}
  /\ pollTimer \in BOOLEAN
  /\ starting \in BOOLEAN
  /\ polls \in [Polls -> {"idle", "asked", "answered"}]
  /\ pages \in [Polls -> 0 .. feed]
  /\ consecutiveErrors \in 0 .. MAX_CONSECUTIVE_ERRORS + MaxPolls
  /\ seenIds \in Seq(1 .. feed) /\ Len(seenIds) <= MAX_SEEN_IDS
  /\ feed \in 0 .. MaxItems
  /\ repeated \subseteq pushed /\ pushed \subseteq 1 .. feed
  /\ overlapped \in BOOLEAN
=============================================================================
