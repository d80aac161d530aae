---------------------------- MODULE BaseIngestor ----------------------------
(***************************************************************************)
(* What every ingestor inherits from src/remote/ingestors/base-ingestor.ts *)
(* to collect events: a ring buffer, a counter for event ids, and the keys *)
(* seen of late.  Operators on a record of these fields.                   *)
(***************************************************************************)
EXTENDS RingBuffer, Integers, SequencesExt

CONSTANTS
  MAX_SEEN_KEYS,        \* 2000
  ID_MULTIPLIER,        \* 1_000_000
  NoKey                 \* the service gives the event no idempotency key

ASSUME SeenKeysAssumption == MAX_SEEN_KEYS \in Nat \ {0}
ASSUME MultiplierAssumption == ID_MULTIPLIER \in Nat \ {0}

NewIngestor == [ring |-> NewRing, counter |-> 0, seenKeys |-> <<>>]

(***************************************************************************)
(* A Set of the code iterates in insertion order, and no key is added      *)
(* twice: here a sequence.                                                 *)
(***************************************************************************)
IsDuplicate(ing, key) == key # NoKey /\ Contains(ing.seenKeys, key)

\* Mutant: the newest half goes.
PruneNewest(keys) == SubSeq(keys, 1, Len(keys) - Len(keys) \div 2)

PruneSeenKeys(keys) == SubSeq(keys, (Len(keys) \div 2) + 1, Len(keys))

\* Mutant: the seen keys are never pruned.
RememberAll(keys, key) == Append(keys, key)

Remember(keys, key) ==
  LET added == Append(keys, key)
  IN  IF Len(added) > MAX_SEEN_KEYS THEN PruneSeenKeys(added) ELSE added

\* Mutant: ids start again at every boot.
EventIdPerBoot(ing, bootEpoch) == ing.counter

EventId(ing, bootEpoch) == bootEpoch * ID_MULTIPLIER + ing.counter

(***************************************************************************)
(* The random key an event without one gets is as unique as its id.        *)
(***************************************************************************)
Event(ing, bootEpoch, now, key) ==
  LET id == EventId(ing, bootEpoch)
  IN  [id |-> id, key |-> IF key = NoKey THEN id ELSE key, receivedAt |-> now]

PushEvent(ing, bootEpoch, now, key) ==
  IF IsDuplicate(ing, key)
    THEN ing
    ELSE LET event == Event(ing, bootEpoch, now, key)
         IN  [ring     |-> Push(ing.ring, event),
              counter  |-> ing.counter + 1,
              seenKeys |-> Remember(ing.seenKeys, event.key)]

GetEvents(ing, afterId) ==
  IF afterId < 0 THEN ToArray(ing.ring) ELSE Since(ing.ring, afterId)
=============================================================================
