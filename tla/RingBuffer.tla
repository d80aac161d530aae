----------------------------- MODULE RingBuffer -----------------------------
(***************************************************************************)
(* The circular buffer of src/remote/ingestors/ring-buffer.ts, as          *)
(* operators on a record of its three private fields.                      *)
(***************************************************************************)
EXTENDS Naturals, Sequences

CONSTANT Capacity       \* bufferSize: 200 unless the caller overrides it

ASSUME CapacityAssumption == Capacity \in Nat \ {0}

Empty == [empty |-> TRUE]    \* undefined, in a slot never written

NewRing == [buffer |-> [i \in 0 .. Capacity - 1 |-> Empty], head |-> 0, count |-> 0]

Push(ring, item) ==
  [buffer |-> [ring.buffer EXCEPT ![ring.head] = item],
   head   |-> (ring.head + 1) % Capacity,
   count  |-> IF ring.count < Capacity THEN ring.count + 1 ELSE ring.count]

\* Mutant: the oldest item is taken to be at the head, as when the ring is full.
ToArrayFromHead(ring) ==
  [i \in 1 .. ring.count |-> ring.buffer[(ring.head + i - 1) % Capacity]]

(***************************************************************************)
(* Oldest first.                                                           *)
(***************************************************************************)
ToArray(ring) ==
  LET start == (ring.head + Capacity - ring.count) % Capacity
  IN  [i \in 1 .. ring.count |-> ring.buffer[(start + i - 1) % Capacity]]

(***************************************************************************)
(* The filter of since(), as a recursive function, which can be expanded   *)
(* in a proof; SelectSeq cannot.                                           *)
(***************************************************************************)
NewerThan(items, afterId) ==
  LET newer[n \in 0 .. Len(items)] ==
        IF n = 0 THEN <<>>
        ELSE IF items[n].id > afterId THEN Append(newer[n - 1], items[n])
        ELSE newer[n - 1]
  IN  newer[Len(items)]

Since(ring, afterId) == NewerThan(ToArray(ring), afterId)
=============================================================================
