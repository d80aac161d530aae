------------------------- MODULE EventPolling_proofs -------------------------
(***************************************************************************)
(* Proofs about EventPolling for every capacity, every number of keys      *)
(* remembered, and any connections, agents and keys.                       *)
(***************************************************************************)
EXTENDS EventPolling, WellFoundedInduction, TLAPS

Events == [id : Nat, key : Keys \cup Nat, receivedAt : Nat]

Rings == [buffer : [0 .. Capacity - 1 -> Events \cup {Empty}],
          head : 0 .. Capacity - 1, count : 0 .. Capacity]

Ingestors == [ring : Rings, counter : Nat, seenKeys : Seq(Keys \cup Nat)]

-----------------------------------------------------------------------------
(***************************************************************************)
(* Induction.  The least element of a set of naturals is the least number  *)
(* a claim fails for.                                                      *)
(***************************************************************************)
LEMMA Least ==
  ASSUME NEW T \in SUBSET Nat, T # {}
  PROVE  \E n \in T : \A m \in T : n <= m
<1>1. PICK n \in T : \A m \in T : <<m, n>> \notin OpToRel(<, Nat)
  BY NatLessThanWellFounded, WFMin, Zenon
<1>2. \A m \in T : ~(m < n)
  BY <1>1, Zenon DEF OpToRel
<1> QED
  BY <1>2

(***************************************************************************)
(* The recursion of NewerThan, for which a function has to exist.          *)
(***************************************************************************)
NewerStep(items, afterId, g, n) ==
  IF n = 0 THEN <<>>
  ELSE IF items[n].id > afterId THEN Append(g[n - 1], items[n])
  ELSE g[n - 1]

NewerUpTo(items, afterId, m) ==
  CHOOSE g : g = [n \in 0 .. m |-> NewerStep(items, afterId, g, n)]

LEMMA NewerExists ==
  ASSUME NEW items, NEW afterId, NEW m \in Nat
  PROVE  \E g : g = [n \in 0 .. m |-> NewerStep(items, afterId, g, n)]
<1> DEFINE Exists(k) == \E g : g = [n \in 0 .. k |-> NewerStep(items, afterId, g, n)]
           Failing == {k \in Nat : ~Exists(k)}
<1> SUFFICES ASSUME Failing # {} PROVE FALSE
  OBVIOUS
<1>1. PICK k \in Failing : \A j \in Failing : k <= j
  <2> HIDE DEF Exists
  <2> QED
    BY Least
<1>2. k # 0
  <2> DEFINE g == [n \in 0 .. 0 |-> <<>>]
  <2>1. g = [n \in 0 .. 0 |-> NewerStep(items, afterId, g, n)]
    BY DEF NewerStep
  <2>2. Exists(0)
    <3> HIDE DEF g
    <3> QED
      BY <2>1
  <2> QED
    BY <2>2
<1>3. Exists(k - 1)
  <2> HIDE DEF Exists
  <2> QED
    BY <1>1, <1>2
<1>4. PICK g : g = [n \in 0 .. k - 1 |-> NewerStep(items, afterId, g, n)]
  BY <1>3
<1> DEFINE h == [n \in 0 .. k |-> IF n = k THEN NewerStep(items, afterId, g, k) ELSE g[n]]
<1>5. ASSUME NEW n \in 0 .. k
      PROVE  h[n] = NewerStep(items, afterId, h, n)
  <2>1. CASE n = 0
    BY <1>1, <1>2, <1>4, <2>1 DEF NewerStep
  <2>2. CASE n # 0 /\ n # k
    <3>1. g[n] = NewerStep(items, afterId, g, n)
      BY <1>4, <2>2
    <3>2. h[n - 1] = g[n - 1] /\ h[n] = g[n]
      BY <2>2
    <3> HIDE DEF h
    <3> QED
      BY <3>1, <3>2, <2>2 DEF NewerStep
  <2>3. CASE n = k
    <3>1. h[n - 1] = g[n - 1] /\ h[n] = NewerStep(items, afterId, g, n)
      BY <1>1, <1>2, <2>3
    <3> HIDE DEF h
    <3> QED
      BY <1>2, <3>1, <2>3 DEF NewerStep
  <2> QED
    BY <2>1, <2>2, <2>3
<1>6. h = [n \in 0 .. k |-> NewerStep(items, afterId, h, n)]
  <2> SUFFICES ASSUME NEW n \in 0 .. k PROVE h[n] = NewerStep(items, afterId, h, n)
    OBVIOUS
  <2> QED
    BY <1>5
<1>7. Exists(k)
  <2> HIDE DEF h
  <2> QED
    BY <1>6
<1> QED
  BY <1>1, <1>7

LEMMA NewerThanDef ==
  ASSUME NEW items, NEW afterId, Len(items) \in Nat
  PROVE  \E g : /\ g = [n \in 0 .. Len(items) |-> NewerStep(items, afterId, g, n)]
                /\ NewerThan(items, afterId) = g[Len(items)]
<1> DEFINE g == NewerUpTo(items, afterId, Len(items))
<1>1. g = [n \in 0 .. Len(items) |-> NewerStep(items, afterId, g, n)]
  BY NewerExists DEF NewerUpTo
<1>2. NewerThan(items, afterId) = g[Len(items)]
  BY DEF NewerThan, NewerUpTo, NewerStep
<1> QED
  BY <1>1, <1>2

(***************************************************************************)
(* What since() keeps of events in the order of their ids.                 *)
(***************************************************************************)
Increasing(items) == \A i, j \in 1 .. Len(items) : i < j => items[i].id < items[j].id

LEMMA NewerThanKeeps ==
  ASSUME NEW items \in Seq(Events), NEW afterId \in Int, Increasing(items)
  PROVE  LET newer == NewerThan(items, afterId) IN
         /\ newer \in Seq(Events)
         /\ ToSet(newer) = {items[i] : i \in {k \in 1 .. Len(items) : items[k].id > afterId}}
         /\ newer # <<>> => /\ items # <<>>
                            /\ Last(newer) = Last(items)
<1>1. PICK g : /\ g = [n \in 0 .. Len(items) |-> NewerStep(items, afterId, g, n)]
               /\ NewerThan(items, afterId) = g[Len(items)]
  <2>1. Len(items) \in Nat
    OBVIOUS
  <2> QED
    BY <2>1, NewerThanDef
<1> DEFINE Kept(n) ==
      /\ g[n] \in Seq(Events)
      /\ \A i \in 1 .. Len(g[n]) : \E k \in 1 .. n : items[k].id > afterId /\ g[n][i] = items[k]
      /\ \A k \in 1 .. n : items[k].id > afterId => \E i \in 1 .. Len(g[n]) : g[n][i] = items[k]
      /\ g[n] # <<>> => n # 0 /\ items[n].id > afterId /\ g[n][Len(g[n])] = items[n]
    Failing == {n \in Nat : n \in 0 .. Len(items) /\ ~Kept(n)}
<1>2. \A n \in 0 .. Len(items) : g[n] = NewerStep(items, afterId, g, n)
  BY <1>1
<1>3. Failing = {}
  <2> SUFFICES ASSUME Failing # {} PROVE FALSE
    OBVIOUS
  <2>1. PICK n \in Failing : \A m \in Failing : n <= m
    <3> HIDE DEF Kept
    <3> QED
      BY Least
  <2>2. n \in 0 .. Len(items) /\ n \in Nat
    OBVIOUS
  <2>3. CASE n = 0
    <3>1. g[0] = <<>>
      BY <1>2, <2>2, <2>3 DEF NewerStep
    <3>2. Kept(0)
      BY <3>1
    <3> QED
      BY <3>2, <2>1, <2>3
  <2>4. CASE n # 0
    <3>1. Kept(n - 1)
      <4> HIDE DEF Kept
      <4> QED
        BY <2>1, <2>2, <2>4
    <3>2. items[n] \in Events /\ items[n].id \in Nat
      <4>1. n \in 1 .. Len(items)
        BY <2>2, <2>4
      <4>2. items[n] \in Events
        BY <4>1
      <4> QED
        BY <4>2 DEF Events
    <3>3. CASE items[n].id > afterId
      <4>1. g[n] = Append(g[n - 1], items[n])
        BY <1>2, <2>2, <2>4, <3>3 DEF NewerStep
      <4>2. /\ g[n] \in Seq(Events)
            /\ Len(g[n]) = Len(g[n - 1]) + 1
            /\ \A i \in 1 .. Len(g[n - 1]) : g[n][i] = g[n - 1][i]
            /\ g[n][Len(g[n])] = items[n]
        BY <3>1, <3>2, <4>1
      <4>3. \A i \in 1 .. Len(g[n]) :
              \E k \in 1 .. n : items[k].id > afterId /\ g[n][i] = items[k]
        <5> TAKE i \in 1 .. Len(g[n])
        <5>1. CASE i = Len(g[n])
          BY <5>1, <4>2, <3>3, <2>2, <2>4
        <5>2. CASE i # Len(g[n])
          <6>1. i \in 1 .. Len(g[n - 1])
            BY <5>2, <4>2, <3>1
          <6>2. PICK k \in 1 .. n - 1 : items[k].id > afterId /\ g[n - 1][i] = items[k]
            BY <6>1, <3>1
          <6> QED
            BY <6>1, <6>2, <4>2, <2>2
        <5> QED
          BY <5>1, <5>2
      <4>4. \A k \in 1 .. n : items[k].id > afterId =>
              \E i \in 1 .. Len(g[n]) : g[n][i] = items[k]
        <5> SUFFICES ASSUME NEW k \in 1 .. n, items[k].id > afterId
                     PROVE  \E i \in 1 .. Len(g[n]) : g[n][i] = items[k]
          OBVIOUS
        <5>1. CASE k = n
          <6>1. Len(g[n]) \in 1 .. Len(g[n])
            BY <4>2, <3>1
          <6> QED
            BY <5>1, <6>1, <4>2
        <5>2. CASE k # n
          <6>1. k \in 1 .. n - 1
            BY <5>2, <2>2
          <6>2. PICK i \in 1 .. Len(g[n - 1]) : g[n - 1][i] = items[k]
            BY <6>1, <3>1
          <6> QED
            BY <6>2, <4>2, <3>1
        <5> QED
          BY <5>1, <5>2
      <4>5. Kept(n)
        BY <4>2, <4>3, <4>4, <3>3, <2>4
      <4> QED
        BY <4>5, <2>1
    <3>4. CASE ~(items[n].id > afterId)
      <4>1. g[n] = g[n - 1]
        BY <1>2, <2>2, <2>4, <3>4 DEF NewerStep
      <4>2. g[n - 1] = <<>>
        <5> SUFFICES ASSUME g[n - 1] # <<>> PROVE FALSE
          OBVIOUS
        <5>1. n - 1 \in 1 .. Len(items) /\ n \in 1 .. Len(items) /\ n - 1 < n
          BY <3>1, <2>2
        <5>2. items[n - 1].id < items[n].id
          BY <5>1 DEF Increasing
        <5>3. items[n - 1].id > afterId
          BY <3>1
        <5>4. items[n - 1] \in Events
          BY <5>1
        <5>5. items[n - 1].id \in Nat
          BY <5>4 DEF Events
        <5> QED
          BY <5>2, <5>3, <5>5, <3>2, <3>4
      <4>3. \A k \in 1 .. n : ~(items[k].id > afterId)
        <5> SUFFICES ASSUME NEW k \in 1 .. n - 1 PROVE ~(items[k].id > afterId)
          BY <3>4, <2>2
        <5> QED
          BY <3>1, <4>2
      <4>4. Kept(n)
        BY <4>1, <4>2, <4>3
      <4> QED
        BY <4>4, <2>1
    <3> QED
      BY <3>3, <3>4
  <2> QED
    BY <2>3, <2>4
<1>4. Kept(Len(items))
  <2>1. Len(items) \in Nat /\ Len(items) \in 0 .. Len(items)
    OBVIOUS
  <2> HIDE DEF Kept
  <2> QED
    BY <1>3, <2>1
<1>5. ToSet(g[Len(items)]) = {items[i] : i \in {k \in 1 .. Len(items) : items[k].id > afterId}}
  <2>1. DOMAIN g[Len(items)] = 1 .. Len(g[Len(items)])
    BY <1>4
  <2> SUFFICES ASSUME NEW x
               PROVE  x \in ToSet(g[Len(items)])
                        <=> \E i \in 1 .. Len(items) : items[i].id > afterId /\ x = items[i]
    OBVIOUS
  <2>2. x \in ToSet(g[Len(items)]) <=> \E i \in 1 .. Len(g[Len(items)]) : x = g[Len(items)][i]
    BY <2>1 DEF ToSet
  <2> QED
    BY <2>2, <1>4
<1>6. g[Len(items)] # <<>> => items # <<>> /\ Last(g[Len(items)]) = Last(items)
  BY <1>4 DEF Last
<1> QED
  BY <1>1, <1>4, <1>5, <1>6

-----------------------------------------------------------------------------
(***************************************************************************)
(* The ring buffer against the sequence of all that was pushed: the j-th   *)
(* item from its end is in the j-th slot before the head.                  *)
(***************************************************************************)
Slot(head, j) == IF j <= head THEN head - j ELSE head - j + Capacity

RingMatches(ring, acc) ==
  /\ ring.count = IF Len(acc) < Capacity THEN Len(acc) ELSE Capacity
  /\ \A j \in 1 .. ring.count : ring.buffer[Slot(ring.head, j)] = acc[Len(acc) - j + 1]

LEMMA Wraps ==
  ASSUME NEW a \in Nat, a < 2 * Capacity
  PROVE  a % Capacity = IF a < Capacity THEN a ELSE a - Capacity
  BY CapacityAssumption

LEMMA HeadAfterPush ==
  ASSUME NEW head \in 0 .. Capacity - 1
  PROVE  /\ (head + 1) % Capacity = IF head = Capacity - 1 THEN 0 ELSE head + 1
         /\ (head + 1) % Capacity \in 0 .. Capacity - 1
<1>1. head + 1 \in Nat /\ head + 1 < 2 * Capacity /\ Capacity \in Nat
  BY CapacityAssumption
<1>2. (head + 1) % Capacity = IF head + 1 < Capacity THEN head + 1 ELSE head + 1 - Capacity
  BY <1>1, Wraps
<1> QED
  BY <1>1, <1>2

LEMMA SlotAfterPush ==
  ASSUME NEW head \in 0 .. Capacity - 1, NEW next \in 0 .. Capacity - 1,
         next = IF head = Capacity - 1 THEN 0 ELSE head + 1
  PROVE  /\ Slot(next, 1) = head
         /\ \A j \in 2 .. Capacity : /\ Slot(next, j) = Slot(head, j - 1)
                                     /\ Slot(head, j - 1) # head
                                     /\ Slot(head, j - 1) \in 0 .. Capacity - 1
  BY CapacityAssumption DEF Slot

LEMMA SlotFromStart ==
  ASSUME NEW head \in 0 .. Capacity - 1, NEW count \in 0 .. Capacity,
         NEW i \in 1 .. count
  PROVE  (((head + Capacity - count) % Capacity) + i - 1) % Capacity
           = Slot(head, count - i + 1)
<1> DEFINE start == (head + Capacity - count) % Capacity
<1>1. /\ Capacity \in Nat
      /\ head + Capacity - count \in Nat
      /\ head + Capacity - count < 2 * Capacity
  BY CapacityAssumption
<1>2. start = IF head + Capacity - count < Capacity THEN head + Capacity - count
              ELSE head + Capacity - count - Capacity
  BY <1>1, Wraps
<1> DEFINE sum == start + i - 1
<1>3. sum = start + i - 1
  OBVIOUS
<1> HIDE DEF start, sum
<1>4. sum \in Nat /\ sum < 2 * Capacity
  BY <1>1, <1>2, <1>3
<1>5. sum % Capacity = IF sum < Capacity THEN sum ELSE sum - Capacity
  BY <1>4, Wraps
<1>6. sum % Capacity = Slot(head, count - i + 1)
  BY <1>1, <1>2, <1>3, <1>4, <1>5 DEF Slot
<1> QED
  BY <1>6 DEF start, sum

LEMMA PushMatches ==
  ASSUME NEW ring \in Rings, NEW acc \in Seq(Events), NEW event \in Events,
         RingMatches(ring, acc)
  PROVE  Push(ring, event) \in Rings /\ RingMatches(Push(ring, event), Append(acc, event))
<1> DEFINE next == (ring.head + 1) % Capacity
           count == IF ring.count < Capacity THEN ring.count + 1 ELSE ring.count
           buffer == [ring.buffer EXCEPT ![ring.head] = event]
           pushed == Push(ring, event)
<1>1. /\ ring.buffer \in [0 .. Capacity - 1 -> Events \cup {Empty}]
      /\ ring.head \in 0 .. Capacity - 1
      /\ ring.count \in 0 .. Capacity
  BY DEF Rings
<1>2. /\ next = IF ring.head = Capacity - 1 THEN 0 ELSE ring.head + 1
      /\ next \in 0 .. Capacity - 1
  BY <1>1, HeadAfterPush
<1> HIDE DEF next
<1>11. /\ Slot(next, 1) = ring.head
       /\ \A j \in 2 .. Capacity : /\ Slot(next, j) = Slot(ring.head, j - 1)
                                   /\ Slot(ring.head, j - 1) # ring.head
                                   /\ Slot(ring.head, j - 1) \in 0 .. Capacity - 1
  BY <1>1, <1>2, SlotAfterPush
<1>3. pushed = [buffer |-> buffer, head |-> next, count |-> count]
  BY DEF Push, next
<1>4. count \in 0 .. Capacity /\ buffer \in [0 .. Capacity - 1 -> Events \cup {Empty}]
  BY <1>1, CapacityAssumption
<1>5. pushed \in Rings
  BY <1>2, <1>3, <1>4 DEF Rings
<1>6. ring.count = IF Len(acc) < Capacity THEN Len(acc) ELSE Capacity
  BY DEF RingMatches
<1>7. /\ Len(Append(acc, event)) = Len(acc) + 1
      /\ Append(acc, event)[Len(acc) + 1] = event
      /\ \A i \in 1 .. Len(acc) : Append(acc, event)[i] = acc[i]
      /\ Len(acc) \in Nat
  OBVIOUS
<1>8. count = IF Len(Append(acc, event)) < Capacity
                THEN Len(Append(acc, event)) ELSE Capacity
  BY <1>1, <1>6, <1>7, CapacityAssumption
<1>9. ASSUME NEW j \in 1 .. count
      PROVE  buffer[Slot(next, j)] = Append(acc, event)[Len(Append(acc, event)) - j + 1]
  <2>1. CASE j = 1
    <3>1. Slot(next, 1) = ring.head
      BY <1>11
    <3>2. Len(Append(acc, event)) - 1 + 1 = Len(acc) + 1
      BY <1>7
    <3> QED
      BY <2>1, <3>1, <3>2, <1>1, <1>7
  <2>2. CASE j # 1
    <3>1. j \in 2 .. Capacity /\ j - 1 \in 1 .. ring.count /\ j - 1 <= Len(acc)
      BY <2>2, <1>1, <1>4, <1>6, <1>7, CapacityAssumption
    <3>2. /\ Slot(next, j) = Slot(ring.head, j - 1)
          /\ Slot(ring.head, j - 1) # ring.head
          /\ Slot(ring.head, j - 1) \in 0 .. Capacity - 1
      BY <3>1, <1>11
    <3>3. ring.buffer[Slot(ring.head, j - 1)] = acc[Len(acc) - (j - 1) + 1]
      BY <3>1 DEF RingMatches
    <3>4. /\ Len(acc) - (j - 1) + 1 = Len(Append(acc, event)) - j + 1
          /\ Len(acc) - (j - 1) + 1 \in 1 .. Len(acc)
      BY <3>1, <1>7
    <3>5. buffer[Slot(next, j)] = ring.buffer[Slot(ring.head, j - 1)]
      BY <3>2, <1>1
    <3> QED
      BY <3>3, <3>4, <3>5, <1>7
  <2> QED
    BY <2>1, <2>2
<1>10. RingMatches(pushed, Append(acc, event))
  <2> HIDE DEF count, buffer, pushed
  <2> QED
    BY <1>3, <1>8, <1>9 DEF RingMatches
<1> QED
  BY <1>5, <1>10

LEMMA ToArrayIsLatest ==
  ASSUME NEW ring \in Rings, NEW acc \in Seq(Events), RingMatches(ring, acc)
  PROVE  /\ ToArray(ring) = Latest(acc)
         /\ ToArray(ring) \in Seq(Events)
         /\ Len(ToArray(ring)) = ring.count
         /\ ring.count <= Len(acc)
         /\ \A i \in 1 .. ring.count : ToArray(ring)[i] = acc[Len(acc) - ring.count + i]
<1>1. ring.head \in 0 .. Capacity - 1 /\ ring.count \in 0 .. Capacity
  BY DEF Rings
<1>2. ring.count = IF Len(acc) < Capacity THEN Len(acc) ELSE Capacity
  BY DEF RingMatches
<1>3. ring.count \in Nat /\ Len(acc) \in Nat /\ ring.count <= Len(acc)
  BY <1>1, <1>2, CapacityAssumption
<1> DEFINE latest == [i \in 1 .. ring.count |-> acc[Len(acc) - ring.count + i]]
<1>4. ToArray(ring) = latest
  <2> SUFFICES ASSUME NEW i \in 1 .. ring.count
               PROVE  ring.buffer[(((ring.head + Capacity - ring.count) % Capacity) + i - 1) % Capacity]
                        = acc[Len(acc) - ring.count + i]
    BY DEF ToArray
  <2>1. (((ring.head + Capacity - ring.count) % Capacity) + i - 1) % Capacity
          = Slot(ring.head, ring.count - i + 1)
    BY <1>1, SlotFromStart
  <2>2. ring.count - i + 1 \in 1 .. ring.count
    BY <1>1
  <2>3. ring.buffer[Slot(ring.head, ring.count - i + 1)]
          = acc[Len(acc) - (ring.count - i + 1) + 1]
    BY <2>2 DEF RingMatches
  <2>4. Len(acc) - (ring.count - i + 1) + 1 = Len(acc) - ring.count + i
    BY <1>3
  <2> QED
    BY <2>1, <2>3, <2>4
<1>5. Latest(acc) = latest
  <2> DEFINE first == IF Len(acc) > Capacity THEN Len(acc) - Capacity + 1 ELSE 1
  <2>1. first \in 1 .. Len(acc) + 1 /\ Len(acc) - first + 1 = ring.count
    <3>1. CASE Len(acc) > Capacity
      <4>1. first = Len(acc) - Capacity + 1
        BY <3>1
      <4>2. ring.count = Capacity /\ Capacity \in Nat
        BY <3>1, <1>2, <1>3, CapacityAssumption
      <4> HIDE DEF first
      <4> QED
        BY <3>1, <4>1, <4>2, <1>3
    <3>2. CASE ~(Len(acc) > Capacity)
      BY <3>2, <1>2, <1>3, CapacityAssumption
    <3> QED
      BY <3>1, <3>2
  <2> HIDE DEF first
  <2>2. SubSeq(acc, first, Len(acc))
          = [i \in 1 .. Len(acc) - first + 1 |-> acc[first + i - 1]]
    BY <2>1, <1>3
  <2>3. \A i \in 1 .. ring.count : first + i - 1 = Len(acc) - ring.count + i
    BY <2>1, <1>3
  <2>4. SubSeq(acc, first, Len(acc)) = latest
    BY <2>1, <2>2, <2>3
  <2> QED
    BY <2>4 DEF Latest, first
<1>6. latest \in Seq(Events) /\ Len(latest) = ring.count
  <2>1. \A i \in 1 .. ring.count : acc[Len(acc) - ring.count + i] \in Events
    BY <1>3
  <2> QED
    BY <2>1, <1>3
<1>7. \A i \in 1 .. ring.count : latest[i] = acc[Len(acc) - ring.count + i]
  OBVIOUS
<1> HIDE DEF latest
<1> QED
  BY <1>3, <1>4, <1>5, <1>6, <1>7

-----------------------------------------------------------------------------
(***************************************************************************)
(* One ingestor against what it accepted since boot e: ids count up, an    *)
(* event the service gave no key has its id for one, the ring buffer       *)
(* matches, and the keys remembered are those of the latest events, all    *)
(* different: of all events, or of as many as a prune leaves.              *)
(***************************************************************************)
Kept == (MAX_SEEN_KEYS + 1) - ((MAX_SEEN_KEYS + 1) \div 2)

Numbered(ing, acc, e) ==
  /\ acc \in Seq(Events)
  /\ ing \in Ingestors
  /\ ing.counter = Len(acc)
  /\ Len(acc) <= MaxEvents
  /\ \A i \in 1 .. Len(acc) : /\ acc[i].id = e * ID_MULTIPLIER + i - 1
                              /\ acc[i].key \in Keys \/ acc[i].key = acc[i].id

Remembered(seen, acc) ==
  /\ Len(seen) <= MAX_SEEN_KEYS
  /\ Len(seen) <= Len(acc)
  /\ Len(seen) = Len(acc) \/ Len(seen) >= Kept
  /\ \A i \in 1 .. Len(seen) : seen[i] = acc[Len(acc) - Len(seen) + i].key
  /\ \A i, j \in 1 .. Len(seen) : seen[i] = seen[j] => i = j

Matches(ing, acc, e) ==
  /\ Numbered(ing, acc, e)
  /\ RingMatches(ing.ring, acc)
  /\ Remembered(ing.seenKeys, acc)

LEMMA KeptBounds ==
  /\ Kept \in 1 .. MAX_SEEN_KEYS
  /\ Kept = MAX_SEEN_KEYS \div 2 + 1
  /\ (MAX_SEEN_KEYS + 1) \div 2 \in 1 .. MAX_SEEN_KEYS
  BY SeenKeysAssumption DEF Kept

(***************************************************************************)
(* Remembering a key that is not among the ones remembered.                *)
(***************************************************************************)
LEMMA RememberMatches ==
  ASSUME NEW seen \in Seq(Keys \cup Nat), NEW acc \in Seq(Events), NEW event \in Events,
         Remembered(seen, acc), \A i \in 1 .. Len(seen) : seen[i] # event.key
  PROVE  /\ Remember(seen, event.key) \in Seq(Keys \cup Nat)
         /\ Remembered(Remember(seen, event.key), Append(acc, event))
<1> DEFINE key == event.key
           added == Append(seen, key)
           after == Append(acc, event)
<1>1. /\ key \in Keys \cup Nat
      /\ added \in Seq(Keys \cup Nat)
      /\ Len(added) = Len(seen) + 1
      /\ added[Len(seen) + 1] = key
      /\ \A i \in 1 .. Len(seen) : added[i] = seen[i]
      /\ Len(seen) \in Nat
  BY DEF Events
<1>2. /\ Len(after) = Len(acc) + 1
      /\ after[Len(acc) + 1] = event
      /\ \A i \in 1 .. Len(acc) : after[i] = acc[i]
      /\ Len(acc) \in Nat
  OBVIOUS
<1>3. /\ Len(seen) <= MAX_SEEN_KEYS
      /\ Len(seen) <= Len(acc)
      /\ Len(seen) = Len(acc) \/ Len(seen) >= Kept
      /\ \A i \in 1 .. Len(seen) : seen[i] = acc[Len(acc) - Len(seen) + i].key
      /\ \A i, j \in 1 .. Len(seen) : seen[i] = seen[j] => i = j
  BY DEF Remembered
<1> HIDE DEF key, added, after
<1>4. \A i \in 1 .. Len(added) : added[i] = after[Len(after) - Len(added) + i].key
  <2> SUFFICES ASSUME NEW i \in 1 .. Len(added)
               PROVE  added[i] = after[Len(after) - Len(added) + i].key
    OBVIOUS
  <2>1. CASE i = Len(seen) + 1
    <3>1. Len(after) - Len(added) + i = Len(acc) + 1
      BY <2>1, <1>1, <1>2
    <3> QED
      BY <3>1, <2>1, <1>1, <1>2 DEF key
  <2>2. CASE i # Len(seen) + 1
    <3>1. /\ i \in 1 .. Len(seen)
          /\ Len(after) - Len(added) + i = Len(acc) - Len(seen) + i
          /\ Len(acc) - Len(seen) + i \in 1 .. Len(acc)
      BY <2>2, <1>1, <1>2, <1>3
    <3>2. after[Len(acc) - Len(seen) + i] = acc[Len(acc) - Len(seen) + i]
      BY <3>1, <1>2
    <3> QED
      BY <3>1, <3>2, <1>1, <1>3
  <2> QED
    BY <2>1, <2>2
<1>5. \A i, j \in 1 .. Len(added) : added[i] = added[j] => i = j
  <2> SUFFICES ASSUME NEW i \in 1 .. Len(added), NEW j \in 1 .. Len(added),
                      i < j, added[i] = added[j]
               PROVE  FALSE
    BY <1>1
  <2>1. i \in 1 .. Len(seen)
    BY <1>1
  <2>2. CASE j = Len(seen) + 1
    BY <2>1, <2>2, <1>1 DEF key
  <2>3. CASE j # Len(seen) + 1
    <3>1. j \in 1 .. Len(seen)
      BY <2>3, <1>1
    <3> QED
      BY <3>1, <2>1, <1>1, <1>3
  <2> QED
    BY <2>2, <2>3
<1>6. CASE Len(added) <= MAX_SEEN_KEYS
  <2>1. Remember(seen, key) = added
    BY <1>6, <1>1, SeenKeysAssumption DEF Remember, added
  <2>2. Remembered(added, after)
    <3>1. Len(added) = Len(after) \/ Len(added) >= Kept
      BY <1>1, <1>2, <1>3, KeptBounds
    <3> QED
      BY <3>1, <1>1, <1>2, <1>3, <1>4, <1>5, <1>6 DEF Remembered
  <2> QED
    BY <1>1, <2>1, <2>2 DEF key, after
<1>7. CASE ~(Len(added) <= MAX_SEEN_KEYS)
  <2> DEFINE half == (MAX_SEEN_KEYS + 1) \div 2
             pruned == SubSeq(added, half + 1, Len(added))
  <2>1. Len(added) = MAX_SEEN_KEYS + 1
    BY <1>7, <1>1, <1>3, SeenKeysAssumption
  <2>2. Remember(seen, key) = pruned
    BY <1>7, <2>1, <1>1, SeenKeysAssumption DEF Remember, PruneSeenKeys, added
  <2>3. half \in 1 .. MAX_SEEN_KEYS /\ Kept = (MAX_SEEN_KEYS + 1) - half
    BY KeptBounds DEF Kept
  <2> HIDE DEF half
  <2>4. /\ Len(pruned) = Kept
        /\ \A i \in 1 .. Len(pruned) : pruned[i] = added[half + i]
        /\ pruned \in Seq(Keys \cup Nat)
    BY <1>1, <2>1, <2>3, KeptBounds, SeenKeysAssumption
  <2> HIDE DEF pruned
  <2>5. Len(pruned) <= MAX_SEEN_KEYS /\ Len(pruned) <= Len(after)
    BY <1>1, <1>2, <1>3, <2>1, <2>3, <2>4, KeptBounds, SeenKeysAssumption
  <2>6. \A i \in 1 .. Len(pruned) : pruned[i] = after[Len(after) - Len(pruned) + i].key
    <3> TAKE i \in 1 .. Len(pruned)
    <3>1. /\ half + i \in 1 .. Len(added)
          /\ Len(after) - Len(added) + (half + i) = Len(after) - Len(pruned) + i
      <4>1. /\ Len(after) \in Nat /\ MAX_SEEN_KEYS \in Nat /\ half \in Nat
            /\ Len(pruned) = (MAX_SEEN_KEYS + 1) - half
        BY <1>2, <2>3, <2>4, SeenKeysAssumption
      <4> QED
        BY <4>1, <2>1
    <3> QED
      BY <3>1, <2>4, <1>4
  <2>7. \A i, j \in 1 .. Len(pruned) : pruned[i] = pruned[j] => i = j
    <3> TAKE i, j \in 1 .. Len(pruned)
    <3>1. half + i \in 1 .. Len(added) /\ half + j \in 1 .. Len(added)
      BY <2>1, <2>3, <2>4, KeptBounds, SeenKeysAssumption
    <3>2. pruned[i] = pruned[j] => half + i = half + j
      BY <3>1, <2>4, <1>5
    <3> QED
      BY <3>2, <2>3
  <2>8. Len(pruned) >= Kept
    BY <2>4, KeptBounds, SeenKeysAssumption
  <2>9. Remembered(pruned, after)
    BY <2>5, <2>6, <2>7, <2>8 DEF Remembered
  <2> QED
    BY <2>2, <2>4, <2>9 DEF key, after
<1> QED
  BY <1>6, <1>7

(***************************************************************************)
(* An event accepted from the service.                                     *)
(***************************************************************************)
LEMMA PushEventMatches ==
  ASSUME NEW ing, NEW acc, NEW e \in Nat, NEW time \in Nat, NEW key \in Keys \cup {NoKey},
         Matches(ing, acc, e), ing.counter < MaxEvents, ~IsDuplicate(ing, key)
  PROVE  /\ Event(ing, e, time, key) \in Events
         /\ Event(ing, e, time, key).id = e * ID_MULTIPLIER + Len(acc)
         /\ Matches(PushEvent(ing, e, time, key),
                    Append(acc, Event(ing, e, time, key)), e)
<1> DEFINE event == Event(ing, e, time, key)
           after == Append(acc, event)
           pushed == PushEvent(ing, e, time, key)
<1>1. /\ acc \in Seq(Events)
      /\ ing \in Ingestors
      /\ ing.counter = Len(acc)
      /\ Len(acc) <= MaxEvents
      /\ \A i \in 1 .. Len(acc) : /\ acc[i].id = e * ID_MULTIPLIER + i - 1
                                  /\ acc[i].key \in Keys \/ acc[i].key = acc[i].id
      /\ RingMatches(ing.ring, acc)
      /\ Remembered(ing.seenKeys, acc)
  BY DEF Matches, Numbered
<1>2. ing.ring \in Rings /\ ing.seenKeys \in Seq(Keys \cup Nat) /\ Len(acc) \in Nat
  BY <1>1 DEF Ingestors
<1>3. e * ID_MULTIPLIER \in Nat
  BY MultiplierAssumption
<1>4. /\ event.id = e * ID_MULTIPLIER + Len(acc)
      /\ event.key = IF key = NoKey THEN event.id ELSE key
      /\ event \in Events
  BY <1>1, <1>2, <1>3 DEF Event, EventId, Events
<1>5. pushed = [ring |-> Push(ing.ring, event), counter |-> Len(acc) + 1,
                seenKeys |-> Remember(ing.seenKeys, event.key)]
  BY <1>1 DEF PushEvent
<1>6. \A i \in 1 .. Len(ing.seenKeys) : ing.seenKeys[i] # event.key
  <2> SUFFICES ASSUME NEW i \in 1 .. Len(ing.seenKeys), ing.seenKeys[i] = event.key
               PROVE  FALSE
    OBVIOUS
  <2>1. CASE key # NoKey
    BY <2>1, <1>4 DEF IsDuplicate, Contains
  <2>2. CASE key = NoKey
    <3> DEFINE seen == ing.seenKeys
               k == Len(acc) - Len(seen) + i
               base == e * ID_MULTIPLIER
               id == event.id
    <3>1. /\ Len(seen) <= Len(acc) /\ Len(seen) \in Nat
          /\ seen[i] = acc[k].key
      <4>1. Len(seen) \in Nat
        BY <1>2
      <4>2. Remembered(seen, acc)
        BY <1>1
      <4> HIDE DEF seen
      <4> QED
        BY <4>1, <4>2 DEF Remembered, seen
    <3>2. k \in 1 .. Len(acc)
      BY <3>1, <1>2
    <3>3. acc[k].id = base + k - 1
      BY <3>2, <1>1
    <3>4. base \in Nat /\ id = base + Len(acc) /\ seen[i] = id
      BY <2>2, <1>3, <1>4
    <3>5. acc[k].key \in Keys \/ acc[k].key = acc[k].id
      BY <3>2, <1>1
    <3> HIDE DEF k, base, id, seen
    <3>6. id \in Int /\ id # acc[k].id
      BY <3>2, <3>3, <3>4, <1>2
    <3> QED
      BY <3>1, <3>4, <3>5, <3>6, BoundsAssumption
  <2> QED
    BY <2>1, <2>2
<1> HIDE DEF event, after, pushed
<1>7. /\ Push(ing.ring, event) \in Rings
      /\ RingMatches(Push(ing.ring, event), after)
  BY <1>1, <1>2, <1>4, PushMatches DEF after
<1>8. /\ Remember(ing.seenKeys, event.key) \in Seq(Keys \cup Nat)
      /\ Remembered(Remember(ing.seenKeys, event.key), after)
  BY <1>1, <1>2, <1>4, <1>6, RememberMatches DEF after
<1>9. Numbered(pushed, after, e)
  <2>1. /\ after \in Seq(Events)
        /\ Len(after) = Len(acc) + 1
        /\ after[Len(acc) + 1] = event
        /\ \A i \in 1 .. Len(acc) : after[i] = acc[i]
    BY <1>1, <1>4 DEF after
  <2>2. pushed \in Ingestors /\ pushed.counter = Len(after) /\ Len(after) <= MaxEvents
    BY <1>1, <1>2, <1>5, <1>7, <1>8, <2>1, BoundsAssumption DEF Ingestors
  <2>3. ASSUME NEW i \in 1 .. Len(after)
        PROVE  /\ after[i].id = e * ID_MULTIPLIER + i - 1
               /\ after[i].key \in Keys \/ after[i].key = after[i].id
    <3>1. CASE i = Len(acc) + 1
      <4>1. after[i] = event
        BY <3>1, <2>1
      <4>2. after[i].id = e * ID_MULTIPLIER + i - 1
        BY <4>1, <3>1, <1>2, <1>3, <1>4
      <4>3. event.key \in Keys \/ event.key = event.id
        BY <1>4
      <4> QED
        BY <4>1, <4>2, <4>3
    <3>2. CASE i # Len(acc) + 1
      <4>1. i \in 1 .. Len(acc)
        BY <3>2, <2>1, <1>2
      <4> QED
        BY <4>1, <2>1, <1>1
    <3> QED
      BY <3>1, <3>2
  <2> QED
    BY <2>1, <2>2, <2>3 DEF Numbered
<1>10. Matches(pushed, after, e)
  BY <1>5, <1>7, <1>8, <1>9 DEF Matches
<1> QED
  BY <1>4, <1>10 DEF event, after, pushed

LEMMA NewMatches ==
  ASSUME NEW e \in Nat
  PROVE  Matches(NewIngestor, <<>>, e)
<1>1. NewRing \in Rings /\ RingMatches(NewRing, <<>>)
  BY CapacityAssumption DEF NewRing, Rings, RingMatches
<1>2. NewIngestor \in Ingestors
  BY <1>1 DEF NewIngestor, Ingestors
<1>3. Numbered(NewIngestor, <<>>, e)
  BY <1>2, BoundsAssumption DEF Numbered, NewIngestor
<1>4. Remembered(<<>>, <<>>)
  BY SeenKeysAssumption DEF Remembered
<1> QED
  BY <1>1, <1>3, <1>4 DEF Matches, NewIngestor

(***************************************************************************)
(* What is buffered, and what a poll gives of it.                          *)
(***************************************************************************)
LEMMA BufferedIsLatest ==
  ASSUME NEW ing, NEW acc, NEW e \in Nat, Matches(ing, acc, e)
  PROVE  LET buffered == ToArray(ing.ring) IN
         /\ buffered \in Seq(Events)
         /\ Increasing(buffered)
         /\ ToSet(buffered) = {acc[i] : i \in {k \in 1 .. Len(acc) : Len(acc) - Capacity < k}}
         /\ buffered # <<>> => acc # <<>> /\ Last(buffered) = acc[Len(acc)]
<1> DEFINE buffered == ToArray(ing.ring)
           count == ing.ring.count
           base == e * ID_MULTIPLIER
<1>1. /\ acc \in Seq(Events) /\ Len(acc) \in Nat
      /\ ing.ring \in Rings
      /\ RingMatches(ing.ring, acc)
      /\ \A i \in 1 .. Len(acc) : acc[i].id = base + i - 1
  BY DEF Matches, Numbered, Ingestors
<1>2. base \in Nat
  BY MultiplierAssumption
<1>3. /\ buffered \in Seq(Events)
      /\ Len(buffered) = count
      /\ count <= Len(acc)
      /\ \A i \in 1 .. count : buffered[i] = acc[Len(acc) - count + i]
  BY <1>1, ToArrayIsLatest
<1>4. count = (IF Len(acc) < Capacity THEN Len(acc) ELSE Capacity) /\ count \in Nat
  BY <1>1, CapacityAssumption DEF RingMatches
<1> HIDE DEF buffered, count, base
<1>5. /\ count \in Nat /\ Len(acc) \in Nat /\ Capacity \in Nat
      /\ count <= Len(acc) /\ count <= Capacity
      /\ count = Len(acc) \/ count = Capacity
  BY <1>1, <1>3, <1>4, CapacityAssumption
<1>6. Increasing(buffered)
  <2> SUFFICES ASSUME NEW i \in 1 .. count, NEW j \in 1 .. count, i < j
               PROVE  buffered[i].id < buffered[j].id
    BY <1>3 DEF Increasing
  <2>1. Len(acc) - count + i \in 1 .. Len(acc) /\ Len(acc) - count + j \in 1 .. Len(acc)
    BY <1>5
  <2>2. /\ buffered[i].id = base + (Len(acc) - count + i) - 1
        /\ buffered[j].id = base + (Len(acc) - count + j) - 1
    BY <2>1, <1>1, <1>3
  <2> QED
    BY <2>2, <1>1, <1>2, <1>4
<1>7. ToSet(buffered) = {acc[i] : i \in {k \in 1 .. Len(acc) : Len(acc) - Capacity < k}}
  <2> SUFFICES ASSUME NEW x
               PROVE  (\E i \in 1 .. count : x = buffered[i])
                        <=> \E i \in 1 .. Len(acc) : Len(acc) - Capacity < i /\ x = acc[i]
    <3>1. DOMAIN buffered = 1 .. count
      BY <1>3
    <3> QED
      BY <3>1 DEF ToSet
  <2>1. ASSUME NEW i \in 1 .. count
        PROVE  /\ Len(acc) - count + i \in 1 .. Len(acc)
               /\ Len(acc) - Capacity < Len(acc) - count + i
    BY <1>5
  <2>2. ASSUME NEW i \in 1 .. Len(acc), Len(acc) - Capacity < i
        PROVE  /\ i - (Len(acc) - count) \in 1 .. count
               /\ Len(acc) - count + (i - (Len(acc) - count)) = i
    BY <2>2, <1>5
  <2>3. ASSUME NEW i \in 1 .. Len(acc), Len(acc) - Capacity < i
        PROVE  buffered[i - (Len(acc) - count)] = acc[i]
    BY <2>2, <2>3, <1>3
  <2> QED
    BY <2>1, <2>2, <2>3, <1>3
<1>8. ASSUME buffered # <<>>
      PROVE  acc # <<>> /\ Last(buffered) = acc[Len(acc)]
  <2>1. count \in 1 .. count /\ Len(acc) - count + count = Len(acc) /\ Len(acc) # 0
    BY <1>8, <1>1, <1>3, <1>4
  <2> QED
    BY <2>1, <1>1, <1>3 DEF Last
<1> QED
  BY <1>3, <1>6, <1>7, <1>8 DEF buffered

LEMMA GetEventsGives ==
  ASSUME NEW ing, NEW acc, NEW e \in Nat, Matches(ing, acc, e),
         NEW afterId \in Int, -1 <= afterId
  PROVE  LET given == GetEvents(ing, afterId) IN
         /\ given \in Seq(Events)
         /\ ToSet(given) = {x \in ToSet(ToArray(ing.ring)) : x.id > afterId}
         /\ given # <<>> => acc # <<>> /\ Last(given) = acc[Len(acc)]
<1> DEFINE buffered == ToArray(ing.ring)
           given == GetEvents(ing, afterId)
<1>1. /\ buffered \in Seq(Events)
      /\ Increasing(buffered)
      /\ buffered # <<>> => acc # <<>> /\ Last(buffered) = acc[Len(acc)]
  BY BufferedIsLatest
<1>2. DOMAIN buffered = 1 .. Len(buffered) /\ \A i \in 1 .. Len(buffered) : buffered[i] \in Events
  BY <1>1
<1> HIDE DEF buffered
<1>3. CASE afterId < 0
  <2>1. given = buffered
    BY <1>3 DEF GetEvents, buffered
  <2>2. \A x \in ToSet(buffered) : x.id > afterId
    BY <1>2, <1>3 DEF ToSet, Events
  <2>3. ToSet(buffered) = {x \in ToSet(buffered) : x.id > afterId}
    BY <2>2
  <2> HIDE DEF given
  <2> QED
    BY <2>1, <2>3, <1>1 DEF buffered, given
<1>4. CASE ~(afterId < 0)
  <2>1. given = NewerThan(buffered, afterId)
    BY <1>4 DEF GetEvents, Since, buffered
  <2>2. /\ given \in Seq(Events)
        /\ ToSet(given) = {buffered[i] : i \in {k \in 1 .. Len(buffered) : buffered[k].id > afterId}}
        /\ given # <<>> => buffered # <<>> /\ Last(given) = Last(buffered)
    BY <2>1, <1>1, NewerThanKeeps
  <2> HIDE DEF given
  <2>3. ToSet(given) = {x \in ToSet(buffered) : x.id > afterId}
    BY <2>2, <1>2 DEF ToSet
  <2> QED
    BY <2>2, <2>3, <1>1 DEF buffered, given
<1> QED
  BY <1>3, <1>4

-----------------------------------------------------------------------------
(***************************************************************************)
(* The inductive invariant.  An agent's cursor is behind the next id of    *)
(* its connection, in this boot and in the next one; it was given nothing  *)
(* with a greater id than its cursor's, and everything that is buffered    *)
(* with no greater id.                                                     *)
(***************************************************************************)
NamedAgents == Agents \ {All}

ReadUpTo(a) ==
  /\ cursor[a] \in Int
  /\ -1 <= cursor[a]
  /\ cursor[a] < bootEpoch * ID_MULTIPLIER + Len(accepted[a])
  /\ \A event \in received[a] : event.id \in Nat /\ event.id <= cursor[a]
  /\ \A i \in 1 .. Len(accepted[a]) :
       /\ Len(accepted[a]) - Capacity < i
       /\ accepted[a][i].id <= cursor[a]
       => accepted[a][i] \in received[a]

IInv ==
  /\ bootEpoch \in 1 .. MaxBoots
  /\ now \in Nat
  /\ ingestors = [c \in Connections |-> ingestors[c]]
  /\ accepted = [c \in Connections |-> accepted[c]]
  /\ cursor = [a \in Agents |-> cursor[a]]
  /\ received = [a \in Agents |-> received[a]]
  /\ \A c \in Connections : Matches(ingestors[c], accepted[c], bootEpoch)
  /\ \A a \in NamedAgents : ReadUpTo(a)

LEMMA InitIInv == Init => IInv
<1> SUFFICES ASSUME Init PROVE IInv
  OBVIOUS
<1> USE DEF Init
<1>1. \A c \in Connections : Matches(ingestors[c], accepted[c], bootEpoch)
  BY NewMatches
<1>2. \A a \in NamedAgents : ReadUpTo(a)
  <2> SUFFICES ASSUME NEW a \in NamedAgents PROVE ReadUpTo(a)
    OBVIOUS
  <2>1. /\ cursor[a] = -1
        /\ accepted[a] = <<>>
        /\ received[a] = {}
    BY AgentsAssumption DEF NamedAgents
  <2> DEFINE base == bootEpoch * ID_MULTIPLIER
  <2>2. base \in Nat
    BY MultiplierAssumption
  <2>3. -1 < base + Len(accepted[a])
    <3> HIDE DEF base
    <3> QED
      BY <2>1, <2>2
  <2>4. Len(accepted[a]) = 0 /\ -1 \in Int /\ -1 <= -1
    BY <2>1
  <2> HIDE DEF Init
  <2> QED
    BY <2>1, <2>3, <2>4 DEF ReadUpTo
<1> QED
  BY <1>1, <1>2, BoundsAssumption DEF IInv

LEMMA NextBootIsLater ==
  ASSUME NEW e \in Nat
  PROVE  /\ e * ID_MULTIPLIER \in Nat
         /\ (e + 1) * ID_MULTIPLIER = e * ID_MULTIPLIER + ID_MULTIPLIER
  BY MultiplierAssumption

LEMMA IngestKeepsIInv ==
  ASSUME IInv, NEW c \in Connections, NEW key \in Keys \cup {NoKey}, Ingest(c, key)
  PROVE  IInv'
<1> USE DEF IInv, Ingest
<1>1. CASE IsDuplicate(ingestors[c], key)
  <2>1. PushEvent(ingestors[c], bootEpoch, now, key) = ingestors[c]
    BY <1>1 DEF PushEvent
  <2>2. ingestors' = ingestors
    BY <2>1
  <2>3. UNCHANGED vars
    BY <1>1, <2>2 DEF vars
  <2>4. (\A a \in NamedAgents : ReadUpTo(a))'
    BY <2>3 DEF vars, ReadUpTo, NamedAgents
  <2>5. (\A d \in Connections : Matches(ingestors[d], accepted[d], bootEpoch))'
    BY <2>3 DEF vars
  <2> QED
    BY <2>3, <2>4, <2>5 DEF vars
<1>2. CASE ~IsDuplicate(ingestors[c], key)
  <2> DEFINE event == Event(ingestors[c], bootEpoch, now, key)
  <2>1. /\ event \in Events
        /\ event.id = bootEpoch * ID_MULTIPLIER + Len(accepted[c])
        /\ Matches(PushEvent(ingestors[c], bootEpoch, now, key),
                   Append(accepted[c], event), bootEpoch)
    <3>1. /\ Matches(ingestors[c], accepted[c], bootEpoch)
          /\ bootEpoch \in Nat /\ now \in Nat
          /\ ingestors[c].counter < MaxEvents
      OBVIOUS
    <3> QED
      BY <3>1, <1>2, PushEventMatches
  <2>2. /\ ingestors' = [ingestors EXCEPT ![c] = PushEvent(@, bootEpoch, now, key)]
        /\ accepted' = [accepted EXCEPT ![c] = Append(@, event)]
        /\ now' = now + 1
        /\ UNCHANGED <<bootEpoch, cursor, received>>
    BY <1>2
  <2> HIDE DEF event
  <2>3. (\A d \in Connections : Matches(ingestors[d], accepted[d], bootEpoch))'
    <3> SUFFICES ASSUME NEW d \in Connections
                 PROVE  Matches(ingestors'[d], accepted'[d], bootEpoch)
      BY <2>2
    <3>1. CASE d = c
      BY <3>1, <2>1, <2>2
    <3>2. CASE d # c
      BY <3>2, <2>2
    <3> QED
      BY <3>1, <3>2
  <2>4. (\A a \in NamedAgents : ReadUpTo(a))'
    <3> SUFFICES ASSUME NEW a \in NamedAgents PROVE ReadUpTo(a)'
      BY DEF NamedAgents
    <3>1. a \in Connections /\ a \in Agents
      BY AgentsAssumption DEF NamedAgents
    <3>2. ReadUpTo(a)
      OBVIOUS
    <3>3. CASE a # c
      <4>1. accepted'[a] = accepted[a]
        BY <3>1, <3>3, <2>2
      <4> QED
        BY <4>1, <3>2, <2>2 DEF ReadUpTo
    <3>4. CASE a = c
      <4> DEFINE acc == accepted[a]
                 base == bootEpoch * ID_MULTIPLIER
      <4>1. acc \in Seq(Events) /\ Len(acc) \in Nat /\ base \in Nat
        BY <3>1, MultiplierAssumption DEF Matches, Numbered
      <4>2. /\ accepted'[a] = Append(acc, event)
            /\ Len(accepted'[a]) = Len(acc) + 1
            /\ accepted'[a][Len(acc) + 1] = event
            /\ \A i \in 1 .. Len(acc) : accepted'[a][i] = acc[i]
        <5>1. accepted'[a] = Append(acc, event)
          BY <3>1, <3>4, <2>2
        <5> HIDE DEF acc
        <5> QED
          BY <5>1, <4>1, <2>1
      <4>3. /\ cursor[a] \in Int /\ -1 <= cursor[a]
            /\ cursor[a] < base + Len(acc)
            /\ \A i \in 1 .. Len(acc) : /\ Len(acc) - Capacity < i
                                        /\ acc[i].id <= cursor[a]
                                        => acc[i] \in received[a]
        BY <3>2 DEF ReadUpTo
      <4>4. event.id = base + Len(acc)
        BY <2>1, <3>4
      <4> HIDE DEF acc, base
      <4>5. ~(event.id <= cursor[a])
        BY <4>1, <4>3, <4>4
      <4>6. ASSUME NEW i \in 1 .. Len(accepted'[a]),
                   Len(accepted'[a]) - Capacity < i, accepted'[a][i].id <= cursor[a]
            PROVE  accepted'[a][i] \in received[a]
        <5>1. i # Len(acc) + 1
          BY <4>2, <4>5, <4>6
        <5>2. i \in 1 .. Len(acc) /\ Len(acc) - Capacity < i
          BY <5>1, <4>1, <4>2, <4>6, CapacityAssumption
        <5> QED
          BY <5>2, <4>2, <4>3, <4>6
      <4>7. cursor[a] < base + Len(accepted'[a])
        BY <4>1, <4>2, <4>3
      <4> QED
        BY <3>2, <4>3, <4>6, <4>7, <2>2 DEF ReadUpTo, base
    <3> QED
      BY <3>3, <3>4
  <2> QED
    <3>1. now' \in Nat
      BY <2>2
    <3>2. ingestors' = [d \in Connections |-> ingestors'[d]]
      BY <2>2
    <3>3. accepted' = [d \in Connections |-> accepted'[d]]
      BY <2>2
    <3> QED
      BY <3>1, <3>2, <3>3, <2>2, <2>3, <2>4
<1> QED
  BY <1>1, <1>2

LEMMA PollKeepsIInv ==
  ASSUME IInv, NEW b \in Agents, Poll(b)
  PROVE  IInv'
<1> USE DEF IInv
<1>1. /\ cursor' = [cursor EXCEPT ![b] = Last(PollEvents(b)).id]
      /\ received' = [received EXCEPT ![b] = @ \cup ToSet(PollEvents(b))]
      /\ UNCHANGED <<bootEpoch, ingestors, now, accepted>>
      /\ PollEvents(b) # <<>>
  BY DEF Poll
<1>2. (\A c \in Connections : Matches(ingestors[c], accepted[c], bootEpoch))'
  BY <1>1
<1>3. (\A a \in NamedAgents : ReadUpTo(a))'
  <2> SUFFICES ASSUME NEW a \in NamedAgents PROVE ReadUpTo(a)'
    BY DEF NamedAgents
  <2>1. a \in Connections /\ a \in Agents /\ a # All
    BY AgentsAssumption DEF NamedAgents
  <2>2. CASE a # b
    <3>1. cursor'[a] = cursor[a] /\ received'[a] = received[a]
      BY <2>1, <2>2, <1>1
    <3> QED
      BY <3>1, <1>1 DEF ReadUpTo
  <2>3. CASE a = b
    <3> DEFINE acc == accepted[a]
               given == PollEvents(a)
               base == bootEpoch * ID_MULTIPLIER
    <3>1. given = GetEvents(ingestors[a], cursor[a]) /\ given # <<>>
      BY <2>1, <2>3, <1>1 DEF PollEvents
    <3>2. /\ Matches(ingestors[a], acc, bootEpoch) /\ bootEpoch \in Nat
          /\ cursor[a] \in Int /\ -1 <= cursor[a]
      <4>1. Matches(ingestors[a], acc, bootEpoch) /\ bootEpoch \in Nat
        BY <2>1, BoundsAssumption
      <4>2. ReadUpTo(a)
        OBVIOUS
      <4> QED
        BY <4>1, <4>2 DEF ReadUpTo
    <3>3. /\ given \in Seq(Events)
          /\ ToSet(given) = {x \in ToSet(ToArray(ingestors[a].ring)) : x.id > cursor[a]}
          /\ acc # <<>> /\ Last(given) = acc[Len(acc)]
      <4> HIDE DEF acc, given, base
      <4> QED
        BY <3>1, <3>2, GetEventsGives
    <3>4. ToSet(ToArray(ingestors[a].ring))
            = {acc[i] : i \in {k \in 1 .. Len(acc) : Len(acc) - Capacity < k}}
      <4> HIDE DEF acc, given, base
      <4> QED
        BY <3>2, BufferedIsLatest
    <3>5. /\ acc \in Seq(Events) /\ Len(acc) \in Nat /\ Len(acc) # 0 /\ base \in Nat
          /\ \A i \in 1 .. Len(acc) : acc[i].id = base + i - 1
      <4>1. /\ acc \in Seq(Events)
            /\ \A i \in 1 .. Len(acc) : acc[i].id = base + i - 1
        BY <3>2 DEF Matches, Numbered
      <4>2. base \in Nat
        BY <3>2, MultiplierAssumption
      <4> HIDE DEF acc, given, base
      <4>3. Len(acc) \in Nat /\ Len(acc) # 0
        BY <4>1, <3>3
      <4> QED
        BY <4>1, <4>2, <4>3
    <3>6. /\ cursor'[a] = acc[Len(acc)].id
          /\ received'[a] = received[a] \cup ToSet(given)
          /\ accepted'[a] = acc
      BY <2>1, <2>3, <1>1, <3>3
    <3>7. /\ cursor[a] < base + Len(acc)
          /\ \A event \in received[a] : event.id \in Nat /\ event.id <= cursor[a]
          /\ \A i \in 1 .. Len(acc) : /\ Len(acc) - Capacity < i
                                      /\ acc[i].id <= cursor[a]
                                      => acc[i] \in received[a]
      BY DEF ReadUpTo
    <3> HIDE DEF acc, given, base
    <3>8. /\ cursor'[a] = base + Len(acc) - 1
          /\ cursor[a] <= cursor'[a]
      <4>1. Len(acc) \in 1 .. Len(acc)
        BY <3>5
      <4>2. cursor'[a] = base + Len(acc) - 1
        BY <4>1, <3>5, <3>6
      <4> QED
        BY <4>2, <3>2, <3>5, <3>7
    <3>9. ASSUME NEW event \in received'[a]
          PROVE  event.id \in Nat /\ event.id <= cursor'[a]
      <4>1. CASE event \in received[a]
        <5>1. event.id \in Nat /\ event.id <= cursor[a]
          BY <4>1, <3>7
        <5>2. cursor[a] \in Int /\ cursor'[a] \in Int /\ cursor[a] <= cursor'[a]
          BY <3>2, <3>5, <3>8
        <5> QED
          BY <5>1, <5>2
      <4>2. CASE event \in ToSet(given)
        <5>1. PICK i \in 1 .. Len(acc) : event = acc[i]
          BY <4>2, <3>3, <3>4
        <5> QED
          BY <5>1, <3>5, <3>8
      <4> QED
        BY <4>1, <4>2, <3>6
    <3>10. ASSUME NEW i \in 1 .. Len(acc), Len(acc) - Capacity < i
           PROVE  acc[i] \in received'[a]
      <4>1. CASE acc[i].id <= cursor[a]
        BY <4>1, <3>6, <3>7, <3>10
      <4>2. CASE ~(acc[i].id <= cursor[a])
        <5>1. acc[i].id > cursor[a]
          BY <4>2, <3>2, <3>5
        <5>2. acc[i] \in ToSet(given)
          BY <5>1, <3>3, <3>4, <3>10
        <5> QED
          BY <5>2, <3>6
      <4> QED
        BY <4>1, <4>2
    <3>11. cursor'[a] \in Int /\ -1 <= cursor'[a] /\ cursor'[a] < base + Len(acc)
      BY <3>5, <3>8
    <3> QED
      BY <1>1, <3>6, <3>9, <3>10, <3>11 DEF ReadUpTo, base
  <2> QED
    BY <2>2, <2>3
<1> QED
  BY <1>1, <1>2, <1>3

LEMMA RebootKeepsIInv ==
  ASSUME IInv, Reboot
  PROVE  IInv'
<1> USE DEF IInv, Reboot
<1>1. /\ bootEpoch \in 1 .. MaxBoots /\ bootEpoch < MaxBoots
      /\ bootEpoch' = bootEpoch + 1
      /\ bootEpoch' \in 1 .. MaxBoots
      /\ bootEpoch \in Nat /\ bootEpoch' \in Nat
  BY BoundsAssumption
<1>2. (\A c \in Connections : Matches(ingestors[c], accepted[c], bootEpoch))'
  BY <1>1, NewMatches
<1>3. ASSUME NEW a \in NamedAgents PROVE ReadUpTo(a)'
  <2> DEFINE base == bootEpoch * ID_MULTIPLIER
             base2 == bootEpoch' * ID_MULTIPLIER
  <2>1. a \in Connections
    BY AgentsAssumption DEF NamedAgents
  <2>2. base \in Nat /\ base2 = base + ID_MULTIPLIER
    BY <1>1, NextBootIsLater
  <2>3. Len(accepted[a]) \in Nat /\ Len(accepted[a]) <= MaxEvents
    BY <2>1 DEF Matches, Numbered
  <2>4. accepted'[a] = <<>> /\ Len(accepted'[a]) = 0
    BY <2>1
  <2>5. /\ cursor[a] \in Int /\ -1 <= cursor[a]
        /\ cursor[a] < base + Len(accepted[a])
        /\ \A event \in received[a] : event.id \in Nat /\ event.id <= cursor[a]
    BY DEF ReadUpTo
  <2> HIDE DEF base, base2
  <2>6. cursor[a] < base2 + Len(accepted'[a])
    BY <2>2, <2>3, <2>4, <2>5, BoundsAssumption, MultiplierAssumption
  <2>7. cursor' = cursor /\ received' = received
    OBVIOUS
  <2>8. \A i \in 1 .. Len(accepted'[a]) : FALSE
    BY <2>4
  <2> HIDE DEF IInv, Reboot
  <2> QED
    BY <2>5, <2>6, <2>7, <2>8 DEF ReadUpTo, base2
<1> QED
  BY <1>1, <1>2, <1>3 DEF NamedAgents

LEMMA NextKeepsIInv == IInv /\ [Next]_vars => IInv'
<1> SUFFICES ASSUME IInv, [Next]_vars PROVE IInv'
  OBVIOUS
<1>1. CASE \E c \in Connections, key \in Keys \cup {NoKey} : Ingest(c, key)
  BY <1>1, IngestKeepsIInv
<1>2. CASE \E a \in Agents : Poll(a)
  BY <1>2, PollKeepsIInv
<1>3. CASE Reboot
  BY <1>3, RebootKeepsIInv
<1>4. CASE UNCHANGED vars
  <2>1. (\A a \in NamedAgents : ReadUpTo(a))'
    BY <1>4 DEF IInv, vars, ReadUpTo, NamedAgents
  <2> QED
    BY <2>1, <1>4 DEF IInv, vars
<1> QED
  BY <1>1, <1>2, <1>3, <1>4 DEF Next

LEMMA Invariance == Spec => []IInv
  BY InitIInv, NextKeepsIInv, PTL DEF Spec

-----------------------------------------------------------------------------
LEMMA IInvHoldsLatest == IInv => RingHoldsLatest
<1> SUFFICES ASSUME IInv, NEW c \in Connections PROVE Buffered(c) = Latest(accepted[c])
  BY DEF RingHoldsLatest
<1>1. /\ ingestors[c].ring \in Rings
      /\ accepted[c] \in Seq(Events)
      /\ RingMatches(ingestors[c].ring, accepted[c])
  BY DEF IInv, Matches, Numbered, Ingestors
<1> QED
  BY <1>1, ToArrayIsLatest DEF Buffered

(***************************************************************************)
(* toArray() of the circular buffer is the latest events, oldest first, as *)
(* many as its capacity admits, for every capacity, wherever the head is.  *)
(***************************************************************************)
THEOREM RingCorrect == Spec => []RingHoldsLatest
  BY Invariance, IInvHoldsLatest, PTL

(***************************************************************************)
(* What is buffered is no more than what is remembered, and the keys that  *)
(* are remembered are all different.                                       *)
(***************************************************************************)
LEMMA IInvNoKeyTwice ==
  ASSUME Capacity <= MAX_SEEN_KEYS \div 2 + 1
  PROVE  IInv => NoKeyTwiceInBuffer
<1> SUFFICES ASSUME IInv, NEW c \in Connections,
                    NEW i \in 1 .. Len(Buffered(c)), NEW j \in 1 .. Len(Buffered(c)),
                    Buffered(c)[i].key = Buffered(c)[j].key
             PROVE  i = j
  BY DEF NoKeyTwiceInBuffer
<1> DEFINE acc == accepted[c]
           ring == ingestors[c].ring
           seen == ingestors[c].seenKeys
           buffered == Buffered(c)
<1>1. /\ ring \in Rings
      /\ acc \in Seq(Events) /\ Len(acc) \in Nat
      /\ seen \in Seq(Keys \cup Nat) /\ Len(seen) \in Nat
      /\ RingMatches(ring, acc)
      /\ Remembered(seen, acc)
  BY DEF IInv, Matches, Numbered, Ingestors
<1> HIDE DEF acc, ring, seen
<1>2. /\ Len(buffered) = ring.count
      /\ ring.count <= Len(acc)
      /\ \A k \in 1 .. ring.count : buffered[k] = acc[Len(acc) - ring.count + k]
  BY <1>1, ToArrayIsLatest DEF Buffered, ring
<1>3. ring.count \in Nat /\ ring.count <= Capacity /\ Capacity \in Nat
  BY <1>1, CapacityAssumption DEF Rings
<1>4. /\ Len(seen) <= Len(acc)
      /\ Len(seen) = Len(acc) \/ Len(seen) >= Kept
      /\ \A k \in 1 .. Len(seen) : seen[k] = acc[Len(acc) - Len(seen) + k].key
      /\ \A k, l \in 1 .. Len(seen) : seen[k] = seen[l] => k = l
  BY <1>1 DEF Remembered
<1>5. ring.count <= Len(seen)
  <2>1. Capacity <= Kept /\ Kept \in Nat
    BY KeptBounds, SeenKeysAssumption
  <2> QED
    BY <2>1, <1>1, <1>2, <1>3, <1>4
<1> DEFINE back(k) == Len(seen) - ring.count + k
<1>6. ASSUME NEW k \in 1 .. ring.count
      PROVE  /\ back(k) \in 1 .. Len(seen)
             /\ seen[back(k)] = buffered[k].key
  <2>1. back(k) \in 1 .. Len(seen)
    BY <1>1, <1>3, <1>5
  <2>2. Len(acc) - Len(seen) + back(k) = Len(acc) - ring.count + k
    BY <1>1, <1>3
  <2> QED
    BY <2>1, <2>2, <1>2, <1>4
<1> HIDE DEF buffered
<1>7. i \in 1 .. ring.count /\ j \in 1 .. ring.count
  BY <1>2 DEF buffered
<1>8. back(i) = back(j)
  <2>1. seen[back(i)] = seen[back(j)] /\ back(i) \in 1 .. Len(seen) /\ back(j) \in 1 .. Len(seen)
    BY <1>6, <1>7 DEF buffered
  <2> QED
    BY <2>1, <1>4
<1> QED
  BY <1>1, <1>3, <1>7, <1>8

(***************************************************************************)
(* While the capacity is no more than the number of keys a prune leaves,   *)
(* no buffer holds two events with one idempotency key.                    *)
(***************************************************************************)
THEOREM NoDuplicatesBuffered ==
  Capacity <= MAX_SEEN_KEYS \div 2 + 1 => (Spec => []NoKeyTwiceInBuffer)
<1> SUFFICES ASSUME Capacity <= MAX_SEEN_KEYS \div 2 + 1
             PROVE  Spec => []NoKeyTwiceInBuffer
  OBVIOUS
<1>1. IInv => NoKeyTwiceInBuffer
  BY IInvNoKeyTwice
<1> QED
  BY <1>1, Invariance, PTL

(***************************************************************************)
(* An agent that names its connection.                                     *)
(***************************************************************************)
LEMMA IInvPollGivesTheUnread ==
  ASSUME IInv, NEW a \in NamedAgents
  PROVE  PollGivesTheUnread(a)
<1> DEFINE ing == ingestors[a]
           acc == accepted[a]
           buffered == ToArray(ing.ring)
<1>1. a \in Connections /\ a \in Agents /\ a # All
  BY AgentsAssumption DEF NamedAgents
<1>2. PollEvents(a) = GetEvents(ing, cursor[a]) /\ Visible(a) = ToSet(buffered)
  BY <1>1 DEF PollEvents, Visible, Buffered
<1>3. Matches(ing, acc, bootEpoch) /\ bootEpoch \in Nat
  BY <1>1, BoundsAssumption DEF IInv
<1>4. /\ cursor[a] \in Int /\ -1 <= cursor[a]
      /\ \A event \in received[a] : event.id \in Nat /\ event.id <= cursor[a]
      /\ \A i \in 1 .. Len(acc) : /\ Len(acc) - Capacity < i
                                  /\ acc[i].id <= cursor[a]
                                  => acc[i] \in received[a]
  BY DEF IInv, ReadUpTo
<1> HIDE DEF ing, acc
<1>5. ToSet(GetEvents(ing, cursor[a])) = {x \in ToSet(buffered) : x.id > cursor[a]}
  BY <1>3, <1>4, GetEventsGives
<1>6. /\ ToSet(buffered) = {acc[i] : i \in {k \in 1 .. Len(acc) : Len(acc) - Capacity < k}}
      /\ \A i \in 1 .. Len(acc) : acc[i] \in Events
  <2>1. ToSet(buffered) = {acc[i] : i \in {k \in 1 .. Len(acc) : Len(acc) - Capacity < k}}
    BY <1>3, BufferedIsLatest
  <2>2. acc \in Seq(Events)
    BY <1>3 DEF Matches, Numbered
  <2> QED
    BY <2>1, <2>2
<1> HIDE DEF buffered
<1>7. ASSUME NEW x \in ToSet(buffered)
      PROVE  x.id > cursor[a] <=> x \notin received[a]
  <2>1. PICK i \in 1 .. Len(acc) : Len(acc) - Capacity < i /\ x = acc[i]
    BY <1>6
  <2>2. x.id \in Nat
    BY <2>1, <1>6 DEF Events
  <2>3. x.id <= cursor[a] => x \in received[a]
    BY <2>1, <1>4
  <2>4. x \in received[a] => x.id <= cursor[a]
    BY <1>4
  <2> QED
    BY <2>2, <2>3, <2>4, <1>4
<1>8. {x \in ToSet(buffered) : x.id > cursor[a]} = ToSet(buffered) \ received[a]
  BY <1>7
<1> QED
  BY <1>2, <1>5, <1>8 DEF PollGivesTheUnread

(***************************************************************************)
(* If every agent names its connection, as the tool's description tells it *)
(* to, no poll misses or repeats what is buffered, across evictions,       *)
(* dropped duplicates, pruned keys and reboots.                            *)
(***************************************************************************)
THEOREM NamedPollsGiveTheUnread ==
  All \notin Agents => (Spec => []EachPollGivesTheUnread)
<1> SUFFICES ASSUME All \notin Agents PROVE Spec => []EachPollGivesTheUnread
  OBVIOUS
<1>1. IInv => EachPollGivesTheUnread
  BY IInvPollGivesTheUnread DEF EachPollGivesTheUnread, NamedAgents
<1> QED
  BY <1>1, Invariance, PTL

(***************************************************************************)
(* The counters, ring buffers, remembered keys and cursors stay within     *)
(* their bounds.                                                           *)
(***************************************************************************)
THEOREM TypeCorrect == All \notin Agents => (Spec => []TypeOK)
<1> SUFFICES ASSUME All \notin Agents PROVE Spec => []TypeOK
  OBVIOUS
<1>1. ASSUME IInv PROVE TypeOK
  <2>1. bootEpoch \in 1 .. MaxBoots /\ bootEpoch \in Nat /\ now \in Nat
    BY <1>1, BoundsAssumption DEF IInv
  <2>2. ASSUME NEW c \in Connections
        PROVE  /\ ingestors[c].ring.head \in 0 .. Capacity - 1
               /\ ingestors[c].ring.count \in 0 .. Capacity
               /\ ingestors[c].counter \in 0 .. MaxEvents
               /\ Len(ingestors[c].seenKeys) <= MAX_SEEN_KEYS
    <3>1. /\ ingestors[c] \in Ingestors
          /\ accepted[c] \in Seq(Events)
          /\ ingestors[c].counter = Len(accepted[c])
          /\ Len(accepted[c]) <= MaxEvents
          /\ Len(ingestors[c].seenKeys) <= MAX_SEEN_KEYS
      BY <1>1 DEF IInv, Matches, Numbered, Remembered
    <3>2. ingestors[c].ring \in Rings
      BY <3>1 DEF Ingestors
    <3>3. ingestors[c].counter \in 0 .. MaxEvents
      BY <3>1, BoundsAssumption
    <3> QED
      BY <3>1, <3>2, <3>3 DEF Rings
  <2>3. ASSUME NEW a \in Agents
        PROVE  cursor[a] \in -1 .. (bootEpoch + 1) * ID_MULTIPLIER - 1
    <3> DEFINE base == bootEpoch * ID_MULTIPLIER
    <3>1. a \in NamedAgents /\ a \in Connections
      BY AgentsAssumption DEF NamedAgents
    <3>2. /\ cursor[a] \in Int /\ -1 <= cursor[a]
          /\ cursor[a] < base + Len(accepted[a])
      BY <3>1, <1>1 DEF IInv, ReadUpTo
    <3>3. Len(accepted[a]) \in Nat /\ Len(accepted[a]) <= ID_MULTIPLIER
      <4>1. accepted[a] \in Seq(Events) /\ Len(accepted[a]) <= MaxEvents
        BY <3>1, <1>1 DEF IInv, Matches, Numbered
      <4> QED
        BY <4>1, BoundsAssumption, MultiplierAssumption
    <3>4. base \in Nat /\ (bootEpoch + 1) * ID_MULTIPLIER = base + ID_MULTIPLIER
      BY <2>1, NextBootIsLater
    <3> HIDE DEF base
    <3>5. cursor[a] \in -1 .. (base + ID_MULTIPLIER) - 1
      BY <3>2, <3>3, <3>4, MultiplierAssumption
    <3> QED
      BY <3>4, <3>5
  <2> QED
    BY <2>1, <2>2, <2>3 DEF TypeOK
<1> QED
  BY <1>1, Invariance, PTL
=============================================================================
