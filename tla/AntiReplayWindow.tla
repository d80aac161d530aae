-------------------------- MODULE AntiReplayWindow --------------------------
(***************************************************************************)
(* The sliding anti-replay window of EncryptedChannel.decrypt() in         *)
(* src/shared/crypto/channel.ts.  A window is a record of the highest      *)
(* authenticated counter (-1: none yet) and the set of counters seen.      *)
(***************************************************************************)
EXTENDS Integers

CONSTANT ANTI_REPLAY_WINDOW_SIZE   \* 256 in the code

ASSUME WindowSizeAssumption == ANTI_REPLAY_WINDOW_SIZE \in Nat \ {0}

Counters == Nat                    \* a uint64 on the wire; 2^64 is out of reach

Windows == [maxRecvCounter : Counters \cup {-1}, replayWindow : SUBSET Counters]

NewWindow == [maxRecvCounter |-> -1, replayWindow |-> {}]

\* Mutant: the last counter of the window is pruned, yet not too old.
TooOldOffByOne(w, counter) ==
  /\ w.maxRecvCounter >= 0
  /\ counter + ANTI_REPLAY_WINDOW_SIZE < w.maxRecvCounter

(***************************************************************************)
(* The two checks made before decryption.  They are skipped while nothing  *)
(* has been received.                                                      *)
(***************************************************************************)
TooOld(w, counter) ==
  /\ w.maxRecvCounter >= 0
  /\ counter + ANTI_REPLAY_WINDOW_SIZE <= w.maxRecvCounter

\* Mutant: no duplicate check.
DuplicateUnchecked(w, counter) == FALSE

Duplicate(w, counter) ==
  /\ w.maxRecvCounter >= 0
  /\ counter \in w.replayWindow

Admits(w, counter) == ~TooOld(w, counter) /\ ~Duplicate(w, counter)

\* Mutant: the seen-set is never pruned.
PruneNothing(seen, counter) == seen

(***************************************************************************)
(* What survives in the seen-set when the window advances to counter.      *)
(***************************************************************************)
Prune(seen, counter) == {c \in seen : c > counter - ANTI_REPLAY_WINDOW_SIZE}

\* Mutant: the floor of the window is stored for its top.
RecordFloor(w, counter) ==
  [maxRecvCounter |-> counter - ANTI_REPLAY_WINDOW_SIZE,
   replayWindow   |-> Prune(w.replayWindow, counter) \cup {counter}]

(***************************************************************************)
(* The window after an authenticated message with this counter.            *)
(***************************************************************************)
Record(w, counter) ==
  IF counter > w.maxRecvCounter
    THEN [maxRecvCounter |-> counter,
          replayWindow   |-> Prune(w.replayWindow, counter) \cup {counter}]
    ELSE [w EXCEPT !.replayWindow = @ \cup {counter}]
=============================================================================
