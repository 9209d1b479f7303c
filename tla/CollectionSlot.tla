---------------------------- MODULE CollectionSlot ---------------------------
(***************************************************************************)
(* What the evidence store promises of one character's collections,        *)
(* whoever asks for them and whoever carries them out: the character has   *)
(* one slot; a collection takes the slot when it is reserved, and gives it *)
(* back when it settles, once and for good, as published or failed.        *)
(* EvidenceRuns implements this specification.                             *)
(***************************************************************************)
EXTENDS Naturals

CONSTANT Collections   \* the collections that may ever be reserved

NoCollection == 0

SlotAssumption == NoCollection \notin Collections

VARIABLES slot,     \* the collection that holds the slot, or NoCollection
          result    \* how each collection settled

slotVars == <<slot, result>>

SlotInit ==
  /\ slot = NoCollection
  /\ result = [c \in Collections |-> "none"]

TakeSlot(c) ==
  /\ slot = NoCollection
  /\ result[c] = "none"
  /\ slot' = c
  /\ UNCHANGED result

(* One transaction settles the collection and frees the slot.              *)
GiveBack(c, how) ==
  /\ slot = c
  /\ slot' = NoCollection
  /\ result' = [result EXCEPT ![c] = how]

SlotSettles == \E c \in Collections, how \in {"published", "failed"} : GiveBack(c, how)

SlotNext == (\E c \in Collections : TakeSlot(c)) \/ SlotSettles

SlotSafe == SlotInit /\ [][SlotNext]_slotVars

(* A collection that holds the slot gives it back.                         *)
SlotSpec == SlotSafe /\ WF_slotVars(SlotSettles)

=============================================================================
