----------------------- MODULE TranscriptQueueContract ----------------------
(***************************************************************************)
(* What a TranscriptQueue (src/meeting_assistant/services/queue.py, the    *)
(* Protocol) promises to its clients: chunks wait in the order in which    *)
(* they were published, the first ones are given out and held until they   *)
(* are acknowledged or handed back, none appears twice and none is lost.   *)
(* The promise ends when a client dies in the middle of an operation, or   *)
(* when two operations cross.                                              *)
(***************************************************************************)
EXTENDS Naturals, Sequences, Bags, SequencesExt

VARIABLES
  waiting,  \* the chunks of one meeting that may be consumed, in order
  held,     \* the bag of those that were given out
  broken    \* whether the promise has ended

contractVars == <<waiting, held, broken>>

BagOf(s) == [k \in ToSet(s) |-> Cardinality({i \in DOMAIN s : s[i] = k})]

ContractInit == waiting = <<>> /\ held = EmptyBag /\ ~broken

Publish == IsPrefix(waiting, waiting') /\ UNCHANGED held

Consume ==
  \E n \in DOMAIN waiting :
    /\ waiting' = SubSeq(waiting, n + 1, Len(waiting))
    /\ held' = held (+) BagOf(SubSeq(waiting, 1, n))

Ack == held' \sqsubseteq held /\ UNCHANGED waiting

\* Chunks are handed back at either end, in an order nobody promises.
Nack ==
  /\ IsPrefix(waiting, waiting') \/ IsSuffix(waiting, waiting')
  /\ held' \sqsubseteq held
  /\ BagOf(waiting') (+) held' = BagOf(waiting) (+) held

Drain == waiting' = <<>> /\ held' \sqsubseteq held

Break == broken'

ContractNext ==
  \/ ~broken' /\ (Publish \/ Consume \/ Ack \/ Nack \/ Drain)
  \/ Break

ContractSpec == ContractInit /\ [][ContractNext]_contractVars
=============================================================================
