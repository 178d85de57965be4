---------------------------- MODULE ElementQueue ---------------------------
(***************************************************************************)
(* What one producer's queue promises (concurrentqueue.h:2472, 2536): the  *)
(* elements, numbered as they are enqueued, are claimed in that order,     *)
(* each by one consumer, which then gets exactly the elements it claimed.  *)
(* Nothing is claimed before it is there.  A dequeue that finds nothing,   *)
(* an enqueue that fails, and all bookkeeping are no step at all.          *)
(***************************************************************************)
EXTENDS Naturals

CONSTANT Consumers

VARIABLES
  enqueued,     \* number of elements ever enqueued
  claimed,      \* number of elements ever claimed
  hand,         \* what each consumer has claimed and not yet got
  delivered     \* what consumers have got

vars == <<enqueued, claimed, hand, delivered>>

Init == /\ enqueued = 0 /\ claimed = 0
        /\ hand = [c \in Consumers |-> {}] /\ delivered = {}

Enqueue == /\ enqueued' > enqueued
           /\ UNCHANGED <<claimed, hand, delivered>>

Claim(c) == /\ hand[c] = {}
            /\ claimed' \in (claimed + 1)..enqueued
            /\ hand' = [hand EXCEPT ![c] = claimed..(claimed' - 1)]
            /\ UNCHANGED <<enqueued, delivered>>

Deliver(c) == /\ hand'[c] \subseteq hand[c]
              /\ hand' = [hand EXCEPT ![c] = hand'[c]]
              /\ delivered' = delivered \cup (hand[c] \ hand'[c])
              /\ delivered' # delivered
              /\ UNCHANGED <<enqueued, claimed>>

Next == Enqueue \/ \E c \in Consumers : Claim(c) \/ Deliver(c)

Spec == Init /\ [][Next]_vars
=============================================================================
