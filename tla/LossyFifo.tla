----------------------------- MODULE LossyFifo -----------------------------
(***************************************************************************)
(* What the receive path (NIC queue to assembling thread) promises: a      *)
(* first-in first-out channel of packets that never alters, duplicates or  *)
(* reorders a packet, and that gives up at most ONE burst of packets in    *)
(* its whole life.                                                         *)
(***************************************************************************)
EXTENDS Integers, Sequences

CONSTANTS BurstSize, \* packets one poll of the NIC may return
          MaxPacket  \* bound: packets numbered 0 .. MaxPacket-1 are sent

VARIABLES next,     \* number of the next packet on the wire
          inflight, \* packets taken from the NIC and not yet handed over
          spent     \* TRUE once the channel has given up a burst

vars == <<next, inflight, spent>>

Init == next = 0 /\ inflight = <<>> /\ spent = FALSE

\* A burst of consecutive packets enters the channel.
Accept(n) ==
  /\ next + n <= MaxPacket
  /\ inflight' = inflight \o [i \in 1..n |-> next + i - 1]
  /\ next' = next + n
  /\ UNCHANGED spent

\* The network loses a packet before the channel ever sees it.
Lose == next' = next + 1 /\ UNCHANGED <<inflight, spent>>

Deliver ==
  /\ inflight # <<>>
  /\ inflight' = Tail(inflight)
  /\ UNCHANGED <<next, spent>>

\* The youngest burst is given up; this happens once.
GiveUp(n) ==
  /\ ~spent
  /\ n <= Len(inflight)
  /\ inflight' = SubSeq(inflight, 1, Len(inflight) - n)
  /\ spent' = TRUE
  /\ UNCHANGED next

Next == \/ Lose
        \/ Deliver
        \/ \E n \in 1..BurstSize : Accept(n) \/ GiveUp(n)

Spec == Init /\ [][Next]_vars
=============================================================================
