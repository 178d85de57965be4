----------------------------- MODULE BlockPool -----------------------------
(***************************************************************************)
(* What the queues of concurrentqueue.h expect of their free list: a set   *)
(* of blocks, each with at most one holder.  A thread gives back what it   *)
(* holds and takes what nobody holds.  That a take finds nothing although  *)
(* blocks are free is allowed: it shows as no step at all.                 *)
(***************************************************************************)
CONSTANTS Threads, Nodes, None

VARIABLE owner          \* the thread that holds each block, or None

Init == owner \in [Nodes -> Threads]

Put(t, n) == owner[n] = t /\ owner' = [owner EXCEPT ![n] = None]
Take(t, n) == owner[n] = None /\ owner' = [owner EXCEPT ![n] = t]

Next == \E t \in Threads, n \in Nodes : Put(t, n) \/ Take(t, n)

Spec == Init /\ [][Next]_owner
=============================================================================
