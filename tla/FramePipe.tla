----------------------------- MODULE FramePipe -----------------------------
(***************************************************************************)
(* What the assembling pipeline (DOB, GODOT, KAZE) promises about frames:  *)
(* frames leave in the order in which their first packets came, none is    *)
(* skipped, and a frame number is in the pipeline at most once at a time.  *)
(* The promise ends when the frame pool has run dry (broken).              *)
(***************************************************************************)
EXTENDS Sequences, Functions

CONSTANT FrameSeqs \* frame numbers

VARIABLES inflight, \* frame numbers in the pipeline, oldest first
          broken    \* TRUE once the frame pool has been found empty

vars == <<inflight, broken>>

Init == inflight = <<>> /\ broken = FALSE

Open(n) ==
  /\ n \notin Range(inflight)
  /\ inflight' = Append(inflight, n)
  /\ UNCHANGED broken

Send ==
  /\ inflight # <<>>
  /\ inflight' = Tail(inflight)
  /\ UNCHANGED broken

\* Nothing is promised from the step on that finds the pool empty.
Break == broken'

Next == ~broken /\ (Send \/ Break \/ \E n \in FrameSeqs : Open(n))

Spec == Init /\ [][broken \/ Next]_vars
=============================================================================
