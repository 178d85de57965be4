----------------------------- MODULE Assembler -----------------------------
(***************************************************************************)
(* Frame assembly of one channel, as built with DOB, GODOT and KAZE:       *)
(* consumer_thread (DOB) copies packets into frames of a pool, found       *)
(* through an index by frameSeq; align_thread (GODOT) waits until the      *)
(* oldest frame is complete or 10 * TIMER_RESOLUTION_CYCLES have passed;   *)
(* send_to_pulsar (KAZE) copies the frame out, clears it and returns it.   *)
(*                                                                         *)
(* Each thread takes one step per access to memory another thread uses.    *)
(* The index is a plain pointer array that DOB reads again at every use    *)
(* and KAZE clears; dereferencing the null it may find ends the process.   *)
(*                                                                         *)
(* A packet is its position in the sender's stream.  A data slot holds the *)
(* packet last copied into it, or None (zeroes): DPDK hands out zeroed     *)
(* memory, so an unused frame is all zeroes.  The packet itself reaches    *)
(* DOB through ring1_2, which module Ingest models.                        *)
(***************************************************************************)
EXTENDS Integers, Sequences, FiniteSets, Functions

CONSTANTS
  Frames,      \* objects of local_udpFrameMempool
  None,        \* null pointer; zeroed data
  PackNum,     \* PACK_NUM
  NumFrameSeq, \* values of frameSeq (an unsigned short: 65536)
  MaxPacket,   \* bound: the sender sends packets 0 .. MaxPacket-1
  MaxLost,     \* bound: packets that never reach DOB
  MaxDup       \* bound: packets the network duplicates

ASSUME SizesAssumption ==
  /\ PackNum \in Nat \ {0}
  /\ NumFrameSeq \in Nat \ {0}
  /\ MaxPacket \in Nat
  /\ MaxLost \in Nat
  /\ MaxDup \in Nat

ASSUME FramesAssumption ==
  /\ IsFiniteSet(Frames) /\ Frames # {}
  /\ None \notin Frames
  /\ None \notin Nat

VARIABLES
  next, lost, dups,          \* the wire
  index, pool,               \* local_UDPFrameIndex, local_udpFrameMempool
  count, data, flags, fseq,  \* the fields of each frame
  ring2_3, ring3_4,
  dpc, pkt, tmp_udpFrame, p, \* DOB: packet in hand, its local, pointer loaded
  gpc, gframe, gslot,        \* GODOT: udpFrame_ptr, loop variable
  kpc, kframe,               \* KAZE: udpFrame_ptr
  drop_count,
  exhausted,                 \* history: a get from the pool has failed
  halted                     \* "no", "panic" or "fault" (null dereference)

wire == <<next, lost, dups>>
frameVars == <<count, data, flags, fseq>>
dobVars == <<dpc, pkt, tmp_udpFrame, p>>
godotVars == <<gpc, gframe, gslot>>
kazeVars == <<kpc, kframe>>
vars == <<wire, index, pool, frameVars, ring2_3, ring3_4, dobVars, godotVars,
          kazeVars, drop_count, exhausted, halted>>

Slots == 0..(PackNum - 1)
FrameSeqs == 0..(NumFrameSeq - 1)
PacketSeq(k) == k % PackNum
FrameSeq(k) == (k \div PackNum) % NumFrameSeq

Init ==
  /\ next = 0 /\ lost = 0 /\ dups = 0
  /\ index = [n \in FrameSeqs |-> None] /\ pool = Frames
  /\ count = [f \in Frames |-> 0]
  /\ data = [f \in Frames |-> [s \in Slots |-> None]]
  /\ flags = [f \in Frames |-> [s \in Slots |-> FALSE]]
  /\ fseq = [f \in Frames |-> 0]
  /\ ring2_3 = <<>> /\ ring3_4 = <<>>
  /\ dpc = "take" /\ pkt = 0 /\ tmp_udpFrame = None /\ p = None
  /\ gpc = "take" /\ gframe = None /\ gslot = 0
  /\ kpc = "take" /\ kframe = None
  /\ drop_count = 0 /\ exhausted = FALSE /\ halted = "no"
-----------------------------------------------------------------------------
(* consumer_thread *)

\* The next packet to reach DOB: some may be lost before it.
Take ==
  /\ dpc = "take"
  /\ \E n \in 0..(MaxLost - lost) :
       /\ next + n < MaxPacket
       /\ pkt' = next + n /\ next' = next + n + 1 /\ lost' = lost + n
  /\ dpc' = "lookup"
  /\ UNCHANGED <<dups, index, pool, frameVars, ring2_3, ring3_4, tmp_udpFrame,
                 p, godotVars, kazeVars, drop_count, exhausted, halted>>

\* The network delivers the packet before once more.
TakeDuplicate ==
  /\ dpc = "take" /\ next > 0 /\ dups < MaxDup
  /\ dups' = dups + 1
  /\ dpc' = "lookup"
  /\ UNCHANGED <<next, lost, index, pool, frameVars, ring2_3, ring3_4, pkt,
                 tmp_udpFrame, p, godotVars, kazeVars, drop_count, exhausted,
                 halted>>

\* The entry of a known frame is read again for the copy, unless an optimising
\* build keeps the pointer it has just tested (the race makes both possible).
Lookup ==
  /\ dpc = "lookup"
  /\ LET f == index[FrameSeq(pkt)]
     IN \/ f = None /\ dpc' = "get" /\ UNCHANGED p
        \/ f # None /\ dpc' = "loadData" /\ UNCHANGED p
        \/ f # None /\ dpc' = "copy" /\ p' = f
  /\ UNCHANGED <<wire, index, pool, frameVars, ring2_3, ring3_4, pkt,
                 tmp_udpFrame, godotVars, kazeVars, drop_count, exhausted,
                 halted>>

\* rte_mempool_get, whose result is ignored: on failure tmp_udpFrame keeps
\* the frame of the get before, and the null check after it passes.
Get ==
  /\ dpc = "get"
  /\ IF pool # {}
     THEN /\ tmp_udpFrame' \in pool
          /\ pool' = pool \ {tmp_udpFrame'}
          /\ UNCHANGED exhausted
     ELSE UNCHANGED <<tmp_udpFrame, pool>> /\ exhausted' = TRUE
  /\ IF tmp_udpFrame' = None
     THEN halted' = "panic" /\ UNCHANGED <<index, dpc>>
     ELSE /\ index' = [index EXCEPT ![FrameSeq(pkt)] = tmp_udpFrame']
          /\ dpc' = "fill"
          /\ UNCHANGED halted
  /\ UNCHANGED <<wire, frameVars, ring2_3, ring3_4, pkt, p, godotVars,
                 kazeVars, drop_count>>

FillNoNumber == \* slip: the frame number is not stored
  /\ dpc = "fill"
  /\ LET f == index[FrameSeq(pkt)]
         s == PacketSeq(pkt)
     IN /\ count' = [count EXCEPT ![tmp_udpFrame] = @ + 1]
        /\ data' = [data EXCEPT ![f][s] = pkt]
        /\ flags' = [flags EXCEPT ![f][s] = TRUE]
  /\ dpc' = "enqueue"
  /\ UNCHANGED <<wire, index, pool, fseq, ring2_3, ring3_4, pkt, tmp_udpFrame, p,
                 godotVars, kazeVars, drop_count, exhausted, halted>>

\* The first packet of a frame.  The frame is in no ring yet, so the index
\* entry cannot be cleared meanwhile and the assignments are one step.
Fill ==
  /\ dpc = "fill"
  /\ LET f == index[FrameSeq(pkt)]
         s == PacketSeq(pkt)
     IN IF f = None
        THEN halted' = "fault" /\ UNCHANGED <<frameVars, dpc>>
        ELSE /\ count' = [count EXCEPT ![tmp_udpFrame] = @ + 1]
             /\ data' = [data EXCEPT ![f][s] = pkt]
             /\ flags' = [flags EXCEPT ![f][s] = TRUE]
             /\ fseq' = [fseq EXCEPT ![f] = FrameSeq(pkt)]
             /\ dpc' = "enqueue"
             /\ UNCHANGED halted
  /\ UNCHANGED <<wire, index, pool, ring2_3, ring3_4, pkt, tmp_udpFrame, p,
                 godotVars, kazeVars, drop_count, exhausted>>

EnqueueFrame ==
  /\ dpc = "enqueue"
  /\ ring2_3' = Append(ring2_3, index[FrameSeq(pkt)])
  /\ dpc' = "take"
  /\ UNCHANGED <<wire, index, pool, frameVars, ring3_4, pkt, tmp_udpFrame, p,
                 godotVars, kazeVars, drop_count, exhausted, halted>>

\* A later packet: the index is read again for the copy and for the count.
Load(from, to) ==
  /\ dpc = from
  /\ p' = index[FrameSeq(pkt)]
  /\ IF p' = None THEN halted' = "fault" /\ UNCHANGED dpc
                  ELSE dpc' = to /\ UNCHANGED halted
  /\ UNCHANGED <<wire, index, pool, frameVars, ring2_3, ring3_4, pkt,
                 tmp_udpFrame, godotVars, kazeVars, drop_count, exhausted>>
LoadForData == Load("loadData", "copy")
LoadForCount == Load("loadCount", "add")

CopyIn ==
  /\ dpc = "copy"
  /\ data' = [data EXCEPT ![p][PacketSeq(pkt)] = pkt]
  /\ dpc' = "loadCount"
  /\ UNCHANGED <<wire, index, pool, count, flags, fseq, ring2_3, ring3_4, pkt,
                 tmp_udpFrame, p, godotVars, kazeVars, drop_count, exhausted,
                 halted>>

AddCount ==
  /\ dpc = "add"
  /\ count' = [count EXCEPT ![p] = @ + 1]
  /\ p' = None /\ dpc' = "take"
  /\ UNCHANGED <<wire, index, pool, data, flags, fseq, ring2_3, ring3_4, pkt,
                 tmp_udpFrame, godotVars, kazeVars, drop_count, exhausted,
                 halted>>
-----------------------------------------------------------------------------
(* align_thread *)

TakeOldest ==
  /\ gpc = "take" /\ ring2_3 # <<>>
  /\ gframe' = Head(ring2_3) /\ ring2_3' = Tail(ring2_3)
  /\ gpc' = IF gframe' = None THEN "take" ELSE "wait"
  /\ UNCHANGED <<wire, index, pool, frameVars, ring3_4, dobVars, gslot,
                 kazeVars, drop_count, exhausted, halted>>

CompleteEarly == \* slip: one packet too few
  /\ gpc = "wait" /\ count[gframe] >= PackNum - 1
  /\ gpc' = "forward"
  /\ UNCHANGED <<wire, index, pool, frameVars, ring2_3, ring3_4, dobVars,
                 gframe, gslot, kazeVars, drop_count, exhausted, halted>>

Complete ==
  /\ gpc = "wait" /\ count[gframe] >= PackNum
  /\ gpc' = "forward"
  /\ UNCHANGED <<wire, index, pool, frameVars, ring2_3, ring3_4, dobVars,
                 gframe, gslot, kazeVars, drop_count, exhausted, halted>>

\* The time is up: the frame counts as dropped and its slots are cleaned.
TimeOut ==
  /\ gpc = "wait" /\ count[gframe] < PackNum
  /\ drop_count' = drop_count + 1
  /\ gslot' = 0 /\ gpc' = "zero"
  /\ UNCHANGED <<wire, index, pool, frameVars, ring2_3, ring3_4, dobVars,
                 gframe, kazeVars, exhausted, halted>>

\* One round of the loop that clears the slots without a flag.  Only the
\* first packet of a frame sets a flag.
ZeroSlot ==
  /\ gpc = "zero"
  /\ data' = IF flags[gframe][gslot] THEN data
             ELSE [data EXCEPT ![gframe][gslot] = None]
  /\ IF gslot + 1 < PackNum THEN gslot' = gslot + 1 /\ UNCHANGED gpc
                            ELSE gslot' = 0 /\ gpc' = "forward"
  /\ UNCHANGED <<wire, index, pool, count, flags, fseq, ring2_3, ring3_4,
                 dobVars, gframe, kazeVars, drop_count, exhausted, halted>>

ForwardAndPut == \* slip: the block commented out at 790-794 is active
  /\ gpc = "forward"
  /\ IF count[gframe] > PackNum
     THEN /\ index' = [index EXCEPT ![fseq[gframe]] = None]
          /\ pool' = pool \cup {gframe}
     ELSE UNCHANGED <<index, pool>>
  /\ ring3_4' = Append(ring3_4, gframe)
  /\ gframe' = None /\ gpc' = "take"
  /\ UNCHANGED <<wire, frameVars, ring2_3, dobVars, gslot,
                 kazeVars, drop_count, exhausted, halted>>
ForwardComplete == \* slip: an incomplete frame is not passed on
  /\ gpc = "forward"
  /\ ring3_4' = IF count[gframe] >= PackNum THEN Append(ring3_4, gframe) ELSE ring3_4
  /\ gframe' = None /\ gpc' = "take"
  /\ UNCHANGED <<wire, index, pool, frameVars, ring2_3, dobVars, gslot,
                 kazeVars, drop_count, exhausted, halted>>

Forward ==
  /\ gpc = "forward"
  /\ ring3_4' = Append(ring3_4, gframe)
  /\ gframe' = None /\ gpc' = "take"
  /\ UNCHANGED <<wire, index, pool, frameVars, ring2_3, dobVars, gslot,
                 kazeVars, drop_count, exhausted, halted>>
-----------------------------------------------------------------------------
(* send_to_pulsar *)

TakeToSend ==
  /\ kpc = "take" /\ ring3_4 # <<>>
  /\ kframe' = Head(ring3_4) /\ ring3_4' = Tail(ring3_4)
  /\ kpc' = "copyOut"
  /\ UNCHANGED <<wire, index, pool, frameVars, ring2_3, dobVars, godotVars,
                 drop_count, exhausted, halted>>

\* The frame's data goes into the message.
CopyOut ==
  /\ kpc = "copyOut"
  /\ kpc' = "count"
  /\ UNCHANGED <<wire, index, pool, frameVars, ring2_3, ring3_4, dobVars,
                 godotVars, kframe, drop_count, exhausted, halted>>

KeepCount == \* slip: count is not reset
  /\ kpc = "count"
  /\ kpc' = "flags"
  /\ UNCHANGED <<wire, index, pool, frameVars, ring2_3, ring3_4,
                 dobVars, godotVars, kframe, drop_count, exhausted, halted>>

ResetCount ==
  /\ kpc = "count"
  /\ count' = [count EXCEPT ![kframe] = 0]
  /\ kpc' = "flags"
  /\ UNCHANGED <<wire, index, pool, data, flags, fseq, ring2_3, ring3_4,
                 dobVars, godotVars, kframe, drop_count, exhausted, halted>>

ResetFlags ==
  /\ kpc = "flags"
  /\ flags' = [flags EXCEPT ![kframe] = [s \in Slots |-> FALSE]]
  /\ kpc' = "unindex"
  /\ UNCHANGED <<wire, index, pool, count, data, fseq, ring2_3, ring3_4,
                 dobVars, godotVars, kframe, drop_count, exhausted, halted>>

KeepIndex == \* slip: the index entry is not cleared
  /\ kpc = "unindex"
  /\ kpc' = "put"
  /\ UNCHANGED <<wire, index, pool, frameVars, ring2_3, ring3_4, dobVars,
                 godotVars, kframe, drop_count, exhausted, halted>>

Unindex ==
  /\ kpc = "unindex"
  /\ index' = [index EXCEPT ![fseq[kframe]] = None]
  /\ kpc' = "put"
  /\ UNCHANGED <<wire, pool, frameVars, ring2_3, ring3_4, dobVars, godotVars,
                 kframe, drop_count, exhausted, halted>>

PutFrame ==
  /\ kpc = "put"
  /\ pool' = pool \cup {kframe}
  /\ kframe' = None /\ kpc' = "take"
  /\ UNCHANGED <<wire, index, frameVars, ring2_3, ring3_4, dobVars, godotVars,
                 drop_count, exhausted, halted>>
-----------------------------------------------------------------------------
DobStep == \/ Lookup \/ Get \/ Fill \/ EnqueueFrame
           \/ LoadForData \/ CopyIn \/ LoadForCount \/ AddCount
GodotStep == TakeOldest \/ Complete \/ TimeOut \/ ZeroSlot \/ Forward
KazeStep == \/ TakeToSend \/ CopyOut \/ ResetCount \/ ResetFlags
            \/ Unindex \/ PutFrame

Next == /\ halted = "no"
        /\ Take \/ TakeDuplicate \/ DobStep \/ GodotStep \/ KazeStep

Spec == Init /\ [][Next]_vars

\* Each thread has a CPU of its own and spins, and time passes.  The network
\* owes nothing.
Fairness == /\ WF_vars(halted = "no" /\ DobStep)
            /\ WF_vars(halted = "no" /\ GodotStep)
            /\ WF_vars(halted = "no" /\ KazeStep)
FairSpec == Spec /\ Fairness
-----------------------------------------------------------------------------
(* Properties *)

Hand(f) == IF f = None THEN <<>> ELSE <<f>>

\* The frames that are not in the pool, oldest first.
Pipe == Hand(kframe) \o ring3_4 \o Hand(gframe) \o ring2_3
          \o (IF dpc \in {"fill", "enqueue"} THEN <<tmp_udpFrame>> ELSE <<>>)

\* The frame number a frame of the pipeline is filled for.
NumberOf(f) == IF dpc = "fill" /\ f = tmp_udpFrame THEN FrameSeq(pkt) ELSE fseq[f]

\* No frame was given up, no packet came twice, the pool has never run dry.
Untroubled == drop_count = 0 /\ dups = 0 /\ ~exhausted

\* Shape of every variable.
TypeOK ==
  /\ next \in Nat /\ lost \in Nat /\ dups \in Nat /\ pkt \in Nat
  /\ index \in [FrameSeqs -> Frames \cup {None}]
  /\ pool \subseteq Frames
  /\ count \in [Frames -> Nat]
  /\ data \in [Frames -> [Slots -> Nat \cup {None}]]
  /\ flags \in [Frames -> [Slots -> BOOLEAN]]
  /\ fseq \in [Frames -> FrameSeqs]
  /\ ring2_3 \in Seq(Frames \cup {None}) /\ ring3_4 \in Seq(Frames)
  /\ dpc \in {"take", "lookup", "get", "fill", "enqueue",
              "loadData", "copy", "loadCount", "add"}
  /\ tmp_udpFrame \in Frames \cup {None} /\ p \in Frames \cup {None}
  /\ gpc \in {"take", "wait", "zero", "forward"}
  /\ gframe \in Frames \cup {None} /\ gslot \in Slots
  /\ gframe # None <=> gpc # "take"
  /\ kpc \in {"take", "copyOut", "count", "flags", "unindex", "put"}
  /\ kframe \in Frames \cup {None}
  /\ kframe # None <=> kpc # "take"
  /\ drop_count \in Nat /\ exhausted \in BOOLEAN
  /\ halted \in {"no", "panic", "fault"}

\* Until the pool runs dry every frame is in exactly one place: the pool, or
\* once in the pipeline, however late packets and the release of their frame
\* (basicfwd.cpp:936-947) interleave.
FrameOwnedOnce ==
  ~exhausted => IsInjective(Pipe) /\ Range(Pipe) = Frames \ pool

\* All of which goes with the shape of the variables.
FramesSound == TypeOK /\ FrameOwnedOnce

\* ... and the index (basicfwd.cpp:572, 581, 946) leads to exactly the frames
\* of the pipeline, each under the number it is filled for, until KAZE has
\* cleared the entry.
IndexConsistent ==
  ~exhausted => \A n \in FrameSeqs, f \in Frames :
    index[n] = f <=> /\ f \in Range(Pipe) /\ NumberOf(f) = n
                     /\ ~(kpc = "put" /\ f = kframe)

\* As long as nothing is given up or duplicated, and not so many frames are lost
\* whole that their number comes round (EnoughNumbers in AssemblerProofs), what
\* KAZE sends is one frame of the sender, whole: all PACK_NUM packets of that
\* frame, each in its slot, no slot left over from an earlier use of the memory.
SentWhole ==
  Untroubled /\ kpc = "copyOut" =>
    LET d == data[kframe]
    IN  /\ d[0] # None
        /\ PacketSeq(d[0]) = 0 /\ FrameSeq(d[0]) = fseq[kframe]
        /\ \A s \in Slots : d[s] = d[0] + s

\* As long as nothing is given up or duplicated, frames in the pool are clean
\* for their next use: DOB writes no count or flag after KAZE has reset them.
PoolClean ==
  Untroubled => \A f \in pool : count[f] = 0 /\ \A s \in Slots : ~flags[f][s]

\* Whole frames out of clean memory.
FramesWhole == SentWhole /\ PoolClean

\* DOB dereferences a null index entry (basicfwd.cpp:636, 640) only if a frame
\* was given up, a packet came twice or the pool ran dry.
FaultOnlyWhenTroubled == halted = "fault" => ~Untroubled

\* The panic after the get (basicfwd.cpp:576-579): a get that brought no frame
\* ends the process.
ExhaustionPanics == exhausted => halted = "panic"

\* Once the network is quiet, every frame comes back to the pool, unless the
\* process has ended or the pool had run dry.
AllReturn == <>[](halted # "no" \/ exhausted \/ (pool = Frames /\ dpc = "take"))

\* Frames pass through the three threads first in, first out.
Numbered == IF kpc = "put" THEN Tail(Pipe) ELSE Pipe
FIFO == INSTANCE FramePipe WITH
  inflight <- [i \in 1..Len(Numbered) |-> NumberOf(Numbered[i])],
  broken <- exhausted
PipeSpec == FIFO!Spec
=============================================================================
