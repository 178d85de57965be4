-------------------------- MODULE AssemblerProofs ---------------------------
(***************************************************************************)
(* Proofs about frame assembly, for any number of frames, packets per      *)
(* frame and frame numbers, and any losses and duplicates.                 *)
(*                                                                         *)
(* The pipeline is treated as sets: a frame is in the pool, in one ring,   *)
(* or in the hands of one thread.  That alone is not inductive: which      *)
(* frame DOB enqueues depends on the index, which KAZE changes meanwhile,  *)
(* so the index is part of the invariant.                                  *)
(*                                                                         *)
(* That frames are whole needs to tell the packets of one use of a frame   *)
(* from those of another, and frames of the sender under the same number:  *)
(* G says which frame of the sender each frame is for.  It is true only if *)
(* the numbers do not come round within the pipeline (EnoughNumbers).      *)
(***************************************************************************)
EXTENDS Assembler, DataFacts

\* Frames of DOB's that are not in a ring yet.
InDob(f) == dpc \in {"fill", "enqueue"} /\ f = tmp_udpFrame
In23(f) == f \in Range(ring2_3)
InGodot(f) == f = gframe
In34(f) == f \in Range(ring3_4)
InKaze(f) == f = kframe

Types ==
  /\ TypeOK
  /\ dpc \in {"fill", "enqueue"} => tmp_udpFrame # None
  /\ dpc \in {"copy", "add"} => p # None

\* Exactly one of the places has the frame.
Placed(f) ==
  /\ f \notin pool => InDob(f) \/ In23(f) \/ InGodot(f) \/ In34(f) \/ InKaze(f)
  /\ f \in pool =>
       ~InDob(f) /\ ~In23(f) /\ ~InGodot(f) /\ ~In34(f) /\ ~InKaze(f)
  /\ InDob(f) => ~In23(f) /\ ~InGodot(f) /\ ~In34(f) /\ ~InKaze(f)
  /\ In23(f) => ~InGodot(f) /\ ~In34(f) /\ ~InKaze(f)
  /\ InGodot(f) => ~In34(f) /\ ~InKaze(f)
  /\ In34(f) => ~InKaze(f)

RingsOnce ==
  /\ IsInjective(ring2_3) /\ IsInjective(ring3_4)
  /\ ring2_3 \in Seq(Frames)

Unindexed(f) == f \in pool \/ (kpc = "put" /\ f = kframe)
Indexed ==
  /\ \A n \in FrameSeqs, f \in Frames :
       index[n] = f <=> NumberOf(f) = n /\ ~Unindexed(f)
  /\ dpc = "get" => index[FrameSeq(pkt)] = None
  /\ dpc = "enqueue" => fseq[tmp_udpFrame] = FrameSeq(pkt)

IInv ==
  /\ Types
  /\ ~exhausted => (\A f \in Frames : Placed(f)) /\ RingsOnce /\ Indexed
-----------------------------------------------------------------------------
(* Type correctness. *)

LEMMA Numbers ==
  ASSUME NEW k \in Nat
  PROVE  PacketSeq(k) \in Slots /\ FrameSeq(k) \in FrameSeqs
<1>1. k % PackNum \in 0..(PackNum - 1) /\ k \div PackNum \in Nat
  BY SizesAssumption
<1>2. \A j \in Nat : j % NumFrameSeq \in 0..(NumFrameSeq - 1)
  BY SizesAssumption
<1>3. QED
  BY <1>1, <1>2 DEF PacketSeq, FrameSeq, Slots, FrameSeqs

LEMMA InitInv == Init => IInv
<1> SUFFICES ASSUME Init PROVE IInv
  OBVIOUS
<1> USE SizesAssumption, FramesAssumption DEF Init
<1>1. Types
  <2>1. 0 \in FrameSeqs /\ 0 \in Slots
    BY DEF FrameSeqs, Slots
  <2>2. ring2_3 \in Seq(Frames \cup {None}) /\ ring3_4 \in Seq(Frames)
    OBVIOUS
  <2>3. QED
    BY <2>1, <2>2 DEF Types, TypeOK
<1>2. Range(<<>>) = {} /\ IsInjective(<<>>) /\ <<>> \in Seq(Frames)
  BY DEF Range, IsInjective
<1>3. \A f \in Frames : Placed(f)
  BY <1>2 DEF Placed, InDob, In23, InGodot, In34, InKaze
<1>4. RingsOnce /\ Indexed
  BY <1>2 DEF RingsOnce, Indexed, Unindexed
<1>5. QED
  BY <1>1, <1>3, <1>4 DEF IInv

LEMMA WireTypes == Types /\ (Take \/ TakeDuplicate) => Types'
<1> SUFFICES ASSUME Types, Take \/ TakeDuplicate PROVE Types'
  OBVIOUS
<1> USE DEF Types, TypeOK, wire, frameVars, godotVars, kazeVars
<1>1. CASE Take
  <2>1. PICK n \in 0..(MaxLost - lost) :
          pkt' = next + n /\ next' = next + n + 1 /\ lost' = lost + n
    BY <1>1 DEF Take
  <2>2. n \in Nat
    BY <2>1, SizesAssumption
  <2>3. pkt' \in Nat /\ next' \in Nat /\ lost' \in Nat
    BY <2>1, <2>2
  <2>4. QED
    BY <1>1, <2>3 DEF Take
<1>2. CASE TakeDuplicate
  BY <1>2 DEF TakeDuplicate
<1>3. QED
  BY <1>1, <1>2

LEMMA DobTypes == Types /\ DobStep => Types'
<1> SUFFICES ASSUME Types, DobStep PROVE Types'
  OBVIOUS
<1> USE DEF Types, TypeOK, wire, frameVars, godotVars, kazeVars
<1>1. PacketSeq(pkt) \in Slots /\ FrameSeq(pkt) \in FrameSeqs
  BY Numbers
<1>2. CASE Lookup
  BY <1>1, <1>2 DEF Lookup
<1>3. CASE Get
  <2>1. tmp_udpFrame' \in Frames \cup {None} /\ pool' \subseteq Frames
    BY <1>3 DEF Get
  <2>2. index' \in [FrameSeqs -> Frames \cup {None}]
    BY <1>1, <1>3, <2>1 DEF Get
  <2>3. QED
    BY <1>3, <2>1, <2>2 DEF Get
<1>4. CASE Fill
  <2>1. CASE index[FrameSeq(pkt)] = None
    BY <1>4, <2>1 DEF Fill
  <2>2. CASE index[FrameSeq(pkt)] # None
    <3> DEFINE f == index[FrameSeq(pkt)]
    <3>1. f \in Frames /\ tmp_udpFrame \in Frames
      BY <1>1, <1>4, <2>2 DEF Fill
    <3>2. count' \in [Frames -> Nat]
      <4>1. count' = [count EXCEPT ![tmp_udpFrame] = count[tmp_udpFrame] + 1]
        BY <1>4, <2>2 DEF Fill
      <4>2. count[tmp_udpFrame] + 1 \in Nat
        BY <3>1
      <4>3. QED
        BY <3>1, <4>1, <4>2
    <3>3. /\ data' = [data EXCEPT ![f] = [data[f] EXCEPT ![PacketSeq(pkt)] = pkt]]
          /\ flags' = [flags EXCEPT ![f] = [flags[f] EXCEPT ![PacketSeq(pkt)] = TRUE]]
          /\ fseq' = [fseq EXCEPT ![f] = FrameSeq(pkt)]
      BY <1>4, <2>2 DEF Fill
    <3>4. /\ [data[f] EXCEPT ![PacketSeq(pkt)] = pkt] \in [Slots -> Nat \cup {None}]
          /\ [flags[f] EXCEPT ![PacketSeq(pkt)] = TRUE] \in [Slots -> BOOLEAN]
      BY <3>1
    <3>5. /\ data' \in [Frames -> [Slots -> Nat \cup {None}]]
          /\ flags' \in [Frames -> [Slots -> BOOLEAN]]
      BY <3>1, <3>3, <3>4
    <3>6. fseq' \in [Frames -> FrameSeqs]
      BY <1>1, <3>1, <3>3
    <3>7. QED
      BY <1>4, <2>2, <3>2, <3>5, <3>6 DEF Fill
  <2>3. QED
    BY <2>1, <2>2
<1>5. CASE EnqueueFrame
  <2>1. ring2_3' \in Seq(Frames \cup {None})
    BY <1>1, <1>5 DEF EnqueueFrame
  <2>2. QED
    BY <1>5, <2>1 DEF EnqueueFrame
<1>6. CASE LoadForData \/ LoadForCount
  BY <1>1, <1>6 DEF LoadForData, LoadForCount, Load
<1>7. CASE CopyIn
  <2>1. p \in Frames
    BY <1>7 DEF CopyIn
  <2>2. data' = [data EXCEPT ![p] = [data[p] EXCEPT ![PacketSeq(pkt)] = pkt]]
    BY <1>7 DEF CopyIn
  <2>3. [data[p] EXCEPT ![PacketSeq(pkt)] = pkt] \in [Slots -> Nat \cup {None}]
    BY <2>1
  <2>4. data' \in [Frames -> [Slots -> Nat \cup {None}]]
    BY <2>1, <2>2, <2>3
  <2>5. QED
    BY <1>7, <2>4 DEF CopyIn
<1>8. CASE AddCount
  <2>1. count' \in [Frames -> Nat]
    BY <1>8 DEF AddCount
  <2>2. QED
    BY <1>8, <2>1 DEF AddCount
<1>9. QED
  BY <1>2, <1>3, <1>4, <1>5, <1>6, <1>7, <1>8 DEF DobStep

LEMMA GodotTypes == Types /\ GodotStep => Types'
<1> SUFFICES ASSUME Types, GodotStep PROVE Types'
  OBVIOUS
<1> USE DEF Types, TypeOK, wire, frameVars, dobVars, kazeVars
<1>1. CASE TakeOldest
  <2>1. gframe' \in Frames \cup {None} /\ ring2_3' \in Seq(Frames \cup {None})
    BY <1>1 DEF TakeOldest
  <2>2. QED
    BY <1>1, <2>1 DEF TakeOldest
<1>2. CASE Complete
  BY <1>2 DEF Complete
<1>3. CASE TimeOut
  BY <1>3, SizesAssumption DEF TimeOut, Slots
<1>4. CASE ZeroSlot
  <2>1. gframe \in Frames
    BY <1>4 DEF ZeroSlot
  <2>2. data' \in [Frames -> [Slots -> Nat \cup {None}]]
    <3>1. CASE flags[gframe][gslot]
      BY <1>4, <3>1 DEF ZeroSlot
    <3>2. CASE ~flags[gframe][gslot]
      <4>1. data' = [data EXCEPT ![gframe] = [data[gframe] EXCEPT ![gslot] = None]]
        BY <1>4, <3>2 DEF ZeroSlot
      <4>2. [data[gframe] EXCEPT ![gslot] = None] \in [Slots -> Nat \cup {None}]
        BY <2>1
      <4>3. QED
        BY <2>1, <4>1, <4>2
    <3>3. QED
      BY <3>1, <3>2
  <2>3. gslot' \in Slots /\ gpc' \in {"zero", "forward"}
    BY <1>4, SizesAssumption DEF ZeroSlot, Slots
  <2>4. QED
    BY <1>4, <2>1, <2>2, <2>3 DEF ZeroSlot
<1>5. CASE Forward
  <2>1. ring3_4' \in Seq(Frames)
    BY <1>5 DEF Forward
  <2>2. QED
    BY <1>5, <2>1 DEF Forward
<1>6. QED
  BY <1>1, <1>2, <1>3, <1>4, <1>5 DEF GodotStep

LEMMA KazeTypes == Types /\ KazeStep => Types'
<1> SUFFICES ASSUME Types, KazeStep PROVE Types'
  OBVIOUS
<1> USE DEF Types, TypeOK, wire, frameVars, dobVars, godotVars
<1>1. CASE TakeToSend
  <2>1. kframe' \in Frames /\ ring3_4' \in Seq(Frames)
    BY <1>1 DEF TakeToSend
  <2>2. QED
    BY <1>1, <2>1, FramesAssumption DEF TakeToSend
<1>2. CASE CopyOut
  BY <1>2 DEF CopyOut
<1>3. CASE ResetCount
  <2>1. count' \in [Frames -> Nat]
    BY <1>3 DEF ResetCount
  <2>2. QED
    BY <1>3, <2>1 DEF ResetCount
<1>4. CASE ResetFlags
  <2>1. [s \in Slots |-> FALSE] \in [Slots -> BOOLEAN]
    OBVIOUS
  <2>2. flags' \in [Frames -> [Slots -> BOOLEAN]]
    BY <1>4, <2>1 DEF ResetFlags
  <2>3. QED
    BY <1>4, <2>2 DEF ResetFlags
<1>5. CASE Unindex
  <2>1. index' \in [FrameSeqs -> Frames \cup {None}]
    BY <1>5 DEF Unindex
  <2>2. QED
    BY <1>5, <2>1 DEF Unindex
<1>6. CASE PutFrame
  BY <1>6 DEF PutFrame
<1>7. QED
  BY <1>1, <1>2, <1>3, <1>4, <1>5, <1>6 DEF KazeStep
-----------------------------------------------------------------------------
(* Where the frames are, while the pool has not run dry. *)

Sound == (\A f \in Frames : Placed(f)) /\ RingsOnce /\ Indexed

\* The frame in DOB's hands is the one the index leads to.
LEMMA InHand ==
  ASSUME Types, Sound, dpc \in {"fill", "enqueue"}
  PROVE  /\ tmp_udpFrame \in Frames /\ index[FrameSeq(pkt)] = tmp_udpFrame
         /\ tmp_udpFrame \notin Range(ring2_3) /\ tmp_udpFrame \notin Range(ring3_4)
         /\ tmp_udpFrame # gframe /\ tmp_udpFrame # kframe /\ tmp_udpFrame \notin pool
<1>1. tmp_udpFrame \in Frames
  BY DEF Types, TypeOK
<1>2. Placed(tmp_udpFrame) /\ InDob(tmp_udpFrame)
  BY <1>1 DEF Sound, InDob
<1>3. NumberOf(tmp_udpFrame) = FrameSeq(pkt) /\ ~Unindexed(tmp_udpFrame)
  BY <1>2 DEF Sound, Indexed, NumberOf, Placed, Unindexed, InKaze
<1>4. FrameSeq(pkt) \in FrameSeqs
  BY Numbers DEF Types, TypeOK
<1>5. index[FrameSeq(pkt)] = tmp_udpFrame
  BY <1>1, <1>3, <1>4 DEF Sound, Indexed
<1>6. QED
  BY <1>1, <1>2, <1>5 DEF Placed, In23, InGodot, In34, InKaze

\* Steps of a thread on data of its own.
LEMMA StillSound ==
  ASSUME Sound,
         UNCHANGED <<index, pool, ring2_3, ring3_4, fseq, pkt, tmp_udpFrame,
                     gframe, kframe>>,
         dpc' = dpc \/ (/\ dpc \notin {"fill", "enqueue"}
                        /\ dpc' \notin {"fill", "enqueue"}
                        /\ dpc' = "get" => index[FrameSeq(pkt)] = None),
         kpc' = kpc \/ (kpc # "put" /\ kpc' # "put")
  PROVE  Sound'
<1>1. \A f : NumberOf(f)' = NumberOf(f)
  BY DEF NumberOf
<1>2. \A f : Unindexed(f)' <=> Unindexed(f)
  BY DEF Unindexed
<1>3. \A f : Placed(f)' <=> Placed(f)
  BY DEF Placed, InDob, In23, InGodot, In34, InKaze
<1>4. RingsOnce'
  BY DEF Sound, RingsOnce
<1>5. Indexed'
  <2>1. FrameSeq(pkt)' = FrameSeq(pkt)
    BY DEF FrameSeq
  <2>2. QED
    BY <1>1, <1>2, <2>1 DEF Sound, Indexed
<1>6. QED
  BY <1>3, <1>4, <1>5 DEF Sound

\* A new packet begins where the one before is done with.
LEMMA WireSound == Types /\ Sound /\ (Take \/ TakeDuplicate) => Sound'
<1> SUFFICES ASSUME Types, Sound, Take \/ TakeDuplicate PROVE Sound'
  OBVIOUS
<1>1. /\ UNCHANGED <<index, pool, ring2_3, ring3_4, fseq, tmp_udpFrame, gframe,
                     kpc, kframe>>
      /\ dpc = "take" /\ dpc' = "lookup"
  BY DEF Take, TakeDuplicate, frameVars, godotVars, kazeVars
<1>2. \A f : NumberOf(f)' = NumberOf(f) /\ (Unindexed(f)' <=> Unindexed(f))
  BY <1>1 DEF NumberOf, Unindexed
<1>3. \A f : Placed(f)' <=> Placed(f)
  BY <1>1 DEF Placed, InDob, In23, InGodot, In34, InKaze
<1>4. QED
  BY <1>1, <1>2, <1>3 DEF Sound, RingsOnce, Indexed

\* A frame out of the pool goes into the index, under a number no other has.
LEMMA GetSound == Types /\ Sound /\ Get /\ ~exhausted' => Sound'
<1> SUFFICES ASSUME Types, Sound, Get, ~exhausted' PROVE Sound'
  OBVIOUS
<1>1. pool # {}
  BY DEF Get
<1>2. PICK g \in pool : g = tmp_udpFrame' /\ pool' = pool \ {g}
  BY <1>1 DEF Get
<1>3. g \in Frames /\ g # None /\ FrameSeq(pkt) \in FrameSeqs
  BY <1>2, FramesAssumption, Numbers DEF Types, TypeOK
<1>4. /\ index' = [index EXCEPT ![FrameSeq(pkt)] = g]
      /\ dpc = "get" /\ dpc' = "fill" /\ pkt' = pkt
      /\ UNCHANGED <<ring2_3, ring3_4, fseq, gframe, kpc, kframe>>
  BY <1>2, <1>3 DEF Get, frameVars, godotVars, kazeVars
<1>5. ~In23(g) /\ ~InGodot(g) /\ ~In34(g) /\ ~InKaze(g)
  BY <1>2, <1>3 DEF Sound, Placed
<1>6. ASSUME NEW f \in Frames PROVE Placed(f)'
  <2>1. CASE f = g
    BY <1>2, <1>4, <1>5, <2>1 DEF Placed, InDob, In23, InGodot, In34, InKaze
  <2>2. CASE f # g
    BY <1>2, <1>4, <2>2 DEF Sound, Placed, InDob, In23, InGodot, In34, InKaze
  <2>3. QED
    BY <2>1, <2>2
<1>7. RingsOnce'
  BY <1>4 DEF Sound, RingsOnce
<1>8. ASSUME NEW n \in FrameSeqs, NEW f \in Frames
      PROVE  index'[n] = f <=> NumberOf(f)' = n /\ ~Unindexed(f)'
  <2>1. index[n] = f <=> NumberOf(f) = n /\ ~Unindexed(f)
    BY DEF Sound, Indexed
  <2>2. index'[n] = IF n = FrameSeq(pkt) THEN g ELSE index[n]
    BY <1>3, <1>4 DEF Types, TypeOK
  <2>3. FrameSeq(pkt)' = FrameSeq(pkt) /\ index[FrameSeq(pkt)] = None
    BY <1>4 DEF FrameSeq, Sound, Indexed
  <2>4. CASE f = g
    <3>1. NumberOf(f)' = FrameSeq(pkt) /\ ~Unindexed(f)' /\ Unindexed(f)
      BY <1>2, <1>4, <1>5, <2>3, <2>4 DEF NumberOf, Unindexed, InKaze
    <3>2. QED
      BY <2>1, <2>2, <2>4, <3>1
  <2>5. CASE f # g
    <3>1. NumberOf(f)' = NumberOf(f) /\ (Unindexed(f)' <=> Unindexed(f))
      BY <1>2, <1>4, <2>5 DEF NumberOf, Unindexed
    <3>2. f # None
      BY FramesAssumption
    <3>3. QED
      BY <2>1, <2>2, <2>3, <2>5, <3>1, <3>2
  <2>6. QED
    BY <2>4, <2>5
<1>9. QED
  BY <1>4, <1>6, <1>7, <1>8 DEF Sound, Indexed

LEMMA DobSound == Types /\ Sound /\ DobStep /\ ~exhausted' => Sound'
<1> SUFFICES ASSUME Types, Sound, DobStep, ~exhausted' PROVE Sound'
  OBVIOUS
<1> USE DEF frameVars, godotVars, kazeVars
<1>1. CASE Lookup
  BY <1>1, StillSound DEF Lookup
<1>2. CASE Get
  BY <1>2, GetSound
<1>3. CASE Fill
  <2>1. tmp_udpFrame \in Frames /\ index[FrameSeq(pkt)] = tmp_udpFrame
    BY <1>3, InHand DEF Fill
  <2>2. /\ fseq' = [fseq EXCEPT ![tmp_udpFrame] = FrameSeq(pkt)]
        /\ dpc = "fill" /\ dpc' = "enqueue"
        /\ UNCHANGED <<index, pool, ring2_3, ring3_4, pkt, tmp_udpFrame, gframe,
                       kpc, kframe>>
    BY <1>3, <2>1, FramesAssumption DEF Fill
  <2>3. /\ FrameSeq(pkt)' = FrameSeq(pkt)
        /\ \A f \in Frames : fseq'[f] = IF f = tmp_udpFrame THEN FrameSeq(pkt)
                                                            ELSE fseq[f]
    BY <2>1, <2>2 DEF FrameSeq, Types, TypeOK
  <2>4. \A f \in Frames : NumberOf(f)' = NumberOf(f)
    BY <2>2, <2>3 DEF NumberOf
  <2>5. \A f : (Placed(f)' <=> Placed(f)) /\ (Unindexed(f)' <=> Unindexed(f))
    BY <2>2 DEF Placed, InDob, In23, InGodot, In34, InKaze, Unindexed
  <2>6. QED
    BY <2>1, <2>2, <2>3, <2>4, <2>5 DEF Sound, RingsOnce, Indexed
<1>4. CASE EnqueueFrame
  <2>1. /\ tmp_udpFrame \in Frames /\ index[FrameSeq(pkt)] = tmp_udpFrame
        /\ tmp_udpFrame \notin Range(ring2_3)
    BY <1>4, InHand DEF EnqueueFrame
  <2>2. /\ ring2_3' = Append(ring2_3, tmp_udpFrame)
        /\ dpc = "enqueue" /\ dpc' = "take"
        /\ UNCHANGED <<index, pool, ring3_4, fseq, pkt, tmp_udpFrame, gframe,
                       kpc, kframe>>
    BY <1>4, <2>1 DEF EnqueueFrame
  <2>3. /\ ring2_3' \in Seq(Frames) /\ IsInjective(ring2_3')
        /\ Range(ring2_3') = Range(ring2_3) \cup {tmp_udpFrame}
    BY <2>1, <2>2, AppendDistinct DEF Sound, RingsOnce
  <2>4. \A f : Placed(f)' <=> Placed(f)
    BY <2>1, <2>2, <2>3, InHand DEF Placed, InDob, In23, InGodot, In34, InKaze
  <2>5. \A f : NumberOf(f)' = NumberOf(f) /\ (Unindexed(f)' <=> Unindexed(f))
    BY <2>2 DEF NumberOf, Unindexed
  <2>6. QED
    BY <2>2, <2>3, <2>4, <2>5 DEF Sound, RingsOnce, Indexed
<1>5. CASE LoadForData \/ LoadForCount
  BY <1>5, StillSound DEF LoadForData, LoadForCount, Load
<1>6. CASE CopyIn
  BY <1>6, StillSound DEF CopyIn
<1>7. CASE AddCount
  BY <1>7, StillSound DEF AddCount
<1>8. QED
  BY <1>1, <1>2, <1>3, <1>4, <1>5, <1>6, <1>7 DEF DobStep

LEMMA GodotSound == Types /\ Sound /\ GodotStep => Sound'
<1> SUFFICES ASSUME Types, Sound, GodotStep PROVE Sound'
  OBVIOUS
<1> USE DEF frameVars, dobVars, kazeVars
<1>1. CASE TakeOldest
  <2>1. /\ gframe = None /\ gframe' = Head(ring2_3) /\ ring2_3' = Tail(ring2_3)
        /\ ring2_3 # <<>> /\ ring2_3 \in Seq(Frames) /\ IsInjective(ring2_3)
        /\ UNCHANGED <<index, pool, ring3_4, fseq, dpc, pkt, tmp_udpFrame,
                       kpc, kframe>>
    BY <1>1 DEF TakeOldest, Types, TypeOK, Sound, RingsOnce
  <2>2. /\ ring2_3' \in Seq(Frames) /\ IsInjective(ring2_3')
        /\ gframe' \in Range(ring2_3)
        /\ Range(ring2_3') = Range(ring2_3) \ {gframe'}
    BY <2>1, TailDistinct
  <2>3. \A f \in Frames : Placed(f)'
    BY <2>1, <2>2, FramesAssumption
      DEF Sound, Placed, InDob, In23, InGodot, In34, InKaze
  <2>4. \A f : NumberOf(f)' = NumberOf(f) /\ (Unindexed(f)' <=> Unindexed(f))
    BY <2>1 DEF NumberOf, Unindexed
  <2>5. FrameSeq(pkt)' = FrameSeq(pkt)
    BY <2>1 DEF FrameSeq
  <2>6. QED
    BY <2>1, <2>2, <2>3, <2>4, <2>5 DEF Sound, RingsOnce, Indexed
<1>2. CASE Complete
  BY <1>2, StillSound DEF Complete
<1>3. CASE TimeOut
  BY <1>3, StillSound DEF TimeOut
<1>4. CASE ZeroSlot
  BY <1>4, StillSound DEF ZeroSlot
<1>5. CASE Forward
  <2>1. /\ gframe \in Frames /\ gframe' = None /\ ring3_4' = Append(ring3_4, gframe)
        /\ ring3_4 \in Seq(Frames) /\ IsInjective(ring3_4)
        /\ UNCHANGED <<index, pool, ring2_3, fseq, dpc, pkt, tmp_udpFrame,
                       kpc, kframe>>
    BY <1>5 DEF Forward, Types, TypeOK, Sound, RingsOnce
  <2>2. gframe \notin Range(ring3_4)
    BY <2>1 DEF Sound, Placed, InGodot, In34
  <2>3. /\ ring3_4' \in Seq(Frames) /\ IsInjective(ring3_4')
        /\ Range(ring3_4') = Range(ring3_4) \cup {gframe}
    BY <2>1, <2>2, AppendDistinct
  <2>4. \A f \in Frames : Placed(f)'
    BY <2>1, <2>2, <2>3, FramesAssumption
      DEF Sound, Placed, InDob, In23, InGodot, In34, InKaze
  <2>5. \A f : NumberOf(f)' = NumberOf(f) /\ (Unindexed(f)' <=> Unindexed(f))
    BY <2>1 DEF NumberOf, Unindexed
  <2>6. FrameSeq(pkt)' = FrameSeq(pkt)
    BY <2>1 DEF FrameSeq
  <2>7. QED
    BY <2>1, <2>3, <2>4, <2>5, <2>6 DEF Sound, RingsOnce, Indexed
<1>6. QED
  BY <1>1, <1>2, <1>3, <1>4, <1>5 DEF GodotStep

LEMMA KazeSound == Types /\ Sound /\ KazeStep => Sound'
<1> SUFFICES ASSUME Types, Sound, KazeStep PROVE Sound'
  OBVIOUS
<1> USE DEF frameVars, dobVars, godotVars
<1>1. CASE TakeToSend
  <2>1. /\ kframe = None /\ kframe' = Head(ring3_4) /\ ring3_4' = Tail(ring3_4)
        /\ ring3_4 # <<>> /\ ring3_4 \in Seq(Frames) /\ IsInjective(ring3_4)
        /\ kpc # "put" /\ kpc' # "put"
        /\ UNCHANGED <<index, pool, ring2_3, fseq, dpc, pkt, tmp_udpFrame,
                       gframe>>
    BY <1>1 DEF TakeToSend, Types, TypeOK, Sound, RingsOnce
  <2>2. /\ ring3_4' \in Seq(Frames) /\ IsInjective(ring3_4')
        /\ kframe' \in Range(ring3_4)
        /\ Range(ring3_4') = Range(ring3_4) \ {kframe'}
    BY <2>1, TailDistinct
  <2>3. \A f \in Frames : Placed(f)'
    BY <2>1, <2>2, FramesAssumption
      DEF Sound, Placed, InDob, In23, InGodot, In34, InKaze
  <2>4. \A f : NumberOf(f)' = NumberOf(f) /\ (Unindexed(f)' <=> Unindexed(f))
    BY <2>1 DEF NumberOf, Unindexed
  <2>5. FrameSeq(pkt)' = FrameSeq(pkt)
    BY <2>1 DEF FrameSeq
  <2>6. QED
    BY <2>1, <2>2, <2>3, <2>4, <2>5 DEF Sound, RingsOnce, Indexed
<1>2. CASE CopyOut \/ ResetCount \/ ResetFlags
  BY <1>2, StillSound DEF CopyOut, ResetCount, ResetFlags
<1>3. CASE Unindex
  <2>1. /\ kframe \in Frames /\ kpc = "unindex" /\ kpc' = "put"
        /\ index' = [index EXCEPT ![fseq[kframe]] = None]
        /\ fseq[kframe] \in FrameSeqs
        /\ UNCHANGED <<pool, ring2_3, ring3_4, fseq, dpc, pkt, tmp_udpFrame,
                       gframe, kframe>>
    BY <1>3 DEF Unindex, Types, TypeOK
  <2>2. \A f : Placed(f)' <=> Placed(f)
    BY <2>1 DEF Placed, InDob, In23, InGodot, In34, InKaze
  <2>3. NumberOf(kframe) = fseq[kframe] /\ ~Unindexed(kframe)
    BY <2>1 DEF Sound, Placed, InKaze, InDob, NumberOf, Unindexed
  <2>4. ASSUME NEW n \in FrameSeqs, NEW f \in Frames
        PROVE  index'[n] = f <=> NumberOf(f)' = n /\ ~Unindexed(f)'
    <3>1. /\ index[n] = f <=> NumberOf(f) = n /\ ~Unindexed(f)
          /\ index[n] = kframe <=> NumberOf(kframe) = n /\ ~Unindexed(kframe)
      BY <2>1 DEF Sound, Indexed
    <3>2. index'[n] = IF n = fseq[kframe] THEN None ELSE index[n]
      BY <2>1 DEF Types, TypeOK
    <3>3. NumberOf(f)' = NumberOf(f) /\ (Unindexed(f)' <=> Unindexed(f) \/ f = kframe)
      BY <2>1 DEF NumberOf, Unindexed
    <3>4. f # None
      BY FramesAssumption
    <3>5. QED
      BY <2>3, <3>1, <3>2, <3>3, <3>4
  <2>5. /\ FrameSeq(pkt)' = FrameSeq(pkt)
        /\ dpc = "get" => index'[FrameSeq(pkt)] = None
    <3>1. FrameSeq(pkt) \in FrameSeqs
      BY Numbers DEF Types, TypeOK
    <3>2. QED
      BY <2>1, <3>1 DEF FrameSeq, Sound, Indexed, Types, TypeOK
  <2>6. QED
    BY <2>1, <2>2, <2>4, <2>5 DEF Sound, RingsOnce, Indexed
<1>4. CASE PutFrame
  <2>1. /\ kframe \in Frames /\ kpc = "put" /\ kpc' = "take" /\ kframe' = None
        /\ pool' = pool \cup {kframe}
        /\ UNCHANGED <<index, ring2_3, ring3_4, fseq, dpc, pkt, tmp_udpFrame,
                       gframe>>
    BY <1>4 DEF PutFrame, Types, TypeOK
  <2>2. \A f \in Frames : Placed(f)'
    BY <2>1, FramesAssumption DEF Sound, Placed, InDob, In23, InGodot, In34, InKaze
  <2>3. \A f \in Frames : NumberOf(f)' = NumberOf(f)
                            /\ (Unindexed(f)' <=> Unindexed(f))
    BY <2>1 DEF NumberOf, Unindexed
  <2>4. FrameSeq(pkt)' = FrameSeq(pkt)
    BY <2>1 DEF FrameSeq
  <2>5. QED
    BY <2>1, <2>2, <2>3, <2>4 DEF Sound, RingsOnce, Indexed
<1>5. QED
  BY <1>1, <1>2, <1>3, <1>4 DEF KazeStep
-----------------------------------------------------------------------------
LEMMA NextInv == IInv /\ [Next]_vars => IInv'
<1> SUFFICES ASSUME IInv, [Next]_vars PROVE IInv'
  OBVIOUS
<1>1. CASE UNCHANGED vars
  <2>1. Types'
    BY <1>1 DEF IInv, Types, TypeOK, vars, wire, frameVars, dobVars, godotVars,
      kazeVars
  <2>2. ~exhausted /\ Sound => Sound'
    BY <1>1, StillSound DEF vars, wire, frameVars, dobVars, godotVars, kazeVars
  <2>3. QED
    BY <1>1, <2>1, <2>2 DEF IInv, Sound, vars
<1>2. CASE Next
  <2>1. Types'
    BY <1>2, WireTypes, DobTypes, GodotTypes, KazeTypes DEF IInv, Next
  <2>2. ~exhausted' => ~exhausted
    BY <1>2 DEF Next, Take, TakeDuplicate, DobStep, Lookup, Get, Fill,
      EnqueueFrame, LoadForData, LoadForCount, Load, CopyIn, AddCount, GodotStep,
      TakeOldest, Complete, TimeOut, ZeroSlot, Forward, KazeStep, TakeToSend,
      CopyOut, ResetCount, ResetFlags, Unindex, PutFrame
  <2>3. ~exhausted' => Sound'
    BY <1>2, <2>2, WireSound, DobSound, GodotSound, KazeSound
      DEF IInv, Next, Sound
  <2>4. QED
    BY <2>1, <2>3 DEF IInv, Sound
<1>3. QED
  BY <1>1, <1>2

LEMMA InvHolds == Spec => []IInv
BY InitInv, NextInv, PTL DEF Spec

\* What a thread has in hand is a queue of at most one frame.
LEMMA HandFacts ==
  ASSUME NEW f \in Frames \cup {None}
  PROVE  /\ Hand(f) \in Seq(Frames) /\ IsInjective(Hand(f))
         /\ Range(Hand(f)) = {f} \ {None}
BY FramesAssumption DEF Hand, Range, IsInjective

\* The pipeline, as a sequence, has the frames of the five places in it.
LEMMA PipeFacts ==
  ASSUME Types, Sound
  PROVE  IsInjective(Pipe) /\ Range(Pipe) = Frames \ pool
<1> DEFINE k == Hand(kframe)
           g == Hand(gframe)
           d == IF dpc \in {"fill", "enqueue"} THEN <<tmp_udpFrame>> ELSE <<>>
<1>1. /\ k \in Seq(Frames) /\ IsInjective(k) /\ Range(k) = {kframe} \ {None}
      /\ g \in Seq(Frames) /\ IsInjective(g) /\ Range(g) = {gframe} \ {None}
  BY HandFacts DEF Types, TypeOK
<1>2. /\ d \in Seq(Frames) /\ IsInjective(d)
      /\ Range(d) = {f \in Frames : InDob(f)}
  <2>1. CASE dpc \in {"fill", "enqueue"}
    <3>1. tmp_udpFrame \in Frames
      BY <2>1 DEF Types, TypeOK
    <3>2. d = Hand(tmp_udpFrame)
      BY <2>1, <3>1, FramesAssumption DEF Hand
    <3>3. Range(d) = {tmp_udpFrame}
      BY <3>1, <3>2, HandFacts, FramesAssumption
    <3>4. QED
      BY <2>1, <3>1, <3>2, <3>3, HandFacts DEF InDob
  <2>2. CASE dpc \notin {"fill", "enqueue"}
    <3>1. d = Hand(None)
      BY <2>2 DEF Hand
    <3>2. QED
      BY <2>2, <3>1, HandFacts DEF InDob
  <2>3. QED
    BY <2>1, <2>2
<1>3. /\ ring2_3 \in Seq(Frames) /\ IsInjective(ring2_3)
      /\ ring3_4 \in Seq(Frames) /\ IsInjective(ring3_4)
      /\ \A f \in Frames : Placed(f)
  BY DEF Types, TypeOK, Sound, RingsOnce
<1>4. Pipe = (((k \o ring3_4) \o g) \o ring2_3) \o d
  BY DEF Pipe
<1> HIDE DEF k, g, d
<1> DEFINE s1 == k \o ring3_4
<1>5. /\ s1 \in Seq(Frames) /\ IsInjective(s1)
      /\ Range(s1) = Range(k) \cup Range(ring3_4)
  <2>1. Range(k) \cap Range(ring3_4) = {}
    BY <1>1, <1>3 DEF Placed, In34, InKaze, Types, TypeOK
  <2>2. QED
    BY <1>1, <1>3, <2>1, ConcatDistinct
<1> HIDE DEF s1
<1> DEFINE s2 == s1 \o g
<1>6. /\ s2 \in Seq(Frames) /\ IsInjective(s2)
      /\ Range(s2) = Range(s1) \cup Range(g)
  <2>1. Range(s1) \cap Range(g) = {}
    BY <1>1, <1>3, <1>5 DEF Placed, InGodot, In34, InKaze, Types, TypeOK
  <2>2. QED
    BY <1>1, <1>5, <2>1, ConcatDistinct
<1> HIDE DEF s2
<1> DEFINE s3 == s2 \o ring2_3
<1>7. /\ s3 \in Seq(Frames) /\ IsInjective(s3)
      /\ Range(s3) = Range(s2) \cup Range(ring2_3)
  <2>1. Range(s2) \cap Range(ring2_3) = {}
    <3>1. Range(ring2_3) \subseteq Frames
      BY <1>3 DEF Range
    <3>2. Range(s2) = ({kframe} \ {None}) \cup Range(ring3_4)
                        \cup ({gframe} \ {None})
      BY <1>1, <1>5, <1>6
    <3>3. \A f \in Frames : f \in Range(s2) => f \notin Range(ring2_3)
      BY <1>3, <3>2 DEF Placed, In23, InGodot, In34, InKaze
    <3>4. QED
      BY <3>1, <3>3
  <2>2. QED
    BY <1>3, <1>6, <2>1, ConcatDistinct
<1> HIDE DEF s3
<1>8. /\ IsInjective(s3 \o d)
      /\ Range(s3 \o d) = Range(s3) \cup Range(d)
  <2>1. Range(s3) \cap Range(d) = {}
    BY <1>1, <1>2, <1>3, <1>5, <1>6, <1>7
      DEF Placed, InDob, In23, InGodot, In34, InKaze, Types, TypeOK
  <2>2. QED
    BY <1>2, <1>7, <2>1, ConcatDistinct
<1>9. Pipe = s3 \o d
  BY <1>4 DEF s1, s2, s3
<1>10. Range(s3 \o d) = Frames \ pool
  <2>1. Range(ring3_4) \subseteq Frames /\ Range(ring2_3) \subseteq Frames
    BY <1>3 DEF Range
  <2>2. \A f \in Frames : f \in Range(s3 \o d) <=> f \notin pool
    BY <1>1, <1>2, <1>3, <1>5, <1>6, <1>7, <1>8, FramesAssumption
      DEF Placed, InDob, In23, InGodot, In34, InKaze
  <2>3. Range(s3 \o d) \subseteq Frames
    BY <1>1, <1>2, <1>5, <1>6, <1>7, <1>8, <2>1 DEF Types, TypeOK
  <2>4. QED
    BY <2>2, <2>3
<1>11. QED
  BY <1>8, <1>9, <1>10

\* Until the pool runs dry, every frame is in exactly one place, and the
\* variables keep their shape: no interleaving of late packets with the
\* release of their frame loses or doubles one (basicfwd.cpp:572-646, 936-947).
THEOREM EveryFrameOnce == Spec => []FramesSound
<1>1. IInv => FramesSound
  BY PipeFacts DEF IInv, Sound, Types, FramesSound, FrameOwnedOnce
<1>2. QED
  BY <1>1, InvHolds, PTL

\* The index leads to exactly the frames of the pipeline, each under its
\* number (basicfwd.cpp:572, 581, 946).
THEOREM IndexLeadsToFrames == Spec => []IndexConsistent
<1>1. IInv => IndexConsistent
  <2>1. SUFFICES ASSUME IInv, ~exhausted, NEW n \in FrameSeqs, NEW f \in Frames
        PROVE  index[n] = f <=> /\ f \in Range(Pipe) /\ NumberOf(f) = n
                                /\ ~(kpc = "put" /\ f = kframe)
    BY DEF IndexConsistent
  <2>2. Range(Pipe) = Frames \ pool
    BY <2>1, PipeFacts DEF IInv, Sound
  <2>3. index[n] = f <=> NumberOf(f) = n /\ ~Unindexed(f)
    BY <2>1 DEF IInv, Indexed
  <2>4. QED
    BY <2>1, <2>2, <2>3 DEF Unindexed
<1>2. QED
  BY <1>1, InvHolds, PTL
-----------------------------------------------------------------------------
(* The pipeline is first in, first out.  A step that hands a frame on leaves *)
(* the sequence of frames as it is.                                          *)

InDobs == IF dpc \in {"fill", "enqueue"} THEN <<tmp_udpFrame>> ELSE <<>>

LEMMA PipeParts ==
  ASSUME Types, Sound
  PROVE  /\ Hand(kframe) \in Seq(Frames) /\ ring3_4 \in Seq(Frames)
         /\ Hand(gframe) \in Seq(Frames) /\ ring2_3 \in Seq(Frames)
         /\ InDobs \in Seq(Frames)
         /\ Pipe = (((Hand(kframe) \o ring3_4) \o Hand(gframe)) \o ring2_3) \o InDobs
         /\ Pipe \in Seq(Frames)
<1>1. InDobs \in Seq(Frames)
  BY DEF InDobs, Types, TypeOK
<1>2. Hand(kframe) \in Seq(Frames) /\ Hand(gframe) \in Seq(Frames)
  BY HandFacts DEF Types, TypeOK
<1>3. ring3_4 \in Seq(Frames) /\ ring2_3 \in Seq(Frames)
  BY DEF Types, TypeOK, Sound, RingsOnce
<1>4. Pipe = (((Hand(kframe) \o ring3_4) \o Hand(gframe)) \o ring2_3) \o InDobs
  BY DEF Pipe, InDobs
<1>5. Pipe \in Seq(Frames)
  BY <1>1, <1>2, <1>3, <1>4, ConcatProperties
<1>6. QED
  BY <1>1, <1>2, <1>3, <1>4, <1>5

LEMMA PipeKept ==
  ASSUME Types, Sound, Types', Sound',
         Take \/ TakeDuplicate \/ DobStep \/ GodotStep \/ KazeStep,
         ~Get, ~PutFrame
  PROVE  Pipe' = Pipe
<1> DEFINE k == Hand(kframe)
           g == Hand(gframe)
           d == InDobs
<1>0. /\ k \in Seq(Frames) /\ ring3_4 \in Seq(Frames)
      /\ g \in Seq(Frames) /\ ring2_3 \in Seq(Frames)
      /\ d \in Seq(Frames) /\ ring2_3' \in Seq(Frames)
      /\ Pipe = (((k \o ring3_4) \o g) \o ring2_3) \o d
      /\ Pipe' = (((k' \o ring3_4') \o g') \o ring2_3') \o d'
  <2>1. ring2_3' \in Seq(Frames)
    BY DEF Sound, RingsOnce
  <2>2. Pipe' = (((k' \o ring3_4') \o g') \o ring2_3') \o d'
    BY DEF Pipe, InDobs
  <2> HIDE DEF d
  <2>3. QED
    BY <2>1, <2>2, PipeParts DEF d
<1>1. /\ k \o ring3_4 \in Seq(Frames)
      /\ (k \o ring3_4) \o g \in Seq(Frames)
      /\ ((k \o ring3_4) \o g) \o ring2_3 \in Seq(Frames)
  BY <1>0, ConcatProperties
<1> USE DEF wire, frameVars, dobVars, godotVars, kazeVars
<1>2. CASE TakeToSend
  <2>1. /\ k = <<>> /\ k' = <<Head(ring3_4)>> /\ ring3_4 # <<>>
        /\ ring3_4' = Tail(ring3_4) /\ g' = g /\ ring2_3' = ring2_3 /\ d' = d
    <3>1. kframe = None /\ kframe' = Head(ring3_4) /\ Head(ring3_4) \in Frames
      BY <1>0, <1>2 DEF TakeToSend, Types, TypeOK
    <3>2. QED
      BY <1>2, <3>1, FramesAssumption DEF TakeToSend, Hand, InDobs
  <2> HIDE DEF k, g, d
  <2>2. k' \o ring3_4' = ring3_4 /\ k \o ring3_4 = ring3_4
    BY <1>0, <2>1
  <2>3. QED
    BY <1>0, <2>1, <2>2, Zenon
<1>3. CASE Forward
  <2>1. /\ k' = k /\ g = <<gframe>> /\ g' = <<>> /\ gframe \in Frames
        /\ ring3_4' = Append(ring3_4, gframe) /\ ring2_3' = ring2_3 /\ d' = d
    BY <1>3, FramesAssumption DEF Forward, Hand, InDobs, Types, TypeOK
  <2> HIDE DEF k, g, d
  <2>2. k \o Append(ring3_4, gframe) = (k \o ring3_4) \o <<gframe>>
    BY <1>0, <2>1, HandOn
  <2>3. k \o Append(ring3_4, gframe) \in Seq(Frames)
    BY <1>0, <2>1, AppendProperties, ConcatProperties
  <2>4. (k \o Append(ring3_4, gframe)) \o <<>> = k \o Append(ring3_4, gframe)
    BY <2>3, HandOn
  <2>5. (k' \o ring3_4') \o g' = (k \o ring3_4) \o g
    BY <2>1, <2>2, <2>4, Zenon
  <2>6. QED
    BY <1>0, <2>1, <2>5, Zenon
<1>4. CASE TakeOldest
  <2>1. /\ k' = k /\ g = <<>> /\ g' = <<Head(ring2_3)>> /\ ring2_3 # <<>>
        /\ ring3_4' = ring3_4 /\ ring2_3' = Tail(ring2_3) /\ d' = d
    <3>1. gframe = None /\ gframe' = Head(ring2_3) /\ Head(ring2_3) \in Frames
      BY <1>0, <1>4 DEF TakeOldest, Types, TypeOK
    <3>2. QED
      BY <1>4, <3>1, FramesAssumption DEF TakeOldest, Hand, InDobs
  <2> HIDE DEF k, g, d
  <2>2. ((k \o ring3_4) \o <<Head(ring2_3)>>) \o Tail(ring2_3)
          = (k \o ring3_4) \o ring2_3
    BY <1>0, <1>1, <2>1, HandOn, SMTT(30)
  <2>3. (k \o ring3_4) \o <<>> = k \o ring3_4
    BY <1>1, HandOn
  <2>4. QED
    BY <1>0, <2>1, <2>2, <2>3, Zenon
<1>5. CASE EnqueueFrame
  <2>1. /\ k' = k /\ g' = g /\ d = <<tmp_udpFrame>> /\ d' = <<>>
        /\ tmp_udpFrame \in Frames
        /\ ring3_4' = ring3_4 /\ ring2_3' = Append(ring2_3, tmp_udpFrame)
    BY <1>5, InHand DEF EnqueueFrame, InDobs, Hand
  <2> HIDE DEF k, g, d
  <2> DEFINE x == (k \o ring3_4) \o g
  <2>2. x \in Seq(Frames)
    BY <1>1
  <2>3. x' = x
    BY <2>1
  <2> HIDE DEF x
  <2>4. x \o Append(ring2_3, tmp_udpFrame) = (x \o ring2_3) \o <<tmp_udpFrame>>
    BY <1>0, <2>1, <2>2, HandOn
  <2>5. x \o Append(ring2_3, tmp_udpFrame) \in Seq(Frames)
    BY <1>0, <2>1, <2>2, AppendProperties, ConcatProperties
  <2>6. (x \o Append(ring2_3, tmp_udpFrame)) \o <<>>
          = x \o Append(ring2_3, tmp_udpFrame)
    BY <2>5, HandOn
  <2>7. Pipe = (x \o ring2_3) \o d /\ Pipe' = (x' \o ring2_3') \o d'
    BY <1>0 DEF x
  <2>8. QED
    BY <2>1, <2>3, <2>4, <2>6, <2>7, Zenon
<1>6. CASE ~TakeToSend /\ ~Forward /\ ~TakeOldest /\ ~EnqueueFrame
  <2>1. UNCHANGED <<kframe, ring3_4, gframe, ring2_3, InDobs>>
    <3>1. CASE Take \/ TakeDuplicate
      BY <3>1 DEF Take, TakeDuplicate, InDobs
    <3>2. CASE DobStep
      BY <1>6, <3>2 DEF DobStep, Lookup, Fill, LoadForData, LoadForCount, Load,
        CopyIn, AddCount, InDobs
    <3>3. CASE GodotStep
      BY <1>6, <3>3 DEF GodotStep, Complete, TimeOut, ZeroSlot, InDobs
    <3>4. CASE KazeStep
      BY <1>6, <3>4 DEF KazeStep, CopyOut, ResetCount, ResetFlags, Unindex, InDobs
    <3>5. QED
      BY <3>1, <3>2, <3>3, <3>4
  <2>2. k' = k /\ g' = g /\ d' = d
    BY <2>1 DEF Hand
  <2> HIDE DEF k, g, d
  <2>3. QED
    BY <1>0, <2>1, <2>2, Zenon
<1>7. QED
  BY <1>2, <1>3, <1>4, <1>5, <1>6

LEMMA PipeTakesLast ==
  ASSUME Types, Sound, Types', Sound', Get
  PROVE  tmp_udpFrame' \in pool => Pipe' = Append(Pipe, tmp_udpFrame')
<1> SUFFICES ASSUME tmp_udpFrame' \in pool PROVE Pipe' = Append(Pipe, tmp_udpFrame')
  OBVIOUS
<1> DEFINE x == ((Hand(kframe) \o ring3_4) \o Hand(gframe)) \o ring2_3
<1>1. tmp_udpFrame' \in Frames /\ tmp_udpFrame' # None
  BY FramesAssumption DEF Types, TypeOK
<1>2. /\ dpc = "get" /\ dpc' = "fill"
      /\ UNCHANGED <<kframe, ring3_4, gframe, ring2_3>>
  BY <1>1 DEF Get, frameVars, godotVars, kazeVars
<1>3. x \in Seq(Frames) /\ x' = x
  BY <1>2, PipeParts, ConcatProperties DEF Hand
<1>4. Pipe = x \o <<>> /\ Pipe' = x' \o <<tmp_udpFrame'>>
  BY <1>2 DEF Pipe
<1> HIDE DEF x
<1>5. Pipe = x
  BY <1>3, <1>4, HandOn
<1>6. Append(x, tmp_udpFrame') = x \o <<tmp_udpFrame'>>
  BY <1>1, <1>3, AppendIsConcat
<1>7. QED
  BY <1>3, <1>4, <1>5, <1>6, Zenon

LEMMA PipeGivesFirst ==
  ASSUME Types, Sound, kframe # None
  PROVE  Pipe # <<>> /\ Head(Pipe) = kframe
<1> DEFINE t == Four(ring3_4, Hand(gframe), ring2_3, InDobs)
<1>1. Hand(kframe) = <<kframe>> /\ kframe \in Frames
  BY DEF Hand, Types, TypeOK
<1>2. Pipe = Five(Hand(kframe), ring3_4, Hand(gframe), ring2_3, InDobs)
  BY PipeParts DEF Five
<1>3. /\ Hand(kframe) \in Seq(Frames) /\ ring3_4 \in Seq(Frames)
      /\ Hand(gframe) \in Seq(Frames) /\ ring2_3 \in Seq(Frames)
      /\ InDobs \in Seq(Frames)
  BY PipeParts
<1>4. t \in Seq(Frames) /\ Pipe = Hand(kframe) \o t
  <2>1. /\ t \in Seq(Frames)
        /\ Five(Hand(kframe), ring3_4, Hand(gframe), ring2_3, InDobs)
             = Hand(kframe) \o t
    BY <1>3, Regroup
  <2>2. QED
    BY <1>2, <2>1, Zenon
<1> HIDE DEF t
<1>5. Pipe = <<kframe>> \o t
  BY <1>1, <1>4, Zenon
<1>6. QED
  BY <1>1, <1>4, <1>5

LEMMA PipeLosesFirst ==
  ASSUME Types, Sound, Types', Sound', PutFrame
  PROVE  Pipe' = Tail(Pipe)
<1> DEFINE t == Four(ring3_4, Hand(gframe), ring2_3, InDobs)
<1>1. /\ kframe \in Frames /\ kframe # None /\ kframe' = None
      /\ UNCHANGED <<ring3_4, Hand(gframe), ring2_3, InDobs>>
  BY FramesAssumption
    DEF PutFrame, Hand, InDobs, frameVars, dobVars, godotVars, Types, TypeOK
<1>2. Pipe = Five(Hand(kframe), ring3_4, Hand(gframe), ring2_3, InDobs)
  BY PipeParts DEF Five
<1>3. Pipe' = Five(<<>>, ring3_4, Hand(gframe), ring2_3, InDobs)
  BY <1>1 DEF Pipe, Five, InDobs, Hand
<1> DEFINE e == <<>>
<1>4. /\ Hand(kframe) \in Seq(Frames) /\ ring3_4 \in Seq(Frames)
      /\ Hand(gframe) \in Seq(Frames) /\ ring2_3 \in Seq(Frames)
      /\ InDobs \in Seq(Frames) /\ e \in Seq(Frames)
  BY PipeParts
<1>5. Pipe' = Five(e, ring3_4, Hand(gframe), ring2_3, InDobs)
  BY <1>3
<1> HIDE DEF e
<1>6. /\ t \in Seq(Frames)
      /\ Five(Hand(kframe), ring3_4, Hand(gframe), ring2_3, InDobs)
           = Hand(kframe) \o t
  BY <1>4, Regroup
<1>7. Five(e, ring3_4, Hand(gframe), ring2_3, InDobs) = e \o t
  BY <1>4, Regroup
<1> HIDE DEF t
<1>8. Hand(kframe) = <<kframe>>
  BY <1>1 DEF Hand
<1>9. e \o t = t /\ Tail(<<kframe>> \o t) = t
  BY <1>1, <1>6 DEF e
<1>10. QED
  BY <1>2, <1>5, <1>6, <1>7, <1>8, <1>9, Zenon

LEMMA NumbersKept ==
  ASSUME Types, Sound,
         Take \/ TakeDuplicate \/ DobStep \/ GodotStep \/ KazeStep, ~Get
  PROVE  \A f \in Frames : NumberOf(f)' = NumberOf(f)
<1> USE DEF wire, frameVars, dobVars, godotVars, kazeVars
<1>1. CASE Fill
  <2>1. tmp_udpFrame \in Frames /\ index[FrameSeq(pkt)] = tmp_udpFrame
    BY <1>1, InHand DEF Fill
  <2>2. /\ fseq' = [fseq EXCEPT ![tmp_udpFrame] = FrameSeq(pkt)]
        /\ dpc = "fill" /\ dpc' = "enqueue"
        /\ pkt' = pkt /\ tmp_udpFrame' = tmp_udpFrame
    BY <1>1, <2>1, FramesAssumption DEF Fill
  <2>3. QED
    BY <2>1, <2>2 DEF NumberOf, Types, TypeOK
<1>2. CASE ~Fill
  <2>1. /\ fseq' = fseq
        /\ \/ dpc' # "fill"
           \/ dpc' = dpc /\ pkt' = pkt /\ tmp_udpFrame' = tmp_udpFrame
        /\ dpc = "fill" => dpc' = dpc /\ pkt' = pkt /\ tmp_udpFrame' = tmp_udpFrame
    <3>1. CASE Take \/ TakeDuplicate
      BY <3>1 DEF Take, TakeDuplicate
    <3>2. CASE DobStep
      BY <1>2, <3>2 DEF DobStep, Lookup, EnqueueFrame, LoadForData, LoadForCount,
        Load, CopyIn, AddCount
    <3>3. CASE GodotStep
      BY <3>3 DEF GodotStep, TakeOldest, Complete, TimeOut, ZeroSlot, Forward
    <3>4. CASE KazeStep
      BY <3>4 DEF KazeStep, TakeToSend, CopyOut, ResetCount, ResetFlags, Unindex,
        PutFrame
    <3>5. QED
      BY <3>1, <3>2, <3>3, <3>4
  <2>2. QED
    BY <2>1 DEF NumberOf
<1>3. QED
  BY <1>1, <1>2

inflight == [i \in 1..Len(Numbered) |-> NumberOf(Numbered[i])]

LEMMA NumberedFacts ==
  ASSUME Types, Sound
  PROVE  /\ Numbered \in Seq(Frames)
         /\ Len(inflight) = Len(Numbered) /\ Len(Numbered) \in Nat
         /\ \A i \in 1..Len(Numbered) :
              /\ Numbered[i] \in Frames /\ Numbered[i] \notin pool
              /\ ~Unindexed(Numbered[i])
         /\ kpc = "put" => Pipe # <<>>
<1>1. /\ Pipe \in Seq(Frames) /\ IsInjective(Pipe) /\ Range(Pipe) = Frames \ pool
  BY PipeParts, PipeFacts
<1>2. CASE kpc = "put"
  <2>1. kframe # None
    BY <1>2 DEF Types, TypeOK
  <2>2. Pipe # <<>> /\ Head(Pipe) = kframe
    BY <2>1, PipeGivesFirst
  <2>3. Numbered = Tail(Pipe)
    BY <1>2 DEF Numbered
  <2>4. Range(Numbered) = (Frames \ pool) \ {kframe} /\ Numbered \in Seq(Frames)
    BY <1>1, <2>2, <2>3, TailDistinct
  <2>5. \A i \in 1..Len(Numbered) : Numbered[i] \in Range(Numbered)
    BY <2>4 DEF Range
  <2>6. QED
    BY <2>2, <2>4, <2>5 DEF Unindexed, inflight
<1>3. CASE kpc # "put"
  <2>1. Numbered = Pipe
    BY <1>3 DEF Numbered
  <2>2. \A i \in 1..Len(Numbered) : Numbered[i] \in Range(Numbered)
    BY <1>1, <2>1 DEF Range
  <2>3. QED
    BY <1>1, <1>3, <2>1, <2>2 DEF Unindexed, inflight
<1>4. QED
  BY <1>2, <1>3

\* Steps other than the get of a frame and the release of its entry show as no
\* step of the pipe.
LEMMA FlightKept ==
  ASSUME Types, Sound, Types', Sound',
         Take \/ TakeDuplicate \/ DobStep \/ GodotStep \/ KazeStep,
         ~Get, ~Unindex
  PROVE  inflight' = inflight
<1>1. Numbered' = Numbered
  <2>1. CASE PutFrame
    <3>1. Pipe' = Tail(Pipe) /\ kpc = "put" /\ kpc' = "take"
      BY <2>1, PipeLosesFirst DEF PutFrame
    <3>2. QED
      BY <3>1 DEF Numbered
  <2>2. CASE ~PutFrame
    <3>1. Pipe' = Pipe
      BY <2>2, PipeKept
    <3>2. kpc' = "put" <=> kpc = "put"
      BY <2>2 DEF Take, TakeDuplicate, DobStep, Lookup, Fill, EnqueueFrame,
        LoadForData, LoadForCount, Load, CopyIn, AddCount, GodotStep, TakeOldest,
        Complete, TimeOut, ZeroSlot, Forward, KazeStep, TakeToSend, CopyOut,
        ResetCount, ResetFlags, kazeVars
    <3>3. QED
      BY <3>1, <3>2 DEF Numbered
  <2>3. QED
    BY <2>1, <2>2
<1>2. \A i \in 1..Len(Numbered) : NumberOf(Numbered[i])' = NumberOf(Numbered[i])
  <2>1. \A i \in 1..Len(Numbered) : Numbered[i] \in Frames
    BY NumberedFacts
  <2>2. QED
    BY <1>1, <2>1, NumbersKept DEF NumberOf
<1>3. QED
  BY <1>1, <1>2 DEF inflight

LEMMA NumberedGrows ==
  ASSUME Types, Sound, Types', Sound', Get, tmp_udpFrame' \in pool
  PROVE  Numbered' = Append(Numbered, tmp_udpFrame')
<1>1. Pipe' = Append(Pipe, tmp_udpFrame') /\ kpc' = kpc
  BY PipeTakesLast DEF Get, kazeVars
<1>2. CASE kpc = "put"
  <2>1. Pipe \in Seq(Frames) /\ Pipe # <<>> /\ tmp_udpFrame' \in Frames
    BY <1>2, PipeParts, NumberedFacts DEF Types, TypeOK
  <2>2. Tail(Append(Pipe, tmp_udpFrame')) = Append(Tail(Pipe), tmp_udpFrame')
    BY <2>1
  <2>3. QED
    BY <1>1, <1>2, <2>2 DEF Numbered
<1>3. CASE kpc # "put"
  BY <1>1, <1>3 DEF Numbered
<1>4. QED
  BY <1>2, <1>3

\* The get of a frame enters its number, which no frame of the pipeline has.
LEMMA GetOpens ==
  ASSUME Types, Sound, Types', Sound', Get, ~exhausted, ~exhausted'
  PROVE  /\ FrameSeq(pkt) \in FrameSeqs
         /\ FrameSeq(pkt) \notin Range(inflight)
         /\ inflight' = Append(inflight, FrameSeq(pkt))
<1> DEFINE n == FrameSeq(pkt)
<1>1. n \in FrameSeqs
  BY Numbers DEF Types, TypeOK
<1>2. n \notin Range(inflight)
  <2>1. index[n] = None
    BY DEF Sound, Indexed, Get
  <2>2. SUFFICES ASSUME NEW i \in 1..Len(Numbered), NumberOf(Numbered[i]) = n
                 PROVE  FALSE
    BY DEF Range, inflight
  <2>3. Numbered[i] \in Frames /\ ~Unindexed(Numbered[i])
    BY NumberedFacts
  <2>4. index[n] = Numbered[i]
    BY <1>1, <2>2, <2>3 DEF Sound, Indexed
  <2>5. QED
    BY <2>1, <2>3, <2>4, FramesAssumption
<1>3. /\ tmp_udpFrame' \in pool /\ tmp_udpFrame' \in Frames
      /\ dpc = "get" /\ dpc' = "fill" /\ fseq' = fseq /\ pkt' = pkt
  <2>1. tmp_udpFrame' \in pool /\ tmp_udpFrame' \in Frames
    BY DEF Get, Types, TypeOK
  <2>2. QED
    BY <2>1, FramesAssumption DEF Get, frameVars
<1>4. Numbered' = Append(Numbered, tmp_udpFrame')
  BY <1>3, NumberedGrows
<1>5. \A i \in 1..Len(Numbered) : NumberOf(Numbered[i])' = NumberOf(Numbered[i])
  <2>1. SUFFICES ASSUME NEW i \in 1..Len(Numbered)
                 PROVE  NumberOf(Numbered[i])' = NumberOf(Numbered[i])
    OBVIOUS
  <2>2. Numbered[i] \in Frames /\ Numbered[i] \notin pool
    BY NumberedFacts
  <2>3. Numbered'[i] = Numbered[i]
    BY <1>3, <1>4, NumberedFacts
  <2>4. QED
    BY <1>3, <2>2, <2>3 DEF NumberOf
<1>6. /\ Len(Numbered') = Len(Numbered) + 1 /\ Len(Numbered) \in Nat
      /\ \A i \in 1..Len(Numbered) : Numbered'[i] = Numbered[i]
      /\ Numbered'[Len(Numbered) + 1] = tmp_udpFrame'
  BY <1>3, <1>4, NumberedFacts
<1>7. inflight' = [i \in 1..(Len(Numbered) + 1) |->
                     IF i = Len(Numbered) + 1 THEN n ELSE NumberOf(Numbered[i])]
  <2>1. inflight' = [i \in 1..Len(Numbered') |-> NumberOf(Numbered[i])']
    BY DEF inflight
  <2>2. \A i \in 1..Len(Numbered') : NumberOf(Numbered[i])'
           = IF i = Len(Numbered) + 1 THEN n ELSE NumberOf(Numbered[i])
    <3>1. SUFFICES ASSUME NEW i \in 1..Len(Numbered')
                   PROVE  NumberOf(Numbered[i])' =
                     IF i = Len(Numbered) + 1 THEN n ELSE NumberOf(Numbered[i])
      OBVIOUS
    <3>2. CASE i = Len(Numbered) + 1
      <4>1. Numbered'[i] = tmp_udpFrame'
        BY <1>6, <3>2
      <4>2. QED
        BY <1>3, <3>2, <4>1 DEF NumberOf, FrameSeq
    <3>3. CASE i # Len(Numbered) + 1
      <4>1. i \in 1..Len(Numbered)
        BY <1>6, <3>3
      <4>2. QED
        BY <1>5, <3>3, <4>1
    <3>4. QED
      BY <3>2, <3>3
  <2>3. QED
    BY <1>6, <2>1, <2>2
<1> HIDE DEF n
<1>8. inflight' = Append(inflight, n)
  BY <1>6, <1>7 DEF inflight
<1>9. QED
  BY <1>1, <1>2, <1>8 DEF n

\* The release of its entry takes the oldest number out.
LEMMA UnindexSends ==
  ASSUME Types, Sound, Types', Sound', Unindex
  PROVE  inflight # <<>> /\ inflight' = Tail(inflight)
<1>1. kpc = "unindex" /\ kpc' = "put" /\ kframe # None
  BY DEF Unindex, Types, TypeOK
<1>2. Pipe' = Pipe
  <2>1. ~Get /\ ~PutFrame
    BY <1>1 DEF Unindex, Get, PutFrame, dobVars, wire, kazeVars
  <2>2. QED
    BY <2>1, PipeKept DEF KazeStep
<1>3. /\ Numbered = Pipe /\ Numbered' = Tail(Pipe)
      /\ Pipe # <<>> /\ Pipe \in Seq(Frames)
  BY <1>1, <1>2, PipeGivesFirst, PipeParts DEF Numbered
<1>4. \A f \in Frames : NumberOf(f)' = NumberOf(f)
  BY DEF Unindex, NumberOf, frameVars, dobVars
<1>5. /\ Len(Numbered') = Len(Numbered) - 1 /\ Len(Numbered) \in Nat \ {0}
      /\ \A i \in 1..Len(Numbered') :
           i + 1 \in 1..Len(Numbered) /\ Numbered'[i] = Numbered[i + 1]
           /\ Numbered[i + 1] \in Frames
  BY <1>3
<1>6. \A i \in 1..Len(Numbered') :
        NumberOf(Numbered[i])' = NumberOf(Numbered[i + 1])
  BY <1>4, <1>5 DEF NumberOf
<1>7. inflight' = [i \in 1..(Len(Numbered) - 1) |-> NumberOf(Numbered[i + 1])]
  BY <1>5, <1>6 DEF inflight
<1>8. inflight # <<>> /\ inflight' = Tail(inflight)
  BY <1>5, <1>7 DEF inflight
<1>9. QED
  BY <1>8

\* Frames leave the pipeline in the order in which they entered it, under
\* distinct numbers, until the pool runs dry (basicfwd.cpp:572-646, 742-796,
\* 902-947).
THEOREM ImplementsFramePipe == Spec => PipeSpec
<1>1. Init => FIFO!Init
  <2>1. SUFFICES ASSUME Init PROVE FIFO!Init
    OBVIOUS
  <2>2. Pipe = <<>> /\ kpc # "put"
    BY <2>1 DEF Init, Pipe, Hand
  <2>3. QED
    BY <2>1, <2>2 DEF FIFO!Init, Init, Numbered
<1>2. IInv /\ IInv' /\ [Next]_vars => [exhausted \/ FIFO!Next]_FIFO!vars
  <2>1. SUFFICES ASSUME IInv, IInv', [Next]_vars, ~exhausted
                 PROVE  FIFO!Next \/ UNCHANGED <<inflight, exhausted>>
    BY DEF FIFO!vars, inflight
  <2>2. CASE exhausted'
    BY <2>1, <2>2 DEF FIFO!Next, FIFO!Break
  <2>3. CASE UNCHANGED vars
    BY <2>3 DEF vars, inflight, Numbered, Pipe, NumberOf, Hand, kazeVars,
      frameVars, dobVars, godotVars
  <2>4. CASE ~exhausted' /\ Next
    <3>1. Types /\ Sound /\ Types' /\ Sound'
      BY <2>1, <2>4 DEF IInv, Sound
    <3>0. exhausted' = exhausted
      BY <2>1, <2>4, <3>1 DEF Types, TypeOK
    <3>2. CASE Get
      <4>1. FIFO!Open(FrameSeq(pkt))
        BY <2>1, <2>4, <3>0, <3>1, <3>2, GetOpens
          DEF FIFO!Open, FIFO!Range, Range, inflight
      <4>2. QED
        BY <2>1, <3>1, <3>2, <2>4, <4>1, GetOpens DEF FIFO!Next
    <3>3. CASE Unindex
      <4>1. FIFO!Send
        BY <3>0, <3>1, <3>3, UnindexSends DEF FIFO!Send, inflight
      <4>2. QED
        BY <2>1, <4>1 DEF FIFO!Next
    <3>4. CASE ~Get /\ ~Unindex
      BY <2>4, <3>0, <3>1, <3>4, FlightKept DEF Next
    <3>5. QED
      BY <3>2, <3>3, <3>4
  <2>5. QED
    BY <2>1, <2>2, <2>3, <2>4
<1>3. QED
  BY <1>1, <1>2, InvHolds, PTL DEF Spec, PipeSpec, FIFO!Spec
-----------------------------------------------------------------------------
(* Whole frames.  *)

\* The sender's frame that the packet in DOB's hands belongs to.
Now == pkt \div PackNum

\* GODOT has let the frame go.
Done(f) == f \in pool \/ In34(f) \/ InKaze(f) \/ (InGodot(f) /\ gpc = "forward")

\* The packet in DOB's hands has not been copied.
Fresh == dpc \in {"lookup", "get", "fill", "loadData", "copy"}

\* G says which frame of the sender each frame was last taken for, and W has
\* frames of the sender that were lost whole.  The slots that hold their packet:
Got(G, f) == {s \in Slots : data[f][s] = G[f] * PackNum + s}

Reset(f) == f = kframe /\ kpc \in {"flags", "unindex", "put"}

OnWire ==
  /\ dpc # "take" => next = pkt + 1
  /\ next = 0 \/ next = pkt + 1
  /\ next = 0 => pool = Frames /\ pkt = 0
  /\ lost <= MaxLost
  /\ gpc # "zero"

Numbering(G) ==
  /\ G \in [Frames -> Int]
  /\ \A f \in Frames : -1 <= G[f] /\ G[f] <= Now
  /\ \A f \in Frames \ pool : 0 <= G[f] /\ NumberOf(f) = G[f] % NumFrameSeq

\* No data is newer than the frame it is in.
Stale(G) ==
  \A f \in Frames, s \in Slots : data[f][s] # None =>
    /\ data[f][s] < next /\ data[f][s] < (G[f] + 1) * PackNum
    /\ Fresh => data[f][s] # pkt

Finished(G) ==
  \A f \in Frames : Done(f) =>
    /\ (G[f] + 1) * PackNum <= next
    /\ dpc # "take" => G[f] < Now
    /\ f \notin pool => Got(G, f) = Slots

Counted(G) ==
  \A f \in Frames \ pool : ~Reset(f) =>
    Cardinality(Got(G, f)) =
      count[f] + (IF dpc \in {"loadCount", "add"} /\ G[f] = Now THEN 1 ELSE 0)

Clean ==
  /\ \A f \in pool : count[f] = 0 /\ \A s \in Slots : ~flags[f][s]
  /\ kpc \in {"flags", "unindex", "put"} => count[kframe] = 0
  /\ kpc \in {"unindex", "put"} => \A s \in Slots : ~flags[kframe][s]

AtHand(G) ==
  /\ dpc \in {"fill", "enqueue"} => G[tmp_udpFrame] = Now
  /\ dpc \in {"copy", "add"} => G[p] = Now
  /\ dpc = "get" => \A f \in Frames : G[f] < Now
  /\ dpc \notin {"lookup", "get"} /\ next # 0 => \E f \in Frames : G[f] = Now

InOrder(G) ==
  /\ \A i, j \in 1..Len(Pipe) : i < j => G[Pipe[i]] < G[Pipe[j]]
  /\ \A h \in pool, f \in Frames \ pool : G[h] < G[f]

\* Between the frame of the pipeline and DOB's none is missing that was not
\* lost whole.
Covered(G, W) ==
  /\ IsFiniteSet(W) /\ Cardinality(W) * PackNum <= lost
  /\ \A f \in Frames \ pool : \A g \in G[f]..(Now - 1) :
       g \in W \/ \E h \in Frames : G[h] = g

Gens(G, W) == /\ OnWire /\ Numbering(G) /\ Stale(G) /\ Finished(G) /\ Counted(G)
              /\ Clean /\ AtHand(G) /\ InOrder(G) /\ Covered(G, W)

\* There are more frame numbers than frames in use and frames lost whole.
EnoughNumbers == Cardinality(Frames) + (MaxLost \div PackNum) < NumFrameSeq

LEMMA NowFacts ==
  ASSUME Types
  PROVE  /\ Now \in Nat /\ pkt \in Nat /\ next \in Nat /\ lost \in Nat
         /\ Now * PackNum \in Int /\ Now * PackNum <= pkt
         /\ pkt < Now * PackNum + PackNum
         /\ PacketSeq(pkt) \in Slots /\ pkt = Now * PackNum + PacketSeq(pkt)
         /\ FrameSeq(pkt) = Now % NumFrameSeq /\ FrameSeq(pkt) \in FrameSeqs
<1>1. pkt \in Nat /\ next \in Nat /\ lost \in Nat
  BY DEF Types, TypeOK
<1>2. PackNum \in Nat \ {0} /\ pkt \in Int
  BY <1>1, SizesAssumption
<1>3. /\ pkt \div PackNum \in Int
      /\ (pkt \div PackNum) * PackNum \in Int
      /\ pkt = (pkt \div PackNum) * PackNum + (pkt % PackNum)
      /\ (pkt \div PackNum) * PackNum <= pkt
      /\ pkt < (pkt \div PackNum) * PackNum + PackNum
  BY <1>2, Division
<1>4. pkt \div PackNum \in Nat
  BY <1>1, <1>2
<1>5. PacketSeq(pkt) \in Slots /\ FrameSeq(pkt) \in FrameSeqs
  BY <1>1, Numbers
<1>6. QED
  BY <1>1, <1>3, <1>4, <1>5 DEF Now, PacketSeq, FrameSeq

LEMMA GenFacts ==
  ASSUME NEW G, Numbering(G), NEW f \in Frames
  PROVE  G[f] \in Int
  BY DEF Numbering

LEMMA SlotCount == IsFiniteSet(Slots) /\ Cardinality(Slots) = PackNum
<1>1. 0 \in Int /\ PackNum - 1 \in Int /\ ~(0 > PackNum - 1) /\ (PackNum - 1) - 0 + 1 = PackNum
  BY SizesAssumption
<1>2. QED
  BY <1>1, FS_Interval DEF Slots

LEMMA GotCount ==
  ASSUME NEW G, NEW f
  PROVE  /\ Got(G, f) \subseteq Slots /\ IsFiniteSet(Got(G, f))
         /\ Cardinality(Got(G, f)) \in Nat /\ Cardinality(Got(G, f)) <= PackNum
         /\ Cardinality(Got(G, f)) = PackNum => Got(G, f) = Slots
<1>1. Got(G, f) \in SUBSET Slots
  BY DEF Got
<1>2. QED
  BY <1>1, SlotCount, FS_Subset, FS_CardinalityType

\* No two frames of the pipeline are for the same frame of the sender.
LEMMA OneEach ==
  ASSUME Types, Sound, NEW G, Numbering(G), InOrder(G),
         NEW f \in Frames \ pool, NEW h \in Frames \ pool, G[f] = G[h]
  PROVE  f = h
<1>1. Range(Pipe) = Frames \ pool /\ Pipe \in Seq(Frames)
  BY PipeFacts, PipeParts
<1>2. PICK l \in Nat : l = Len(Pipe) /\ DOMAIN Pipe = 1..l
  BY <1>1
<1>3. PICK i \in 1..l, j \in 1..l : Pipe[i] = f /\ Pipe[j] = h
  BY <1>1, <1>2 DEF Range
<1>4. ASSUME i < j PROVE FALSE
  <2>1. G[Pipe[i]] < G[Pipe[j]]
    BY <1>2, <1>4 DEF InOrder
  <2>2. G[f] \in Int
    BY DEF Numbering
  <2>3. QED
    BY <1>3, <2>1, <2>2
<1>5. ASSUME j < i PROVE FALSE
  <2>1. G[Pipe[j]] < G[Pipe[i]]
    BY <1>2, <1>5 DEF InOrder
  <2>2. G[f] \in Int
    BY DEF Numbering
  <2>3. QED
    BY <1>3, <2>1, <2>2
<1>6. i = j
  BY <1>4, <1>5
<1>7. QED
  BY <1>3, <1>6

\* A frame of the pipeline whose number is that of the packet in hand is for
\* the packet's frame, and for none NumFrameSeq before.
LEMMA Window ==
  ASSUME EnoughNumbers, Types, NEW G, NEW W, Gens(G, W), NEW f \in Frames \ pool,
         G[f] % NumFrameSeq = Now % NumFrameSeq
  PROVE  G[f] = Now
<1>1. PICK a \in Int, c \in Int : a = G[f] /\ c = Now /\ a <= c
  BY NowFacts DEF Gens, Numbering
<1> DEFINE S == a..(c - 1)
           T == {G[h] : h \in Frames}
<1>2. IsFiniteSet(S) /\ Cardinality(S) = c - a
  <2>1. c - 1 \in Int
    OBVIOUS
  <2>2. /\ IsFiniteSet(S)
        /\ Cardinality(S) = IF a > c - 1 THEN 0 ELSE (c - 1) - a + 1
    BY <2>1, FS_Interval
  <2>3. QED
    BY <1>1, <2>2
<1>3. IsFiniteSet(T) /\ Cardinality(T) <= Cardinality(Frames) /\ Cardinality(T) \in Nat
  <2>1. G \in Surjection(Frames, T)
    <3>1. G \in [Frames -> T]
      BY DEF Gens, Numbering
    <3>2. \A t \in T : \E h \in Frames : G[h] = t
      OBVIOUS
    <3>3. QED
      BY <3>1, <3>2 DEF Surjection
  <2>2. QED
    BY <2>1, FramesAssumption, FS_Surjection, FS_CardinalityType
<1>4. IsFiniteSet(W) /\ Cardinality(W) \in Nat /\ Cardinality(W) * PackNum <= lost
      /\ lost <= MaxLost
  BY FS_CardinalityType DEF Gens, Covered, OnWire
<1>5. S \subseteq T \cup W
  BY <1>1 DEF Gens, Covered
<1>6. Cardinality(W) <= MaxLost \div PackNum
  <2>1. PICK w \in Nat : w = Cardinality(W)
    BY <1>4
  <2>2. w * PackNum <= MaxLost
    BY <1>4, <2>1, NowFacts, SizesAssumption
  <2>3. PICK q \in Int : q = MaxLost \div PackNum /\ MaxLost < q * PackNum + PackNum
    <3>1. PackNum \in Nat \ {0} /\ MaxLost \in Int
      BY SizesAssumption
    <3>2. QED
      BY <3>1, Division
  <2>4. ASSUME q < w PROVE FALSE
    <3>1. q * PackNum + PackNum <= w * PackNum
      BY <2>1, <2>4, Times, SizesAssumption
    <3>2. q * PackNum \in Int /\ w * PackNum \in Int
      BY SizesAssumption
    <3>3. QED
      BY <2>2, <2>3, <3>1, <3>2, SizesAssumption
  <2>5. QED
    BY <2>1, <2>3, <2>4
<1>7. Cardinality(S) <= Cardinality(T) + Cardinality(W)
  <2>1. /\ IsFiniteSet(T \cup W)
        /\ Cardinality(T \cup W) = Cardinality(T) + Cardinality(W) - Cardinality(T \cap W)
    BY <1>3, <1>4, FS_Union
  <2>2. Cardinality(T \cap W) \in Nat
    <3>1. IsFiniteSet(T \cap W)
      BY <1>3, FS_Subset
    <3>2. QED
      BY <3>1, FS_CardinalityType
  <2>3. Cardinality(S) <= Cardinality(T \cup W)
    BY <1>5, <2>1, FS_Subset
  <2>4. QED
    BY <1>2, <1>3, <1>4, <2>1, <2>2, <2>3
<1> HIDE DEF S, T
<1>8. c - a < NumFrameSeq
  <2>1. PICK q \in Int : q = MaxLost \div PackNum
    BY SizesAssumption
  <2>2. PICK n \in Nat : n = Cardinality(Frames)
    BY FramesAssumption, FS_CardinalityType
  <2>3. n + q < NumFrameSeq
    BY <2>1, <2>2 DEF EnoughNumbers
  <2>4. QED
    BY <1>2, <1>3, <1>4, <1>6, <1>7, <2>1, <2>2, <2>3, SizesAssumption
<1>9. a = c
  <2>1. ASSUME a < c PROVE FALSE
    <3>1. c < a + NumFrameSeq
      BY <1>8, SizesAssumption
    <3>2. a % NumFrameSeq # c % NumFrameSeq
      BY <2>1, <3>1, ModApart, SizesAssumption
    <3>3. QED
      BY <1>1, <3>2
  <2>2. QED
    BY <1>1, <2>1
<1>10. QED
  BY <1>1, <1>9

\* The frame the packet in hand is for: still in the pipeline and the index.
LEMMA Current ==
  ASSUME Types, Sound, NEW G, NEW W, Gens(G, W), dpc # "take",
         NEW f \in Frames, G[f] = Now
  PROVE  f \notin pool /\ ~Done(f) /\ index[FrameSeq(pkt)] = f
<1>1. ~Done(f)
  <2>1. G[f] \in Int
    BY DEF Gens, Numbering
  <2>2. QED
    BY <2>1 DEF Gens, Finished
<1>2. f \notin pool /\ ~Unindexed(f)
  BY <1>1 DEF Done, Unindexed, InKaze
<1>3. NumberOf(f) = FrameSeq(pkt) /\ FrameSeq(pkt) \in FrameSeqs
  BY <1>2, NowFacts DEF Gens, Numbering
<1>4. index[FrameSeq(pkt)] = f
  BY <1>2, <1>3 DEF Sound, Indexed
<1>5. QED
  BY <1>1, <1>2, <1>4

\* A frame the index leads to is for the packet in hand.
LEMMA Found ==
  ASSUME EnoughNumbers, Types, Sound, NEW G, NEW W, Gens(G, W),
         NEW f \in Frames, index[FrameSeq(pkt)] = f
  PROVE  f \notin pool /\ G[f] = Now
<1>1. NumberOf(f) = FrameSeq(pkt) /\ ~Unindexed(f) /\ FrameSeq(pkt) = Now % NumFrameSeq
  BY NowFacts DEF Sound, Indexed
<1>2. f \in Frames \ pool
  BY <1>1 DEF Unindexed
<1>3. G[f] % NumFrameSeq = Now % NumFrameSeq
  BY <1>1, <1>2 DEF Gens, Numbering
<1>4. QED
  BY <1>2, <1>3, Window

\* What most steps leave alone.
LEMMA Carried ==
  ASSUME NEW G, NEW W, Gens(G, W), UNCHANGED <<next, lost, pkt, pool, data, Pipe>>,
         gpc' # "zero", dpc' = "take" \/ dpc # "take", Fresh' => Fresh,
         \A f \in Frames : NumberOf(f)' = NumberOf(f) /\ (Done(f)' => Done(f))
  PROVE  /\ OnWire' /\ Numbering(G)' /\ Stale(G)' /\ Finished(G)'
         /\ InOrder(G)' /\ Covered(G, W)'
<1>1. Now' = Now /\ \A f : Got(G, f)' = Got(G, f)
  BY DEF Now, Got
<1>2. OnWire'
  BY DEF Gens, OnWire
<1>3. Numbering(G)'
  BY <1>1 DEF Gens, Numbering
<1>4. Stale(G)'
  BY DEF Gens, Stale
<1>5. Finished(G)'
  BY <1>1 DEF Gens, Finished
<1>6. InOrder(G)'
  BY DEF Gens, InOrder
<1>7. Covered(G, W)'
  BY <1>1 DEF Gens, Covered
<1>8. QED
  BY <1>2, <1>3, <1>4, <1>5, <1>6, <1>7

LEMMA KeptCounted ==
  ASSUME NEW G, Counted(G), UNCHANGED <<pkt, data>>, pool \subseteq pool',
         dpc' \in {"loadCount", "add"} <=> dpc \in {"loadCount", "add"},
         \A f \in Frames \ pool' : ~Reset(f)' => ~Reset(f) /\ count'[f] = count[f]
  PROVE  Counted(G)'
<1>1. Now' = Now /\ \A f : Got(G, f)' = Got(G, f)
  BY DEF Now, Got
<1>2. QED
  BY <1>1 DEF Counted

LEMMA KeptClean ==
  ASSUME Clean, UNCHANGED <<pool, count, flags>>,
         kpc' \in {"flags", "unindex", "put"} =>
           kframe' = kframe /\ (kpc' = kpc \/ (kpc' = "put" /\ kpc = "unindex"))
  PROVE  Clean'
  BY DEF Clean

LEMMA KeptAtHand ==
  ASSUME NEW G, AtHand(G), UNCHANGED <<next, pkt, dpc, tmp_udpFrame, p>>
  PROVE  AtHand(G)'
<1>1. Now' = Now
  BY DEF Now
<1>2. QED
  BY <1>1 DEF AtHand
-----------------------------------------------------------------------------
\* DOB takes the next packet: it is newer than all data, and the frames of the
\* sender between the one before and its own have been lost whole.
LEMMA TakeNumbers ==
  ASSUME Types, Types', OnWire, Take
  PROVE  \E n, c, d \in Nat :
           /\ pkt' = next + n /\ next' = pkt' + 1 /\ lost' = lost + n /\ lost' <= MaxLost
           /\ c = Now /\ d = Now' /\ c <= d
           /\ next # 0 => d * PackNum <= c * PackNum + PackNum + n
<1>1. PICK n \in 0..(MaxLost - lost) :
        pkt' = next + n /\ next' = next + n + 1 /\ lost' = lost + n
  BY DEF Take
<1>2. /\ n \in Nat /\ lost \in Nat /\ next \in Nat /\ pkt \in Nat /\ pkt' \in Nat
      /\ PackNum \in Nat \ {0} /\ MaxLost \in Nat
  <2>1. MaxLost \in Nat /\ PackNum \in Nat \ {0}
    BY SizesAssumption
  <2>2. lost \in Nat /\ next \in Nat /\ pkt \in Nat /\ pkt' \in Nat
    BY DEF Types, TypeOK
  <2>3. QED
    BY <1>1, <2>1, <2>2
<1>3. next' = pkt' + 1 /\ lost' <= MaxLost
  BY <1>1, <1>2
<1>4. (next = 0 /\ pkt = 0) \/ next = pkt + 1
  BY DEF OnWire
<1>5. pkt <= pkt'
  BY <1>1, <1>2, <1>4
<1>6. PICK c \in Nat : /\ c = Now /\ c * PackNum <= pkt
                       /\ pkt < c * PackNum + PackNum /\ c * PackNum \in Int
  BY NowFacts
<1>7. PICK d \in Nat : /\ d = Now' /\ d * PackNum <= pkt'
                       /\ pkt' < d * PackNum + PackNum /\ d * PackNum \in Int
  <2>1. Now' = pkt' \div PackNum
    BY DEF Now
  <2>2. PICK k \in Nat : k = pkt'
    BY <1>2
  <2>3. k \in Int /\ k \div PackNum \in Nat
    BY <1>2
  <2>4. PICK d \in Nat : d = k \div PackNum
    BY <2>3
  <2>5. d * PackNum <= k /\ k < d * PackNum + PackNum /\ d * PackNum \in Int
    BY <1>2, <2>3, <2>4, Division
  <2>6. QED
    BY <2>1, <2>2, <2>4, <2>5
<1>8. c <= d
  <2>1. SUFFICES ASSUME d < c PROVE FALSE
    OBVIOUS
  <2>2. d * PackNum + PackNum <= c * PackNum
    BY <1>2, <2>1, Times
  <2>3. PICK x \in Int, y \in Int : x = c * PackNum /\ y = d * PackNum
    BY <1>6, <1>7
  <2>4. y + PackNum <= x /\ x <= pkt /\ pkt' < y + PackNum
    BY <1>6, <1>7, <2>2, <2>3
  <2>5. QED
    BY <1>2, <1>5, <2>3, <2>4
<1>9. next # 0 => d * PackNum <= c * PackNum + PackNum + n
  <2>1. PICK x \in Int, y \in Int : x = c * PackNum /\ y = d * PackNum
    BY <1>6, <1>7
  <2>2. y <= pkt' /\ pkt < x + PackNum
    BY <1>6, <1>7, <2>1
  <2>3. next # 0 => y <= x + PackNum + n
    BY <1>1, <1>2, <1>4, <2>1, <2>2
  <2>4. QED
    BY <2>1, <2>3
<1>10. QED
  BY <1>1, <1>2, <1>3, <1>6, <1>7, <1>8, <1>9

\* The frames of the sender that are missing now.
LEMMA TakeCovers ==
  ASSUME Types, Types', NEW G, NEW W, Gens(G, W), Take
  PROVE  \E V : Covered(G, V)'
<1>1. PICK n \in Nat, c \in Nat, d \in Nat :
        /\ lost' = lost + n /\ c = Now /\ d = Now' /\ c <= d
        /\ next # 0 => d * PackNum <= c * PackNum + PackNum + n
  BY TakeNumbers DEF Gens
<1>2. pool' = pool /\ dpc = "take" /\ lost \in Nat
  BY DEF Take, Types, TypeOK
<1>3. IsFiniteSet(W) /\ Cardinality(W) * PackNum <= lost
  BY DEF Gens, Covered
<1>4. PICK w \in Nat : w = Cardinality(W)
  BY <1>3, FS_CardinalityType
<1>5. PackNum \in Nat \ {0} /\ w * PackNum \in Int
  BY SizesAssumption
<1>6. CASE next = 0
  <2>1. pool = Frames
    BY <1>6 DEF Gens, OnWire
  <2>2. w * PackNum <= lost'
    BY <1>1, <1>2, <1>3, <1>4, <1>5
  <2>3. Covered(G, W)'
    BY <1>2, <1>3, <1>4, <2>1, <2>2 DEF Covered
  <2>4. QED
    BY <2>3
<1>7. CASE next # 0 /\ c = d
  <2>1. w * PackNum <= lost'
    BY <1>1, <1>2, <1>3, <1>4, <1>5
  <2>2. Now' = Now
    BY <1>1, <1>7
  <2>3. Covered(G, W)'
    BY <1>2, <1>3, <1>4, <2>1, <2>2 DEF Gens, Covered
  <2>4. QED
    BY <2>3
<1>8. CASE next # 0 /\ c < d
  <2> DEFINE S == (c + 1)..(d - 1)
             V == W \cup S
  <2>1. PICK m \in Nat : m = d - c - 1
    BY <1>8
  <2>2. IsFiniteSet(S) /\ Cardinality(S) = m
    <3>1. c + 1 \in Int /\ d - 1 \in Int
      OBVIOUS
    <3>2. /\ IsFiniteSet(S)
          /\ Cardinality(S) = IF c + 1 > d - 1 THEN 0 ELSE (d - 1) - (c + 1) + 1
      BY <3>1, FS_Interval
    <3>3. QED
      BY <2>1, <3>2
  <2>3. PICK v \in Nat : v = Cardinality(V) /\ v <= w + m /\ IsFiniteSet(V)
    <3>1. /\ IsFiniteSet(V)
          /\ Cardinality(V) = Cardinality(W) + Cardinality(S) - Cardinality(W \cap S)
      BY <1>3, <2>2, FS_Union
    <3>2. IsFiniteSet(W \cap S)
      BY <1>3, FS_Subset
    <3>3. Cardinality(W \cap S) \in Nat /\ Cardinality(V) \in Nat
      BY <3>1, <3>2, FS_CardinalityType
    <3>4. QED
      BY <1>4, <2>2, <3>1, <3>3
  <2>4. v * PackNum <= lost'
    <3>1. v * PackNum <= (w + m) * PackNum /\ (w + m) * PackNum = w * PackNum + m * PackNum
      BY <1>5, <2>3, Times
    <3>2. m + (c + 1) = d
      BY <2>1
    <3>3. /\ d * PackNum = m * PackNum + (c + 1) * PackNum
          /\ (c + 1) * PackNum = c * PackNum + PackNum
      BY <1>5, <3>2, Times
    <3>4. m * PackNum \in Int /\ c * PackNum \in Int /\ v * PackNum \in Int
      BY <1>5, Times
    <3>5. m * PackNum <= n
      <4>1. PICK x \in Int, y \in Int, z \in Int :
              x = c * PackNum /\ y = d * PackNum /\ z = m * PackNum
        BY <1>5, <3>4, Times
      <4>2. y = z + (x + PackNum) /\ y <= x + PackNum + n
        BY <1>1, <1>8, <3>3, <4>1
      <4>3. z <= n
        BY <1>5, <4>1, <4>2
      <4>4. QED
        BY <4>1, <4>3
    <3>6. QED
      BY <1>1, <1>2, <1>3, <1>4, <1>5, <3>1, <3>4, <3>5
  <2>5. ASSUME NEW f \in Frames \ pool, NEW g \in G[f]..(d - 1)
        PROVE  g \in V \/ \E h \in Frames : G[h] = g
    <3>1. G[f] \in Int /\ g \in Int /\ G[f] <= g /\ g <= d - 1
      BY DEF Gens, Numbering
    <3>2. CASE g < c
      <4>1. g \in G[f]..(Now - 1)
        BY <1>1, <3>1, <3>2
      <4>2. QED
        BY <4>1 DEF Gens, Covered
    <3>3. CASE g = c
      BY <1>1, <1>2, <1>8, <3>3 DEF Gens, AtHand
    <3>4. CASE c < g
      BY <3>1, <3>4
    <3>5. QED
      BY <3>1, <3>2, <3>3, <3>4
  <2> HIDE DEF V
  <2>6. Covered(G, V)'
    BY <1>1, <1>2, <2>3, <2>4, <2>5 DEF Covered
  <2>7. QED
    BY <2>6
<1>9. QED
  BY <1>1, <1>6, <1>7, <1>8

LEMMA TakeGens ==
  ASSUME Types, Sound, Types', Sound', NEW G, NEW W, Gens(G, W), Take
  PROVE  \E V : Gens(G, V)'
<1>1. PICK n \in Nat, c \in Nat, d \in Nat :
        /\ pkt' = next + n /\ next' = pkt' + 1 /\ lost' = lost + n /\ lost' <= MaxLost
        /\ c = Now /\ d = Now' /\ c <= d
  BY TakeNumbers DEF Gens
<1>2. /\ dpc = "take" /\ dpc' = "lookup"
      /\ UNCHANGED <<pool, data, count, flags, kpc, kframe, gpc, gframe, ring3_4>>
  BY DEF Take, frameVars, godotVars, kazeVars
<1>3. next \in Nat /\ pkt' \in Nat /\ PackNum \in Nat \ {0} /\ next <= pkt'
  <2>1. next \in Nat /\ pkt' \in Nat /\ PackNum \in Nat \ {0}
    BY SizesAssumption DEF Types, TypeOK
  <2>2. QED
    BY <1>1, <2>1
<1>4. ~Get /\ ~PutFrame
  BY <1>2 DEF Get, PutFrame, Take, kazeVars, Types, TypeOK
<1>5. /\ Pipe' = Pipe
      /\ \A f \in Frames : NumberOf(f)' = NumberOf(f)
      /\ \A f : (Done(f)' <=> Done(f)) /\ Got(G, f)' = Got(G, f)
                /\ (Reset(f)' <=> Reset(f))
  <2>1. \A f \in Frames : NumberOf(f)' = NumberOf(f)
    BY <1>4, NumbersKept
  <2>2. Pipe' = Pipe
    BY <1>4, PipeKept
  <2>3. \A f : (Done(f)' <=> Done(f)) /\ Got(G, f)' = Got(G, f)
               /\ (Reset(f)' <=> Reset(f))
    BY <1>2 DEF Done, In34, InKaze, InGodot, Got, Reset
  <2>4. QED
    BY <2>1, <2>2, <2>3
<1>6. OnWire'
  BY <1>1, <1>2, <1>3 DEF Gens, OnWire
<1>7. Numbering(G)'
  BY <1>1, <1>2, <1>5 DEF Gens, Numbering
<1>8. Stale(G)'
  <2>1. SUFFICES ASSUME NEW f \in Frames, NEW s \in Slots, data[f][s] # None
                 PROVE  /\ data[f][s] < next' /\ data[f][s] < (G[f] + 1) * PackNum
                        /\ data[f][s] # pkt'
    BY <1>2 DEF Stale
  <2>2. data[f][s] \in Nat
    BY <2>1 DEF Types, TypeOK
  <2>3. data[f][s] < next /\ data[f][s] < (G[f] + 1) * PackNum
    BY <2>1 DEF Gens, Stale
  <2>4. QED
    BY <1>1, <1>3, <2>2, <2>3
<1>9. Finished(G)'
  <2>1. SUFFICES ASSUME NEW f \in Frames, Done(f)
                 PROVE  /\ (G[f] + 1) * PackNum <= next' /\ G[f] < Now'
                        /\ f \notin pool => Got(G, f) = Slots
    BY <1>2, <1>5 DEF Finished
  <2>2. PICK g \in Int : g = G[f] /\ (g + 1) * PackNum <= next
    BY <2>1 DEF Gens, Numbering, Finished
  <2>3. (g + 1) * PackNum \in Int /\ (d + 1) * PackNum \in Int /\ pkt' < (d + 1) * PackNum
    <3>1. (g + 1) * PackNum \in Int /\ (d + 1) * PackNum \in Int
      BY <1>3
    <3>2. (d + 1) * PackNum = d * PackNum + PackNum /\ d * PackNum \in Int
      BY <1>3, Times
    <3>3. pkt' < d * PackNum + PackNum
      BY <1>1, <1>3, Division DEF Now
    <3>4. QED
      BY <3>1, <3>2, <3>3
  <2>4. (g + 1) * PackNum < (d + 1) * PackNum
    BY <1>3, <2>2, <2>3
  <2>5. g + 1 < d + 1
    BY <1>3, <2>4, Times
  <2>6. (g + 1) * PackNum <= next'
    BY <1>1, <1>3, <2>2, <2>3
  <2>7. QED
    BY <1>1, <2>1, <2>2, <2>5, <2>6 DEF Gens, Finished
<1>10. Counted(G)'
  BY <1>2, <1>5 DEF Gens, Counted
<1>11. Clean' /\ AtHand(G)'
  BY <1>2 DEF Gens, Clean, AtHand
<1>12. InOrder(G)'
  BY <1>2, <1>5 DEF Gens, InOrder
<1>13. QED
  BY <1>6, <1>7, <1>8, <1>9, <1>10, <1>11, <1>12, TakeCovers DEF Gens
-----------------------------------------------------------------------------
\* DOB finds the frame of the packet, or there is none yet.
LEMMA LookupGens ==
  ASSUME EnoughNumbers, Types, Sound, Types', Sound', NEW G, NEW W, Gens(G, W), Lookup
  PROVE  Gens(G, W)'
<1>1. /\ dpc = "lookup" /\ dpc' \in {"get", "loadData", "copy"}
      /\ UNCHANGED <<next, lost, pkt, pool, data, count, flags, kpc, kframe, gpc,
                     gframe, ring3_4, tmp_udpFrame>>
      /\ dpc' = "get" => index[FrameSeq(pkt)] = None
      /\ dpc' # "get" => index[FrameSeq(pkt)] # None
      /\ dpc' = "copy" => p' = index[FrameSeq(pkt)]
  BY DEF Lookup, wire, frameVars, godotVars, kazeVars
<1>2. Pipe' = Pipe /\ \A f \in Frames : NumberOf(f)' = NumberOf(f)
  <2>1. ~Get /\ ~PutFrame
    BY <1>1 DEF Get, PutFrame, Lookup, kazeVars, Types, TypeOK
  <2>2. QED
    BY <2>1, PipeKept, NumbersKept DEF DobStep
<1>3. \A f \in Frames : Done(f)' => Done(f)
  BY <1>1 DEF Done, In34, InKaze, InGodot
<1>4. /\ OnWire' /\ Numbering(G)' /\ Stale(G)' /\ Finished(G)'
      /\ InOrder(G)' /\ Covered(G, W)'
  <2>1. gpc' # "zero"
    BY <1>1 DEF Gens, OnWire
  <2>2. Fresh' => Fresh
    BY <1>1 DEF Fresh
  <2>3. QED
    BY <1>1, <1>2, <1>3, <2>1, <2>2, Carried
<1>5. Counted(G)'
  BY <1>1, KeptCounted DEF Gens, Reset
<1>6. Clean'
  BY <1>1, KeptClean DEF Gens
<1>7. AtHand(G)'
  <2>1. Now' = Now
    BY <1>1 DEF Now
  <2>2. FrameSeq(pkt) \in FrameSeqs
    BY NowFacts
  <2>3. CASE dpc' = "get"
    <3>1. ASSUME NEW f \in Frames PROVE G[f] < Now
      <4>1. G[f] # Now
        BY <1>1, <2>3, Current, FramesAssumption
      <4>2. G[f] \in Int /\ Now \in Int /\ G[f] <= Now
        BY NowFacts DEF Gens, Numbering
      <4>3. QED
        BY <4>1, <4>2
    <3>2. QED
      BY <2>1, <2>3, <3>1 DEF AtHand
  <2>4. CASE dpc' # "get"
    <3>1. PICK f \in Frames : f = index[FrameSeq(pkt)]
      BY <1>1, <2>2, <2>4 DEF Types, TypeOK
    <3>2. G[f] = Now
      BY <3>1, Found
    <3>3. QED
      BY <1>1, <2>1, <2>4, <3>1, <3>2 DEF AtHand
  <2>5. QED
    BY <2>3, <2>4
<1>8. QED
  BY <1>4, <1>5, <1>6, <1>7 DEF Gens

\* A frame of the pool becomes the packet's: the newest of all, with nothing
\* of the packet's frame in it.
LEMMA GetGens ==
  ASSUME Types, Sound, Types', Sound', NEW G, NEW W, Gens(G, W), Get, ~exhausted'
  PROVE  \E F : Gens(F, W)'
<1>1. PICK g \in pool : g = tmp_udpFrame' /\ pool' = pool \ {g}
  BY DEF Get
<1>2. g \in Frames /\ g # None
  BY <1>1, FramesAssumption DEF Types, TypeOK
<1>3. /\ dpc = "get" /\ dpc' = "fill"
      /\ UNCHANGED <<next, lost, pkt, data, count, flags, fseq, kpc, kframe, gpc,
                     gframe, ring3_4>>
  BY <1>1, <1>2 DEF Get, wire, frameVars, godotVars, kazeVars
<1>4. PICK c \in Nat : c = Now /\ c = Now'
  BY <1>3, NowFacts DEF Now
<1>5. PICK F \in [Frames -> Int] :
        /\ F[g] = c /\ \A f \in Frames : f # g => F[f] = G[f]
        /\ \A f \in Frames : G[f] \in Int /\ G[f] < c
  <2>1. G \in [Frames -> Int] /\ \A f \in Frames : G[f] < c
    BY <1>3, <1>4 DEF Gens, Numbering, AtHand
  <2>2. [G EXCEPT ![g] = c] \in [Frames -> Int]
    <3>1. c \in Int
      OBVIOUS
    <3>2. QED
      BY <2>1, <3>1
  <2>3. QED
    BY <1>2, <2>1, <2>2
<1>6. /\ g \notin pool' /\ ~Done(g)'
      /\ \A f \in Frames \ {g} : Done(f)' => Done(f)
  <2>1. InDob(g)' /\ Placed(g)'
    BY <1>1, <1>2, <1>3 DEF InDob, Sound
  <2>2. ~Done(g)'
    BY <1>1, <2>1 DEF Placed, Done
  <2>3. \A f \in Frames \ {g} : Done(f)' => Done(f)
    BY <1>1, <1>3 DEF Done, In34, InKaze, InGodot
  <2>4. QED
    BY <1>1, <2>2, <2>3
<1>7. OnWire'
  BY <1>1, <1>3 DEF Gens, OnWire
<1>8. Numbering(F)'
  <2>1. ASSUME NEW f \in Frames PROVE -1 <= F[f] /\ F[f] <= c
    BY <1>4, <1>5 DEF Gens, Numbering
  <2>2. ASSUME NEW f \in Frames \ pool' PROVE 0 <= F[f] /\ NumberOf(f)' = F[f] % NumFrameSeq
    <3>1. CASE f = g
      <4>1. NumberOf(f)' = FrameSeq(pkt) /\ FrameSeq(pkt) = c % NumFrameSeq
        BY <1>1, <1>3, <1>4, <3>1, NowFacts DEF NumberOf, FrameSeq
      <4>2. QED
        BY <1>5, <3>1, <4>1
    <3>2. CASE f # g
      <4>1. f \in Frames \ pool /\ NumberOf(f)' = NumberOf(f)
        BY <1>1, <1>3, <3>2 DEF NumberOf
      <4>2. QED
        BY <1>5, <3>2, <4>1 DEF Gens, Numbering
    <3>3. QED
      BY <3>1, <3>2
  <2>3. QED
    BY <1>4, <1>5, <2>1, <2>2 DEF Numbering
<1>9. Stale(F)'
  <2>1. SUFFICES ASSUME NEW f \in Frames, NEW s \in Slots, data[f][s] # None
                 PROVE  /\ data[f][s] < next /\ data[f][s] < (F[f] + 1) * PackNum
                        /\ data[f][s] # pkt
    BY <1>3 DEF Stale
  <2>2. data[f][s] < next /\ data[f][s] < (G[f] + 1) * PackNum /\ data[f][s] # pkt
    BY <1>3, <2>1 DEF Gens, Stale, Fresh
  <2>3. CASE f # g
    BY <1>5, <2>2, <2>3
  <2>4. CASE f = g
    <3>1. PICK a \in Int : a = G[f] + 1 /\ a <= c + 1
      BY <1>5
    <3>2. PackNum \in Nat \ {0} /\ c + 1 \in Int
      BY SizesAssumption
    <3>3. a * PackNum <= (c + 1) * PackNum
      BY <3>1, <3>2, Times
    <3>4. PICK x \in Int, y \in Int : x = a * PackNum /\ y = (c + 1) * PackNum
      BY <3>2
    <3>5. data[f][s] \in Nat
      BY <2>1 DEF Types, TypeOK
    <3>6. data[f][s] < y
      BY <2>2, <3>1, <3>3, <3>4, <3>5
    <3>7. QED
      BY <1>5, <2>2, <2>4, <3>4, <3>6
  <2>5. QED
    BY <2>3, <2>4
<1>10. \A f \in Frames \ {g} : Got(F, f)' = Got(G, f)
  BY <1>3, <1>5 DEF Got
<1>11. Finished(F)'
  <2>1. SUFFICES ASSUME NEW f \in Frames, Done(f)'
                 PROVE  /\ (F[f] + 1) * PackNum <= next' /\ F[f] < Now'
                        /\ f \notin pool' => Got(F, f)' = Slots
    BY DEF Finished
  <2>2. f # g /\ Done(f) /\ F[f] = G[f]
    BY <1>5, <1>6, <2>1
  <2>3. (G[f] + 1) * PackNum <= next /\ G[f] < Now /\ (f \notin pool => Got(G, f) = Slots)
    BY <1>3, <2>2 DEF Gens, Finished
  <2>4. f \notin pool' => f \notin pool
    BY <1>1, <2>2
  <2>5. QED
    BY <1>3, <1>4, <1>10, <2>2, <2>3, <2>4
<1>12. Counted(F)'
  <2>1. SUFFICES ASSUME NEW f \in Frames \ pool', ~Reset(f)'
                 PROVE  Cardinality(Got(F, f)') = count[f] + 0
    BY <1>3 DEF Counted
  <2>2. CASE f # g
    <3>1. f \in Frames \ pool /\ ~Reset(f)
      BY <1>1, <1>3, <2>1, <2>2 DEF Reset
    <3>2. Cardinality(Got(G, f)) = count[f] + 0 /\ count[f] \in Nat
      BY <1>3, <3>1 DEF Gens, Counted, Types, TypeOK
    <3>3. QED
      BY <1>10, <2>2, <3>2
  <2>3. CASE f = g
    <3>1. count[f] = 0
      BY <1>1, <2>3 DEF Gens, Clean
    <3>2. SUFFICES ASSUME NEW s \in Slots, data[g][s] = c * PackNum + s PROVE FALSE
      <4>1. Got(F, f)' = {}
        BY <1>3, <1>5, <2>3, <3>2 DEF Got
      <4>2. QED
        BY <3>1, <4>1, FS_EmptySet
    <3>3. PICK a \in Int : a = G[g] + 1 /\ a <= c
      BY <1>2, <1>5
    <3>4. PackNum \in Nat \ {0} /\ s \in Nat
      BY SizesAssumption DEF Slots
    <3>5. a * PackNum <= c * PackNum
      BY <3>3, <3>4, Times
    <3>6. PICK x \in Int, y \in Nat : x = a * PackNum /\ y = c * PackNum
      BY <3>4
    <3>7. data[g][s] \in Nat
      BY <3>2, <3>4, <3>6
    <3>8. data[g][s] < x
      BY <1>2, <3>3, <3>6, <3>7, FramesAssumption DEF Gens, Stale
    <3>9. QED
      BY <3>2, <3>4, <3>5, <3>6, <3>7, <3>8
  <2>4. QED
    BY <2>2, <2>3
<1>13. Clean'
  BY <1>1, <1>3 DEF Gens, Clean
<1>14. AtHand(F)'
  BY <1>1, <1>2, <1>3, <1>4, <1>5 DEF AtHand
<1>15. InOrder(F)'
  <2>1. Pipe' = Append(Pipe, g) /\ Pipe \in Seq(Frames) /\ Range(Pipe) = Frames \ pool
    BY <1>1, PipeTakesLast, PipeParts, PipeFacts
  <2>2. PICK l \in Nat : l = Len(Pipe) /\ DOMAIN Pipe = 1..l
    BY <2>1
  <2>3. /\ Len(Pipe') = l + 1 /\ Pipe'[l + 1] = g
        /\ \A i \in 1..l : Pipe'[i] = Pipe[i]
    BY <1>2, <2>1, <2>2
  <2>4. \A i \in 1..l : Pipe[i] \in Frames /\ Pipe[i] # g
    BY <1>1, <2>1, <2>2 DEF Range
  <2>5. ASSUME NEW i \in 1..(l + 1), NEW j \in 1..(l + 1), i < j
        PROVE  F[Pipe'[i]] < F[Pipe'[j]]
    <3>1. i \in 1..l
      BY <2>2, <2>5
    <3>2. F[Pipe'[i]] = G[Pipe[i]]
      BY <1>5, <2>3, <2>4, <3>1
    <3>3. CASE j = l + 1
      BY <1>5, <2>3, <2>4, <3>1, <3>2, <3>3
    <3>4. CASE j # l + 1
      <4>1. j \in 1..l
        BY <2>2, <3>4
      <4>2. F[Pipe'[j]] = G[Pipe[j]]
        BY <1>5, <2>3, <2>4, <4>1
      <4>3. G[Pipe[i]] < G[Pipe[j]]
        BY <2>2, <2>5, <3>1, <4>1 DEF Gens, InOrder
      <4>4. QED
        BY <3>2, <4>2, <4>3
    <3>5. QED
      BY <3>3, <3>4
  <2>6. ASSUME NEW h \in pool', NEW f \in Frames \ pool' PROVE F[h] < F[f]
    <3>1. h \in Frames /\ h # g /\ F[h] = G[h] /\ h \in pool
      BY <1>1, <1>5 DEF Types, TypeOK
    <3>2. CASE f = g
      BY <1>5, <3>1, <3>2
    <3>3. CASE f # g
      BY <1>1, <1>5, <3>1, <3>3 DEF Gens, InOrder
    <3>4. QED
      BY <3>2, <3>3
  <2>7. QED
    BY <2>3, <2>5, <2>6 DEF InOrder
<1>16. Covered(F, W)'
  <2>1. ASSUME NEW f \in Frames \ pool', NEW b \in F[f]..(c - 1)
        PROVE  b \in W \/ \E h \in Frames : F[h] = b
    <3>1. CASE f = g
      BY <1>5, <3>1
    <3>2. CASE f # g
      <4>1. f \in Frames \ pool /\ F[f] = G[f] /\ G[f] \in Int
        BY <1>1, <1>5, <3>2
      <4>2. b \in W \/ \E h \in Frames : G[h] = b
        BY <1>4, <4>1 DEF Gens, Covered
      <4>3. G[g] < G[f] /\ G[g] \in Int
        BY <1>1, <1>2, <1>5, <4>1 DEF Gens, InOrder
      <4>4. G[g] # b
        BY <4>1, <4>3
      <4>5. QED
        BY <1>5, <4>2, <4>4
    <3>3. QED
      BY <3>1, <3>2
  <2>2. QED
    BY <1>3, <1>4, <2>1 DEF Gens, Covered
<1>17. QED
  BY <1>7, <1>8, <1>9, <1>11, <1>12, <1>13, <1>14, <1>15, <1>16 DEF Gens
-----------------------------------------------------------------------------
\* The packet in hand goes into its slot of its frame: one packet more is there.
LEMMA Written ==
  ASSUME Types, Types', NEW G, NEW W, Gens(G, W), Fresh, ~Fresh', dpc' # "take",
         NEW f \in Frames, G[f] = Now,
         data' = [data EXCEPT ![f][PacketSeq(pkt)] = pkt], UNCHANGED <<next, pkt>>
  PROVE  /\ Stale(G)'
         /\ Cardinality(Got(G, f)') = Cardinality(Got(G, f)) + 1
         /\ \A h \in Frames \ {f} : Got(G, h)' = Got(G, h)
<1>1. PICK c \in Nat, s \in Slots :
        /\ c = Now /\ s = PacketSeq(pkt) /\ pkt = c * PackNum + s
        /\ pkt < c * PackNum + PackNum /\ c * PackNum \in Int
  BY NowFacts
<1>2. /\ pkt \in Nat /\ next = pkt + 1 /\ next \in Nat /\ PackNum \in Nat \ {0}
      /\ G[f] = c /\ pkt # None
  <2>1. dpc # "take"
    BY DEF Fresh
  <2>2. QED
    BY <1>1, <2>1, SizesAssumption, FramesAssumption DEF Types, TypeOK, Gens, OnWire
<1>3. /\ \A h \in Frames \ {f}, t \in Slots : data'[h][t] = data[h][t]
      /\ \A t \in Slots \ {s} : data'[f][t] = data[f][t]
      /\ data'[f][s] = pkt
  BY <1>1 DEF Types, TypeOK
<1>4. Stale(G)'
  <2>1. ASSUME NEW h \in Frames, NEW t \in Slots, data'[h][t] # None
        PROVE  data'[h][t] < next /\ data'[h][t] < (G[h] + 1) * PackNum
    <3>1. CASE h = f /\ t = s
      <4>1. (c + 1) * PackNum = c * PackNum + PackNum
        BY <1>2, Times
      <4>2. data'[h][t] = pkt
        BY <1>3, <3>1
      <4>3. pkt < (c + 1) * PackNum
        BY <1>1, <4>1
      <4>4. QED
        BY <1>2, <3>1, <4>2, <4>3
    <3>2. CASE ~(h = f /\ t = s)
      BY <1>3, <2>1, <3>2 DEF Gens, Stale
    <3>3. QED
      BY <3>1, <3>2
  <2>2. QED
    BY <2>1 DEF Stale
<1>5. \A h \in Frames \ {f} : Got(G, h)' = Got(G, h)
  BY <1>3 DEF Got
<1>6. Got(G, f)' = Got(G, f) \cup {s}
  BY <1>1, <1>2, <1>3 DEF Got
<1>7. s \notin Got(G, f)
  <2>1. SUFFICES ASSUME data[f][s] = pkt PROVE FALSE
    BY <1>1, <1>2 DEF Got
  <2>2. QED
    BY <1>2, <2>1 DEF Gens, Stale
<1>8. Cardinality(Got(G, f) \cup {s}) = Cardinality(Got(G, f)) + 1
  BY <1>7, GotCount, FS_AddElement
<1>9. QED
  BY <1>4, <1>5, <1>6, <1>8

\* The first packet goes into the frame that was taken for it.
LEMMA FillGens ==
  ASSUME Types, Sound, Types', Sound', NEW G, NEW W, Gens(G, W), Fill
  PROVE  Gens(G, W)' /\ halted' = halted
<1>1. /\ tmp_udpFrame \in Frames /\ index[FrameSeq(pkt)] = tmp_udpFrame
      /\ tmp_udpFrame \notin Range(ring3_4) /\ tmp_udpFrame # None
      /\ tmp_udpFrame # gframe /\ tmp_udpFrame # kframe /\ tmp_udpFrame \notin pool
  BY InHand, FramesAssumption DEF Fill
<1>2. PICK f \in Frames : f = tmp_udpFrame
  BY <1>1
<1>3. /\ dpc = "fill" /\ dpc' = "enqueue" /\ halted' = halted
      /\ count' = [count EXCEPT ![f] = @ + 1]
      /\ data' = [data EXCEPT ![f][PacketSeq(pkt)] = pkt]
      /\ flags' = [flags EXCEPT ![f][PacketSeq(pkt)] = TRUE]
      /\ UNCHANGED <<next, lost, pkt, pool, kpc, kframe, gpc, gframe, ring3_4,
                     tmp_udpFrame>>
  BY <1>1, <1>2 DEF Fill, wire, godotVars, kazeVars
<1>4. Pipe' = Pipe /\ \A h \in Frames : NumberOf(h)' = NumberOf(h)
  <2>1. ~Get /\ ~PutFrame
    BY <1>3 DEF Get, PutFrame, Types, TypeOK
  <2>2. QED
    BY <2>1, PipeKept, NumbersKept DEF DobStep
<1>5. Now' = Now /\ G[f] = Now
  BY <1>2, <1>3 DEF Now, Gens, AtHand
<1>6. /\ Stale(G)'
      /\ Cardinality(Got(G, f)') = Cardinality(Got(G, f)) + 1
      /\ \A h \in Frames \ {f} : Got(G, h)' = Got(G, h)
  <2>1. Fresh /\ ~Fresh' /\ dpc' # "take"
    BY <1>3 DEF Fresh
  <2>2. QED
    BY <1>3, <1>5, <2>1, Written
<1>7. /\ \A h \in Frames : Done(h)' <=> Done(h)
      /\ \A h \in Frames : Reset(h)' <=> Reset(h)
      /\ ~Done(f) /\ ~Reset(f)
  BY <1>1, <1>2, <1>3 DEF Done, In34, InKaze, InGodot, Reset
<1>8. OnWire' /\ Numbering(G)' /\ InOrder(G)' /\ Covered(G, W)'
  <2>1. OnWire'
    BY <1>3 DEF Gens, OnWire
  <2>2. Numbering(G)'
    BY <1>3, <1>4, <1>5 DEF Gens, Numbering
  <2>3. InOrder(G)'
    BY <1>3, <1>4 DEF Gens, InOrder
  <2>4. Covered(G, W)'
    BY <1>3, <1>5 DEF Gens, Covered
  <2>5. QED
    BY <2>1, <2>2, <2>3, <2>4
<1>9. Finished(G)'
  <2>1. SUFFICES ASSUME NEW h \in Frames, Done(h)
                 PROVE  /\ (G[h] + 1) * PackNum <= next /\ G[h] < Now
                        /\ h \notin pool => Got(G, h)' = Slots
    BY <1>3, <1>5, <1>7 DEF Finished
  <2>2. Got(G, h)' = Got(G, h)
    BY <1>6, <1>7, <2>1
  <2>3. QED
    BY <1>3, <2>1, <2>2 DEF Gens, Finished
<1>10. Counted(G)'
  <2>1. SUFFICES ASSUME NEW h \in Frames \ pool, ~Reset(h)
                 PROVE  Cardinality(Got(G, h)') = count'[h] + 0
    BY <1>3, <1>7 DEF Counted
  <2>2. Cardinality(Got(G, h)) = count[h] + 0 /\ count[h] \in Nat
    BY <1>3, <2>1 DEF Gens, Counted, Types, TypeOK
  <2>3. count'[h] = IF h = f THEN count[h] + 1 ELSE count[h]
    BY <1>3 DEF Types, TypeOK
  <2>4. QED
    BY <1>6, <2>2, <2>3
<1>11. Clean'
  <2>1. \A h \in Frames \ {f} : count'[h] = count[h] /\ flags'[h] = flags[h]
    BY <1>3 DEF Types, TypeOK
  <2>2. pool \subseteq Frames \ {f} /\ (kpc # "take" => kframe \in Frames \ {f})
    BY <1>1, <1>2 DEF Types, TypeOK
  <2>3. QED
    BY <1>3, <2>1, <2>2 DEF Gens, Clean
<1>12. AtHand(G)'
  BY <1>2, <1>3, <1>5 DEF AtHand
<1>13. QED
  BY <1>3, <1>6, <1>8, <1>9, <1>10, <1>11, <1>12 DEF Gens

\* A later packet goes into its frame; the count follows.
LEMMA CopyInGens ==
  ASSUME Types, Sound, Types', Sound', NEW G, NEW W, Gens(G, W), CopyIn
  PROVE  Gens(G, W)'
<1>1. PICK f \in Frames : f = p
  BY DEF CopyIn, Types, TypeOK
<1>2. /\ dpc = "copy" /\ dpc' = "loadCount"
      /\ data' = [data EXCEPT ![f][PacketSeq(pkt)] = pkt]
      /\ UNCHANGED <<next, lost, pkt, pool, count, flags, kpc, kframe, gpc, gframe,
                     ring3_4, tmp_udpFrame>>
  BY <1>1 DEF CopyIn, wire, godotVars, kazeVars
<1>3. Pipe' = Pipe /\ \A h \in Frames : NumberOf(h)' = NumberOf(h)
  <2>1. ~Get /\ ~PutFrame
    BY <1>2 DEF Get, PutFrame, Types, TypeOK
  <2>2. QED
    BY <2>1, PipeKept, NumbersKept DEF DobStep
<1>4. Now' = Now /\ G[f] = Now
  BY <1>1, <1>2 DEF Now, Gens, AtHand
<1>5. f \notin pool /\ ~Done(f)
  BY <1>2, <1>4, Current
<1>6. /\ Stale(G)'
      /\ Cardinality(Got(G, f)') = Cardinality(Got(G, f)) + 1
      /\ \A h \in Frames \ {f} : Got(G, h)' = Got(G, h)
  <2>1. Fresh /\ ~Fresh' /\ dpc' # "take"
    BY <1>2 DEF Fresh
  <2>2. QED
    BY <1>2, <1>4, <2>1, Written
<1>7. /\ \A h \in Frames : Done(h)' <=> Done(h)
      /\ \A h \in Frames : Reset(h)' <=> Reset(h)
  BY <1>2 DEF Done, In34, InKaze, InGodot, Reset
<1>8. OnWire' /\ Numbering(G)' /\ InOrder(G)' /\ Covered(G, W)'
  <2>1. OnWire'
    BY <1>2 DEF Gens, OnWire
  <2>2. Numbering(G)'
    BY <1>2, <1>3, <1>4 DEF Gens, Numbering
  <2>3. InOrder(G)'
    BY <1>2, <1>3 DEF Gens, InOrder
  <2>4. Covered(G, W)'
    BY <1>2, <1>4 DEF Gens, Covered
  <2>5. QED
    BY <2>1, <2>2, <2>3, <2>4
<1>9. Finished(G)'
  <2>1. SUFFICES ASSUME NEW h \in Frames, Done(h)
                 PROVE  /\ (G[h] + 1) * PackNum <= next /\ G[h] < Now
                        /\ h \notin pool => Got(G, h)' = Slots
    BY <1>2, <1>4, <1>7 DEF Finished
  <2>2. Got(G, h)' = Got(G, h)
    BY <1>5, <1>6, <2>1
  <2>3. QED
    BY <1>2, <2>1, <2>2 DEF Gens, Finished
<1>10. Counted(G)'
  <2>1. SUFFICES ASSUME NEW h \in Frames \ pool, ~Reset(h)
                 PROVE  Cardinality(Got(G, h)')
                          = count[h] + (IF G[h] = Now THEN 1 ELSE 0)
    BY <1>2, <1>4, <1>7 DEF Counted
  <2>2. Cardinality(Got(G, h)) = count[h] + 0 /\ count[h] \in Nat
    BY <1>2, <2>1 DEF Gens, Counted, Types, TypeOK
  <2>3. h = f <=> G[h] = Now
    BY <1>4, <1>5, OneEach DEF Gens
  <2>4. QED
    BY <1>6, <2>2, <2>3
<1>11. Clean'
  BY <1>2, KeptClean DEF Gens
<1>12. AtHand(G)'
  BY <1>2, <1>4 DEF AtHand
<1>13. QED
  BY <1>6, <1>8, <1>9, <1>10, <1>11, <1>12 DEF Gens

LEMMA AddGens ==
  ASSUME Types, Sound, Types', Sound', NEW G, NEW W, Gens(G, W), AddCount
  PROVE  Gens(G, W)'
<1>1. PICK f \in Frames : f = p
  BY DEF AddCount, Types, TypeOK
<1>2. /\ dpc = "add" /\ dpc' = "take"
      /\ count' = [count EXCEPT ![f] = @ + 1]
      /\ UNCHANGED <<next, lost, pkt, pool, data, flags, kpc, kframe, gpc, gframe,
                     ring3_4>>
  BY <1>1 DEF AddCount, wire, godotVars, kazeVars
<1>3. Pipe' = Pipe /\ \A h \in Frames : NumberOf(h)' = NumberOf(h)
  <2>1. ~Get /\ ~PutFrame
    BY <1>2 DEF Get, PutFrame, Types, TypeOK
  <2>2. QED
    BY <2>1, PipeKept, NumbersKept DEF DobStep
<1>4. Now' = Now /\ G[f] = Now
  BY <1>1, <1>2 DEF Now, Gens, AtHand
<1>5. f \notin pool /\ ~Done(f) /\ f # kframe
  <2>1. f \notin pool /\ ~Done(f)
    BY <1>2, <1>4, Current
  <2>2. QED
    BY <2>1 DEF Done, InKaze
<1>6. \A h \in Frames : (Done(h)' => Done(h)) /\ (Reset(h)' <=> Reset(h))
  BY <1>2 DEF Done, In34, InKaze, InGodot, Reset
<1>7. /\ OnWire' /\ Numbering(G)' /\ Stale(G)' /\ Finished(G)'
      /\ InOrder(G)' /\ Covered(G, W)'
  <2>1. gpc' # "zero"
    BY <1>2 DEF Gens, OnWire
  <2>2. Fresh' => Fresh
    BY <1>2 DEF Fresh
  <2>3. QED
    BY <1>2, <1>3, <1>6, <2>1, <2>2, Carried
<1>8. Counted(G)'
  <2>1. SUFFICES ASSUME NEW h \in Frames \ pool, ~Reset(h)
                 PROVE  Cardinality(Got(G, h)') = count'[h] + 0
    BY <1>2, <1>6 DEF Counted
  <2>2. /\ Cardinality(Got(G, h)) = count[h] + (IF G[h] = Now THEN 1 ELSE 0)
        /\ count[h] \in Nat
    BY <1>2, <2>1 DEF Gens, Counted, Types, TypeOK
  <2>3. h = f <=> G[h] = Now
    BY <1>4, <1>5, OneEach DEF Gens
  <2>4. Got(G, h)' = Got(G, h)
    BY <1>2 DEF Got
  <2>5. count'[h] = IF h = f THEN count[h] + 1 ELSE count[h]
    BY <1>2 DEF Types, TypeOK
  <2>6. QED
    BY <2>2, <2>3, <2>4, <2>5
<1>9. Clean'
  <2>1. \A h \in Frames \ {f} : count'[h] = count[h]
    BY <1>2 DEF Types, TypeOK
  <2>2. pool \subseteq Frames \ {f} /\ (kpc # "take" => kframe \in Frames \ {f})
    BY <1>5 DEF Types, TypeOK
  <2>3. QED
    BY <1>2, <2>1, <2>2 DEF Gens, Clean
<1>10. AtHand(G)'
  BY <1>2, <1>4 DEF AtHand
<1>11. QED
  BY <1>7, <1>8, <1>9, <1>10 DEF Gens

\* The pointers DOB reads again: the frame is still indexed.
LEMMA LoadGens ==
  ASSUME Types, Sound, Types', Sound', NEW G, NEW W, Gens(G, W),
         EnqueueFrame \/ LoadForData \/ LoadForCount
  PROVE  Gens(G, W)' /\ halted' = halted
<1>1. /\ UNCHANGED <<next, lost, pkt, pool, data, count, flags, kpc, kframe, gpc,
                     gframe, ring3_4, tmp_udpFrame>>
      /\ dpc \in {"enqueue", "loadData", "loadCount"}
  BY DEF EnqueueFrame, LoadForData, LoadForCount, Load, wire, frameVars, godotVars,
    kazeVars
<1>2. PICK f \in Frames : f = index[FrameSeq(pkt)] /\ G[f] = Now
  <2>1. PICK f \in Frames : G[f] = Now
    BY <1>1 DEF Gens, AtHand, OnWire, Types, TypeOK
  <2>2. QED
    BY <1>1, <2>1, Current
<1>3. /\ halted' = halted
      /\ \/ dpc = "enqueue" /\ dpc' = "take"
         \/ dpc = "loadData" /\ dpc' = "copy" /\ p' = f
         \/ dpc = "loadCount" /\ dpc' = "add" /\ p' = f
  BY <1>2, FramesAssumption DEF EnqueueFrame, LoadForData, LoadForCount, Load
<1>4. Pipe' = Pipe /\ \A h \in Frames : NumberOf(h)' = NumberOf(h)
  <2>1. ~Get /\ ~PutFrame
    BY <1>1, <1>3 DEF Get, PutFrame, Types, TypeOK
  <2>2. QED
    BY <2>1, PipeKept, NumbersKept DEF DobStep
<1>5. \A h \in Frames : (Done(h)' => Done(h)) /\ (Reset(h)' <=> Reset(h))
  BY <1>1 DEF Done, In34, InKaze, InGodot, Reset
<1>6. /\ OnWire' /\ Numbering(G)' /\ Stale(G)' /\ Finished(G)'
      /\ InOrder(G)' /\ Covered(G, W)'
  <2>1. gpc' # "zero"
    BY <1>1 DEF Gens, OnWire
  <2>2. (Fresh' => Fresh) /\ (dpc' = "take" \/ dpc # "take")
    BY <1>3 DEF Fresh
  <2>3. QED
    BY <1>1, <1>4, <1>5, <2>1, <2>2, Carried
<1>7. Counted(G)'
  BY <1>1, <1>3, <1>5, KeptCounted DEF Gens
<1>8. Clean'
  BY <1>1, KeptClean DEF Gens
<1>9. AtHand(G)'
  <2>1. Now' = Now
    BY <1>1 DEF Now
  <2>2. QED
    BY <1>2, <1>3, <2>1 DEF AtHand
<1>10. QED
  BY <1>3, <1>6, <1>7, <1>8, <1>9 DEF Gens
-----------------------------------------------------------------------------
\* The steps of GODOT and KAZE that only hand a frame on or clean it.
LEMMA Others ==
  ASSUME Types, Sound, Types', Sound', NEW G, NEW W, Gens(G, W),
         GodotStep \/ KazeStep, ~PutFrame, ~exhausted',
         gpc' # "zero", \A f \in Frames : Done(f)' => Done(f)
  PROVE  /\ OnWire' /\ Numbering(G)' /\ Stale(G)' /\ Finished(G)'
         /\ InOrder(G)' /\ Covered(G, W)' /\ AtHand(G)'
<1>1. UNCHANGED <<next, lost, pkt, pool, data, dpc, tmp_udpFrame, p>>
  BY DEF Gens, OnWire, GodotStep, TakeOldest, Complete, TimeOut, ZeroSlot, Forward,
    KazeStep, TakeToSend, CopyOut, ResetCount, ResetFlags, Unindex, wire, frameVars,
    dobVars
<1>2. Pipe' = Pipe /\ \A f \in Frames : NumberOf(f)' = NumberOf(f)
  <2>1. ~Get
    BY <1>1 DEF Get
  <2>2. QED
    BY <2>1, PipeKept, NumbersKept
<1>3. Fresh' => Fresh
  BY <1>1 DEF Fresh
<1>4. AtHand(G)'
  BY <1>1, KeptAtHand DEF Gens
<1>5. QED
  BY <1>1, <1>2, <1>3, <1>4, Carried

\* GODOT lets a frame go when all of it has arrived: later packets of the
\* sender's frame are not on their way.
LEMMA CompleteGens ==
  ASSUME Types, Sound, Types', Sound', NEW G, NEW W, Gens(G, W), Complete,
         ~exhausted'
  PROVE  Gens(G, W)'
<1>1. /\ gpc = "wait" /\ gpc' = "forward" /\ count[gframe] >= PackNum
      /\ UNCHANGED <<next, lost, pkt, pool, data, count, flags, kpc, kframe, gframe,
                     ring3_4, dpc, tmp_udpFrame, p>>
  BY DEF Complete, wire, frameVars, dobVars, kazeVars
<1>2. PICK f \in Frames : f = gframe
  BY <1>1 DEF Types, TypeOK
<1>3. f \notin pool /\ ~Reset(f)
  BY <1>2 DEF Sound, Placed, InGodot, InKaze, Reset
<1>4. Got(G, f) = Slots /\ ~(dpc \in {"loadCount", "add"} /\ G[f] = Now)
  <2>1. PICK n \in Nat : n = Cardinality(Got(G, f)) /\ n <= PackNum
    BY GotCount
  <2>2. count[f] \in Nat /\ count[f] >= PackNum /\ PackNum \in Nat
    BY <1>1, <1>2, SizesAssumption DEF Types, TypeOK
  <2>3. n = count[f] + (IF dpc \in {"loadCount", "add"} /\ G[f] = Now THEN 1 ELSE 0)
    BY <1>3, <2>1 DEF Gens, Counted
  <2>4. n = PackNum /\ ~(dpc \in {"loadCount", "add"} /\ G[f] = Now)
    BY <2>1, <2>2, <2>3
  <2>5. QED
    BY <2>1, <2>4, GotCount
<1>5. PICK a \in Nat, x \in Nat :
        /\ a = G[f] /\ x = a * PackNum /\ (a + 1) * PackNum = x + PackNum
        /\ PackNum \in Nat \ {0} /\ next \in Nat /\ a <= Now
  <2>1. PackNum \in Nat \ {0} /\ next \in Nat
    BY SizesAssumption DEF Types, TypeOK
  <2>2. PICK a \in Nat : a = G[f] /\ a <= Now
    BY <1>3 DEF Gens, Numbering
  <2>3. PICK x \in Nat : x = a * PackNum
    BY <2>1
  <2>4. (a + 1) * PackNum = x + PackNum
    BY <2>1, <2>3, Times
  <2>5. QED
    BY <2>1, <2>2, <2>3, <2>4
<1>6. \A s \in Slots : data[f][s] = x + s /\ x + s \in Nat /\ x + s # None
  <2>1. \A s \in Slots : data[f][s] = x + s
    BY <1>4, <1>5 DEF Got
  <2>2. \A s \in Slots : x + s \in Nat
    BY <1>5 DEF Slots
  <2>3. QED
    BY <2>1, <2>2, FramesAssumption
<1>7. x + PackNum <= next
  <2>1. PICK s \in Slots : s = PackNum - 1
    BY <1>5 DEF Slots
  <2>2. x + s < next
    BY <1>6 DEF Gens, Stale
  <2>3. QED
    BY <1>5, <2>1, <2>2
<1>8. ASSUME dpc # "take", a = Now PROVE FALSE
  <2>1. CASE Fresh
    <3>1. PacketSeq(pkt) \in Slots /\ pkt = x + PacketSeq(pkt)
      BY <1>5, <1>8, NowFacts
    <3>2. QED
      BY <1>6, <2>1, <3>1 DEF Gens, Stale
  <2>2. CASE dpc \in {"loadCount", "add"}
    BY <1>4, <1>5, <1>8, <2>2
  <2>3. CASE dpc = "enqueue"
    <3>1. G[tmp_udpFrame] = Now
      BY <2>3 DEF Gens, AtHand
    <3>2. tmp_udpFrame \in Frames \ pool /\ tmp_udpFrame # f
      BY <1>2, <2>3, InHand
    <3>3. QED
      BY <1>3, <1>5, <1>8, <3>1, <3>2, OneEach DEF Gens
  <2>4. QED
    BY <1>8, <2>1, <2>2, <2>3 DEF Fresh, Types, TypeOK
<1>9. Pipe' = Pipe /\ \A h \in Frames : NumberOf(h)' = NumberOf(h)
  <2>1. ~Get /\ ~PutFrame
    BY <1>1 DEF Get, PutFrame, Types, TypeOK
  <2>2. QED
    BY <2>1, PipeKept, NumbersKept DEF GodotStep
<1>10. Now' = Now /\ \A h : Got(G, h)' = Got(G, h) /\ (Reset(h)' <=> Reset(h))
  BY <1>1 DEF Now, Got, Reset
<1>11. \A h \in Frames : Done(h)' => Done(h) \/ h = f
  BY <1>1, <1>2 DEF Done, In34, InKaze, InGodot
<1>12. OnWire' /\ Numbering(G)' /\ InOrder(G)' /\ Covered(G, W)'
  <2>1. OnWire'
    BY <1>1 DEF Gens, OnWire
  <2>2. Numbering(G)'
    BY <1>1, <1>9, <1>10 DEF Gens, Numbering
  <2>3. InOrder(G)'
    BY <1>1, <1>9 DEF Gens, InOrder
  <2>4. Covered(G, W)'
    BY <1>1, <1>10 DEF Gens, Covered
  <2>5. QED
    BY <2>1, <2>2, <2>3, <2>4
<1>13. Stale(G)'
  BY <1>1 DEF Gens, Stale, Fresh
<1>14. Finished(G)'
  <2>1. SUFFICES ASSUME NEW h \in Frames, Done(h)'
                 PROVE  /\ (G[h] + 1) * PackNum <= next /\ (dpc # "take" => G[h] < Now)
                        /\ h \notin pool => Got(G, h) = Slots
    BY <1>1, <1>10 DEF Finished
  <2>2. CASE Done(h)
    BY <2>2 DEF Gens, Finished
  <2>3. CASE h = f
    <3>1. dpc # "take" => a < Now
      BY <1>5, <1>8, NowFacts
    <3>2. QED
      BY <1>4, <1>5, <1>7, <2>3, <3>1
  <2>4. QED
    BY <1>11, <2>1, <2>2, <2>3
<1>15. Counted(G)'
  BY <1>1, <1>10, KeptCounted DEF Gens
<1>16. Clean'
  BY <1>1, KeptClean DEF Gens
<1>17. AtHand(G)'
  BY <1>1, KeptAtHand DEF Gens
<1>18. QED
  BY <1>12, <1>13, <1>14, <1>15, <1>16, <1>17 DEF Gens

LEMMA HandOverGens ==
  ASSUME Types, Sound, Types', Sound', NEW G, NEW W, Gens(G, W),
         TakeOldest \/ Forward \/ TakeToSend, ~exhausted'
  PROVE  Gens(G, W)'
<1>1. /\ UNCHANGED <<pkt, data, pool, count, flags, dpc>>
      /\ kpc = "take" \/ (kpc' = kpc /\ kframe' = kframe)
      /\ kpc' \in {"flags", "unindex", "put"} => kpc' = kpc /\ kframe' = kframe
  BY DEF TakeOldest, Forward, TakeToSend, dobVars, frameVars, kazeVars
<1>2. gpc' # "zero" /\ \A f \in Frames : Done(f)' => Done(f)
  <2>1. CASE TakeOldest
    BY <2>1 DEF TakeOldest, Done, In34, InKaze, InGodot, kazeVars, Gens, OnWire
  <2>2. CASE Forward
    <3>1. /\ gpc = "forward" /\ gframe \in Frames /\ gframe' = None
          /\ ring3_4' = Append(ring3_4, gframe) /\ ring3_4 \in Seq(Frames)
          /\ UNCHANGED <<pool, kframe>> /\ gpc' = "take"
      BY <2>2 DEF Forward, Types, TypeOK, kazeVars
    <3>2. Range(ring3_4') = Range(ring3_4) \cup {gframe}
      <4>1. IsInjective(ring3_4) /\ gframe \notin Range(ring3_4)
        BY <3>1 DEF Sound, RingsOnce, Placed, InGodot, In34
      <4>2. QED
        BY <3>1, <4>1, AppendDistinct
    <3>3. QED
      BY <3>1, <3>2, FramesAssumption DEF Done, In34, InKaze, InGodot
  <2>3. CASE TakeToSend
    <3>1. /\ ring3_4 # <<>> /\ ring3_4 \in Seq(Frames) /\ IsInjective(ring3_4)
          /\ kframe' = Head(ring3_4) /\ ring3_4' = Tail(ring3_4)
          /\ UNCHANGED <<pool, gframe, gpc>>
      BY <2>3 DEF TakeToSend, Types, TypeOK, godotVars, Sound, RingsOnce
    <3>2. kframe' \in Range(ring3_4) /\ Range(ring3_4') \subseteq Range(ring3_4)
      BY <3>1, TailDistinct
    <3>3. QED
      BY <3>1, <3>2 DEF Done, In34, InKaze, InGodot, Gens, OnWire
  <2>4. QED
    BY <2>1, <2>2, <2>3
<1>3. ~PutFrame
  BY <1>1, FramesAssumption DEF PutFrame, Types, TypeOK
<1>4. /\ OnWire' /\ Numbering(G)' /\ Stale(G)' /\ Finished(G)'
      /\ InOrder(G)' /\ Covered(G, W)' /\ AtHand(G)'
  BY <1>2, <1>3, Others DEF GodotStep, KazeStep
<1>5. Counted(G)'
  <2>1. \A f \in Frames \ pool : ~Reset(f)' => ~Reset(f)
    BY <1>1 DEF Reset
  <2>2. QED
    BY <1>1, <2>1, KeptCounted DEF Gens
<1>6. Clean'
  BY <1>1, KeptClean DEF Gens
<1>7. QED
  BY <1>4, <1>5, <1>6 DEF Gens

\* KAZE cleans the frame it has sent.
LEMMA ResetGens ==
  ASSUME Types, Sound, Types', Sound', NEW G, NEW W, Gens(G, W),
         CopyOut \/ ResetCount \/ ResetFlags \/ Unindex, ~exhausted'
  PROVE  Gens(G, W)'
<1>1. /\ UNCHANGED <<pkt, data, pool, dpc, kframe, gframe, gpc, ring3_4>>
      /\ kframe \in Frames \ pool
  <2>1. UNCHANGED <<pkt, data, pool, dpc, kframe, gframe, gpc, ring3_4>> /\ kframe # None
    BY DEF CopyOut, ResetCount, ResetFlags, Unindex, dobVars, frameVars, godotVars,
      Types, TypeOK
  <2>2. kframe \in Frames
    BY <2>1 DEF Types, TypeOK
  <2>3. kframe \notin pool
    BY <2>2 DEF Sound, Placed, InKaze
  <2>4. QED
    BY <2>1, <2>2, <2>3
<1>2. gpc' # "zero" /\ \A f \in Frames : Done(f)' => Done(f)
  BY <1>1 DEF Done, In34, InKaze, InGodot, Gens, OnWire
<1>3. /\ OnWire' /\ Numbering(G)' /\ Stale(G)' /\ Finished(G)'
      /\ InOrder(G)' /\ Covered(G, W)' /\ AtHand(G)'
  <2>1. ~PutFrame
    BY DEF CopyOut, ResetCount, ResetFlags, Unindex, PutFrame
  <2>2. QED
    BY <1>2, <2>1, Others DEF KazeStep
<1>4. Counted(G)' /\ Clean'
  <2>1. CASE CopyOut
    <3>1. kpc = "copyOut" /\ kpc' = "count" /\ UNCHANGED <<count, flags>>
      BY <2>1 DEF CopyOut, frameVars
    <3>2. \A f \in Frames \ pool : ~Reset(f)
      BY <3>1 DEF Reset
    <3>3. QED
      BY <1>1, <3>1, <3>2, KeptCounted, KeptClean DEF Gens
  <2>2. CASE ResetCount
    <3>1. /\ kpc = "count" /\ kpc' = "flags" /\ flags' = flags
          /\ count' = [count EXCEPT ![kframe] = 0]
      BY <2>2 DEF ResetCount
    <3>2. /\ \A f \in Frames \ {kframe} : count'[f] = count[f]
          /\ count'[kframe] = 0
      BY <1>1, <3>1 DEF Types, TypeOK
    <3>3. \A f \in Frames \ pool' : ~Reset(f)' => ~Reset(f) /\ count'[f] = count[f]
      BY <1>1, <3>1, <3>2 DEF Reset
    <3>4. Counted(G)'
      BY <1>1, <3>3, KeptCounted DEF Gens
    <3>5. pool \subseteq Frames \ {kframe}
      BY <1>1 DEF Types, TypeOK
    <3>6. Clean'
      BY <1>1, <3>1, <3>2, <3>5 DEF Gens, Clean
    <3>7. QED
      BY <3>4, <3>6
  <2>3. CASE ResetFlags
    <3>1. /\ kpc = "flags" /\ kpc' = "unindex" /\ count' = count
          /\ flags' = [flags EXCEPT ![kframe] = [s \in Slots |-> FALSE]]
      BY <2>3 DEF ResetFlags
    <3>2. /\ \A f \in Frames \ {kframe} : flags'[f] = flags[f]
          /\ \A s \in Slots : ~flags'[kframe][s]
      BY <1>1, <3>1 DEF Types, TypeOK
    <3>3. \A f \in Frames \ pool' : ~Reset(f)' => ~Reset(f) /\ count'[f] = count[f]
      BY <1>1, <3>1 DEF Reset
    <3>4. Counted(G)'
      BY <1>1, <3>3, KeptCounted DEF Gens
    <3>5. pool \subseteq Frames \ {kframe}
      BY <1>1 DEF Types, TypeOK
    <3>6. Clean'
      BY <1>1, <3>1, <3>2, <3>5 DEF Gens, Clean
    <3>7. QED
      BY <3>4, <3>6
  <2>4. CASE Unindex
    <3>1. kpc = "unindex" /\ kpc' = "put" /\ UNCHANGED <<count, flags>>
      BY <2>4 DEF Unindex, frameVars
    <3>2. \A f \in Frames \ pool' : ~Reset(f)' => ~Reset(f) /\ count'[f] = count[f]
      BY <1>1, <3>1 DEF Reset
    <3>3. QED
      BY <1>1, <3>1, <3>2, KeptCounted, KeptClean DEF Gens
  <2>5. QED
    BY <2>1, <2>2, <2>3, <2>4
<1>5. QED
  BY <1>3, <1>4 DEF Gens

\* The oldest frame returns to the pool.
LEMMA PutGens ==
  ASSUME Types, Sound, Types', Sound', NEW G, NEW W, Gens(G, W), PutFrame
  PROVE  Gens(G, W)'
<1>1. PICK k \in Frames : k = kframe
  BY DEF PutFrame, Types, TypeOK
<1>2. /\ kpc = "put" /\ kpc' = "take" /\ kframe' = None /\ pool' = pool \cup {k}
      /\ UNCHANGED <<next, lost, pkt, data, count, flags, fseq, gpc, gframe, ring3_4,
                     dpc, tmp_udpFrame, p>>
  BY <1>1 DEF PutFrame, wire, frameVars, dobVars, godotVars
<1>3. k \notin pool /\ pool \subseteq Frames
  BY <1>1 DEF Sound, Placed, InKaze, Types, TypeOK
<1>4. /\ Now' = Now
      /\ \A h : Got(G, h)' = Got(G, h) /\ NumberOf(h)' = NumberOf(h)
      /\ \A h \in Frames : Done(h)' => Done(h)
  BY <1>1, <1>2, FramesAssumption
    DEF Now, Got, NumberOf, FrameSeq, Done, In34, InKaze, InGodot
<1>5. OnWire'
  BY <1>1, <1>2, <1>3 DEF Gens, OnWire
<1>6. Numbering(G)'
  BY <1>2, <1>4 DEF Gens, Numbering
<1>7. Stale(G)'
  BY <1>2 DEF Gens, Stale, Fresh
<1>8. Finished(G)'
  BY <1>2, <1>4 DEF Gens, Finished
<1>9. Counted(G)'
  <2>1. \A f \in Frames \ pool' : ~Reset(f)
    BY <1>1, <1>2 DEF Reset
  <2>2. QED
    BY <1>2, <2>1, KeptCounted DEF Gens
<1>10. Clean'
  BY <1>1, <1>2 DEF Gens, Clean
<1>11. AtHand(G)'
  BY <1>2, KeptAtHand DEF Gens
<1>12. InOrder(G)'
  <2>1. /\ Pipe' = Tail(Pipe) /\ Pipe # <<>> /\ Head(Pipe) = k
        /\ Pipe \in Seq(Frames) /\ Range(Pipe) = Frames \ pool
    BY <1>1, FramesAssumption, PipeLosesFirst, PipeGivesFirst, PipeParts, PipeFacts
  <2>2. PICK l \in Nat \ {0} : l = Len(Pipe) /\ DOMAIN Pipe = 1..l
    BY <2>1
  <2>3. /\ Pipe[1] = k /\ Len(Pipe') = l - 1
        /\ \A i \in 1..(l - 1) : Pipe'[i] = Pipe[i + 1]
    BY <2>1, <2>2
  <2>4. \A i \in 1..l, j \in 1..l : i < j => G[Pipe[i]] < G[Pipe[j]]
    BY <2>2 DEF Gens, InOrder
  <2>5. ASSUME NEW i \in 1..(l - 1), NEW j \in 1..(l - 1), i < j
        PROVE  G[Pipe'[i]] < G[Pipe'[j]]
    <3>1. i + 1 \in 1..l /\ j + 1 \in 1..l /\ i + 1 < j + 1
      BY <2>2, <2>5
    <3>2. QED
      BY <2>3, <2>4, <3>1
  <2>6. ASSUME NEW h \in pool', NEW f \in Frames \ pool' PROVE G[h] < G[f]
    <3>1. f \in Frames \ pool /\ f # k
      BY <1>2
    <3>2. CASE h \in pool
      BY <3>1, <3>2 DEF Gens, InOrder
    <3>3. CASE h = k
      <4>1. PICK i \in 1..l : Pipe[i] = f
        BY <2>1, <2>2, <3>1 DEF Range
      <4>2. i # 1 /\ 1 \in 1..l
        BY <2>2, <2>3, <3>1, <4>1
      <4>3. 1 < i
        BY <2>2, <4>2
      <4>4. QED
        BY <2>3, <2>4, <3>3, <4>1, <4>2, <4>3
    <3>4. QED
      BY <1>2, <3>2, <3>3
  <2>7. QED
    BY <2>3, <2>5, <2>6 DEF InOrder
<1>13. Covered(G, W)'
  BY <1>2, <1>4 DEF Gens, Covered
<1>14. QED
  BY <1>5, <1>6, <1>7, <1>8, <1>9, <1>10, <1>11, <1>12, <1>13 DEF Gens
-----------------------------------------------------------------------------
WholeInv ==
  Untroubled => halted # "fault" /\ \E G, W : Gens(G, W)

LEMMA InitWhole == Init => WholeInv
<1> SUFFICES ASSUME Init PROVE WholeInv
  OBVIOUS
<1>1. PICK G \in [Frames -> Int] : \A f \in Frames : G[f] = -1
  <2>1. [f \in Frames |-> -1] \in [Frames -> Int]
    OBVIOUS
  <2>2. QED
    BY <2>1
<1>2. Now = 0 /\ PackNum \in Nat \ {0} /\ MaxLost \in Nat
  <2>1. PackNum \in Nat \ {0} /\ MaxLost \in Nat
    BY SizesAssumption
  <2>2. 0 \div PackNum = 0
    BY <2>1
  <2>3. QED
    BY <2>1, <2>2 DEF Now, Init
<1>3. OnWire /\ Clean
  BY <1>2 DEF Init, OnWire, Clean
<1>4. Numbering(G)
  BY <1>1, <1>2 DEF Init, Numbering
<1>5. Stale(G)
  BY DEF Init, Stale
<1>6. Finished(G)
  <2>1. (-1 + 1) * PackNum = 0
    BY <1>2
  <2>2. QED
    BY <1>1, <2>1 DEF Init, Finished
<1>7. Counted(G) /\ AtHand(G)
  BY DEF Init, Counted, AtHand
<1>8. InOrder(G)
  <2>1. Pipe = <<>>
    BY DEF Init, Pipe, Hand
  <2>2. Len(Pipe) = 0
    BY <2>1
  <2>3. QED
    BY <2>2 DEF Init, InOrder
<1>9. Covered(G, {})
  <2>1. IsFiniteSet({}) /\ Cardinality({}) = 0 /\ 0 * PackNum = 0
    BY <1>2, FS_EmptySet
  <2>2. QED
    BY <2>1 DEF Init, Covered
<1>10. Gens(G, {})
  BY <1>3, <1>4, <1>5, <1>6, <1>7, <1>8, <1>9 DEF Gens
<1>11. QED
  BY <1>10 DEF Init, WholeInv

LEMMA StillWhole == IInv /\ IInv' /\ WholeInv /\ UNCHANGED vars => WholeInv'
<1> SUFFICES ASSUME IInv, IInv', WholeInv, UNCHANGED vars, Untroubled'
             PROVE  halted' # "fault" /\ \E G, W : Gens(G, W)'
  BY DEF WholeInv
<1>1. UNCHANGED <<next, lost, dups, pool, count, data, flags, fseq, ring2_3, ring3_4,
                  dpc, pkt, tmp_udpFrame, p, gpc, gframe, kpc, kframe, drop_count,
                  exhausted, halted>>
  BY DEF vars, wire, frameVars, dobVars, godotVars, kazeVars
<1>2. Untroubled /\ halted # "fault"
  BY <1>1 DEF Untroubled, WholeInv
<1>3. PICK G, W : Gens(G, W)
  BY <1>2 DEF WholeInv
<1>4. Pipe' = Pipe /\ \A f : NumberOf(f)' = NumberOf(f)
  BY <1>1 DEF Pipe, Hand, NumberOf, FrameSeq
<1>5. \A f \in Frames : (Done(f)' => Done(f)) /\ (Reset(f)' <=> Reset(f))
  BY <1>1 DEF Done, In34, InKaze, InGodot, Reset
<1>6. /\ OnWire' /\ Numbering(G)' /\ Stale(G)' /\ Finished(G)'
      /\ InOrder(G)' /\ Covered(G, W)'
  <2>1. gpc' # "zero" /\ (Fresh' => Fresh)
    BY <1>1, <1>3 DEF Gens, OnWire, Fresh
  <2>2. QED
    BY <1>1, <1>3, <1>4, <1>5, <2>1, Carried
<1>7. Counted(G)' /\ Clean' /\ AtHand(G)'
  BY <1>1, <1>3, <1>5, KeptCounted, KeptClean, KeptAtHand DEF Gens
<1>8. Gens(G, W)'
  BY <1>6, <1>7 DEF Gens
<1>9. QED
  BY <1>1, <1>2, <1>8

LEMMA NextWhole ==
  ASSUME EnoughNumbers, IInv, IInv', WholeInv, [Next]_vars
  PROVE  WholeInv'
<1>1. CASE UNCHANGED vars
  BY <1>1, StillWhole
<1>2. CASE Next
  <2> SUFFICES ASSUME Untroubled'
               PROVE  halted' # "fault" /\ \E G, W : Gens(G, W)'
    BY DEF WholeInv
  <2>1. halted = "no"
    BY <1>2 DEF Next
  <2>2. Untroubled /\ ~TakeDuplicate /\ ~TimeOut /\ ~exhausted'
    <3>1. drop_count \in Nat /\ dups \in Nat
      BY DEF IInv, Types, TypeOK
    <3>2. /\ drop_count' = drop_count \/ drop_count' = drop_count + 1
          /\ dups' = dups \/ dups' = dups + 1
          /\ exhausted => exhausted'
          /\ TakeDuplicate => dups' = dups + 1
          /\ TimeOut => drop_count' = drop_count + 1
      BY <1>2 DEF Next, Take, TakeDuplicate, DobStep, Lookup, Get, Fill,
        EnqueueFrame, LoadForData, LoadForCount, Load, CopyIn, AddCount, GodotStep,
        TakeOldest, Complete, TimeOut, ZeroSlot, Forward, KazeStep, TakeToSend,
        CopyOut, ResetCount, ResetFlags, Unindex, PutFrame, wire
    <3>3. QED
      BY <3>1, <3>2 DEF Untroubled
  <2>3. Types /\ Sound /\ Types' /\ Sound'
    BY <2>2 DEF IInv, Sound, Untroubled
  <2>4. PICK G, W : Gens(G, W)
    BY <2>2 DEF WholeInv
  <2>5. CASE Take
    <3>1. halted' = halted
      BY <2>5 DEF Take
    <3>2. QED
      BY <2>1, <2>3, <2>4, <2>5, <3>1, TakeGens
  <2>6. CASE DobStep
    <3>1. CASE Lookup
      <4>1. halted' = halted
        BY <3>1 DEF Lookup
      <4>2. QED
        BY <2>1, <2>3, <2>4, <3>1, <4>1, LookupGens
    <3>2. CASE Get
      <4>1. halted' # "fault"
        BY <2>1, <3>2 DEF Get
      <4>2. QED
        BY <2>2, <2>3, <2>4, <3>2, <4>1, GetGens
    <3>3. CASE Fill
      BY <2>1, <2>3, <2>4, <3>3, FillGens
    <3>4. CASE EnqueueFrame \/ LoadForData \/ LoadForCount
      BY <2>1, <2>3, <2>4, <3>4, LoadGens
    <3>5. CASE CopyIn
      <4>1. halted' = halted
        BY <3>5 DEF CopyIn
      <4>2. QED
        BY <2>1, <2>3, <2>4, <3>5, <4>1, CopyInGens
    <3>6. CASE AddCount
      <4>1. halted' = halted
        BY <3>6 DEF AddCount
      <4>2. QED
        BY <2>1, <2>3, <2>4, <3>6, <4>1, AddGens
    <3>7. QED
      BY <2>6, <3>1, <3>2, <3>3, <3>4, <3>5, <3>6 DEF DobStep
  <2>7. CASE GodotStep \/ KazeStep
    <3>1. halted' = halted
      BY <2>7 DEF GodotStep, TakeOldest, Complete, TimeOut, ZeroSlot, Forward,
        KazeStep, TakeToSend, CopyOut, ResetCount, ResetFlags, Unindex, PutFrame
    <3>2. ~ZeroSlot
      BY <2>4 DEF ZeroSlot, Gens, OnWire
    <3>3. CASE Complete
      BY <2>1, <2>2, <2>3, <2>4, <3>1, <3>3, CompleteGens
    <3>4. CASE TakeOldest \/ Forward \/ TakeToSend
      BY <2>1, <2>2, <2>3, <2>4, <3>1, <3>4, HandOverGens
    <3>5. CASE CopyOut \/ ResetCount \/ ResetFlags \/ Unindex
      BY <2>1, <2>2, <2>3, <2>4, <3>1, <3>5, ResetGens
    <3>6. CASE PutFrame
      BY <2>1, <2>3, <2>4, <3>1, <3>6, PutGens
    <3>7. QED
      BY <2>2, <2>7, <3>2, <3>3, <3>4, <3>5, <3>6 DEF GodotStep, KazeStep
  <2>8. QED
    BY <1>2, <2>2, <2>5, <2>6, <2>7 DEF Next
<1>3. QED
  BY <1>1, <1>2

LEMMA WholeHolds == EnoughNumbers => (Spec => []WholeInv)
<1> SUFFICES ASSUME EnoughNumbers PROVE Spec => []WholeInv
  OBVIOUS
<1>1. IInv /\ IInv' /\ WholeInv /\ [Next]_vars => WholeInv'
  BY NextWhole
<1>2. QED
  BY <1>1, InitWhole, InvHolds, PTL DEF Spec

\* What KAZE sends is whole and what the pool has is clean
\* (basicfwd.cpp:572-646, 742-783, 902-947), as long as nothing is given up or
\* duplicated and there are numbers enough that no two frames in use share one.
THEOREM FramesAreWhole == EnoughNumbers => (Spec => []FramesWhole)
<1> SUFFICES ASSUME EnoughNumbers PROVE Spec => []FramesWhole
  OBVIOUS
<1>1. IInv /\ WholeInv => FramesWhole
  <2>1. SUFFICES ASSUME IInv, WholeInv, Untroubled
                 PROVE  /\ kpc = "copyOut" => SentWhole
                        /\ PoolClean
    BY DEF FramesWhole, SentWhole, PoolClean
  <2>2. Types /\ Sound
    BY <2>1 DEF IInv, Sound, Untroubled
  <2>3. PICK G, W : Gens(G, W)
    BY <2>1 DEF WholeInv
  <2>4. PoolClean
    BY <2>3 DEF PoolClean, Gens, Clean
  <2>5. ASSUME kpc = "copyOut" PROVE SentWhole
    <3>1. PICK k \in Frames : k = kframe /\ k \notin pool
      BY <2>2, <2>5 DEF Types, TypeOK, Sound, Placed, InKaze
    <3>2. Got(G, k) = Slots
      BY <2>3, <3>1 DEF Gens, Finished, Done, InKaze
    <3>3. PICK a \in Nat : a = G[k] /\ fseq[k] = a % NumFrameSeq
      <4>1. ~(dpc = "fill" /\ k = tmp_udpFrame)
        BY <2>2, <3>1, InHand
      <4>2. NumberOf(k) = fseq[k]
        BY <4>1 DEF NumberOf
      <4>3. QED
        BY <2>3, <3>1, <4>2 DEF Gens, Numbering
    <3>4. PackNum \in Nat \ {0} /\ 0 \in Slots
      BY SizesAssumption DEF Slots
    <3>5. PICK x \in Nat : x = a * PackNum
      BY <3>4
    <3>6. \A s \in Slots : data[k][s] = x + s
      BY <3>2, <3>3, <3>5 DEF Got
    <3>7. data[k][0] = x
      BY <3>4, <3>5, <3>6
    <3>8. x \div PackNum = a /\ x % PackNum = 0
      <4>1. a * PackNum <= x /\ x < a * PackNum + PackNum /\ x \in Int /\ a \in Int
        BY <3>4, <3>5
      <4>2. x \div PackNum = a /\ x % PackNum = x - a * PackNum
        BY <3>4, <4>1, Quotient
      <4>3. QED
        BY <3>5, <4>2
    <3>9. PacketSeq(x) = 0 /\ FrameSeq(x) = fseq[k]
      BY <3>3, <3>8 DEF PacketSeq, FrameSeq
    <3>10. x # None
      BY FramesAssumption
    <3>11. QED
      BY <3>1, <3>6, <3>7, <3>9, <3>10 DEF SentWhole
  <2>6. QED
    BY <2>4, <2>5
<1>2. QED
  BY <1>1, InvHolds, WholeHolds, PTL

\* The index entry DOB reads again for the copy and for the count
\* (basicfwd.cpp:636, 640) is not null, on the same condition.
THEOREM NoNullEntry == EnoughNumbers => (Spec => []FaultOnlyWhenTroubled)
<1> SUFFICES ASSUME EnoughNumbers PROVE Spec => []FaultOnlyWhenTroubled
  OBVIOUS
<1>1. WholeInv => FaultOnlyWhenTroubled
  BY DEF WholeInv, FaultOnlyWhenTroubled
<1>2. QED
  BY <1>1, WholeHolds, PTL
=============================================================================
