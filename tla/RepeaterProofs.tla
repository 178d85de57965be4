--------------------------- MODULE RepeaterProofs ---------------------------
(***************************************************************************)
(* Proofs about the repeater: about its routing table, for any sets of     *)
(* DHSMs and channels and any number of rings DPDK has room for, and about *)
(* the requests of thread2 and what becomes of them, for any size of their *)
(* pool and any number of channels.                                        *)
(***************************************************************************)
EXTENDS Repeater, DataFacts
-----------------------------------------------------------------------------
(* The routing table: RouteTable's Spec. *)

\* The pairs the DHSMs have asked for.
Asked == UNION {{<<c, d>> : c \in dhsm_channel_map[d]} : d \in DOMAIN dhsm_channel_map}

Pair == <<msg.channel_id, msg.dhsm_id>>

\* The request in hand is noted in what is asked for, not yet in the routes.
OneChange == Asked = Subs!Answered

\* Rings are created when there are none, the routes are derived from what
\* was asked for before they are, and lag behind by one request at most.
TableInv ==
  /\ RingsSound
  /\ pc = "create" => rings = {}
  /\ pc = "map2" => OneChange
  /\ pc # "map2" => Asked = Wanted(channel_dhsm_map)
  /\ RingsMatchRequests

LEMMA AskedPairs == \A r : r \in Asked <=>
  \E d \in DOMAIN dhsm_channel_map : \E c \in dhsm_channel_map[d] : r = <<c, d>>
  BY DEF Asked

LEMMA WantedPairs == ASSUME NEW map PROVE
  \A r : r \in Wanted(map) <=> \E c \in DOMAIN map : \E d \in map[c] : r = <<c, d>>
  BY DEF Wanted

LEMMA InitTableInv == InitTable => TableInv
<1> SUFFICES ASSUME InitTable PROVE TableInv
  OBVIOUS
<1> USE DEF InitTable
<1>1. TypeOK /\ NoRingLeaks
  BY DEF TypeOK, NoRingLeaks
<1>2. Asked = {} /\ Wanted(channel_dhsm_map) = {}
  BY DEF Asked, Wanted
<1>3. RingsMatchRequests
  BY <1>2 DEF RingsMatchRequests, Asked
<1>4. QED
  BY <1>1, <1>2, <1>3 DEF TableInv, RingsSound

\* A request changes the pairs asked for as it says.
LEMMA Map1Change ==
  ASSUME TypeOK, GenerateMap1
  PROVE  Asked' = IF Adding THEN Asked \cup (IF InRange THEN {Pair} ELSE {})
                            ELSE Asked \ (IF InRange THEN {Pair} ELSE {})
<1>1. \A r : r \in Asked' <=>
        \E d \in DOMAIN dhsm_channel_map' : \E c \in dhsm_channel_map'[d] : r = <<c, d>>
  BY DEF Asked
<1>2. CASE AddDhsm
  <2>1. /\ DOMAIN dhsm_channel_map' = DOMAIN dhsm_channel_map \cup {msg.dhsm_id}
        /\ msg.dhsm_id \notin DOMAIN dhsm_channel_map
        /\ dhsm_channel_map'[msg.dhsm_id] = {msg.channel_id}
        /\ \A d \in DOMAIN dhsm_channel_map : dhsm_channel_map'[d] = dhsm_channel_map[d]
    BY <1>2 DEF AddDhsm, With, Known, InRange
  <2>a. Adding /\ InRange
    BY <1>2 DEF AddDhsm
  <2>2. \A r : r \in Asked' <=> r \in Asked \/ r = Pair
    BY <1>1, <2>1, AskedPairs, Zenon DEF Pair
  <2>3. QED
    BY <2>a, <2>2
<1>3. CASE AddChannel
  <2>1. /\ DOMAIN dhsm_channel_map' = DOMAIN dhsm_channel_map
        /\ msg.dhsm_id \in DOMAIN dhsm_channel_map
        /\ dhsm_channel_map'[msg.dhsm_id] = dhsm_channel_map[msg.dhsm_id] \cup {msg.channel_id}
        /\ \A d \in DOMAIN dhsm_channel_map : d # msg.dhsm_id =>
             dhsm_channel_map'[d] = dhsm_channel_map[d]
    BY <1>3 DEF AddChannel, Known, InRange
  <2>a. Adding /\ InRange
    BY <1>3 DEF AddChannel
  <2>2. \A r : r \in Asked' <=> r \in Asked \/ r = Pair
    BY <1>1, <2>1, AskedPairs DEF Pair
  <2>3. QED
    BY <2>a, <2>2
<1>4. CASE RemoveChannel
  <2>1. /\ DOMAIN dhsm_channel_map' = DOMAIN dhsm_channel_map
        /\ msg.dhsm_id \in DOMAIN dhsm_channel_map
        /\ dhsm_channel_map'[msg.dhsm_id] = dhsm_channel_map[msg.dhsm_id] \ {msg.channel_id}
        /\ \A d \in DOMAIN dhsm_channel_map : d # msg.dhsm_id =>
             dhsm_channel_map'[d] = dhsm_channel_map[d]
    BY <1>4 DEF RemoveChannel, Known, InRange
  <2>a. ~Adding /\ InRange
    BY <1>4 DEF RemoveChannel
  <2>2. \A r : r \in Asked' <=> r \in Asked /\ r # Pair
    BY <1>1, <2>1, AskedPairs DEF Pair
  <2>3. QED
    BY <2>a, <2>2
<1>5. CASE SkipUnknown \/ RefuseOverflow \/ IgnoreOverflow
  <2>1. dhsm_channel_map' = dhsm_channel_map
    BY <1>5 DEF SkipUnknown, RefuseOverflow, IgnoreOverflow
  <2>2. Asked' = Asked
    BY <2>1 DEF Asked
  <2>3. CASE ~InRange
    BY <2>2, <2>3
  <2>4. CASE ~Known /\ ~Adding
    <3>1. Pair \notin Asked
      BY <2>4, AskedPairs DEF Pair, Known
    <3>2. QED
      BY <2>2, <2>4, <3>1
  <2>5. QED
    BY <1>5, <2>3, <2>4 DEF SkipUnknown, RefuseOverflow, IgnoreOverflow
<1>6. QED
  BY <1>2, <1>3, <1>4, <1>5 DEF GenerateMap1

\* The inverse map wants exactly what was asked for.
LEMMA Map2Inverts ==
  ASSUME TypeOK, GenerateMap2
  PROVE  /\ Wanted(channel_dhsm_map') = Asked
         /\ DOMAIN channel_dhsm_map' \subseteq Channels
         /\ \A c \in DOMAIN channel_dhsm_map' : channel_dhsm_map'[c] \in (SUBSET Dhsms) \ {{}}
<1> DEFINE sum == UNION {dhsm_channel_map[d] : d \in DOMAIN dhsm_channel_map}
<1>1. \A c : c \in sum <=> \E d \in DOMAIN dhsm_channel_map : c \in dhsm_channel_map[d]
  OBVIOUS
<1>2. channel_dhsm_map' = [c \in sum |->
        {d \in DOMAIN dhsm_channel_map : c \in dhsm_channel_map[d]}]
  BY DEF GenerateMap2
<1> HIDE DEF sum
<1>3. /\ DOMAIN channel_dhsm_map' = sum
      /\ \A c \in sum : channel_dhsm_map'[c] =
           {d \in DOMAIN dhsm_channel_map : c \in dhsm_channel_map[d]}
  BY <1>2
<1>4. \A r : r \in Wanted(channel_dhsm_map') <=> r \in Asked
  BY <1>1, <1>3, AskedPairs, WantedPairs
<1>5. sum \subseteq Channels
  BY <1>1 DEF TypeOK
<1>6. QED
  BY <1>1, <1>3, <1>4, <1>5 DEF TypeOK

\* Rings made for the routes, each kept under its channel.
LEMMA RingsMade ==
  ASSUME TableInv, GenerateRing
  PROVE  /\ rings' \subseteq Asked
         /\ rings' = Asked \/ Cardinality(rings') = MaxRings
         /\ NoRingLeaks'
<1>1. rings = {} /\ Asked = Wanted(channel_dhsm_map)
  BY DEF TableInv, GenerateRing
<1>2. Cardinality(rings) = 0 /\ MaxRings - 0 = MaxRings
  BY <1>1, FS_EmptySet, RoomAssumption
<1>3. PICK made \in SUBSET Wanted(channel_dhsm_map) :
        /\ made = Wanted(channel_dhsm_map) \/ Cardinality(made) = MaxRings
        /\ rings' = made
        /\ channel_dhsm_ring_map' =
             [c \in DOMAIN channel_dhsm_map |-> {r \in made : r[1] = c}]
  BY <1>1, <1>2 DEF GenerateRing
<1>4. \A r \in made : r[1] \in DOMAIN channel_dhsm_map
  <2>1. \A r \in made : \E c \in DOMAIN channel_dhsm_map :
          \E d \in channel_dhsm_map[c] : r = <<c, d>>
    BY WantedPairs
  <2>2. QED
    BY <2>1
<1>5. NoRingLeaks'
  BY <1>3, <1>4 DEF NoRingLeaks
<1>6. QED
  BY <1>1, <1>3, <1>5

LEMMA NextTableInv == TableInv /\ [Receive \/ Handle]_tableVars => TableInv'
<1> SUFFICES ASSUME TableInv, [Receive \/ Handle]_tableVars PROVE TableInv'
  OBVIOUS
<1>0. TypeOK /\ NoRingLeaks
  BY DEF TableInv, RingsSound
<1>1. CASE Receive
  <2>1. TypeOK' /\ NoRingLeaks'
    BY <1>0, <1>1 DEF Receive, maps, TypeOK, NoRingLeaks
  <2>2. Asked' = Asked /\ Wanted(channel_dhsm_map)' = Wanted(channel_dhsm_map)
    BY <1>1 DEF Receive, maps, Asked, Wanted
  <2>3. QED
    BY <1>1, <2>1, <2>2 DEF Receive, TableInv, RingsSound, RingsMatchRequests
<1>2. CASE GenerateMap1
  <2>1. UNCHANGED <<channel_dhsm_map, channel_dhsm_ring_map, rings, msg>>
        /\ pc = "map1" /\ pc' = "map2"
    BY <1>2 DEF GenerateMap1
  <2>2. /\ DOMAIN dhsm_channel_map' \subseteq Dhsms
        /\ \A d \in DOMAIN dhsm_channel_map' : dhsm_channel_map'[d] \subseteq Channels
        /\ ret' \in {0, 1}
    <3>1. msg.dhsm_id \in Dhsms
      BY <1>0 DEF TypeOK, Messages
    <3>2. QED
      BY <1>0, <1>2, <3>1 DEF GenerateMap1, AddDhsm, SkipUnknown, RefuseOverflow,
        AddChannel, RemoveChannel, IgnoreOverflow, With, InRange, Known, TypeOK
  <2>3. TypeOK' /\ NoRingLeaks'
    BY <1>0, <2>1, <2>2 DEF TypeOK, NoRingLeaks
  <2>4. Asked = Wanted(channel_dhsm_map) /\ Wanted(channel_dhsm_map)' = Wanted(channel_dhsm_map)
    BY <2>1 DEF TableInv, Wanted
  <2>5. OneChange'
    <3>1. Asked' = IF Adding THEN Asked \cup (IF InRange THEN {Pair} ELSE {})
                             ELSE Asked \ (IF InRange THEN {Pair} ELSE {})
      BY <1>0, <1>2, Map1Change
    <3>2. msg' = msg
      BY <2>1
    <3>3. QED
      BY <2>4, <3>1, <3>2 DEF OneChange, Pair, Adding, InRange, Subs!Answered, Subs!Named
  <2>6. QED
    BY <2>1, <2>3, <2>5 DEF TableInv, RingsSound, RingsMatchRequests
<1>3. CASE GenerateMap2
  <2>1. UNCHANGED <<dhsm_channel_map, channel_dhsm_ring_map, rings, msg, ret>> /\ pc' = "free"
    BY <1>3 DEF GenerateMap2
  <2>2. TypeOK' /\ NoRingLeaks'
    BY <1>0, <1>3, <2>1, Map2Inverts DEF TypeOK, NoRingLeaks
  <2>3. Asked' = Asked /\ Wanted(channel_dhsm_map)' = Wanted(channel_dhsm_map')
    BY <2>1 DEF Asked, Wanted
  <2>4. QED
    BY <1>0, <1>3, <2>1, <2>2, <2>3, Map2Inverts DEF TableInv, RingsSound, RingsMatchRequests
<1>4. CASE FreeRing
  <2>1. UNCHANGED <<maps, msg, ret>> /\ pc = "free" /\ pc' = "create"
    BY <1>4 DEF FreeRing
  <2>2. rings' = {} /\ channel_dhsm_ring_map' = [c \in {} |-> {}]
    BY <1>0, <1>4 DEF FreeRing, NoRingLeaks
  <2>3. TypeOK' /\ NoRingLeaks'
    BY <1>0, <2>1, <2>2 DEF TypeOK, NoRingLeaks, maps
  <2>4. Asked' = Asked /\ Wanted(channel_dhsm_map)' = Wanted(channel_dhsm_map)
    BY <2>1 DEF Asked, Wanted, maps
  <2>5. QED
    BY <2>1, <2>2, <2>3, <2>4 DEF TableInv, RingsSound, RingsMatchRequests
<1>5. CASE GenerateRing
  <2>1. UNCHANGED <<maps, msg, ret>> /\ pc = "create" /\ pc' = "idle"
    BY <1>5 DEF GenerateRing
  <2>2. Asked' = Asked /\ Wanted(channel_dhsm_map)' = Wanted(channel_dhsm_map)
    BY <2>1 DEF Asked, Wanted, maps
  <2>3. Asked = Wanted(channel_dhsm_map)
    BY <2>1 DEF TableInv
  <2>4. Asked \subseteq Channels \X Dhsms
    BY <1>0, AskedPairs DEF TypeOK
  <2>5. DOMAIN channel_dhsm_ring_map' \subseteq Channels
    BY <1>0, <1>5 DEF GenerateRing, TypeOK
  <2>6. TypeOK'
    BY <1>0, <1>5, <2>1, <2>4, <2>5, RingsMade DEF TypeOK, maps
  <2>7. RingsMatchRequests'
    BY <1>5, <2>2, RingsMade DEF RingsMatchRequests, Asked
  <2>8. QED
    BY <1>5, <2>1, <2>2, <2>3, <2>6, <2>7, RingsMade DEF TableInv, RingsSound
<1>6. CASE UNCHANGED tableVars
  <2>1. TypeOK' /\ NoRingLeaks' /\ RingsMatchRequests'
    BY <1>0, <1>6 DEF TableInv, tableVars, maps, TypeOK, NoRingLeaks, RingsMatchRequests
  <2>2. Asked' = Asked /\ Wanted(channel_dhsm_map)' = Wanted(channel_dhsm_map)
    BY <1>6 DEF Asked, Wanted, tableVars, maps
  <2>3. QED
    BY <1>6, <2>1, <2>2 DEF TableInv, RingsSound, OneChange, Subs!Answered, Subs!Named, tableVars
<1>7. QED
  BY <1>1, <1>2, <1>3, <1>4, <1>5, <1>6 DEF Handle

LEMMA TableInvHolds == Spec => []TableInv
  BY InitTableInv, NextTableInv, PTL DEF Spec

\* Whatever requests come and whichever creations fail, every ring that
\* exists is known to the table under its channel (repeater.cpp:242-286).
THEOREM RingsAccounted == Spec => []RingsSound
<1>1. TableInv => RingsSound
  BY DEF TableInv
<1>2. QED
  BY TableInvHolds, <1>1, PTL

\* Between requests the rings are those the DHSMs asked for, short of some
\* only when DPDK is full.
THEOREM RingsAsRequested == Spec => []RingsMatchRequests
<1>1. TableInv => RingsMatchRequests
  BY DEF TableInv
<1>2. QED
  BY TableInvHolds, <1>1, PTL

\* The table, which rebuilds all routes for each request, implements a
\* relation to which each request does what it asks for, once, and no more.
THEOREM ImplementsSubscriptions == Spec => SubsSpec
<1> DEFINE routes == Wanted(channel_dhsm_map)
           pending == pc \in {"map1", "map2"}
<1>1. InitTable => Subs!Init
  BY DEF InitTable, Subs!Init, Wanted, Messages, Subs!Requests
<1>2. TableInv /\ [Receive \/ Handle]_tableVars
        => [Subs!Ask \/ Subs!Answer]_<<routes, msg, pending>>
  <2> SUFFICES ASSUME TableInv, [Receive \/ Handle]_tableVars
               PROVE  \/ Subs!Ask \/ Subs!Answer
                      \/ UNCHANGED <<routes, msg, pending>>
    OBVIOUS
  <2>1. CASE Receive
    <3>1. routes' = routes
      BY <2>1 DEF Receive, maps, Wanted
    <3>2. QED
      BY <2>1, <3>1 DEF Receive, Messages, Subs!Ask, Subs!Requests
  <2>2. CASE GenerateMap2
    <3>1. TypeOK /\ OneChange
      BY <2>2 DEF TableInv, RingsSound, GenerateMap2
    <3>2. routes' = Subs!Answered
      BY <2>2, <3>1, Map2Inverts DEF OneChange, Wanted
    <3>3. pc = "map2" /\ pc' = "free" /\ msg' = msg
      BY <2>2 DEF GenerateMap2
    <3>4. QED
      BY <3>2, <3>3 DEF Subs!Answer
  <2>3. CASE GenerateMap1 \/ FreeRing \/ GenerateRing \/ UNCHANGED tableVars
    <3>1. channel_dhsm_map' = channel_dhsm_map /\ msg' = msg /\ pending' = pending
      BY <2>3 DEF GenerateMap1, FreeRing, GenerateRing, tableVars, maps
    <3>2. routes' = routes
      BY <3>1 DEF Wanted
    <3>3. QED
      BY <3>1, <3>2
  <2>4. QED
    BY <2>1, <2>2, <2>3 DEF Handle
<1>3. QED
  BY TableInvHolds, <1>1, <1>2, PTL DEF Spec, SubsSpec, Subs!Spec
-----------------------------------------------------------------------------
(* The requests: RepeaterSpec. *)

\* The objects of the pool are accounted for, and none is lost but by an
\* enqueue that finds the ring full.
IInv ==
  /\ free \in Nat /\ app_id_ring \in Seq(Messages)
  /\ t1 \in {"start", "pool", "check", "dequeue", "handle"}
  /\ t2 \in {"wait", "lookup", "get", "send", "sleep"}
  /\ Len(app_id_ring) <= RingCap
  /\ x \in Channels /\ y \in BOOLEAN
  /\ LostAtMostOne

LEMMA Sizes ==
  /\ RingCap \in Nat /\ PoolSize = RingCap + 1
  /\ 0 \in Channels
  /\ \A n \in Channels : n + 1 # NumChannels => n + 1 \in Channels
<1>1. RingCap \in Nat /\ PoolSize = RingCap + 1
  BY ScriptAssumption DEF RingCap
<1>2. NumChannels \in Nat /\ Channels = 0..(NumChannels - 1) /\ Channels # {}
  BY ScriptAssumption, RoomAssumption, FS_CardinalityType DEF NumChannels
<1>3. NumChannels # 0
  BY <1>2
<1>4. QED
  BY <1>1, <1>2, <1>3

LEMMA InitInv == Init => IInv
<1> SUFFICES ASSUME Init PROVE IInv
  OBVIOUS
<1>1. /\ free = PoolSize /\ app_id_ring = <<>> /\ Len(app_id_ring) = 0
      /\ t1 = "start" /\ t2 = "wait" /\ x = 0 /\ y = TRUE
  BY DEF Init
<1>2. LostAtMostOne
  <2>1. Held1 = 0 /\ Held2 = 0
    BY <1>1 DEF Held1, Held2
  <2>2. PoolSize \in Nat
    BY Sizes
  <2>3. Lost = PoolSize - (PoolSize + 0 + 0 + 0)
    BY <1>1, <2>1 DEF Lost
  <2>4. QED
    BY <2>2, <2>3 DEF LostAtMostOne
<1>3. QED
  BY <1>1, <1>2, Sizes DEF IInv

\* A step that leaves requests, objects and script alone.
LEMMA ElsewhereInv ==
  ASSUME IInv, UNCHANGED <<app_id_ring, free, x, y>>,
         t1' \in {"start", "pool", "check", "dequeue", "handle"},
         t2' \in {"wait", "lookup", "get", "send", "sleep"},
         Held1' = Held1, Held2' = Held2
  PROVE  IInv'
  BY DEF IInv, LostAtMostOne, Lost

LEMMA Thread1Inv == IInv /\ Thread1 => IInv'
<1> SUFFICES ASSUME IInv, Thread1 PROVE IInv'
  OBVIOUS
<1>0. PoolSize \in Nat /\ RingCap \in Nat
  BY Sizes
<1>1. CASE Create \/ CheckCreated
  <2>1. /\ UNCHANGED <<app_id_ring, free, t2, x, y>>
        /\ t1 \in {"start", "pool", "check"} /\ t1' \in {"pool", "check", "dequeue"}
    BY <1>1 DEF Create, CreateObject, CheckCreated, ringVars
  <2>2. Held1' = Held1 /\ Held2' = Held2
    BY <2>1 DEF Held1, Held2
  <2>3. QED
    BY <2>1, <2>2, ElsewhereInv DEF IInv
<1>2. CASE Dequeue
  <2>1. /\ app_id_ring \in Seq(Messages) /\ app_id_ring # <<>>
        /\ app_id_ring' = Tail(app_id_ring) /\ t1 = "dequeue" /\ t1' = "handle"
        /\ UNCHANGED <<free, t2, x, y>>
    BY <1>2 DEF Dequeue, IInv
  <2>2. /\ app_id_ring' \in Seq(Messages) /\ Len(app_id_ring) \in Nat
        /\ Len(app_id_ring') = Len(app_id_ring) - 1
    BY <2>1
  <2>3. Held1' = Held1 + 1 /\ Held2' = Held2 /\ Held1 = 0 /\ Held2 \in {0, 1}
    BY <2>1 DEF Held1, Held2
  <2>4. Lost' = Lost
    BY <1>0, <2>1, <2>2, <2>3 DEF IInv, Lost
  <2>5. QED
    BY <1>0, <2>1, <2>2, <2>4 DEF IInv, LostAtMostOne
<1>3. CASE HandleMsg
  <2>1. Held1' = Held1 /\ Held2' = Held2
    BY <1>3 DEF HandleMsg, Held1, Held2
  <2>2. QED
    BY <1>3, <2>1, ElsewhereInv DEF HandleMsg, ringVars, IInv
<1>4. CASE PutMsg
  <2>1. /\ t1 = "handle" /\ t1' = "dequeue" /\ free' = free + 1
        /\ UNCHANGED <<app_id_ring, t2, x, y>>
    BY <1>4 DEF PutMsg
  <2>2. Held1' = 0 /\ Held1 = 1 /\ Held2' = Held2 /\ Held2 \in {0, 1}
    BY <2>1 DEF Held1, Held2
  <2>3. Len(app_id_ring) \in Nat /\ free \in Nat
    BY DEF IInv
  <2>4. Lost' = Lost
    BY <1>0, <2>1, <2>2, <2>3 DEF Lost
  <2>5. QED
    BY <2>1, <2>3, <2>4 DEF IInv, LostAtMostOne
<1>5. QED
  BY <1>1, <1>2, <1>3, <1>4 DEF Thread1

LEMMA Thread2Inv == IInv /\ Thread2 => IInv'
<1> SUFFICES ASSUME IInv, Thread2 PROVE IInv'
  OBVIOUS
<1>0. PoolSize \in Nat /\ RingCap \in Nat /\ PoolSize = RingCap + 1
  BY Sizes
<1>1. CASE SeeInit \/ LookUp
  <2>1. /\ UNCHANGED <<app_id_ring, free, t1, x, y>>
        /\ t2 \in {"wait", "lookup"} /\ t2' \in {"lookup", "get"}
    BY <1>1 DEF SeeInit, LookUp, ringVars
  <2>2. Held1' = Held1 /\ Held2' = Held2
    BY <2>1 DEF Held1, Held2
  <2>3. QED
    BY <2>1, <2>2, ElsewhereInv DEF IInv
<1>2. CASE Get
  <2>1. /\ t2 = "get" /\ t2' = "send" /\ free > 0 /\ free' = free - 1
        /\ UNCHANGED <<app_id_ring, t1, x, y>>
    BY <1>2 DEF Get
  <2>2. Held2' = 1 /\ Held2 = 0 /\ Held1' = Held1 /\ Held1 \in {0, 1}
    BY <2>1 DEF Held1, Held2
  <2>3. Len(app_id_ring) \in Nat /\ free \in Nat /\ free' \in Nat
    BY <2>1 DEF IInv
  <2>4. Lost' = Lost
    BY <1>0, <2>1, <2>2, <2>3 DEF Lost
  <2>5. QED
    BY <2>1, <2>3, <2>4 DEF IInv, LostAtMostOne
<1>3. CASE Send
  <2>1. /\ t2 = "send" /\ t2' = "sleep" /\ UNCHANGED <<free, t1, x, y>>
    BY <1>3 DEF Send
  <2>2. Held2' = 0 /\ Held2 = 1 /\ Held1' = Held1 /\ Held1 \in {0, 1}
    BY <2>1 DEF Held1, Held2
  <2>3. /\ app_id_ring \in Seq(Messages) /\ Len(app_id_ring) \in Nat
        /\ free \in Nat /\ Lost \in {0, 1}
    BY DEF IInv, LostAtMostOne
  <2>4. CASE Len(app_id_ring) < RingCap
    <3>1. PICK m \in Messages : app_id_ring' = Append(app_id_ring, m)
      <4>1. [dhsm_id |-> Dhsm, channel_id |-> x, flag |-> y] \in Messages
        BY ScriptAssumption, ChannelsAssumption DEF IInv, Messages
      <4>2. QED
        BY <1>3, <2>4, <4>1 DEF Send
    <3>2. app_id_ring' \in Seq(Messages) /\ Len(app_id_ring') = Len(app_id_ring) + 1
      BY <2>3, <3>1
    <3>3. Lost' = Lost
      BY <1>0, <2>1, <2>2, <2>3, <3>2 DEF Lost
    <3>4. QED
      BY <1>0, <2>1, <2>3, <2>4, <3>2, <3>3 DEF IInv, LostAtMostOne
  <2>5. CASE ~(Len(app_id_ring) < RingCap)
    <3>1. app_id_ring' = app_id_ring /\ Len(app_id_ring) = RingCap
      BY <1>0, <1>3, <2>3, <2>5 DEF Send, IInv
    <3>2. Lost + free + Held1 = 0
      BY <1>0, <2>2, <2>3, <3>1 DEF Lost
    <3>3. Lost = 0
      BY <2>2, <2>3, <3>2
    <3>4. Lost' = Lost + 1
      BY <1>0, <2>1, <2>2, <2>3, <3>1 DEF Lost
    <3>5. QED
      BY <2>1, <3>1, <3>3, <3>4 DEF IInv, LostAtMostOne
  <2>6. QED
    BY <2>4, <2>5
<1>4. CASE Advance
  <2>1. UNCHANGED <<app_id_ring, free, t1>> /\ t2 = "sleep" /\ t2' = "get"
    BY <1>4 DEF Advance, ringVars
  <2>2. x' \in Channels /\ y' \in BOOLEAN
    <3>1. CASE x + 1 = NumChannels
      BY <1>4, <3>1, Sizes DEF Advance, IInv
    <3>2. CASE x + 1 # NumChannels
      BY <1>4, <3>2, Sizes DEF Advance, IInv
    <3>3. QED
      BY <3>1, <3>2
  <2>3. Lost' = Lost
    BY <2>1 DEF Lost, Held1, Held2
  <2>4. QED
    BY <2>1, <2>2, <2>3 DEF IInv, LostAtMostOne
<1>5. QED
  BY <1>1, <1>2, <1>3, <1>4 DEF Thread2

LEMMA NextInv == IInv /\ [Thread1 \/ Thread2]_vars => IInv'
<1>1. IInv /\ UNCHANGED vars => IInv'
  BY ElsewhereInv DEF vars, ringVars, Held1, Held2, IInv
<1>2. QED
  BY <1>1, Thread1Inv, Thread2Inv

\* The enqueue that thread2 does not check (repeater.cpp:384) loses one
\* request at most, for any size of pool and ring and any number of channels.
THEOREM AtMostOneLost == RepeaterSpec => []LostAtMostOne
<1>1. IInv => LostAtMostOne
  BY DEF IInv
<1>2. QED
  BY <1>1, InitInv, NextInv, PTL DEF RepeaterSpec

-----------------------------------------------------------------------------
(* The script: the routes are those of the requests handled so far. *)

Cycle == 2 * NumChannels
Turn(k) == k % Cycle

\* The request of a step of the cycle, and the channels routed before it.
Request(p) == IF p < NumChannels
              THEN [dhsm_id |-> Dhsm, channel_id |-> p, flag |-> TRUE]
              ELSE [dhsm_id |-> Dhsm, channel_id |-> p - NumChannels, flag |-> FALSE]
Routed(p) == IF p <= NumChannels THEN {c \in Channels : c < p}
             ELSE {c \in Channels : c >= p - NumChannels}

\* Requests that are not yet noted in dhsm_channel_map, and what is noted.
Behind == Len(app_id_ring) + (IF pc = "map1" THEN 1 ELSE 0)
Noted == UNION {dhsm_channel_map[d] : d \in DOMAIN dhsm_channel_map}

\* What is on its way are the next requests of the script, in their order.
OnScript ==
  /\ \A i \in 1..Len(app_id_ring) :
       app_id_ring[i] = Request(Turn(Sent - Len(app_id_ring) + i - 1))
  /\ pc \in {"map1", "map2"} => msg = Request(Turn(Sent - Len(app_id_ring) - 1))
  /\ DOMAIN dhsm_channel_map \subseteq {Dhsm} /\ Noted = Routed(Turn(Sent - Behind))
  /\ DOMAIN channel_dhsm_map = Routed(Turn(Sent - Waiting))

ScriptInv ==
  /\ IInv
  /\ pc \in {"idle", "map1", "map2", "free", "create"}
  /\ t1 # "handle" => pc = "idle"
  /\ Lost = 0 => OnScript

LEMMA TurnFacts ==
  /\ NumChannels \in Nat \ {0} /\ Cycle \in Nat \ {0} /\ Cycle = NumChannels + NumChannels
  /\ Channels = 0..(NumChannels - 1)
  /\ \A k \in Int : /\ Turn(k) \in 0..(Cycle - 1)
                    /\ Turn(k + 1) = IF Turn(k) + 1 = Cycle THEN 0 ELSE Turn(k) + 1
                    /\ Turn(k + Cycle) = Turn(k)
  /\ \A k \in 0..(Cycle - 1) : Turn(k) = k
<1>1. /\ NumChannels \in Nat \ {0} /\ Channels = 0..(NumChannels - 1)
      /\ Cycle = NumChannels + NumChannels
  <2>1. NumChannels \in Nat /\ Channels = 0..(NumChannels - 1) /\ Channels # {}
    BY ScriptAssumption, RoomAssumption, FS_CardinalityType DEF NumChannels
  <2>2. QED
    BY <2>1 DEF Cycle
<1>2. Cycle \in Nat \ {0}
  BY <1>1
<1>3. \A k \in 0..(Cycle - 1) : Turn(k) = k
  <2>1. ASSUME NEW k \in 0..(Cycle - 1) PROVE k % Cycle = k
    <3>1. PICK n \in Nat \ {0}, q \in Int : n = Cycle /\ q = 0
      BY <1>2
    <3>2. q * n = 0
      BY <3>1
    <3>3. k \in Int /\ q * n <= k /\ k < q * n + n
      BY <3>1, <3>2
    <3>4. k % n = k - q * n
      BY <3>3, Quotient
    <3>5. QED
      BY <3>1, <3>2, <3>4
  <2>2. QED
    BY <2>1 DEF Turn
<1>4. ASSUME NEW k \in Int
      PROVE  /\ Turn(k) \in 0..(Cycle - 1)
             /\ Turn(k + 1) = IF Turn(k) + 1 = Cycle THEN 0 ELSE Turn(k) + 1
             /\ Turn(k + Cycle) = Turn(k)
  <2>1. Turn(k) \in 0..(Cycle - 1)
    BY <1>2, ModRange DEF Turn
  <2>2. Turn(k + Cycle) = Turn(k) /\ Turn(k + 1) = Turn(Turn(k) + 1)
    BY <1>2, ModSteps DEF Turn
  <2>3. CASE Turn(k) + 1 = Cycle
    <3>1. Turn(0 + Cycle) = Turn(0)
      BY <1>2, ModSteps DEF Turn
    <3>2. Turn(Turn(k) + 1) = 0
      BY <1>2, <1>3, <2>3, <3>1
    <3>3. QED
      BY <2>1, <2>2, <2>3, <3>2
  <2>4. CASE Turn(k) + 1 # Cycle
    <3>1. Turn(k) + 1 \in 0..(Cycle - 1)
      BY <1>2, <2>1, <2>4
    <3>2. QED
      BY <1>3, <2>1, <2>2, <2>4, <3>1
  <2>5. QED
    BY <2>3, <2>4
<1>5. QED
  BY <1>1, <1>2, <1>3, <1>4

\* A request of the script does to the channels noted what the script says.
LEMMA RequestRoutes ==
  ASSUME NEW p \in 0..(Cycle - 1), NEW q,
         q = IF p + 1 = Cycle THEN 0 ELSE p + 1
  PROVE  LET r == Request(p)
         IN /\ r.dhsm_id = Dhsm /\ r.channel_id \in Channels
            /\ r.flag => Routed(q) = Routed(p) \cup {r.channel_id}
            /\ ~r.flag => Routed(q) = Routed(p) \ {r.channel_id}
            /\ Routed(p) = {} => r.flag
<1>0. /\ NumChannels \in Nat \ {0} /\ Channels = 0..(NumChannels - 1)
      /\ Cycle = NumChannels + NumChannels /\ p \in Nat /\ p < Cycle
  BY TurnFacts
<1>1. CASE p < NumChannels
  <2>1. Request(p) = [dhsm_id |-> Dhsm, channel_id |-> p, flag |-> TRUE]
    BY <1>1 DEF Request
  <2>2. p \in Channels /\ q = p + 1 /\ q <= NumChannels /\ p <= NumChannels
    BY <1>0, <1>1
  <2>3. Routed(p) = {c \in Channels : c < p}
    BY <2>2 DEF Routed
  <2>4. Routed(q) = {c \in Channels : c < q}
    BY <2>2 DEF Routed
  <2>5. \A c \in Channels : c < q <=> c < p \/ c = p
    BY <1>0, <2>2
  <2>6. Routed(q) = Routed(p) \cup {p}
    BY <2>2, <2>3, <2>4, <2>5
  <2>7. QED
    BY <2>1, <2>2, <2>6
<1>2. CASE ~(p < NumChannels)
  <2>1. PICK n \in Channels : n = p - NumChannels
    BY <1>0, <1>2
  <2>2. Request(p) = [dhsm_id |-> Dhsm, channel_id |-> n, flag |-> FALSE]
    BY <1>2, <2>1 DEF Request
  <2>3. Routed(p) = {c \in Channels : c >= n}
    <3>1. CASE p <= NumChannels
      <4>1. p = NumChannels /\ n = 0
        BY <1>0, <1>2, <2>1, <3>1
      <4>2. \A c \in Channels : c < p /\ c >= n
        BY <1>0, <4>1
      <4>3. QED
        BY <3>1, <4>2 DEF Routed
    <3>2. CASE ~(p <= NumChannels)
      BY <2>1, <3>2 DEF Routed
    <3>3. QED
      BY <3>1, <3>2
  <2>4. Routed(q) = {c \in Channels : c >= n + 1}
    <3>1. CASE p + 1 = Cycle
      <4>1. q = 0 /\ q <= NumChannels /\ \A c \in Channels : ~(c < q) /\ ~(c >= n + 1)
        BY <1>0, <2>1, <3>1
      <4>2. QED
        BY <4>1 DEF Routed
    <3>2. CASE p + 1 # Cycle
      <4>1. q = p + 1 /\ ~(q <= NumChannels) /\ q - NumChannels = n + 1
        BY <1>0, <1>2, <2>1, <3>2
      <4>2. QED
        BY <4>1 DEF Routed
    <3>3. QED
      BY <3>1, <3>2
  <2>5. \A c \in Channels : c >= n + 1 <=> c >= n /\ c # n
    BY <1>0, <2>1
  <2>6. Routed(q) = Routed(p) \ {n}
    BY <2>3, <2>4, <2>5
  <2>7. n \in Routed(p)
    BY <1>0, <2>1, <2>3
  <2>8. QED
    BY <2>1, <2>2, <2>6, <2>7
<1>3. QED
  BY <1>1, <1>2

LEMMA InitScript == Init => ScriptInv
<1> SUFFICES ASSUME Init PROVE ScriptInv
  OBVIOUS
<1>1. /\ app_id_ring = <<>> /\ Len(app_id_ring) = 0 /\ x = 0 /\ y = TRUE /\ pc = "idle"
      /\ t1 = "start" /\ t2 = "wait"
      /\ DOMAIN dhsm_channel_map = {} /\ DOMAIN channel_dhsm_map = {}
  BY DEF Init, InitTable
<1>2. Sent = 0 /\ Behind = 0 /\ Waiting = 0 /\ Noted = {}
  BY <1>1, TurnFacts DEF Sent, Behind, Waiting, Noted
<1>3. Turn(0) = 0 /\ Routed(0) = {}
  BY TurnFacts DEF Routed
<1>4. OnScript
  BY <1>1, <1>2, <1>3 DEF OnScript
<1>5. QED
  BY <1>1, <1>4, InitInv DEF ScriptInv

\* An enqueue with room for the request.
LEMMA SentIs ==
  ASSUME IInv, Send, Len(app_id_ring) < RingCap
  PROVE  /\ Len(app_id_ring') = Len(app_id_ring) + 1
         /\ app_id_ring'[Len(app_id_ring) + 1] =
              [dhsm_id |-> Dhsm, channel_id |-> x, flag |-> y]
         /\ \A i \in 1..Len(app_id_ring) : app_id_ring'[i] = app_id_ring[i]
<1>1. PICK m \in Messages : m = [dhsm_id |-> Dhsm, channel_id |-> x, flag |-> y]
  BY ScriptAssumption, ChannelsAssumption DEF IInv, Messages
<1>2. app_id_ring' = Append(app_id_ring, m)
  BY <1>1 DEF Send
<1>3. QED
  BY <1>1, <1>2 DEF IInv

\* Requests are lost for good, by an enqueue that finds the ring full.
LEMMA LostSteps ==
  ASSUME IInv, Thread1 \/ Thread2
  PROVE  /\ Lost' = Lost \/ Lost' = Lost + 1
         /\ Send /\ ~(Len(app_id_ring) < RingCap) => Lost' = Lost + 1
<1>0. PoolSize \in Nat /\ RingCap \in Nat /\ free \in Nat /\ Len(app_id_ring) \in Nat
      /\ Lost \in Int /\ Held1 \in {0, 1} /\ Held2 \in {0, 1}
  BY Sizes DEF IInv, LostAtMostOne, Held1, Held2
<1>1. CASE Create \/ CheckCreated \/ HandleMsg \/ SeeInit \/ LookUp \/ Advance
  <2>1. UNCHANGED <<free, app_id_ring>> /\ Held1' = Held1 /\ Held2' = Held2 /\ ~Send
    BY <1>1 DEF Create, CreateObject, CheckCreated, HandleMsg, SeeInit, LookUp, Advance,
      ringVars, Held1, Held2, Send
  <2>2. QED
    BY <2>1 DEF Lost
<1>2. CASE Dequeue
  <2>1. Len(app_id_ring') = Len(app_id_ring) - 1 /\ free' = free
    BY <1>2 DEF Dequeue, IInv
  <2>2. Held1' = 1 /\ Held1 = 0 /\ Held2' = Held2 /\ ~Send
    BY <1>2 DEF Dequeue, Held1, Held2, Send
  <2>3. Lost' = Lost
    BY <1>0, <2>1, <2>2 DEF Lost
  <2>4. QED
    BY <2>2, <2>3
<1>3. CASE PutMsg
  <2>1. app_id_ring' = app_id_ring /\ free' = free + 1
        /\ Held1' = 0 /\ Held1 = 1 /\ Held2' = Held2 /\ ~Send
    BY <1>3 DEF PutMsg, Held1, Held2, Send
  <2>2. Lost' = Lost
    BY <1>0, <2>1 DEF Lost
  <2>3. QED
    BY <2>1, <2>2
<1>4. CASE Get
  <2>1. app_id_ring' = app_id_ring /\ free' = free - 1
        /\ Held2' = 1 /\ Held2 = 0 /\ Held1' = Held1 /\ ~Send
    BY <1>4 DEF Get, Held1, Held2, Send
  <2>2. Lost' = Lost
    BY <1>0, <2>1 DEF Lost
  <2>3. QED
    BY <2>1, <2>2
<1>5. CASE Send
  <2>1. free' = free /\ Held2' = 0 /\ Held2 = 1 /\ Held1' = Held1
    BY <1>5 DEF Send, Held1, Held2
  <2>2. CASE Len(app_id_ring) < RingCap
    <3>1. Len(app_id_ring') = Len(app_id_ring) + 1
      BY <1>5, <2>2, SentIs
    <3>2. Lost' = Lost
      BY <1>0, <2>1, <3>1 DEF Lost
    <3>3. QED
      BY <2>2, <3>2
  <2>3. CASE ~(Len(app_id_ring) < RingCap)
    <3>1. app_id_ring' = app_id_ring
      BY <1>5, <2>3 DEF Send
    <3>2. Lost' = Lost + 1
      BY <1>0, <2>1, <3>1 DEF Lost
    <3>3. QED
      BY <3>2
  <2>4. QED
    BY <2>2, <2>3
<1>6. QED
  BY <1>1, <1>2, <1>3, <1>4, <1>5 DEF Thread1, Thread2

\* A step that leaves the requests, and what they have done, alone.
LEMMA StaysOnScript ==
  ASSUME OnScript, UNCHANGED <<app_id_ring, dhsm_channel_map, channel_dhsm_map, msg>>,
         Len(app_id_ring) \in Nat,
         pc' = pc \/ {pc, pc'} \subseteq {"idle", "free", "create"},
         \A k \in Int : Turn(Sent' - k) = Turn(Sent - k), Sent \in Int, Sent' \in Int
  PROVE  OnScript'
<1>0. /\ pc' = "map1" <=> pc = "map1"
      /\ pc' \in {"map1", "map2"} <=> pc \in {"map1", "map2"}
  OBVIOUS
<1>1. Behind' = Behind /\ Waiting' = Waiting /\ Behind \in Int /\ Waiting \in Int
  BY <1>0 DEF Behind, Waiting
<1>2. Noted' = Noted
  BY DEF Noted
<1>3. \A i \in 1..Len(app_id_ring) :
        Turn(Sent' - Len(app_id_ring) + i - 1) = Turn(Sent - Len(app_id_ring) + i - 1)
  <2>1. TAKE i \in 1..Len(app_id_ring)
  <2>2. PICK n \in Nat, k \in Int : n = Len(app_id_ring) /\ k = (n - i) + 1
    OBVIOUS
  <2>3. /\ Sent' - n + i - 1 = Sent' - k
        /\ Sent - n + i - 1 = Sent - k
    BY <2>2
  <2>4. QED
    BY <2>2, <2>3
<1>4. Turn(Sent' - Len(app_id_ring) - 1) = Turn(Sent - Len(app_id_ring) - 1)
  <2>1. PICK k \in Int : k = Len(app_id_ring) + 1
    OBVIOUS
  <2>2. /\ Sent' - Len(app_id_ring) - 1 = Sent' - k
        /\ Sent - Len(app_id_ring) - 1 = Sent - k
    BY <2>1
  <2>3. QED
    BY <2>2
<1>5. Turn(Sent' - Behind) = Turn(Sent - Behind) /\ Turn(Sent' - Waiting) = Turn(Sent - Waiting)
  BY <1>1
<1>6. QED
  BY <1>0, <1>1, <1>2, <1>3, <1>4, <1>5 DEF OnScript

\* Where the script stands.
LEMMA SentFacts ==
  ASSUME IInv
  PROVE  /\ x \in 0..(NumChannels - 1) /\ NumChannels \in Nat
         /\ Sent \in Int
         /\ t2 # "sleep" => /\ Sent \in 0..(Cycle - 1)
                            /\ Sent = IF y THEN x ELSE NumChannels + x
         /\ [dhsm_id |-> Dhsm, channel_id |-> x, flag |-> y] =
              Request(IF y THEN x ELSE NumChannels + x)
<1>1. /\ x \in 0..(NumChannels - 1) /\ y \in BOOLEAN
      /\ NumChannels \in Nat /\ Cycle = NumChannels + NumChannels
  BY TurnFacts DEF IInv
<1>2. CASE y = TRUE
  <2>1. x < NumChannels /\ x + 0 = x
    BY <1>1
  <2>2. Request(x) = [dhsm_id |-> Dhsm, channel_id |-> x, flag |-> TRUE]
    BY <2>1 DEF Request
  <2>3. Sent = x + (IF t2 = "sleep" THEN 1 ELSE 0)
    BY <1>2 DEF Sent
  <2>4. Sent \in Int /\ (t2 # "sleep" => Sent \in 0..(Cycle - 1) /\ Sent = x)
    BY <1>1, <2>3
  <2>5. QED
    BY <1>1, <1>2, <2>2, <2>4
<1>3. CASE y = FALSE
  <2>1. PICK s \in Nat : s = NumChannels + x
    BY <1>1
  <2>2. s - NumChannels = x /\ ~(s < NumChannels) /\ s \in 0..(Cycle - 1)
    BY <1>1, <2>1
  <2>3. Request(s) = [dhsm_id |-> Dhsm, channel_id |-> x, flag |-> FALSE]
    BY <2>2 DEF Request
  <2>4. Sent = s + (IF t2 = "sleep" THEN 1 ELSE 0)
    BY <1>3, <2>1 DEF Sent
  <2>5. Sent \in Int /\ (t2 # "sleep" => Sent \in 0..(Cycle - 1) /\ Sent = NumChannels + x)
    BY <2>1, <2>2, <2>4
  <2>6. Request(NumChannels + x) = [dhsm_id |-> Dhsm, channel_id |-> x, flag |-> FALSE]
    BY <2>1, <2>3
  <2>7. QED
    BY <1>1, <1>3, <2>5, <2>6
<1>4. QED
  BY <1>1, <1>2, <1>3

\* The next request enters the ring.
LEMMA SendOnScript ==
  ASSUME IInv, IInv', OnScript, Send, Len(app_id_ring) < RingCap
  PROVE  OnScript'
<1>1. PICK n \in Nat : n = Len(app_id_ring)
  BY DEF IInv
<1>2. PICK s \in 0..(Cycle - 1) : s = Sent /\ s = IF y THEN x ELSE NumChannels + x
  BY SentFacts DEF Send
<1>3. Sent' = s + 1
  <2>1. t2' = "sleep" /\ UNCHANGED <<x, y>>
    BY DEF Send
  <2>2. QED
    BY <1>2, <2>1 DEF Sent
<1>4. /\ Len(app_id_ring') = n + 1 /\ app_id_ring'[n + 1] = Request(s)
      /\ \A i \in 1..n : app_id_ring'[i] = app_id_ring[i]
  BY <1>1, <1>2, SentIs, SentFacts
<1>5. UNCHANGED <<dhsm_channel_map, channel_dhsm_map, msg, pc>>
  BY DEF Send, tableVars, maps
<1>6. /\ Sent' - Behind' = Sent - Behind /\ Sent' - Waiting' = Sent - Waiting
  <2>1. CASE pc = "map1"
    <3>1. Behind = n + 1 /\ Behind' = (n + 1) + 1 /\ Waiting = n + 1 /\ Waiting' = (n + 1) + 1
      BY <1>1, <1>4, <1>5, <2>1 DEF Behind, Waiting
    <3>2. QED
      BY <1>2, <1>3, <3>1
  <2>2. CASE pc = "map2"
    <3>1. Behind = n /\ Behind' = n + 1 /\ Waiting = n + 1 /\ Waiting' = (n + 1) + 1
      BY <1>1, <1>4, <1>5, <2>2 DEF Behind, Waiting
    <3>2. QED
      BY <1>2, <1>3, <3>1
  <2>3. CASE pc \notin {"map1", "map2"}
    <3>1. Behind = n /\ Behind' = n + 1 /\ Waiting = n /\ Waiting' = n + 1
      BY <1>1, <1>4, <1>5, <2>3 DEF Behind, Waiting
    <3>2. QED
      BY <1>2, <1>3, <3>1
  <2>4. QED
    BY <2>1, <2>2, <2>3
<1>7. \A i \in 1..(n + 1) : app_id_ring'[i] = Request(Turn(Sent' - (n + 1) + i - 1))
  <2>1. ASSUME NEW i \in 1..n
        PROVE  app_id_ring'[i] = Request(Turn(Sent' - (n + 1) + i - 1))
    <3>1. Sent' - (n + 1) + i - 1 = Sent - n + i - 1
      BY <1>2, <1>3
    <3>2. QED
      BY <1>1, <1>4, <3>1 DEF OnScript
  <2>2. app_id_ring'[n + 1] = Request(Turn(Sent' - (n + 1) + (n + 1) - 1))
    <3>1. Sent' - (n + 1) + (n + 1) - 1 = s
      BY <1>3
    <3>2. Turn(s) = s
      BY TurnFacts
    <3>3. QED
      BY <1>4, <3>1, <3>2
  <2>3. QED
    BY <2>1, <2>2
<1>8. Sent' - (n + 1) - 1 = Sent - n - 1
  BY <1>2, <1>3
<1>9. Noted' = Noted
  BY <1>5 DEF Noted
<1>10. QED
  BY <1>1, <1>4, <1>5, <1>6, <1>7, <1>8, <1>9 DEF OnScript

\* ... and leaves it.
LEMMA DequeueOnScript ==
  ASSUME IInv, OnScript, Dequeue, pc = "idle"
  PROVE  OnScript'
<1>1. PICK n \in Nat : n = Len(app_id_ring) - 1 /\ n + 1 = Len(app_id_ring)
  BY DEF IInv, Dequeue
<1>2. /\ Len(app_id_ring') = n /\ msg' = app_id_ring[1] /\ pc' = "map1"
      /\ \A i \in 1..n : app_id_ring'[i] = app_id_ring[i + 1]
  BY <1>1 DEF IInv, Dequeue
<1>3. Sent' = Sent /\ Sent \in Int /\ UNCHANGED <<dhsm_channel_map, channel_dhsm_map>>
  BY SentFacts DEF Dequeue, Sent, maps
<1>4. /\ Behind' = Behind /\ Waiting' = Waiting
  BY <1>1, <1>2 DEF Behind, Waiting
<1>5. \A i \in 1..n : app_id_ring'[i] = Request(Turn(Sent' - n + i - 1))
  <2>1. TAKE i \in 1..n
  <2>2. i + 1 \in 1..(n + 1) /\ Sent - (n + 1) + (i + 1) - 1 = Sent - n + i - 1
    BY <1>3
  <2>3. app_id_ring[i + 1] = Request(Turn(Sent - (n + 1) + (i + 1) - 1))
    BY <1>1, <2>2 DEF OnScript
  <2>4. QED
    BY <1>2, <1>3, <2>2, <2>3
<1>6. msg' = Request(Turn(Sent' - n - 1))
  <2>1. app_id_ring[1] = Request(Turn(Sent - (n + 1) + 1 - 1))
    BY <1>1 DEF OnScript
  <2>2. Sent - (n + 1) + 1 - 1 = Sent - n - 1
    BY <1>3
  <2>3. QED
    BY <1>2, <1>3, <2>1, <2>2
<1>7. Noted' = Noted
  BY <1>3 DEF Noted
<1>8. QED
  BY <1>2, <1>3, <1>4, <1>5, <1>6, <1>7 DEF OnScript

\* generate_map1 notes it ...
LEMMA Map1OnScript ==
  ASSUME IInv, OnScript, GenerateMap1, UNCHANGED <<app_id_ring, t2, x, y>>
  PROVE  OnScript'
<1>1. PICK n \in Nat : n = Len(app_id_ring)
  BY DEF IInv
<1>2. pc = "map1" /\ pc' = "map2" /\ UNCHANGED <<channel_dhsm_map, msg>>
  BY DEF GenerateMap1
<1>3. Sent' = Sent /\ Sent \in Int
  BY SentFacts DEF Sent
<1>4. PICK k \in Int : k = Sent - n - 1
  BY <1>3
<1>5. /\ Behind = n + 1 /\ Behind' = n /\ Waiting = n + 1 /\ Waiting' = n + 1
  BY <1>1, <1>2 DEF Behind, Waiting
<1>6. Sent - Behind = k /\ Sent - Behind' = k + 1
  BY <1>3, <1>4, <1>5
<1>7. PICK p \in 0..(Cycle - 1) : p = Turn(k)
  BY TurnFacts
<1>8. PICK q : q = Turn(k + 1) /\ q = IF p + 1 = Cycle THEN 0 ELSE p + 1
  BY <1>7, TurnFacts
<1>9. msg = Request(p) /\ Noted = Routed(p) /\ DOMAIN dhsm_channel_map \subseteq {Dhsm}
  BY <1>1, <1>2, <1>4, <1>6, <1>7 DEF OnScript
<1>10. PICK c \in Channels : c = msg.channel_id
  BY <1>8, <1>9, RequestRoutes
<1>11. /\ msg.dhsm_id = Dhsm
       /\ msg.flag => Routed(q) = Routed(p) \cup {c}
       /\ ~msg.flag => Routed(q) = Routed(p) \ {c}
       /\ Routed(p) = {} => msg.flag
  BY <1>8, <1>9, <1>10, RequestRoutes
<1>12. Noted' = Routed(q) /\ DOMAIN dhsm_channel_map' \subseteq {Dhsm}
  <2>1. CASE Dhsm \in DOMAIN dhsm_channel_map
    <3>1. DOMAIN dhsm_channel_map = {Dhsm}
      BY <1>9, <2>1
    <3>2. Noted = dhsm_channel_map[Dhsm]
      BY <3>1 DEF Noted
    <3>3. AddChannel \/ RemoveChannel
      BY <1>10, <1>11, <2>1 DEF GenerateMap1, AddDhsm, SkipUnknown, RefuseOverflow,
        IgnoreOverflow, Known, InRange
    <3>4. /\ dhsm_channel_map' = [dhsm_channel_map EXCEPT ![Dhsm] =
               IF msg.flag THEN Noted \cup {c} ELSE Noted \ {c}]
      BY <1>10, <1>11, <3>2, <3>3 DEF AddChannel, RemoveChannel, Adding
    <3>5. /\ DOMAIN dhsm_channel_map' = {Dhsm}
          /\ dhsm_channel_map'[Dhsm] = IF msg.flag THEN Noted \cup {c} ELSE Noted \ {c}
      BY <3>1, <3>4
    <3>6. Noted' = dhsm_channel_map'[Dhsm]
      BY <3>5 DEF Noted
    <3>7. QED
      BY <1>9, <1>11, <3>5, <3>6
  <2>2. CASE Dhsm \notin DOMAIN dhsm_channel_map
    <3>1. DOMAIN dhsm_channel_map = {}
      BY <1>9, <2>2
    <3>2. Noted = {}
      BY <3>1 DEF Noted
    <3>3. msg.flag /\ Routed(q) = {c}
      BY <1>9, <1>11, <3>2
    <3>4. AddDhsm
      BY <1>10, <1>11, <2>2, <3>3 DEF GenerateMap1, SkipUnknown, RefuseOverflow,
        AddChannel, RemoveChannel, IgnoreOverflow, Known, InRange, Adding
    <3>5. /\ DOMAIN dhsm_channel_map' = {Dhsm} /\ dhsm_channel_map'[Dhsm] = {c}
      BY <1>10, <1>11, <3>1, <3>4 DEF AddDhsm, With
    <3>6. Noted' = dhsm_channel_map'[Dhsm]
      BY <3>5 DEF Noted
    <3>7. QED
      BY <3>3, <3>5, <3>6
  <2>3. QED
    BY <2>1, <2>2
<1>13. QED
  BY <1>1, <1>2, <1>3, <1>5, <1>6, <1>8, <1>12 DEF OnScript

\* ... and generate_map2 makes it a route.
LEMMA Map2OnScript ==
  ASSUME IInv, OnScript, GenerateMap2, UNCHANGED <<app_id_ring, t2, x, y>>
  PROVE  OnScript'
<1>1. Len(app_id_ring) \in Nat /\ Sent' = Sent /\ Sent \in Int
  BY SentFacts DEF IInv, Sent
<1>2. pc = "map2" /\ pc' = "free" /\ UNCHANGED <<dhsm_channel_map, msg>>
  BY DEF GenerateMap2
<1>3. Behind' = Behind /\ Waiting' = Behind
  BY <1>1, <1>2 DEF Behind, Waiting
<1>4. DOMAIN channel_dhsm_map' = Noted /\ Noted' = Noted
  BY <1>2 DEF GenerateMap2, Noted
<1>5. QED
  BY <1>1, <1>2, <1>3, <1>4 DEF OnScript

\* The cycle begins again where it ends.
LEMMA AdvanceKeepsTurns ==
  ASSUME IInv, Advance
  PROVE  /\ Sent' \in Int
         /\ \A k \in Int : Turn(Sent' - k) = Turn(Sent - k)
<1>1. x \in 0..(NumChannels - 1) /\ y \in BOOLEAN /\ t2 = "sleep" /\ t2' = "get"
  BY TurnFacts DEF IInv, Advance
<1>0. NumChannels \in Nat /\ Cycle = NumChannels + NumChannels
  BY TurnFacts
<1>2. CASE x + 1 = NumChannels /\ y = FALSE
  <2>1. x' = 0 /\ y' = TRUE
    BY <1>2 DEF Advance
  <2>2. Sent' = 0 /\ Sent = 0 + Cycle
    BY <1>0, <1>1, <1>2, <2>1 DEF Sent
  <2>3. ASSUME NEW k \in Int PROVE Turn(Sent' - k) = Turn(Sent - k)
    <3>1. PICK j \in Int : j = 0 - k
      OBVIOUS
    <3>2. Sent' - k = j /\ Sent - k = j + Cycle
      BY <1>0, <2>2, <3>1
    <3>3. QED
      BY <3>2, TurnFacts
  <2>4. QED
    BY <2>2, <2>3
<1>3. CASE x + 1 = NumChannels /\ y = TRUE
  <2>1. x' = 0 /\ y' = FALSE
    BY <1>3 DEF Advance
  <2>2. Sent' = NumChannels + 0 + 0 /\ Sent = x + 1
    BY <1>0, <1>1, <1>3, <2>1 DEF Sent
  <2>3. Sent' = Sent /\ Sent \in Int
    BY <1>0, <1>1, <1>3, <2>2
  <2>4. QED
    BY <2>3
<1>4. CASE x + 1 # NumChannels
  <2>1. x' = x + 1 /\ y' = y
    BY <1>4 DEF Advance
  <2>2. Sent' = Sent /\ Sent \in Int
    BY <1>0, <1>1, <2>1 DEF Sent
  <2>3. QED
    BY <2>2
<1>5. QED
  BY <1>1, <1>2, <1>3, <1>4

LEMMA NextScript == ScriptInv /\ [Thread1 \/ Thread2]_vars => ScriptInv'
<1> SUFFICES ASSUME ScriptInv, [Thread1 \/ Thread2]_vars PROVE ScriptInv'
  OBVIOUS
<1>1. CASE UNCHANGED vars
  <2>1. IInv'
    BY <1>1, NextInv DEF ScriptInv
  <2>2. Lost' = Lost /\ (OnScript' <=> OnScript)
    BY <1>1 DEF vars, ringVars, tableVars, maps, Lost, Held1, Held2, OnScript, Sent,
      Behind, Waiting, Noted
  <2>3. QED
    BY <1>1, <2>1, <2>2 DEF ScriptInv, vars, ringVars, tableVars, maps
<1>2. CASE Thread1 \/ Thread2
  <2>1. IInv /\ IInv' /\ Len(app_id_ring) \in Nat /\ Sent \in Int
    BY <1>2, NextInv, SentFacts DEF ScriptInv, IInv
  <2>2. ASSUME Lost' = 0
        PROVE  Lost = 0 /\ OnScript /\ (Send => Len(app_id_ring) < RingCap)
    <3>1. Lost \in {0, 1}
      BY <2>1 DEF IInv, LostAtMostOne
    <3>2. QED
      BY <1>2, <2>1, <2>2, <3>1, LostSteps DEF ScriptInv
  <2>3. CASE Create \/ CheckCreated \/ PutMsg \/ SeeInit \/ LookUp \/ Get
    <3>1. /\ UNCHANGED <<app_id_ring, tableVars>> /\ Sent' = Sent
          /\ t1' # "handle" => pc = "idle"
      BY <2>3 DEF Create, CreateObject, CheckCreated, PutMsg, SeeInit, LookUp, Get, ringVars,
        Sent, ScriptInv
    <3>2. UNCHANGED <<app_id_ring, dhsm_channel_map, channel_dhsm_map, msg, pc>>
      BY <3>1 DEF tableVars, maps
    <3>3. OnScript => OnScript'
      BY <2>1, <3>1, <3>2, StaysOnScript
    <3>4. QED
      BY <2>1, <2>2, <3>1, <3>2, <3>3 DEF ScriptInv
  <2>4. CASE Dequeue
    <3>1. pc = "idle" /\ pc' = "map1" /\ t1' = "handle" /\ UNCHANGED dhsm_channel_map
      BY <2>4 DEF Dequeue, ScriptInv, maps
    <3>2. QED
      BY <2>1, <2>2, <2>4, <3>1, DequeueOnScript DEF ScriptInv
  <2>5. CASE HandleMsg
    <3>1. UNCHANGED <<app_id_ring, t2, x, y>> /\ t1' = "handle" /\ Sent' = Sent
      BY <2>5 DEF HandleMsg, ringVars, Sent
    <3>2. CASE GenerateMap1
      <4>1. pc' = "map2"
        BY <3>2 DEF GenerateMap1
      <4>2. QED
        BY <2>1, <2>2, <3>1, <3>2, <4>1, Map1OnScript DEF ScriptInv
    <3>3. CASE GenerateMap2
      <4>1. pc' = "free" /\ UNCHANGED dhsm_channel_map
        BY <3>3 DEF GenerateMap2
      <4>2. QED
        BY <2>1, <2>2, <3>1, <3>3, <4>1, Map2OnScript DEF ScriptInv
    <3>4. CASE FreeRing \/ GenerateRing
      <4>1. /\ UNCHANGED <<dhsm_channel_map, channel_dhsm_map, msg>>
            /\ pc \in {"free", "create"} /\ pc' \in {"create", "idle"}
        BY <3>4 DEF FreeRing, GenerateRing, maps
      <4>2. OnScript => OnScript'
        BY <2>1, <3>1, <4>1, StaysOnScript
      <4>3. QED
        BY <2>1, <2>2, <3>1, <4>1, <4>2 DEF ScriptInv
    <3>5. QED
      BY <2>5, <3>2, <3>3, <3>4 DEF HandleMsg, Handle
  <2>6. CASE Send
    <3>1. UNCHANGED <<tableVars, t1>>
      BY <2>6 DEF Send
    <3>2. QED
      BY <2>1, <2>2, <2>6, <3>1, SendOnScript DEF ScriptInv, tableVars, maps
  <2>7. CASE Advance
    <3>1. UNCHANGED <<app_id_ring, dhsm_channel_map, channel_dhsm_map, msg, pc, t1>>
      BY <2>7 DEF Advance, ringVars, tableVars, maps
    <3>2. OnScript => OnScript'
      BY <2>1, <2>7, <3>1, AdvanceKeepsTurns, StaysOnScript
    <3>3. QED
      BY <2>1, <2>2, <3>1, <3>2 DEF ScriptInv
  <2>8. QED
    BY <1>2, <2>3, <2>4, <2>5, <2>6, <2>7 DEF Thread1, Thread2
<1>3. QED
  BY <1>1, <1>2

\* As long as no request is lost, the routes are those of the requests that
\* thread2 has sent and thread1 has handled, for any number of channels and
\* any size of pool and ring (repeater.cpp:331-333, 377-391).
THEOREM RoutesAreScripted == RepeaterSpec => []RoutesFollowScript
<1>1. ScriptInv => RoutesFollowScript
  BY DEF ScriptInv, OnScript, RoutesFollowScript, Handled, Turn, Cycle, Routed
<1>2. QED
  BY <1>1, InitScript, NextScript, PTL DEF RepeaterSpec
=============================================================================
