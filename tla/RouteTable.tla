----------------------------- MODULE RouteTable -----------------------------
(***************************************************************************)
(* class Route_Table of repeater.cpp.  A DHSM asks for a channel or gives  *)
(* it up; handle_msg notes this in dhsm_channel_map, derives the inverse   *)
(* channel_dhsm_map from it, frees all data rings and creates one ring for *)
(* each channel and DHSM of the new routes.                                *)
(*                                                                         *)
(* The unordered_maps are functions whose domain is the set of keys, the   *)
(* bitsets and vectors are sets.  A ring is its name, which DPDK accepts   *)
(* once; creating a ring fails (a null pointer is stored) when the name    *)
(* exists or DPDK has no room for another ring.                            *)
(***************************************************************************)
EXTENDS Integers, FiniteSets

CONSTANTS
  Dhsms,      \* values of dhsm_id
  ChannelIds, \* values of channel_id (a uint8_t)
  Channels,   \* the channel ids below 16
  MaxRings    \* rings DPDK has room for (memzones)

ASSUME ChannelsAssumption == Channels \subseteq ChannelIds
ASSUME RoomAssumption ==
  /\ IsFiniteSet(Dhsms) /\ IsFiniteSet(Channels)
  /\ MaxRings \in Nat

VARIABLES
  dhsm_channel_map, channel_dhsm_map,
  channel_dhsm_ring_map, \* per channel the rings created (nulls left out)
  rings,                 \* names of the data rings that exist in DPDK
  pc, msg,               \* handle_msg: what is next, its argument
  ret                    \* what generate_map1 returned

maps == <<dhsm_channel_map, channel_dhsm_map>>
tableVars == <<maps, channel_dhsm_ring_map, rings, pc, msg, ret>>

Messages == [dhsm_id : Dhsms, channel_id : ChannelIds, flag : BOOLEAN]

InitTable ==
  /\ dhsm_channel_map = [d \in {} |-> {}]
  /\ channel_dhsm_map = [c \in {} |-> {}]
  /\ channel_dhsm_ring_map = [c \in {} |-> {}]
  /\ rings = {}
  /\ pc = "idle" /\ ret = 1
  /\ msg \in Messages

With(map, d, S) == [e \in DOMAIN map \cup {d} |-> IF e = d THEN S ELSE map[e]]
Wanted(map) == UNION {{<<c, d>> : d \in map[c]} : c \in DOMAIN map}
-----------------------------------------------------------------------------
(* generate_map1 *)

Known == msg.dhsm_id \in DOMAIN dhsm_channel_map
Adding == msg.flag
InRange == msg.channel_id \in Channels

AddDhsm ==
  /\ ~Known /\ Adding /\ InRange
  /\ dhsm_channel_map' = With(dhsm_channel_map, msg.dhsm_id, {msg.channel_id})
  /\ ret' = 1

SkipUnknown == ~Known /\ ~Adding /\ UNCHANGED dhsm_channel_map /\ ret' = 1

RefuseOverflow ==
  /\ ~Known /\ Adding /\ ~InRange
  /\ UNCHANGED dhsm_channel_map
  /\ ret' = 0

AddChannel ==
  /\ Known /\ Adding /\ InRange
  /\ dhsm_channel_map' = [dhsm_channel_map EXCEPT ![msg.dhsm_id] = @ \cup {msg.channel_id}]
  /\ ret' = 1

RemoveChannelSet == \* slip: sets the bit as for adding
  /\ Known /\ ~Adding /\ InRange
  /\ dhsm_channel_map' = [dhsm_channel_map EXCEPT ![msg.dhsm_id] = @ \cup {msg.channel_id}]
  /\ ret' = 1

RemoveChannel ==
  /\ Known /\ ~Adding /\ InRange
  /\ dhsm_channel_map' = [dhsm_channel_map EXCEPT ![msg.dhsm_id] = @ \ {msg.channel_id}]
  /\ ret' = 1

\* Unlike a new DHSM, one already known is told that all went well.
IgnoreOverflow == Known /\ ~InRange /\ UNCHANGED dhsm_channel_map /\ ret' = 1

GenerateMap1 ==
  /\ pc = "map1"
  /\ \/ AddDhsm \/ SkipUnknown \/ RefuseOverflow
     \/ AddChannel \/ RemoveChannel \/ IgnoreOverflow
  /\ pc' = "map2"
  /\ UNCHANGED <<channel_dhsm_map, channel_dhsm_ring_map, rings, msg>>
-----------------------------------------------------------------------------
\* Slip: channel_dhsm_map is not cleared first.
GenerateMap2NoClear ==
  /\ pc = "map2"
  /\ LET channel_sum == UNION {dhsm_channel_map[d] : d \in DOMAIN dhsm_channel_map}
     IN channel_dhsm_map' = [c \in channel_sum \cup DOMAIN channel_dhsm_map |->
          {d \in DOMAIN dhsm_channel_map : c \in dhsm_channel_map[d]}
            \cup (IF c \in DOMAIN channel_dhsm_map THEN channel_dhsm_map[c] ELSE {})]
  /\ pc' = "free"
  /\ UNCHANGED <<dhsm_channel_map, channel_dhsm_ring_map, rings, msg, ret>>

GenerateMap2 ==
  /\ pc = "map2"
  /\ LET channel_sum == UNION {dhsm_channel_map[d] : d \in DOMAIN dhsm_channel_map}
     IN channel_dhsm_map' = [c \in channel_sum |->
          {d \in DOMAIN dhsm_channel_map : c \in dhsm_channel_map[d]}]
  /\ pc' = "free"
  /\ UNCHANGED <<dhsm_channel_map, channel_dhsm_ring_map, rings, msg, ret>>

\* Slip: only the rings of channels still routed are freed.
FreeRingRouted ==
  /\ pc = "free"
  /\ rings' = rings \ UNION {channel_dhsm_ring_map[c] :
                 c \in DOMAIN channel_dhsm_ring_map \cap DOMAIN channel_dhsm_map}
  /\ channel_dhsm_ring_map' = [c \in {} |-> {}]
  /\ pc' = "create"
  /\ UNCHANGED <<maps, msg, ret>>

FreeRing ==
  /\ pc = "free"
  /\ rings' = rings \ UNION {channel_dhsm_ring_map[c] : c \in DOMAIN channel_dhsm_ring_map}
  /\ channel_dhsm_ring_map' = [c \in {} |-> {}]
  /\ pc' = "create"
  /\ UNCHANGED <<maps, msg, ret>>

\* rte_ring_create for every route; which of them fail when there is no room
\* for all depends on the order of the map.
GenerateRing ==
  /\ pc = "create"
  /\ LET new == Wanted(channel_dhsm_map) \ rings
         room == MaxRings - Cardinality(rings)
     IN \E made \in SUBSET new :
          /\ IF Cardinality(new) <= room THEN made = new ELSE Cardinality(made) = room
          /\ rings' = rings \cup made
          /\ channel_dhsm_ring_map' =
               [c \in DOMAIN channel_dhsm_map |-> {r \in made : r[1] = c}]
  /\ pc' = "idle"
  /\ UNCHANGED <<maps, msg, ret>>

Handle == GenerateMap1 \/ GenerateMap2 \/ FreeRing \/ GenerateRing
-----------------------------------------------------------------------------
(* The table by itself: any request may come when the last one is handled. *)

Receive ==
  /\ pc = "idle"
  /\ msg' \in Messages
  /\ pc' = "map1"
  /\ UNCHANGED <<maps, channel_dhsm_ring_map, rings, ret>>

Spec == InitTable /\ [][Receive \/ Handle]_tableVars
-----------------------------------------------------------------------------
(* Properties *)

\* Shape of every variable.
TypeOK ==
  /\ DOMAIN dhsm_channel_map \subseteq Dhsms
  /\ \A d \in DOMAIN dhsm_channel_map : dhsm_channel_map[d] \subseteq Channels
  /\ DOMAIN channel_dhsm_map \subseteq Channels
  /\ \A c \in DOMAIN channel_dhsm_map : channel_dhsm_map[c] \in (SUBSET Dhsms) \ {{}}
  /\ DOMAIN channel_dhsm_ring_map \subseteq Channels
  /\ rings \subseteq Channels \X Dhsms
  /\ pc \in {"idle", "map1", "map2", "free", "create"}
  /\ msg \in Messages /\ ret \in {0, 1}

\* Every data ring that exists is known to the table, under its channel: none
\* leaks when routes go away (repeater.cpp:242-255) and none is freed twice.
NoRingLeaks ==
  /\ rings = UNION {channel_dhsm_ring_map[c] : c \in DOMAIN channel_dhsm_ring_map}
  /\ \A c \in DOMAIN channel_dhsm_ring_map : \A r \in channel_dhsm_ring_map[c] : r[1] = c

\* The rings, with the shape of all variables.
RingsSound == TypeOK /\ NoRingLeaks

\* Between two requests the rings are those of the routes, and the routes are
\* what the DHSMs have asked for; rings are missing only when DPDK is full
\* (repeater.cpp:196-286).
RingsMatchRequests ==
  pc = "idle" =>
    LET asked == UNION {{<<c, d>> : c \in dhsm_channel_map[d]} :
                          d \in DOMAIN dhsm_channel_map}
    IN /\ rings \subseteq asked
       /\ rings = asked \/ Cardinality(rings) = MaxRings

\* Each request changes the route it names, as it asks for, and no other,
\* although all routes are rebuilt for it (repeater.cpp:137-240): when the new
\* ones are there (after generate_map2) the request is answered.
Subs == INSTANCE Subscriptions WITH
  routes <- Wanted(channel_dhsm_map),
  request <- msg,
  pending <- pc \in {"map1", "map2"}
SubsSpec == Subs!Spec
=============================================================================
