------------------------------ MODULE Repeater ------------------------------
(***************************************************************************)
(* The repeater program: thread2 sends requests for one DHSM, channel      *)
(* after channel, first adding all of them and then removing them again,   *)
(* for ever; thread1 owns the routing table and handles the requests.  A   *)
(* request travels in an object of app_id_mempool through app_id_ring.     *)
(* thread1 creates both and thread2 looks them up by name; where a         *)
(* creation or a lookup fails, rte_panic ends the process.                 *)
(***************************************************************************)
EXTENDS RouteTable, Sequences

CONSTANTS
  Dhsm,    \* the dhsm_id thread2 uses (0)
  PoolSize \* APP_ID_RING_SIZE: objects of the pool; the ring holds one less

ASSUME ScriptAssumption ==
  /\ Dhsm \in Dhsms
  /\ Channels = 0..(Cardinality(Channels) - 1) /\ Channels # {}
  /\ PoolSize \in Nat \ {0}

VARIABLES
  objects, panicked,       \* what DPDK has created; whether rte_panic was called
  init, app_id_ring, free, \* free: objects in app_id_mempool
  t1, t2,                  \* program points of thread1 and thread2
  x, y                     \* thread2: next channel, adding or removing

process == <<objects, panicked>>
ringVars == <<init, app_id_ring, free>>
vars == <<tableVars, process, ringVars, t1, t2, x, y>>

NumChannels == Cardinality(Channels)
RingCap == PoolSize - 1

Init ==
  /\ InitTable
  /\ objects = {} /\ panicked = FALSE
  /\ init = FALSE /\ app_id_ring = <<>> /\ free = PoolSize
  /\ t1 = "start" /\ t2 = "wait"
  /\ x = 0 /\ y = TRUE
-----------------------------------------------------------------------------
(* thread1 *)

\* rte_ring_create or rte_mempool_create, which returns a null pointer when
\* it fails.
CreateObject(name, from, to) ==
  /\ t1 = from /\ t1' = to
  /\ objects' \in {objects, objects \cup {name}}
  /\ UNCHANGED <<tableVars, panicked, ringVars, t2, x, y>>

Create == \/ CreateObject("app_id_ring", "start", "pool")
          \/ CreateObject("app_id_mempool", "pool", "check")

\* Both at hand, or the process ends.
Ready == {"app_id_ring", "app_id_mempool"} \subseteq objects

CheckCreatedNot == \* slip: the pointers are not checked
  /\ t1 = "check" /\ t1' = "dequeue" /\ init' = TRUE
  /\ UNCHANGED <<tableVars, process, app_id_ring, free, t2, x, y>>

\* The table's constructor, called after this, asks for a pool that nothing
\* uses and does not look at the result (105).
CheckCreated ==
  /\ t1 = "check"
  /\ IF Ready
     THEN t1' = "dequeue" /\ init' = TRUE /\ UNCHANGED panicked
     ELSE panicked' = TRUE /\ UNCHANGED <<t1, init>>
  /\ UNCHANGED <<tableVars, objects, app_id_ring, free, t2, x, y>>

Dequeue ==
  /\ t1 = "dequeue" /\ app_id_ring # <<>>
  /\ msg' = Head(app_id_ring) /\ app_id_ring' = Tail(app_id_ring)
  /\ pc' = "map1" /\ t1' = "handle"
  /\ UNCHANGED <<maps, channel_dhsm_ring_map, rings, ret, process, init, free,
                 t2, x, y>>

HandleMsg ==
  /\ t1 = "handle"
  /\ Handle
  /\ UNCHANGED <<process, ringVars, t1, t2, x, y>>

PutMsgNot == \* slip: the object is not returned
  /\ t1 = "handle" /\ pc = "idle"
  /\ t1' = "dequeue"
  /\ UNCHANGED <<tableVars, process, ringVars, t2, x, y>>

PutMsg ==
  /\ t1 = "handle" /\ pc = "idle"
  /\ free' = free + 1
  /\ t1' = "dequeue"
  /\ UNCHANGED <<tableVars, process, init, app_id_ring, t2, x, y>>
-----------------------------------------------------------------------------
(* thread2 *)

SeeInit ==
  /\ t2 = "wait" /\ init
  /\ t2' = "lookup"
  /\ UNCHANGED <<tableVars, process, ringVars, t1, x, y>>

\* Both lookups, a second later.
LookUp ==
  /\ t2 = "lookup"
  /\ IF Ready
     THEN t2' = "get" /\ UNCHANGED panicked
     ELSE panicked' = TRUE /\ UNCHANGED t2
  /\ UNCHANGED <<tableVars, objects, ringVars, t1, x, y>>

\* A failed get is tried again.
Get ==
  /\ t2 = "get" /\ free > 0
  /\ free' = free - 1
  /\ t2' = "send"
  /\ UNCHANGED <<tableVars, process, init, app_id_ring, t1, x, y>>

\* The result of the enqueue is ignored: without room the request is gone,
\* its object with it.
Send ==
  /\ t2 = "send"
  /\ app_id_ring' = IF Len(app_id_ring) < RingCap
                    THEN Append(app_id_ring, [dhsm_id |-> Dhsm, channel_id |-> x, flag |-> y])
                    ELSE app_id_ring
  /\ t2' = "sleep"
  /\ UNCHANGED <<tableVars, process, init, free, t1, x, y>>

AdvanceNoFlip == \* slip: the direction changes one channel late
  /\ t2 = "sleep"
  /\ x' = (x + 1) % NumChannels
  /\ y' = IF x = 0 THEN ~y ELSE y
  /\ t2' = "get"
  /\ UNCHANGED <<tableVars, process, ringVars, t1>>

Advance ==
  /\ t2 = "sleep"
  /\ IF x + 1 = NumChannels THEN x' = 0 /\ y' = ~y ELSE x' = x + 1 /\ UNCHANGED y
  /\ t2' = "get"
  /\ UNCHANGED <<tableVars, process, ringVars, t1>>
-----------------------------------------------------------------------------
Thread1 ==
  /\ ~panicked
  /\ Create \/ CheckCreated \/ Dequeue \/ HandleMsg \/ PutMsg

Thread2 ==
  /\ ~panicked
  /\ SeeInit \/ LookUp \/ Get \/ Send \/ Advance

\* Both threads have a CPU of their own.
RepeaterSpec == /\ Init /\ [][Thread1 \/ Thread2]_vars
                /\ WF_vars(Thread1) /\ WF_vars(Thread2)
-----------------------------------------------------------------------------
(* Properties *)

Held1 == IF t1 = "handle" THEN 1 ELSE 0
Held2 == IF t2 = "send" THEN 1 ELSE 0
Lost == PoolSize - (free + Len(app_id_ring) + Held1 + Held2)

\* The unchecked enqueue (repeater.cpp:384) loses at most one request in the
\* life of the process: afterwards the pool is as small as the ring.
LostAtMostOne == Lost \in {0, 1}

\* Where thread2's script stands: steps of a cycle of 2 * NumChannels that
\* have been sent, and those of them that thread1 has put into the map.
Sent == (IF y THEN x ELSE NumChannels + x) + (IF t2 = "sleep" THEN 1 ELSE 0)
Waiting == Len(app_id_ring) + (IF pc \in {"map1", "map2"} THEN 1 ELSE 0)
Handled == (Sent - Waiting) % (2 * NumChannels)

\* As long as no request is lost, the routes are those of exactly the
\* requests handled so far, in the order in which they were sent, however far
\* thread1 is behind (repeater.cpp:331-333, 377-391).
RoutesFollowScript ==
  Lost = 0 =>
    DOMAIN channel_dhsm_map = IF Handled <= NumChannels
                              THEN {c \in Channels : c < Handled}
                              ELSE {c \in Channels : c >= Handled - NumChannels}

\* A process either ends before it is under way, as something could not be
\* created, or gets under way; then it does not end any more, whatever thread2
\* looks up, and a lost request does no lasting harm: every channel is routed
\* and unrouted again and again (repeater.cpp:310-347, 353-395).
EveryChannelTurns ==
  /\ <>(init \/ panicked)
  /\ \A c \in Channels : /\ init ~> (c \in DOMAIN channel_dhsm_map)
                         /\ init ~> (c \notin DOMAIN channel_dhsm_map)
=============================================================================
