------------------------------- MODULE Ingest -------------------------------
(***************************************************************************)
(* The receive path of one channel: worker lcores running lcore_main       *)
(* ("NOZOMI") poll the NIC, copy each packet into a buffer of send_pool    *)
(* and enqueue the buffers on ring1_2; the consumer thread ("DOB")         *)
(* dequeues them, copies them out and returns them to the pool.            *)
(*                                                                         *)
(* A packet is its position in the sender's stream; its packetSeq field is *)
(* that position modulo PACK_NUM.  Payload bytes are left out: the         *)
(* position is what a buffer must still hold when DOB reads it.  Polls     *)
(* that find nothing are stuttering steps.                                 *)
(***************************************************************************)
EXTENDS Integers, Sequences, FiniteSets, Functions

CONSTANTS
  Lcores,     \* worker lcores that poll this channel
  Bufs,       \* objects of send_pool
  None,       \* no buffer / uninitialised buffer content
  RingCap,    \* usable slots of ring1_2 (an rte_ring of size s holds s-1)
  BurstSize,  \* BURST_SIZE
  PackNum,    \* PACK_NUM, packets per frame
  CacheSlack, \* pool objects that per-lcore caches may keep out of reach
  MaxPacket,  \* bound: the sender sends packets 0 .. MaxPacket-1
  MaxLost     \* bound: packets the network loses

ASSUME SizesAssumption ==
  /\ RingCap \in Nat \ {0}
  /\ BurstSize \in Nat \ {0}
  /\ PackNum \in Nat \ {0}
  /\ CacheSlack \in Nat
  /\ MaxPacket \in Nat
  /\ MaxLost \in Nat

\* pool_size and ring_size are the same number, and a ring of that size
\* holds one object less than the pool.
ASSUME PoolAssumption ==
  /\ IsFiniteSet(Bufs) /\ IsFiniteSet(Lcores)
  /\ Cardinality(Bufs) = RingCap + 1
  /\ None \notin Bufs
  /\ None \notin Nat

VARIABLES
  next, lost,                       \* the wire: next packet, packets lost
  free, mem, ring,                  \* send_pool, its buffers, ring1_2
  pc, burst, msg,                   \* lcore_main, per lcore
  assem_init, panicked,
  dpc, cur,                         \* consumer_thread: program point, tmpp
  tmp, packetSeq, global_count, mis \* consumer_thread: accounting

lcoreVars == <<pc, burst, msg>>
dobVars == <<dpc, cur, tmp, packetSeq, global_count, mis>>
vars == <<next, lost, free, mem, ring, lcoreVars, assem_init, panicked, dobVars>>

Seqs == 0..(PackNum - 1)
PacketSeq(k) == k % PackNum

Init ==
  /\ next = 0 /\ lost = 0
  /\ free = Bufs /\ mem = [b \in Bufs |-> None] /\ ring = <<>>
  /\ pc = [w \in Lcores |-> "rx"]
  /\ burst = [w \in Lcores |-> <<>>]
  /\ msg = [w \in Lcores |-> <<>>]
  /\ assem_init = FALSE /\ panicked = FALSE
  /\ dpc = "drain" /\ cur = None /\ tmp = None
  /\ packetSeq = 0 /\ global_count = 0 /\ mis = 0
-----------------------------------------------------------------------------
(* The network and the timer thread. *)

Lose ==
  /\ next < MaxPacket /\ lost < MaxLost
  /\ next' = next + 1 /\ lost' = lost + 1
  /\ UNCHANGED <<free, mem, ring, lcoreVars, assem_init, panicked, dobVars>>

\* timer_thread raises assem_init one second after the workers start.
AssemInit ==
  /\ ~assem_init
  /\ assem_init' = TRUE
  /\ UNCHANGED <<next, lost, free, mem, ring, lcoreVars, panicked, dobVars>>
-----------------------------------------------------------------------------
(* lcore_main *)

RxBurst(w) ==
  /\ pc[w] = "rx"
  /\ \E n \in 1..BurstSize :
       /\ next + n <= MaxPacket
       /\ burst' = [burst EXCEPT ![w] = [i \in 1..n |-> next + i - 1]]
       /\ next' = next + n
  /\ pc' = [pc EXCEPT ![w] = "get"]
  /\ UNCHANGED <<lost, free, mem, ring, msg, assem_init, panicked, dobVars>>

\* The lcores poll the one receive queue without a lock: two polls at the
\* same time may bring both lcores the same packets.
RxTwice(w) ==
  /\ pc[w] = "rx"
  /\ \E v \in Lcores \ {w}, n \in 1..BurstSize :
       /\ pc[v] = "rx"
       /\ next + n <= MaxPacket
       /\ burst' = [u \in Lcores |-> IF u \in {v, w} THEN [i \in 1..n |-> next + i - 1]
                                                   ELSE burst[u]]
       /\ pc' = [u \in Lcores |-> IF u \in {v, w} THEN "get" ELSE pc[u]]
       /\ next' = next + n
  /\ UNCHANGED <<lost, free, mem, ring, msg, assem_init, panicked, dobVars>>

\* rte_mempool_get_bulk: all n objects or none.
GetBulk(w) ==
  /\ pc[w] = "get"
  /\ \E b \in Injection(1..Len(burst[w]), free) :
       /\ msg' = [msg EXCEPT ![w] = b]
       /\ free' = free \ Range(b)
  /\ pc' = [pc EXCEPT ![w] = "copy"]
  /\ UNCHANGED <<next, lost, mem, ring, burst, assem_init, panicked, dobVars>>

\* The get fails only if the pool is short of objects, those in per-lcore
\* caches not counted; rte_panic then ends the process.
GetBulkPanic(w) ==
  /\ pc[w] = "get"
  /\ Cardinality(free) < Len(burst[w]) + CacheSlack
  /\ panicked' = TRUE
  /\ UNCHANGED <<next, lost, free, mem, ring, lcoreVars, assem_init, dobVars>>

CopyInShort(w) == \* slip: the last packet of a burst is not copied
  /\ pc[w] = "copy"
  /\ mem' = [b \in Bufs |->
               IF b \in {msg[w][i] : i \in 1..(Len(msg[w]) - 1)}
               THEN burst[w][CHOOSE i \in 1..Len(msg[w]) : msg[w][i] = b]
               ELSE mem[b]]
  /\ pc' = [pc EXCEPT ![w] = "enqueue"]
  /\ UNCHANGED <<next, lost, free, ring, burst, msg, assem_init, panicked, dobVars>>
CopyIn(w) ==
  /\ pc[w] = "copy"
  /\ mem' = [b \in Bufs |->
               IF b \in Range(msg[w])
               THEN burst[w][CHOOSE i \in 1..Len(msg[w]) : msg[w][i] = b]
               ELSE mem[b]]
  /\ pc' = [pc EXCEPT ![w] = "enqueue"]
  /\ UNCHANGED <<next, lost, free, ring, burst, msg, assem_init, panicked, dobVars>>

RoomFor(n) == Len(ring) + n <= RingCap

\* rte_ring_enqueue_bulk returns the unsigned number of objects it took, 0
\* or n, so the test "< 0" after it never holds: a burst that finds no room
\* is forgotten, its buffers with it, and the loop goes on.
EnqueueBulk(w) ==
  /\ pc[w] = "enqueue"
  /\ ring' = IF RoomFor(Len(msg[w])) THEN ring \o msg[w] ELSE ring
  /\ burst' = [burst EXCEPT ![w] = <<>>]
  /\ msg' = [msg EXCEPT ![w] = <<>>]
  /\ pc' = [pc EXCEPT ![w] = "rx"]
  /\ UNCHANGED <<next, lost, free, mem, assem_init, panicked, dobVars>>
-----------------------------------------------------------------------------
(* consumer_thread *)

CanDequeueSlip == Len(ring) > 1 \* slip: the last object never comes out

\* rte_ring_dequeue at program point "from".
CanDequeue == ring # <<>>
Dequeue(from, to) ==
  /\ dpc = from
  /\ CanDequeue
  /\ cur' = Head(ring) /\ ring' = Tail(ring)
  /\ dpc' = to
  /\ UNCHANGED <<next, lost, free, mem, lcoreVars, assem_init, panicked,
                 tmp, packetSeq, global_count, mis>>

\* rte_mempool_put of the dequeued buffer.
Put(to) ==
  /\ free' = free \cup {cur} /\ cur' = None
  /\ dpc' = to
  /\ UNCHANGED <<next, lost, mem, ring, lcoreVars, assem_init, panicked,
                 tmp, packetSeq, global_count, mis>>

\* First loop: until assem_init is raised everything is thrown away.
DrainDequeue == ~assem_init /\ Dequeue("drain", "drainPut")
DrainPutSlip == \* slip: the discarded buffer is not returned
  /\ dpc = "drainPut"
  /\ cur' = None /\ dpc' = "drain"
  /\ UNCHANGED <<next, lost, free, mem, ring, lcoreVars, assem_init, panicked,
                 tmp, packetSeq, global_count, mis>>
DrainPut == dpc = "drainPut" /\ Put("drain")
Drained ==
  /\ dpc = "drain" /\ assem_init
  /\ dpc' = "sync"
  /\ UNCHANGED <<next, lost, free, mem, ring, lcoreVars, assem_init, panicked,
                 cur, tmp, packetSeq, global_count, mis>>

\* Second loop: throw away up to the last packet of a frame.
SyncDequeue == Dequeue("sync", "syncPut")
LastOfFrame(k) == PacketSeq(k) = PackNum - 1
SyncPut ==
  /\ dpc = "syncPut"
  /\ Put(IF LastOfFrame(mem[cur]) THEN "main" ELSE "sync")

\* Main loop: copy the packet out, return its buffer, account for it.
MainDequeue == Dequeue("main", "copyOut")
CopyOutSlip == \* slip: the buffer goes back before it has been read
  /\ dpc = "copyOut"
  /\ free' = free \cup {cur} /\ tmp' = mem[cur]
  /\ dpc' = "put"
  /\ UNCHANGED <<next, lost, mem, ring, lcoreVars, assem_init, panicked,
                 cur, packetSeq, global_count, mis>>
CopyOut ==
  /\ dpc = "copyOut"
  /\ tmp' = mem[cur]
  /\ dpc' = "put"
  /\ UNCHANGED <<next, lost, free, mem, ring, lcoreVars, assem_init, panicked,
                 cur, packetSeq, global_count, mis>>
MainPut == dpc = "put" /\ Put("account")

ExpectedAfterShort(k) == (PacketSeq(k) + 1) % (PackNum - 1)
ExpectedAfter(k) == (PacketSeq(k) + 1) % PackNum
MismatchBehind(k) == packetSeq > PacketSeq(k)
Mismatch(k) == packetSeq # PacketSeq(k)
Account ==
  /\ dpc = "account"
  /\ global_count' = global_count + 1
  /\ mis' = IF Mismatch(tmp) THEN mis + 1 ELSE mis
  /\ packetSeq' = ExpectedAfter(tmp)
  /\ dpc' = "main"
  /\ UNCHANGED <<next, lost, free, mem, ring, lcoreVars, assem_init, panicked,
                 cur, tmp>>
-----------------------------------------------------------------------------
LcoreStep(w) == \/ RxBurst(w) \/ RxTwice(w) \/ GetBulk(w) \/ GetBulkPanic(w)
                \/ CopyIn(w) \/ EnqueueBulk(w)

DobStep == \/ DrainDequeue \/ DrainPut \/ Drained
           \/ SyncDequeue \/ SyncPut
           \/ MainDequeue \/ CopyOut \/ MainPut \/ Account

Next == /\ ~panicked
        /\ \/ Lose \/ AssemInit
           \/ \E w \in Lcores : LcoreStep(w)
           \/ DobStep

Spec == Init /\ [][Next]_vars

\* Every thread is pinned to a CPU of its own and spins; the network owes
\* nothing.
Fairness == /\ WF_vars(~panicked /\ AssemInit)
            /\ WF_vars(~panicked /\ DobStep)
            /\ \A w \in Lcores : WF_vars(~panicked /\ LcoreStep(w))
FairSpec == Spec /\ Fairness
-----------------------------------------------------------------------------
(* Properties *)

Held == UNION {Range(msg[w]) : w \in Lcores}
Leaked == Bufs \ (free \cup Range(ring) \cup Held \cup {cur})

\* Shape of every variable; what a thread holds at each program point.
TypeOK ==
  /\ next \in Nat /\ lost \in Nat
  /\ free \subseteq Bufs
  /\ mem \in [Bufs -> Nat \cup {None}]
  /\ ring \in Seq(Bufs)
  /\ pc \in [Lcores -> {"rx", "get", "copy", "enqueue"}]
  /\ burst \in [Lcores -> Seq(Nat)]
  /\ msg \in [Lcores -> Seq(Bufs)]
  /\ \A w \in Lcores :
       /\ Len(burst[w]) <= BurstSize
       /\ Len(msg[w]) = IF pc[w] \in {"copy", "enqueue"} THEN Len(burst[w]) ELSE 0
  /\ assem_init \in BOOLEAN /\ panicked \in BOOLEAN
  /\ dpc \in {"drain", "drainPut", "sync", "syncPut",
              "main", "copyOut", "put", "account"}
  /\ cur \in Bufs \cup {None}
  /\ cur # None <=> dpc \in {"drainPut", "syncPut", "copyOut", "put"}
  /\ tmp \in Nat \cup {None}
  /\ packetSeq \in Seqs
  /\ global_count \in Nat /\ mis \in Nat

\* Every queued buffer has been written, and DOB accounts only for packets it
\* read: no lcore enqueues a buffer it has not filled (basicfwd.cpp:246-251,
\* 389, 482).
NothingUnwritten ==
  /\ \A b \in Range(ring) : mem[b] \in Nat
  /\ \A w \in Lcores : pc[w] = "enqueue" => \A b \in Range(msg[w]) : mem[b] \in Nat
  /\ cur # None => mem[cur] \in Nat
  /\ dpc \in {"put", "account"} => tmp \in Nat

\* Together with the shape of the variables: what DOB computes from a buffer
\* that was not written need not be a packetSeq.
TypeInv == TypeOK /\ NothingUnwritten

\* No buffer is in two places: the pool, the ring, the arrays of the lcores
\* and the hands of DOB share no buffer, and none occurs twice in a queue.
\* (basicfwd.cpp:242-251 and 372-395, 475-484: get, enqueue, dequeue, put.)
OwnedOnce ==
  /\ IsInjective(ring)
  /\ \A w \in Lcores : IsInjective(msg[w])
  /\ \A v, w \in Lcores : v # w => Range(msg[v]) \cap Range(msg[w]) = {}
  /\ free \cap Range(ring) = {}
  /\ \A w \in Lcores : Range(msg[w]) \cap (free \cup Range(ring)) = {}
  /\ cur \notin free \cup Range(ring) \cup Held

\* The bulk enqueue whose failure goes unnoticed (basicfwd.cpp:251) loses at
\* most one burst of buffers in the life of the process, however many lcores
\* poll the channel: the ring is one object short of the pool, so only the
\* first failure can find all missing room taken.
LeakAtMostOneBurst == Cardinality(Leaked) <= BurstSize

\* The same code's panic "Fail to send message, message discard"
\* (basicfwd.cpp:253): buffers that could not be enqueued end the process.
EnqueueFailurePanics == Leaked # {} => panicked

\* The process dies of an empty pool (basicfwd.cpp:244) only when the ring
\* really holds the pool, less what the threads have in their hands and the
\* one burst that may have leaked.
PanicOnlyWhenBacklogged ==
  panicked => Len(ring) + (Cardinality(Lcores) + 1) * BurstSize + CacheSlack
                >= Cardinality(Bufs)

\* DOB's mismatch counter (basicfwd.cpp:539-545) rises once per gap at most:
\* with one lcore, never above the packets the network lost plus the one
\* burst that may be given up.
MisCountsGaps == mis <= lost + (IF Leaked = {} THEN 0 ELSE 1)

\* A clean mismatch counter means that the packets accounted for started on
\* a frame boundary (the loop at basicfwd.cpp:379) and that all packets
\* missing since came in multiples of PACK_NUM.
CleanMeansAligned == mis = 0 => packetSeq = global_count % PackNum

\* Once the sender stops, every buffer taken is worked off: the ring runs
\* empty and nobody holds a buffer (or the process has panicked).
WorkedOff == <>[](panicked \/ (ring = <<>> /\ Held = {} /\ cur = None))

\* With one lcore the path is the promised channel.
TheLcore == CHOOSE w \in Lcores : TRUE
Contents(q) == [i \in 1..Len(q) |-> mem[q[i]]]
Fifo == INSTANCE LossyFifo WITH
  inflight <- (IF cur = None THEN <<>> ELSE <<mem[cur]>>)
                \o Contents(ring) \o burst[TheLcore],
  spent <- Leaked # {}
FifoSpec == Fifo!Spec
=============================================================================
