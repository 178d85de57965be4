# DPDK UDP receiver: specifications

TLA+ modules for the programs of this repository, TLC configurations that check
them on small instances, and TLAPS proofs for any size. All references are to
files under `src/`.

## 1. The system

`basicfwd.cpp` receives a stream of UDP packets, each carrying `frameSeq` (an
unsigned short) and `packetSeq` (0 .. `PACK_NUM`-1, `PACK_NUM` = 44), and puts
frames together. One *channel* is one NIC port with its own rings, pools and
threads; the threads are pinned and spin.

```
 NIC --lcore_main (NOZOMI)--> ring1_2 --consumer_thread (DOB)--> ring2_3
        |  send_pool  <---------------------|     | index, frame pool
        v                                         v
                         align_thread (GODOT) --> ring3_4 --> send_to_pulsar (KAZE)
```

`repeater.cpp` is a second program: `thread2` sends routing requests of a DHSM
(a consumer of channels) to `thread1`, which owns a `Route_Table`.

| Component | State | Operations | What makes it correct |
|---|---|---|---|
| Receive path: `lcore_main`, `consumer_thread` up to its accounting | `send_pool`, `ring1_2`, the `msg` array of each lcore, DOB's `tmp`, `packetSeq`, counters | poll, bulk get, copy, bulk enqueue; discard until `assem_init`, discard to a frame boundary, then dequeue, copy, put, account | no buffer in two places, none read before it is written; order kept; what is given up is bounded; the mismatch counter means what it says; everything received is worked off |
| Frame assembly: DOB's GODOT part, `align_thread`, `send_to_pulsar` | index by `frameSeq`, frame pool, `count`/`flags`/`data` of each frame, `ring2_3`, `ring3_4` | look up, get, fill, enqueue, copy, count; wait or time out, clear, forward; send, reset, clear index, put | a frame in one place only; index and pipeline agree; what is sent is one whole frame; frames go back clean and do go back |
| Routing table | `dhsm_channel_map`, its inverse, the data rings | `handle_msg` = `generate_map1`, `generate_map2`, `free_ring`, `generate_ring` | rings = requests, none leaks, a request does what it asks for and changes no other route |
| Repeater threads | `app_id_ring`, `app_id_mempool`, `init`, `x`, `y` | create, check, dequeue, handle, put; wait, look up, get, send, advance; `rte_panic` | requests handled in order, at most one lost, every channel served again and again unless the process ended at its start |
| Start-up and timer: `main`, `timer_thread` | thread arguments, `timer_init`, `send_thread_init`, `assem_init` | create rings, pools, threads; `port_init`; launch; raise flags; report | DOB assembles only when everything runs; only ports that exist are polled; reports count nothing twice |
| Ring/IPC test programs | one ring, one pool, `start`, `run` | produce, consume, look up | everything sent is received |
| `concurrentqueue.h`: free list of blocks | head, and per block `freeListNext` and `freeListRefs` | `add`, `try_get` | a block has one holder, none is lost, the head is never stale; somebody always gets on |
| ... queue of one implicit producer | four counters, block index, blocks, their `elementsCompletelyDequeued` | `enqueue`, `dequeue`, `enqueue_bulk`, `dequeue_bulk` | first in first out, each element once; a block is found where it is and reused only when it is empty; a failed call leaves nothing behind |
| ... producers and consumers | list of producers, hash tables, both kinds of token | `get_or_add_implicit_producer`, `recycle_or_create_producer`, the `try_dequeue` family | one producer per thread, one thread per producer; consumers leave behind only what they lost to one another; tables keep room and grow |
| `Functions.h`, the QUEUE and linked-list variants | - | - | dead code |

The components meet in the shared objects: an lcore hands a buffer to DOB
through `ring1_2` and gets it back through `send_pool`; DOB, GODOT and KAZE pass
frames along two rings and back through the frame pool, while DOB and KAZE also
share the index, a plain array, and all three the fields of a frame, plain too.
The timer thread releases DOB through `assem_init`. `concurrentqueue.h` is the
lock-free queue of the QUEUE variant (`Data_Struct.h:182-184`), which replaces
`ring1_2` by one; its parts are layered: threads find producers in the tables
and the list, a producer's queue takes its blocks from the free list.

The hard parts, each listed with its line in `PROJECT.json` under "hazards":
limits of pools and rings whose errors are ignored or tested wrongly; unlocked
sharing of index and frames between DOB and KAZE; several lcores on one queue;
a timeout racing late packets; duplicates and losses on the network; a
routing table rebuilt from nothing for each request, with limited rings; and in
`concurrentqueue.h` counters read one after the other, a block index that grows
under its readers, nodes that leave a list and come back, and tables replaced
while others go on with them.

## 2. Modules

| Module | Models |
|---|---|
| `Ingest` | receive path of one channel, any number of lcores |
| `LossyFifo` | abstract: what the receive path promises |
| `Assembler` | frame assembly of one channel |
| `FramePipe` | abstract: what the assembly promises about frame numbers |
| `RouteTable` | `class Route_Table` |
| `Subscriptions` | abstract: what the table promises |
| `Repeater` | the repeater program; EXTENDS `RouteTable` |
| `Startup` | `main`, `port_init`, the launch of the lcores, `timer_thread` with its reports |
| `FreeList` | `FreeList` of `concurrentqueue.h` |
| `BlockPool` | abstract: what users expect of the free list; also the pool of `ImplicitQueue` |
| `ImplicitQueue` | `ImplicitProducer`, with any number of consumers |
| `ElementQueue` | abstract: what one producer's queue promises |
| `ProducerList` | the list of producers, `ProducerToken` and `ConsumerToken`, the dequeues that walk the list |
| `ProducerTable` | the hash tables of implicit producers, composed with `ProducerList` (EXTENDS) |
| `MCIngest`, `MCAssembler`, `MCImplicitQueue`, `MCProducerTable` | symmetry sets, the search constraint and sets of records for TLC |
| `ImplicitQueueInv` | the inductive invariant of `ImplicitQueue`; no theorems |
| `IngestProofs`, `AssemblerProofs`, `RepeaterProofs`, `StartupProofs`, `FreeListProofs`, `ImplicitQueueProofs`, `ProducerTableProofs` | theorems about the module of the name; `RepeaterProofs` also about `RouteTable` |
| `DataFacts` | lemmas about data that several proofs need: queues in which nothing occurs twice, remainders, induction over numbers |

An operator commented "slip" is a plausible mistake in the definition it stands
before. No specification uses it; it shows that a property can fail (the
"mutants" of `PROJECT.json`).

### Correspondence and abstraction

*Ingest.* A packet is its position in the sender's stream; `PacketSeq` is what
the code compares. A buffer (`mem`) holds such a position. An lcore is at one of
four points (`pc`: rx, get, copy, enqueue), one action per shared operation;
`bufs` of the code is `burst`. The loop over three ports is reduced to one
channel that every lcore polls: channels share nothing but the lcores. Two lcores that poll the queue at the
same moment may both be given the same packets (`RxTwice`): the driver's receive
function takes no lock. What freeing a packet buffer twice then does inside the
driver is not modelled. A pool's per-lcore cache can keep objects out of reach:
`CacheSlack` bounds how many, and lets a bulk get fail although the objects
exist. The network may lose packets here; duplicates, which only matter to
frames, are in `Assembler`, and reordering is in neither. DOB's three loops are `drain`, `sync` and `main`, with `tmpp` in `cur`.
`cur` is `None` between iterations.

*Assembler.* GODOT and KAZE are commented out in `Data_Struct.h:28-29`: the
default build ends with the accounting of `Ingest`. The module is the code as it
runs with the two lines active, one step per access to memory shared by two
threads. The index entry read at `basicfwd.cpp:572` may be read again at 636 and
640 (no optimisation) or kept (with -O3), so `Lookup` allows both; a null entry
read again is a null dereference, which ends the process ("fault"). The fill of
a new frame is one step: nobody else knows the frame yet. In `send_to_pulsar`
the copy is a step of its own, and so is each of count, flags, index and put. A
data slot holds the packet last copied into it or `None` for zeroes; DPDK hands
out zeroed memory. Time is abstract: a timeout may happen at any moment while
the frame is incomplete.

*RouteTable.* Maps are functions, bitsets and vectors sets. A ring is its name.
`generate_ring` creates as many rings as DPDK has room for; which routes go
without depends on the iteration order of an `unordered_map` and is free in the
model. A null pointer stored for a ring that could not be created is left out:
freeing it does nothing. `generate_ring` lacks a return statement although it
is not void; the repeater's build sets no optimisation level and the function
returns there, which is what is modelled.

*Startup.* One action per iteration of a loop of `main` and of `timer_thread`;
every creation may fail the way the code handles it. `port_init` is one step
that succeeds or fails. The receive path is reduced to `Poll` and `Count`. A
poll of a port that was not initialised is undefined behaviour of the driver and
ends the model ("fault"), and so does reading an empty argument vector.

*Repeater.* thread1 creates the ring and the pool, each of which may fail, and
looks at both pointers before it raises `init`; thread2 looks both up by name
(`LookUp`). Where one is missing `rte_panic` ends the process (`panicked`), and
neither thread takes a step any more. thread1 handles a request in the table's
four steps. The ring of `APP_ID_RING_SIZE` holds one object less than the pool
has. The constructor of `Route_Table` asks DPDK for a pool that nothing uses and
does not look at the result; it is left out.

*The queue of concurrentqueue.h.* In all its modules one action is one operation
on an atomic variable that another thread can tell apart (a load whose result
only its thread uses may be joined with the operation next to it), and memory is
sequentially consistent. Three modules stand on one another's abstraction:

- `FreeList` has the two halves of `freeListRefs`, the count and the flag, as
  two variables, written together where the code writes the word.
- `ImplicitQueue` takes blocks from a set, which is what `FreeList` is shown to
  be (`PoolSpec`); `malloc` is the same set. An element is its number. A
  dequeue of one is modelled with the bulk dequeue, whose steps it shares.
  Entries of the block index that nobody has written hold `Junk`.
- `ProducerList` has each producer's queue as two counters, which is what
  `ImplicitQueue` is shown to implement (`QueueSpec`). A dequeue there may give
  back a claim and return less than there is, or nothing: it claims on counts
  that are stale when another consumer has claimed from the same producer since,
  or has not yet given back what it claimed too much
  (`concurrentqueue.h:2598-2600`, `2780-2782`, `2858-2860`). `ProducerList` has
  the outcome without the counts: `contested` are the consumers that have met
  another one in the dequeue they are in, and such a consumer gets any number of
  elements up to what it wants and finds (`Outcomes`), a consumer that met
  nobody all of that. `lost` in its locals is where that cost a call elements.
  This allows more than the code, which seldom fails; which claims fail is in
  `ImplicitQueue`.
- `ProducerTable` has a hash table as a function from threads to producers:
  linear probing finds a thread or its free slot as long as one is free, which
  is the invariant `RoomInTables`. Taking the lock and loading the table again
  are one step, since only the holder of the lock replaces the table. A thread
  that exits keeps its producer: `MOODYCAMEL_CPP11_THREAD_LOCAL_SUPPORTED` is
  off (`concurrentqueue.h:221`), so only tokens hand producers on, and the scan
  of a thread for an inactive producer, which finds none, is left out.

## 3. Runs

Passing runs.

| Run | Instance | Shows |
|---|---|---|
| `ingest_one` | 1 lcore, 4 buffers, bursts of 2, frames of 3, 9 packets, 2 lost | the path is a FIFO that gives up at most one burst (`FifoSpec`, refinement of `LossyFifo`); one mismatch per gap at most, and a clean counter means an aligned stream |
| `ingest_many` | 2 lcores, 4 buffers, bursts of 1, 3 packets, `FairSpec` | `TypeInv`: shapes, and nothing read unwritten; no buffer in two places; leaks of both lcores together bounded; the panic needs a real backlog; what is received is worked off |
| `assemble` | 2 frames of 2 packets, 4 numbers, 9 packets, 2 lost, 1 duplicated | `FramesSound` and `IndexConsistent` until the pool runs dry; frame numbers leave in order (`PipeSpec`, refinement of `FramePipe`); without drops and duplicates whole frames, a clean pool (`FramesWhole`) and no null dereference |
| `assemble_live` | 2 frames, 5 packets, 1 lost; also past a dry pool | every frame returns to the pool |
| `route_table` | 3 DHSMs, 2 channels and an invalid one, 4 rings for 6 routes | rings match requests, none leaks (`RingsSound`), a request adds or takes away just the route it names, as its flag says (`SubsSpec`, refinement of `Subscriptions`) |
| `startup` | 2 workers, 3 ports, counters of 3 values, 3 packets | DOB assembles only when everything runs (`StartSound`); nothing faults on three ports; a packet is in no two reports, across the wrap of the counter too; a start that does not fail completes |
| `repeater` | 3 channels, a pool of 3 (ring of 2) | one request lost at most, routes follow the script; the process ends in `rte_panic` before `init` or raises it, and from then on every channel turns for ever (`EveryChannelTurns`), which also says that the panics of thread2's lookups are never reached |
| `free_list` | 3 threads, 2 blocks | every block in one place and every reference counted (`ListSound`); no stale head (`NextStable`); one holder per block (`PoolSpec`, refinement of `BlockPool`); lock-free (`LockFree`) |
| `implicit_queue` | 2 consumers, 3 blocks of 2 slots, an index of 2 that grows once, 7 elements, bulk calls of 5 in and 2 out | a block is in one place and is found where it is, by every consumer (`BlocksSound`, `LookupRight`); neither entry nor slot is reused in use (`ReuseSafe`); claims add up (`Accounting`); blocks come back (`BlocksReturn`); first in first out, each element once (`QueueSpec`, refinement of `ElementQueue`) |
| `producer_table` | 3 threads, 2 tokens, 2 consumers in four casts, 3 producers, tables from 2 slots | tables keep a free slot and count right, failures included (`TablesSound`); one producer per thread, one thread per producer; all producers on the list (`ListSound`); a dequeue that returns short leaves no element behind that was there when it was called, but in producers where it lost a claim to another consumer (`MissesOnlyLost`); calls end (`CallsEnd`) |

Runs that end in a violation, each a line of "findings":

| Run | What it shows |
|---|---|
| `ingest_enqueue_failure` | `basicfwd.cpp:251` tests an unsigned result for `< 0`: a burst that finds the ring full is lost with its buffers, and the panic of line 253 is unreachable |
| `assemble_exhaustion` | `basicfwd.cpp:574` ignores the result of the get; the stale pointer passes the null check |

Two more disagreements are visible in the models without a run of their own. A
frame that timed out is counted in `drop_count` and sent all the same (`TimeOut`,
then `Forward`: the block that would release it is commented out at
`basicfwd.cpp:790-794`). And with as many ports as lcores, but fewer than three,
the lcores poll a port that does not exist (`FaultOnlyOnSmallMachines` is stated
with that exception).

### Bounds

`MaxPacket` bounds the stream, `MaxLost` and `MaxDup` the network's misdeeds;
they appear as guards of the wire's actions only. They are large enough for the
cases that matter: in `ingest_one` the ring fills, a burst is given up, gaps
within and across frames occur and three frames pass; in `ingest_many` both a
leak and a panic are reachable, and the theorems cover all other sizes; in
`assemble` the first frame number comes round again (four numbers, five frames)
while old frames are still in the pipeline, frames time out, late packets open a
frame a second time, and the pool runs dry. `MaxLost` is `PackNum`, so
a frame of the sender may be lost whole and its number be missing. The constraint
`UntilDry` of `assemble` leaves out what comes after the first failed get, where
the properties promise nothing; `assemble_live` explores it. Buffers, frames,
lcores and consumers are symmetric: the specifications only compare them. No
symmetry is used with liveness.

`free_list` has no bound. In `implicit_queue`, `MaxTail` is 7: the index wraps
before it grows, so that a rotated index is copied, and blocks are used a second
time; `MaxEntries` (entries of all indexes together) and the blocks bound malloc, so that enqueues fail with one,
two or no block of a bulk call published. `MaxOvercommit` bounds how often
claims fail side by side: once that many have, calls no longer overlap. In
`producer_table`, `Casts` says who takes part together (three threads; a thread
and a token; two tokens; a thread and two consumers), how often `malloc` fails
and how often they call `enqueue`; a table of two slots grows at the first
producer, and with `Capacities` of 2, 4 and 8 there is one to spare for three
threads, as `CapacitiesAssumption` asks. `ScoreLimit` is 3 and `Quota` 256 in
the code and both are 1 here, so that either limit is met; what the code does
beyond the quota depends on the call, which `Turns` keeps. Two consumers meet in
the cast that has one producer, and one consumer walks past two in the casts of
two: both together take longer than is practical, and are left to the theorem.

Deadlock is not checked where the stream or the number of calls is finite, since
the end of it is a legitimate end, nor where the process can die, as that of `repeater` does when a creation fails
(that it gets on otherwise is `EveryChannelTurns`). `route_table` runs for ever
and is checked.

### Fairness

Weak fairness of each thread as a whole, guarded by the process being alive:
each thread is pinned by `main` to a CPU of its own or spins with `yield`, and
none blocks on another. The network owes nothing: neither losing nor duplicating
is fair, nor is sending in `Assembler`. In `Ingest` the poll that brings a packet
is a step of the lcore and fair with it, so that the bounded stream arrives in the
end; `WorkedOff` does not rest on that, since it speaks of what has arrived. The timeout of GODOT is a disjunct of its thread: a thread
that runs sees the time stamp counter pass the limit. `AssemInit` is fair
because the timer thread only sleeps a second.

`FreeList` and `ProducerTable` have weak fairness of each thread inside a call
(`Finish`: a call begun is carried on; nobody has to call). That is enough for
lock-freedom, and for `CallsEnd`, since there the number of calls is bounded.
`ImplicitQueue` has no liveness: two consumers that poll an empty queue can
invalidate each other's claims for ever, and the code promises nothing else.

## 4. Proofs

Each proof module proves `Spec => []IInv` for an inductive `IInv` (the name may
differ) and derives its theorems. All sizes are arbitrary; the bounds on packets
and failures stay in the specifications as arbitrary numbers.

**`IngestProofs`**, for every finite set of lcores and every finite pool one
object larger than its ring (`PoolAssumption`: `pool_size` = `ring_size`, and a
ring of that size holds one less):

- `TypeCorrect`: `TypeInv`. The shapes alone are not inductive: DOB computes its
  expected number from the packet it read, which is a number only if the buffer
  had been written. `TypeInv` adds exactly that.
- `BuffersOwnedOnce`: `OwnedOnce`, inductive relative to `TypeInv`; each action
  moves buffers from one owner to one other, and the lemmas of `DataFacts`
  say what a bulk enqueue and a dequeue do to the set of queued buffers.
- `LeakBounded`: `LeakAtMostOneBurst`, by counting: when an enqueue finds no
  room, the ring holds more than `RingCap - n` buffers and the lcore another
  `n`, all different. That is the whole pool of `RingCap + 1`, so nothing can
  have leaked before, and what leaks now is one burst (`NoRoomLeaksTheBurst`).
- `PanicMeansBacklog`: `PanicOnlyWhenBacklogged`. The pool is what is free, in
  the ring, held or leaked; the rest is bounded by the three theorems before.
- `CleanIsAligned`: `CleanMeansAligned`. The invariant relates DOB's expected
  number to the packets accounted for at each of its program points.
- With one lcore (`Cardinality(Lcores) = 1`; two may be handed the same packets),
  `ImplementsLossyFifo`: `FifoSpec`. The channel is the packet in DOB's hand, the
  contents of the ring and the burst. `ChannelSteps` says what each step does to
  it; for the enqueue this needs `Copied` (a burst that is ready is in its
  buffers, in its order), for the copy that no buffer written to is in the ring
  or in DOB's hand (`OwnedOnce`).
- Also with one lcore, `MismatchesAreGaps`: `MisCountsGaps`. What DOB has counted
  says nothing of the gaps still on their way, so `GapsInv` counts both: the
  mismatches so far and the packets under way that do not follow the one before
  (`Jumps`), the next one of the wire included, are no more than were lost, and
  one for the burst given up. A loss or a burst given up adds one such packet at
  most (`JumpsCut`); each mismatch takes one away (`JumpsTake`).

**`AssemblerProofs`**, for any frames, frame size and frame numbers, losses and
duplicates, until the pool runs dry:

- `EveryFrameOnce`: `FramesSound`. That a frame is in one place is not inductive:
  which frame DOB enqueues depends on the index, which KAZE changes meanwhile.
  So `Indexed` is part of the invariant: an entry leads to a frame just if the
  frame is out of the pool, filled for that number and not yet unindexed.
- `IndexLeadsToFrames`: `IndexConsistent`.
- `ImplementsFramePipe`: `PipeSpec`. A hand-over leaves the concatenation of
  rings and hands as it is (`PipeKept`), a get appends a number that `Indexed`
  says is new, the release of the entry removes the oldest.
- `FramesAreWhole` (`FramesWhole`) and `NoNullEntry` (`FaultOnlyWhenTroubled`), if
  the frame numbers outnumber the frames of the pool and those lost whole
  (`EnoughNumbers`). The condition is needed: with two numbers and three packets
  lost of six (`MaxLost = 3`, `MaxPacket = 6`, no duplicate) TLC finds a frame
  waiting for its last packet completed by one of the frame two later, and sent.
  In the code 65536 - 16384 frames would have to be lost, the timeout not
  elapsing. `WholeInv` says there are `G`, the frame of the sender each frame is
  or was last for, and `W`, frames lost whole, with (`Gens`): along the pipeline
  `G` rises, the pool's frames are older (`InOrder`); no data is newer than its
  frame (`Stale`); the count is that of the packets present, but for the one DOB
  is counting (`Counted`); a frame let go is full and older than the packet in
  hand (`Finished`); and from each frame in use up to DOB's every frame of the
  sender is some frame's `G` or in `W` (`Covered`). So fewer than `NumFrameSeq` lie
  between, and the index leads DOB to the packet's own frame (`Window`, `Found`),
  which KAZE cannot have yet (`Current`). TLC checked `Gens` with `G` and `W` as
  added variables on three instances, before the proof.

**`RepeaterProofs`**, the table (finite sets of DHSMs and channels, any number of rings):
`RingsAccounted` (`RingsSound`), `RingsAsRequested` (`RingsMatchRequests`) and
the refinement `ImplementsSubscriptions` (`SubsSpec`): every request, once
answered, has added or taken away the pair it names, as its flag says, and no
other. The invariant says what holds between the four steps: what is asked for
is the routes as the request in hand wants them (`OneChange`), and rings are created when there are
none. The requests, for any
number of channels and any pool: `AtMostOneLost` (`LostAtMostOne`) and
`RoutesAreScripted` (`RoutesFollowScript`). The pool is one object larger than
the ring, so a request finds the ring full only if none was lost. As long as none
is, `OnScript` is invariant: the ring and the request in hand are the next steps
of thread2's cycle in their order, and each of the two maps is what the script
says after the steps that have reached it.

**`StartupProofs`**: `AssembledLast` (`StartSound`), `NoFault`
(`FaultOnlyOnSmallMachines`), `ReportsAtMostCounted` (`NeverOverReported`), for
any lcores, ports and counter width. The invariant says how far each loop is,
that no flag is up before the launch, and for the reports what has been printed
and what the next difference will add, modulo the width.

**`FreeListProofs`**, for any finite sets of threads and blocks: `ListStaysSound`
(`ListSound`), `NoStaleSuccessor` (`NextStable`), `PoppedUnflagged` (`FlagClear`)
and `ImplementsBlockPool` (`PoolSpec`). What is on the list the proof has by
elimination (`OnList`: owned by nobody, not flagged, nobody links it or has just
popped it). The invariant `Inv`: head and `next` move within that set; no two of
its members have the same successor; a thread that looks at a node has its
reference; a count of zero means that nobody looks. That is enough for the last
three. `ListSound` computes the list by following `next` from the head (`Chain`),
and needs that this walk ends and meets nothing else: it ends because no node is
met twice (`ChainEnds`), and it leaves out no node because of `Reached`, a second
invariant: no proper subset of the list holds the head and the successor of each
of its nodes. So `Listed` and `OnList` are the same (`ListedIs`), every block is
in one place, and a count is what refers to its node.

**`ImplicitQueueProofs`**, for any finite set of consumers, any blocks, block and
index sizes of at least 2, bulk calls of any sizes and any bounds: all properties
of the run `implicit_queue`. The invariant has a module of its own,
`ImplicitQueueInv`; before it was proved TLC checked it, with the offsets kept as
a bounded variable, on two consumers, three blocks, bulk calls of 3 and 2 and five
elements (183123 states).

- `ClaimsAccounted`: `Accounting`, from `Frame`, which is inductive by itself. The
  equation between the counters is not enough for "no more is granted than is
  there": a claim that has been counted but not yet compared with the tail
  (`reload`) may turn out too large, and so may those after it. `Covered` orders
  claims by the optimistic count each one found, its ticket: what the earlier
  ones may still take leaves room for this one, or this one will give back.
- `LookupIsRight`, `ReuseIsSafe`, `AllBlocksReturn`, `BlocksAreSound`: from `Deep`.
  The lookup counts from the tail of whatever index it loaded, so the invariant
  says where each block is in every index ever used. It takes two witnesses:
  `off`, by which the numbers of blocks are shifted in each index (a full index
  is rotated when it is copied), and `r`, above all blocks ever entered.
  `Window` (all live blocks fit in the index) and `Keyed` (the keys from any live
  block to the tail are consecutive multiples) make the subtraction in
  `PositionOf` right; `Found` says the same of a consumer that still works with
  an index that was replaced. `r` and not the tail bounds the keys, because a
  bulk call that fails rewinds the tail under consumers that have read it. A
  block is alive while an element of it is not counted as dequeued
  (`Outstanding`), which is what frees it exactly once (`Settled`, `Counted`).
- `IsQueue`: `QueueSpec`. `Filled` says that a live block holds its elements in
  their slots, so what `Move` takes out is what was claimed.

**`ProducerTableProofs`**, for any finite sets of threads and tokens, any
consumers, tables of any sizes and any bounds: all properties of the run
`producer_table` but the liveness. TLC checked each invariant before its proof.

- `ProducersNotShared` (`Exclusive`), `OneProducerEach` (`OneProducer`): `IInv`. A
  thread may find its producer in tables that are not current and forgets it
  between calls, so ownership is stated over all tables and all hands; an inactive
  producer belongs to nobody, and a thread on its way to a new one is in no table.
- `TablesKeepRoom`: `TablesSound`, from `TInv`. That tables have room is not
  inductive: threads that were told to go ahead have not inserted yet, and others
  will copy themselves from older tables. `Bounded` counts both: of the threads
  that are in table h or an earlier one, and of those still to be inserted that
  got a count of m at most, there are no more than m once m reaches three quarters
  of the capacity. The count a thread got is what `SlotsCounted` makes of it.
- `ListStaysSound`: `ListSound`, from `LInv`. `Ahead(q, p)` says without recursion
  that p is found from q: every set that has q and that `next` does not leave has
  p. `Chain` has all producers ahead of the tail and none going round in a circle
  (`Grounded`); `ReachIs` shows, by induction on the number of steps, that the
  set `Reach` computes is one that `next` does not leave.
- `OnlyWhatIsLostIsMissed`: `MissesOnlyLost`, an action property, from `CInv`:
  what was there when the call began and is there still, in a producer where the
  call has lost nothing (`Due`), is ahead of the consumer or, with a token, on its
  way round (`Around`). A dequeue takes all it can or loses some (`TakeFacts`). A walk round the list passes
  every producer because a set that it does not leave has all of them
  (`AllTheWayRound`), and producers that are added meanwhile are in nobody's way
  (`SoundStays`).

Assumed: in the programs, the atomic steps of DPDK's rings and pools, which are
external code; in `concurrentqueue.h`, sequential consistency; in `FreeList`, that
threads and blocks are finitely many (`PoolAssumption`); and in `ProducerTable`,
that there are finitely many threads and tokens and no actor is both
(`ActorsAssumption`), that calls ask for at least one element and a scan stops
after at least one producer (`ConsumersAssumption`), and that the capacities,
each the double of another from the initial one on, suffice for the threads
there are (`CapacitiesAssumption`).

Model-checked only: all liveness (`WorkedOff`, `AllReturn`, `StartCompletes`,
`EveryChannelTurns`, `CallsEnd`, `LockFree`), since TLAPS proves nothing under
fairness; every other property of a passing run has its theorem. No
module declares a RECURSIVE operator. The library's induction theorems take an
operator and cannot be used; where a proof needs induction, it has it from the
least number of a set (`LeastNumber`, `Induction`, `Iteration` in `DataFacts`).

## 5. Not modelled

- The Pulsar producer (SEND is not defined), logging, the numbers printed other
  than the packet counts.
- The bytes of a packet. `send_id`, copied into each message, is never assigned.
- `check_port_pair_config`, `print_pkt`, `dump`, `send_return_msg` and
  `Functions.h`: never called.
- The QUEUE and linked-list variants: they no longer compile.
- Of `concurrentqueue.h`: the queue of an explicit producer (`ExplicitProducer`,
  whose ring of blocks differs from the index modelled here), moving, swapping
  and destroying queues, payloads whose constructors throw, and orders of memory
  accesses weaker than sequential consistency.
- The thread and container experiments: single-threaded demonstrations.
- The ring and IPC test programs: manual tests of DPDK's rings.

## 6. Plan

Done: the programs (`Ingest`, `Assembler`, `Startup`, `RouteTable`, `Repeater`)
and the implicit half of `concurrentqueue.h`, with the proofs above. Left:

1. `ExplicitProducer` of `concurrentqueue.h`, against the same `ElementQueue`.
2. Composition: `Ingest` delivering into `Assembler` for a whole channel, with
   the promise from wire to message.
3. Proofs: what `MisCountsGaps` and `FifoSpec` say of one lcore is false of several,
   whose bursts overtake one another (TLC shows both on the instance of
   `ingest_many` with five packets); what holds of them is still to be stated.
4. `IpcRing`: the test programs' producer and consumer, with the start and run
   flags and the look-up.
