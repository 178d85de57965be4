--------------------------- MODULE ImplicitQueue ---------------------------
(***************************************************************************)
(* ImplicitProducer (concurrentqueue.h:2406-3015), the queue of one        *)
(* thread that enqueues without a token, with any number of consumers:     *)
(* enqueue and dequeue, one by one and in bulk, the index that leads from  *)
(* an element's number to its block, and the blocks' way to the free list  *)
(* and back.                                                               *)
(*                                                                         *)
(* One action is one operation on an atomic that another thread can tell   *)
(* apart; memory is sequentially consistent.  The payload of an element is *)
(* its number.  The pool of blocks is the abstract BlockPool, which        *)
(* FreeList implements, together with malloc.                              *)
(***************************************************************************)
EXTENDS Integers, Sequences, FiniteSetsExt

CONSTANTS
  Consumers,      \* threads that dequeue
  Blocks,         \* blocks the pool and malloc can provide
  None,           \* nullptr
  BlockSize,      \* BLOCK_SIZE
  IndexSize,      \* IMPLICIT_INITIAL_INDEX_SIZE
  MaxEntries,     \* bound: entries that malloc provides
  MaxTail,        \* bound: elements ever enqueued
  MaxOvercommit,  \* bound: once so many claims failed, calls do not overlap
  BulkIn,         \* sizes of bulk calls that enqueue
  BulkOut         \* sizes of bulk calls that dequeue

\* static_asserts of concurrentqueue.h:774-777 (powers of two are not needed).
ASSUME SizeAssumption == BlockSize \in Nat \ {0, 1} /\ IndexSize \in Nat \ {0, 1}
ASSUME BoundsAssumption == MaxTail \in Nat /\ MaxEntries \in Nat /\ MaxEntries >= IndexSize
\* Nobody asks for a bulk call of no elements.
ASSUME BulkAssumption == BulkIn \subseteq Nat \ {0} /\ BulkOut \subseteq Nat \ {0}
ASSUME PeopleAssumption == IsFiniteSet(Consumers)

INVALID_BLOCK_BASE == 1    \* no block base, as blocks have more than one slot
Junk == "junk"             \* value of a BlockIndexEntry nobody has written
Gone == -1                 \* content of a slot without an element

ASSUME BlocksAssumption == None \notin Blocks /\ Junk \notin Blocks \cup {None}

Entries == 1..MaxEntries
Slots == 0..(BlockSize - 1)

VARIABLES
  tailIndex, headIndex, dequeueOptimisticCount, dequeueOvercommit,
  headers,        \* all BlockIndexHeaders, the last one is blockIndex
  key, value,     \* of each BlockIndexEntry
  elements,       \* what each slot of each block holds
  completed,      \* elementsCompletelyDequeued of each block
  free,           \* blocks of the pool
  tailBlock,
  ppc,            \* where the producer is
  goal,           \* its newTailIndex
  bulk,           \* whether it is in enqueue_bulk
  idxEntry,       \* entry it is inserting
  newBlock,       \* block it has just got
  chain,          \* blocks it has published in this call, firstAllocatedBlock first
  undone,         \* how many of them a failed call has taken out again
  cpc,            \* where each consumer is
  loc,            \* its local variables
  out             \* elements that consumers have got

counters == <<tailIndex, headIndex, dequeueOptimisticCount, dequeueOvercommit>>
index == <<headers, key, value>>
memory == <<elements, completed, free>>
producer == <<tailBlock, ppc, goal, bulk, idxEntry, newBlock, chain, undone>>
consumer == <<cpc, loc, out>>
vars == <<counters, index, memory, producer, consumer>>

NoLocals == [tail |-> 0, overcommit |-> 0, my |-> 0, want |-> 0, owe |-> 0,
             at |-> 0, stop |-> 0, header |-> 0, pos |-> 0, block |-> None]

Base(i) == i - (i % BlockSize)
FirstBase(i) == Base(i + BlockSize - 1)     \* first block base from i on

blockIndex == headers[Len(headers)]
NewTail == (blockIndex.tail + 1) % blockIndex.capacity

Init ==
  /\ tailIndex = 0 /\ headIndex = 0
  /\ dequeueOptimisticCount = 0 /\ dequeueOvercommit = 0
  /\ headers = << [capacity |-> IndexSize, tail |-> IndexSize - 1,
                   index |-> [p \in 0..(IndexSize - 1) |-> p + 1]] >>
  /\ key = [e \in Entries |-> INVALID_BLOCK_BASE]
  /\ value = [e \in Entries |-> Junk]
  /\ elements = [b \in Blocks |-> [s \in Slots |-> Gone]]
  /\ completed = [b \in Blocks |-> 0]
  /\ free = Blocks
  /\ tailBlock = None /\ ppc = "idle" /\ goal = 0 /\ bulk = FALSE
  /\ idxEntry = 0 /\ newBlock = None /\ chain = <<>> /\ undone = 0
  /\ cpc = [c \in Consumers |-> "idle"]
  /\ loc = [c \in Consumers |-> NoLocals]
  /\ out = {}
-----------------------------------------------------------------------------
(* The producer *)

\* Number of the block that is inserted next, by its first element.
CurrentBase == FirstBase(tailIndex) + Len(chain) * BlockSize

EndCall == ppc' = "idle" /\ goal' = 0 /\ bulk' = FALSE

Enqueue ==
  /\ ppc = "idle" /\ tailIndex < MaxTail
  /\ goal' = tailIndex + 1 /\ bulk' = FALSE
  /\ ppc' = IF tailIndex % BlockSize = 0 THEN "insert" ELSE "construct"
  /\ UNCHANGED <<counters, index, memory, tailBlock, idxEntry, newBlock, chain,
                 undone, consumer>>

EnqueueBulk ==
  /\ ppc = "idle"
  /\ \E n \in BulkIn :
       /\ tailIndex + n <= MaxTail
       /\ goal' = tailIndex + n
       /\ ppc' = IF FirstBase(tailIndex) < tailIndex + n
                 THEN "insert" ELSE "construct"
  /\ bulk' = TRUE
  /\ UNCHANGED <<counters, index, memory, tailBlock, idxEntry, newBlock, chain,
                 undone, consumer>>

EntryAlways(e) == e \in Entries \* slip: takes the next entry whatever it holds

EntryUnused(e) == key[e] = INVALID_BLOCK_BASE \/ value[e] = None

InsertEntry ==
  LET e == blockIndex.index[NewTail]
  IN  /\ ppc = "insert" /\ EntryUnused(e)
      /\ key' = [key EXCEPT ![e] = CurrentBase]
      /\ idxEntry' = e
      /\ ppc' = "advance"
      /\ UNCHANGED <<counters, headers, value, memory, tailBlock, goal, bulk,
                     newBlock, chain, undone, consumer>>

AdvanceTail ==
  /\ ppc = "advance"
  /\ headers' = [headers EXCEPT ![Len(headers)].tail = NewTail]
  /\ ppc' = "block"
  /\ UNCHANGED <<counters, key, value, memory, tailBlock, goal, bulk, idxEntry,
                 newBlock, chain, undone, consumer>>

NewBlockIndexAsIs == \* slip: the old entries are copied where they are
  LET old == blockIndex.capacity
  IN  /\ ppc = "insert" /\ ~EntryUnused(blockIndex.index[NewTail])
      /\ 2 * old <= MaxEntries
      /\ headers' = Append(headers,
           [capacity |-> 2 * old, tail |-> old - 1,
            index |-> [p \in 0..(2 * old - 1) |->
                         IF p < old THEN blockIndex.index[p] ELSE p + 1]])
      /\ UNCHANGED <<counters, key, value, memory, producer, consumer>>

\* No room: twice the entries, the old ones first and the oldest at the front.
NewBlockIndex ==
  LET old == blockIndex.capacity
  IN  /\ ppc = "insert" /\ ~EntryUnused(blockIndex.index[NewTail])
      /\ 2 * old <= MaxEntries
      /\ headers' = Append(headers,
           [capacity |-> 2 * old, tail |-> old - 1,
            index |-> [p \in 0..(2 * old - 1) |->
                         IF p < old THEN blockIndex.index[(NewTail + p) % old]
                                    ELSE p + 1]])
      /\ UNCHANGED <<counters, key, value, memory, producer, consumer>>

\* ... or no memory for them.
NoIndex ==
  /\ ppc = "insert" /\ ~EntryUnused(blockIndex.index[NewTail])
  /\ IF bulk THEN ppc' = "undo" /\ UNCHANGED <<goal, bulk>> ELSE EndCall
  /\ UNCHANGED <<counters, index, memory, tailBlock, idxEntry, newBlock, chain,
                 undone, consumer>>

Requisition ==
  /\ ppc = "block"
  /\ \E b \in free :
       /\ newBlock' = b
       /\ free' = free \ {b}
       /\ completed' = [completed EXCEPT ![b] = 0]
  /\ ppc' = "publish"
  /\ UNCHANGED <<counters, index, elements, tailBlock, goal, bulk, idxEntry,
                 chain, undone, consumer>>

RewindTail ==
  headers' = [headers EXCEPT ![Len(headers)].tail =
                (@ - 1) % blockIndex.capacity]

\* Neither a block nor memory: the entry inserted last is undone.
NoBlock ==
  /\ ppc = "block"
  /\ RewindTail
  /\ value' = [value EXCEPT ![idxEntry] = None]
  /\ idxEntry' = 0
  /\ IF bulk THEN ppc' = "undo" /\ UNCHANGED <<goal, bulk>> ELSE EndCall
  /\ UNCHANGED <<counters, key, memory, tailBlock, newBlock, chain, undone,
                 consumer>>

\* Bulk only: another block, or all of them are there.
Publish ==
  /\ ppc = "publish"
  /\ value' = [value EXCEPT ![idxEntry] = newBlock]
  /\ chain' = Append(chain, newBlock)
  /\ idxEntry' = 0 /\ newBlock' = None
  /\ ppc' = IF CurrentBase + BlockSize < goal THEN "insert" ELSE "construct"
  /\ UNCHANGED <<counters, headers, key, memory, tailBlock, goal, bulk, undone,
                 consumer>>

\* Position of a block base in an index, seen from its tail.
PositionOf(base, h, tail, tailKey) ==
  (tail + (base - tailKey) \div BlockSize) % headers[h].capacity

\* A bulk call that fails takes the blocks it has published out of the index,
\* the first one first ...
Undo ==
  LET base == FirstBase(tailIndex) + undone * BlockSize
      tailKey == key[blockIndex.index[blockIndex.tail]]
      p == PositionOf(base, Len(headers), blockIndex.tail, tailKey)
  IN  /\ ppc = "undo" /\ undone < Len(chain)
      /\ value' = [value EXCEPT ![blockIndex.index[p]] = None]
      /\ RewindTail
      /\ undone' = undone + 1
      /\ UNCHANGED <<counters, key, memory, tailBlock, ppc, goal, bulk,
                     idxEntry, newBlock, chain, consumer>>

GiveBackLast == \* slip: only the last of the blocks goes back
  /\ ppc = "undo" /\ undone = Len(chain)
  /\ free' = IF chain = <<>> THEN free ELSE free \cup {chain[Len(chain)]}
  /\ chain' = <<>> /\ undone' = 0
  /\ EndCall
  /\ UNCHANGED <<counters, index, elements, completed, tailBlock, idxEntry,
                 newBlock, consumer>>

\* ... and gives them back.
GiveBack ==
  /\ ppc = "undo" /\ undone = Len(chain)
  /\ free' = free \cup {chain[i] : i \in DOMAIN chain}
  /\ chain' = <<>> /\ undone' = 0
  /\ EndCall
  /\ UNCHANGED <<counters, index, elements, completed, tailBlock, idxEntry,
                 newBlock, consumer>>

\* The block element i of this call goes to.
Target(i) ==
  IF i < FirstBase(tailIndex) THEN tailBlock
  ELSE chain[(i - FirstBase(tailIndex)) \div BlockSize + 1]

Construct ==
  /\ ppc = "construct"
  /\ elements' = [b \in Blocks |-> [s \in Slots |->
       LET mine == {i \in tailIndex..(goal - 1) :
                      Target(i) = b /\ i % BlockSize = s}
       IN  IF mine = {} THEN elements[b][s] ELSE CHOOSE i \in mine : TRUE]]
  /\ tailBlock' = IF chain = <<>> THEN tailBlock ELSE chain[Len(chain)]
  /\ ppc' = "commit"
  /\ UNCHANGED <<counters, index, completed, free, goal, bulk, idxEntry,
                 newBlock, chain, undone, consumer>>

Commit ==
  /\ ppc = "commit"
  /\ tailIndex' = goal
  /\ chain' = <<>>
  /\ EndCall
  /\ UNCHANGED <<headIndex, dequeueOptimisticCount, dequeueOvercommit, index,
                 memory, tailBlock, idxEntry, newBlock, undone, consumer>>
-----------------------------------------------------------------------------
(* The consumers.  dequeue is dequeue_bulk of one element. *)

Goto(c, from, to) == cpc[c] = from /\ cpc' = [cpc EXCEPT ![c] = to]

Return(c) == cpc' = [cpc EXCEPT ![c] = "idle"] /\ loc' = [loc EXCEPT ![c] = NoLocals]

MayCall(c) ==
  \/ dequeueOvercommit < MaxOvercommit
  \/ \A d \in Consumers \ {c} : cpc[d] = "idle"

Dequeue(c) ==
  /\ MayCall(c)
  /\ Goto(c, "idle", "check")
  /\ loc' = [loc EXCEPT ![c].tail = tailIndex,
                       ![c].overcommit = dequeueOvercommit, ![c].want = 1]
  /\ UNCHANGED <<counters, index, memory, producer, out>>

DequeueBulk(c) ==
  /\ MayCall(c)
  /\ Goto(c, "idle", "check")
  /\ \E max \in BulkOut :
       loc' = [loc EXCEPT ![c].tail = tailIndex,
                          ![c].overcommit = dequeueOvercommit, ![c].want = max]
  /\ UNCHANGED <<counters, index, memory, producer, out>>

\* Elements that seem to be left for a claim that starts at count `taken'.
Left(tail, taken, overcommit) == tail - (taken - overcommit)

Check(c) ==
  LET left == Left(loc[c].tail, dequeueOptimisticCount, loc[c].overcommit)
  IN  /\ cpc[c] = "check"
      /\ IF left > 0
         THEN /\ cpc' = [cpc EXCEPT ![c] = "claim"]
              /\ loc' = [loc EXCEPT ![c].tail = 0,
                                  ![c].want = Min({left, loc[c].want})]
         ELSE Return(c)
      /\ UNCHANGED <<counters, index, memory, producer, out>>

Claim(c) ==
  /\ Goto(c, "claim", "reload")
  /\ loc' = [loc EXCEPT ![c].my = dequeueOptimisticCount]
  /\ dequeueOptimisticCount' = dequeueOptimisticCount + loc[c].want
  /\ UNCHANGED <<tailIndex, headIndex, dequeueOvercommit, index, memory,
                 producer, out>>

ReloadNothing(c) == \* slip: trusts that what it claimed is there
  /\ Goto(c, "reload", "take")
  /\ loc' = [loc EXCEPT ![c].owe = 0, ![c].my = 0, ![c].overcommit = 0]
  /\ UNCHANGED <<counters, index, memory, producer, out>>

\* With tailIndex loaded again: how many of the wanted elements are there.
Reload(c) ==
  LET left == Left(tailIndex, loc[c].my, loc[c].overcommit)
      actual == Max({0, Min({left, loc[c].want})})
  IN  /\ Goto(c, "reload", IF actual < loc[c].want THEN "giveBack" ELSE "take")
      /\ loc' = [loc EXCEPT ![c].want = actual, ![c].owe = loc[c].want - actual,
                             ![c].my = 0, ![c].overcommit = 0]
      /\ UNCHANGED <<counters, index, memory, producer, out>>

GiveBackNothing(c) == \* slip: a claim for more than there is is not taken back
  /\ cpc[c] = "giveBack"
  /\ IF loc[c].want = 0
     THEN Return(c)
     ELSE cpc' = [cpc EXCEPT ![c] = "take"] /\ loc' = [loc EXCEPT ![c].owe = 0]
  /\ UNCHANGED <<counters, index, memory, producer, out>>

GiveBackClaim(c) ==
  /\ cpc[c] = "giveBack"
  /\ dequeueOvercommit' = dequeueOvercommit + loc[c].owe
  /\ IF loc[c].want = 0
     THEN Return(c)
     ELSE cpc' = [cpc EXCEPT ![c] = "take"] /\ loc' = [loc EXCEPT ![c].owe = 0]
  /\ UNCHANGED <<tailIndex, headIndex, dequeueOptimisticCount, index, memory,
                 producer, out>>

Take(c) ==
  /\ Goto(c, "take", "index")
  /\ headIndex' = headIndex + loc[c].want
  /\ loc' = [loc EXCEPT ![c].at = headIndex, ![c].want = 0,
                         ![c].stop = headIndex + loc[c].want]
  /\ UNCHANGED <<tailIndex, dequeueOptimisticCount, dequeueOvercommit, index,
                 memory, producer, out>>

\* blockIndex and its tail: the tail of an index that has a successor is final,
\* so one step for both loads shows every pair they can see.
LoadIndex(c) ==
  /\ Goto(c, "index", "key")
  /\ loc' = [loc EXCEPT ![c].header = Len(headers), ![c].pos = blockIndex.tail]
  /\ UNCHANGED <<counters, index, memory, producer, out>>

LoadKey(c) ==
  LET l == loc[c]
      tailKey == key[headers[l.header].index[l.pos]]
  IN  /\ Goto(c, "key", "move")
      /\ loc' = [loc EXCEPT ![c].pos =
                              PositionOf(Base(l.at), l.header, l.pos, tailKey)]
      /\ UNCHANGED <<counters, index, memory, producer, out>>

EntryOf(c) == headers[loc[c].header].index[loc[c].pos]

\* The elements of the call in the current block, moved out and destroyed (that
\* there is a block is LookupRight).
Move(c) ==
  LET l == loc[c]
      b == value[EntryOf(c)]
      end == Min({l.stop, Base(l.at) + BlockSize})
      slots == {i % BlockSize : i \in l.at..(end - 1)}
  IN  /\ Goto(c, "move", "empty")
      /\ b \in Blocks
      /\ out' = out \cup {elements[b][s] : s \in slots}
      /\ elements' = [elements EXCEPT ![b] =
                        [s \in Slots |-> IF s \in slots THEN Gone ELSE @[s]]]
      /\ loc' = [loc EXCEPT ![c].block = b, ![c].at = end, ![c].want = end - l.at]
      /\ UNCHANGED <<counters, index, completed, free, producer>>

\* On to the next block of a bulk call, or done.
NextBlock(c) ==
  LET l == loc[c]
  IN  IF l.at = l.stop
      THEN Return(c)
      ELSE /\ cpc' = [cpc EXCEPT ![c] = "move"]
           /\ loc' = [loc EXCEPT ![c].block = None, ![c].want = 0,
                ![c].pos = (l.pos + 1) % headers[l.header].capacity]

\* Whether this call's elements are the last of their block.
Emptied(c) == completed[loc[c].block] + loc[c].want = BlockSize

SetManyEmpty(c) ==
  /\ cpc[c] = "empty"
  /\ completed' = [completed EXCEPT ![loc[c].block] = @ + loc[c].want]
  /\ IF Emptied(c)
     THEN cpc' = [cpc EXCEPT ![c] = "unlink"] /\ UNCHANGED loc
     ELSE NextBlock(c)
  /\ UNCHANGED <<counters, index, elements, free, producer, out>>

UnlinkNot(c) == \* slip: the entry keeps its block
  /\ Goto(c, "unlink", "free")
  /\ UNCHANGED <<counters, index, memory, producer, loc, out>>

Unlink(c) ==
  /\ Goto(c, "unlink", "free")
  /\ value' = [value EXCEPT ![EntryOf(c)] = None]
  /\ UNCHANGED <<counters, headers, key, memory, producer, loc, out>>

Free(c) ==
  /\ cpc[c] = "free"
  /\ free' = free \cup {loc[c].block}
  /\ NextBlock(c)
  /\ UNCHANGED <<counters, index, elements, completed, producer, out>>
-----------------------------------------------------------------------------
ProducerStep ==
  \/ InsertEntry \/ AdvanceTail \/ NewBlockIndex \/ NoIndex
  \/ Requisition \/ NoBlock \/ Publish \/ Undo \/ GiveBack
  \/ Construct \/ Commit

ConsumerStep(c) ==
  \/ Check(c) \/ Claim(c) \/ Reload(c) \/ GiveBackClaim(c) \/ Take(c)
  \/ LoadIndex(c) \/ LoadKey(c) \/ Move(c)
  \/ SetManyEmpty(c) \/ Unlink(c) \/ Free(c)

Next == \/ Enqueue \/ EnqueueBulk \/ ProducerStep
        \/ \E c \in Consumers : Dequeue(c) \/ DequeueBulk(c) \/ ConsumerStep(c)

Spec == Init /\ [][Next]_vars
-----------------------------------------------------------------------------
(* Properties *)

Headers ==
  UNION {[capacity : {n}, tail : 0..(n - 1), index : [0..(n - 1) -> 1..n]]
           : n \in IndexSize..MaxEntries}

Locals == [tail : 0..MaxTail, overcommit : Nat, my : Nat, want : Nat, owe : Nat,
           at : 0..MaxTail, stop : 0..MaxTail, header : Nat, pos : Nat,
           block : Blocks \cup {None}]

\* Shape of every variable.
TypeOK ==
  /\ tailIndex \in 0..MaxTail /\ headIndex \in 0..tailIndex
  /\ dequeueOptimisticCount \in Nat /\ dequeueOvercommit \in Nat
  /\ headers \in Seq(Headers) /\ headers # <<>>
  /\ key \in [Entries -> Nat] /\ value \in [Entries -> Blocks \cup {None, Junk}]
  /\ elements \in [Blocks -> [Slots -> 0..MaxTail \cup {Gone}]]
  /\ completed \in [Blocks -> Nat]
  /\ free \subseteq Blocks /\ tailBlock \in Blocks \cup {None}
  /\ ppc \in {"idle", "insert", "advance", "block", "publish", "undo",
              "construct", "commit"}
  /\ goal \in 0..MaxTail /\ bulk \in BOOLEAN
  /\ idxEntry \in Entries \cup {0} /\ newBlock \in Blocks \cup {None}
  /\ chain \in Seq(Blocks) /\ undone \in 0..Len(chain)
  /\ cpc \in [Consumers -> {"idle", "check", "claim", "reload", "giveBack", "take",
                            "index", "key", "move", "empty", "unlink", "free"}]
  /\ loc \in [Consumers -> Locals]
  /\ out \subseteq 0..MaxTail

\* The consumer that is about to hand block b back.
Emptying(b) == {c \in Consumers : cpc[c] = "free" /\ loc[c].block = b}

One(condition) == IF condition THEN 1 ELSE 0

\* A block is in one place: in the pool, under one entry of the index, with
\* the producer on its way in or (a failed bulk call) out, or with the one
\* consumer that emptied it.
BlockPlaced ==
  \A b \in Blocks :
    1 = One(b \in free) + Cardinality({e \in Entries : value[e] = b})
          + One(newBlock = b) + Cardinality(Emptying(b))
          + One(\E i \in 1..undone : chain[i] = b)

\* Blocks and variables are what they should be, and no element of a block is
\* counted twice as dequeued.
BlocksSound == /\ TypeOK /\ BlockPlaced
               /\ \A b \in Blocks : completed[b] <= BlockSize

\* The assertion of the index lookup (concurrentqueue.h:2945), for every block
\* of a call: however the index grew or was rewound meanwhile, the consumer
\* arrives at the entry of its block, and the block is still there.
LookupRight ==
  \A c \in Consumers : cpc[c] = "move" =>
    key[EntryOf(c)] = Base(loc[c].at) /\ value[EntryOf(c)] \in Blocks

\* The assertion of new_block_index's caller (concurrentqueue.h:2912) and what
\* it is there for: an entry taken for a new block is used by nobody.
EntryFree ==
  ppc \in {"advance", "block", "publish"} =>
    /\ value[idxEntry] \in {None, Junk}
    /\ \A c \in Consumers :
         cpc[c] \in {"move", "empty", "unlink"} => EntryOf(c) # idxEntry

\* An element is constructed only in a slot without one.
NoOverwrite ==
  ppc = "construct" =>
    \A i \in tailIndex..(goal - 1) : elements[Target(i)][i % BlockSize] = Gone

\* Neither an entry of the index nor a slot is used again while it is in use.
ReuseSafe == EntryFree /\ NoOverwrite

\* Claims the consumers have not yet turned into elements or taken back, and
\* those of them known to be covered by elements.
Pending(c) ==
  IF cpc[c] \in {"reload", "giveBack", "take"} THEN loc[c].want + loc[c].owe ELSE 0
Granted(c) == IF cpc[c] \in {"giveBack", "take"} THEN loc[c].want ELSE 0

\* Sum of n over the consumers, each of them at most MaxTail.
Sum(n) == Cardinality({u \in Consumers \X (1..MaxTail) : u[2] <= n[u[1]]})

\* The optimistic count and the overcommit differ by what was really taken:
\* once no call is under way, a dequeue finds an element if there is one.
\* However many claims overlap, no more than the elements there are is granted.
Accounting ==
  /\ dequeueOptimisticCount - dequeueOvercommit =
       headIndex + Sum([c \in Consumers |-> Pending(c)])
  /\ headIndex + Sum([c \in Consumers |-> Granted(c)]) <= tailIndex

\* To its users the queue is first in, first out, each element delivered once.
Queue == INSTANCE ElementQueue WITH
  enqueued <- tailIndex, claimed <- headIndex,
  hand <- [c \in Consumers |-> loc[c].at..(loc[c].stop - 1)], delivered <- out
QueueSpec == Queue!Spec

\* At rest and empty, all blocks are back in the pool, but a tail block that
\* still has free slots.
AtRest ==
  /\ ppc = "idle" /\ \A c \in Consumers : cpc[c] = "idle"
  /\ headIndex = tailIndex
BlocksReturn ==
  AtRest =>
    free = Blocks \ (IF tailIndex % BlockSize = 0 THEN {} ELSE {tailBlock})
=============================================================================
