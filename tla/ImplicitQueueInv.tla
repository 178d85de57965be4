-------------------------- MODULE ImplicitQueueInv --------------------------
(***************************************************************************)
(* The inductive invariant of ImplicitQueue.                               *)
(*                                                                         *)
(* Elements are numbered as they are enqueued, and block n holds those     *)
(* from n * BlockSize on.  Frame is what counters and locals say by        *)
(* themselves: what consumers have claimed, and what they hold.  Deep is   *)
(* what makes the lookup right, and needs two witnesses the code keeps     *)
(* nowhere: off, by which the numbers of blocks are shifted in each index  *)
(* (block n is at position n + off[h], modulo the size of index h), and r, *)
(* so that all blocks ever entered have numbers below r.                   *)
(***************************************************************************)
EXTENDS ImplicitQueue

\* The block of element i.
Num(i) == i \div BlockSize
Cap(h) == headers[h].capacity
-----------------------------------------------------------------------------
(* TypeOK by the groups of variables that change together. *)

CountersType == /\ tailIndex \in 0..MaxTail /\ headIndex \in 0..tailIndex
                /\ dequeueOptimisticCount \in Nat /\ dequeueOvercommit \in Nat
IndexType == /\ headers \in Seq(Headers) /\ headers # <<>>
             /\ key \in [Entries -> Nat] /\ value \in [Entries -> Blocks \cup {None, Junk}]
MemoryType == /\ elements \in [Blocks -> [Slots -> 0..MaxTail \cup {Gone}]]
              /\ completed \in [Blocks -> Nat] /\ free \subseteq Blocks
ProducerPlaces == {"idle", "insert", "advance", "block", "publish", "undo",
                   "construct", "commit"}
ProducerType == /\ tailBlock \in Blocks \cup {None} /\ ppc \in ProducerPlaces
                /\ goal \in 0..MaxTail /\ bulk \in BOOLEAN
                /\ idxEntry \in Entries \cup {0} /\ newBlock \in Blocks \cup {None}
                /\ chain \in Seq(Blocks) /\ undone \in 0..Len(chain)
ConsumerPlaces == {"idle", "check", "claim", "reload", "giveBack", "take",
                   "index", "key", "move", "empty", "unlink", "free"}
ConsumerType == cpc \in [Consumers -> ConsumerPlaces] /\ loc \in [Consumers -> Locals]
OutType == out \subseteq 0..MaxTail

Inserting == {"insert", "advance", "block", "publish"}

\* Where the producer is in its call.
ProducerInv ==
  /\ ppc = "idle" => chain = <<>>
  /\ ppc # "idle" => tailIndex < goal /\ (bulk \/ goal = tailIndex + 1)
  /\ ppc # "undo" => undone = 0
  /\ newBlock # None <=> ppc = "publish"
  /\ ppc \in Inserting => CurrentBase < goal
  /\ ppc \in {"construct", "commit"} =>
       CurrentBase >= goal /\ (chain = <<>> \/ CurrentBase - BlockSize < goal)

Shape == /\ CountersType /\ IndexType /\ MemoryType /\ ProducerType /\ ConsumerType
         /\ ProducerInv
-----------------------------------------------------------------------------
(* What consumers have claimed. *)

\* A consumer at p with locals l, when count and over are the two counters.
ClaimOk(p, l, count, over) ==
  /\ p \in {"check", "claim"} => l.overcommit <= over
  /\ p \in {"check", "claim", "reload", "take"} => l.want > 0
  /\ p \in {"claim", "reload", "take"} => l.want <= MaxTail
  /\ p = "giveBack" => l.want + l.owe <= MaxTail
  /\ p \in {"idle", "check", "claim", "reload", "take"} => l.owe = 0
  /\ p = "reload" => l.my < count
ClaimInv == \A c \in Consumers :
  ClaimOk(cpc[c], loc[c], dequeueOptimisticCount, dequeueOvercommit)

\* The optimistic count a claim found is its ticket.
Tickets == \A c, d \in Consumers :
  c # d /\ cpc[c] = "reload" /\ cpc[d] = "reload" => loc[c].my # loc[d].my

\* What the claims below ticket x and those granted may still take.
Due(place, local, x) == [c \in Consumers |->
  IF \/ place[c] = "reload" /\ local[c].my < x
     \/ place[c] \in {"giveBack", "take"}
  THEN local[c].want ELSE 0]

\* Nothing is granted twice: what a claim will find granted to it is there
\* after all the claims before it, or it will find too little and give back.
Covered ==
  \A c \in Consumers : cpc[c] = "reload" =>
    LET taken == headIndex + Sum(Due(cpc, loc, loc[c].my))
    IN  \/ taken <= loc[c].my - loc[c].overcommit
        \/ taken + loc[c].want <= tailIndex

Claims == ClaimInv /\ Tickets /\ Covered /\ Accounting
-----------------------------------------------------------------------------
(* What consumers hold. *)

Before == {"index", "key", "move"}
After == {"empty", "unlink", "free"}

\* Elements a consumer has not yet moved out, and those it has not yet counted
\* as dequeued.
Span(p, l) == (IF p = "empty" THEN l.at - l.want ELSE l.at)..(l.stop - 1)
Unmoved(c) == loc[c].at..(loc[c].stop - 1)
Uncounted(c) == Span(cpc[c], loc[c])

HandOk(p, l, head) ==
  /\ l.stop <= head
  /\ p \in Before => l.at < l.stop
  /\ p \in After => /\ 0 < l.at /\ l.at <= l.stop
                    /\ l.at = l.stop \/ l.at % BlockSize = 0
  /\ p = "empty" => /\ 0 < l.want /\ l.want <= l.at
                    /\ Num(l.at - l.want) = Num(l.at - 1)
  /\ p \notin Before \cup After => l.at = 0 /\ l.stop = 0
HandInv == \A c \in Consumers : HandOk(cpc[c], loc[c], headIndex)

\* No two consumers hold the same element.
HandsApart == \A c, d \in Consumers : c # d => Uncounted(c) \cap Uncounted(d) = {}

\* A consumer's place in an index is one.
PlaceOk(p, l, hs) ==
  /\ p \in {"key", "move"} \cup After =>
       l.header \in DOMAIN hs /\ l.pos \in 0..(hs[l.header].capacity - 1)
  /\ p \in After => l.block \in Blocks
PlaceInv == \A c \in Consumers : PlaceOk(cpc[c], loc[c], headers)

Hands == HandInv /\ HandsApart /\ PlaceInv

Frame == Shape /\ Claims /\ Hands
-----------------------------------------------------------------------------
(* Blocks by their numbers. *)

\* The entry for block n in index h, and in the index in use.
E(off, h, n) == headers[h].index[(n + off[h]) % Cap(h)]
At(off, n) == E(off, Len(headers), n)

Fill == Num(tailIndex + BlockSize - 1)     \* the first block without an element
NextNumber == Fill + Len(chain)            \* the block that is inserted next
\* One more than the block at the tail of the index.
Placed == NextNumber - undone + (IF ppc \in {"block", "publish"} THEN 1 ELSE 0)

\* The block a consumer at p with locals l is at, and the last one of its call.
HereOf(p, l) == IF p \in After THEN Num(l.at - 1) ELSE Num(l.at)
Here(c) == HereOf(cpc[c], loc[c])
LastOf(l) == Num(l.stop - 1)

\* Elements of block n that nobody has counted as dequeued.
Outstanding(n) == {i \in (n * BlockSize)..(n * BlockSize + BlockSize - 1) :
                     i >= headIndex \/ \E c \in Consumers : i \in Uncounted(c)}
Unlinking(n) == \E c \in Consumers : cpc[c] = "unlink" /\ Here(c) = n

\* Blocks that are in the index: published and not yet unlinked.
Published == 0..(Fill - 1) \cup (Fill + undone)..(NextNumber - 1)
Alive == {n \in Published : Outstanding(n) # {} \/ Unlinking(n)}
\* A failed bulk call still looks for the blocks it has taken out.
Kept == Alive \cup (IF chain = <<>> THEN {} ELSE {Fill})
-----------------------------------------------------------------------------
(* The index. *)

TailRight(off) == blockIndex.tail = (Placed - 1 + off[Len(headers)]) % Cap(Len(headers))
\* No entry is in an index twice.
Distinct == \A h \in DOMAIN headers : \A p, q \in 0..(Cap(h) - 1) :
              headers[h].index[p] = headers[h].index[q] => p = q
\* All blocks up to the highest one fit in the index with the oldest one.
Window(r) == Placed <= r /\ \A m \in Kept : m < r /\ r <= m + Cap(Len(headers))
\* The blocks that are alive are in the index, each at its entry, and no others.
Linked(off) == /\ \A n \in Alive : value[At(off, n)] \in Blocks
               /\ \A e \in Entries : value[e] \in Blocks => \E n \in Alive : e = At(off, n)
\* Each entry has the key of its block, that of the tail included, from which
\* consumers count.
Keyed(off, r) == \A m \in Kept : \A n \in m..(r - 1) : key[At(off, n)] = n * BlockSize
Layout(off, r) == TailRight(off) /\ Distinct /\ Window(r) /\ Linked(off) /\ Keyed(off, r)

\* The entry that is being inserted.
Entering(off, r) ==
  ppc \in {"advance", "block", "publish"} =>
    /\ idxEntry = At(off, NextNumber) /\ key[idxEntry] = NextNumber * BlockSize
    /\ value[idxEntry] \in {None, Junk} /\ NextNumber < r
\* An entry nobody has written a value to has its first key.
Fresh == \A e \in Entries : value[e] = Junk =>
           \/ key[e] = INVALID_BLOCK_BASE
           \/ ppc \in {"advance", "block", "publish"} /\ e = idxEntry

\* The producer's own pointers agree with the index.
Chained(off) == \A i \in (undone + 1)..Len(chain) : chain[i] = value[At(off, Fill + i - 1)]
Tailed(off) ==
  IF ppc = "commit" /\ chain # <<>>
  THEN tailBlock = chain[Len(chain)]
  ELSE tailIndex % BlockSize # 0 => tailBlock = value[At(off, Fill - 1)]

\* A consumer at p with locals l finds the entries of its blocks, even in an
\* index that has been replaced.
FoundOk(off, r, p, l) ==
  /\ p = "key" =>
       \E k \in LastOf(l)..(r - 1) :
         /\ l.pos = (k + off[l.header]) % Cap(l.header)
         /\ \A n \in HereOf(p, l)..k : E(off, l.header, n) = At(off, n)
  /\ p \in {"move"} \cup After =>
       /\ l.pos = (HereOf(p, l) + off[l.header]) % Cap(l.header)
       /\ \A n \in HereOf(p, l)..LastOf(l) :
            \/ E(off, l.header, n) = At(off, n)
            \/ p = "free" /\ n = HereOf(p, l)
  /\ p \in {"empty", "unlink"} => l.block = value[At(off, HereOf(p, l))]
Found(off, r) == \A c \in Consumers : FoundOk(off, r, cpc[c], loc[c])
-----------------------------------------------------------------------------
(* The blocks. *)

\* A block is unlinked by one consumer, when all of its elements are counted.
Settled == \A c, d \in Consumers :
  cpc[c] = "unlink" =>
    /\ Outstanding(Here(c)) = {}
    /\ cpc[d] = "unlink" /\ Here(c) = Here(d) => c = d

\* Elements that are there: constructed and not yet moved out.
Present(i) == /\ i < tailIndex \/ (ppc = "commit" /\ i < goal)
              /\ i >= headIndex \/ \E c \in Consumers : i \in Unmoved(c)
\* They are in their slots, and nothing else is in any slot.
Filled(off) ==
  /\ \A n \in Alive : \A s \in Slots :
       elements[value[At(off, n)]][s] =
         IF Present(n * BlockSize + s) THEN n * BlockSize + s ELSE Gone
  /\ \A b \in Blocks : (\A e \in Entries : value[e] # b) =>
       \A s \in Slots : elements[b][s] = Gone
Counted(off) ==
  /\ \A n \in Alive :
       completed[value[At(off, n)]] = BlockSize - Cardinality(Outstanding(n))
  /\ newBlock # None => completed[newBlock] = 0
Bounded == \A b \in Blocks : completed[b] <= BlockSize

\* Every block is in one place.
Indexed == {b \in Blocks : \E e \in Entries : value[e] = b}
Leaving == {b \in Blocks : \E c \in Consumers : cpc[c] = "free" /\ loc[c].block = b}
Withdrawn == {chain[i] : i \in 1..undone}
PlacedOnce ==
  /\ Blocks = free \cup Indexed \cup Leaving \cup Withdrawn \cup ({newBlock} \ {None})
  /\ free \cap (Indexed \cup Leaving \cup Withdrawn \cup {newBlock}) = {}
  /\ Indexed \cap (Leaving \cup Withdrawn \cup {newBlock}) = {}
  /\ Leaving \cap (Withdrawn \cup {newBlock}) = {}
  /\ newBlock \notin Withdrawn
  /\ \A e, f \in Entries : value[e] = value[f] /\ value[e] \in Blocks => e = f
  /\ \A c, d \in Consumers :
       cpc[c] = "free" /\ cpc[d] = "free" /\ loc[c].block = loc[d].block => c = d
  /\ \A i, j \in DOMAIN chain : chain[i] = chain[j] => i = j

\* Only what was claimed is out, and nothing that is still in somebody's hands.
Delivered == \A i \in out : i \in 0..(headIndex - 1) /\ \A c \in Consumers : i \notin Unmoved(c)

Offsets == [Nat -> Int]
Deep(off, r) == /\ Layout(off, r) /\ Entering(off, r) /\ Fresh /\ Chained(off) /\ Tailed(off)
                /\ Found(off, r) /\ Settled /\ Filled(off) /\ Counted(off)
                /\ PlacedOnce /\ Delivered
Inv == Frame /\ \E off \in Offsets, r \in Nat : Deep(off, r)
=============================================================================
