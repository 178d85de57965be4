------------------------ MODULE ImplicitQueueProofs ------------------------
(***************************************************************************)
(* Proofs about ImplicitQueue, for any number of consumers, any sizes of   *)
(* blocks, index and bulk calls, and any bounds.                           *)
(*                                                                         *)
(* Frame, the part of the invariant about counters and hands, is inductive *)
(* by itself: ClaimsAccounted.  Deep, the part about the index, has one    *)
(* lemma per action (<action>Deep), which states the witnesses of the next *)
(* state: they change only when a block enters (r) or the index grows      *)
(* (off).  The other theorems are at the end.                              *)
(***************************************************************************)
EXTENDS ImplicitQueueInv, DataFacts
-----------------------------------------------------------------------------
(* Sums over the consumers. *)

Numbers == [Consumers -> 0..MaxTail]

Units(n) == {u \in Consumers \X (1..MaxTail) : u[2] <= n[u[1]]}

\* Sums over the consumers are numbers, zero if all summands are, and monotonic.
LEMMA SumLaws ==
  /\ \A n : IsFiniteSet(Units(n)) /\ Sum(n) = Cardinality(Units(n)) /\ Sum(n) \in Nat
  /\ \A n : (\A c \in Consumers : n[c] = 0) => Sum(n) = 0
  /\ \A n, m \in Numbers : (\A c \in Consumers : n[c] <= m[c]) => Sum(n) <= Sum(m)
<1>1. IsFiniteSet(Consumers \X (1..MaxTail))
  <2>1. IsFiniteSet(1..MaxTail)
    BY BoundsAssumption, FS_Interval
  <2>2. QED
    BY <2>1, PeopleAssumption, FS_Product
<1>2. \A n : IsFiniteSet(Units(n)) /\ Sum(n) = Cardinality(Units(n)) /\ Sum(n) \in Nat
  <2>1. TAKE n
  <2>2. IsFiniteSet(Units(n))
    BY <1>1, FS_Subset DEF Units
  <2>3. QED
    BY <2>2, FS_CardinalityType DEF Units, Sum
<1>3. ASSUME NEW n, \A c \in Consumers : n[c] = 0 PROVE Sum(n) = 0
  <2>1. Units(n) = {}
    BY <1>3 DEF Units
  <2>2. QED
    BY <1>2, <2>1, FS_EmptySet
<1>4. ASSUME NEW n \in Numbers, NEW m \in Numbers, \A c \in Consumers : n[c] <= m[c]
      PROVE  Sum(n) <= Sum(m)
  <2>1. Units(n) \in SUBSET Units(m)
    BY <1>4, BoundsAssumption DEF Units, Numbers
  <2>2. QED
    BY <1>2, <2>1, FS_Subset
<1>5. QED
  BY <1>2, <1>3, <1>4

\* A sum changes by what one summand changes.
LEMMA SumChange ==
  ASSUME NEW n \in Numbers, NEW m \in Numbers, NEW c \in Consumers,
         \A d \in Consumers \ {c} : m[d] = n[d]
  PROVE  Sum(m) = Sum(n) - n[c] + m[c]
<1> DEFINE Rest == {u \in Units(n) : u[1] # c}
           Own(k) == {c} \X (1..k)
<1>1. \A k \in 0..MaxTail : IsFiniteSet(Own(k)) /\ Cardinality(Own(k)) = k
  <2>1. TAKE k \in 0..MaxTail
  <2>2. IsFiniteSet({c}) /\ Cardinality({c}) = 1
    BY FS_Singleton
  <2>3. IsFiniteSet(1..k) /\ Cardinality(1..k) = k
    BY FS_Interval, BoundsAssumption
  <2>4. IsFiniteSet(Own(k)) /\ Cardinality(Own(k)) = Cardinality({c}) * Cardinality(1..k)
    BY <2>2, <2>3, FS_Product, Zenon
  <2>5. QED
    BY <2>2, <2>3, <2>4, BoundsAssumption
<1>2. IsFiniteSet(Rest)
  BY SumLaws, FS_Subset
<1>3. \A k \in 0..MaxTail :
        Cardinality(Rest \cup Own(k)) = Cardinality(Rest) + k
  <2>1. TAKE k \in 0..MaxTail
  <2>2. Rest \cap Own(k) = {}
    OBVIOUS
  <2>3. Cardinality({}) = 0
    BY FS_EmptySet
  <2>4. Cardinality(Rest) \in Nat
    BY <1>2, FS_CardinalityType
  <2>5. Cardinality(Rest \cup Own(k)) = Cardinality(Rest) + Cardinality(Own(k)) - Cardinality(Rest \cap Own(k))
    BY <1>1, <1>2, FS_Union
  <2>6. Cardinality(Own(k)) = k /\ Cardinality(Rest \cap Own(k)) = 0
    BY <1>1, <2>2, <2>3, Zenon
  <2>7. QED
    BY <2>4, <2>5, <2>6, BoundsAssumption
<1>4. Units(n) = Rest \cup Own(n[c])
  <2>1. ASSUME NEW u \in Units(n), u \notin Rest PROVE u \in Own(n[c])
    BY <2>1, BoundsAssumption DEF Units, Numbers
  <2>2. ASSUME NEW u \in Own(n[c]) PROVE u \in Units(n)
    BY <2>2, BoundsAssumption DEF Units, Numbers
  <2>3. QED
    BY <2>1, <2>2
<1>5. Units(m) = Rest \cup Own(m[c])
  <2>1. ASSUME NEW u \in Units(m), u \notin Rest PROVE u \in Own(m[c])
    BY <2>1, BoundsAssumption DEF Units, Numbers
  <2>2. ASSUME NEW u \in Own(m[c]) PROVE u \in Units(m)
    BY <2>2, BoundsAssumption DEF Units, Numbers
  <2>3. ASSUME NEW u \in Rest PROVE u \in Units(m)
    BY BoundsAssumption DEF Units, Numbers
  <2>4. QED
    BY <2>1, <2>2, <2>3
<1>6. n[c] \in 0..MaxTail /\ m[c] \in 0..MaxTail
  BY DEF Numbers
<1>7. Cardinality(Rest) \in Nat
  BY <1>2, FS_CardinalityType
<1> HIDE DEF Rest, Own
<1>8. Sum(n) = Cardinality(Rest) + n[c] /\ Sum(m) = Cardinality(Rest) + m[c]
  BY <1>3, <1>4, <1>5, <1>6, SumLaws
<1>9. QED
  BY <1>6, <1>7, <1>8, BoundsAssumption

-----------------------------------------------------------------------------
(* Records and types. *)

\* The smaller of two numbers.
LEMMA MinPair == \A a, b \in Int : Min({a, b}) = IF a <= b THEN a ELSE b
<1> TAKE a, b \in Int
<1> DEFINE m == IF a <= b THEN a ELSE b
<1>1. m \in {a, b} /\ \A y \in {a, b} : m <= y
  OBVIOUS
<1>2. \A x : x \in {a, b} /\ (\A y \in {a, b} : x <= y) => x = m
  OBVIOUS
<1>3. QED
  BY <1>1, <1>2, Zenon DEF Min

\* The larger of two numbers.
LEMMA MaxPair == \A a, b \in Int : Max({a, b}) = IF a <= b THEN b ELSE a
<1> TAKE a, b \in Int
<1> DEFINE m == IF a <= b THEN b ELSE a
<1>1. m \in {a, b} /\ \A y \in {a, b} : m >= y
  OBVIOUS
<1>2. \A x : x \in {a, b} /\ (\A y \in {a, b} : x >= y) => x = m
  OBVIOUS
<1>3. QED
  BY <1>1, <1>2, Zenon DEF Max

\* What a BlockIndexHeader is put together from ...
LEMMA HeaderType ==
  ASSUME NEW n \in IndexSize..MaxEntries, NEW t \in 0..(n - 1), NEW f \in [0..(n - 1) -> 1..n]
  PROVE  [capacity |-> n, tail |-> t, index |-> f] \in Headers
BY DEF Headers

\* ... and what it consists of.
LEMMA HeaderParts ==
  ASSUME NEW h \in Headers
  PROVE  /\ h.capacity \in IndexSize..MaxEntries
         /\ h.tail \in 0..(h.capacity - 1)
         /\ h.index \in [0..(h.capacity - 1) -> 1..h.capacity]
         /\ h = [capacity |-> h.capacity, tail |-> h.tail, index |-> h.index]
BY DEF Headers

\* TypeOK is the conjunction of its groups.
LEMMA TypeParts ==
  TypeOK <=> CountersType /\ IndexType /\ MemoryType /\ ProducerType /\ ConsumerType /\ OutType
BY DEF TypeOK, CountersType, IndexType, MemoryType, ProducerType, ProducerPlaces,
       ConsumerType, ConsumerPlaces, OutType

\* The locals of a consumer, field by field.
LEMMA LocalTypes ==
  ASSUME NEW l \in Locals
  PROVE  /\ l = [tail |-> l.tail, overcommit |-> l.overcommit, my |-> l.my,
                 want |-> l.want, owe |-> l.owe, at |-> l.at, stop |-> l.stop,
                 header |-> l.header, pos |-> l.pos, block |-> l.block]
         /\ l.tail \in 0..MaxTail /\ l.overcommit \in Nat /\ l.my \in Nat
         /\ l.want \in Nat /\ l.owe \in Nat
         /\ l.at \in 0..MaxTail /\ l.stop \in 0..MaxTail
         /\ l.header \in Nat /\ l.pos \in Nat /\ l.block \in Blocks \cup {None}
BY DEF Locals

\* A record of locals stays one when a field gets a value of its type.
LEMMA FieldTypes ==
  ASSUME NEW l \in Locals
  PROVE  /\ \A v \in 0..MaxTail : /\ [l EXCEPT !.tail = v] \in Locals
                                  /\ [l EXCEPT !.at = v] \in Locals
                                  /\ [l EXCEPT !.stop = v] \in Locals
         /\ \A v \in Nat : /\ [l EXCEPT !.overcommit = v] \in Locals
                           /\ [l EXCEPT !.my = v] \in Locals
                           /\ [l EXCEPT !.want = v] \in Locals
                           /\ [l EXCEPT !.owe = v] \in Locals
                           /\ [l EXCEPT !.header = v] \in Locals
                           /\ [l EXCEPT !.pos = v] \in Locals
         /\ \A v \in Blocks \cup {None} : [l EXCEPT !.block = v] \in Locals
BY DEF Locals

Others(c) == \A d \in Consumers \ {c} : cpc'[d] = cpc[d] /\ loc'[d] = loc[d]

-----------------------------------------------------------------------------
(* What a step of a consumer does, without EXCEPT and disjunctions. *)

\* A call begins: what it has loaded is in the locals.
LEMMA DequeueMoves ==
  ASSUME CountersType, ConsumerType, NEW c \in Consumers, Dequeue(c) \/ DequeueBulk(c)
  PROVE  /\ Others(c) /\ UNCHANGED <<counters, index, memory, producer, out>>
         /\ cpc[c] = "idle" /\ cpc'[c] = "check"
         /\ \E n \in Nat \ {0} :
              loc'[c] = [loc[c] EXCEPT !.tail = tailIndex,
                                       !.overcommit = dequeueOvercommit, !.want = n]
         /\ ConsumerType'
<1>1. PICK n \in Nat \ {0} :
        loc' = [loc EXCEPT ![c].tail = tailIndex,
                           ![c].overcommit = dequeueOvercommit, ![c].want = n]
  BY BulkAssumption DEF Dequeue, DequeueBulk
<1>2. /\ UNCHANGED <<counters, index, memory, producer, out>>
      /\ cpc[c] = "idle" /\ cpc' = [cpc EXCEPT ![c] = "check"]
  BY DEF Dequeue, DequeueBulk, Goto
<1>3. loc'[c] = [loc[c] EXCEPT !.tail = tailIndex,
                               !.overcommit = dequeueOvercommit, !.want = n]
  BY <1>1 DEF ConsumerType
<1>4. loc'[c] \in Locals
  <2>1. tailIndex \in 0..MaxTail /\ dequeueOvercommit \in Nat /\ loc[c] \in Locals
    BY DEF CountersType, ConsumerType
  <2>2. [loc[c] EXCEPT !.tail = tailIndex] \in Locals
    BY <2>1, FieldTypes
  <2>3. [[loc[c] EXCEPT !.tail = tailIndex] EXCEPT !.overcommit = dequeueOvercommit] \in Locals
    BY <2>1, <2>2, FieldTypes
  <2>4. QED
    BY <1>3, <2>3, FieldTypes
<1>5. QED
  BY <1>1, <1>2, <1>3, <1>4 DEF Others, ConsumerType, ConsumerPlaces

\* It gives up, or will claim as much as there seems to be.
LEMMA CheckMoves ==
  ASSUME CountersType, ConsumerType, ClaimInv, NEW c \in Consumers, Check(c)
  PROVE  LET left == Left(loc[c].tail, dequeueOptimisticCount, loc[c].overcommit)
         IN  /\ Others(c) /\ UNCHANGED <<counters, index, memory, producer, out>>
             /\ cpc[c] = "check"
             /\ \/ cpc'[c] = "idle" /\ loc'[c] = NoLocals
                \/ /\ cpc'[c] = "claim"
                   /\ \E n \in 1..loc[c].want :
                        n <= left /\ loc'[c] = [loc[c] EXCEPT !.tail = 0, !.want = n]
             /\ ConsumerType'
<1> DEFINE left == Left(loc[c].tail, dequeueOptimisticCount, loc[c].overcommit)
           n == Min({left, loc[c].want})
<1>1. loc[c] \in Locals /\ left \in Int /\ cpc[c] = "check" /\ loc[c].want > 0
      /\ loc[c].want \in Nat
  BY LocalTypes DEF ConsumerType, CountersType, ClaimInv, ClaimOk, Check, Left
<1>2. left > 0 => n \in 1..loc[c].want /\ n <= left
  BY <1>1, MinPair
<1>3. CASE left > 0
  <2>1. /\ UNCHANGED <<counters, index, memory, producer, out>>
        /\ cpc' = [cpc EXCEPT ![c] = "claim"]
        /\ loc' = [loc EXCEPT ![c].tail = 0, ![c].want = n]
    BY <1>3 DEF Check
  <2>2. loc'[c] = [loc[c] EXCEPT !.tail = 0, !.want = n]
    BY <2>1 DEF ConsumerType
  <2> HIDE DEF n, left
  <2>3. loc'[c] \in Locals
    <3>1. [loc[c] EXCEPT !.tail = 0] \in Locals
      <4>1. 0 \in 0..MaxTail
        BY BoundsAssumption
      <4>2. QED
        BY <1>1, <4>1, FieldTypes
    <3>2. n \in Nat
      BY <1>1, <1>2, <1>3
    <3>3. QED
      BY <2>2, <3>1, <3>2, FieldTypes
  <2>4. QED
    BY <1>1, <1>2, <1>3, <2>1, <2>2, <2>3 DEF Others, ConsumerType, ConsumerPlaces, left
<1>4. CASE ~(left > 0)
  <2>1. /\ UNCHANGED <<counters, index, memory, producer, out>>
        /\ cpc' = [cpc EXCEPT ![c] = "idle"]
        /\ loc' = [loc EXCEPT ![c] = NoLocals]
    BY <1>4 DEF Check, Return
  <2>2. NoLocals \in Locals
    BY BoundsAssumption DEF NoLocals, Locals
  <2>3. QED
    BY <1>1, <2>1, <2>2 DEF Others, ConsumerType, ConsumerPlaces
<1>5. QED
  BY <1>3, <1>4

\* The claim has its ticket.
LEMMA ClaimMoves ==
  ASSUME CountersType, ConsumerType, NEW c \in Consumers, Claim(c)
  PROVE  /\ Others(c) /\ UNCHANGED <<tailIndex, headIndex, dequeueOvercommit, index,
                                     memory, producer, out>>
         /\ dequeueOptimisticCount' = dequeueOptimisticCount + loc[c].want
         /\ cpc[c] = "claim" /\ cpc'[c] = "reload"
         /\ loc'[c] = [loc[c] EXCEPT !.my = dequeueOptimisticCount]
         /\ ConsumerType'
<1>1. /\ loc' = [loc EXCEPT ![c].my = dequeueOptimisticCount]
      /\ cpc[c] = "claim" /\ cpc' = [cpc EXCEPT ![c] = "reload"]
  BY DEF Claim, Goto
<1>2. loc'[c] = [loc[c] EXCEPT !.my = dequeueOptimisticCount]
  BY <1>1 DEF ConsumerType
<1>3. loc'[c] \in Locals
  BY <1>2, LocalTypes DEF Locals, CountersType, ConsumerType
<1>4. QED
  BY <1>1, <1>2, <1>3 DEF Claim, Others, ConsumerType, ConsumerPlaces

\* So many of the elements it claimed are granted to it.
LEMMA ReloadMoves ==
  ASSUME CountersType, ConsumerType, NEW c \in Consumers, Reload(c)
  PROVE  LET left == Left(tailIndex, loc[c].my, loc[c].overcommit)
         IN  /\ Others(c) /\ UNCHANGED <<counters, index, memory, producer, out>>
             /\ cpc[c] = "reload"
             /\ \E n \in 0..loc[c].want :
                  /\ n = 0 \/ n <= left
                  /\ cpc'[c] = IF n < loc[c].want THEN "giveBack" ELSE "take"
                  /\ loc'[c] = [loc[c] EXCEPT !.want = n, !.owe = loc[c].want - n,
                                              !.my = 0, !.overcommit = 0]
             /\ ConsumerType'
<1> DEFINE left == Left(tailIndex, loc[c].my, loc[c].overcommit)
           n == Max({0, Min({left, loc[c].want})})
<1>1. loc[c] \in Locals /\ left \in Int /\ loc[c].want \in Nat
  BY LocalTypes DEF ConsumerType, CountersType, Left
<1>2. n \in 0..loc[c].want /\ (n = 0 \/ n <= left)
  BY <1>1, MinPair, MaxPair
<1>3. /\ UNCHANGED <<counters, index, memory, producer, out>>
      /\ cpc[c] = "reload"
      /\ cpc' = [cpc EXCEPT ![c] = IF n < loc[c].want THEN "giveBack" ELSE "take"]
      /\ loc' = [loc EXCEPT ![c].want = n, ![c].owe = loc[c].want - n,
                            ![c].my = 0, ![c].overcommit = 0]
  BY DEF Reload, Goto
<1> HIDE DEF n, left
<1>4. loc'[c] = [loc[c] EXCEPT !.want = n, !.owe = loc[c].want - n,
                               !.my = 0, !.overcommit = 0]
  BY <1>3 DEF ConsumerType
<1>5. loc'[c] \in Locals
  <2>1. n \in Nat /\ loc[c].want - n \in Nat
    BY <1>1, <1>2
  <2>2. [[loc[c] EXCEPT !.want = n] EXCEPT !.owe = loc[c].want - n] \in Locals
    BY <1>1, <2>1, FieldTypes
  <2>3. [[[loc[c] EXCEPT !.want = n] EXCEPT !.owe = loc[c].want - n] EXCEPT !.my = 0]
          \in Locals
    BY <2>2, FieldTypes
  <2>4. QED
    BY <1>4, <2>3, FieldTypes
<1>6. QED
  BY <1>2, <1>3, <1>4, <1>5 DEF Others, ConsumerType, ConsumerPlaces, left

\* The rest is given back.
LEMMA GiveBackMoves ==
  ASSUME CountersType, ConsumerType, NEW c \in Consumers, GiveBackClaim(c)
  PROVE  /\ Others(c) /\ UNCHANGED <<tailIndex, headIndex, dequeueOptimisticCount,
                                     index, memory, producer, out>>
         /\ dequeueOvercommit' = dequeueOvercommit + loc[c].owe
         /\ cpc[c] = "giveBack"
         /\ IF loc[c].want = 0
            THEN cpc'[c] = "idle" /\ loc'[c] = NoLocals
            ELSE cpc'[c] = "take" /\ loc'[c] = [loc[c] EXCEPT !.owe = 0]
         /\ ConsumerType'
<1>1. /\ UNCHANGED <<tailIndex, headIndex, dequeueOptimisticCount, index, memory,
                     producer, out>>
      /\ dequeueOvercommit' = dequeueOvercommit + loc[c].owe
      /\ cpc[c] = "giveBack"
  BY DEF GiveBackClaim
<1>2. CASE loc[c].want = 0
  <2>1. cpc' = [cpc EXCEPT ![c] = "idle"] /\ loc' = [loc EXCEPT ![c] = NoLocals]
    BY <1>2 DEF GiveBackClaim, Return
  <2>2. NoLocals \in Locals
    BY BoundsAssumption DEF NoLocals, Locals
  <2>3. QED
    BY <1>1, <1>2, <2>1, <2>2 DEF Others, ConsumerType, ConsumerPlaces
<1>3. CASE loc[c].want # 0
  <2>1. cpc' = [cpc EXCEPT ![c] = "take"] /\ loc' = [loc EXCEPT ![c].owe = 0]
    BY <1>3 DEF GiveBackClaim
  <2>2. [loc[c] EXCEPT !.owe = 0] \in Locals
    BY FieldTypes DEF ConsumerType
  <2>3. QED
    BY <1>1, <1>3, <2>1, <2>2 DEF Others, ConsumerType, ConsumerPlaces
<1>4. QED
  BY <1>2, <1>3

\* It gets the numbers of its elements.
LEMMA TakeMoves ==
  ASSUME CountersType, ConsumerType, NEW c \in Consumers, Take(c),
         headIndex + loc[c].want <= tailIndex
  PROVE  /\ Others(c) /\ UNCHANGED <<tailIndex, dequeueOptimisticCount, dequeueOvercommit,
                                     index, memory, producer, out>>
         /\ headIndex' = headIndex + loc[c].want
         /\ cpc[c] = "take" /\ cpc'[c] = "index"
         /\ loc'[c] = [loc[c] EXCEPT !.at = headIndex, !.want = 0,
                                     !.stop = headIndex + loc[c].want]
         /\ ConsumerType'
<1>1. /\ loc' = [loc EXCEPT ![c].at = headIndex, ![c].want = 0,
                            ![c].stop = headIndex + loc[c].want]
      /\ cpc[c] = "take" /\ cpc' = [cpc EXCEPT ![c] = "index"]
  BY DEF Take, Goto
<1>2. loc'[c] = [loc[c] EXCEPT !.at = headIndex, !.want = 0,
                               !.stop = headIndex + loc[c].want]
  BY <1>1 DEF ConsumerType
<1>3. /\ headIndex \in 0..MaxTail /\ headIndex + loc[c].want \in 0..MaxTail
      /\ loc[c] \in Locals
  BY LocalTypes, BoundsAssumption DEF CountersType, ConsumerType
<1>4. [[loc[c] EXCEPT !.at = headIndex] EXCEPT !.want = 0] \in Locals
  BY <1>3, FieldTypes
<1>5. loc'[c] \in Locals
  BY <1>2, <1>3, <1>4, FieldTypes
<1>6. QED
  BY <1>1, <1>2, <1>5 DEF Take, Others, ConsumerType, ConsumerPlaces

\* The size of an index, and what is in it.
LEMMA CapRange ==
  ASSUME IndexType, NEW h \in DOMAIN headers
  PROVE  /\ Cap(h) \in Nat \ {0} /\ Cap(h) >= IndexSize
         /\ headers[h] \in Headers /\ headers[h].tail \in 0..(Cap(h) - 1)
         /\ headers[h].index \in [0..(Cap(h) - 1) -> 1..Cap(h)]
         /\ 1..Cap(h) \subseteq Entries
<1>1. headers[h] \in Headers
  BY DEF IndexType
<1>2. /\ Cap(h) \in IndexSize..MaxEntries
      /\ headers[h].tail \in 0..(Cap(h) - 1)
      /\ headers[h].index \in [0..(Cap(h) - 1) -> 1..Cap(h)]
  BY <1>1, HeaderParts DEF Cap
<1>3. QED
  BY <1>1, <1>2, SizeAssumption, BoundsAssumption DEF Entries

\* The consumer looks at the index in use and its tail ...
LEMMA LoadIndexMoves ==
  ASSUME IndexType, ConsumerType, NEW c \in Consumers, LoadIndex(c)
  PROVE  /\ Others(c) /\ UNCHANGED <<counters, index, memory, producer, out>>
         /\ cpc[c] = "index" /\ cpc'[c] = "key"
         /\ loc'[c] = [loc[c] EXCEPT !.header = Len(headers), !.pos = blockIndex.tail]
         /\ Len(headers) \in DOMAIN headers
         /\ blockIndex.tail \in 0..(Cap(Len(headers)) - 1)
         /\ ConsumerType'
<1>1. /\ loc' = [loc EXCEPT ![c].header = Len(headers), ![c].pos = blockIndex.tail]
      /\ cpc[c] = "index" /\ cpc' = [cpc EXCEPT ![c] = "key"]
  BY DEF LoadIndex, Goto
<1>2. loc'[c] = [loc[c] EXCEPT !.header = Len(headers), !.pos = blockIndex.tail]
  BY <1>1 DEF ConsumerType
<1>3. /\ Len(headers) \in DOMAIN headers /\ Len(headers) \in Nat
  BY DEF IndexType
<1>4. blockIndex.tail \in 0..(Cap(Len(headers)) - 1) /\ blockIndex.tail \in Nat
  BY <1>3, CapRange DEF blockIndex
<1>5. [loc[c] EXCEPT !.header = Len(headers)] \in Locals
  BY <1>3, FieldTypes DEF ConsumerType
<1>6. loc'[c] \in Locals
  BY <1>2, <1>4, <1>5, FieldTypes
<1>7. QED
  BY <1>1, <1>2, <1>3, <1>4, <1>6 DEF LoadIndex, Others, ConsumerType, ConsumerPlaces

\* ... and counts from the tail's key to its block.
LEMMA LoadKeyMoves ==
  ASSUME IndexType, ConsumerType, PlaceInv, NEW c \in Consumers, LoadKey(c)
  PROVE  LET p == PositionOf(Base(loc[c].at), loc[c].header, loc[c].pos,
                             key[headers[loc[c].header].index[loc[c].pos]])
         IN  /\ Others(c) /\ UNCHANGED <<counters, index, memory, producer, out>>
             /\ cpc[c] = "key" /\ cpc'[c] = "move"
             /\ loc'[c] = [loc[c] EXCEPT !.pos = p]
             /\ p \in 0..(Cap(loc[c].header) - 1)
             /\ ConsumerType'
<1> DEFINE k == key[headers[loc[c].header].index[loc[c].pos]]
           p == PositionOf(Base(loc[c].at), loc[c].header, loc[c].pos, k)
<1>1. /\ loc' = [loc EXCEPT ![c].pos = p]
      /\ cpc[c] = "key" /\ cpc' = [cpc EXCEPT ![c] = "move"]
      /\ UNCHANGED <<counters, index, memory, producer, out>>
  BY DEF LoadKey, Goto
<1>2. /\ loc[c].header \in DOMAIN headers /\ loc[c].pos \in 0..(Cap(loc[c].header) - 1)
  BY <1>1 DEF PlaceInv, PlaceOk, Cap
<1>3. headers[loc[c].header].index[loc[c].pos] \in Entries
  BY <1>2, CapRange
<1>4. k \in Nat
  BY <1>3 DEF IndexType
<1>5. p \in 0..(Cap(loc[c].header) - 1)
  <2>1. loc[c] \in Locals /\ Base(loc[c].at) \in Int
    BY LocalTypes, SizeAssumption, BoundsAssumption DEF ConsumerType, Base
  <2>2. (Base(loc[c].at) - k) \div BlockSize \in Int
    BY <1>4, <2>1, SizeAssumption
  <2>3. loc[c].pos + (Base(loc[c].at) - k) \div BlockSize \in Int
    BY <1>2, <2>2, CapRange
  <2>4. Cap(loc[c].header) \in Nat \ {0}
    BY <1>2, CapRange
  <2>5. QED
    BY <2>3, <2>4, ModRange DEF PositionOf, Cap
<1> HIDE DEF p
<1>6. loc'[c] = [loc[c] EXCEPT !.pos = p]
  BY <1>1 DEF ConsumerType
<1>7. loc'[c] \in Locals
  <2>1. p \in Nat
    BY <1>2, <1>5, CapRange
  <2>2. loc[c] \in Locals
    BY DEF ConsumerType
  <2>3. [loc[c] EXCEPT !.pos = p] \in Locals
    BY <2>1, <2>2, FieldTypes
  <2>4. QED
    BY <1>6, <2>3
<1>8. QED
  BY <1>1, <1>5, <1>6, <1>7 DEF Others, ConsumerType, ConsumerPlaces, p

\* What Move and NextBlock do, by their names.
MoveEnd(c) == Min({loc[c].stop, Base(loc[c].at) + BlockSize})

MoveSlots(c) == {i % BlockSize : i \in loc[c].at..(MoveEnd(c) - 1)}

\* It moves out what it has in the current block.
LEMMA MoveMoves ==
  ASSUME IndexType, ConsumerType, NEW c \in Consumers, Move(c),
         MoveEnd(c) \in 0..MaxTail, MoveEnd(c) - loc[c].at \in Nat
  PROVE  LET b == value[EntryOf(c)]
         IN  /\ Others(c) /\ UNCHANGED <<counters, index, completed, free, producer>>
             /\ cpc[c] = "move" /\ cpc'[c] = "empty"
             /\ b \in Blocks
             /\ loc'[c] = [loc[c] EXCEPT !.block = b, !.at = MoveEnd(c),
                                         !.want = MoveEnd(c) - loc[c].at]
             /\ elements' = [elements EXCEPT ![b] =
                   [s \in Slots |-> IF s \in MoveSlots(c) THEN Gone ELSE @[s]]]
             /\ out' = out \cup {elements[b][s] : s \in MoveSlots(c)}
             /\ ConsumerType'
<1> DEFINE b == value[EntryOf(c)]
<1>1. /\ loc' = [loc EXCEPT ![c].block = b, ![c].at = MoveEnd(c),
                            ![c].want = MoveEnd(c) - loc[c].at]
      /\ cpc[c] = "move" /\ cpc' = [cpc EXCEPT ![c] = "empty"]
      /\ b \in Blocks /\ UNCHANGED <<counters, index, completed, free, producer>>
  BY DEF Move, Goto, MoveEnd
<1>2. loc'[c] = [loc[c] EXCEPT !.block = b, !.at = MoveEnd(c),
                               !.want = MoveEnd(c) - loc[c].at]
  BY <1>1 DEF ConsumerType
<1>3. loc'[c] \in Locals
  <2>1. loc[c] \in Locals /\ b \in Blocks \cup {None}
    BY <1>1 DEF ConsumerType
  <2>2. [loc[c] EXCEPT !.block = b] \in Locals
    BY <2>1, FieldTypes
  <2>3. [[loc[c] EXCEPT !.block = b] EXCEPT !.at = MoveEnd(c)] \in Locals
    BY <2>2, FieldTypes
  <2>4. QED
    BY <1>2, <2>3, FieldTypes
<1>4. /\ elements' = [elements EXCEPT ![b] =
            [s \in Slots |-> IF s \in MoveSlots(c) THEN Gone ELSE @[s]]]
      /\ out' = out \cup {elements[b][s] : s \in MoveSlots(c)}
  BY DEF Move, MoveSlots, MoveEnd
<1>5. QED
  BY <1>1, <1>2, <1>3, <1>4 DEF Others, ConsumerType, ConsumerPlaces

\* Either the call is done or it goes on to the next entry.
Advance(c) ==
  IF loc[c].at = loc[c].stop
  THEN cpc'[c] = "idle" /\ loc'[c] = NoLocals
  ELSE /\ cpc'[c] = "move"
       /\ loc'[c] = [loc[c] EXCEPT !.block = None, !.want = 0,
                        !.pos = (loc[c].pos + 1) % Cap(loc[c].header)]
       /\ (loc[c].pos + 1) % Cap(loc[c].header) \in 0..(Cap(loc[c].header) - 1)

\* NextBlock is Advance.
LEMMA NextBlockMoves ==
  ASSUME IndexType, ConsumerType, PlaceInv, NEW c \in Consumers, NextBlock(c),
         cpc[c] \in After
  PROVE  Others(c) /\ Advance(c) /\ ConsumerType'
<1>1. loc[c] \in Locals
  BY DEF ConsumerType
<1>2. CASE loc[c].at = loc[c].stop
  <2>1. cpc' = [cpc EXCEPT ![c] = "idle"] /\ loc' = [loc EXCEPT ![c] = NoLocals]
    BY <1>2 DEF NextBlock, Return
  <2>2. NoLocals \in Locals
    BY BoundsAssumption DEF NoLocals, Locals
  <2>3. QED
    BY <1>2, <2>1, <2>2 DEF Others, Advance, ConsumerType, ConsumerPlaces
<1>3. CASE loc[c].at # loc[c].stop
  <2> DEFINE p == (loc[c].pos + 1) % Cap(loc[c].header)
  <2>1. /\ cpc' = [cpc EXCEPT ![c] = "move"]
        /\ loc' = [loc EXCEPT ![c].block = None, ![c].want = 0, ![c].pos = p]
    BY <1>3 DEF NextBlock, Cap
  <2>2. p \in 0..(Cap(loc[c].header) - 1) /\ p \in Nat
    <3>1. loc[c].header \in DOMAIN headers /\ loc[c].pos + 1 \in Int
      BY <1>1, LocalTypes DEF PlaceInv, PlaceOk
    <3>2. Cap(loc[c].header) \in Nat \ {0}
      BY <3>1, CapRange
    <3>3. p \in 0..(Cap(loc[c].header) - 1)
      BY <3>1, <3>2, ModRange
    <3>4. QED
      BY <3>2, <3>3
  <2> HIDE DEF p
  <2>3. loc'[c] = [loc[c] EXCEPT !.block = None, !.want = 0, !.pos = p]
    BY <2>1 DEF ConsumerType
  <2>4. [[loc[c] EXCEPT !.block = None] EXCEPT !.want = 0] \in Locals
    <3>1. [loc[c] EXCEPT !.block = None] \in Locals
      BY <1>1, FieldTypes
    <3>2. QED
      BY <3>1, FieldTypes
  <2>5. loc'[c] \in Locals
    BY <2>2, <2>3, <2>4, FieldTypes
  <2>6. QED
    BY <1>3, <2>1, <2>2, <2>3, <2>5 DEF Others, Advance, ConsumerType, ConsumerPlaces, p
<1>4. QED
  BY <1>2, <1>3

\* It counts what it has moved out.
LEMMA SetManyEmptyMoves ==
  ASSUME IndexType, ConsumerType, PlaceInv, NEW c \in Consumers, SetManyEmpty(c)
  PROVE  /\ Others(c) /\ UNCHANGED <<counters, index, elements, free, producer, out>>
         /\ cpc[c] = "empty"
         /\ completed' = [completed EXCEPT ![loc[c].block] = @ + loc[c].want]
         /\ IF Emptied(c) THEN cpc'[c] = "unlink" /\ loc'[c] = loc[c]
                          ELSE Advance(c)
         /\ ConsumerType'
<1>1. /\ UNCHANGED <<counters, index, elements, free, producer, out>>
      /\ cpc[c] = "empty"
      /\ completed' = [completed EXCEPT ![loc[c].block] = @ + loc[c].want]
      /\ IF Emptied(c) THEN cpc' = [cpc EXCEPT ![c] = "unlink"] /\ loc' = loc
                       ELSE NextBlock(c)
  BY DEF SetManyEmpty
<1>2. CASE Emptied(c)
  BY <1>1, <1>2 DEF Others, ConsumerType, ConsumerPlaces
<1>3. CASE ~Emptied(c)
  BY <1>1, <1>3, NextBlockMoves DEF After
<1>4. QED
  BY <1>2, <1>3

\* The entry of an emptied block loses it ...
LEMMA UnlinkMoves ==
  ASSUME ConsumerType, NEW c \in Consumers, Unlink(c)
  PROVE  /\ Others(c) /\ UNCHANGED <<counters, headers, key, memory, producer, loc, out>>
         /\ cpc[c] = "unlink" /\ cpc'[c] = "free"
         /\ value' = [value EXCEPT ![EntryOf(c)] = None]
         /\ ConsumerType'
BY DEF Unlink, Goto, Others, ConsumerType, ConsumerPlaces

\* ... and the pool gets it.
LEMMA FreeMoves ==
  ASSUME IndexType, ConsumerType, PlaceInv, NEW c \in Consumers, Free(c)
  PROVE  /\ Others(c) /\ UNCHANGED <<counters, index, elements, completed, producer, out>>
         /\ cpc[c] = "free" /\ Advance(c)
         /\ free' = free \cup {loc[c].block}
         /\ ConsumerType'
BY NextBlockMoves DEF Free, After

-----------------------------------------------------------------------------
(* Claims: the counters, and what is granted of them. *)

Claiming == {"check", "claim", "reload", "giveBack", "take"}

\* All that is claimed and neither taken nor given back.
Claimed(place, local) == [c \in Consumers |->
  IF place[c] \in {"reload", "giveBack", "take"}
  THEN local[c].want + local[c].owe ELSE 0]

\* The claims are small enough to be counted.
Countable(place, local) ==
  /\ place \in [Consumers -> ConsumerPlaces] /\ local \in [Consumers -> Locals]
  /\ \A c \in Consumers :
       /\ place[c] \in {"reload", "giveBack", "take"} =>
            local[c].want + local[c].owe <= MaxTail

\* Claims are numbers that can be summed up.
LEMMA Summands ==
  ASSUME NEW place, NEW local, Countable(place, local)
  PROVE  /\ Claimed(place, local) \in Numbers
         /\ \A x \in Int : Due(place, local, x) \in Numbers
         /\ \A x \in Int : \A c \in Consumers :
              Due(place, local, x)[c] <= Claimed(place, local)[c]
<1>1. \A c \in Consumers : /\ place[c] \in ConsumerPlaces
                           /\ local[c].want \in Nat /\ local[c].owe \in Nat
  BY LocalTypes DEF Countable
<1>2. \A c \in Consumers : Claimed(place, local)[c] \in 0..MaxTail
  BY <1>1, BoundsAssumption DEF Claimed, Countable
<1>3. \A x \in Int : \A c \in Consumers :
        /\ Due(place, local, x)[c] \in 0..MaxTail
        /\ Due(place, local, x)[c] <= Claimed(place, local)[c]
  BY <1>1, BoundsAssumption DEF Due, Claimed, Countable
<1>4. QED
  BY <1>2, <1>3 DEF Claimed, Due, Numbers

\* The invariant bounds them.
LEMMA ClaimsCountable ==
  ConsumerType /\ ClaimInv => Countable(cpc, loc)
<1> SUFFICES ASSUME ConsumerType, ClaimInv PROVE Countable(cpc, loc)
  OBVIOUS
<1>1. \A c \in Consumers : loc[c].want \in Nat /\ loc[c].owe \in Nat
  BY LocalTypes DEF ConsumerType
<1>2. QED
  BY <1>1, BoundsAssumption DEF Countable, ConsumerType, ClaimInv, ClaimOk

\* Accounting, in terms of Claimed and Due.
LEMMA AccountingOf ==
  ASSUME ConsumerType
  PROVE  Accounting <=>
           /\ dequeueOptimisticCount - dequeueOvercommit = headIndex + Sum(Claimed(cpc, loc))
           /\ headIndex + Sum(Due(cpc, loc, 0)) <= tailIndex
<1>1. [c \in Consumers |-> Pending(c)] = Claimed(cpc, loc)
  BY DEF Claimed, Pending
<1>2. \A c \in Consumers : loc[c].my \in Nat
  BY LocalTypes DEF ConsumerType
<1>3. [c \in Consumers |-> Granted(c)] = Due(cpc, loc, 0)
  BY <1>2 DEF Due, Granted
<1>4. QED
  BY <1>1, <1>3 DEF Accounting

\* An action that leaves counters and claims alone keeps what is said of them.
LEMMA ClaimsFrame ==
  ASSUME Claims, CountersType, ConsumerType, ConsumerType',
         UNCHANGED <<headIndex, dequeueOptimisticCount, dequeueOvercommit>>,
         tailIndex' \in Nat, tailIndex' >= tailIndex,
         \A c \in Consumers :
           \/ cpc'[c] = cpc[c] /\ loc'[c] = loc[c]
           \/ /\ cpc[c] \notin Claiming /\ cpc'[c] \notin Claiming
              /\ cpc'[c] = "idle" => loc'[c].owe = 0
  PROVE  Claims'
<1>1. ClaimInv' /\ Tickets'
  <2>1. ASSUME NEW c \in Consumers
        PROVE  ClaimOk(cpc'[c], loc'[c], dequeueOptimisticCount', dequeueOvercommit')
    <3>1. ClaimOk(cpc[c], loc[c], dequeueOptimisticCount, dequeueOvercommit)
      BY DEF Claims, ClaimInv
    <3>2. QED
      BY <3>1 DEF ClaimOk, Claiming
  <2>2. QED
    BY <2>1 DEF Claims, ClaimInv, Tickets, Claiming
<1>2. [c \in Consumers |-> Pending(c)]' = [c \in Consumers |-> Pending(c)]
      /\ [c \in Consumers |-> Granted(c)]' = [c \in Consumers |-> Granted(c)]
  BY DEF Pending, Granted, Claiming
<1>3. \A x \in Int : Due(cpc', loc', x) = Due(cpc, loc, x)
  BY DEF Due, Claiming
<1>4. Accounting'
  BY <1>2, SumLaws DEF Accounting, Claims, CountersType
<1>5. Covered'
  <2>1. SUFFICES ASSUME NEW c \in Consumers, cpc'[c] = "reload"
                 PROVE  LET taken == headIndex' + Sum(Due(cpc', loc', loc'[c].my))
                        IN  \/ taken <= loc'[c].my - loc'[c].overcommit
                            \/ taken + loc'[c].want <= tailIndex'
    BY DEF Covered
  <2>2. /\ cpc[c] = "reload" /\ loc'[c] = loc[c] /\ loc[c].my \in Int /\ loc[c].want \in Nat
    BY <2>1, LocalTypes DEF Claiming, ConsumerType
  <2>3. Due(cpc', loc', loc'[c].my) = Due(cpc, loc, loc[c].my)
    BY <1>3, <2>2
  <2>4. Sum(Due(cpc, loc, loc[c].my)) \in Nat
    BY SumLaws
  <2>5. QED
    BY <2>2, <2>3, <2>4 DEF Claims, Covered, CountersType
<1>6. QED
  BY <1>1, <1>4, <1>5 DEF Claims

\* The locals that claims are made of are numbers.
LEMMA ClaimLocals ==
  ASSUME ConsumerType, NEW c \in Consumers
  PROVE  /\ loc[c] \in Locals /\ loc[c].overcommit \in Nat /\ loc[c].my \in Nat
         /\ loc[c].want \in Nat /\ loc[c].owe \in Nat /\ loc[c].tail \in Nat
         /\ loc[c].tail <= MaxTail
         /\ cpc[c] \in ConsumerPlaces
BY LocalTypes, BoundsAssumption DEF ConsumerType

\* Accounting and Covered, of the next state.
LEMMA AccountingNext ==
  ASSUME ConsumerType'
  PROVE  Accounting' <=>
           /\ dequeueOptimisticCount' - dequeueOvercommit' = headIndex' + Sum(Claimed(cpc', loc'))
           /\ headIndex' + Sum(Due(cpc', loc', 0)) <= tailIndex'
<1>1. [c \in Consumers |-> Pending(c)]' = Claimed(cpc', loc')
  BY DEF Claimed, Pending
<1>2. \A c \in Consumers : loc'[c].my \in Nat
  BY LocalTypes DEF ConsumerType
<1>3. [c \in Consumers |-> Granted(c)]' = Due(cpc', loc', 0)
  BY <1>2 DEF Due, Granted
<1>4. QED
  BY <1>1, <1>3 DEF Accounting

CoveredFor(c, place, local, head, tail) ==
  LET taken == head + Sum(Due(place, local, local[c].my))
  IN  \/ taken <= local[c].my - local[c].overcommit
      \/ taken + local[c].want <= tail

\* Covered is CoveredFor of every consumer, in the next state ...
LEMMA CoveredNext ==
  ASSUME \A c \in Consumers : cpc'[c] = "reload" =>
           CoveredFor(c, cpc', loc', headIndex', tailIndex')
  PROVE  Covered'
BY DEF Covered, CoveredFor

\* ... and in this one.
LEMMA CoveredNow ==
  ASSUME Covered, NEW c \in Consumers, cpc[c] = "reload"
  PROVE  CoveredFor(c, cpc, loc, headIndex, tailIndex)
BY DEF Covered, CoveredFor

\* The claims of the next state can be summed up.
LEMMA CountableNext ==
  ASSUME ConsumerType', ClaimInv'
  PROVE  Countable(cpc', loc')
<1>1. \A c \in Consumers : loc'[c].want \in Nat /\ loc'[c].owe \in Nat
  BY LocalTypes DEF ConsumerType
<1>2. QED
  BY <1>1, BoundsAssumption DEF Countable, ConsumerType, ClaimInv, ClaimOk

\* A step that leaves every claim as large as it is keeps what is said of them.
LEMMA SameClaims ==
  ASSUME Claims, CountersType, ConsumerType, ConsumerType', ClaimInv', Tickets',
         UNCHANGED <<tailIndex, headIndex, dequeueOptimisticCount, dequeueOvercommit>>,
         Claimed(cpc', loc') = Claimed(cpc, loc),
         \A x \in Int : Due(cpc', loc', x) = Due(cpc, loc, x),
         \A c \in Consumers : cpc'[c] = "reload" => cpc[c] = "reload" /\ loc'[c] = loc[c]
  PROVE  Claims'
<1>1. Accounting'
  BY AccountingOf, AccountingNext DEF Claims
<1>2. Covered'
  <2>1. ASSUME NEW c \in Consumers, cpc'[c] = "reload"
        PROVE  CoveredFor(c, cpc', loc', headIndex', tailIndex')
    <3>1. CoveredFor(c, cpc, loc, headIndex, tailIndex)
      BY <2>1, CoveredNow DEF Claims
    <3>2. loc[c].my \in Int /\ loc'[c] = loc[c]
      BY <2>1, ClaimLocals
    <3>3. QED
      BY <3>1, <3>2 DEF CoveredFor
  <2>2. QED
    BY <2>1, CoveredNext
<1>3. QED
  BY <1>1, <1>2 DEF Claims

\* What an action must do to the claim of its consumer, the counters and the tickets.
LEMMA ClaimInvNext ==
  ASSUME Claims, CountersType, ConsumerType, NEW c \in Consumers, Others(c),
         dequeueOptimisticCount' \in Nat, dequeueOvercommit' \in Nat,
         dequeueOptimisticCount' >= dequeueOptimisticCount,
         dequeueOvercommit' >= dequeueOvercommit,
         ClaimOk(cpc'[c], loc'[c], dequeueOptimisticCount', dequeueOvercommit'),
         cpc'[c] = "reload" => loc'[c].my >= dequeueOptimisticCount
  PROVE  ClaimInv' /\ Tickets'
<1>1. \A d \in Consumers \ {c} :
        ClaimOk(cpc'[d], loc'[d], dequeueOptimisticCount', dequeueOvercommit')
  <2>1. TAKE d \in Consumers \ {c}
  <2>2. ClaimOk(cpc[d], loc[d], dequeueOptimisticCount, dequeueOvercommit)
    BY DEF Claims, ClaimInv
  <2>3. cpc'[d] = cpc[d] /\ loc'[d] = loc[d]
    BY DEF Others
  <2>4. ClaimOk(cpc[d], loc[d], dequeueOptimisticCount', dequeueOvercommit')
    BY <2>2, ClaimLocals DEF ClaimOk, CountersType
  <2>5. QED
    BY <2>3, <2>4
<1>2. ClaimInv'
  BY <1>1 DEF ClaimInv
<1>3. ASSUME NEW d \in Consumers \ {c}, cpc'[d] = "reload", cpc'[c] = "reload"
      PROVE  loc'[d].my # loc'[c].my
  <2>1. loc'[d].my < dequeueOptimisticCount
    <3>1. cpc[d] = "reload" /\ loc'[d] = loc[d]
      BY <1>3 DEF Others
    <3>2. QED
      BY <3>1 DEF Claims, ClaimInv, ClaimOk
  <2>2. loc'[c].my >= dequeueOptimisticCount
    BY <1>3
  <2>3. loc'[d].my \in Nat
    BY ClaimLocals DEF Others
  <2>4. QED
    BY <2>1, <2>2, <2>3 DEF CountersType
<1>4. ASSUME NEW d \in Consumers \ {c}, NEW e \in Consumers \ {c}, d # e,
             cpc'[d] = "reload", cpc'[e] = "reload"
      PROVE  loc'[d].my # loc'[e].my
  BY <1>4 DEF Claims, Tickets, Others
<1>5. Tickets'
  <2>1. SUFFICES ASSUME NEW d \in Consumers, NEW e \in Consumers, d # e,
                        cpc'[d] = "reload", cpc'[e] = "reload"
                 PROVE  loc'[d].my # loc'[e].my
    BY DEF Tickets
  <2>2. CASE d = c
    BY <1>3, <2>1, <2>2
  <2>3. CASE e = c
    BY <1>3, <2>1, <2>3
  <2>4. CASE d # c /\ e # c
    BY <1>4, <2>1, <2>4
  <2>5. QED
    BY <2>2, <2>3, <2>4
<1>6. QED
  BY <1>2, <1>5

\* A call that begins claims nothing yet.
LEMMA DequeueClaims ==
  ASSUME Claims, CountersType, ConsumerType, NEW c \in Consumers, Dequeue(c) \/ DequeueBulk(c)
  PROVE  Claims'
<1>1. PICK n \in Nat \ {0} :
        /\ Others(c) /\ UNCHANGED <<tailIndex, headIndex, dequeueOptimisticCount, dequeueOvercommit>>
        /\ cpc[c] = "idle" /\ cpc'[c] = "check"
        /\ loc'[c] = [loc[c] EXCEPT !.tail = tailIndex,
                                    !.overcommit = dequeueOvercommit, !.want = n]
        /\ ConsumerType'
  BY DequeueMoves DEF counters
<1>2. loc'[c].overcommit = dequeueOvercommit /\ loc'[c].want = n /\ loc'[c].owe = loc[c].owe
  BY <1>1, ClaimLocals, LocalTypes
<1>3. ClaimInv' /\ Tickets'
  <2>1. loc[c].owe = 0
    BY <1>1 DEF Claims, ClaimInv, ClaimOk
  <2>2. dequeueOptimisticCount \in Nat /\ dequeueOvercommit \in Nat
    BY DEF CountersType
  <2>3. ClaimOk(cpc'[c], loc'[c], dequeueOptimisticCount', dequeueOvercommit')
    BY <1>1, <1>2, <2>1, <2>2 DEF ClaimOk
  <2>4. QED
    BY <1>1, <2>2, <2>3, ClaimInvNext
<1>4. Claimed(cpc', loc') = Claimed(cpc, loc)
  BY <1>1 DEF Claimed, Others
<1>5. \A x \in Int : Due(cpc', loc', x) = Due(cpc, loc, x)
  BY <1>1 DEF Due, Others
<1>6. \A d \in Consumers : cpc'[d] = "reload" => cpc[d] = "reload" /\ loc'[d] = loc[d]
  BY <1>1 DEF Others
<1>7. QED
  BY <1>1, <1>3, <1>4, <1>5, <1>6, SameClaims

\* A claim adds to the optimistic count what becomes pending.
LEMMA ClaimClaims ==
  ASSUME Claims, CountersType, ConsumerType, NEW c \in Consumers, Claim(c)
  PROVE  Claims' /\ CountersType'
<1>1. /\ Others(c) /\ UNCHANGED <<tailIndex, headIndex, dequeueOvercommit>>
      /\ dequeueOptimisticCount' = dequeueOptimisticCount + loc[c].want
      /\ cpc[c] = "claim" /\ cpc'[c] = "reload"
      /\ loc'[c] = [loc[c] EXCEPT !.my = dequeueOptimisticCount]
      /\ ConsumerType'
  BY ClaimMoves
<1>2. /\ loc'[c].my = dequeueOptimisticCount /\ loc'[c].want = loc[c].want
      /\ loc'[c].owe = loc[c].owe /\ loc'[c].overcommit = loc[c].overcommit
  BY <1>1, ClaimLocals, LocalTypes
<1>3. /\ 0 < loc[c].want /\ loc[c].want <= MaxTail /\ loc[c].owe = 0
      /\ loc[c].overcommit <= dequeueOvercommit
  <2>1. ClaimOk(cpc[c], loc[c], dequeueOptimisticCount, dequeueOvercommit)
    BY DEF Claims, ClaimInv
  <2>2. QED
    BY <1>1, <2>1 DEF ClaimOk
<1>4. CountersType'
  BY <1>1, ClaimLocals DEF CountersType
<1>5. dequeueOptimisticCount \in Nat /\ dequeueOvercommit \in Nat /\ headIndex \in Nat
  BY DEF CountersType
<1>6. ClaimInv' /\ Tickets'
  <2>1. ClaimOk(cpc'[c], loc'[c], dequeueOptimisticCount', dequeueOvercommit')
    BY <1>1, <1>2, <1>3, <1>5, ClaimLocals DEF ClaimOk
  <2>2. /\ dequeueOptimisticCount' \in Nat /\ dequeueOvercommit' \in Nat
        /\ dequeueOptimisticCount' >= dequeueOptimisticCount
        /\ dequeueOvercommit' >= dequeueOvercommit
    BY <1>1, <1>5, ClaimLocals
  <2>3. loc'[c].my >= dequeueOptimisticCount
    BY <1>2, <1>5
  <2>4. QED
    BY <1>1, <2>1, <2>2, <2>3, ClaimInvNext
<1>7. Countable(cpc, loc) /\ Countable(cpc', loc')
  BY <1>1, <1>6, ClaimsCountable, CountableNext DEF Claims
<1>8. \A x \in Int : x <= dequeueOptimisticCount => Due(cpc', loc', x) = Due(cpc, loc, x)
  <2>1. TAKE x \in Int
  <2>2. HAVE x <= dequeueOptimisticCount
  <2>3. Due(cpc', loc', x)[c] = 0 /\ Due(cpc, loc, x)[c] = 0
    <3>1. ~(loc'[c].my < x)
      BY <1>2, <1>5, <2>2
    <3>2. Due(cpc, loc, x)[c] = 0
      BY <1>1 DEF Due
    <3>3. QED
      BY <1>1, <3>1, <3>2 DEF Due
  <2>4. \A d \in Consumers \ {c} : Due(cpc', loc', x)[d] = Due(cpc, loc, x)[d]
    BY <1>1 DEF Due, Others
  <2>5. \A d \in Consumers : Due(cpc', loc', x)[d] = Due(cpc, loc, x)[d]
    BY <2>3, <2>4
  <2>6. QED
    BY <2>5 DEF Due
<1>9. dequeueOptimisticCount \in Int
  BY <1>5
<1>10. Sum(Claimed(cpc', loc')) = Sum(Claimed(cpc, loc)) + loc[c].want
  <2>1. /\ \A d \in Consumers \ {c} : Claimed(cpc', loc')[d] = Claimed(cpc, loc)[d]
        /\ Claimed(cpc, loc)[c] = 0 /\ Claimed(cpc', loc')[c] = loc[c].want
    <3>1. \A d \in Consumers \ {c} : Claimed(cpc', loc')[d] = Claimed(cpc, loc)[d]
      BY <1>1 DEF Claimed, Others
    <3>2. Claimed(cpc, loc)[c] = 0
      BY <1>1 DEF Claimed
    <3>3. loc'[c].want + loc'[c].owe = loc[c].want
      BY <1>2, <1>3, ClaimLocals
    <3>4. Claimed(cpc', loc')[c] = loc[c].want
      BY <1>1, <3>3 DEF Claimed
    <3>5. QED
      BY <3>1, <3>2, <3>4
  <2>2. Claimed(cpc, loc) \in Numbers /\ Claimed(cpc', loc') \in Numbers
    BY <1>7, Summands
  <2>3. Sum(Claimed(cpc', loc')) = Sum(Claimed(cpc, loc)) - 0 + loc[c].want
    BY <2>1, <2>2, SumChange
  <2>4. QED
    BY <2>3, SumLaws
<1>11. Accounting'
  BY <1>1, <1>8, <1>5, <1>10, ClaimLocals, SumLaws, AccountingOf, AccountingNext DEF Claims
<1>12. ASSUME NEW d \in Consumers, cpc'[d] = "reload"
       PROVE  CoveredFor(d, cpc', loc', headIndex', tailIndex')
  <2>1. CASE d = c
    <3>1. Sum(Due(cpc, loc, dequeueOptimisticCount)) <= Sum(Claimed(cpc, loc))
      BY <1>7, <1>9, Summands, SumLaws
    <3>2. headIndex + Sum(Claimed(cpc, loc)) = dequeueOptimisticCount - dequeueOvercommit
      BY AccountingOf DEF Claims
    <3>3. Sum(Due(cpc, loc, dequeueOptimisticCount)) \in Nat /\ Sum(Claimed(cpc, loc)) \in Nat
      BY SumLaws
    <3>4. headIndex + Sum(Due(cpc, loc, dequeueOptimisticCount))
            <= dequeueOptimisticCount - loc[c].overcommit
      BY <1>3, <1>5, <3>1, <3>2, <3>3, ClaimLocals
    <3>5. Due(cpc', loc', loc'[c].my) = Due(cpc, loc, dequeueOptimisticCount)
      BY <1>2, <1>5, <1>8
    <3>6. headIndex' = headIndex /\ loc'[c].my - loc'[c].overcommit
                                       = dequeueOptimisticCount - loc[c].overcommit
      BY <1>1, <1>2
    <3>7. CoveredFor(c, cpc', loc', headIndex', tailIndex')
      BY <3>4, <3>5, <3>6 DEF CoveredFor
    <3>8. QED
      BY <2>1, <3>7
  <2>2. CASE d # c
    <3>1. cpc[d] = "reload" /\ loc'[d] = loc[d] /\ loc[d].my \in Int
          /\ loc[d].my <= dequeueOptimisticCount
      BY <1>1, <1>5, <1>12, <2>2, ClaimLocals DEF Others, Claims, ClaimInv, ClaimOk
    <3>2. CoveredFor(d, cpc, loc, headIndex, tailIndex)
      BY <3>1, CoveredNow DEF Claims
    <3>3. QED
      BY <1>1, <1>8, <3>1, <3>2 DEF CoveredFor
  <2>3. QED
    BY <2>1, <2>2
<1>13. Covered'
  BY <1>12, CoveredNext
<1>14. QED
  BY <1>4, <1>6, <1>11, <1>13 DEF Claims

\* A look at the counters claims nothing.
LEMMA CheckClaims ==
  ASSUME Claims, CountersType, ConsumerType, NEW c \in Consumers, Check(c)
  PROVE  Claims'
<1>1. /\ Others(c) /\ UNCHANGED <<tailIndex, headIndex, dequeueOptimisticCount, dequeueOvercommit>>
      /\ cpc[c] = "check" /\ ConsumerType'
  BY CheckMoves DEF counters, Claims
<1>2. \/ cpc'[c] = "idle" /\ loc'[c] = NoLocals
      \/ /\ cpc'[c] = "claim"
         /\ \E n \in 1..loc[c].want :
              /\ n <= Left(loc[c].tail, dequeueOptimisticCount, loc[c].overcommit)
              /\ loc'[c] = [loc[c] EXCEPT !.tail = 0, !.want = n]
  BY CheckMoves DEF Claims
<1>3. dequeueOptimisticCount \in Nat /\ dequeueOvercommit \in Nat /\ headIndex \in Nat
  BY DEF CountersType
<1>4. loc[c].owe = 0 /\ loc[c].overcommit <= dequeueOvercommit
  <2>1. ClaimOk(cpc[c], loc[c], dequeueOptimisticCount, dequeueOvercommit)
    BY DEF Claims, ClaimInv
  <2>2. QED
    BY <1>1, <2>1 DEF ClaimOk
<1>5. ClaimOk(cpc'[c], loc'[c], dequeueOptimisticCount', dequeueOvercommit')
  <2>1. CASE cpc'[c] = "idle" /\ loc'[c] = NoLocals
    BY <2>1 DEF ClaimOk, NoLocals
  <2>2. CASE cpc'[c] = "claim"
    <3>1. PICK n \in 1..loc[c].want :
            /\ n <= Left(loc[c].tail, dequeueOptimisticCount, loc[c].overcommit)
            /\ loc'[c] = [loc[c] EXCEPT !.tail = 0, !.want = n]
      BY <1>2, <2>2
    <3>2. /\ loc'[c].want = n /\ loc'[c].owe = 0
          /\ loc'[c].overcommit = loc[c].overcommit
      BY <1>4, <3>1, ClaimLocals, LocalTypes
    \* What seems to be left is no more than the optimistic count leaves of MaxTail.
    <3>3. n <= MaxTail
      <4>1. loc[c].overcommit <= dequeueOptimisticCount
        <5>1. dequeueOptimisticCount - dequeueOvercommit = headIndex + Sum(Claimed(cpc, loc))
          BY AccountingOf DEF Claims
        <5>2. QED
          BY <1>3, <1>4, <5>1, ClaimLocals, SumLaws
      <4>2. QED
        BY <1>3, <3>1, <4>1, ClaimLocals, BoundsAssumption DEF Left
    <3>4. QED
      BY <1>1, <1>4, <2>2, <3>2, <3>3, ClaimLocals DEF ClaimOk
  <2>3. QED
    BY <1>2, <2>1, <2>2
<1>6. ClaimInv' /\ Tickets'
  <2>1. /\ dequeueOptimisticCount' \in Nat /\ dequeueOvercommit' \in Nat
        /\ dequeueOptimisticCount' >= dequeueOptimisticCount
        /\ dequeueOvercommit' >= dequeueOvercommit
    BY <1>1, <1>3
  <2>2. cpc'[c] # "reload"
    BY <1>2
  <2>3. QED
    BY <1>1, <1>5, <2>1, <2>2, ClaimInvNext
<1>7. Claimed(cpc', loc') = Claimed(cpc, loc)
  BY <1>1, <1>2 DEF Claimed, Others
<1>8. \A x \in Int : Due(cpc', loc', x) = Due(cpc, loc, x)
  BY <1>1, <1>2 DEF Due, Others
<1>9. \A d \in Consumers : cpc'[d] = "reload" => cpc[d] = "reload" /\ loc'[d] = loc[d]
  BY <1>1, <1>2 DEF Others
<1>10. QED
  BY <1>1, <1>6, <1>7, <1>8, <1>9, SameClaims

\* What is given back is pending no more, and in the overcommit.
LEMMA GiveBackClaims ==
  ASSUME Claims, CountersType, ConsumerType, NEW c \in Consumers, GiveBackClaim(c)
  PROVE  Claims' /\ CountersType'
<1>1. /\ Others(c) /\ UNCHANGED <<tailIndex, headIndex, dequeueOptimisticCount>>
      /\ dequeueOvercommit' = dequeueOvercommit + loc[c].owe
      /\ cpc[c] = "giveBack"
      /\ IF loc[c].want = 0
         THEN cpc'[c] = "idle" /\ loc'[c] = NoLocals
         ELSE cpc'[c] = "take" /\ loc'[c] = [loc[c] EXCEPT !.owe = 0]
      /\ ConsumerType'
  BY GiveBackMoves
<1>2. /\ dequeueOptimisticCount \in Nat /\ dequeueOvercommit \in Nat /\ headIndex \in Nat
      /\ dequeueOvercommit' \in Nat /\ dequeueOvercommit' >= dequeueOvercommit
  BY <1>1, ClaimLocals DEF CountersType
<1>3. CountersType'
  BY <1>1, <1>2 DEF CountersType
<1>4. loc[c].want + loc[c].owe <= MaxTail
  <2>1. ClaimOk(cpc[c], loc[c], dequeueOptimisticCount, dequeueOvercommit)
    BY DEF Claims, ClaimInv
  <2>2. QED
    BY <1>1, <2>1 DEF ClaimOk
\* Whatever was granted stays granted, and nothing is owed any more.
<1>5. /\ cpc'[c] \in {"idle", "take"} /\ loc'[c].owe = 0
      /\ cpc'[c] = "take" => loc'[c].want = loc[c].want /\ loc[c].want # 0
      /\ cpc'[c] = "idle" => loc[c].want = 0
  <2>1. CASE loc[c].want = 0
    BY <1>1, <2>1 DEF NoLocals
  <2>2. CASE loc[c].want # 0
    BY <1>1, <2>2, ClaimLocals, LocalTypes
  <2>3. QED
    BY <2>1, <2>2
<1>6. ClaimInv' /\ Tickets'
  <2>1. ClaimOk(cpc'[c], loc'[c], dequeueOptimisticCount', dequeueOvercommit')
    BY <1>4, <1>5, ClaimLocals, BoundsAssumption DEF ClaimOk
  <2>2. dequeueOptimisticCount' \in Nat /\ dequeueOptimisticCount' >= dequeueOptimisticCount
    BY <1>1, <1>2
  <2>3. cpc'[c] # "reload"
    BY <1>5
  <2>4. QED
    BY <1>1, <1>2, <2>1, <2>2, <2>3, ClaimInvNext
<1>7. Countable(cpc, loc) /\ Countable(cpc', loc')
  BY <1>1, <1>6, ClaimsCountable, CountableNext DEF Claims
<1>8. Sum(Claimed(cpc', loc')) = Sum(Claimed(cpc, loc)) - loc[c].owe
  <2>1. \A d \in Consumers \ {c} : Claimed(cpc', loc')[d] = Claimed(cpc, loc)[d]
    BY <1>1 DEF Claimed, Others
  <2>2. Claimed(cpc, loc)[c] = loc[c].want + loc[c].owe
    BY <1>1 DEF Claimed
  <2>3. Claimed(cpc', loc')[c] = loc[c].want
    BY <1>5, ClaimLocals DEF Claimed
  <2>4. Claimed(cpc, loc) \in Numbers /\ Claimed(cpc', loc') \in Numbers
    BY <1>7, Summands
  <2>5. Sum(Claimed(cpc', loc')) =
          Sum(Claimed(cpc, loc)) - Claimed(cpc, loc)[c] + Claimed(cpc', loc')[c]
    BY <2>1, <2>4, SumChange
  <2>6. QED
    BY <2>2, <2>3, <2>5, ClaimLocals, SumLaws
<1>9. \A x \in Int : Due(cpc', loc', x) = Due(cpc, loc, x)
  <2>1. TAKE x \in Int
  <2>2. \A d \in Consumers \ {c} : Due(cpc', loc', x)[d] = Due(cpc, loc, x)[d]
    BY <1>1 DEF Due, Others
  <2>3. Due(cpc, loc, x)[c] = loc[c].want
    BY <1>1 DEF Due
  <2>4. Due(cpc', loc', x)[c] = loc[c].want
    BY <1>5 DEF Due
  <2>5. \A d \in Consumers : Due(cpc', loc', x)[d] = Due(cpc, loc, x)[d]
    BY <2>2, <2>3, <2>4
  <2>6. QED
    BY <2>5 DEF Due
<1>10. Accounting'
  <2>1. /\ dequeueOptimisticCount - dequeueOvercommit = headIndex + Sum(Claimed(cpc, loc))
        /\ headIndex + Sum(Due(cpc, loc, 0)) <= tailIndex
    BY AccountingOf DEF Claims
  <2>2. dequeueOptimisticCount' - dequeueOvercommit' = headIndex' + Sum(Claimed(cpc', loc'))
    BY <1>1, <1>2, <1>8, <2>1, ClaimLocals, SumLaws
  <2>3. headIndex' + Sum(Due(cpc', loc', 0)) <= tailIndex'
    BY <1>1, <1>9, <2>1
  <2>4. QED
    BY <1>1, <2>2, <2>3, AccountingNext
<1>11. Covered'
  <2>1. ASSUME NEW d \in Consumers, cpc'[d] = "reload"
        PROVE  CoveredFor(d, cpc', loc', headIndex', tailIndex')
    <3>1. cpc[d] = "reload" /\ loc'[d] = loc[d] /\ loc[d].my \in Int
      BY <1>1, <1>5, <2>1, ClaimLocals DEF Others
    <3>2. CoveredFor(d, cpc, loc, headIndex, tailIndex)
      BY <3>1, CoveredNow DEF Claims
    <3>3. QED
      BY <1>1, <1>9, <3>1, <3>2 DEF CoveredFor
  <2>2. QED
    BY <2>1, CoveredNext
<1>12. QED
  BY <1>3, <1>6, <1>10, <1>11 DEF Claims

\* No summand is more than the sum.
LEMMA SumAtLeast ==
  ASSUME NEW n \in Numbers, NEW c \in Consumers
  PROVE  n[c] <= Sum(n)
<1> DEFINE m == [n EXCEPT ![c] = 0]
<1>1. m \in Numbers /\ m[c] = 0 /\ \A d \in Consumers \ {c} : m[d] = n[d]
  BY BoundsAssumption DEF Numbers
<1> HIDE DEF m
<1>2. Sum(m) = Sum(n) - n[c] + 0
  BY <1>1, SumChange
<1>3. Sum(m) \in Nat /\ Sum(n) \in Nat /\ n[c] \in Nat
  BY SumLaws, BoundsAssumption DEF Numbers
<1>4. QED
  BY <1>2, <1>3

\* What consumer c of the claims takes is there.
LEMMA TakeThere ==
  ASSUME Claims, CountersType, ConsumerType, NEW c \in Consumers,
         cpc[c] \in {"giveBack", "take"}
  PROVE  headIndex + loc[c].want <= tailIndex
<1>1. Due(cpc, loc, 0) \in Numbers
  BY ClaimsCountable, Summands DEF Claims
<1>2. Due(cpc, loc, 0)[c] = loc[c].want
  BY DEF Due
<1>3. headIndex + Sum(Due(cpc, loc, 0)) <= tailIndex
  BY AccountingOf DEF Claims
<1>4. loc[c].want <= Sum(Due(cpc, loc, 0))
  BY <1>1, <1>2, SumAtLeast
<1>5. Sum(Due(cpc, loc, 0)) \in Nat /\ loc[c].want \in Nat /\ headIndex \in Nat
      /\ tailIndex \in Nat
  BY ClaimLocals, SumLaws DEF CountersType
<1>6. QED
  BY <1>3, <1>4, <1>5

\* What is taken is pending no more, and in the head.
LEMMA TakeClaims ==
  ASSUME Claims, CountersType, ConsumerType, NEW c \in Consumers, Take(c)
  PROVE  Claims' /\ CountersType'
<1>1. headIndex + loc[c].want <= tailIndex
  BY TakeThere DEF Take, Goto
<1>2. /\ Others(c) /\ UNCHANGED <<tailIndex, dequeueOptimisticCount, dequeueOvercommit>>
      /\ headIndex' = headIndex + loc[c].want
      /\ cpc[c] = "take" /\ cpc'[c] = "index" /\ ConsumerType'
  BY <1>1, TakeMoves
<1>3. /\ dequeueOptimisticCount \in Nat /\ dequeueOvercommit \in Nat /\ headIndex \in Nat
      /\ tailIndex \in 0..MaxTail /\ loc[c].want \in Nat
  BY ClaimLocals DEF CountersType
<1>4. CountersType'
  BY <1>1, <1>2, <1>3 DEF CountersType
<1>5. loc[c].owe = 0
  <2>1. ClaimOk(cpc[c], loc[c], dequeueOptimisticCount, dequeueOvercommit)
    BY DEF Claims, ClaimInv
  <2>2. QED
    BY <1>2, <2>1 DEF ClaimOk
<1>6. ClaimInv' /\ Tickets'
  <2>1. ClaimOk(cpc'[c], loc'[c], dequeueOptimisticCount', dequeueOvercommit')
    BY <1>2 DEF ClaimOk
  <2>2. /\ dequeueOptimisticCount' \in Nat /\ dequeueOvercommit' \in Nat
        /\ dequeueOptimisticCount' >= dequeueOptimisticCount
        /\ dequeueOvercommit' >= dequeueOvercommit
    BY <1>2, <1>3
  <2>3. cpc'[c] # "reload"
    BY <1>2
  <2>4. QED
    BY <1>2, <2>1, <2>2, <2>3, ClaimInvNext
<1>7. Countable(cpc, loc) /\ Countable(cpc', loc')
  BY <1>2, <1>6, ClaimsCountable, CountableNext DEF Claims
<1>8. Sum(Claimed(cpc', loc')) = Sum(Claimed(cpc, loc)) - loc[c].want
  <2>1. \A d \in Consumers \ {c} : Claimed(cpc', loc')[d] = Claimed(cpc, loc)[d]
    BY <1>2 DEF Claimed, Others
  <2>2. Claimed(cpc, loc)[c] = loc[c].want /\ Claimed(cpc', loc')[c] = 0
    BY <1>2, <1>3, <1>5 DEF Claimed
  <2>3. Claimed(cpc, loc) \in Numbers /\ Claimed(cpc', loc') \in Numbers
    BY <1>7, Summands
  <2>4. Sum(Claimed(cpc', loc')) =
          Sum(Claimed(cpc, loc)) - Claimed(cpc, loc)[c] + Claimed(cpc', loc')[c]
    BY <2>1, <2>3, SumChange
  <2>5. QED
    BY <1>3, <2>2, <2>4, SumLaws
<1>9. \A x \in Int : Sum(Due(cpc', loc', x)) = Sum(Due(cpc, loc, x)) - loc[c].want
  <2>1. TAKE x \in Int
  <2>2. \A d \in Consumers \ {c} : Due(cpc', loc', x)[d] = Due(cpc, loc, x)[d]
    BY <1>2 DEF Due, Others
  <2>3. Due(cpc, loc, x)[c] = loc[c].want /\ Due(cpc', loc', x)[c] = 0
    BY <1>2 DEF Due
  <2>4. Due(cpc, loc, x) \in Numbers /\ Due(cpc', loc', x) \in Numbers
    BY <1>7, Summands
  <2>5. Sum(Due(cpc', loc', x)) =
          Sum(Due(cpc, loc, x)) - Due(cpc, loc, x)[c] + Due(cpc', loc', x)[c]
    BY <2>2, <2>4, SumChange
  <2>6. QED
    BY <1>3, <2>3, <2>5, SumLaws
<1>10. Accounting'
  <2>1. /\ dequeueOptimisticCount - dequeueOvercommit = headIndex + Sum(Claimed(cpc, loc))
        /\ headIndex + Sum(Due(cpc, loc, 0)) <= tailIndex
    BY AccountingOf DEF Claims
  <2>2. dequeueOptimisticCount' - dequeueOvercommit' = headIndex' + Sum(Claimed(cpc', loc'))
    BY <1>2, <1>3, <1>8, <2>1, SumLaws
  <2>3. headIndex' + Sum(Due(cpc', loc', 0)) <= tailIndex'
    BY <1>2, <1>3, <1>9, <2>1, SumLaws
  <2>4. QED
    BY <1>2, <2>2, <2>3, AccountingNext
<1>11. Covered'
  <2>1. ASSUME NEW d \in Consumers, cpc'[d] = "reload"
        PROVE  CoveredFor(d, cpc', loc', headIndex', tailIndex')
    <3>1. cpc[d] = "reload" /\ loc'[d] = loc[d] /\ loc[d].my \in Int
      BY <1>2, <2>1, ClaimLocals DEF Others
    <3>2. CoveredFor(d, cpc, loc, headIndex, tailIndex)
      BY <3>1, CoveredNow DEF Claims
    <3>3. headIndex' + Sum(Due(cpc', loc', loc[d].my)) = headIndex + Sum(Due(cpc, loc, loc[d].my))
      BY <1>2, <1>3, <1>9, <3>1, SumLaws
    <3>4. QED
      BY <1>2, <3>1, <3>2, <3>3 DEF CoveredFor
  <2>2. QED
    BY <2>1, CoveredNext
<1>12. QED
  BY <1>4, <1>6, <1>10, <1>11 DEF Claims

\* What is granted was covered, whatever is granted to others meanwhile.
LEMMA ReloadClaims ==
  ASSUME Claims, CountersType, ConsumerType, NEW c \in Consumers, Reload(c)
  PROVE  Claims'
<1> DEFINE D == Sum(Due(cpc, loc, loc[c].my))
<1>1. /\ Others(c) /\ UNCHANGED <<tailIndex, headIndex, dequeueOptimisticCount, dequeueOvercommit>>
      /\ cpc[c] = "reload" /\ ConsumerType'
  BY ReloadMoves DEF counters
<1>2. PICK n \in 0..loc[c].want :
        /\ n = 0 \/ n <= Left(tailIndex, loc[c].my, loc[c].overcommit)
        /\ cpc'[c] = IF n < loc[c].want THEN "giveBack" ELSE "take"
        /\ loc'[c] = [loc[c] EXCEPT !.want = n, !.owe = loc[c].want - n,
                                    !.my = 0, !.overcommit = 0]
  BY ReloadMoves
<1>3. /\ dequeueOptimisticCount \in Nat /\ dequeueOvercommit \in Nat /\ headIndex \in Nat
      /\ tailIndex \in Nat /\ loc[c].want \in Nat /\ loc[c].my \in Nat
      /\ loc[c].overcommit \in Nat /\ n \in Nat /\ n <= loc[c].want
  BY <1>2, ClaimLocals, BoundsAssumption DEF CountersType
<1>4. loc'[c].want = n /\ loc'[c].owe = loc[c].want - n
  BY <1>2, ClaimLocals, LocalTypes
<1>5. cpc'[c] \in {"giveBack", "take"} /\ (cpc'[c] = "take" => n = loc[c].want)
  BY <1>2, <1>3
<1>6. 0 < loc[c].want /\ loc[c].want <= MaxTail /\ loc[c].owe = 0
  <2>1. ClaimOk(cpc[c], loc[c], dequeueOptimisticCount, dequeueOvercommit)
    BY DEF Claims, ClaimInv
  <2>2. QED
    BY <1>1, <2>1 DEF ClaimOk
<1>7. ClaimInv' /\ Tickets'
  <2>1. ClaimOk(cpc'[c], loc'[c], dequeueOptimisticCount', dequeueOvercommit')
    BY <1>3, <1>4, <1>5, <1>6, BoundsAssumption DEF ClaimOk
  <2>2. /\ dequeueOptimisticCount' \in Nat /\ dequeueOvercommit' \in Nat
        /\ dequeueOptimisticCount' >= dequeueOptimisticCount
        /\ dequeueOvercommit' >= dequeueOvercommit
    BY <1>1, <1>3
  <2>3. cpc'[c] # "reload"
    BY <1>5
  <2>4. QED
    BY <1>1, <2>1, <2>2, <2>3, ClaimInvNext
<1>8. Countable(cpc, loc) /\ Countable(cpc', loc')
  BY <1>1, <1>7, ClaimsCountable, CountableNext DEF Claims
<1>9. \A x \in Int : Due(cpc, loc, x) \in Numbers /\ Due(cpc', loc', x) \in Numbers
  BY <1>8, Summands
<1>10. Claimed(cpc', loc') = Claimed(cpc, loc)
  <2>1. \A d \in Consumers \ {c} : Claimed(cpc', loc')[d] = Claimed(cpc, loc)[d]
    BY <1>1 DEF Claimed, Others
  <2>2. Claimed(cpc, loc)[c] = loc[c].want + loc[c].owe
    BY <1>1 DEF Claimed
  <2>3. Claimed(cpc', loc')[c] = n + (loc[c].want - n)
    BY <1>4, <1>5 DEF Claimed
  <2>4. n + (loc[c].want - n) = loc[c].want + loc[c].owe
    BY <1>3, <1>6
  <2>5. \A d \in Consumers : Claimed(cpc', loc')[d] = Claimed(cpc, loc)[d]
    BY <2>1, <2>2, <2>3, <2>4
  <2>6. QED
    BY <2>5 DEF Claimed
\* The claim turns into one of n elements, whatever its ticket was.
<1>11. \A x \in Int : Sum(Due(cpc', loc', x)) =
         IF loc[c].my < x THEN Sum(Due(cpc, loc, x)) - loc[c].want + n
                          ELSE Sum(Due(cpc, loc, x)) + n
  <2>1. TAKE x \in Int
  <2>2. \A d \in Consumers \ {c} : Due(cpc', loc', x)[d] = Due(cpc, loc, x)[d]
    BY <1>1 DEF Due, Others
  <2>3. Due(cpc', loc', x)[c] = n
    BY <1>4, <1>5 DEF Due
  <2>4. Due(cpc, loc, x)[c] = IF loc[c].my < x THEN loc[c].want ELSE 0
    BY <1>1 DEF Due
  <2>5. Sum(Due(cpc', loc', x)) =
          Sum(Due(cpc, loc, x)) - Due(cpc, loc, x)[c] + Due(cpc', loc', x)[c]
    BY <1>9, <2>2, SumChange
  <2>6. QED
    BY <1>3, <2>3, <2>4, <2>5, SumLaws
<1>12. D \in Nat
  BY SumLaws
\* The elements are there, beside those that earlier tickets may still take.
<1>13. n = 0 \/ headIndex + D + n <= tailIndex
  <2>1. CoveredFor(c, cpc, loc, headIndex, tailIndex)
    BY <1>1, CoveredNow DEF Claims
  <2>2. \/ headIndex + D <= loc[c].my - loc[c].overcommit
        \/ headIndex + D + loc[c].want <= tailIndex
    BY <2>1 DEF CoveredFor
  <2> HIDE DEF D
  <2>3. QED
    BY <1>2, <1>3, <1>12, <2>2 DEF Left
<1>14. Accounting'
  <2>1. /\ dequeueOptimisticCount - dequeueOvercommit = headIndex + Sum(Claimed(cpc, loc))
        /\ headIndex + Sum(Due(cpc, loc, 0)) <= tailIndex
    BY AccountingOf DEF Claims
  <2>2. Sum(Due(cpc, loc, 0)) <= D
    <3>1. \A d \in Consumers : Due(cpc, loc, 0)[d] <= Due(cpc, loc, loc[c].my)[d]
      BY <1>3, ClaimLocals DEF Due
    <3>2. QED
      BY <1>3, <1>9, <3>1, SumLaws
  <2>3. Sum(Due(cpc', loc', 0)) = Sum(Due(cpc, loc, 0)) + n
    BY <1>3, <1>11
  <2> HIDE DEF D
  <2>4. headIndex + Sum(Due(cpc', loc', 0)) <= tailIndex
    BY <1>3, <1>12, <1>13, <2>1, <2>2, <2>3, SumLaws
  <2>5. QED
    BY <1>1, <1>10, <2>1, <2>4, AccountingNext
<1>15. ASSUME NEW d \in Consumers, cpc'[d] = "reload"
       PROVE  CoveredFor(d, cpc', loc', headIndex', tailIndex')
  <2> DEFINE S == Sum(Due(cpc, loc, loc[d].my))
  <2>1. d # c /\ cpc[d] = "reload" /\ loc'[d] = loc[d]
    BY <1>1, <1>5, <1>15 DEF Others
  <2>2. /\ loc[d].my \in Nat /\ loc[d].want \in Nat /\ loc[d].overcommit \in Nat
        /\ S \in Nat
    BY ClaimLocals, SumLaws
  <2>3. loc[d].my # loc[c].my
    BY <1>1, <2>1 DEF Claims, Tickets
  <2>4. \/ headIndex + S <= loc[d].my - loc[d].overcommit
        \/ headIndex + S + loc[d].want <= tailIndex
    BY <2>1, CoveredNow DEF CoveredFor, Claims
  <2>5. CASE loc[c].my < loc[d].my
    <3>1. Sum(Due(cpc', loc', loc[d].my)) = S - loc[c].want + n
      BY <1>11, <2>2, <2>5
    <3> HIDE DEF S
    <3>2. \/ headIndex + Sum(Due(cpc', loc', loc[d].my)) <= loc[d].my - loc[d].overcommit
          \/ headIndex + Sum(Due(cpc', loc', loc[d].my)) + loc[d].want <= tailIndex
      BY <1>3, <2>2, <2>4, <3>1
    <3>3. QED
      BY <1>1, <2>1, <3>2 DEF CoveredFor
  <2>6. CASE loc[d].my < loc[c].my
    <3>1. Sum(Due(cpc', loc', loc[d].my)) = S + n
      BY <1>3, <1>11, <2>2, <2>6
    <3>2. S + loc[d].want <= D
      <4> DEFINE g == [Due(cpc, loc, loc[d].my) EXCEPT ![d] = loc[d].want]
      <4>1. Due(cpc, loc, loc[d].my) \in Numbers /\ Due(cpc, loc, loc[c].my) \in Numbers
        BY <1>3, <1>9, <2>2
      <4>2. Due(cpc, loc, loc[d].my)[d] = 0
        BY <2>1, <2>2 DEF Due
      <4>3. Due(cpc, loc, loc[c].my)[d] = loc[d].want
        BY <2>1, <2>6 DEF Due
      <4>4. loc[d].want \in 0..MaxTail
        BY <4>1, <4>3 DEF Numbers
      <4>5. g \in Numbers /\ g[d] = loc[d].want
            /\ \A e \in Consumers \ {d} : g[e] = Due(cpc, loc, loc[d].my)[e]
        BY <4>1, <4>4 DEF Numbers
      <4> HIDE DEF g
      <4>6. Sum(g) = S - 0 + loc[d].want
        BY <4>1, <4>2, <4>5, SumChange
      <4>7. \A e \in Consumers : g[e] <= Due(cpc, loc, loc[c].my)[e]
        <5>1. \A e \in Consumers \ {d} :
                Due(cpc, loc, loc[d].my)[e] <= Due(cpc, loc, loc[c].my)[e]
          BY <1>3, <2>2, <2>6, ClaimLocals DEF Due
        <5>2. QED
          BY <2>2, <4>3, <4>5, <5>1
      <4>8. Sum(g) <= D
        BY <4>1, <4>5, <4>7, SumLaws
      <4> HIDE DEF S, D
      <4>9. QED
        BY <1>12, <2>2, <4>6, <4>8
    <3> HIDE DEF S, D
    <3>3. \/ headIndex + Sum(Due(cpc', loc', loc[d].my)) <= loc[d].my - loc[d].overcommit
          \/ headIndex + Sum(Due(cpc', loc', loc[d].my)) + loc[d].want <= tailIndex
      BY <1>3, <1>12, <1>13, <2>2, <2>4, <3>1, <3>2
    <3>4. QED
      BY <1>1, <2>1, <3>3 DEF CoveredFor
  <2>7. QED
    BY <1>3, <2>2, <2>3, <2>5, <2>6
<1>16. Covered'
  BY <1>15, CoveredNext
<1>17. QED
  BY <1>7, <1>14, <1>16 DEF Claims

-----------------------------------------------------------------------------
(* Elements and the numbers of their blocks. *)

\* Blocks hold the elements n * BlockSize, ..., n * BlockSize + BlockSize - 1.
LEMMA BlockOf ==
  ASSUME NEW i \in Int
  PROVE  /\ Num(i) \in Int /\ i % BlockSize \in Slots
         /\ Num(i) * BlockSize \in Int
         /\ i = Num(i) * BlockSize + (i % BlockSize)
         /\ Num(i) * BlockSize <= i /\ i < Num(i) * BlockSize + BlockSize
         /\ Base(i) = Num(i) * BlockSize
<1>1. BlockSize \in Nat \ {0}
  BY SizeAssumption
<1>2. /\ Num(i) \in Int /\ i % BlockSize \in Slots
      /\ Num(i) * BlockSize \in Int
      /\ i = Num(i) * BlockSize + (i % BlockSize)
      /\ Num(i) * BlockSize <= i /\ i < Num(i) * BlockSize + BlockSize
  BY <1>1, Division DEF Num, Slots
<1>3. \A x, y, z \in Int : x = y + z => x - z = y
  OBVIOUS
<1>4. i % BlockSize \in Int
  BY <1>1, <1>2 DEF Slots
<1>5. Base(i) = Num(i) * BlockSize
  BY <1>2, <1>3, <1>4, Zenon DEF Base
<1>6. QED
  BY <1>2, <1>5

\* Only they are in block n.
LEMMA InBlock ==
  ASSUME NEW i \in Int, NEW n \in Int
  PROVE  /\ Num(i) = n <=> n * BlockSize <= i /\ i < n * BlockSize + BlockSize
         /\ Num(i) = n => i % BlockSize = i - n * BlockSize
         /\ Num(i) <= n <=> i < n * BlockSize + BlockSize
         /\ n <= Num(i) <=> n * BlockSize <= i
<1>1. BlockSize \in Nat \ {0}
  BY SizeAssumption
<1>2. Num(i) = n => n * BlockSize <= i /\ i < n * BlockSize + BlockSize
  BY BlockOf
<1>3. ASSUME n * BlockSize <= i, i < n * BlockSize + BlockSize
      PROVE  Num(i) = n /\ i % BlockSize = i - n * BlockSize
  BY <1>1, <1>3, Quotient DEF Num
<1>4. /\ Num(i) \in Int /\ Num(i) * BlockSize \in Int /\ n * BlockSize \in Int
      /\ Num(i) * BlockSize <= i /\ i < Num(i) * BlockSize + BlockSize
  BY <1>1, BlockOf
<1>5. /\ Num(i) < n => Num(i) * BlockSize + BlockSize <= n * BlockSize
      /\ n < Num(i) => n * BlockSize + BlockSize <= Num(i) * BlockSize
      /\ n <= Num(i) => n * BlockSize <= Num(i) * BlockSize
      /\ Num(i) <= n => Num(i) * BlockSize <= n * BlockSize
  BY <1>1, <1>4, Times
<1> HIDE DEF Num
<1>6. /\ Num(i) <= n <=> i < n * BlockSize + BlockSize
      /\ n <= Num(i) <=> n * BlockSize <= i
  BY <1>1, <1>4, <1>5
<1>7. QED
  BY <1>2, <1>3, <1>6

\* Num(i) of every number from some on.
LEMMA NumOrder ==
  ASSUME NEW i \in Int, NEW j \in Int
  PROVE  /\ i <= j => Num(i) <= Num(j)
         /\ Num(i) < Num(j) => i < j
         /\ Num(i + BlockSize) = Num(i) + 1
         /\ i >= 0 => Num(i) >= 0
<1>1. BlockSize \in Nat \ {0}
  BY SizeAssumption
<1>2. /\ Num(i) \in Int /\ Num(j) \in Int
      /\ Num(i) * BlockSize \in Int
      /\ Num(i) * BlockSize <= i /\ i < Num(i) * BlockSize + BlockSize
  BY BlockOf
<1>3. (i <= j => Num(i) <= Num(j)) /\ (Num(i) < Num(j) => i < j)
  <2>1. /\ Num(j) * BlockSize \in Int /\ Num(j) * BlockSize <= j
        /\ j < Num(j) * BlockSize + BlockSize
    BY BlockOf
  <2>2. i <= j => Num(i) <= Num(j)
    BY <1>1, <1>2, <2>1, InBlock
  <2>3. j <= i => Num(j) <= Num(i)
    BY <1>1, <1>2, <2>1, InBlock
  <2>4. QED
    BY <1>2, <2>2, <2>3
<1>4. Num(i + BlockSize) = Num(i) + 1
  <2>1. /\ i + BlockSize \in Int /\ Num(i) + 1 \in Int
        /\ (Num(i) + 1) * BlockSize = Num(i) * BlockSize + BlockSize
    BY <1>1, <1>2, Times
  <2>2. /\ (Num(i) + 1) * BlockSize <= i + BlockSize
        /\ i + BlockSize < (Num(i) + 1) * BlockSize + BlockSize
    BY <1>1, <1>2, <2>1
  <2>3. QED
    BY <2>1, <2>2, InBlock
<1>5. i >= 0 => Num(i) >= 0
  <2>1. 0 * BlockSize = 0
    BY <1>1
  <2>2. QED
    BY <1>2, <2>1, InBlock
<1>6. QED
  BY <1>2, <1>3, <1>4, <1>5

\* Where block m begins.
LEMMA BlockStart ==
  ASSUME NEW m \in Int
  PROVE  /\ m * BlockSize \in Int /\ (m * BlockSize) % BlockSize = 0
         /\ Num(m * BlockSize) = m
         /\ \A s \in Slots : /\ Num(m * BlockSize + s) = m
                            /\ (m * BlockSize + s) % BlockSize = s
<1>1. BlockSize \in Nat \ {0} /\ m * BlockSize \in Int
  BY SizeAssumption
<1>2. ASSUME NEW s \in Slots
      PROVE  Num(m * BlockSize + s) = m /\ (m * BlockSize + s) % BlockSize = s
  <2>1. PICK k \in Int : k = m * BlockSize
    BY <1>1
  <2>2. PICK i \in Int : i = k + s
    BY <1>1 DEF Slots
  <2>3. m * BlockSize <= i /\ i < m * BlockSize + BlockSize
    BY <1>1, <2>1, <2>2 DEF Slots
  <2>4. Num(i) = m /\ i % BlockSize = i - m * BlockSize
    BY <1>1, <2>3, InBlock
  <2>5. i - k = s
    BY <1>1, <2>2 DEF Slots
  <2>6. QED
    BY <2>1, <2>2, <2>4, <2>5
<1>3. 0 \in Slots /\ m * BlockSize + 0 = m * BlockSize
  BY <1>1 DEF Slots
<1>4. QED
  BY <1>1, <1>2, <1>3

-----------------------------------------------------------------------------
(* What consumers hold. *)

\* The locals that say what a consumer holds.
LEMMA HandLocals ==
  ASSUME ConsumerType, NEW c \in Consumers
  PROVE  /\ loc[c] \in Locals /\ cpc[c] \in ConsumerPlaces
         /\ loc[c].at \in 0..MaxTail /\ loc[c].stop \in 0..MaxTail
         /\ loc[c].at \in Nat /\ loc[c].stop \in Nat /\ loc[c].want \in Nat
         /\ loc[c].header \in Nat /\ loc[c].pos \in Nat
BY LocalTypes, BoundsAssumption DEF ConsumerType

\* The indexes only grow, and none of them changes its size.
Grown == /\ DOMAIN headers \subseteq DOMAIN headers'
         /\ \A h \in DOMAIN headers : headers'[h].capacity = headers[h].capacity

\* What a consumer's step must do to its part of the invariant.
LEMMA HandsNext ==
  ASSUME Hands, CountersType, ConsumerType, NEW c \in Consumers, Others(c),
         headIndex' \in Nat, headIndex' >= headIndex, Grown,
         HandOk(cpc'[c], loc'[c], headIndex'), PlaceOk(cpc'[c], loc'[c], headers'),
         Span(cpc'[c], loc'[c]) \subseteq
           Span(cpc[c], loc[c]) \cup headIndex..(headIndex' - 1)
  PROVE  Hands'
<1>1. headIndex \in Nat
  BY DEF CountersType
<1>2. ASSUME NEW d \in Consumers \ {c}
      PROVE  HandOk(cpc'[d], loc'[d], headIndex') /\ PlaceOk(cpc'[d], loc'[d], headers')
  <2>1. HandOk(cpc[d], loc[d], headIndex) /\ PlaceOk(cpc[d], loc[d], headers)
    BY DEF Hands, HandInv, PlaceInv
  <2>2. HandOk(cpc[d], loc[d], headIndex')
    BY <1>1, <2>1, HandLocals DEF HandOk
  <2>3. PlaceOk(cpc[d], loc[d], headers')
    BY <2>1 DEF PlaceOk, Grown
  <2>4. QED
    BY <2>2, <2>3 DEF Others
<1>3. HandInv' /\ PlaceInv'
  BY <1>2 DEF HandInv, PlaceInv
<1>4. ASSUME NEW d \in Consumers \ {c}
      PROVE  Span(cpc'[c], loc'[c]) \cap Span(cpc'[d], loc'[d]) = {}
  <2>1. Span(cpc[c], loc[c]) \cap Span(cpc[d], loc[d]) = {}
    BY DEF Hands, HandsApart, Uncounted
  <2>2. Span(cpc[d], loc[d]) \cap headIndex..(headIndex' - 1) = {}
    <3>1. HandOk(cpc[d], loc[d], headIndex)
      BY DEF Hands, HandInv
    <3>2. \A i \in Span(cpc[d], loc[d]) : i < headIndex
      BY <1>1, <3>1, HandLocals DEF HandOk, Span
    <3>3. QED
      BY <1>1, <3>2
  <2>3. cpc'[d] = cpc[d] /\ loc'[d] = loc[d]
    BY DEF Others
  <2>4. QED
    BY <2>1, <2>2, <2>3
<1>5. ASSUME NEW d \in Consumers \ {c}, NEW e \in Consumers \ {c}, d # e
      PROVE  Span(cpc'[d], loc'[d]) \cap Span(cpc'[e], loc'[e]) = {}
  BY <1>5 DEF Hands, HandsApart, Uncounted, Others
<1>6. HandsApart'
  <2>1. SUFFICES ASSUME NEW d \in Consumers, NEW e \in Consumers, d # e
                 PROVE  Span(cpc'[d], loc'[d]) \cap Span(cpc'[e], loc'[e]) = {}
    BY DEF HandsApart, Uncounted
  <2>2. CASE d = c
    BY <1>4, <2>1, <2>2
  <2>3. CASE e = c
    BY <1>4, <2>1, <2>3
  <2>4. CASE d # c /\ e # c
    BY <1>5, <2>1, <2>4
  <2>5. QED
    BY <2>2, <2>3, <2>4
<1>7. QED
  BY <1>3, <1>6 DEF Hands

\* Actions that are nobody's move keep them.
LEMMA HandsFrame ==
  ASSUME Hands, ConsumerType, UNCHANGED <<headIndex, cpc, loc>>, Grown
  PROVE  Hands'
<1>1. HandInv' /\ HandsApart'
  BY DEF Hands, HandInv, HandsApart, Uncounted
<1>2. PlaceInv'
  BY DEF Hands, PlaceInv, PlaceOk, Grown
<1>3. QED
  BY <1>1, <1>2 DEF Hands

\* A consumer that goes on claiming, or gives up, holds nothing.
LEMMA HandsEmpty ==
  ASSUME Hands, CountersType, ConsumerType, NEW c \in Consumers, Others(c),
         UNCHANGED <<headIndex, headers>>,
         cpc'[c] \notin Before \cup After, loc'[c].at = 0, loc'[c].stop = 0
  PROVE  Hands'
<1>1. headIndex \in Nat
  BY DEF CountersType
<1>2. HandOk(cpc'[c], loc'[c], headIndex') /\ PlaceOk(cpc'[c], loc'[c], headers')
  BY <1>1 DEF HandOk, PlaceOk, Before, After
<1>3. Span(cpc'[c], loc'[c]) = {}
  BY DEF Span, Before, After
<1>4. Grown
  BY DEF Grown
<1>5. QED
  BY <1>1, <1>2, <1>3, <1>4, HandsNext

\* What the invariant says of one consumer's hand.
LEMMA HandAt ==
  ASSUME Hands, NEW c \in Consumers
  PROVE  HandOk(cpc[c], loc[c], headIndex) /\ PlaceOk(cpc[c], loc[c], headers)
BY DEF Hands, HandInv, PlaceInv

\* A consumer that is claiming holds nothing.
LEMMA ClaimingHands ==
  ASSUME Hands, Claims, CountersType, ConsumerType, NEW c \in Consumers,
         Dequeue(c) \/ DequeueBulk(c) \/ Check(c) \/ Claim(c) \/ Reload(c) \/ GiveBackClaim(c)
  PROVE  Hands'
<1>1. loc[c] \in Locals /\ NoLocals.at = 0 /\ NoLocals.stop = 0
  BY HandLocals DEF NoLocals
<1>2. cpc[c] \notin Before \cup After => loc[c].at = 0 /\ loc[c].stop = 0
  BY HandAt DEF HandOk
<1>3. CASE Dequeue(c) \/ DequeueBulk(c)
  BY <1>1, <1>2, <1>3, DequeueMoves, HandsEmpty, LocalTypes DEF counters, index, Before, After
<1>4. CASE Check(c)
  BY <1>1, <1>2, <1>4, CheckMoves, HandsEmpty, LocalTypes DEF counters, index, Before, After, Claims
<1>5. CASE Claim(c)
  BY <1>1, <1>2, <1>5, ClaimMoves, HandsEmpty, LocalTypes DEF index, Before, After
<1>6. CASE Reload(c)
  BY <1>1, <1>2, <1>6, ReloadMoves, HandsEmpty, LocalTypes DEF counters, index, Before, After
<1>7. CASE GiveBackClaim(c)
  BY <1>1, <1>2, <1>7, GiveBackMoves, HandsEmpty, LocalTypes DEF index, Before, After
<1>8. QED
  BY <1>3, <1>4, <1>5, <1>6, <1>7

\* A consumer takes elements nobody else has.
LEMMA TakeHands ==
  ASSUME Hands, Claims, CountersType, ConsumerType, NEW c \in Consumers, Take(c)
  PROVE  Hands'
<1>1. headIndex + loc[c].want <= tailIndex
  BY TakeThere DEF Take, Goto
<1>2. /\ Others(c) /\ headers' = headers
      /\ headIndex' = headIndex + loc[c].want
      /\ cpc[c] = "take" /\ cpc'[c] = "index"
      /\ loc'[c] = [loc[c] EXCEPT !.at = headIndex, !.want = 0,
                                  !.stop = headIndex + loc[c].want]
  BY <1>1, TakeMoves DEF index
<1>3. loc'[c].at = headIndex /\ loc'[c].stop = headIndex + loc[c].want
  BY <1>2, HandLocals, LocalTypes
<1>4. loc[c].want > 0
  BY <1>2 DEF Claims, ClaimInv, ClaimOk
<1>5. headIndex \in Nat /\ loc[c].want \in Nat
  BY HandLocals DEF CountersType
<1>6. HandOk(cpc'[c], loc'[c], headIndex') /\ PlaceOk(cpc'[c], loc'[c], headers')
  BY <1>2, <1>3, <1>4, <1>5 DEF HandOk, PlaceOk, Before, After
<1>7. Span(cpc'[c], loc'[c]) = headIndex..(headIndex' - 1)
  BY <1>2, <1>3 DEF Span
<1>8. Grown /\ headIndex' \in Nat /\ headIndex' >= headIndex
  BY <1>2, <1>5 DEF Grown
<1>9. QED
  BY <1>2, <1>6, <1>7, <1>8, HandsNext

\* A step that keeps headers and head, and what its consumer holds.
LEMMA HandsKept ==
  ASSUME Hands, CountersType, ConsumerType, NEW c \in Consumers, Others(c),
         UNCHANGED <<headIndex, headers>>,
         HandOk(cpc'[c], loc'[c], headIndex), PlaceOk(cpc'[c], loc'[c], headers),
         Span(cpc'[c], loc'[c]) \subseteq Span(cpc[c], loc[c])
  PROVE  Hands'
<1>1. Grown /\ headIndex' \in Nat /\ headIndex' >= headIndex
  BY DEF Grown, CountersType
<1>2. HandOk(cpc'[c], loc'[c], headIndex') /\ PlaceOk(cpc'[c], loc'[c], headers')
  OBVIOUS
<1>3. Span(cpc'[c], loc'[c]) \subseteq Span(cpc[c], loc[c]) \cup headIndex..(headIndex' - 1)
  OBVIOUS
<1>4. QED
  BY <1>1, <1>2, <1>3, HandsNext

\* The lookup leaves what a consumer holds alone.
LEMMA LookupHands ==
  ASSUME Hands, CountersType, IndexType, ConsumerType, NEW c \in Consumers,
         LoadIndex(c) \/ LoadKey(c)
  PROVE  Hands'
<1>1. loc[c] \in Locals /\ HandOk(cpc[c], loc[c], headIndex)
  BY HandLocals, HandAt
<1>2. CASE LoadIndex(c)
  <2>1. /\ Others(c) /\ UNCHANGED <<headIndex, headers>>
        /\ cpc[c] = "index" /\ cpc'[c] = "key"
        /\ loc'[c] = [loc[c] EXCEPT !.header = Len(headers), !.pos = blockIndex.tail]
        /\ Len(headers) \in DOMAIN headers
        /\ blockIndex.tail \in 0..(Cap(Len(headers)) - 1)
    BY <1>2, LoadIndexMoves DEF counters, index
  <2>2. /\ loc'[c].header = Len(headers) /\ loc'[c].pos = blockIndex.tail
        /\ loc'[c].at = loc[c].at /\ loc'[c].stop = loc[c].stop
    BY <1>1, <2>1, LocalTypes
  <2>3. HandOk(cpc'[c], loc'[c], headIndex)
    BY <1>1, <2>1, <2>2 DEF HandOk, Before, After
  <2>4. PlaceOk(cpc'[c], loc'[c], headers)
    BY <2>1, <2>2 DEF PlaceOk, After, Cap
  <2>5. Span(cpc'[c], loc'[c]) = Span(cpc[c], loc[c])
    BY <2>1, <2>2 DEF Span
  <2>6. QED
    BY <2>1, <2>3, <2>4, <2>5, HandsKept
<1>3. CASE LoadKey(c)
  <2>1. PICK p \in 0..(Cap(loc[c].header) - 1) :
          /\ Others(c) /\ UNCHANGED <<headIndex, headers>>
          /\ cpc[c] = "key" /\ cpc'[c] = "move"
          /\ loc'[c] = [loc[c] EXCEPT !.pos = p]
    BY <1>3, LoadKeyMoves DEF counters, index, Hands
  <2>2. /\ loc'[c].header = loc[c].header /\ loc'[c].pos = p
        /\ loc'[c].at = loc[c].at /\ loc'[c].stop = loc[c].stop
    BY <1>1, <2>1, LocalTypes
  <2>3. HandOk(cpc'[c], loc'[c], headIndex)
    BY <1>1, <2>1, <2>2 DEF HandOk, Before, After
  <2>4. PlaceOk(cpc[c], loc[c], headers)
    BY HandAt
  <2>5. PlaceOk(cpc'[c], loc'[c], headers)
    BY <2>1, <2>2, <2>4 DEF PlaceOk, After, Cap
  <2>6. Span(cpc'[c], loc'[c]) = Span(cpc[c], loc[c])
    BY <2>1, <2>2 DEF Span
  <2>7. QED
    BY <2>1, <2>3, <2>5, <2>6, HandsKept
<1>4. QED
  BY <1>2, <1>3

\* The elements that one Move takes are in one block, the last ones of the call or of the block.
LEMMA MoveRange ==
  ASSUME Hands, ConsumerType, NEW c \in Consumers, cpc[c] = "move"
  PROVE  LET end == MoveEnd(c)
         IN  /\ end \in 0..MaxTail /\ end - loc[c].at \in Nat
             /\ loc[c].at < end /\ end <= loc[c].stop
             /\ end = loc[c].stop \/ end % BlockSize = 0
             /\ Num(end - 1) = Num(loc[c].at)
             /\ end = loc[c].stop \/ end = Base(loc[c].at) + BlockSize
<1> DEFINE at == loc[c].at  stop == loc[c].stop  n == Num(at)  end == MoveEnd(c)
<1>1. at \in 0..MaxTail /\ stop \in 0..MaxTail /\ at < stop
  BY HandLocals, HandAt DEF HandOk, Before
<1>2. /\ BlockSize \in Nat \ {0} /\ MaxTail \in Nat /\ n \in Int /\ n * BlockSize \in Int
      /\ n * BlockSize <= at /\ at < n * BlockSize + BlockSize
      /\ Base(at) = n * BlockSize
  BY <1>1, SizeAssumption, BoundsAssumption, BlockOf
<1>3. end = IF stop <= Base(at) + BlockSize THEN stop ELSE Base(at) + BlockSize
  BY <1>1, <1>2, MinPair DEF MoveEnd
<1> HIDE DEF at, stop, n, end
<1>4. at < end /\ end <= stop /\ end \in 0..MaxTail /\ end - at \in Nat
      /\ end <= n * BlockSize + BlockSize
  BY <1>1, <1>2, <1>3
<1>5. Num(end - 1) = n
  BY <1>1, <1>2, <1>4, InBlock
<1>6. end = stop \/ end = Base(at) + BlockSize
  BY <1>3
<1>7. end = Base(at) + BlockSize => end % BlockSize = 0
  <2>1. /\ (n + 1) * BlockSize = n * BlockSize + BlockSize /\ n + 1 \in Int
        /\ (n + 1) * BlockSize \in Int
    BY <1>2, Times
  <2>2. \A i, m \in Int : i = m * BlockSize => i % BlockSize = 0
    <3>1. TAKE i, m \in Int
    <3>2. HAVE i = m * BlockSize
    <3>3. m * BlockSize <= i /\ i < m * BlockSize + BlockSize /\ i - m * BlockSize = 0
      BY <1>2, <3>2
    <3>4. QED
      BY <1>2, <3>3, Quotient
  <2>3. Base(at) + BlockSize = (n + 1) * BlockSize
    BY <1>2, <2>1
  <2>4. QED
    BY <2>1, <2>2, <2>3
<1>8. QED
  BY <1>4, <1>5, <1>6, <1>7 DEF at, stop, n, end

\* After a move the consumer has yet to count what it moved.
LEMMA MoveHands ==
  ASSUME Hands, CountersType, IndexType, ConsumerType, NEW c \in Consumers, Move(c)
  PROVE  Hands' /\ ConsumerType'
<1>1. cpc[c] = "move" /\ loc[c] \in Locals
  BY HandLocals DEF Move, Goto
<1> DEFINE at == loc[c].at  stop == loc[c].stop  end == MoveEnd(c)
<1>2. /\ end \in 0..MaxTail /\ end - at \in Nat
      /\ at < end /\ end <= stop /\ Num(end - 1) = Num(at)
      /\ end = stop \/ end % BlockSize = 0
      /\ at \in Nat /\ stop \in Nat /\ stop <= headIndex
  BY <1>1, MoveRange, HandLocals, HandAt DEF HandOk
<1>3. /\ Others(c) /\ UNCHANGED <<headIndex, headers>> /\ ConsumerType'
      /\ cpc[c] = "move" /\ cpc'[c] = "empty"
      /\ value[EntryOf(c)] \in Blocks
      /\ loc'[c] = [loc[c] EXCEPT !.block = value[EntryOf(c)], !.at = end, !.want = end - at]
  BY <1>1, <1>2, MoveMoves DEF counters, index
<1>4. /\ loc'[c].at = end /\ loc'[c].want = end - at /\ loc'[c].stop = stop
      /\ loc'[c].block = value[EntryOf(c)]
      /\ loc'[c].header = loc[c].header /\ loc'[c].pos = loc[c].pos
  BY <1>1, <1>3, LocalTypes
<1> HIDE DEF at, stop, end
<1>5. end \in Nat /\ end - (end - at) = at /\ end - at <= end /\ 0 < end - at /\ 0 < end
  BY <1>2
<1>6. HandOk(cpc'[c], loc'[c], headIndex)
  BY <1>2, <1>3, <1>4, <1>5 DEF HandOk, Before, After
<1>7. PlaceOk(cpc'[c], loc'[c], headers)
  BY <1>1, <1>3, <1>4, HandAt DEF PlaceOk, After
<1>8. Span(cpc'[c], loc'[c]) = Span(cpc[c], loc[c])
  BY <1>3, <1>4, <1>5 DEF Span, at, stop
<1>9. QED
  BY <1>3, <1>6, <1>7, <1>8, HandsKept

\* What is left of a call after one of its blocks.
LEMMA AdvanceHands ==
  ASSUME Hands, CountersType, ConsumerType, NEW c \in Consumers, Others(c), Advance(c),
         cpc[c] \in After, UNCHANGED <<headIndex, headers>>
  PROVE  Hands'
<1>1. loc[c] \in Locals /\ HandOk(cpc[c], loc[c], headIndex) /\ PlaceOk(cpc[c], loc[c], headers)
  BY HandLocals, HandAt
<1>2. CASE loc[c].at = loc[c].stop
  <2>1. cpc'[c] = "idle" /\ loc'[c].at = 0 /\ loc'[c].stop = 0
    BY <1>2 DEF Advance, NoLocals
  <2>2. QED
    BY <2>1, HandsEmpty DEF Before, After
<1>3. CASE loc[c].at # loc[c].stop
  <2>1. PICK p \in 0..(Cap(loc[c].header) - 1) :
          /\ cpc'[c] = "move"
          /\ loc'[c] = [loc[c] EXCEPT !.block = None, !.want = 0, !.pos = p]
    BY <1>3 DEF Advance
  <2>2. /\ loc'[c].at = loc[c].at /\ loc'[c].stop = loc[c].stop
        /\ loc'[c].header = loc[c].header /\ loc'[c].pos = p
    BY <1>1, <2>1, LocalTypes
  <2>3. /\ loc[c].at \in Nat /\ loc[c].stop \in Nat /\ loc[c].want \in Nat
        /\ loc[c].at < loc[c].stop /\ loc[c].stop <= headIndex
    BY <1>1, <1>3, HandLocals DEF HandOk
  <2>4. HandOk(cpc'[c], loc'[c], headIndex)
    BY <2>1, <2>2, <2>3 DEF HandOk, Before, After
  <2>5. PlaceOk(cpc'[c], loc'[c], headers)
    BY <1>1, <2>1, <2>2 DEF PlaceOk, After, Cap
  <2>6. Span(cpc'[c], loc'[c]) \subseteq Span(cpc[c], loc[c])
    BY <2>1, <2>2, <2>3 DEF Span
  <2>7. QED
    BY <2>4, <2>5, <2>6, HandsKept
<1>4. QED
  BY <1>2, <1>3

\* Counting, unlinking and freeing lead on to the next block or out of the call.
LEMMA ReturnHands ==
  ASSUME Hands, CountersType, IndexType, ConsumerType, NEW c \in Consumers,
         SetManyEmpty(c) \/ Unlink(c) \/ Free(c)
  PROVE  Hands'
<1>1. PlaceInv
  BY DEF Hands
<1>2. CASE SetManyEmpty(c)
  <2>1. /\ Others(c) /\ UNCHANGED <<headIndex, headers>> /\ cpc[c] = "empty"
        /\ IF Emptied(c) THEN cpc'[c] = "unlink" /\ loc'[c] = loc[c] ELSE Advance(c)
    BY <1>1, <1>2, SetManyEmptyMoves DEF counters, index
  <2>2. CASE Emptied(c)
    <3>1. HandOk(cpc[c], loc[c], headIndex) /\ PlaceOk(cpc[c], loc[c], headers)
      BY HandAt
    <3>2. HandOk(cpc'[c], loc'[c], headIndex) /\ PlaceOk(cpc'[c], loc'[c], headers)
      BY <2>1, <2>2, <3>1 DEF HandOk, PlaceOk, Before, After
    <3>3. Span(cpc'[c], loc'[c]) \subseteq Span(cpc[c], loc[c])
      BY <2>1, <2>2, HandLocals DEF Span
    <3>4. QED
      BY <2>1, <3>2, <3>3, HandsKept
  <2>3. CASE ~Emptied(c)
    BY <2>1, <2>3, AdvanceHands DEF After
  <2>4. QED
    BY <2>2, <2>3
<1>3. CASE Unlink(c)
  <2>1. /\ Others(c) /\ UNCHANGED <<headIndex, headers, loc>>
        /\ cpc[c] = "unlink" /\ cpc'[c] = "free"
    BY <1>3, UnlinkMoves DEF counters
  <2>2. HandOk(cpc[c], loc[c], headIndex) /\ PlaceOk(cpc[c], loc[c], headers)
    BY HandAt
  <2>3. HandOk(cpc'[c], loc'[c], headIndex) /\ PlaceOk(cpc'[c], loc'[c], headers)
    BY <2>1, <2>2 DEF HandOk, PlaceOk, Before, After
  <2>4. Span(cpc'[c], loc'[c]) = Span(cpc[c], loc[c])
    BY <2>1 DEF Span
  <2>5. QED
    BY <2>1, <2>3, <2>4, HandsKept
<1>4. CASE Free(c)
  BY <1>1, <1>4, FreeMoves, AdvanceHands DEF After, counters, index
<1>5. QED
  BY <1>2, <1>3, <1>4

-----------------------------------------------------------------------------
(* The producer's steps keep the shape of the state. *)

\* The first block without an element.
LEMMA FirstBaseBounds ==
  ASSUME NEW t \in Nat
  PROVE  /\ FirstBase(t) \in Nat /\ FirstBase(t) = Num(t + BlockSize - 1) * BlockSize
         /\ t <= FirstBase(t) /\ FirstBase(t) < t + BlockSize
         /\ Num(t + BlockSize - 1) \in Nat
         /\ t % BlockSize = 0 => FirstBase(t) = t
<1> DEFINE i == t + BlockSize - 1  n == Num(i)
<1>1. BlockSize \in Nat \ {0} /\ i \in Nat
  BY SizeAssumption
<1>2. n \in Int /\ n * BlockSize \in Int /\ n * BlockSize <= i /\ i < n * BlockSize + BlockSize
      /\ Base(i) = n * BlockSize
  BY <1>1, BlockOf
<1>3. n >= 0
  BY <1>1, NumOrder
<1>4. t <= n * BlockSize /\ n * BlockSize < t + BlockSize
  <2> HIDE DEF n
  <2>1. \A m \in Int : m <= i /\ i < m + BlockSize => t <= m /\ m < t + BlockSize
    BY <1>1
  <2>2. QED
    BY <1>2, <2>1
<1>5. t % BlockSize = 0 => n * BlockSize = t
  <2>1. HAVE t % BlockSize = 0
  <2>2. t = Num(t) * BlockSize /\ Num(t) \in Int
    BY <2>1, BlockOf, SizeAssumption
  <2>3. Num(t) * BlockSize <= i /\ i < Num(t) * BlockSize + BlockSize
    BY <1>1, <2>2
  <2>4. Num(i) = Num(t)
    BY <1>1, <2>2, <2>3, InBlock
  <2>5. QED
    BY <2>2, <2>4
<1>6. FirstBase(t) = n * BlockSize
  BY <1>2 DEF FirstBase
<1>7. QED
  BY <1>2, <1>3, <1>4, <1>5, <1>6

\* The block that is inserted next comes after those of the chain.
LEMMA ChainBase ==
  ASSUME ProducerType, CountersType
  PROVE  /\ CurrentBase \in Nat /\ Len(chain) \in Nat /\ FirstBase(tailIndex) \in Nat
         /\ CurrentBase >= FirstBase(tailIndex) /\ FirstBase(tailIndex) >= tailIndex
         /\ CurrentBase = FirstBase(tailIndex) <=> chain = <<>>
         /\ chain # <<>> => CurrentBase >= FirstBase(tailIndex) + BlockSize
         /\ (Len(chain) + 1) * BlockSize = Len(chain) * BlockSize + BlockSize
         /\ FirstBase(tailIndex) < tailIndex + BlockSize /\ tailIndex \in Nat
<1>1. tailIndex \in Nat /\ Len(chain) \in Nat /\ BlockSize \in Nat \ {0}
  BY SizeAssumption DEF ProducerType, CountersType
<1>2. /\ FirstBase(tailIndex) \in Nat /\ FirstBase(tailIndex) >= tailIndex
      /\ FirstBase(tailIndex) < tailIndex + BlockSize
  BY <1>1, FirstBaseBounds
<1>3. /\ Len(chain) * BlockSize \in Nat
      /\ (Len(chain) + 1) * BlockSize = Len(chain) * BlockSize + BlockSize
      /\ Len(chain) > 0 => Len(chain) * BlockSize >= BlockSize
      /\ 0 * BlockSize = 0
  <2>1. \A k \in Nat : k * BlockSize \in Nat /\ 1 * BlockSize = BlockSize /\ 0 * BlockSize = 0
    BY <1>1
  <2>2. Len(chain) >= 1 => Len(chain) * BlockSize >= 1 * BlockSize
    BY <1>1, Times
  <2>3. QED
    BY <1>1, <2>1, <2>2, Times
<1>4. Len(chain) = 0 <=> chain = <<>>
  BY DEF ProducerType
<1>5. QED
  BY <1>1, <1>2, <1>3, <1>4 DEF CurrentBase

\* The tail of the index moves to t.
LEMMA SetTail ==
  ASSUME IndexType, NEW t \in 0..(Cap(Len(headers)) - 1)
  PROVE  LET hs == [headers EXCEPT ![Len(headers)].tail = t]
         IN  /\ hs \in Seq(Headers) /\ hs # <<>> /\ Len(hs) = Len(headers)
             /\ DOMAIN hs = DOMAIN headers
             /\ \A h \in DOMAIN headers : /\ hs[h].capacity = headers[h].capacity
                                          /\ hs[h].index = headers[h].index
             /\ hs[Len(headers)].tail = t
             /\ \A h \in DOMAIN headers : h # Len(headers) => hs[h] = headers[h]
<1> DEFINE n == Len(headers)  r == [headers[n] EXCEPT !.tail = t]
           hs == [headers EXCEPT ![n] = r]
<1>1. n \in DOMAIN headers /\ headers[n] \in Headers /\ headers \in Seq(Headers) /\ n \in Nat
  BY DEF IndexType
<1>2. r \in Headers /\ r.capacity = headers[n].capacity /\ r.index = headers[n].index /\ r.tail = t
  <2>1. /\ headers[n].capacity \in IndexSize..MaxEntries
        /\ headers[n].index \in [0..(headers[n].capacity - 1) -> 1..headers[n].capacity]
        /\ headers[n] = [capacity |-> headers[n].capacity, tail |-> headers[n].tail,
                         index |-> headers[n].index]
    BY <1>1, HeaderParts
  <2>2. r = [capacity |-> headers[n].capacity, tail |-> t, index |-> headers[n].index]
    BY <2>1
  <2>3. r \in Headers
    BY <2>1, <2>2, HeaderType DEF Cap
  <2>4. QED
    BY <2>2, <2>3
<1> HIDE DEF r
<1>3. /\ hs \in Seq(Headers) /\ hs # <<>> /\ Len(hs) = n /\ DOMAIN hs = DOMAIN headers
      /\ hs[n] = r /\ \A h \in DOMAIN headers : h # n => hs[h] = headers[h]
  BY <1>1, <1>2
<1>4. QED
  BY <1>2, <1>3 DEF r

\* Both neighbours of the tail are in the index.
LEMMA NewTailRange ==
  ASSUME IndexType
  PROVE  /\ NewTail \in 0..(Cap(Len(headers)) - 1)
         /\ (blockIndex.tail - 1) % blockIndex.capacity \in 0..(Cap(Len(headers)) - 1)
         /\ blockIndex.index[NewTail] \in Entries
         /\ blockIndex.capacity = Cap(Len(headers))
         /\ Len(headers) \in DOMAIN headers
<1>1. Len(headers) \in DOMAIN headers
  BY DEF IndexType
<1>2. /\ Cap(Len(headers)) \in Nat \ {0} /\ blockIndex.capacity = Cap(Len(headers))
      /\ blockIndex.tail \in Int
      /\ blockIndex.index \in [0..(Cap(Len(headers)) - 1) -> 1..Cap(Len(headers))]
      /\ 1..Cap(Len(headers)) \subseteq Entries
  BY <1>1, CapRange DEF blockIndex, Cap
<1>3. /\ NewTail \in 0..(Cap(Len(headers)) - 1)
      /\ (blockIndex.tail - 1) % blockIndex.capacity \in 0..(Cap(Len(headers)) - 1)
  <2>1. blockIndex.tail + 1 \in Int /\ blockIndex.tail - 1 \in Int
    BY <1>2
  <2>2. QED
    BY <1>2, <2>1, ModRange DEF NewTail
<1>4. QED
  BY <1>1, <1>2, <1>3

\* The producer's actions on its own variables.
LEMMA EnqueueShape ==
  ASSUME Shape, Enqueue \/ EnqueueBulk
  PROVE  Shape'
<1>1. /\ UNCHANGED <<counters, index, memory, tailBlock, idxEntry, newBlock, chain,
                     undone, consumer>>
      /\ ppc = "idle"
  BY DEF Enqueue, EnqueueBulk
<1>2. /\ chain = <<>> /\ undone = 0 /\ newBlock = None /\ CurrentBase = FirstBase(tailIndex)
      /\ CurrentBase \in Nat /\ tailIndex \in Nat
      /\ CurrentBase >= tailIndex
  BY <1>1, ChainBase DEF Shape, ProducerInv
<1>3. CurrentBase' = CurrentBase
  BY <1>1 DEF CurrentBase, counters
<1>4. CountersType' /\ IndexType' /\ MemoryType' /\ ConsumerType'
  BY <1>1 DEF Shape, CountersType, IndexType, MemoryType, ConsumerType, counters, index,
              memory, consumer
<1>5. CASE Enqueue
  <2>1. /\ goal' = tailIndex + 1 /\ bulk' = FALSE /\ goal' \in 0..MaxTail
        /\ ppc' = IF tailIndex % BlockSize = 0 THEN "insert" ELSE "construct"
    BY <1>2, <1>5, BoundsAssumption DEF Enqueue
  <2>2. /\ ppc' = "insert" => CurrentBase = tailIndex
        /\ ppc' = "construct" => CurrentBase >= tailIndex + 1
    <3>1. CASE tailIndex % BlockSize = 0
      BY <1>2, <2>1, <3>1, FirstBaseBounds
    <3>2. CASE tailIndex % BlockSize # 0
      <4>1. CurrentBase # tailIndex
        <5>1. CurrentBase = Num(tailIndex + BlockSize - 1) * BlockSize
              /\ Num(tailIndex + BlockSize - 1) \in Int
          BY <1>2, FirstBaseBounds
        <5>2. \A m \in Int : m * BlockSize = tailIndex => tailIndex % BlockSize = 0
          BY BlockStart
        <5>3. QED
          BY <3>2, <5>1, <5>2
      <4>2. QED
        BY <1>2, <2>1, <3>2, <4>1
    <3>3. QED
      BY <3>1, <3>2
  <2>3. ProducerType'
    BY <1>1, <2>1 DEF Shape, ProducerType, ProducerPlaces
  <2>4. ProducerInv'
    BY <1>1, <1>2, <1>3, <2>1, <2>2 DEF ProducerInv, Inserting, counters
  <2>5. QED
    BY <1>4, <2>3, <2>4 DEF Shape
<1>6. CASE EnqueueBulk
  <2>1. PICK n \in Nat \ {0} :
          /\ tailIndex + n <= MaxTail /\ goal' = tailIndex + n /\ bulk' = TRUE
          /\ ppc' = IF FirstBase(tailIndex) < tailIndex + n THEN "insert" ELSE "construct"
    BY <1>6, BulkAssumption DEF EnqueueBulk
  <2>2. goal' \in 0..MaxTail /\ tailIndex < goal'
    BY <1>2, <2>1, BoundsAssumption
  <2>3. ProducerType'
    BY <1>1, <2>1, <2>2 DEF Shape, ProducerType, ProducerPlaces
  <2>4. ProducerInv'
    BY <1>1, <1>2, <1>3, <2>1, <2>2 DEF ProducerInv, Inserting, counters
  <2>5. QED
    BY <1>4, <2>3, <2>4 DEF Shape
<1>7. QED
  BY <1>5, <1>6

\* Shape, and for each step that changes the index that no index changes its size.
LEMMA InsertShape ==
  ASSUME Shape, InsertEntry
  PROVE  Shape'
<1>1. /\ ppc = "insert" /\ ppc' = "advance" /\ idxEntry' = blockIndex.index[NewTail]
      /\ key' = [key EXCEPT ![blockIndex.index[NewTail]] = CurrentBase]
      /\ UNCHANGED <<counters, headers, value, memory, tailBlock, goal, bulk, newBlock,
                     chain, undone, consumer>>
  BY DEF InsertEntry
<1>2. blockIndex.index[NewTail] \in Entries /\ CurrentBase \in Nat /\ CurrentBase' = CurrentBase
  BY <1>1, NewTailRange, ChainBase DEF Shape, CurrentBase, counters
<1>3. CountersType' /\ IndexType' /\ MemoryType' /\ ConsumerType'
  BY <1>1, <1>2 DEF Shape, CountersType, IndexType, MemoryType, ConsumerType, counters,
                    memory, consumer
<1>4. ProducerType'
  BY <1>1, <1>2 DEF Shape, ProducerType, ProducerPlaces
<1>5. ProducerInv'
  BY <1>1, <1>2 DEF Shape, ProducerInv, Inserting, counters
<1>6. QED
  BY <1>3, <1>4, <1>5 DEF Shape

\* The tail advances.
LEMMA AdvanceTailShape ==
  ASSUME Shape, AdvanceTail
  PROVE  Shape' /\ Grown
<1>1. /\ ppc = "advance" /\ ppc' = "block"
      /\ headers' = [headers EXCEPT ![Len(headers)].tail = NewTail]
      /\ UNCHANGED <<counters, key, value, memory, tailBlock, goal, bulk, idxEntry,
                     newBlock, chain, undone, consumer>>
  BY DEF AdvanceTail
<1>2. CurrentBase' = CurrentBase
  BY <1>1 DEF CurrentBase, counters
<1>3. IndexType' /\ Grown
  BY <1>1, NewTailRange, SetTail DEF Shape, IndexType, Grown
<1>4. CountersType' /\ MemoryType' /\ ConsumerType'
  BY <1>1 DEF Shape, CountersType, MemoryType, ConsumerType, counters, memory, consumer
<1>5. ProducerType'
  BY <1>1 DEF Shape, ProducerType, ProducerPlaces
<1>6. ProducerInv'
  BY <1>1, <1>2 DEF Shape, ProducerInv, Inserting, counters
<1>7. QED
  BY <1>3, <1>4, <1>5, <1>6 DEF Shape

\* The new header, and that all old ones stay.
LEMMA NewHeader ==
  ASSUME IndexType, NewBlockIndex
  PROVE  LET old == Cap(Len(headers))
             r == [capacity |-> 2 * old, tail |-> old - 1,
                   index |-> [p \in 0..(2 * old - 1) |->
                     IF p < old THEN blockIndex.index[(NewTail + p) % old] ELSE p + 1]]
         IN  /\ headers' = Append(headers, r) /\ r \in Headers
             /\ IndexType' /\ Grown /\ Len(headers') = Len(headers) + 1
             /\ headers'[Len(headers) + 1] = r
             /\ \A h \in DOMAIN headers : headers'[h] = headers[h]
<1> DEFINE old == Cap(Len(headers))
           f == [p \in 0..(2 * old - 1) |->
                   IF p < old THEN blockIndex.index[(NewTail + p) % old] ELSE p + 1]
           r == [capacity |-> 2 * old, tail |-> old - 1, index |-> f]
<1>1. /\ headers' = Append(headers, r) /\ 2 * old <= MaxEntries
      /\ UNCHANGED <<key, value>>
  BY NewTailRange DEF NewBlockIndex, index
<1>2. /\ old \in Nat \ {0} /\ old >= IndexSize
      /\ blockIndex.index \in [0..(old - 1) -> 1..old] /\ NewTail \in 0..(old - 1)
  BY NewTailRange, CapRange DEF blockIndex
<1>3. f \in [0..(2 * old - 1) -> 1..(2 * old)]
  <2>1. ASSUME NEW p \in 0..(2 * old - 1) PROVE f[p] \in 1..(2 * old)
    <3>1. (NewTail + p) % old \in 0..(old - 1)
      <4>1. NewTail + p \in Int
        BY <1>2
      <4>2. QED
        BY <1>2, <4>1, ModRange
    <3>2. blockIndex.index[(NewTail + p) % old] \in 1..old
      BY <1>2, <3>1
    <3>3. QED
      BY <1>2, <3>2
  <2>2. QED
    BY <2>1
<1>4. r \in Headers
  <2>1. 2 * old \in IndexSize..MaxEntries /\ old - 1 \in 0..(2 * old - 1)
    BY <1>1, <1>2, SizeAssumption, BoundsAssumption
  <2> HIDE DEF f
  <2>2. QED
    BY <1>3, <2>1, HeaderType
<1> HIDE DEF r
<1>5. /\ headers' \in Seq(Headers) /\ headers' # <<>>
      /\ Len(headers') = Len(headers) + 1 /\ headers'[Len(headers) + 1] = r
      /\ \A h \in DOMAIN headers : headers'[h] = headers[h]
      /\ DOMAIN headers \subseteq DOMAIN headers'
  BY <1>1, <1>4 DEF IndexType
<1>6. IndexType' /\ Grown
  BY <1>1, <1>5 DEF IndexType, Grown
<1>7. QED
  BY <1>1, <1>4, <1>5, <1>6 DEF r

\* The index grows.
LEMMA NewBlockIndexShape ==
  ASSUME Shape, NewBlockIndex
  PROVE  Shape' /\ Grown
<1>1. UNCHANGED <<counters, memory, producer, consumer>>
  BY DEF NewBlockIndex
<1>2. CountersType' /\ MemoryType' /\ ConsumerType'
  BY <1>1 DEF Shape, CountersType, MemoryType, ConsumerType, counters, memory, consumer
<1>3. ProducerType'
  BY <1>1 DEF Shape, ProducerType, producer
<1>4. ProducerInv'
  <2>1. CurrentBase' = CurrentBase
    BY <1>1 DEF CurrentBase, counters, producer
  <2>2. QED
    BY <1>1, <2>1 DEF Shape, ProducerInv, producer, counters
<1>5. QED
  BY <1>2, <1>3, <1>4, NewHeader DEF Shape

\* A single enqueue has not published a block before it fails.
LEMMA NoIndexShape ==
  ASSUME Shape, NoIndex
  PROVE  Shape'
<1>1. /\ ppc = "insert"
      /\ UNCHANGED <<counters, index, memory, tailBlock, idxEntry, newBlock, chain,
                     undone, consumer>>
  BY DEF NoIndex
<1>2. CountersType' /\ IndexType' /\ MemoryType' /\ ConsumerType' /\ CurrentBase' = CurrentBase
  BY <1>1 DEF Shape, CountersType, IndexType, MemoryType, ConsumerType, counters, index,
              memory, consumer, CurrentBase
<1>3. CASE bulk
  <2>1. ppc' = "undo" /\ goal' = goal /\ bulk' = bulk
    BY <1>3 DEF NoIndex
  <2>2. QED
    BY <1>1, <1>2, <2>1 DEF Shape, ProducerType, ProducerPlaces, ProducerInv, Inserting, counters
<1>4. CASE ~bulk
  <2>1. ppc' = "idle" /\ goal' = 0 /\ bulk' = FALSE
    BY <1>4 DEF NoIndex, EndCall
  <2>2. chain = <<>>
    <3>1. goal = tailIndex + 1 /\ CurrentBase < goal
      BY <1>1, <1>4 DEF Shape, ProducerInv, Inserting
    <3>2. QED
      BY <3>1, ChainBase, SizeAssumption DEF Shape
  <2>3. ProducerType'
    <3>1. goal' \in 0..MaxTail
      BY <2>1, BoundsAssumption
    <3>2. QED
      BY <1>1, <2>1, <3>1 DEF Shape, ProducerType, ProducerPlaces
  <2>4. ProducerInv'
    BY <1>1, <2>1, <2>2 DEF Shape, ProducerInv, Inserting, counters
  <2>5. QED
    BY <1>2, <2>3, <2>4 DEF Shape
<1>5. QED
  BY <1>3, <1>4

\* A block comes from the pool.
LEMMA RequisitionShape ==
  ASSUME Shape, Requisition
  PROVE  Shape'
<1>1. PICK b \in free :
        /\ ppc = "block" /\ ppc' = "publish" /\ newBlock' = b /\ free' = free \ {b}
        /\ completed' = [completed EXCEPT ![b] = 0]
        /\ UNCHANGED <<counters, index, elements, tailBlock, goal, bulk, idxEntry,
                       chain, undone, consumer>>
  BY DEF Requisition
<1>2. /\ CountersType' /\ IndexType' /\ MemoryType' /\ ConsumerType'
      /\ CurrentBase' = CurrentBase
  BY <1>1 DEF Shape, CountersType, IndexType, MemoryType, ConsumerType, counters, index,
              consumer, CurrentBase
<1>3. b \in Blocks /\ b # None
  BY BlocksAssumption DEF Shape, MemoryType
<1>4. ProducerType'
  BY <1>1, <1>3 DEF Shape, ProducerType, ProducerPlaces
<1>5. ProducerInv'
  BY <1>1, <1>2, <1>3 DEF Shape, ProducerInv, Inserting, counters
<1>6. QED
  BY <1>2, <1>4, <1>5 DEF Shape

\* There is none.
LEMMA NoBlockShape ==
  ASSUME Shape, NoBlock
  PROVE  Shape' /\ Grown
<1>1. /\ ppc = "block" /\ idxEntry' = 0
      /\ headers' = [headers EXCEPT ![Len(headers)].tail =
                       (blockIndex.tail - 1) % blockIndex.capacity]
      /\ value' = [value EXCEPT ![idxEntry] = None]
      /\ UNCHANGED <<counters, key, memory, tailBlock, newBlock, chain, undone, consumer>>
  BY DEF NoBlock, RewindTail, blockIndex
<1>2. IndexType' /\ Grown
  BY <1>1, NewTailRange, SetTail DEF Shape, IndexType, Grown
<1>3. CountersType' /\ MemoryType' /\ ConsumerType' /\ CurrentBase' = CurrentBase
  BY <1>1 DEF Shape, CountersType, MemoryType, ConsumerType, counters, memory, consumer,
              CurrentBase
<1>4. CASE bulk
  <2>1. ppc' = "undo" /\ goal' = goal /\ bulk' = bulk
    BY <1>4 DEF NoBlock
  <2>2. QED
    BY <1>1, <1>2, <1>3, <2>1 DEF Shape, ProducerType, ProducerPlaces, ProducerInv,
                                  Inserting, counters
<1>5. CASE ~bulk
  <2>1. ppc' = "idle" /\ goal' = 0 /\ bulk' = FALSE
    BY <1>5 DEF NoBlock, EndCall
  <2>2. chain = <<>>
    <3>1. goal = tailIndex + 1 /\ CurrentBase < goal
      BY <1>1, <1>5 DEF Shape, ProducerInv, Inserting
    <3>2. QED
      BY <3>1, ChainBase, SizeAssumption DEF Shape
  <2>3. ProducerType'
    <3>1. goal' \in 0..MaxTail
      BY <2>1, BoundsAssumption
    <3>2. QED
      BY <1>1, <2>1, <3>1 DEF Shape, ProducerType, ProducerPlaces
  <2>4. ProducerInv'
    BY <1>1, <2>1, <2>2 DEF Shape, ProducerInv, Inserting, counters
  <2>5. QED
    BY <1>2, <1>3, <2>3, <2>4 DEF Shape
<1>6. QED
  BY <1>4, <1>5

\* The block is in the index.
LEMMA PublishShape ==
  ASSUME Shape, Publish
  PROVE  Shape'
<1>1. /\ ppc = "publish" /\ idxEntry' = 0 /\ newBlock' = None
      /\ value' = [value EXCEPT ![idxEntry] = newBlock]
      /\ chain' = Append(chain, newBlock)
      /\ ppc' = IF CurrentBase + BlockSize < goal THEN "insert" ELSE "construct"
      /\ UNCHANGED <<counters, headers, key, memory, tailBlock, goal, bulk, undone, consumer>>
  BY DEF Publish
<1>2. newBlock \in Blocks /\ undone = 0 /\ tailIndex < goal /\ (bulk \/ goal = tailIndex + 1)
      /\ CurrentBase < goal /\ goal \in Nat
  BY <1>1 DEF Shape, ProducerInv, ProducerType, Inserting
<1>3. /\ chain' \in Seq(Blocks) /\ Len(chain') = Len(chain) + 1 /\ chain' # <<>>
      /\ Len(chain) \in Nat
  BY <1>1, <1>2 DEF Shape, ProducerType
<1>4. CurrentBase' = CurrentBase + BlockSize
  <2>1. CurrentBase' = FirstBase(tailIndex) + (Len(chain) + 1) * BlockSize
    BY <1>1, <1>3 DEF CurrentBase, counters
  <2>2. (Len(chain) + 1) * BlockSize = Len(chain) * BlockSize + BlockSize
    BY ChainBase DEF Shape
  <2>3. FirstBase(tailIndex) \in Int /\ Len(chain) * BlockSize \in Int /\ BlockSize \in Int
    <3>1. \A k \in Nat : k * BlockSize \in Int
      BY SizeAssumption
    <3>2. QED
      BY <1>3, <3>1, ChainBase, SizeAssumption DEF Shape
  <2>4. PICK x \in Int, y \in Int : x = FirstBase(tailIndex) /\ y = Len(chain) * BlockSize
    BY <2>3
  <2>5. CurrentBase' = x + (y + BlockSize) /\ CurrentBase = x + y
    BY <2>1, <2>2, <2>4, Zenon DEF CurrentBase
  <2>6. QED
    BY <2>3, <2>5
<1>5. CountersType' /\ IndexType' /\ MemoryType' /\ ConsumerType'
  BY <1>1, <1>2 DEF Shape, CountersType, IndexType, MemoryType, ConsumerType, counters,
                    memory, consumer
<1>6. ProducerType'
  BY <1>1, <1>2, <1>3 DEF Shape, ProducerType, ProducerPlaces
<1>7. ProducerInv'
  <2>1. CurrentBase \in Nat /\ BlockSize \in Nat
    BY ChainBase, SizeAssumption DEF Shape
  <2>2. CurrentBase' - BlockSize < goal'
    BY <1>1, <1>2, <1>4, <2>1
  <2>3. ppc' = "insert" => CurrentBase' < goal'
    BY <1>1, <1>4
  <2>4. ppc' = "construct" => CurrentBase' >= goal'
    BY <1>1, <1>2, <1>4, <2>1
  <2>5. QED
    BY <1>1, <1>2, <2>2, <2>3, <2>4 DEF ProducerInv, Inserting, counters
<1>8. QED
  BY <1>5, <1>6, <1>7 DEF Shape

\* A block is out of it again.
LEMMA UndoShape ==
  ASSUME Shape, Undo
  PROVE  Shape' /\ Grown
<1>1. /\ ppc = "undo" /\ undone < Len(chain) /\ undone' = undone + 1
      /\ headers' = [headers EXCEPT ![Len(headers)].tail =
                       (blockIndex.tail - 1) % blockIndex.capacity]
      /\ \E e : value' = [value EXCEPT ![e] = None]
      /\ UNCHANGED <<counters, key, memory, tailBlock, ppc, goal, bulk, idxEntry,
                     newBlock, chain, consumer>>
  BY DEF Undo, RewindTail, blockIndex
<1>2. value' \in [Entries -> Blocks \cup {None, Junk}]
  BY <1>1 DEF Shape, IndexType
<1>3. IndexType' /\ Grown
  BY <1>1, <1>2, NewTailRange, SetTail DEF Shape, IndexType, Grown
<1>4. CountersType' /\ MemoryType' /\ ConsumerType'
  BY <1>1 DEF Shape, CountersType, MemoryType, ConsumerType, counters, memory, consumer
<1>5. ProducerType'
  BY <1>1 DEF Shape, ProducerType, ProducerPlaces
<1>6. ProducerInv'
  BY <1>1 DEF Shape, ProducerInv, Inserting, counters
<1>7. QED
  BY <1>3, <1>4, <1>5, <1>6 DEF Shape

\* The blocks of a failed call go back.
LEMMA GiveBackShape ==
  ASSUME Shape, GiveBack
  PROVE  Shape'
<1>1. /\ ppc = "undo" /\ free' = free \cup {chain[i] : i \in DOMAIN chain}
      /\ chain' = <<>> /\ undone' = 0 /\ ppc' = "idle" /\ goal' = 0 /\ bulk' = FALSE
      /\ UNCHANGED <<counters, index, elements, completed, tailBlock, idxEntry,
                     newBlock, consumer>>
  BY DEF GiveBack, EndCall
<1>2. CountersType' /\ IndexType' /\ MemoryType' /\ ConsumerType'
  BY <1>1 DEF Shape, CountersType, IndexType, MemoryType, ConsumerType, ProducerType,
              counters, index, consumer
<1>3. ProducerType'
  <2>1. goal' \in 0..MaxTail /\ chain' \in Seq(Blocks) /\ undone' \in 0..Len(chain')
    BY <1>1, BoundsAssumption
  <2>2. QED
    BY <1>1, <2>1 DEF Shape, ProducerType, ProducerPlaces
<1>4. ProducerInv'
  BY <1>1 DEF Shape, ProducerInv, Inserting
<1>5. QED
  BY <1>2, <1>3, <1>4 DEF Shape

\* The elements are constructed ...
LEMMA ConstructShape ==
  ASSUME Shape, Construct
  PROVE  Shape'
<1>1. /\ ppc = "construct" /\ ppc' = "commit"
      /\ tailBlock' = IF chain = <<>> THEN tailBlock ELSE chain[Len(chain)]
      /\ UNCHANGED <<counters, index, completed, free, goal, bulk, idxEntry, newBlock,
                     chain, undone, consumer>>
  BY DEF Construct
<1>2. elements' \in [Blocks -> [Slots -> 0..MaxTail \cup {Gone}]]
  <2> DEFINE Mine(b, s) == {i \in tailIndex..(goal - 1) : Target(i) = b /\ i % BlockSize = s}
             New(b, s) == IF Mine(b, s) = {} THEN elements[b][s]
                          ELSE CHOOSE i \in Mine(b, s) : TRUE
  <2>1. elements' = [b \in Blocks |-> [s \in Slots |-> New(b, s)]]
    BY DEF Construct
  <2>2. ASSUME NEW b \in Blocks, NEW s \in Slots
        PROVE  New(b, s) \in 0..MaxTail \cup {Gone}
    <3>1. CASE Mine(b, s) = {}
      BY <3>1 DEF Shape, MemoryType
    <3>2. CASE Mine(b, s) # {}
      <4>1. New(b, s) \in Mine(b, s)
        BY <3>2
      <4>2. Mine(b, s) \subseteq 0..MaxTail
        BY BoundsAssumption DEF Shape, CountersType, ProducerType
      <4>3. QED
        BY <4>1, <4>2
    <3>3. QED
      BY <3>1, <3>2
  <2> HIDE DEF New
  <2>3. QED
    BY <2>1, <2>2
<1>3. CountersType' /\ IndexType' /\ MemoryType' /\ ConsumerType' /\ CurrentBase' = CurrentBase
  BY <1>1, <1>2 DEF Shape, CountersType, IndexType, MemoryType, ConsumerType, counters,
                    index, consumer, CurrentBase
<1>4. tailBlock' \in Blocks \cup {None}
  <2>1. chain # <<>> => chain[Len(chain)] \in Blocks
    BY DEF Shape, ProducerType
  <2>2. QED
    BY <1>1, <2>1 DEF Shape, ProducerType
<1>5. ProducerType'
  BY <1>1, <1>4 DEF Shape, ProducerType, ProducerPlaces
<1>6. ProducerInv'
  BY <1>1, <1>3 DEF Shape, ProducerInv, Inserting, counters
<1>7. QED
  BY <1>3, <1>5, <1>6 DEF Shape

\* ... and there.
LEMMA CommitShape ==
  ASSUME Shape, Commit
  PROVE  Shape'
<1>1. /\ ppc = "commit" /\ tailIndex' = goal /\ chain' = <<>>
      /\ ppc' = "idle" /\ goal' = 0 /\ bulk' = FALSE
      /\ UNCHANGED <<headIndex, dequeueOptimisticCount, dequeueOvercommit, index,
                     memory, tailBlock, idxEntry, newBlock, undone, consumer>>
  BY DEF Commit, EndCall
<1>2. tailIndex < goal /\ undone = 0 /\ newBlock = None
  BY <1>1 DEF Shape, ProducerInv
<1>3. CountersType'
  BY <1>1, <1>2, BoundsAssumption DEF Shape, CountersType, ProducerType
<1>4. IndexType' /\ MemoryType' /\ ConsumerType'
  BY <1>1 DEF Shape, IndexType, MemoryType, ConsumerType, index, memory, consumer
<1>5. ProducerType'
  <2>1. goal' \in 0..MaxTail /\ chain' \in Seq(Blocks) /\ undone' \in 0..Len(chain')
    BY <1>1, <1>2, BoundsAssumption
  <2>2. QED
    BY <1>1, <2>1 DEF Shape, ProducerType, ProducerPlaces
<1>6. ProducerInv'
  BY <1>1, <1>2 DEF ProducerInv, Inserting
<1>7. QED
  BY <1>3, <1>4, <1>5, <1>6 DEF Shape

-----------------------------------------------------------------------------
(* Frame is inductive. *)

\* Nobody else touches the producer's variables.
LEMMA ProducerKeeps ==
  ASSUME Shape, UNCHANGED producer, UNCHANGED tailIndex
  PROVE  ProducerType' /\ ProducerInv'
<1>1. CurrentBase' = CurrentBase
  BY DEF CurrentBase, producer
<1>2. QED
  BY <1>1 DEF Shape, ProducerType, ProducerInv, producer

\* The steps of a consumer that claims keep Frame ...
LEMMA ClaimingShape ==
  ASSUME Frame, NEW c \in Consumers,
         Dequeue(c) \/ DequeueBulk(c) \/ Check(c) \/ Claim(c) \/ Reload(c)
           \/ GiveBackClaim(c) \/ Take(c)
  PROVE  Shape' /\ Claims' /\ Hands'
<1>1. CountersType /\ ConsumerType /\ ClaimInv
  BY DEF Frame, Shape, Claims
<1>2. ASSUME UNCHANGED <<tailIndex, index, memory, producer>>, CountersType', ConsumerType'
      PROVE  Shape'
  BY <1>2, ProducerKeeps DEF Frame, Shape, IndexType, MemoryType, index, memory
<1>3. CASE Dequeue(c) \/ DequeueBulk(c)
  <2>1. UNCHANGED <<counters, index, memory, producer>> /\ ConsumerType'
    BY <1>1, <1>3, DequeueMoves
  <2>2. CountersType'
    BY <1>1, <2>1 DEF CountersType, counters
  <2>3. QED
    BY <1>1, <1>2, <1>3, <2>1, <2>2, DequeueClaims, ClaimingHands DEF Frame, counters
<1>4. CASE Check(c)
  <2>1. UNCHANGED <<counters, index, memory, producer>> /\ ConsumerType'
    BY <1>1, <1>4, CheckMoves
  <2>2. CountersType'
    BY <1>1, <2>1 DEF CountersType, counters
  <2>3. QED
    BY <1>1, <1>2, <1>4, <2>1, <2>2, CheckClaims, ClaimingHands DEF Frame, counters
<1>5. CASE Claim(c)
  BY <1>1, <1>2, <1>5, ClaimMoves, ClaimClaims, ClaimingHands DEF Frame
<1>6. CASE Reload(c)
  <2>1. UNCHANGED <<counters, index, memory, producer>> /\ ConsumerType'
    BY <1>1, <1>6, ReloadMoves
  <2>2. CountersType'
    BY <1>1, <2>1 DEF CountersType, counters
  <2>3. QED
    BY <1>1, <1>2, <1>6, <2>1, <2>2, ReloadClaims, ClaimingHands DEF Frame, counters
<1>7. CASE GiveBackClaim(c)
  BY <1>1, <1>2, <1>7, GiveBackMoves, GiveBackClaims, ClaimingHands DEF Frame
<1>8. CASE Take(c)
  <2>1. headIndex + loc[c].want <= tailIndex
    BY <1>1, <1>8, TakeThere DEF Take, Goto, Frame
  <2>2. QED
    BY <1>1, <1>2, <1>8, <2>1, TakeMoves, TakeClaims, TakeHands DEF Frame
<1>9. QED
  BY <1>3, <1>4, <1>5, <1>6, <1>7, <1>8

\* From the index on, a consumer's steps touch no counter.
LEMMA HoldingClaims ==
  ASSUME Frame, NEW c \in Consumers, Others(c), UNCHANGED counters, ConsumerType',
         cpc[c] \notin Claiming, cpc'[c] \notin Claiming,
         cpc'[c] = "idle" => loc'[c] = NoLocals
  PROVE  Claims' /\ CountersType'
<1>1. \A d \in Consumers :
        \/ cpc'[d] = cpc[d] /\ loc'[d] = loc[d]
        \/ /\ cpc[d] \notin Claiming /\ cpc'[d] \notin Claiming
           /\ cpc'[d] = "idle" => loc'[d].owe = 0
  BY DEF Others, NoLocals
<1>2. tailIndex' \in Nat /\ tailIndex' >= tailIndex
  BY DEF Frame, Shape, CountersType, counters
<1>3. CountersType'
  BY DEF Frame, Shape, CountersType, counters
<1>4. QED
  BY <1>1, <1>2, <1>3, ClaimsFrame DEF Frame, Shape, counters

\* ... and so do those of one that holds elements.
LEMMA HoldingShape ==
  ASSUME Frame, NEW c \in Consumers,
         LoadIndex(c) \/ LoadKey(c) \/ Move(c) \/ SetManyEmpty(c) \/ Unlink(c) \/ Free(c)
  PROVE  Shape' /\ Claims' /\ Hands'
<1>1. CountersType /\ ConsumerType /\ IndexType /\ MemoryType /\ PlaceInv /\ Hands /\ Shape
  BY DEF Frame, Shape, Hands
<1>2. CASE LoadIndex(c)
  <2>1. /\ Others(c) /\ UNCHANGED <<counters, index, memory, producer>> /\ ConsumerType'
        /\ cpc[c] = "index" /\ cpc'[c] = "key"
    BY <1>1, <1>2, LoadIndexMoves
  <2>2. Claims' /\ CountersType'
    BY <2>1, HoldingClaims DEF Claiming
  <2>3. Hands'
    BY <1>1, <1>2, LookupHands
  <2>4. Shape'
    BY <1>1, <2>1, <2>2, ProducerKeeps DEF Shape, IndexType, MemoryType, index, memory, counters
  <2>5. QED
    BY <2>2, <2>3, <2>4
<1>3. CASE LoadKey(c)
  <2>1. /\ Others(c) /\ UNCHANGED <<counters, index, memory, producer>> /\ ConsumerType'
        /\ cpc[c] = "key" /\ cpc'[c] = "move"
    BY <1>1, <1>3, LoadKeyMoves
  <2>2. Claims' /\ CountersType'
    BY <2>1, HoldingClaims DEF Claiming
  <2>3. Hands'
    BY <1>1, <1>3, LookupHands
  <2>4. Shape'
    BY <1>1, <2>1, <2>2, ProducerKeeps DEF Shape, IndexType, MemoryType, index, memory, counters
  <2>5. QED
    BY <2>2, <2>3, <2>4
<1>4. CASE Move(c)
  <2>1. cpc[c] = "move"
    BY <1>4 DEF Move, Goto
  <2>2. MoveEnd(c) \in 0..MaxTail /\ MoveEnd(c) - loc[c].at \in Nat
    BY <1>1, <2>1, MoveRange
  <2>3. /\ Others(c) /\ UNCHANGED <<counters, index, completed, free, producer>>
        /\ cpc'[c] = "empty" /\ value[EntryOf(c)] \in Blocks /\ ConsumerType'
        /\ elements' = [elements EXCEPT ![value[EntryOf(c)]] =
              [s \in Slots |-> IF s \in MoveSlots(c) THEN Gone ELSE @[s]]]
    BY <1>1, <1>4, <2>2, MoveMoves
  <2>4. Claims' /\ CountersType'
    BY <2>1, <2>3, HoldingClaims DEF Claiming
  <2>5. Hands'
    BY <1>1, <1>4, MoveHands
  <2>6. MemoryType'
    <3>1. [s \in Slots |-> IF s \in MoveSlots(c) THEN Gone
                           ELSE elements[value[EntryOf(c)]][s]]
            \in [Slots -> 0..MaxTail \cup {Gone}]
      BY <1>1, <2>3 DEF MemoryType
    <3>2. QED
      BY <1>1, <2>3, <3>1 DEF MemoryType
  <2>7. Shape'
    BY <1>1, <2>3, <2>4, <2>6, ProducerKeeps DEF Shape, IndexType, index, counters
  <2>8. QED
    BY <2>4, <2>5, <2>7
<1>5. CASE SetManyEmpty(c)
  <2>1. /\ Others(c) /\ UNCHANGED <<counters, index, elements, free, producer>>
        /\ cpc[c] = "empty" /\ ConsumerType'
        /\ completed' = [completed EXCEPT ![loc[c].block] = @ + loc[c].want]
        /\ IF Emptied(c) THEN cpc'[c] = "unlink" ELSE Advance(c)
    BY <1>1, <1>5, SetManyEmptyMoves
  <2>2. cpc'[c] \notin Claiming /\ (cpc'[c] = "idle" => loc'[c] = NoLocals)
    BY <2>1 DEF Claiming, Advance
  <2>3. Claims' /\ CountersType'
    BY <2>1, <2>2, HoldingClaims DEF Claiming
  <2>4. Hands'
    BY <1>1, <1>5, ReturnHands
  <2>5. MemoryType'
    <3>1. loc[c].want \in Nat /\ loc[c].block \in Blocks
      BY <1>1, <2>1, HandLocals DEF PlaceInv, PlaceOk, After
    <3>2. completed[loc[c].block] + loc[c].want \in Nat
      BY <1>1, <3>1 DEF MemoryType
    <3>3. QED
      BY <1>1, <2>1, <3>2 DEF MemoryType
  <2>6. Shape'
    BY <1>1, <2>1, <2>3, <2>5, ProducerKeeps DEF Shape, IndexType, index, counters
  <2>7. QED
    BY <2>3, <2>4, <2>6
<1>6. CASE Unlink(c)
  <2>1. /\ Others(c) /\ UNCHANGED <<counters, headers, key, memory, producer>>
        /\ cpc[c] = "unlink" /\ cpc'[c] = "free" /\ ConsumerType'
        /\ value' = [value EXCEPT ![EntryOf(c)] = None]
    BY <1>1, <1>6, UnlinkMoves
  <2>2. Claims' /\ CountersType'
    BY <2>1, HoldingClaims DEF Claiming
  <2>3. Hands'
    BY <1>1, <1>6, ReturnHands
  <2>4. IndexType' /\ MemoryType'
    BY <1>1, <2>1 DEF IndexType, MemoryType, memory
  <2>5. Shape'
    BY <1>1, <2>1, <2>2, <2>4, ProducerKeeps DEF Shape, counters
  <2>6. QED
    BY <2>2, <2>3, <2>5
<1>7. CASE Free(c)
  <2>1. /\ Others(c) /\ UNCHANGED <<counters, index, elements, completed, producer>>
        /\ cpc[c] = "free" /\ Advance(c) /\ ConsumerType'
        /\ free' = free \cup {loc[c].block}
    BY <1>1, <1>7, FreeMoves
  <2>2. cpc'[c] \notin Claiming /\ (cpc'[c] = "idle" => loc'[c] = NoLocals)
    BY <2>1 DEF Claiming, Advance
  <2>3. Claims' /\ CountersType'
    BY <2>1, <2>2, HoldingClaims DEF Claiming
  <2>4. Hands'
    BY <1>1, <1>7, ReturnHands
  <2>5. loc[c].block \in Blocks
    BY <1>1, <2>1 DEF PlaceInv, PlaceOk, After
  <2>6. MemoryType'
    BY <1>1, <2>1, <2>5 DEF MemoryType
  <2>7. Shape'
    BY <1>1, <2>1, <2>3, <2>6, ProducerKeeps DEF Shape, IndexType, index, counters
  <2>8. QED
    BY <2>3, <2>4, <2>7
<1>8. QED
  BY <1>2, <1>3, <1>4, <1>5, <1>6, <1>7

\* Nor do the producer's, but for tailIndex, which only grows.
LEMMA ProducerShape ==
  ASSUME Frame, Enqueue \/ EnqueueBulk \/ ProducerStep
  PROVE  Shape' /\ Claims' /\ Hands'
<1>1. Shape /\ CountersType /\ ConsumerType /\ Hands /\ Claims
  BY DEF Frame, Shape
<1>2. /\ UNCHANGED <<headIndex, dequeueOptimisticCount, dequeueOvercommit, consumer>>
      /\ tailIndex' \in Nat /\ tailIndex' >= tailIndex
  <2>1. CASE Commit
    BY <1>1, <2>1 DEF Commit, Shape, ProducerInv, ProducerType, CountersType
  <2>2. CASE ~Commit
    <3>1. UNCHANGED <<counters, consumer>>
      BY <2>2 DEF ProducerStep, Enqueue, EnqueueBulk, InsertEntry, AdvanceTail,
                  NewBlockIndex, NoIndex, Requisition, NoBlock, Publish, Undo, GiveBack, Construct
    <3>2. QED
      BY <1>1, <3>1 DEF counters, CountersType
  <2>3. QED
    BY <2>1, <2>2
<1>3. Shape' /\ Grown
  <2>1. ASSUME UNCHANGED headers PROVE Grown
    BY <2>1 DEF Grown
  <2>2. CASE Enqueue \/ EnqueueBulk
    BY <1>1, <2>1, <2>2, EnqueueShape DEF Enqueue, EnqueueBulk, index
  <2>3. CASE InsertEntry
    BY <1>1, <2>1, <2>3, InsertShape DEF InsertEntry
  <2>4. CASE AdvanceTail
    BY <1>1, <2>4, AdvanceTailShape
  <2>5. CASE NewBlockIndex
    BY <1>1, <2>5, NewBlockIndexShape
  <2>6. CASE NoIndex
    BY <1>1, <2>1, <2>6, NoIndexShape DEF NoIndex, index
  <2>7. CASE Requisition
    BY <1>1, <2>1, <2>7, RequisitionShape DEF Requisition, index
  <2>8. CASE NoBlock
    BY <1>1, <2>8, NoBlockShape
  <2>9. CASE Publish
    BY <1>1, <2>1, <2>9, PublishShape DEF Publish
  <2>10. CASE Undo
    BY <1>1, <2>10, UndoShape
  <2>11. CASE GiveBack
    BY <1>1, <2>1, <2>11, GiveBackShape DEF GiveBack, index
  <2>12. CASE Construct
    BY <1>1, <2>1, <2>12, ConstructShape DEF Construct, index
  <2>13. CASE Commit
    BY <1>1, <2>1, <2>13, CommitShape DEF Commit, index
  <2>14. QED
    BY <2>2, <2>3, <2>4, <2>5, <2>6, <2>7, <2>8, <2>9, <2>10, <2>11, <2>12, <2>13
    DEF ProducerStep
<1>4. Hands'
  BY <1>1, <1>2, <1>3, HandsFrame DEF consumer
<1>5. Claims'
  BY <1>1, <1>2, <1>3, ClaimsFrame DEF consumer, Shape
<1>6. QED
  BY <1>3, <1>4, <1>5

\* Frame is inductive.
LEMMA FrameStep ==
  Frame /\ [Next]_vars => Frame'
<1> SUFFICES ASSUME Frame, [Next]_vars PROVE Frame'
  OBVIOUS
<1>1. CASE Enqueue \/ EnqueueBulk \/ ProducerStep
  BY <1>1, ProducerShape DEF Frame
<1>2. CASE \E c \in Consumers : Dequeue(c) \/ DequeueBulk(c) \/ ConsumerStep(c)
  BY <1>2, ClaimingShape, HoldingShape DEF Frame, ConsumerStep
<1>3. CASE UNCHANGED vars
  <2>1. /\ UNCHANGED <<headIndex, dequeueOptimisticCount, dequeueOvercommit, tailIndex>>
        /\ UNCHANGED <<counters, index, memory, producer, consumer, headers, cpc, loc>>
    BY <1>3 DEF vars, counters, index, consumer
  <2>2. Shape'
    <3>1. CountersType' /\ IndexType' /\ MemoryType' /\ ConsumerType'
      BY <2>1 DEF Frame, Shape, CountersType, IndexType, MemoryType, ConsumerType, counters,
                  index, memory, consumer
    <3>2. QED
      BY <2>1, <3>1, ProducerKeeps DEF Frame, Shape
  <2>3. Grown
    BY <2>1 DEF Grown
  <2>4. Hands'
    BY <2>1, <2>3, HandsFrame DEF Frame, Shape
  <2>5. Claims'
    <3>1. tailIndex' \in Nat /\ tailIndex' >= tailIndex
      BY <2>1 DEF Frame, Shape, CountersType
    <3>2. QED
      BY <2>1, <2>2, <3>1, ClaimsFrame DEF Frame, Shape
  <2>6. QED
    BY <2>2, <2>4, <2>5 DEF Frame
<1>4. QED
  BY <1>1, <1>2, <1>3 DEF Next

\* It holds at the beginning.
LEMMA FrameInit ==
  Init => Frame
<1> SUFFICES ASSUME Init PROVE Frame
  OBVIOUS
<1>1. CountersType
  BY BoundsAssumption DEF Init, CountersType
<1>2. ConsumerType /\ \A c \in Consumers : cpc[c] = "idle" /\ loc[c] = NoLocals
  BY BoundsAssumption DEF Init, ConsumerType, ConsumerPlaces, NoLocals, Locals
<1>3. IndexType
  <2> DEFINE f == [p \in 0..(IndexSize - 1) |-> p + 1]
  <2>1. f \in [0..(IndexSize - 1) -> 1..IndexSize]
    BY SizeAssumption
  <2> HIDE DEF f
  <2>2. IndexSize \in IndexSize..MaxEntries /\ IndexSize - 1 \in 0..(IndexSize - 1)
    BY SizeAssumption, BoundsAssumption
  <2>3. [capacity |-> IndexSize, tail |-> IndexSize - 1, index |-> f] \in Headers
    BY <2>1, <2>2, HeaderType
  <2>4. headers \in Seq(Headers) /\ headers # <<>>
    BY <2>3 DEF Init, f
  <2>5. QED
    BY <2>4 DEF Init, IndexType, INVALID_BLOCK_BASE
<1>4. MemoryType
  BY DEF Init, MemoryType
<1>5. ProducerType
  <2>1. 0 \in 0..MaxTail /\ <<>> \in Seq(Blocks) /\ 0 \in 0..Len(<<>>)
    BY BoundsAssumption
  <2>2. QED
    BY <2>1 DEF Init, ProducerType, ProducerPlaces
<1>6. ProducerInv
  BY DEF Init, ProducerInv, Inserting
<1>7. Hands
  <2>1. NoLocals.at = 0 /\ NoLocals.stop = 0 /\ headIndex = 0
    BY DEF NoLocals, Init
  <2>2. HandInv /\ PlaceInv
    BY <1>2, <2>1 DEF HandInv, HandOk, PlaceInv, PlaceOk, Before, After
  <2>3. HandsApart
    BY <1>2, <2>1 DEF HandsApart, Uncounted, Span
  <2>4. QED
    BY <2>2, <2>3 DEF Hands
<1>8. Claims
  <2>1. ClaimInv /\ Tickets /\ Covered
    BY <1>2 DEF ClaimInv, ClaimOk, Tickets, Covered, NoLocals
  <2>2. \A c \in Consumers : [d \in Consumers |-> Pending(d)][c] = 0
                             /\ [d \in Consumers |-> Granted(d)][c] = 0
    BY <1>2 DEF Pending, Granted
  <2>3. Sum([d \in Consumers |-> Pending(d)]) = 0 /\ Sum([d \in Consumers |-> Granted(d)]) = 0
    BY <2>2, SumLaws
  <2>4. Accounting
    BY <2>3 DEF Accounting, Init
  <2>5. QED
    BY <2>1, <2>4 DEF Claims
<1>9. QED
  BY <1>1, <1>2, <1>3, <1>4, <1>5, <1>6, <1>7, <1>8 DEF Frame, Shape

\* Optimistic count and overcommit differ by what was taken and what is being claimed,
\* and no more is granted than is there, however the claims of any number of consumers
\* overlap (concurrentqueue.h:2536, 2726).
THEOREM ClaimsAccounted ==
  Spec => []Accounting
<1>1. Spec => []Frame
  BY FrameInit, FrameStep, PTL DEF Spec
<1>2. Frame => Accounting
  BY DEF Frame, Claims
<1>3. QED
  BY <1>1, <1>2, PTL

-----------------------------------------------------------------------------
(* Numbers of blocks, entries of the index. *)

\* Numbers of blocks.
LEMMA BlockNumbers ==
  ASSUME Shape
  PROVE  /\ Fill \in Nat /\ NextNumber \in Nat /\ Placed \in Nat /\ Len(chain) \in Nat
         /\ undone \in 0..Len(chain) /\ tailIndex \in Nat /\ headIndex \in Nat
         /\ headIndex <= tailIndex /\ BlockSize \in Nat \ {0, 1}
         /\ Fill * BlockSize \in Nat /\ tailIndex <= Fill * BlockSize
         /\ Fill * BlockSize < tailIndex + BlockSize
         /\ FirstBase(tailIndex) = Fill * BlockSize
         /\ CurrentBase = NextNumber * BlockSize
         /\ Fill <= NextNumber /\ Fill <= Placed /\ NextNumber = Fill + Len(chain)
         /\ Published \subseteq Nat /\ \A n \in Published : n < NextNumber
<1>1. /\ Len(chain) \in Nat /\ undone \in 0..Len(chain) /\ tailIndex \in Nat
      /\ headIndex \in Nat /\ headIndex <= tailIndex /\ BlockSize \in Nat \ {0, 1}
  BY SizeAssumption DEF Shape, ProducerType, CountersType
<1>2. /\ Fill \in Nat /\ FirstBase(tailIndex) = Fill * BlockSize
      /\ FirstBase(tailIndex) \in Nat /\ tailIndex <= FirstBase(tailIndex)
      /\ FirstBase(tailIndex) < tailIndex + BlockSize
  BY <1>1, FirstBaseBounds DEF Fill
<1>3. /\ NextNumber \in Nat /\ Fill <= NextNumber /\ NextNumber = Fill + Len(chain)
      /\ Placed \in Nat /\ Fill <= Placed
  BY <1>1, <1>2 DEF NextNumber, Placed
<1>4. CurrentBase = NextNumber * BlockSize
  <2>1. (Fill + Len(chain)) * BlockSize = Fill * BlockSize + Len(chain) * BlockSize
    BY <1>1, <1>2, Times
  <2>2. QED
    BY <1>2, <2>1, Zenon DEF CurrentBase, NextNumber
<1>5. Published \subseteq Nat /\ \A n \in Published : n < NextNumber
  BY <1>1, <1>2, <1>3 DEF Published
<1>6. QED
  BY <1>1, <1>2, <1>3, <1>4, <1>5

\* Everything from block Fill on is outstanding.
LEMMA OutstandingFacts ==
  ASSUME Shape, NEW n \in Int
  PROVE  /\ Outstanding(n) \subseteq (n * BlockSize)..(n * BlockSize + BlockSize - 1)
         /\ \A i \in Outstanding(n) : i \in Int /\ Num(i) = n
         /\ n >= Fill => /\ n * BlockSize \in Outstanding(n)
                         /\ Outstanding(n) = (n * BlockSize)..(n * BlockSize + BlockSize - 1)
         /\ n * BlockSize + BlockSize > tailIndex => Outstanding(n) # {}
<1>1. n * BlockSize \in Int /\ BlockSize \in Nat \ {0, 1}
  BY BlockNumbers
<1>2. \A i \in Outstanding(n) : i \in Int /\ Num(i) = n
  <2>1. TAKE i \in Outstanding(n)
  <2>2. i \in Int /\ n * BlockSize <= i /\ i < n * BlockSize + BlockSize
    BY <1>1 DEF Outstanding
  <2>3. QED
    BY <2>2, InBlock
<1>3. n >= Fill => n * BlockSize >= headIndex
  <2>1. n >= Fill => n * BlockSize >= Fill * BlockSize
    BY BlockNumbers, Times, SMTT(30)
  <2>2. QED
    BY <1>1, <2>1, BlockNumbers
<1>4. n >= Fill => Outstanding(n) = (n * BlockSize)..(n * BlockSize + BlockSize - 1)
  BY <1>1, <1>3, BlockNumbers DEF Outstanding
<1>5. n * BlockSize + BlockSize > tailIndex => n * BlockSize + BlockSize - 1 \in Outstanding(n)
  <2>1. HAVE n * BlockSize + BlockSize > tailIndex
  <2>2. n * BlockSize + BlockSize - 1 >= headIndex
    BY <1>1, <2>1, BlockNumbers
  <2>3. QED
    BY <1>1, <2>2 DEF Outstanding
<1>6. QED
  BY <1>1, <1>2, <1>4, <1>5 DEF Outstanding

\* The entries of an index are entries.
LEMMA EntryType ==
  ASSUME IndexType, NEW off \in Offsets, NEW h \in DOMAIN headers, NEW n \in Int
  PROVE  /\ (n + off[h]) % Cap(h) \in 0..(Cap(h) - 1)
         /\ E(off, h, n) \in 1..Cap(h) /\ E(off, h, n) \in Entries
<1>1. h \in Nat /\ off[h] \in Int /\ n + off[h] \in Int
  <2>1. h \in Nat
    BY DEF IndexType
  <2>2. QED
    BY <2>1 DEF Offsets
<1>2. Cap(h) \in Nat \ {0} /\ headers[h].index \in [0..(Cap(h) - 1) -> 1..Cap(h)]
      /\ 1..Cap(h) \subseteq Entries
  BY CapRange
<1>3. (n + off[h]) % Cap(h) \in 0..(Cap(h) - 1)
  BY <1>1, <1>2, ModRange
<1>4. QED
  BY <1>2, <1>3 DEF E

\* Blocks less than the size of the index apart have different entries.
LEMMA EntriesApart ==
  ASSUME IndexType, Distinct, NEW off \in Offsets, NEW h \in DOMAIN headers,
         NEW m \in Int, NEW n \in Int, m # n, m < n + Cap(h), n < m + Cap(h)
  PROVE  E(off, h, m) # E(off, h, n)
<1>1. off[h] \in Int /\ Cap(h) \in Nat \ {0}
  <2>1. h \in Nat
    BY DEF IndexType
  <2>2. QED
    BY <2>1, CapRange DEF Offsets
<1>2. /\ (m + off[h]) % Cap(h) \in 0..(Cap(h) - 1)
      /\ (n + off[h]) % Cap(h) \in 0..(Cap(h) - 1)
  BY EntryType
<1>3. (m + off[h]) % Cap(h) # (n + off[h]) % Cap(h)
  <2>1. PICK a \in Int, b \in Int : a = m + off[h] /\ b = n + off[h]
    BY <1>1
  <2>2. a % Cap(h) # b % Cap(h)
    <3>1. CASE a < b
      <4>1. b < a + Cap(h)
        BY <1>1, <2>1
      <4>2. QED
        BY <1>1, <3>1, <4>1, ModApart
    <3>2. CASE b < a
      <4>1. a < b + Cap(h)
        BY <1>1, <2>1
      <4>2. QED
        BY <1>1, <3>2, <4>1, ModApart
    <3>3. QED
      BY <1>1, <2>1, <3>1, <3>2
  <2>3. QED
    BY <2>1, <2>2
<1>4. QED
  BY <1>2, <1>3 DEF E, Distinct

\* In particular those that are kept, and all up to the highest one ever inserted.
LEMMA KeptApart ==
  ASSUME Shape, NEW off \in Offsets, NEW r \in Nat, Distinct, Window(r),
         NEW k \in Kept, NEW m \in k..(r - 1), NEW n \in k..(r - 1), m # n
  PROVE  At(off, m) # At(off, n)
<1>1. Len(headers) \in DOMAIN headers /\ IndexType /\ Cap(Len(headers)) \in Nat \ {0}
  BY NewTailRange, CapRange DEF Shape
<1>2. k \in Int
  BY BlockNumbers DEF Kept, Alive
<1>3. r <= k + Cap(Len(headers))
  BY DEF Window
<1>4. m \in Int /\ n \in Int /\ m < n + Cap(Len(headers)) /\ n < m + Cap(Len(headers))
  BY <1>1, <1>2, <1>3
<1>5. QED
  BY <1>1, <1>4, EntriesApart DEF At

\* Which numbers the kept blocks have.
LEMMA KeptFacts ==
  ASSUME Shape, NEW r \in Nat, Window(r)
  PROVE  /\ Alive \subseteq Kept /\ Kept \subseteq Nat
         /\ \A n \in Alive : n < NextNumber
         /\ \A n \in Kept : n < r /\ n \in Nat
         /\ chain # <<>> => Fill \in Kept
         /\ \A m, n \in Alive : \E k \in Kept : m \in k..(r - 1) /\ n \in k..(r - 1)
<1>1. Alive \subseteq Kept /\ Kept \subseteq Nat /\ \A n \in Alive : n < NextNumber
  BY BlockNumbers DEF Kept, Alive
<1>2. \A n \in Kept : n < r /\ n \in Nat
  BY <1>1 DEF Window
<1>3. ASSUME NEW m \in Alive, NEW n \in Alive
      PROVE  \E k \in Kept : m \in k..(r - 1) /\ n \in k..(r - 1)
  <2>1. m \in Kept /\ n \in Kept /\ m \in Nat /\ n \in Nat /\ m < r /\ n < r
    BY <1>1, <1>2
  <2>2. CASE m <= n
    BY <2>1, <2>2
  <2>3. CASE n <= m
    BY <2>1, <2>3
  <2>4. QED
    BY <2>1, <2>2, <2>3
<1>4. QED
  BY <1>1, <1>2, <1>3 DEF Kept

\* Two blocks that are alive have different entries.
LEMMA AliveApart ==
  ASSUME Shape, NEW off \in Offsets, NEW r \in Nat, Distinct, Window(r),
         NEW m \in Alive, NEW n \in Alive, m # n
  PROVE  At(off, m) # At(off, n)
<1>1. PICK k \in Kept : m \in k..(r - 1) /\ n \in k..(r - 1)
  BY KeptFacts
<1>2. QED
  BY <1>1, KeptApart

\* The indexes stay, but for their tails.
SameIndex ==
  /\ Len(headers') = Len(headers) /\ DOMAIN headers' = DOMAIN headers
  /\ \A h \in DOMAIN headers : /\ headers'[h].capacity = headers[h].capacity
                               /\ headers'[h].index = headers[h].index

\* An index that only moves its tail has the entries it had.
LEMMA EntriesSame ==
  ASSUME IndexType, SameIndex, NEW off
  PROVE  /\ \A n : At(off, n)' = At(off, n)
         /\ \A h \in DOMAIN headers : \A n : E(off, h, n)' = E(off, h, n)
         /\ \A h \in DOMAIN headers : Cap(h)' = Cap(h)
         /\ Distinct => Distinct'
<1>1. Len(headers) \in DOMAIN headers
  BY DEF IndexType
<1>2. \A h \in DOMAIN headers : Cap(h)' = Cap(h)
  BY DEF SameIndex, Cap
<1>3. \A h \in DOMAIN headers : \A n : E(off, h, n)' = E(off, h, n)
  BY <1>2 DEF SameIndex, E
<1>4. \A n : At(off, n)' = At(off, n)
  BY <1>1, <1>3 DEF SameIndex, At
<1>5. Distinct => Distinct'
  BY <1>2 DEF SameIndex, Distinct
<1>6. QED
  BY <1>2, <1>3, <1>4, <1>5

\* What is outstanding depends on what the consumers hold and on headIndex.
LEMMA AliveSame ==
  ASSUME UNCHANGED <<tailIndex, chain, undone>>,
         \A n \in Published : /\ Outstanding(n)' = Outstanding(n)
                              /\ Unlinking(n)' <=> Unlinking(n)
  PROVE  /\ Fill' = Fill /\ NextNumber' = NextNumber /\ Published' = Published
         /\ Alive' = Alive /\ Kept' = Kept
<1>1. Fill' = Fill /\ NextNumber' = NextNumber
  BY DEF Fill, NextNumber
<1>2. Published' = Published
  BY <1>1 DEF Published
<1>3. Alive' = Alive
  BY <1>2 DEF Alive
<1>4. QED
  BY <1>1, <1>2, <1>3 DEF Kept

\* What the producer does leaves every block as full as it is.
LEMMA ProducerOutstanding ==
  ASSUME UNCHANGED <<headIndex, consumer>>
  PROVE  \A n : Outstanding(n)' = Outstanding(n) /\ (Unlinking(n)' <=> Unlinking(n))
<1>1. cpc' = cpc /\ loc' = loc /\ headIndex' = headIndex
  BY DEF consumer
<1>2. \A c : Uncounted(c)' = Uncounted(c) /\ Here(c)' = Here(c)
  BY <1>1 DEF Uncounted, Here
<1>3. QED
  BY <1>1, <1>2 DEF Outstanding, Unlinking

\* So does a consumer that neither takes nor counts.
LEMMA ConsumerOutstanding ==
  ASSUME NEW c \in Consumers, Others(c), headIndex' = headIndex,
         Span(cpc'[c], loc'[c]) = Span(cpc[c], loc[c]),
         cpc[c] # "unlink", cpc'[c] # "unlink"
  PROVE  \A n : Outstanding(n)' = Outstanding(n) /\ (Unlinking(n)' <=> Unlinking(n))
<1>1. \A d \in Consumers : Uncounted(d)' = Uncounted(d)
  BY DEF Uncounted, Others
<1>2. \A d \in Consumers \ {c} : cpc'[d] = cpc[d] /\ Here(d)' = Here(d)
  BY DEF Here, Others
<1>3. \A n : Outstanding(n)' = Outstanding(n)
  BY <1>1 DEF Outstanding
<1>4. \A n : Unlinking(n)' <=> Unlinking(n)
  BY <1>2 DEF Unlinking
<1>5. QED
  BY <1>3, <1>4

\* The blocks of a call are alive, but for the one that is on its way back.
LEMMA HeldAlive ==
  ASSUME Frame, NEW c \in Consumers, cpc[c] \in Before \cup After,
         NEW n \in Here(c)..LastOf(loc[c]), cpc[c] = "free" => n # Here(c)
  PROVE  n \in Alive /\ n < Fill /\ n \in Nat
<1>1. /\ loc[c].at \in Nat /\ loc[c].stop \in Nat /\ loc[c].want \in Nat
      /\ HandOk(cpc[c], loc[c], headIndex) /\ Shape /\ BlockSize \in Nat \ {0, 1}
      /\ headIndex <= tailIndex /\ headIndex \in Nat /\ tailIndex \in Nat
      /\ Fill \in Nat /\ tailIndex <= Fill * BlockSize /\ Fill * BlockSize \in Nat
  BY HandLocals, HandAt, BlockNumbers DEF Frame, Shape
<1> DEFINE at == loc[c].at  stop == loc[c].stop
<1>2. /\ at \in Int /\ stop \in Int /\ at - 1 \in Int /\ stop - 1 \in Int
      /\ 0 < stop /\ stop <= headIndex /\ at <= stop /\ 0 <= at
      /\ cpc[c] \in After => 0 < at
  BY <1>1 DEF HandOk, Before, After
<1> HIDE DEF at, stop
<1>3. Num(at) \in Int /\ Num(at - 1) \in Int /\ Num(stop - 1) \in Int
  BY <1>2, BlockOf
<1>4. Here(c) = (IF cpc[c] \in After THEN Num(at - 1) ELSE Num(at)) /\ LastOf(loc[c]) = Num(stop - 1)
  BY DEF Here, HereOf, LastOf, at, stop
<1>5. Here(c) \in Int /\ n \in Int /\ Here(c) <= n /\ n <= Num(stop - 1)
  BY <1>3, <1>4
<1>6. n * BlockSize \in Int /\ n * BlockSize <= stop - 1
  <2>1. n * BlockSize \in Int
    BY <1>1, <1>5
  <2>2. n * BlockSize <= stop - 1
    BY <1>2, <1>5, InBlock
  <2>3. QED
    BY <2>1, <2>2
<1>7. n < Fill
  <2>1. n * BlockSize < Fill * BlockSize
    BY <1>1, <1>2, <1>6
  <2>2. QED
    BY <1>1, <1>5, <2>1, Times
<1>8. n \in Nat
  <2>1. cpc[c] \in After => Num(at - 1) >= 0
    BY <1>2, NumOrder
  <2>2. Num(at) >= 0
    BY <1>2, NumOrder
  <2>3. QED
    BY <1>3, <1>4, <1>5, <2>1, <2>2
<1>9. n \in Published
  BY <1>1, <1>7, <1>8 DEF Published
<1>10. n \in Alive
  <2>1. CASE cpc[c] = "unlink" /\ n = Here(c)
    BY <1>9, <2>1 DEF Alive, Unlinking
  <2>2. ASSUME NEW i \in Uncounted(c), i \in Int, n * BlockSize <= i,
               i < n * BlockSize + BlockSize
        PROVE  n \in Alive
    <3>1. i \in (n * BlockSize)..(n * BlockSize + BlockSize - 1)
      BY <1>1, <1>6, <2>2
    <3>2. i \in Outstanding(n)
      BY <3>1 DEF Outstanding
    <3>3. QED
      BY <1>9, <3>2 DEF Alive
  <2>3. CASE cpc[c] \in Before
    <3>1. at < stop /\ Here(c) = Num(at) /\ Uncounted(c) = at..(stop - 1)
      BY <1>1, <1>4, <2>3 DEF HandOk, Before, After, Uncounted, Span, at, stop
    <3>2. CASE n = Here(c)
      <4>1. n * BlockSize <= at /\ at < n * BlockSize + BlockSize
        BY <1>2, <3>1, <3>2, BlockOf
      <4>2. at \in Uncounted(c)
        BY <1>2, <3>1
      <4>3. QED
        BY <1>2, <2>2, <4>1, <4>2
    <3>3. CASE n # Here(c)
      <4>1. ~(n <= Num(at))
        BY <1>3, <1>5, <3>1, <3>3
      <4>2. at < n * BlockSize
        BY <1>2, <1>5, <1>6, <4>1, InBlock
      <4>3. n * BlockSize \in Uncounted(c) /\ n * BlockSize < n * BlockSize + BlockSize
        BY <1>1, <1>2, <1>6, <3>1, <4>2
      <4>4. QED
        BY <1>6, <2>2, <4>3
    <3>4. QED
      BY <3>2, <3>3
  <2>4. CASE cpc[c] = "empty" /\ n = Here(c)
    <3>1. /\ 0 < loc[c].want /\ loc[c].want <= at /\ Num(at - loc[c].want) = Num(at - 1)
          /\ Here(c) = Num(at - 1) /\ Uncounted(c) = (at - loc[c].want)..(stop - 1)
      BY <1>1, <1>4, <2>4 DEF HandOk, After, Uncounted, Span, at, stop
    <3>2. PICK i \in Int : i = at - loc[c].want
      BY <1>1, <1>2
    <3>3. n * BlockSize <= i /\ i < n * BlockSize + BlockSize
      BY <2>4, <3>1, <3>2, BlockOf
    <3>4. i \in Uncounted(c)
      BY <1>1, <1>2, <3>1, <3>2
    <3>5. QED
      BY <2>2, <3>3, <3>4
  <2>5. CASE cpc[c] \in After /\ n # Here(c)
    <3>1. Here(c) = Num(at - 1)
      BY <1>4, <2>5
    <3>2. at..(stop - 1) \subseteq Uncounted(c)
      <4>1. cpc[c] = "empty" => loc[c].want \in Nat
        BY <1>1
      <4>2. QED
        BY <1>2, <4>1 DEF Uncounted, Span, at, stop
    <3>3. ~(n <= Num(at - 1))
      BY <1>3, <1>5, <2>5, <3>1
    <3>4. at - 1 < n * BlockSize
      BY <1>2, <1>5, <1>6, <3>3, InBlock
    <3>5. n * BlockSize \in at..(stop - 1) /\ n * BlockSize < n * BlockSize + BlockSize
      BY <1>1, <1>2, <1>6, <3>4
    <3>6. QED
      BY <1>6, <2>2, <3>2, <3>5
  <2>6. QED
    BY <2>1, <2>3, <2>4, <2>5 DEF After
<1>11. QED
  BY <1>7, <1>8, <1>10

\* The entry of a block is one, and its position is in the index.
LEMMA EntryAt ==
  ASSUME IndexType, NEW off \in Offsets, NEW n \in Int
  PROVE  /\ At(off, n) \in Entries
         /\ (n + off[Len(headers)]) % Cap(Len(headers)) \in 0..(Cap(Len(headers)) - 1)
         /\ Len(headers) \in DOMAIN headers /\ Cap(Len(headers)) \in Nat \ {0}
         /\ off[Len(headers)] \in Int
<1>1. Len(headers) \in DOMAIN headers
  BY DEF IndexType
<1>2. Len(headers) \in Nat
  BY <1>1 DEF IndexType
<1>3. Cap(Len(headers)) \in Nat \ {0}
  BY <1>1, CapRange
<1>4. off[Len(headers)] \in Int
  BY <1>2 DEF Offsets
<1>5. QED
  BY <1>1, <1>3, <1>4, EntryType DEF At

\* No entry gets a block or loses one.
SameBlocks == \A e \in Entries : value[e] \in Blocks \/ value'[e] \in Blocks => value'[e] = value[e]

\* The entries of the blocks that stay in the index keep their blocks.
LEMMA AliveEntry ==
  ASSUME Shape, NEW off \in Offsets, Linked(off), NEW n \in Alive
  PROVE  /\ At(off, n) \in Entries /\ value[At(off, n)] \in Blocks /\ n \in Nat
         /\ SameBlocks => value'[At(off, n)] = value[At(off, n)]
<1>1. n \in Nat
  BY BlockNumbers DEF Alive
<1>2. At(off, n) \in Entries
  BY <1>1, EntryAt DEF Shape
<1>3. QED
  BY <1>1, <1>2 DEF Linked, SameBlocks

\* Layout, when entries and blocks stay.
LEMMA LayoutFrame ==
  ASSUME Shape, NEW off \in Offsets, NEW r \in Nat, Layout(off, r),
         SameIndex, SameBlocks, UNCHANGED key, Alive' = Alive, Kept' \subseteq Kept,
         Placed' <= r, TailRight(off)'
  PROVE  Layout(off, r)'
<1>1. /\ \A n : At(off, n)' = At(off, n)
      /\ Cap(Len(headers))' = Cap(Len(headers)) /\ Distinct'
  <2>1. (\A n : At(off, n)' = At(off, n)) /\ Distinct'
    BY EntriesSame DEF Layout, Shape
  <2>2. Len(headers) \in DOMAIN headers
    BY DEF Shape, IndexType
  <2>3. QED
    BY <2>1, <2>2 DEF SameIndex, Cap
<1>2. Window(r)'
  BY <1>1 DEF Window, Layout
<1>3. Keyed(off, r)'
  BY <1>1 DEF Keyed, Layout
<1>4. Linked(off)'
  <2>1. \A n \in Alive' : value'[At(off, n)'] \in Blocks
    BY <1>1, AliveEntry DEF Layout
  <2>2. ASSUME NEW e \in Entries, value'[e] \in Blocks PROVE \E n \in Alive' : e = At(off, n)'
    BY <1>1, <2>2 DEF SameBlocks, Layout, Linked
  <2>3. QED
    BY <2>1, <2>2 DEF Linked
<1>5. QED
  BY <1>1, <1>2, <1>3, <1>4 DEF Layout

\* A consumer that has not moved finds what it found.
LEMMA FoundFrame ==
  ASSUME IndexType, SameIndex, NEW off \in Offsets, NEW r \in Nat, NEW s \in Nat,
         NEW p, NEW l, r <= s \/ p # "key", FoundOk(off, r, p, l),
         p \in {"key", "move"} \cup After => l.header \in DOMAIN headers,
         p \in {"empty", "unlink"} =>
           value'[At(off, HereOf(p, l))] = value[At(off, HereOf(p, l))]
  PROVE  FoundOk(off, s, p, l)'
<1>1. /\ \A n : At(off, n)' = At(off, n)
      /\ \A h \in DOMAIN headers : /\ Cap(h)' = Cap(h)
                                   /\ \A n : E(off, h, n)' = E(off, h, n)
  BY EntriesSame
<1>2. p = "key" =>
       \E k \in LastOf(l)..(s - 1) :
         /\ l.pos = (k + off[l.header]) % Cap(l.header)'
         /\ \A n \in HereOf(p, l)..k : E(off, l.header, n)' = At(off, n)'
  <2>1. HAVE p = "key"
  <2>2. PICK k \in LastOf(l)..(r - 1) :
         /\ l.pos = (k + off[l.header]) % Cap(l.header)
         /\ \A n \in HereOf(p, l)..k : E(off, l.header, n) = At(off, n)
    BY <2>1 DEF FoundOk
  <2>3. k \in LastOf(l)..(s - 1)
    BY <2>1, <2>2
  <2>4. QED
    BY <1>1, <2>1, <2>2, <2>3
<1>3. p \in {"move"} \cup After =>
       /\ l.pos = (HereOf(p, l) + off[l.header]) % Cap(l.header)'
       /\ \A n \in HereOf(p, l)..LastOf(l) :
            \/ E(off, l.header, n)' = At(off, n)'
            \/ p = "free" /\ n = HereOf(p, l)
  BY <1>1 DEF FoundOk
<1>4. p \in {"empty", "unlink"} => l.block = value'[At(off, HereOf(p, l))']
  BY <1>1 DEF FoundOk
<1>5. HereOf(p, l)' = HereOf(p, l) /\ LastOf(l)' = LastOf(l)
  BY DEF HereOf, LastOf
<1>6. QED
  BY <1>2, <1>3, <1>4, <1>5 DEF FoundOk

\* Where the other consumers are, they find what they found.
LEMMA FoundOthers ==
  ASSUME Frame, NEW off \in Offsets, NEW r \in Nat, NEW s \in Nat,
         Layout(off, r), Found(off, r), SameIndex,
         NEW c \in Consumers, r <= s \/ cpc[c] # "key", cpc'[c] = cpc[c], loc'[c] = loc[c],
         cpc[c] \in {"empty", "unlink"} =>
           value'[At(off, Here(c))] = value[At(off, Here(c))]
  PROVE  FoundOk(off, s, cpc[c], loc[c])'
<1>1. FoundOk(off, r, cpc[c], loc[c])
  BY DEF Found
<1>2. cpc[c] \in {"key", "move"} \cup After => loc[c].header \in DOMAIN headers
  BY HandAt DEF Frame, PlaceOk
<1>3. PICK p, l : p = cpc[c] /\ l = loc[c]
  OBVIOUS
<1>4. FoundOk(off, s, p, l)'
  BY <1>1, <1>2, <1>3, FoundFrame DEF Frame, Shape, Here
<1>5. cpc'[c] = p /\ loc'[c] = l
  BY <1>3
<1>6. QED
  BY <1>4, <1>5

-----------------------------------------------------------------------------
(* What a step keeps when it leaves index, blocks or elements alone. *)

\* The block that still has free slots, and those of this call, are in the index.
LEMMA TailAlive ==
  ASSUME Shape, tailIndex % BlockSize # 0
  PROVE  Fill - 1 \in Alive /\ Outstanding(Fill - 1) # {} /\ Fill - 1 \in Nat
<1>1. /\ Fill \in Nat /\ tailIndex \in Nat /\ Fill * BlockSize \in Nat /\ tailIndex <= Fill * BlockSize
      /\ BlockSize \in Nat \ {0}
  BY BlockNumbers
<1>2. tailIndex # Fill * BlockSize
  <2>1. (Fill * BlockSize) % BlockSize = 0
    BY <1>1, BlockStart
  <2>2. QED
    BY <2>1, Zenon
<1>3. Fill # 0
  <2>1. Fill = 0 => Fill * BlockSize = 0
    BY <1>1
  <2>2. QED
    BY <1>1, <1>2, <2>1
<1>4. (Fill - 1) * BlockSize = Fill * BlockSize - BlockSize /\ (Fill - 1) * BlockSize \in Int
      /\ Fill - 1 \in Int /\ Fill - 1 \in Nat
  BY <1>1, <1>3, Times
<1>5. (Fill - 1) * BlockSize + BlockSize > tailIndex
  BY <1>1, <1>2, <1>4
<1>6. Outstanding(Fill - 1) # {}
  BY <1>4, <1>5, OutstandingFacts
<1>7. Fill - 1 \in Published
  BY <1>1, <1>3 DEF Published
<1>8. QED
  BY <1>4, <1>6, <1>7 DEF Alive

\* The blocks of the chain are alive ...
LEMMA ChainAlive ==
  ASSUME Shape, NEW n \in (Fill + undone)..(NextNumber - 1)
  PROVE  n \in Alive /\ n \in Nat /\ n >= Fill /\ Outstanding(n) # {}
<1>1. n \in Nat /\ n >= Fill /\ n \in Published
  BY BlockNumbers, SMTT(30) DEF Published
<1>2. n * BlockSize \in Outstanding(n)
  BY <1>1, OutstandingFacts
<1>3. QED
  BY <1>1, <1>2 DEF Alive

\* ... and have these numbers.
LEMMA ChainNumber ==
  ASSUME Shape, NEW i \in (undone + 1)..Len(chain)
  PROVE  Fill + i - 1 \in (Fill + undone)..(NextNumber - 1)
<1>1. Fill \in Nat /\ Len(chain) \in Nat /\ undone \in Nat /\ NextNumber = Fill + Len(chain)
  BY BlockNumbers
<1>2. i \in Int /\ undone + 1 <= i /\ i <= Len(chain)
  BY <1>1
<1>3. QED
  BY <1>1, <1>2

\* Chained, when the entries of what is alive stay.
LEMMA ChainedFrame ==
  ASSUME Shape, NEW off \in Offsets, NEW s \in Offsets, Chained(off), Linked(off), SameBlocks,
         UNCHANGED <<tailIndex, chain, undone>>,
         \A n \in Alive : At(s, n)' = At(off, n)
  PROVE  Chained(s)'
<1>1. Fill' = Fill
  BY DEF Fill
<1>2. ASSUME NEW i \in (undone + 1)..Len(chain)
      PROVE  chain[i] = value'[At(s, Fill + i - 1)']
  <2>1. Fill + i - 1 \in Alive
    BY ChainNumber, ChainAlive
  <2>2. PICK n \in Alive : n = Fill + i - 1
    BY <2>1
  <2>3. value'[At(off, n)] = value[At(off, n)] /\ chain[i] = value[At(off, n)]
    BY <2>2, AliveEntry DEF Chained
  <2>4. At(s, Fill + i - 1)' = At(s, n)'
    BY <1>1, <2>2
  <2>5. QED
    BY <2>2, <2>3, <2>4
<1>3. QED
  BY <1>1, <1>2 DEF Chained

\* Tailed, when they do.
LEMMA TailedFrame ==
  ASSUME Shape, NEW off \in Offsets, NEW s \in Offsets, Tailed(off), Linked(off), SameBlocks,
         UNCHANGED <<tailIndex, tailBlock, chain>>, ppc = "commit" <=> ppc' = "commit",
         \A n \in Alive : At(s, n)' = At(off, n)
  PROVE  Tailed(s)'
<1>1. Fill' = Fill
  BY DEF Fill
<1>2. ASSUME tailIndex % BlockSize # 0
      PROVE  value'[At(s, Fill - 1)'] = value[At(off, Fill - 1)]
  <2>1. PICK n \in Alive : n = Fill - 1
    BY <1>2, TailAlive
  <2>2. At(s, Fill - 1)' = At(s, n)'
    BY <1>1, <2>1
  <2>3. QED
    BY <2>1, <2>2, AliveEntry
<1>3. QED
  BY <1>1, <1>2 DEF Tailed

\* Filled, when they do and elements stay.
LEMMA FilledFrame ==
  ASSUME Shape, NEW off \in Offsets, NEW s \in Offsets, Filled(off), Linked(off), SameBlocks,
         UNCHANGED elements, Alive' = Alive, \A i \in Int : Present(i)' <=> Present(i),
         \A n \in Alive : At(s, n)' = At(off, n)
  PROVE  Filled(s)'
<1>1. ASSUME NEW n \in Alive, NEW t \in Slots
      PROVE  elements'[value'[At(s, n)']][t] =
               IF Present(n * BlockSize + t)' THEN n * BlockSize + t ELSE Gone
  <2>1. n * BlockSize + t \in Int
    <3>1. n \in Int /\ t \in Int
      BY BlockNumbers DEF Alive, Slots
    <3>2. n * BlockSize \in Int
      BY <3>1, BlockStart
    <3>3. QED
      BY <3>1, <3>2
  <2>2. value'[At(s, n)'] = value[At(off, n)]
    BY AliveEntry
  <2>3. QED
    BY <2>1, <2>2 DEF Filled
<1>2. ASSUME NEW b \in Blocks, \A e \in Entries : value'[e] # b, NEW t \in Slots
      PROVE  elements'[b][t] = Gone
  <2>1. \A e \in Entries : value[e] # b
    BY <1>2 DEF SameBlocks
  <2>2. QED
    BY <2>1 DEF Filled
<1>3. QED
  BY <1>1, <1>2 DEF Filled

\* Counted, when they do and counts stay.
LEMMA CountedFrame ==
  ASSUME Shape, NEW off \in Offsets, NEW s \in Offsets, Counted(off), Linked(off), SameBlocks,
         UNCHANGED <<completed, newBlock>>, Alive' = Alive,
         \A n \in Alive : At(s, n)' = At(off, n) /\ Outstanding(n)' = Outstanding(n)
  PROVE  Counted(s)'
<1>1. \A n \in Alive : value'[At(s, n)'] = value[At(off, n)]
  BY AliveEntry
<1>2. QED
  BY <1>1 DEF Counted

\* PlacedOnce, when no block changes its place.
LEMMA PlacedFrame ==
  ASSUME PlacedOnce, IndexType, IndexType', SameBlocks,
         UNCHANGED <<free, newBlock, chain, undone>>, Leaving' = Leaving,
         \A c, d \in Consumers :
           cpc'[c] = "free" /\ cpc'[d] = "free" /\ loc'[c].block = loc'[d].block => c = d
  PROVE  PlacedOnce'
<1>1. Indexed' = Indexed /\ Withdrawn' = Withdrawn
  BY DEF Indexed, Withdrawn, SameBlocks
<1>2. \A e, f \in Entries : value'[e] = value'[f] /\ value'[e] \in Blocks => e = f
  BY DEF SameBlocks, PlacedOnce
<1>3. QED
  BY <1>1, <1>2 DEF PlacedOnce

\* What a step of the producer keeps that neither publishes nor takes out a block
\* and constructs nothing.
LEMMA RestFrame ==
  ASSUME Frame, IndexType', NEW off \in Offsets, NEW s \in Offsets, NEW r \in Nat,
         Deep(off, r), SameBlocks,
         UNCHANGED <<tailIndex, headIndex, elements, completed, free, tailBlock, newBlock,
                     chain, undone, consumer>>,
         ppc # "commit", ppc' # "commit",
         \A n \in Alive : At(s, n)' = At(off, n)
  PROVE  /\ Chained(s)' /\ Tailed(s)' /\ Settled' /\ Filled(s)' /\ Counted(s)'
         /\ PlacedOnce' /\ Delivered'
<1>1. /\ Shape /\ IndexType /\ Linked(off) /\ Chained(off) /\ Tailed(off) /\ Settled
      /\ Filled(off) /\ Counted(off) /\ PlacedOnce /\ Delivered
  BY DEF Deep, Layout, Frame, Shape
<1>2. cpc' = cpc /\ loc' = loc /\ out' = out
  BY DEF consumer
<1>3. /\ \A n : Outstanding(n)' = Outstanding(n) /\ (Unlinking(n)' <=> Unlinking(n))
      /\ Alive' = Alive
  BY ProducerOutstanding, AliveSame
<1>4. \A i \in Int : Present(i)' <=> Present(i)
  BY <1>2 DEF Present, Unmoved
<1>5. Chained(s)' /\ Tailed(s)'
  BY <1>1, ChainedFrame, TailedFrame
<1>6. Filled(s)'
  BY <1>1, <1>3, <1>4, FilledFrame
<1>7. Counted(s)'
  BY <1>1, <1>3, CountedFrame
<1>8. Settled' /\ Delivered'
  BY <1>1, <1>2, <1>3 DEF Settled, Here, Delivered, Unmoved
<1>9. PlacedOnce'
  <2>1. Leaving' = Leaving
    BY <1>2 DEF Leaving
  <2>2. QED
    BY <1>1, <1>2, <2>1, PlacedFrame DEF PlacedOnce
<1>10. QED
  BY <1>5, <1>6, <1>7, <1>8, <1>9

-----------------------------------------------------------------------------
(* Steps of the producer, one by one. *)

\* The indexes as they are.
LEMMA SameHeaders ==
  ASSUME IndexType, UNCHANGED <<headers, value>>
  PROVE  SameIndex /\ SameBlocks /\ \A off : \A n : At(off, n)' = At(off, n)
<1>1. SameIndex /\ SameBlocks
  BY DEF SameIndex, SameBlocks
<1>2. QED
  BY <1>1, EntriesSame

\* What consumers have found stays found when the producer moves.
LEMMA FoundProducer ==
  ASSUME Frame, NEW off \in Offsets, NEW r \in Nat, NEW s \in Nat, Deep(off, r),
         r <= s \/ \A c \in Consumers : cpc[c] # "key",
         SameIndex, UNCHANGED consumer,
         \A n \in Alive : n < Fill => value'[At(off, n)] = value[At(off, n)]
  PROVE  Found(off, s)'
<1>1. ASSUME NEW c \in Consumers PROVE FoundOk(off, s, cpc[c], loc[c])'
  <2>1. cpc' = cpc /\ loc' = loc
    BY DEF consumer
  <2>2. ASSUME cpc[c] \in {"empty", "unlink"}
        PROVE  value'[At(off, Here(c))] = value[At(off, Here(c))]
    <3>1. Here(c) \in Here(c)..LastOf(loc[c])
      <4>1. /\ loc[c].at \in Nat /\ loc[c].stop \in Nat /\ HandOk(cpc[c], loc[c], headIndex)
        BY HandLocals, HandAt DEF Frame, Shape
      <4>2. loc[c].at <= loc[c].stop /\ cpc[c] \in After
        BY <2>2, <4>1 DEF HandOk, After
      <4>3. loc[c].at - 1 \in Int /\ loc[c].stop - 1 \in Int /\ loc[c].at - 1 <= loc[c].stop - 1
        BY <4>1, <4>2
      <4>4. PICK i \in Int, j \in Int : i = loc[c].at - 1 /\ j = loc[c].stop - 1
        BY <4>3
      <4>5. Num(i) \in Int /\ Num(j) \in Int /\ Num(i) <= Num(j)
        BY <4>3, <4>4, NumOrder, BlockOf
      <4>6. QED
        BY <4>2, <4>4, <4>5 DEF Here, HereOf, LastOf
    <3>2. Here(c) \in Alive /\ Here(c) < Fill
      BY <2>2, <3>1, HeldAlive DEF After
    <3>3. QED
      BY <3>2
  <2>3. QED
    BY <2>1, <2>2, FoundOthers DEF Deep
<1>2. QED
  BY <1>1 DEF Found

\* A call begins, or gives up since there is no room in the index.
LEMMA EnqueueDeep ==
  ASSUME Frame, NEW off \in Offsets, NEW r \in Nat, Deep(off, r),
         Enqueue \/ EnqueueBulk \/ NoIndex, IndexType'
  PROVE  Deep(off, r)'
<1>1. /\ UNCHANGED <<tailIndex, headIndex, elements, completed, free, tailBlock, newBlock,
                     chain, undone, idxEntry, consumer, headers, key, value>>
      /\ ppc \notin {"advance", "block", "publish", "commit"}
      /\ ppc' \notin {"advance", "block", "publish", "commit"}
  BY DEF Enqueue, EnqueueBulk, NoIndex, EndCall, counters, index, memory
<1>2. Shape /\ Layout(off, r) /\ Fresh
  BY DEF Frame, Deep
<1>3. SameIndex /\ SameBlocks /\ \A n : At(off, n)' = At(off, n)
  BY <1>1, <1>2, SameHeaders DEF Shape
<1>4. /\ Chained(off)' /\ Tailed(off)' /\ Settled' /\ Filled(off)' /\ Counted(off)'
      /\ PlacedOnce' /\ Delivered'
  BY <1>1, <1>3, RestFrame
<1>5. Found(off, r)'
  BY <1>1, <1>3, FoundProducer
<1>6. Placed' = Placed /\ Alive' = Alive /\ Kept' = Kept
  BY <1>1, ProducerOutstanding, AliveSame DEF Placed
<1>7. TailRight(off)'
  BY <1>1, <1>2, <1>6 DEF Layout, TailRight, Cap, blockIndex
<1>8. Layout(off, r)'
  BY <1>1, <1>2, <1>3, <1>6, <1>7, LayoutFrame DEF Layout, Window
<1>9. Entering(off, r)' /\ Fresh'
  BY <1>1, <1>2 DEF Entering, Fresh
<1>10. QED
  BY <1>4, <1>5, <1>8, <1>9 DEF Deep

\* Where the tail of the index is, and what follows it.
LEMMA TailEntry ==
  ASSUME Shape, NEW off \in Offsets, TailRight(off)
  PROVE  /\ NewTail = (Placed + off[Len(headers)]) % Cap(Len(headers))
         /\ blockIndex.index[NewTail] = At(off, Placed)
         /\ blockIndex.index[blockIndex.tail] = At(off, Placed - 1)
         /\ (blockIndex.tail - 1) % blockIndex.capacity =
              (Placed - 2 + off[Len(headers)]) % Cap(Len(headers))
<1> DEFINE n == Cap(Len(headers))  o == off[Len(headers)]
<1>1. n \in Nat \ {0} /\ o \in Int /\ Placed \in Nat
  BY BlockNumbers, EntryAt DEF Shape
<1>2. blockIndex.capacity = n /\ blockIndex.tail = (Placed - 1 + o) % n
  BY DEF blockIndex, Cap, TailRight
<1> HIDE DEF n, o
<1>3. PICK a \in Int : a = Placed - 1 + o
  BY <1>1
<1>4. a + 1 = Placed + o /\ a - 1 = Placed - 2 + o
  BY <1>1, <1>3
<1>5. ((a % n) + 1) % n = (a + 1) % n /\ ((a % n) - 1) % n = (a - 1) % n
  BY <1>1, ModSteps
<1>6. NewTail = (Placed + o) % n
  BY <1>2, <1>3, <1>4, <1>5, Zenon DEF NewTail
<1>7. (blockIndex.tail - 1) % blockIndex.capacity = (Placed - 2 + o) % n
  BY <1>2, <1>3, <1>4, <1>5, Zenon
<1>8. blockIndex.index[NewTail] = At(off, Placed)
  BY <1>6 DEF At, E, blockIndex, n, o
<1>9. blockIndex.index[blockIndex.tail] = At(off, Placed - 1)
  BY <1>2 DEF At, E, blockIndex, n, o
<1>10. QED
  BY <1>6, <1>7, <1>8, <1>9 DEF n, o

\* The entries go round.
LEMMA EntryWraps ==
  ASSUME IndexType, NEW off \in Offsets, NEW n \in Int
  PROVE  At(off, n + Cap(Len(headers))) = At(off, n)
<1> DEFINE m == Cap(Len(headers))  o == off[Len(headers)]
<1>1. m \in Nat \ {0} /\ o \in Int
  BY EntryAt
<1> HIDE DEF m, o
<1>2. PICK a \in Int : a = n + o
  BY <1>1
<1>3. (a + m) % m = a % m
  BY <1>1, ModSteps
<1>4. n + m + o = a + m
  BY <1>1, <1>2
<1>5. (n + m + o) % m = (n + o) % m
  BY <1>2, <1>3, <1>4, Zenon
<1>6. QED
  BY <1>5 DEF At, E, m, o

\* While a block is inserted, none of the call has been taken out.
LEMMA InsertingNumbers ==
  ASSUME Shape, ppc \in Inserting
  PROVE  /\ undone = 0 /\ Placed = NextNumber + (IF ppc \in {"block", "publish"} THEN 1 ELSE 0)
         /\ Kept = Alive /\ NextNumber >= Fill
<1>1. undone = 0
  BY DEF Shape, ProducerInv, Inserting
<1>2. NextNumber \in Nat /\ Fill \in Nat /\ NextNumber = Fill + Len(chain) /\ Len(chain) \in Nat
  BY BlockNumbers
<1>3. chain # <<>> => Fill \in Alive
  <2>1. HAVE chain # <<>>
  <2>2. Len(chain) # 0
    BY <2>1 DEF Shape, ProducerType
  <2>3. Fill \in (Fill + undone)..(NextNumber - 1)
    BY <1>1, <1>2, <2>2
  <2>4. QED
    BY <2>3, ChainAlive
<1>4. QED
  BY <1>1, <1>2, <1>3 DEF Placed, Kept

\* The entry behind the tail gets the next block's key; nobody keeps a block there.
LEMMA InsertDeep ==
  ASSUME Frame, NEW off \in Offsets, NEW r \in Nat, Deep(off, r), InsertEntry, IndexType'
  PROVE  \E s \in Nat : Deep(off, s)'
<1>0. PICK m \in Nat : m = NextNumber
  BY BlockNumbers DEF Frame
<1> DEFINE s == IF m = r THEN r + 1 ELSE r
           e == At(off, m)
           size == Cap(Len(headers))
<1>1. /\ Shape /\ IndexType /\ Layout(off, r) /\ Fresh /\ Distinct /\ Window(r) /\ Linked(off)
      /\ Keyed(off, r) /\ TailRight(off)
  BY DEF Frame, Deep, Layout, Shape
<1>2. /\ ppc = "insert" /\ ppc' = "advance" /\ Placed = m /\ Kept = Alive /\ m \in Nat
      /\ CurrentBase = m * BlockSize /\ m * BlockSize \in Nat /\ e \in Entries
      /\ size \in Nat \ {0}
  <2>1. ppc = "insert" /\ ppc' = "advance"
    BY DEF InsertEntry
  <2>2. Placed = m /\ Kept = Alive
    BY <1>0, <1>1, <2>1, InsertingNumbers DEF Inserting
  <2>3. CurrentBase = m * BlockSize
    BY <1>0, <1>1, BlockNumbers
  <2>4. m * BlockSize \in Nat
    BY SizeAssumption
  <2>5. e \in Entries /\ size \in Nat \ {0}
    BY <1>1, EntryAt
  <2>6. QED
    BY <2>1, <2>2, <2>3, <2>4, <2>5
<1>3. /\ EntryUnused(e) /\ key' = [key EXCEPT ![e] = m * BlockSize] /\ idxEntry' = e
      /\ UNCHANGED <<tailIndex, headIndex, elements, completed, free, tailBlock, newBlock,
                     chain, undone, consumer, headers, value>>
  <2>1. blockIndex.index[NewTail] = e
    BY <1>1, <1>2, TailEntry
  <2>2. QED
    BY <1>2, <2>1 DEF InsertEntry, counters, memory
<1>4. SameIndex /\ SameBlocks /\ \A n : At(off, n)' = At(off, n)
  BY <1>1, <1>3, SameHeaders
<1>5. /\ Chained(off)' /\ Tailed(off)' /\ Settled' /\ Filled(off)' /\ Counted(off)'
      /\ PlacedOnce' /\ Delivered'
  BY <1>2, <1>3, <1>4, RestFrame
<1>6. Fill' = Fill /\ NextNumber' = m /\ Alive' = Alive /\ Kept' = Kept /\ Placed' = m
  <2>1. Fill' = Fill /\ NextNumber' = m /\ Alive' = Alive /\ Kept' = Kept
    BY <1>0, <1>3, ProducerOutstanding, AliveSame
  <2>2. undone' = 0
    BY <1>1, <1>2, <1>3, InsertingNumbers DEF Inserting
  <2>3. QED
    BY <1>2, <2>1, <2>2 DEF Placed
\* the entry is nobody's
<1>7. \A n \in Alive : n \in Nat /\ n < m /\ n < r /\ r <= n + size /\ At(off, n) # e
  <2>1. TAKE n \in Alive
  <2>2. n \in Nat /\ n < m /\ n < r /\ r <= n + size /\ n \in Kept
    BY <1>0, <1>1, <1>2, BlockNumbers, KeptFacts DEF Window
  <2>3. value[At(off, n)] \in Blocks
    BY <1>1 DEF Linked
  <2>4. key[At(off, n)] = n * BlockSize
    BY <1>1, <2>2 DEF Keyed
  <2>5. n * BlockSize # 1
    <3>1. n = 0 => n * BlockSize = 0
      BY SizeAssumption
    <3>2. n > 0 => n * BlockSize >= BlockSize
      <4>1. 0 < n => 0 * BlockSize + BlockSize <= n * BlockSize
        BY <2>2, Times, SizeAssumption
      <4>2. QED
        BY <2>2, <4>1, SizeAssumption
    <3>3. QED
      BY <2>2, <3>1, <3>2, SizeAssumption
  <2>6. None \notin Blocks
    BY BlocksAssumption
  <2>7. QED
    BY <1>3, <2>2, <2>3, <2>4, <2>5, <2>6 DEF EntryUnused, INVALID_BLOCK_BASE
<1>8. s \in Nat /\ r <= s /\ m < s /\ \A n \in Alive : n < s /\ s <= n + size
  <2>1. m <= r
    BY <1>1, <1>2 DEF Window
  <2>2. \A n \in Alive : m = r => r # n + size
    <3>1. TAKE n \in Alive
    <3>2. At(off, n + size) = At(off, n)
      BY <1>1, <1>7, EntryWraps
    <3>3. QED
      BY <1>7, <3>2
  <2>3. QED
    BY <1>2, <1>7, <2>1, <2>2
<1>20. PICK t \in Nat : t = s
  BY <1>8
<1> HIDE DEF s, size
<1>9. Window(t)'
  <2>1. Cap(Len(headers))' = size
    BY <1>3 DEF Cap, size
  <2>2. Placed' <= t
    BY <1>2, <1>6, <1>8, <1>20
  <2>3. QED
    BY <1>2, <1>6, <1>8, <1>20, <2>1, <2>2 DEF Window
<1>10. Keyed(off, t)'
  <2>1. SUFFICES ASSUME NEW k \in Alive, NEW n \in k..(t - 1)
                 PROVE  key'[At(off, n)] = n * BlockSize
    BY <1>2, <1>4, <1>6 DEF Keyed
  <2>2. k \in Nat /\ k < m /\ t <= k + size /\ n \in Int /\ k <= n /\ n < t
    BY <1>7, <1>8, <1>20
  <2>3. CASE n = m
    BY <1>1, <1>2, <1>3, <2>3 DEF IndexType
  <2>4. CASE n # m
    <3>1. n \in k..(r - 1)
      BY <1>2, <1>8, <1>20, <2>2, <2>4 DEF s
    <3>2. key[At(off, n)] = n * BlockSize
      BY <1>1, <1>2, <3>1 DEF Keyed
    <3>3. At(off, n) # e
      <4>1. n < m + size /\ m < n + size /\ n \in Int /\ m \in Int
        BY <1>2, <1>8, <1>20, <2>2
      <4>2. E(off, Len(headers), n) # E(off, Len(headers), m)
        BY <1>1, <2>4, <4>1, EntriesApart, EntryAt DEF size
      <4>3. QED
        BY <4>2 DEF At
    <3>4. QED
      BY <1>1, <1>2, <1>3, <3>2, <3>3 DEF IndexType
  <2>5. QED
    BY <2>3, <2>4
<1>11. TailRight(off)' /\ Distinct'
  <2>1. TailRight(off)'
    BY <1>1, <1>2, <1>3, <1>6 DEF TailRight, Cap, blockIndex
  <2>2. QED
    BY <1>1, <1>4, <2>1, EntriesSame
<1>12. Linked(off)'
  BY <1>1, <1>3, <1>4, <1>6 DEF Linked
<1>13. Layout(off, t)'
  BY <1>9, <1>10, <1>11, <1>12 DEF Layout
<1>14. Found(off, t)'
  BY <1>3, <1>4, <1>8, <1>20, FoundProducer
<1>15. value[e] \in {None, Junk}
  <2>1. value[e] \notin Blocks
    BY <1>1, <1>2, <1>7 DEF Linked
  <2>2. QED
    BY <1>1, <1>2, <2>1 DEF IndexType
<1>16. Entering(off, t)'
  <2>1. key'[e] = m * BlockSize
    BY <1>1, <1>2, <1>3 DEF IndexType
  <2>2. At(off, NextNumber)' = e
    BY <1>4, <1>6
  <2>3. QED
    BY <1>3, <1>6, <1>8, <1>20, <1>15, <2>1, <2>2 DEF Entering
<1>17. Fresh'
  BY <1>1, <1>2, <1>3 DEF Fresh, IndexType
<1>18. Deep(off, t)'
  BY <1>5, <1>13, <1>14, <1>16, <1>17 DEF Deep
<1>19. QED
  BY <1>18

\* The last index with another tail.
LEMMA TailMoved ==
  ASSUME IndexType, NEW t \in 0..(Cap(Len(headers)) - 1),
         headers' = [headers EXCEPT ![Len(headers)].tail = t]
  PROVE  SameIndex /\ blockIndex.tail' = t /\ Cap(Len(headers))' = Cap(Len(headers))
         /\ Len(headers)' = Len(headers)
<1>1. SameIndex /\ headers'[Len(headers)].tail = t /\ Len(headers') = Len(headers)
  BY SetTail DEF SameIndex
<1>2. Len(headers) \in DOMAIN headers
  BY DEF IndexType
<1>3. QED
  BY <1>1, <1>2 DEF blockIndex, Cap, SameIndex

\* The tail moves on to it.
LEMMA AdvanceDeep ==
  ASSUME Frame, NEW off \in Offsets, NEW r \in Nat, Deep(off, r), AdvanceTail, IndexType'
  PROVE  Deep(off, r)'
<1>1. /\ Shape /\ IndexType /\ Layout(off, r) /\ Fresh /\ TailRight(off) /\ Entering(off, r)
  BY DEF Frame, Deep, Layout, Shape
<1>2. /\ ppc = "advance" /\ ppc' = "block" /\ Placed = NextNumber /\ NextNumber \in Nat
      /\ undone = 0
  BY <1>1, InsertingNumbers, BlockNumbers DEF AdvanceTail, Inserting
<1>3. /\ UNCHANGED <<tailIndex, headIndex, elements, completed, free, tailBlock, newBlock,
                     chain, undone, consumer, key, value, idxEntry>>
      /\ headers' = [headers EXCEPT ![Len(headers)].tail = NewTail]
  BY DEF AdvanceTail, counters, memory
<1>4. /\ SameIndex /\ blockIndex.tail' = NewTail /\ Cap(Len(headers))' = Cap(Len(headers))
      /\ Len(headers)' = Len(headers)
  BY <1>1, <1>3, NewTailRange, TailMoved
<1>5. SameBlocks /\ \A n : At(off, n)' = At(off, n)
  BY <1>1, <1>3, <1>4, EntriesSame DEF SameBlocks
<1>6. /\ Chained(off)' /\ Tailed(off)' /\ Settled' /\ Filled(off)' /\ Counted(off)'
      /\ PlacedOnce' /\ Delivered'
  BY <1>2, <1>3, <1>5, RestFrame
<1>7. Found(off, r)'
  BY <1>3, <1>4, FoundProducer
<1>8. NextNumber' = NextNumber /\ Alive' = Alive /\ Kept' = Kept /\ Placed' = NextNumber + 1
  <2>1. NextNumber' = NextNumber /\ Alive' = Alive /\ Kept' = Kept
    BY <1>3, ProducerOutstanding, AliveSame
  <2>2. QED
    BY <1>2, <1>3, <2>1 DEF Placed
<1>9. TailRight(off)'
  <2>1. NewTail = (NextNumber + off[Len(headers)]) % Cap(Len(headers))
    BY <1>1, <1>2, TailEntry
  <2>2. off[Len(headers)] \in Int
    BY <1>1, <1>2, EntryAt
  <2>3. Placed' - 1 + off[Len(headers)] = NextNumber + off[Len(headers)]
    BY <1>2, <1>8, <2>2
  <2>4. QED
    BY <1>4, <2>1, <2>3 DEF TailRight
<1>10. Placed' <= r
  BY <1>1, <1>2, <1>8 DEF Entering
<1>11. Layout(off, r)'
  BY <1>1, <1>3, <1>4, <1>5, <1>8, <1>9, <1>10, LayoutFrame
<1>12. Entering(off, r)' /\ Fresh'
  BY <1>1, <1>2, <1>3, <1>5, <1>8 DEF Entering, Fresh
<1>13. QED
  BY <1>6, <1>7, <1>11, <1>12 DEF Deep

\* Without a block for it, the tail moves back.
LEMMA NoBlockDeep ==
  ASSUME Frame, NEW off \in Offsets, NEW r \in Nat, Deep(off, r), NoBlock, IndexType'
  PROVE  Deep(off, r)'
<1>1. /\ Shape /\ IndexType /\ Layout(off, r) /\ Fresh /\ TailRight(off) /\ Entering(off, r)
  BY DEF Frame, Deep, Layout, Shape
<1>2. /\ ppc = "block" /\ ppc' \in {"undo", "idle"} /\ Placed = NextNumber + 1
      /\ NextNumber \in Nat /\ undone = 0
  BY <1>1, InsertingNumbers, BlockNumbers DEF NoBlock, Inserting, EndCall
<1>3. /\ UNCHANGED <<tailIndex, headIndex, elements, completed, free, tailBlock, newBlock,
                     chain, undone, consumer, key>>
      /\ headers' = [headers EXCEPT ![Len(headers)].tail =
                       (blockIndex.tail - 1) % blockIndex.capacity]
      /\ value' = [value EXCEPT ![idxEntry] = None]
  BY DEF NoBlock, RewindTail, blockIndex, counters, memory
<1> DEFINE t == (blockIndex.tail - 1) % blockIndex.capacity
<1>4. /\ SameIndex /\ blockIndex.tail' = t /\ Cap(Len(headers))' = Cap(Len(headers))
      /\ Len(headers)' = Len(headers)
  BY <1>1, <1>3, NewTailRange, TailMoved
<1>5. SameBlocks /\ \A n : At(off, n)' = At(off, n)
  <2>1. value[idxEntry] \notin Blocks /\ None \notin Blocks
    BY <1>1, <1>2, BlocksAssumption DEF Entering
  <2>2. SameBlocks
    BY <1>1, <1>3, <2>1 DEF SameBlocks, IndexType
  <2>3. QED
    BY <1>1, <1>4, <2>2, EntriesSame
<1>6. /\ Chained(off)' /\ Tailed(off)' /\ Settled' /\ Filled(off)' /\ Counted(off)'
      /\ PlacedOnce' /\ Delivered'
  BY <1>2, <1>3, <1>5, RestFrame
<1>7. Found(off, r)'
  <2>1. \A n \in Alive : value'[At(off, n)] = value[At(off, n)]
    BY <1>1, <1>5, AliveEntry DEF Layout
  <2>2. QED
    BY <1>3, <1>4, <2>1, FoundProducer
<1>8. NextNumber' = NextNumber /\ Alive' = Alive /\ Kept' = Kept /\ Placed' = NextNumber
  <2>1. NextNumber' = NextNumber /\ Alive' = Alive /\ Kept' = Kept
    BY <1>3, ProducerOutstanding, AliveSame
  <2>2. QED
    BY <1>2, <1>3, <2>1 DEF Placed
<1>9. TailRight(off)'
  <2>1. t = (Placed - 2 + off[Len(headers)]) % Cap(Len(headers))
    BY <1>1, TailEntry
  <2>2. off[Len(headers)] \in Int
    BY <1>1, <1>2, EntryAt
  <2>3. Placed' - 1 + off[Len(headers)] = Placed - 2 + off[Len(headers)]
    BY <1>2, <1>8, <2>2
  <2>4. QED
    BY <1>4, <2>1, <2>3 DEF TailRight
<1>10. Placed' <= r
  BY <1>1, <1>2, <1>8 DEF Entering
<1>11. Layout(off, r)'
  BY <1>1, <1>3, <1>4, <1>5, <1>8, <1>9, <1>10, LayoutFrame
<1>12. Entering(off, r)'
  BY <1>2 DEF Entering
<1>13. Fresh'
  <2>1. \A e \in Entries : value'[e] = Junk => value[e] = Junk /\ e # idxEntry
    BY <1>1, <1>3, BlocksAssumption DEF IndexType
  <2>2. QED
    BY <1>1, <1>3, <2>1 DEF Fresh
<1>14. QED
  BY <1>6, <1>7, <1>11, <1>12, <1>13 DEF Deep

\* The index grows only when it is full of blocks that are still kept.
LEMMA FullIndex ==
  ASSUME Frame, NEW off \in Offsets, NEW r \in Nat, Deep(off, r), NewBlockIndex
  PROVE  /\ Placed = r /\ Kept = Alive
         /\ \A n \in Alive : n \in (r - Cap(Len(headers)))..(r - 1)
<1>1. /\ Shape /\ IndexType /\ Layout(off, r) /\ Fresh /\ Distinct /\ Window(r) /\ Linked(off)
      /\ TailRight(off) /\ ppc = "insert"
  BY DEF Frame, Deep, Layout, Shape, NewBlockIndex
<1>2. PICK m \in Nat : m = Placed /\ m = NextNumber /\ Kept = Alive
  BY <1>1, InsertingNumbers, BlockNumbers DEF Inserting
<1> DEFINE e == At(off, m)
<1>3. e \in Entries /\ ~EntryUnused(e)
  <2>1. e = blockIndex.index[NewTail]
    BY <1>1, <1>2, TailEntry
  <2>2. ~EntryUnused(blockIndex.index[NewTail])
    BY DEF NewBlockIndex
  <2>3. e \in Entries
    BY <1>1, EntryAt
  <2>4. QED
    BY <2>1, <2>2, <2>3
<1>4. value[e] \in Blocks
  <2>1. value[e] # Junk
    BY <1>1, <1>3 DEF Fresh, EntryUnused
  <2>2. QED
    BY <1>1, <1>3, <2>1 DEF EntryUnused, IndexType
<1>5. PICK n \in Alive : e = At(off, n)
  BY <1>1, <1>3, <1>4 DEF Linked
<1>6. n \in Nat /\ n < m /\ Cap(Len(headers)) \in Nat \ {0}
  BY <1>1, <1>2, <1>5, KeptFacts, EntryAt
<1>7. ~(m < n + Cap(Len(headers)))
  <2>1. SUFFICES ASSUME m < n + Cap(Len(headers)) PROVE FALSE
    OBVIOUS
  <2>2. n < m + Cap(Len(headers)) /\ n # m /\ n \in Int /\ m \in Int
    BY <1>6
  <2>3. E(off, Len(headers), n) # E(off, Len(headers), m)
    BY <1>1, <1>6, <2>1, <2>2, EntriesApart, EntryAt
  <2>4. QED
    BY <1>2, <1>5, <2>3 DEF At
<1>8. m <= r /\ r <= n + Cap(Len(headers))
  BY <1>1, <1>2 DEF Window
<1>9. m = r
  BY <1>2, <1>6, <1>7, <1>8
<1>10. \A k \in Alive : k \in Nat /\ k < r /\ r <= k + Cap(Len(headers))
  BY <1>1, <1>2, KeptFacts DEF Window
<1>11. QED
  BY <1>2, <1>6, <1>9, <1>10

\* In the new index the blocks have the entries they had.
LEMMA GrownEntries ==
  ASSUME IndexType, NewBlockIndex, NEW off \in Offsets, TailRight(off), NEW m \in Nat, Placed = m,
         Shape
  PROVE  /\ Cap(Len(headers))' = 2 * Cap(Len(headers))
         /\ \E s \in Offsets :
              /\ \A n \in (m - Cap(Len(headers)))..(m - 1) : At(s, n)' = At(off, n)
              /\ \A h \in DOMAIN headers : s[h] = off[h]
              /\ blockIndex.tail' = ((m - 1 + s[Len(headers)]) % Cap(Len(headers)))'
<1> DEFINE size == Cap(Len(headers))
           o == off[Len(headers)]
           top == Len(headers) + 1
           f == [p \in 0..(2 * size - 1) |->
                   IF p < size THEN blockIndex.index[(NewTail + p) % size] ELSE p + 1]
           q == [capacity |-> 2 * size, tail |-> size - 1, index |-> f]
<1>1. /\ size \in Nat \ {0} /\ o \in Int /\ Len(headers) \in DOMAIN headers /\ Len(headers) \in Nat
  <2>1. 0 \in Int
    OBVIOUS
  <2>2. QED
    BY <2>1, EntryAt DEF IndexType
<1>2. /\ Len(headers') = top /\ headers'[top] = q
      /\ \A h \in DOMAIN headers : headers'[h] = headers[h]
  BY NewHeader DEF q, f, size, top
<1>3. q.capacity = 2 * size /\ q.tail = size - 1 /\ q.index = f
  BY DEF q
<1>4. Cap(Len(headers))' = 2 * size /\ blockIndex.tail' = size - 1
  BY <1>2, <1>3 DEF Cap, blockIndex
<1>5. PICK s \in Offsets : s[top] = size - m /\ \A h \in DOMAIN headers : s[h] = off[h]
  <2> DEFINE w == [off EXCEPT ![top] = size - m]
  <2>1. size - m \in Int /\ top \in Nat /\ top \notin DOMAIN headers /\ DOMAIN headers \subseteq Nat
    BY <1>1 DEF IndexType
  <2>2. w \in Offsets /\ w[top] = size - m /\ \A h \in DOMAIN headers : w[h] = off[h]
    BY <2>1 DEF Offsets
  <2>3. QED
    BY <2>2
<1>6. NewTail = (m + o) % size
  BY TailEntry
<1> HIDE DEF o, q, size, f
<1>7. \A n \in (m - size)..(m - 1) : At(s, n)' = At(off, n)
  <2>1. TAKE n \in (m - size)..(m - 1)
  <2>2. PICK p \in 0..(size - 1) : p = n + (size - m)
    BY <1>1
  <2>3. p % (2 * size) = p
    <3>1. 2 * size \in Nat \ {0} /\ p \in Int /\ 0 * (2 * size) = 0 /\ p < 2 * size /\ 0 <= p
      BY <1>1
    <3>2. PICK d \in Nat \ {0} : d = 2 * size
      BY <3>1
    <3>3. p % d = p - 0 * d /\ 0 * d = 0
      BY <3>1, <3>2, Quotient
    <3>4. p % d = p
      BY <3>1, <3>3
    <3>5. QED
      BY <3>2, <3>4
  <2>4. At(s, n)' = f[p]
    <3>1. (n + s[top]) % (2 * size) = p
      BY <1>5, <2>2, <2>3
    <3>2. At(s, n)' = headers'[top].index[(n + s[top]) % (headers'[top].capacity)]
      BY <1>2 DEF At, E, Cap
    <3>3. QED
      BY <1>2, <1>3, <3>1, <3>2
  <2>5. f[p] = blockIndex.index[(NewTail + p) % size]
    <3>1. p \in 0..(2 * size - 1) /\ p < size
      BY <1>1, <2>2
    <3>2. QED
      BY <3>1 DEF f
  <2>6. (NewTail + p) % size = (n + o) % size
    <3>1. PICK a \in Int, b \in Int : a = m + o /\ b = n + o
      BY <1>1
    <3>2. ((a % size) + p) % size = (a + p) % size
      <4>1. p \in Int
        BY <1>1
      <4>2. QED
        BY <1>1, <4>1, ModAdd
    <3>3. a + p = b + size
      BY <1>1, <2>2, <3>1
    <3>4. (b + size) % size = b % size
      BY <1>1, ModSteps
    <3>5. QED
      BY <1>6, <3>1, <3>2, <3>3, <3>4, Zenon
  <2>7. QED
    BY <2>4, <2>5, <2>6 DEF At, E, o, blockIndex, size
<1>8. blockIndex.tail' = ((m - 1 + s[Len(headers)]) % Cap(Len(headers)))'
  <2>1. m - 1 + (size - m) = size - 1
    BY <1>1
  <2>2. (size - 1) % (2 * size) = size - 1
    <3>1. PICK d \in Nat \ {0}, p \in Int : d = 2 * size /\ p = size - 1
      BY <1>1
    <3>2. 0 * d = 0 /\ 0 * d <= p /\ p < 0 * d + d
      BY <1>1, <3>1
    <3>3. p % d = p - 0 * d
      BY <3>2, Quotient
    <3>4. QED
      BY <3>1, <3>2, <3>3
  <2>3. QED
    BY <1>2, <1>4, <1>5, <2>1, <2>2, Zenon
<1>9. QED
  BY <1>4, <1>5, <1>7, <1>8 DEF size

\* An index of twice the size: its entries are shifted, and every lookup still ends at the same entry.
LEMMA GrowDeep ==
  ASSUME Frame, NEW off \in Offsets, NEW r \in Nat, Deep(off, r), NewBlockIndex, IndexType'
  PROVE  \E s \in Offsets : Deep(s, r)'
<1>1. /\ Shape /\ IndexType /\ Layout(off, r) /\ Fresh /\ Distinct /\ Linked(off) /\ Keyed(off, r)
      /\ TailRight(off) /\ Found(off, r) /\ ppc = "insert" /\ ppc' = "insert"
  BY DEF Frame, Deep, Layout, Shape, NewBlockIndex, producer
<1>2. PICK size \in Nat \ {0} : size = Cap(Len(headers))
  <2>1. Len(headers) \in DOMAIN headers
    BY <1>1, NewTailRange
  <2>2. QED
    BY <1>1, <2>1, CapRange
<1>3. /\ Placed = r /\ Kept = Alive
      /\ \A n \in Alive : n \in (r - size)..(r - 1)
  BY <1>2, FullIndex
<1>4. PICK s \in Offsets :
        /\ \A n \in (r - size)..(r - 1) : At(s, n)' = At(off, n)
        /\ \A h \in DOMAIN headers : s[h] = off[h]
        /\ blockIndex.tail' = ((r - 1 + s[Len(headers)]) % Cap(Len(headers)))'
  BY <1>1, <1>2, <1>3, GrownEntries
<1>5. Cap(Len(headers))' = 2 * size
  BY <1>1, <1>2, <1>3, GrownEntries
<1>6. UNCHANGED <<tailIndex, headIndex, elements, completed, free, tailBlock, newBlock,
                  chain, undone, consumer, key, value, idxEntry>>
  BY DEF NewBlockIndex, counters, memory, producer
<1>7. SameBlocks
  BY <1>6 DEF SameBlocks
<1>8. NextNumber' = NextNumber /\ Alive' = Alive /\ Kept' = Kept /\ Placed' = Placed
  <2>1. NextNumber' = NextNumber /\ Alive' = Alive /\ Kept' = Kept
    BY <1>6, ProducerOutstanding, AliveSame
  <2>2. QED
    BY <1>1, <1>6, <2>1 DEF Placed
<1>9. \A n \in Alive : At(s, n)' = At(off, n)
  BY <1>3, <1>4
<1>10. /\ Chained(s)' /\ Tailed(s)' /\ Settled' /\ Filled(s)' /\ Counted(s)'
       /\ PlacedOnce' /\ Delivered'
  BY <1>1, <1>6, <1>7, <1>9, RestFrame
<1>11. Distinct'
  <2> DEFINE f == [p \in 0..(2 * size - 1) |->
                     IF p < size THEN blockIndex.index[(NewTail + p) % size] ELSE p + 1]
             q == [capacity |-> 2 * size, tail |-> size - 1, index |-> f]
             top == Len(headers) + 1
  <2>1. /\ Len(headers') = top /\ headers'[top] = q
        /\ \A h \in DOMAIN headers : headers'[h] = headers[h]
        /\ DOMAIN headers' = DOMAIN headers \cup {top}
    <3>1. /\ headers' \in Seq(Headers) /\ headers \in Seq(Headers) /\ Len(headers') = Len(headers) + 1
          /\ headers'[top] = q
          /\ \A h \in DOMAIN headers : headers'[h] = headers[h]
      BY <1>1, <1>2, NewHeader DEF IndexType
    <3>2. DOMAIN headers' = 1..(Len(headers) + 1) /\ DOMAIN headers = 1..Len(headers)
          /\ Len(headers) \in Nat
      BY <3>1
    <3>3. QED
      BY <3>1, <3>2
  <2>2. q.capacity = 2 * size /\ q.index = f
    BY DEF q
  <2> HIDE DEF q
  <2>3. /\ blockIndex.index \in [0..(size - 1) -> 1..size] /\ NewTail \in 0..(size - 1)
        /\ \A a, b \in 0..(size - 1) : blockIndex.index[a] = blockIndex.index[b] => a = b
    <3>1. Len(headers) \in DOMAIN headers /\ NewTail \in 0..(size - 1)
      BY <1>1, <1>2, NewTailRange
    <3>2. blockIndex.index \in [0..(size - 1) -> 1..size]
      BY <1>1, <1>2, <3>1, CapRange DEF blockIndex
    <3>3. QED
      BY <1>1, <1>2, <3>1, <3>2 DEF Distinct, blockIndex
  <2>4. ASSUME NEW a \in 0..(size - 1), NEW b \in 0..(size - 1), a < b
        PROVE  (NewTail + a) % size # (NewTail + b) % size
    <3>1. PICK x \in Int, y \in Int : x = NewTail + a /\ y = NewTail + b
      BY <2>3
    <3>2. x < y /\ y < x + size
      BY <2>3, <2>4, <3>1
    <3>3. x % size # y % size
      BY <3>2, ModApart
    <3>4. QED
      BY <3>1, <3>3, Zenon
  <2>5. \A a \in 0..(size - 1) : (NewTail + a) % size \in 0..(size - 1)
    <3>1. TAKE a \in 0..(size - 1)
    <3>2. NewTail + a \in Int
      BY <2>3
    <3>3. QED
      BY <3>2, ModRange
  <2>6. ASSUME NEW a \in 0..(2 * size - 1), NEW b \in 0..(2 * size - 1), a < b
        PROVE  f[a] # f[b]
    <3>1. CASE b < size
      <4>1. a \in 0..(size - 1) /\ b \in 0..(size - 1)
        BY <2>6, <3>1
      <4>2. (NewTail + a) % size # (NewTail + b) % size
        BY <2>4, <2>6, <4>1
      <4>3. f[a] = blockIndex.index[(NewTail + a) % size]
            /\ f[b] = blockIndex.index[(NewTail + b) % size]
        BY <4>1
      <4>4. QED
        BY <2>3, <2>5, <4>1, <4>2, <4>3
    <3>2. CASE ~(b < size)
      <4>1. f[b] = b + 1 /\ f[b] > size
        BY <3>2
      <4>2. CASE a < size
        <5>1. a \in 0..(size - 1) /\ f[a] = blockIndex.index[(NewTail + a) % size]
          BY <4>2
        <5>2. f[a] \in 1..size
          BY <2>3, <2>5, <5>1
        <5>3. QED
          BY <4>1, <5>2
      <4>3. CASE ~(a < size)
        BY <2>6, <4>1, <4>3
      <4>4. QED
        BY <4>2, <4>3
    <3>3. QED
      BY <3>1, <3>2
  <2> HIDE DEF f
  <2>7. \A a, b \in 0..(2 * size - 1) : f[a] = f[b] => a = b
    <3>1. TAKE a, b \in 0..(2 * size - 1)
    <3>2. a < b \/ b < a \/ a = b
      OBVIOUS
    <3>3. QED
      BY <2>6, <3>2
  <2>8. ASSUME NEW h \in DOMAIN headers'
        PROVE  \A a, b \in 0..(headers'[h].capacity - 1) :
                 headers'[h].index[a] = headers'[h].index[b] => a = b
    <3>1. CASE h = top
      BY <2>1, <2>2, <2>7, <3>1
    <3>2. CASE h # top
      BY <1>1, <2>1, <2>8, <3>2 DEF Distinct, Cap
    <3>3. QED
      BY <3>1, <3>2
  <2>9. QED
    BY <2>8 DEF Distinct, Cap
<1>12. Layout(s, r)'
  <2>1. TailRight(s)'
    BY <1>3, <1>4, <1>8 DEF TailRight
  <2>2. Window(r)'
    <3>1. \A n \in Alive : n < r /\ r <= n + 2 * size
      BY <1>3
    <3>2. r <= r
      OBVIOUS
    <3>3. QED
      BY <1>3, <1>5, <1>8, <3>1, <3>2 DEF Window
  <2>3. Linked(s)'
    BY <1>1, <1>6, <1>8, <1>9 DEF Linked
  <2>4. Keyed(s, r)'
    <3>1. SUFFICES ASSUME NEW k \in Alive, NEW n \in k..(r - 1)
                   PROVE  key'[At(s, n)'] = n * BlockSize
      BY <1>3, <1>8 DEF Keyed
    <3>2. n \in (r - size)..(r - 1)
      BY <1>3
    <3>3. key[At(off, n)] = n * BlockSize
      BY <1>1, <1>3 DEF Keyed
    <3>4. QED
      BY <1>4, <1>6, <3>2, <3>3
  <2>5. QED
    BY <1>11, <2>1, <2>2, <2>3, <2>4 DEF Layout
<1>13. Entering(s, r)' /\ Fresh'
  BY <1>1, <1>6 DEF Entering, Fresh
<1>14. ASSUME NEW c \in Consumers PROVE FoundOk(s, r, cpc[c], loc[c])'
  <2>1. PICK p, l : p = cpc[c] /\ l = loc[c]
    OBVIOUS
  <2>2. FoundOk(off, r, p, l) /\ cpc'[c] = p /\ loc'[c] = l
    BY <1>1, <1>6, <2>1 DEF Found, consumer
  <2>3. p \in {"key", "move"} \cup After => l.header \in DOMAIN headers
    BY <2>1, HandAt DEF Frame, PlaceOk
  <2>4. \A h \in DOMAIN headers : Cap(h)' = Cap(h) /\ \A n : E(s, h, n)' = E(off, h, n)
    <3>1. \A h \in DOMAIN headers : headers'[h] = headers[h]
      BY <1>1, NewHeader
    <3>2. QED
      BY <1>4, <3>1 DEF E, Cap
  <2>5. ASSUME p \in Before \cup After, NEW n \in HereOf(p, l)..LastOf(l),
               p = "free" => n # HereOf(p, l)
        PROVE  n \in Alive
    BY <2>1, <2>5, HeldAlive DEF Here
  <2>6. HereOf(p, l) \in Int /\ LastOf(l) \in Int
        /\ (p \in Before \cup After => HereOf(p, l) <= LastOf(l))
    <3>1. /\ l.at \in Nat /\ l.stop \in Nat /\ HandOk(p, l, headIndex)
      BY <2>1, HandLocals, HandAt DEF Frame, Shape
    <3>2. PICK i \in Int, j \in Int, k \in Int : i = l.at - 1 /\ j = l.stop - 1 /\ k = l.at
      BY <3>1
    <3>3. Num(i) \in Int /\ Num(j) \in Int /\ Num(k) \in Int
      BY <3>2, BlockOf
    <3>4. (p \in After => i <= j) /\ (p \in Before => k <= j)
      BY <3>1, <3>2 DEF HandOk
    <3>5. (p \in After => Num(i) <= Num(j)) /\ (p \in Before => Num(k) <= Num(j))
      BY <3>4, NumOrder
    <3>6. QED
      BY <3>2, <3>3, <3>5 DEF HereOf, LastOf, Before, After
  <2>7. p = "key" =>
         \E k \in LastOf(l)..(r - 1) :
           /\ l.pos = (k + s[l.header]) % Cap(l.header)'
           /\ \A n \in HereOf(p, l)..k : E(s, l.header, n)' = At(s, n)'
    <3>1. HAVE p = "key"
    <3>2. PICK k \in LastOf(l)..(r - 1) :
           /\ l.pos = (k + off[l.header]) % Cap(l.header)
           /\ \A n \in HereOf(p, l)..k : E(off, l.header, n) = At(off, n)
      BY <2>2, <3>1 DEF FoundOk
    <3>3. HereOf(p, l) \in Alive
      BY <2>5, <2>6, <3>1 DEF Before
    <3>4. \A n \in HereOf(p, l)..k : At(s, n)' = At(off, n)
      <4>1. HereOf(p, l) \in (r - size)..(r - 1)
        BY <1>3, <3>3
      <4>2. \A n \in HereOf(p, l)..k : n \in (r - size)..(r - 1)
        BY <2>6, <4>1
      <4>3. QED
        BY <1>4, <4>2
    <3>5. s[l.header] = off[l.header]
      BY <1>4, <2>3, <3>1
    <3>6. l.pos = (k + s[l.header]) % Cap(l.header)'
      BY <2>3, <2>4, <3>1, <3>2, <3>5
    <3>7. \A n \in HereOf(p, l)..k : E(s, l.header, n)' = At(s, n)'
      BY <2>3, <2>4, <3>1, <3>2, <3>4
    <3>8. QED
      BY <3>6, <3>7
  <2>8. p \in {"move"} \cup After =>
         /\ l.pos = (HereOf(p, l) + s[l.header]) % Cap(l.header)'
         /\ \A n \in HereOf(p, l)..LastOf(l) :
              \/ E(s, l.header, n)' = At(s, n)'
              \/ p = "free" /\ n = HereOf(p, l)
    <3>1. HAVE p \in {"move"} \cup After
    <3>2. s[l.header] = off[l.header] /\ Cap(l.header)' = Cap(l.header)
      BY <1>4, <2>3, <2>4, <3>1
    <3>3. l.pos = (HereOf(p, l) + s[l.header]) % Cap(l.header)'
      BY <2>2, <3>1, <3>2 DEF FoundOk
    <3>4. ASSUME NEW n \in HereOf(p, l)..LastOf(l), ~(p = "free" /\ n = HereOf(p, l))
          PROVE  E(s, l.header, n)' = At(s, n)'
      <4>1. n \in Alive
        BY <2>5, <3>1, <3>4 DEF Before
      <4>2. E(off, l.header, n) = At(off, n)
        BY <2>2, <3>1, <3>4 DEF FoundOk
      <4>3. QED
        BY <1>9, <2>3, <2>4, <3>1, <4>1, <4>2
    <3>5. QED
      BY <3>3, <3>4
  <2>9. p \in {"empty", "unlink"} => l.block = value'[At(s, HereOf(p, l))']
    <3>1. HAVE p \in {"empty", "unlink"}
    <3>2. HereOf(p, l) \in Alive
      BY <2>5, <2>6, <3>1 DEF After
    <3>3. PICK n \in Alive : n = HereOf(p, l)
      BY <3>2
    <3>4. At(s, n)' = At(off, n)
      BY <1>9
    <3>5. l.block = value[At(off, n)]
      BY <2>2, <3>1, <3>3 DEF FoundOk
    <3>6. QED
      BY <1>6, <3>3, <3>4, <3>5
  <2>10. FoundOk(s, r, p, l)'
    <3>1. HereOf(p, l)' = HereOf(p, l) /\ LastOf(l)' = LastOf(l)
      BY DEF HereOf, LastOf
    <3>2. QED
      BY <2>7, <2>8, <2>9, <3>1 DEF FoundOk
  <2>11. QED
    BY <2>2, <2>10
<1>15. Found(s, r)'
  BY <1>14 DEF Found
<1>16. QED
  BY <1>10, <1>12, <1>13, <1>15 DEF Deep

\* A block a consumer holds is the one its entry has.
LEMMA HereRange ==
  ASSUME Frame, NEW c \in Consumers, cpc[c] \in Before \cup After
  PROVE  /\ Here(c) \in Int /\ LastOf(loc[c]) \in Int /\ Here(c) <= LastOf(loc[c]) + 1
         /\ cpc[c] \in Before \cup {"empty"} => Here(c) <= LastOf(loc[c])
         /\ cpc[c] \in After => Here(c) <= LastOf(loc[c])
         /\ LastOf(loc[c]) < Fill
<1> DEFINE l == loc[c]
<1>1. /\ l.at \in Nat /\ l.stop \in Nat /\ HandOk(cpc[c], l, headIndex) /\ headIndex \in Nat
      /\ headIndex <= tailIndex /\ tailIndex \in Nat /\ Fill \in Nat
      /\ tailIndex <= Fill * BlockSize /\ Fill * BlockSize \in Int
  BY HandLocals, HandAt, BlockNumbers DEF Frame, Shape
<1> HIDE DEF l
<1>2. PICK i \in Int, j \in Int, k \in Int : i = l.at - 1 /\ j = l.stop - 1 /\ k = l.at
  BY <1>1
<1>3. Num(i) \in Int /\ Num(j) \in Int /\ Num(k) \in Int
  BY <1>2, BlockOf
<1>4. (cpc[c] \in After => i <= j) /\ (cpc[c] \in Before => k <= j)
  BY <1>1, <1>2 DEF HandOk
<1>5. (cpc[c] \in After => Num(i) <= Num(j)) /\ (cpc[c] \in Before => Num(k) <= Num(j))
  BY <1>4, NumOrder
<1>6. j < Fill * BlockSize
  BY <1>1, <1>2 DEF HandOk
<1>7. Num(j) < Fill
  BY <1>1, <1>3, <1>6, InBlock
<1>8. QED
  BY <1>2, <1>3, <1>5, <1>7 DEF Here, HereOf, LastOf, Before, After, l

\* The block for the entry was nowhere but in the pool.
LEMMA RequisitionDeep ==
  ASSUME Frame, NEW off \in Offsets, NEW r \in Nat, Deep(off, r), Requisition, IndexType'
  PROVE  Deep(off, r)'
<1>1. /\ Shape /\ IndexType /\ Layout(off, r) /\ Fresh /\ TailRight(off) /\ Linked(off)
      /\ Entering(off, r) /\ Chained(off) /\ Tailed(off) /\ Settled /\ Filled(off)
      /\ Counted(off) /\ PlacedOnce /\ Delivered
  BY DEF Frame, Deep, Layout, Shape
<1>2. PICK b \in free :
        /\ newBlock' = b /\ free' = free \ {b} /\ completed' = [completed EXCEPT ![b] = 0]
        /\ ppc = "block" /\ ppc' = "publish"
        /\ UNCHANGED <<tailIndex, headIndex, elements, tailBlock, idxEntry, chain, undone,
                       consumer, headers, key, value>>
  BY DEF Requisition, counters, index
<1>3. b \in Blocks /\ b \notin Indexed /\ newBlock = None /\ None \notin Blocks
  BY <1>1, <1>2, BlocksAssumption DEF Shape, MemoryType, PlacedOnce, ProducerInv
<1>4. SameIndex /\ SameBlocks /\ \A n : At(off, n)' = At(off, n)
  BY <1>1, <1>2, SameHeaders
<1>5. cpc' = cpc /\ loc' = loc /\ out' = out
  BY <1>2 DEF consumer
<1>6. /\ \A n : Outstanding(n)' = Outstanding(n) /\ (Unlinking(n)' <=> Unlinking(n))
      /\ Alive' = Alive /\ Kept' = Kept /\ NextNumber' = NextNumber /\ Placed' = Placed
  <2>1. \A n : Outstanding(n)' = Outstanding(n) /\ (Unlinking(n)' <=> Unlinking(n))
    BY <1>2, ProducerOutstanding
  <2>2. Alive' = Alive /\ Kept' = Kept /\ NextNumber' = NextNumber
    BY <1>2, <2>1, AliveSame
  <2>3. QED
    BY <1>2, <2>1, <2>2 DEF Placed
<1>7. Chained(off)' /\ Tailed(off)'
  BY <1>1, <1>2, <1>4, ChainedFrame, TailedFrame
<1>8. Filled(off)'
  <2>1. \A i \in Int : Present(i)' <=> Present(i)
    BY <1>2, <1>5 DEF Present, Unmoved
  <2>2. QED
    BY <1>1, <1>2, <1>4, <1>6, <2>1, FilledFrame
<1>9. Settled' /\ Delivered'
  BY <1>1, <1>2, <1>5, <1>6 DEF Settled, Here, Delivered, Unmoved
<1>10. Found(off, r)'
  BY <1>2, <1>4, FoundProducer
<1>11. Layout(off, r)'
  <2>1. TailRight(off)'
    BY <1>1, <1>2, <1>6 DEF TailRight, Cap, blockIndex
  <2>2. QED
    BY <1>1, <1>2, <1>4, <1>6, <2>1, LayoutFrame DEF Layout, Window
<1>12. Entering(off, r)' /\ Fresh'
  BY <1>1, <1>2, <1>4, <1>6 DEF Entering, Fresh
<1>13. Counted(off)'
  <2>1. \A n \in Alive : value[At(off, n)] # b /\ value[At(off, n)] \in Blocks
    BY <1>1, <1>3, AliveEntry DEF Indexed
  <2>2. \A d \in Blocks : completed'[d] = IF d = b THEN 0 ELSE completed[d]
    BY <1>1, <1>2 DEF Shape, MemoryType
  <2>3. QED
    BY <1>1, <1>2, <1>3, <1>4, <1>6, <2>1, <2>2 DEF Counted
<1>14. PlacedOnce'
  <2>1. Indexed' = Indexed /\ Leaving' = Leaving /\ Withdrawn' = Withdrawn
    BY <1>2, <1>5 DEF Indexed, Leaving, Withdrawn
  <2>2. free' \cup {b} = free /\ b \notin free'
    BY <1>2
  <2>3. PlacedOnce!1' /\ PlacedOnce!2' /\ PlacedOnce!3' /\ PlacedOnce!4' /\ PlacedOnce!5'
    BY <1>1, <1>2, <1>3, <2>1, <2>2 DEF PlacedOnce
  <2>4. QED
    BY <1>1, <1>2, <1>5, <2>3 DEF PlacedOnce
<1>15. QED
  BY <1>7, <1>8, <1>9, <1>10, <1>11, <1>12, <1>13, <1>14 DEF Deep

\* With nothing in the index nobody looks anything up.
LEMMA NobodyLooks ==
  ASSUME Frame, Alive = {}, NEW c \in Consumers
  PROVE  cpc[c] \notin Before \cup {"empty", "unlink"}
<1>1. SUFFICES ASSUME cpc[c] \in Before \cup {"empty", "unlink"} PROVE FALSE
  OBVIOUS
<1>2. Here(c) \in Here(c)..LastOf(loc[c])
  BY <1>1, HereRange DEF After
<1>3. Here(c) \in Alive
  BY <1>1, <1>2, HeldAlive DEF After, Before
<1>4. QED
  BY <1>3

\* It enters the index, and r grows with it.
LEMMA PublishDeep ==
  ASSUME Frame, NEW off \in Offsets, NEW r \in Nat, Deep(off, r), Publish, IndexType'
  PROVE  \E s \in Nat : Deep(off, s)'
<1>1. /\ Shape /\ IndexType /\ Layout(off, r) /\ Fresh /\ TailRight(off) /\ Linked(off)
      /\ Distinct /\ Window(r) /\ Keyed(off, r)
      /\ Entering(off, r) /\ Chained(off) /\ Tailed(off) /\ Settled /\ Filled(off)
      /\ Counted(off) /\ PlacedOnce /\ Delivered /\ Found(off, r)
  BY DEF Frame, Deep, Layout, Shape
<1>2. PICK m \in Nat, b \in Blocks, e \in Entries :
        /\ m = NextNumber /\ b = newBlock /\ e = idxEntry
        /\ e = At(off, m) /\ key[e] = m * BlockSize /\ value[e] \in {None, Junk} /\ m < r
        /\ b \notin Indexed /\ b \notin free /\ b \notin Leaving
        /\ completed[b] = 0
  <2>1. NextNumber \in Nat
    BY <1>1, BlockNumbers
  <2>2. newBlock \in Blocks /\ newBlock # None
    BY <1>1 DEF Publish, Shape, ProducerInv, ProducerType
  <2>3. At(off, NextNumber) \in Entries
    BY <1>1, <2>1, EntryAt
  <2>4. QED
    BY <1>1, <2>1, <2>2, <2>3 DEF Publish, Entering, PlacedOnce, Counted
<1>3. /\ ppc = "publish" /\ ppc' \in {"insert", "construct"} /\ newBlock' = None
      /\ value' = [value EXCEPT ![e] = b] /\ chain' = Append(chain, b)
      /\ UNCHANGED <<tailIndex, headIndex, elements, completed, free, tailBlock, undone,
                     consumer, headers, key>>
  BY <1>2 DEF Publish, counters, memory
<1>4. /\ undone = 0 /\ Placed = m + 1 /\ Kept = Alive /\ m >= Fill /\ Fill \in Nat
      /\ chain \in Seq(Blocks) /\ Len(chain) \in Nat /\ m = Fill + Len(chain)
  BY <1>1, <1>2, <1>3, InsertingNumbers, BlockNumbers DEF Inserting, Shape, ProducerType
<1>5. /\ Len(chain') = Len(chain) + 1 /\ chain'[Len(chain) + 1] = b
      /\ \A i \in 1..Len(chain) : chain'[i] = chain[i]
      /\ chain' # <<>> /\ DOMAIN chain' = 1..(Len(chain) + 1) /\ DOMAIN chain = 1..Len(chain)
  BY <1>3, <1>4
<1>6. cpc' = cpc /\ loc' = loc /\ out' = out
  BY <1>3 DEF consumer
<1>7. /\ SameIndex /\ (\A n : At(off, n)' = At(off, n))
      /\ Cap(Len(headers))' = Cap(Len(headers))
  <2>1. SameIndex
    BY <1>3 DEF SameIndex
  <2>2. Cap(Len(headers))' = Cap(Len(headers))
    BY <1>3 DEF Cap
  <2>3. QED
    BY <1>1, <2>1, <2>2, EntriesSame
<1>8. \A n : Outstanding(n)' = Outstanding(n) /\ (Unlinking(n)' <=> Unlinking(n))
  BY <1>3, ProducerOutstanding
<1>9. Fill' = Fill /\ NextNumber' = m + 1 /\ Placed' = m + 1
  <2>1. Fill' = Fill
    BY <1>3 DEF Fill
  <2>2. NextNumber' = m + 1
    <3>1. PICK i \in Nat, j \in Nat : i = Fill /\ j = Len(chain)
      BY <1>4
    <3>2. m = i + j /\ Fill' + Len(chain') = i + (j + 1)
      BY <1>4, <1>5, <2>1, <3>1
    <3>3. NextNumber' = Fill' + Len(chain')
      BY DEF NextNumber
    <3>4. QED
      BY <3>1, <3>2, <3>3
  <2>3. Placed' = NextNumber' - undone' + (IF ppc' \in {"block", "publish"} THEN 1 ELSE 0)
    BY DEF Placed
  <2>4. Placed' = m + 1
    BY <1>3, <1>4, <2>2, <2>3
  <2>5. QED
    BY <2>1, <2>2, <2>4
<1>10. Alive' = Alive \cup {m}
  <2>1. Published' = Published \cup {m}
    BY <1>2, <1>3, <1>4, <1>9, SMTT(30) DEF Published
  <2>2. m * BlockSize \in Outstanding(m)
    BY <1>1, <1>4, OutstandingFacts
  <2>3. QED
    BY <1>8, <2>1, <2>2 DEF Alive
<1>11. Kept' = Alive \cup {m}
  <2>1. chain # <<>> => Fill \in Alive
    BY <1>4 DEF Kept
  <2>2. chain = <<>> => Fill = m
    BY <1>4
  <2>3. QED
    BY <1>5, <1>9, <1>10, <2>1, <2>2 DEF Kept
<1>12. \A n \in Alive : n \in Nat /\ n < m /\ At(off, n) \in Entries /\ value[At(off, n)] \in Blocks
                       /\ At(off, n) # e /\ value'[At(off, n)] = value[At(off, n)]
                       /\ n < r /\ r <= n + Cap(Len(headers))
  <2>1. TAKE n \in Alive
  <2>2. n \in Nat /\ n < m /\ n < r
    BY <1>1, <1>2, KeptFacts
  <2>3. At(off, n) \in Entries /\ value[At(off, n)] \in Blocks
    BY <1>1, AliveEntry
  <2>4. At(off, n) # e
    BY <1>2, <2>3, BlocksAssumption
  <2>5. value'[At(off, n)] = value[At(off, n)]
    BY <1>1, <1>3, <2>3, <2>4 DEF IndexType
  <2>6. r <= n + Cap(Len(headers))
    BY <1>1, <1>4 DEF Window
  <2>7. QED
    BY <2>2, <2>3, <2>4, <2>5, <2>6
<1>13. value'[e] = b /\ \A f \in Entries : f # e => value'[f] = value[f]
  BY <1>1, <1>2, <1>3 DEF IndexType
<1>14. PICK s \in Nat :
         /\ m + 1 <= s /\ (\A n \in Alive : n < s /\ s <= n + Cap(Len(headers)))
         /\ s <= m + Cap(Len(headers))
         /\ r <= s \/ \A c \in Consumers : cpc[c] # "key"
         /\ s = IF Alive = {} THEN m + 1 ELSE r
  <2>1. CASE Alive = {}
    <3>1. \A c \in Consumers : cpc[c] # "key"
      BY <2>1, NobodyLooks DEF Before
    <3>2. Cap(Len(headers)) \in Nat \ {0}
      BY <1>1, <1>2, EntryAt
    <3>3. m + 1 \in Nat /\ m + 1 <= m + Cap(Len(headers))
      BY <3>2
    <3>4. QED
      BY <2>1, <3>1, <3>3
  <2>2. CASE Alive # {}
    <3>1. PICK n \in Alive : TRUE
      BY <2>2
    <3>2. Cap(Len(headers)) \in Nat \ {0}
      BY <1>1, <1>2, EntryAt
    <3>3. r <= m + Cap(Len(headers)) /\ m + 1 <= r
      BY <1>2, <1>12, <3>1, <3>2
    <3>4. \A i \in Alive : i < r /\ r <= i + Cap(Len(headers))
      BY <1>12
    <3>5. r <= r
      OBVIOUS
    <3>6. WITNESS r \in Nat
    <3>7. QED
      BY <2>2, <3>3, <3>4, <3>5
  <2>3. QED
    BY <2>1, <2>2
<1>15. Layout(off, s)'
  <2>1. TailRight(off)'
    BY <1>1, <1>3, <1>4, <1>9 DEF TailRight, Cap, blockIndex
  <2>2. Distinct'
    BY <1>1, <1>7, EntriesSame
  <2>3. Window(s)'
    <3>1. m < s
      BY <1>14
    <3>2. QED
      BY <1>7, <1>9, <1>11, <1>14, <3>1 DEF Window
  <2>4. Linked(off)'
    <3>1. \A n \in Alive' : value'[At(off, n)'] \in Blocks
      BY <1>2, <1>7, <1>10, <1>12, <1>13
    <3>2. ASSUME NEW f \in Entries, value'[f] \in Blocks
          PROVE  \E n \in Alive' : f = At(off, n)'
      <4>1. CASE f = e
        BY <1>2, <1>7, <1>10, <4>1
      <4>2. CASE f # e
        <5>1. \E n \in Alive : f = At(off, n)
          BY <1>1, <1>13, <3>2, <4>2 DEF Linked
        <5>2. QED
          BY <1>7, <1>10, <5>1
      <4>3. QED
        BY <4>1, <4>2
    <3>3. QED
      BY <3>1, <3>2 DEF Linked
  <2>5. Keyed(off, s)'
    <3>1. SUFFICES ASSUME NEW k \in Alive \cup {m}, NEW n \in k..(s - 1)
                   PROVE  key[At(off, n)] = n * BlockSize
      BY <1>3, <1>7, <1>11 DEF Keyed
    <3>2. CASE s = m + 1 /\ Alive = {}
      <4>1. n = m
        BY <3>1, <3>2
      <4>2. QED
        BY <1>2, <4>1
    <3>3. CASE Alive # {} /\ s = r
      <4>1. PICK i \in Alive : i <= k
        BY <1>12, <3>3
      <4>2. n \in i..(r - 1)
        BY <1>12, <3>1, <3>3, <4>1
      <4>3. QED
        BY <1>1, <1>4, <4>1, <4>2 DEF Keyed
    <3>4. QED
      BY <1>14, <3>2, <3>3
  <2>6. QED
    BY <2>1, <2>2, <2>3, <2>4, <2>5 DEF Layout
<1>16. Entering(off, s)' /\ Fresh'
  <2>1. Fresh'
    <3>1. ASSUME NEW f \in Entries, value'[f] = Junk PROVE key'[f] = INVALID_BLOCK_BASE
      <4>1. f # e
        BY <1>2, <1>13, <3>1, BlocksAssumption
      <4>2. QED
        BY <1>1, <1>2, <1>3, <1>13, <3>1, <4>1 DEF Fresh
    <3>2. QED
      BY <3>1 DEF Fresh
  <2>2. QED
    BY <1>3, <2>1 DEF Entering
<1>17. Chained(off)'
  <2>1. ASSUME NEW i \in 1..(Len(chain) + 1)
        PROVE  chain'[i] = value'[At(off, Fill + i - 1)]
    <3>1. CASE i = Len(chain) + 1
      <4>1. Fill + i - 1 = m
        BY <1>4, <3>1
      <4>2. QED
        BY <1>2, <1>5, <1>13, <3>1, <4>1
    <3>2. CASE i # Len(chain) + 1
      <4>1. i \in (undone + 1)..Len(chain) /\ i \in 1..Len(chain)
        BY <1>4, <3>2
      <4>2. PICK n \in Alive : n = Fill + i - 1
        BY <1>1, <4>1, ChainNumber, ChainAlive
      <4>3. QED
        BY <1>1, <1>5, <1>12, <4>1, <4>2 DEF Chained
    <3>3. QED
      BY <3>1, <3>2
  <2>2. QED
    BY <1>3, <1>4, <1>5, <1>7, <1>9, <2>1 DEF Chained
<1>18. Tailed(off)'
  <2>1. ASSUME tailIndex % BlockSize # 0 PROVE tailBlock = value'[At(off, Fill - 1)]
    BY <1>1, <1>3, <1>12, <2>1, TailAlive DEF Tailed
  <2>2. QED
    BY <1>3, <1>7, <1>9, <2>1 DEF Tailed
<1>19. Found(off, s)'
  BY <1>3, <1>7, <1>12, <1>14, FoundProducer
<1>20. Settled' /\ Delivered'
  BY <1>1, <1>3, <1>6, <1>8 DEF Settled, Here, Delivered, Unmoved
<1>21. Filled(off)'
  <2>1. \A i \in Int : Present(i)' <=> Present(i)
    BY <1>3, <1>6 DEF Present, Unmoved
  <2>2. ASSUME NEW n \in Alive', NEW t \in Slots
        PROVE  elements[value'[At(off, n)]][t] =
                 IF Present(n * BlockSize + t)' THEN n * BlockSize + t ELSE Gone
    <3>1. n \in Nat /\ t \in Nat /\ n * BlockSize \in Nat /\ n * BlockSize + t \in Int
      BY <1>10, <1>12, SizeAssumption DEF Slots
    <3>2. CASE n = m
      <4>1. tailIndex \in Nat /\ tailIndex <= n * BlockSize
        <5>1. Fill * BlockSize <= n * BlockSize /\ tailIndex <= Fill * BlockSize
              /\ Fill * BlockSize \in Nat /\ tailIndex \in Nat
          BY <1>1, <1>4, <3>1, <3>2, BlockNumbers, Times
        <5>2. QED
          BY <3>1, <5>1
      <4>2. ~Present(n * BlockSize + t)
        BY <1>3, <3>1, <4>1 DEF Present
      <4>3. elements[b][t] = Gone
        BY <1>1, <1>2 DEF Filled, Indexed
      <4>4. QED
        BY <1>2, <1>13, <2>1, <3>1, <3>2, <4>2, <4>3
    <3>3. CASE n # m
      BY <1>1, <1>10, <1>12, <2>1, <3>1, <3>3 DEF Filled
    <3>4. QED
      BY <3>2, <3>3
  <2>3. ASSUME NEW d \in Blocks, \A f \in Entries : value'[f] # d, NEW t \in Slots
        PROVE  elements[d][t] = Gone
    <3>1. \A f \in Entries : value[f] # d
      BY <1>2, <1>13, <2>3, BlocksAssumption
    <3>2. QED
      BY <1>1, <3>1 DEF Filled
  <2>4. QED
    BY <1>3, <1>7, <2>2, <2>3 DEF Filled
<1>22. Counted(off)'
  <2>1. completed[b] = BlockSize - Cardinality(Outstanding(m))
    <3>1. PICK x \in Int : x = m * BlockSize
      BY <1>2, SizeAssumption
    <3>2. Outstanding(m) = x..(x + BlockSize - 1)
      BY <1>1, <1>4, <3>1, OutstandingFacts
    <3>3. Cardinality(Outstanding(m)) = BlockSize
      <4>1. x + BlockSize - 1 \in Int /\ x <= x + BlockSize - 1
            /\ (x + BlockSize - 1) - x + 1 = BlockSize
        BY <3>1, SizeAssumption
      <4>2. QED
        BY <3>1, <3>2, <4>1, FS_Interval
    <3>4. QED
      BY <1>2, <3>3, SizeAssumption
  <2>2. QED
    BY <1>1, <1>2, <1>3, <1>7, <1>8, <1>10, <1>12, <1>13, <2>1 DEF Counted
<1>23. PlacedOnce'
  <2>1. Indexed' = Indexed \cup {b} /\ Leaving' = Leaving
    <3>1. \A f \in Entries : value[f] \in Blocks => value'[f] = value[f]
      BY <1>2, <1>13, BlocksAssumption
    <3>2. QED
      BY <1>2, <1>6, <1>13, <3>1 DEF Indexed, Leaving
  <2>2. Withdrawn' = {} /\ Withdrawn = {}
    BY <1>3, <1>4 DEF Withdrawn
  <2>3. newBlock = b /\ newBlock' = None /\ free' = free /\ None \notin Blocks
        /\ free \subseteq Blocks
    BY <1>1, <1>2, <1>3, BlocksAssumption DEF Shape, MemoryType
  <2>4. PlacedOnce!1' /\ PlacedOnce!2' /\ PlacedOnce!3' /\ PlacedOnce!4' /\ PlacedOnce!5'
    <3>1. PlacedOnce!1'
      BY <1>1, <1>2, <2>1, <2>2, <2>3 DEF PlacedOnce
    <3>2. None \notin free /\ None \notin Leaving /\ None \notin Indexed
      BY <2>3 DEF Leaving, Indexed
    <3>3. QED
      BY <1>1, <1>2, <2>1, <2>2, <2>3, <3>1, <3>2 DEF PlacedOnce
  <2>5. \A f, g \in Entries : value'[f] = value'[g] /\ value'[f] \in Blocks => f = g
    <3>1. \A f \in Entries : value[f] # b
      BY <1>2 DEF Indexed
    <3>2. QED
      BY <1>1, <1>13, <3>1 DEF PlacedOnce
  <2>6. \A i, j \in DOMAIN chain' : chain'[i] = chain'[j] => i = j
    <3>1. ASSUME NEW i \in 1..Len(chain) PROVE chain'[i] # b
      <4>1. i \in (undone + 1)..Len(chain)
        BY <1>4
      <4>2. PICK n \in Alive : n = Fill + i - 1
        BY <1>1, <4>1, ChainNumber, ChainAlive
      <4>3. chain'[i] = value[At(off, n)]
        BY <1>1, <1>5, <4>1, <4>2 DEF Chained
      <4>4. QED
        BY <1>2, <1>12, <4>3 DEF Indexed
    <3>2. QED
      BY <1>1, <1>4, <1>5, <3>1 DEF PlacedOnce
  <2>7. QED
    BY <1>1, <1>6, <2>4, <2>5, <2>6 DEF PlacedOnce
<1>24. QED
  BY <1>15, <1>16, <1>17, <1>18, <1>19, <1>20, <1>21, <1>22, <1>23 DEF Deep

\* The position that is computed from a block's number and the key at the tail.
LEMMA PositionRight ==
  ASSUME IndexType, NEW off \in Offsets, NEW h \in DOMAIN headers, NEW u \in Int, NEW k \in Int
  PROVE  PositionOf(u * BlockSize, h, (k + off[h]) % Cap(h), k * BlockSize) = (u + off[h]) % Cap(h)
<1>1. BlockSize \in Nat \ {0} /\ u * BlockSize \in Int /\ k * BlockSize \in Int
  BY SizeAssumption
<1>2. off[h] \in Int /\ Cap(h) \in Nat \ {0}
  <2>1. h \in Nat
    BY DEF IndexType
  <2>2. QED
    BY <2>1, CapRange DEF Offsets
<1>3. PICK d \in Int : d = u - k
  OBVIOUS
<1>4. (u * BlockSize - k * BlockSize) \div BlockSize = d
  <2>1. PICK x \in Int, y \in Int : x = u * BlockSize /\ y = k * BlockSize
    BY <1>1
  <2>2. d * BlockSize \in Int /\ (d + k) * BlockSize = d * BlockSize + k * BlockSize /\ d + k = u
    BY <1>1, <1>3, Times
  <2>3. PICK z \in Int : z = d * BlockSize
    BY <2>2
  <2>4. x - y = z
    <3>1. x = z + y
      BY <2>1, <2>2, <2>3, Zenon
    <3>2. QED
      BY <3>1
  <2>5. z \div BlockSize = d
    BY <1>1, <2>3, Quotient
  <2>6. QED
    BY <2>1, <2>4, <2>5
<1> DEFINE size == Cap(h)  o == off[h]
<1>5. PICK a \in Int : a = k + o
  BY <1>2
<1>6. ((a % size) + d) % size = (a + d) % size
  BY <1>2, <1>5, ModAdd
<1>7. a + d = u + o
  BY <1>2, <1>3, <1>5
<1>8. PositionOf(u * BlockSize, h, a % size, k * BlockSize) = ((a % size) + d) % size
  BY <1>4, Zenon DEF PositionOf, Cap
<1>9. QED
  BY <1>5, <1>6, <1>7, <1>8, Zenon

\* So the one Undo computes is that of the first block still published.
LEMMA UndoEntry ==
  ASSUME Frame, NEW off \in Offsets, NEW r \in Nat, Deep(off, r),
         ppc = "undo", undone < Len(chain)
  PROVE  blockIndex.index[PositionOf(FirstBase(tailIndex) + undone * BlockSize, Len(headers),
             blockIndex.tail, key[blockIndex.index[blockIndex.tail]])]
           = At(off, Fill + undone)
<1>1. /\ Shape /\ IndexType /\ TailRight(off) /\ Keyed(off, r) /\ Window(r)
  BY DEF Frame, Deep, Layout, Shape
<1>2. /\ Fill \in Nat /\ undone \in Nat /\ Len(chain) \in Nat /\ Placed = Fill + Len(chain) - undone
      /\ BlockSize \in Nat \ {0} /\ FirstBase(tailIndex) = Fill * BlockSize
  BY <1>1, BlockNumbers DEF Placed, NextNumber
<1>3. PICK u \in Nat, k \in Nat : u = Fill + undone /\ k = Placed - 1
  <2>1. Placed \in Nat /\ Placed > 0
    BY <1>2
  <2>2. Placed - 1 \in Nat /\ Fill + undone \in Nat
    BY <1>2, <2>1
  <2>3. QED
    BY <2>2
<1>4. Fill \in Kept /\ k \in Fill..(r - 1)
  <2>1. chain # <<>>
    BY <1>2
  <2>2. Placed <= r /\ Placed \in Nat
    BY <1>1, BlockNumbers DEF Window
  <2>3. QED
    BY <1>2, <1>3, <2>1, <2>2 DEF Kept
<1>5. key[blockIndex.index[blockIndex.tail]] = k * BlockSize
  <2>1. blockIndex.index[blockIndex.tail] = At(off, Placed - 1)
    BY <1>1, TailEntry
  <2>2. key[At(off, k)] = k * BlockSize
    BY <1>1, <1>4 DEF Keyed
  <2>3. QED
    BY <1>3, <2>1, <2>2
<1>6. FirstBase(tailIndex) + undone * BlockSize = u * BlockSize
  <2>1. (Fill + undone) * BlockSize = Fill * BlockSize + undone * BlockSize
    BY <1>2, Times
  <2>2. QED
    BY <1>2, <1>3, <2>1, Zenon
<1> DEFINE h == Len(headers)
<1>7. h \in DOMAIN headers /\ blockIndex.tail = (k + off[h]) % Cap(h)
  BY <1>1, <1>3 DEF TailRight, IndexType
<1>8. PositionOf(u * BlockSize, h, blockIndex.tail, k * BlockSize) = (u + off[h]) % Cap(h)
  <2>1. PositionOf(u * BlockSize, h, (k + off[h]) % Cap(h), k * BlockSize) = (u + off[h]) % Cap(h)
    BY <1>1, <1>7, PositionRight
  <2>2. QED
    BY <1>7, <2>1, Zenon
<1>9. QED
  BY <1>3, <1>5, <1>6, <1>8, Zenon DEF At, E, blockIndex

\* A failed bulk call finds the entry of the block it takes out.
LEMMA UndoDeep ==
  ASSUME Frame, NEW off \in Offsets, NEW r \in Nat, Deep(off, r), Undo, IndexType'
  PROVE  Deep(off, r)'
<1>1. /\ Shape /\ IndexType /\ Layout(off, r) /\ Fresh /\ TailRight(off) /\ Linked(off)
      /\ Distinct /\ Window(r) /\ Keyed(off, r)
      /\ Chained(off) /\ Tailed(off) /\ Settled /\ Filled(off)
      /\ Counted(off) /\ PlacedOnce /\ Delivered /\ Found(off, r)
  BY DEF Frame, Deep, Layout, Shape
<1>2. /\ ppc = "undo" /\ undone < Len(chain) /\ undone' = undone + 1
      /\ value' = [value EXCEPT ![At(off, Fill + undone)] = None]
      /\ headers' = [headers EXCEPT ![Len(headers)].tail =
                       (blockIndex.tail - 1) % blockIndex.capacity]
      /\ UNCHANGED <<tailIndex, headIndex, elements, completed, free, key, tailBlock, ppc,
                     idxEntry, newBlock, chain, consumer>>
  <2>1. ppc = "undo" /\ undone < Len(chain)
    BY DEF Undo
  <2>2. QED
    BY <2>1, UndoEntry DEF Undo, RewindTail, blockIndex, counters, memory
<1>3. /\ Fill \in Nat /\ undone \in Nat /\ Len(chain) \in Nat /\ NextNumber = Fill + Len(chain)
      /\ NextNumber \in Nat /\ Placed = NextNumber - undone /\ chain \in Seq(Blocks)
  BY <1>1, <1>2, BlockNumbers DEF Placed, Shape, ProducerType
<1>4. PICK u \in Alive : u = Fill + undone /\ u \in Nat /\ u >= Fill
  <2>1. Fill + undone \in (Fill + undone)..(NextNumber - 1)
    BY <1>2, <1>3, SMTT(30)
  <2>2. QED
    BY <1>1, <1>3, <2>1, ChainAlive
<1> DEFINE e == At(off, u)  b == value[e]  t == (blockIndex.tail - 1) % blockIndex.capacity
<1>5. e \in Entries /\ b \in Blocks
  BY <1>1, AliveEntry
<1>6. value'[e] = None /\ \A f \in Entries : f # e => value'[f] = value[f]
  BY <1>1, <1>2, <1>4, <1>5 DEF IndexType
<1>7. /\ SameIndex /\ blockIndex.tail' = t /\ Cap(Len(headers))' = Cap(Len(headers))
      /\ Len(headers)' = Len(headers) /\ (\A n : At(off, n)' = At(off, n)) /\ Distinct'
  <2>1. /\ SameIndex /\ blockIndex.tail' = t /\ Cap(Len(headers))' = Cap(Len(headers))
        /\ Len(headers)' = Len(headers)
    BY <1>1, <1>2, NewTailRange, TailMoved
  <2>2. QED
    BY <1>1, <2>1, EntriesSame
<1>8. cpc' = cpc /\ loc' = loc /\ out' = out
  BY <1>2 DEF consumer
<1>9. \A n : Outstanding(n)' = Outstanding(n) /\ (Unlinking(n)' <=> Unlinking(n))
  BY <1>2, ProducerOutstanding
<1>10. Fill' = Fill /\ NextNumber' = NextNumber /\ Placed' = Placed - 1
  <2>1. Fill' = Fill /\ NextNumber' = NextNumber
    BY <1>2 DEF Fill, NextNumber
  <2>2. Placed' = NextNumber - (undone + 1)
    BY <1>2, <1>3, <2>1 DEF Placed
  <2>3. QED
    BY <1>3, <2>1, <2>2
<1>11. Alive' = Alive \ {u} /\ Kept' \subseteq Kept
  <2>1. Published' = Published \ {u}
    <3>1. Published' = 0..(Fill - 1) \cup (u + 1)..(NextNumber - 1)
      <4>1. Fill + (undone + 1) = u + 1
        BY <1>3, <1>4
      <4>2. QED
        BY <1>2, <1>10, <4>1 DEF Published
    <3>2. Published = 0..(Fill - 1) \cup u..(NextNumber - 1)
      BY <1>4 DEF Published
    <3>3. u..(NextNumber - 1) \ {u} = (u + 1)..(NextNumber - 1)
      BY <1>3, <1>4
    <3>4. u \notin 0..(Fill - 1)
      BY <1>3, <1>4
    <3>5. QED
      BY <3>1, <3>2, <3>3, <3>4
  <2>2. Alive' = Alive \ {u}
    BY <1>9, <2>1 DEF Alive
  <2>3. QED
    BY <1>2, <1>10, <2>2 DEF Kept
<1>12. \A n \in Alive' : /\ n \in Alive /\ n \in Nat /\ At(off, n) \in Entries /\ At(off, n) # e
                         /\ value[At(off, n)] \in Blocks /\ value'[At(off, n)] = value[At(off, n)]
  <2>1. TAKE n \in Alive'
  <2>2. n \in Alive /\ n # u
    BY <1>11
  <2>3. At(off, n) \in Entries /\ value[At(off, n)] \in Blocks /\ n \in Nat
    BY <1>1, <2>2, AliveEntry
  <2>4. At(off, n) # e
    BY <1>1, <2>2, AliveApart
  <2>5. QED
    BY <1>6, <2>2, <2>3, <2>4
<1> HIDE DEF e, b, t
<1>13. Layout(off, r)'
  <2>1. TailRight(off)'
    <3>1. t = (Placed - 2 + off[Len(headers)]) % Cap(Len(headers))
      BY <1>1, TailEntry DEF t
    <3>2. off[Len(headers)] \in Int /\ Placed \in Int
      BY <1>1, <1>3, EntryAt
    <3>3. Placed' - 1 + off[Len(headers)] = Placed - 2 + off[Len(headers)]
      BY <1>10, <3>2
    <3>4. QED
      BY <1>7, <3>1, <3>3 DEF TailRight
  <2>2. Window(r)'
    <3>1. Placed' <= r
      BY <1>1, <1>3, <1>10 DEF Window
    <3>2. QED
      BY <1>1, <1>7, <1>11, <3>1 DEF Window
  <2>3. Linked(off)'
    <3>1. \A n \in Alive' : value'[At(off, n)'] \in Blocks
      BY <1>7, <1>12
    <3>2. ASSUME NEW f \in Entries, value'[f] \in Blocks
          PROVE  \E n \in Alive' : f = At(off, n)'
      <4>1. f # e /\ value[f] \in Blocks
        BY <1>6, <3>2, BlocksAssumption
      <4>2. PICK n \in Alive : f = At(off, n)
        BY <1>1, <4>1 DEF Linked
      <4>3. n # u
        BY <4>1, <4>2 DEF e
      <4>4. QED
        BY <1>7, <1>11, <4>2, <4>3
    <3>3. QED
      BY <3>1, <3>2 DEF Linked
  <2>4. Keyed(off, r)'
    BY <1>1, <1>2, <1>7, <1>11 DEF Keyed
  <2>5. QED
    BY <1>7, <2>1, <2>2, <2>3, <2>4 DEF Layout
<1>14. Entering(off, r)' /\ Fresh'
  <2>1. \A f \in Entries : value'[f] = Junk => value[f] = Junk
    BY <1>6, BlocksAssumption
  <2>2. QED
    BY <1>1, <1>2, <2>1 DEF Entering, Fresh
<1>15. Chained(off)'
  <2>1. ASSUME NEW i \in (undone' + 1)..Len(chain)
        PROVE  chain[i] = value'[At(off, Fill + i - 1)]
    <3>1. i \in (undone + 1)..Len(chain) /\ i \in Int /\ i > undone + 1
      BY <1>2, <1>3
    <3>2. PICK n \in Alive : n = Fill + i - 1
      BY <1>1, <3>1, ChainNumber, ChainAlive
    <3>3. n # u
      BY <1>3, <1>4, <3>1, <3>2
    <3>4. n \in Alive'
      BY <1>11, <3>3
    <3>5. QED
      BY <1>1, <1>12, <3>1, <3>2, <3>4 DEF Chained
  <2>2. QED
    BY <1>2, <1>7, <1>10, <2>1 DEF Chained
<1>16. Tailed(off)'
  <2>1. ASSUME tailIndex % BlockSize # 0 PROVE tailBlock = value'[At(off, Fill - 1)]
    <3>1. PICK n \in Alive : n = Fill - 1
      BY <1>1, <2>1, TailAlive
    <3>2. n \in Alive'
      BY <1>3, <1>4, <1>11, <3>1
    <3>3. QED
      BY <1>1, <1>2, <1>12, <2>1, <3>1, <3>2 DEF Tailed
  <2>2. QED
    BY <1>2, <1>7, <1>10, <2>1 DEF Tailed
<1>17. Found(off, r)'
  <2>1. ASSUME NEW n \in Alive, n < Fill PROVE value'[At(off, n)] = value[At(off, n)]
    <3>1. n # u
      BY <1>3, <1>4, <2>1
    <3>2. QED
      BY <1>11, <1>12, <3>1
  <2>2. QED
    BY <1>2, <1>7, <2>1, FoundProducer
<1>18. Settled' /\ Delivered'
  BY <1>1, <1>2, <1>8, <1>9 DEF Settled, Here, Delivered, Unmoved
<1>19. Filled(off)'
  <2>1. \A i \in Int : Present(i)' <=> Present(i)
    BY <1>2, <1>8 DEF Present, Unmoved
  <2>2. ASSUME NEW n \in Alive', NEW s \in Slots
        PROVE  elements[value'[At(off, n)]][s] =
                 IF Present(n * BlockSize + s)' THEN n * BlockSize + s ELSE Gone
    <3>1. n * BlockSize + s \in Int
      <4>1. n \in Int /\ s \in Int /\ n * BlockSize \in Int
        BY <1>12, SizeAssumption DEF Slots
      <4>2. QED
        BY <4>1
    <3>2. QED
      BY <1>1, <1>12, <2>1, <3>1 DEF Filled
  <2>3. ASSUME NEW d \in Blocks, \A f \in Entries : value'[f] # d, NEW s \in Slots
        PROVE  elements[d][s] = Gone
    <3>1. CASE d = b
      <4>1. elements[b][s] = IF Present(u * BlockSize + s) THEN u * BlockSize + s ELSE Gone
        BY <1>1 DEF Filled, b, e
      <4>2. ~Present(u * BlockSize + s)
        <5>1. /\ tailIndex \in Nat /\ Fill * BlockSize \in Nat /\ tailIndex <= Fill * BlockSize
              /\ BlockSize \in Nat \ {0}
          BY <1>1, BlockNumbers
        <5>2. Fill * BlockSize <= u * BlockSize /\ u * BlockSize \in Int /\ s \in Nat
          BY <1>3, <1>4, <5>1, Times DEF Slots
        <5>3. QED
          BY <1>2, <5>1, <5>2 DEF Present
      <4>3. QED
        BY <3>1, <4>1, <4>2
    <3>2. CASE d # b
      <4>1. \A f \in Entries : value[f] # d
        BY <1>6, <2>3, <3>2 DEF b
      <4>2. QED
        BY <1>1, <4>1 DEF Filled
    <3>3. QED
      BY <3>1, <3>2
  <2>4. QED
    BY <1>2, <1>7, <2>2, <2>3 DEF Filled
<1>20. Counted(off)'
  BY <1>1, <1>2, <1>7, <1>9, <1>12 DEF Counted
<1>21. PlacedOnce'
  <2>1. Indexed' = Indexed \ {b} /\ b \in Indexed
    <3>1. \A f \in Entries : f # e => value[f] # b
      BY <1>1, <1>5 DEF PlacedOnce, b
    <3>2. \A d \in Blocks : (\E f \in Entries : value'[f] = d) <=> d # b /\ \E f \in Entries : value[f] = d
      BY <1>5, <1>6, <3>1, BlocksAssumption DEF b
    <3>3. QED
      BY <1>5, <3>2 DEF Indexed, b
  <2>2. Leaving' = Leaving
    BY <1>8 DEF Leaving
  <2>3. Withdrawn' = Withdrawn \cup {b}
    <3>1. chain[undone + 1] = b
      <4>1. undone + 1 \in (undone + 1)..Len(chain) /\ Fill + (undone + 1) - 1 = u
        BY <1>2, <1>3, <1>4
      <4>2. QED
        BY <1>1, <4>1 DEF Chained, b, e
    <3>2. 1..(undone + 1) = 1..undone \cup {undone + 1}
      BY <1>3
    <3>3. QED
      BY <1>2, <3>1, <3>2 DEF Withdrawn
  <2>4. newBlock' = newBlock /\ free' = free /\ chain' = chain
    BY <1>2
  <2>5. PlacedOnce!1' /\ PlacedOnce!2' /\ PlacedOnce!3' /\ PlacedOnce!4' /\ PlacedOnce!5'
    BY <1>1, <1>5, <2>1, <2>2, <2>3, <2>4 DEF PlacedOnce
  <2>6. \A f, g \in Entries : value'[f] = value'[g] /\ value'[f] \in Blocks => f = g
    BY <1>1, <1>6, BlocksAssumption DEF PlacedOnce
  <2>7. QED
    BY <1>1, <1>8, <2>4, <2>5, <2>6 DEF PlacedOnce
<1>22. QED
  BY <1>13, <1>14, <1>15, <1>16, <1>17, <1>18, <1>19, <1>20, <1>21 DEF Deep

\* What a step of the producer keeps that leaves the index alone.
LEMMA QuietProducer ==
  ASSUME Frame, IndexType', NEW off \in Offsets, NEW r \in Nat, Deep(off, r),
         UNCHANGED <<headIndex, headers, key, value, completed, newBlock, consumer>>,
         Published' = Published, Kept' \subseteq Kept \/ UNCHANGED <<tailIndex, chain>>, Placed' = Placed,
         ppc \notin {"advance", "block", "publish"}, ppc' \notin {"advance", "block", "publish"}
  PROVE  /\ SameIndex /\ SameBlocks /\ (\A n : At(off, n)' = At(off, n)) /\ Alive' = Alive
         /\ Layout(off, r)' /\ Entering(off, r)' /\ Fresh' /\ Found(off, r)'
         /\ Settled' /\ Delivered' /\ Counted(off)'
<1>1. /\ Shape /\ IndexType /\ Layout(off, r) /\ Fresh /\ TailRight(off) /\ Linked(off)
      /\ Settled /\ Counted(off) /\ Delivered /\ Window(r)
  BY DEF Frame, Deep, Layout, Shape
<1>2. SameIndex /\ SameBlocks /\ \A n : At(off, n)' = At(off, n)
  BY <1>1, SameHeaders
<1>3. cpc' = cpc /\ loc' = loc /\ out' = out
  BY DEF consumer
<1>4. \A n : Outstanding(n)' = Outstanding(n) /\ (Unlinking(n)' <=> Unlinking(n))
  BY ProducerOutstanding
<1>5. Alive' = Alive
  BY <1>4 DEF Alive
<1>6. Kept' \subseteq Kept
  BY <1>5 DEF Kept, Fill
<1>7. TailRight(off)'
  BY <1>1 DEF TailRight, Cap, blockIndex
<1>8. Layout(off, r)'
  BY <1>1, <1>2, <1>5, <1>6, <1>7, LayoutFrame DEF Window
<1>9. Entering(off, r)' /\ Fresh'
  BY <1>1 DEF Entering, Fresh
<1>10. Found(off, r)'
  BY <1>2, FoundProducer
<1>11. Settled' /\ Delivered'
  BY <1>1, <1>3, <1>4 DEF Settled, Here, Delivered, Unmoved
<1>12. Counted(off)'
  BY <1>1, <1>2, <1>4, <1>5, CountedFrame
<1>13. QED
  BY <1>2, <1>5, <1>8, <1>9, <1>10, <1>11, <1>12

\* The blocks it has taken out go back to the pool.
LEMMA GiveBackDeep ==
  ASSUME Frame, NEW off \in Offsets, NEW r \in Nat, Deep(off, r), GiveBack, IndexType'
  PROVE  Deep(off, r)'
<1>1. /\ Shape /\ Linked(off) /\ Tailed(off) /\ Filled(off) /\ PlacedOnce
  BY DEF Frame, Deep, Layout
<1>2. /\ ppc = "undo" /\ undone = Len(chain) /\ chain' = <<>> /\ undone' = 0 /\ ppc' = "idle"
      /\ free' = free \cup {chain[i] : i \in DOMAIN chain}
      /\ UNCHANGED <<tailIndex, headIndex, headers, key, value, elements, completed, tailBlock,
                     idxEntry, newBlock, consumer>>
  BY DEF GiveBack, EndCall, counters, index
<1>3. /\ Fill \in Nat /\ Len(chain) \in Nat /\ NextNumber = Fill + Len(chain)
      /\ chain \in Seq(Blocks) /\ DOMAIN chain = 1..Len(chain) /\ Len(<<>>) = 0
  BY <1>1, BlockNumbers DEF Shape, ProducerType
<1>4. Fill' = Fill /\ NextNumber' = Fill
  BY <1>2, <1>3 DEF Fill, NextNumber
<1>5. Published' = Published
  <2>1. (Fill + Len(chain))..(Fill + Len(chain) - 1) = {}
    BY <1>3
  <2>2. Published = 0..(Fill - 1)
    BY <1>2, <1>3, <2>1 DEF Published
  <2>3. Fill + 0 = Fill /\ Fill..(Fill - 1) = {}
    BY <1>3
  <2>4. Published' = 0..(Fill - 1)
    BY <1>2, <1>4, <2>3 DEF Published
  <2>5. QED
    BY <2>2, <2>4
<1>6. Placed' = Placed
  BY <1>2, <1>3, <1>4 DEF Placed
<1>7. Kept' \subseteq Kept
  <2>1. Alive' = Alive
    BY <1>2, <1>5, ProducerOutstanding DEF Alive
  <2>2. QED
    BY <1>2, <2>1 DEF Kept
<1>8. /\ SameIndex /\ SameBlocks /\ (\A n : At(off, n)' = At(off, n)) /\ Alive' = Alive
      /\ Layout(off, r)' /\ Entering(off, r)' /\ Fresh' /\ Found(off, r)'
      /\ Settled' /\ Delivered' /\ Counted(off)'
  BY <1>2, <1>5, <1>6, <1>7, QuietProducer
<1>9. cpc' = cpc /\ loc' = loc
  BY <1>2 DEF consumer
<1>10. Filled(off)'
  <2>1. \A i \in Int : Present(i)' <=> Present(i)
    BY <1>2, <1>9 DEF Present, Unmoved
  <2>2. QED
    BY <1>1, <1>2, <1>8, <2>1, FilledFrame
<1>11. Chained(off)'
  BY <1>2, <1>3 DEF Chained
<1>12. Tailed(off)'
  BY <1>1, <1>2, <1>4, <1>8 DEF Tailed
<1>13. PlacedOnce'
  <2>1. free' = free \cup Withdrawn
    BY <1>2, <1>3 DEF Withdrawn
  <2>2. Withdrawn' = {}
    BY <1>2 DEF Withdrawn
  <2>3. Indexed' = Indexed /\ Leaving' = Leaving /\ newBlock' = newBlock
    BY <1>2, <1>9 DEF Indexed, Leaving
  <2>4. PlacedOnce!1' /\ PlacedOnce!2' /\ PlacedOnce!3' /\ PlacedOnce!4' /\ PlacedOnce!5'
    BY <1>1, <2>1, <2>2, <2>3 DEF PlacedOnce
  <2>5. \A i, j \in DOMAIN chain' : chain'[i] = chain'[j] => i = j
    BY <1>2
  <2>6. QED
    BY <1>1, <1>2, <1>9, <2>4, <2>5 DEF PlacedOnce
<1>14. QED
  BY <1>8, <1>10, <1>11, <1>12, <1>13 DEF Deep

\* When everything is there, element i of the call goes to the block of its number.
LEMMA TargetRight ==
  ASSUME Frame, NEW off \in Offsets, NEW r \in Nat, Deep(off, r), ppc = "construct",
         NEW i \in tailIndex..(goal - 1)
  PROVE  /\ Num(i) \in Alive /\ Target(i) = value[At(off, Num(i))]
<1>1. /\ Shape /\ Chained(off) /\ Tailed(off) /\ ProducerInv /\ goal \in Nat
  BY DEF Frame, Deep, Shape, ProducerType
<1>2. /\ Fill \in Nat /\ Len(chain) \in Nat /\ NextNumber = Fill + Len(chain) /\ NextNumber \in Nat
      /\ undone = 0 /\ tailIndex \in Nat /\ tailIndex < goal /\ goal <= NextNumber * BlockSize
      /\ FirstBase(tailIndex) = Fill * BlockSize /\ Fill * BlockSize \in Nat
      /\ tailIndex <= Fill * BlockSize /\ Fill * BlockSize < tailIndex + BlockSize
      /\ BlockSize \in Nat \ {0}
  BY <1>1, BlockNumbers DEF ProducerInv
<1>3. i \in Nat /\ tailIndex <= i /\ i < NextNumber * BlockSize /\ NextNumber * BlockSize \in Nat
  BY <1>1, <1>2
<1>4. PICK n \in Int : n = Num(i)
  BY <1>3, BlockOf
<1>5. n * BlockSize <= i /\ i < n * BlockSize + BlockSize /\ n < NextNumber /\ n * BlockSize \in Int
  <2>1. n * BlockSize <= i /\ i < n * BlockSize + BlockSize /\ n * BlockSize \in Int
    BY <1>3, <1>4, BlockOf
  <2>2. ~(NextNumber <= Num(i))
    BY <1>2, <1>3, InBlock
  <2>3. QED
    BY <1>2, <1>4, <2>1, <2>2
<1>6. CASE i < Fill * BlockSize
  <2>1. tailIndex % BlockSize # 0
    BY <1>1, <1>2, <1>3, <1>6, FirstBaseBounds
  <2>2. n = Fill - 1
    <3>1. (Fill - 1) * BlockSize = Fill * BlockSize - BlockSize /\ Fill - 1 \in Int
      BY <1>2, Times
    <3>2. (Fill - 1) * BlockSize <= i /\ i < (Fill - 1) * BlockSize + BlockSize
      BY <1>2, <1>3, <1>6, <3>1
    <3>3. QED
      BY <1>3, <1>4, <3>1, <3>2, InBlock
  <2>3. Target(i) = tailBlock
    BY <1>2, <1>6 DEF Target
  <2>4. QED
    BY <1>1, <1>4, <2>1, <2>2, <2>3, TailAlive DEF Tailed
<1>7. CASE ~(i < Fill * BlockSize)
  <2>1. n >= Fill
    BY <1>2, <1>3, <1>4, <1>7, InBlock
  <2>2. PICK k \in Nat : k = n - Fill
    BY <1>2, <1>5, <2>1
  <2>3. (i - Fill * BlockSize) \div BlockSize = k
    <3>1. k * BlockSize = n * BlockSize - Fill * BlockSize
      <4>1. (k + Fill) * BlockSize = k * BlockSize + Fill * BlockSize /\ k + Fill = n
            /\ k * BlockSize \in Int
        BY <1>2, <2>2, Times
      <4>2. PICK x \in Int, y \in Int, z \in Int :
                x = n * BlockSize /\ y = k * BlockSize /\ z = Fill * BlockSize
        BY <1>2, <1>5, <4>1
      <4>3. x = y + z
        BY <4>1, <4>2
      <4>4. y = x - z
        BY <4>3
      <4>5. QED
        BY <4>2, <4>4
    <3>2. PICK j \in Int : j = i - Fill * BlockSize
      BY <1>2, <1>3
    <3>3. k * BlockSize <= j /\ j < k * BlockSize + BlockSize
      BY <1>2, <1>3, <1>5, <3>1, <3>2
    <3>4. j \div BlockSize = k
      <4>1. k \in Int /\ BlockSize \in Nat \ {0}
        BY <1>2
      <4>2. QED
        BY <3>3, <4>1, Quotient
    <3>5. QED
      BY <3>2, <3>4, Zenon
  <2>4. Target(i) = chain[k + 1]
    BY <1>2, <1>7, <2>3 DEF Target
  <2>5. k + 1 \in (undone + 1)..Len(chain) /\ Fill + (k + 1) - 1 = n
    BY <1>2, <1>5, <2>2
  <2>6. chain[k + 1] = value[At(off, n)]
    BY <1>1, <2>5 DEF Chained
  <2>7. n \in (Fill + undone)..(NextNumber - 1)
    BY <1>2, <1>5, <2>1
  <2>8. QED
    BY <1>1, <1>4, <2>4, <2>6, <2>7, ChainAlive
<1>8. QED
  BY <1>6, <1>7

\* Elements are constructed in slots of their own.
LEMMA ConstructDeep ==
  ASSUME Frame, NEW off \in Offsets, NEW r \in Nat, Deep(off, r), Construct, IndexType'
  PROVE  Deep(off, r)'
<1>1. /\ Shape /\ IndexType /\ Linked(off) /\ Tailed(off) /\ Chained(off) /\ Filled(off)
      /\ PlacedOnce /\ MemoryType /\ Distinct /\ Window(r)
  BY DEF Frame, Deep, Layout, Shape
<1>2. /\ ppc = "construct" /\ ppc' = "commit" /\ goal' = goal
      /\ tailBlock' = IF chain = <<>> THEN tailBlock ELSE chain[Len(chain)]
      /\ UNCHANGED <<tailIndex, headIndex, headers, key, value, completed, free,
                     idxEntry, newBlock, chain, undone, consumer>>
  BY DEF Construct, counters, index
<1>3. /\ tailIndex \in Nat /\ goal \in Nat /\ headIndex \in Nat /\ headIndex <= tailIndex
      /\ tailIndex < goal
  BY <1>1, <1>2, BlockNumbers DEF Shape, ProducerType, ProducerInv
<1>4. Fill' = Fill /\ NextNumber' = NextNumber /\ Published' = Published /\ Placed' = Placed
  BY <1>2 DEF Fill, NextNumber, Published, Placed
<1>5. /\ SameIndex /\ SameBlocks /\ (\A n : At(off, n)' = At(off, n)) /\ Alive' = Alive
      /\ Layout(off, r)' /\ Entering(off, r)' /\ Fresh' /\ Found(off, r)'
      /\ Settled' /\ Delivered' /\ Counted(off)'
  BY <1>2, <1>4, QuietProducer
<1>6. cpc' = cpc /\ loc' = loc
  BY <1>2 DEF consumer
<1>7. Chained(off)'
  BY <1>1, <1>2, <1>5, ChainedFrame
<1>8. Tailed(off)'
  BY <1>1, <1>2, <1>4, <1>5 DEF Tailed
<1>9. PlacedOnce'
  <2>1. Leaving' = Leaving
    BY <1>6 DEF Leaving
  <2>2. QED
    BY <1>1, <1>2, <1>5, <1>6, <2>1, PlacedFrame DEF PlacedOnce
<1> DEFINE mine(b, s) == {i \in tailIndex..(goal - 1) : Target(i) = b /\ i % BlockSize = s}
<1>10. ASSUME NEW b \in Blocks, NEW s \in Slots
       PROVE  elements'[b][s] = IF mine(b, s) = {} THEN elements[b][s]
                                ELSE CHOOSE i \in mine(b, s) : TRUE
  BY DEF Construct
<1>11. ASSUME NEW n \in Alive, NEW s \in Slots
       PROVE  elements'[value[At(off, n)]][s] =
                IF Present(n * BlockSize + s)' THEN n * BlockSize + s ELSE Gone
  <2>1. n \in Nat /\ At(off, n) \in Entries /\ value[At(off, n)] \in Blocks
    BY <1>1, AliveEntry
  <2>2. PICK x \in Nat : x = n * BlockSize + s
    <3>1. n * BlockSize \in Nat /\ s \in Nat
      BY <2>1, SizeAssumption DEF Slots
    <3>2. QED
      BY <3>1
  <2>3. Num(x) = n /\ x % BlockSize = s
    BY <2>1, <2>2, BlockStart
  <2>4. ASSUME NEW i \in tailIndex..(goal - 1)
        PROVE  Target(i) = value[At(off, n)] /\ i % BlockSize = s <=> i = x
    <3>1. Num(i) \in Alive /\ Target(i) = value[At(off, Num(i))]
      BY <1>2, TargetRight
    <3>2. Target(i) = value[At(off, n)] <=> Num(i) = n
      <4>1. At(off, Num(i)) \in Entries
        BY <1>1, <3>1, AliveEntry
      <4>2. Num(i) # n => At(off, Num(i)) # At(off, n)
        BY <1>1, <3>1, AliveApart
      <4>3. QED
        BY <1>1, <2>1, <3>1, <4>1, <4>2 DEF PlacedOnce
    <3>3. i \in Int /\ i = Num(i) * BlockSize + (i % BlockSize)
      BY <1>3, BlockOf
    <3>4. QED
      BY <2>2, <2>3, <3>2, <3>3
  <2>5. CASE x \in tailIndex..(goal - 1)
    <3>1. mine(value[At(off, n)], s) = {x}
      BY <2>4, <2>5
    <3>2. elements'[value[At(off, n)]][s] = x
      BY <1>10, <2>1, <3>1
    <3>3. Present(x)'
      <4>1. x < goal /\ x >= headIndex
        BY <1>3, <2>2, <2>5
      <4>2. QED
        BY <1>2, <4>1 DEF Present
    <3>4. QED
      BY <2>2, <3>2, <3>3
  <2>6. CASE x \notin tailIndex..(goal - 1)
    <3>1. mine(value[At(off, n)], s) = {}
      BY <2>4, <2>6
    <3>2. elements'[value[At(off, n)]][s] = elements[value[At(off, n)]][s]
      BY <1>10, <2>1, <3>1
    <3>3. Present(x)' <=> Present(x)
      <4>1. x < tailIndex \/ ~(x < goal)
        BY <1>3, <2>2, <2>6
      <4>2. x < tailIndex => x < goal
        BY <1>3, <2>2
      <4>3. QED
        BY <1>2, <1>6, <4>1, <4>2 DEF Present, Unmoved
    <3>4. QED
      BY <1>1, <2>2, <3>2, <3>3 DEF Filled
  <2>7. QED
    BY <2>5, <2>6
<1>12. ASSUME NEW b \in Blocks, \A e \in Entries : value[e] # b, NEW s \in Slots
       PROVE  elements'[b][s] = Gone
  <2>1. ASSUME NEW i \in tailIndex..(goal - 1) PROVE Target(i) # b
    <3>1. Num(i) \in Alive /\ Target(i) = value[At(off, Num(i))]
      BY <1>2, TargetRight
    <3>2. At(off, Num(i)) \in Entries
      BY <1>1, <3>1, AliveEntry
    <3>3. QED
      BY <1>12, <3>1, <3>2
  <2>2. mine(b, s) = {}
    BY <2>1
  <2>3. QED
    BY <1>1, <1>10, <1>12, <2>2 DEF Filled
<1>13. Filled(off)'
  BY <1>2, <1>5, <1>11, <1>12 DEF Filled
<1>14. QED
  BY <1>5, <1>7, <1>8, <1>9, <1>13 DEF Deep

\* They are there for all consumers.
LEMMA CommitDeep ==
  ASSUME Frame, NEW off \in Offsets, NEW r \in Nat, Deep(off, r), Commit, IndexType'
  PROVE  Deep(off, r)'
<1>1. /\ Shape /\ IndexType /\ Linked(off) /\ Tailed(off) /\ Chained(off) /\ Filled(off)
      /\ PlacedOnce /\ ProducerInv
  BY DEF Frame, Deep, Layout, Shape
<1>2. /\ ppc = "commit" /\ ppc' = "idle" /\ tailIndex' = goal /\ chain' = <<>>
      /\ UNCHANGED <<headIndex, headers, key, value, elements, completed, free, tailBlock,
                     idxEntry, newBlock, undone, consumer>>
  BY DEF Commit, EndCall, index, memory
<1>3. /\ tailIndex \in Nat /\ goal \in Nat /\ tailIndex < goal /\ undone = 0
      /\ Fill \in Nat /\ Len(chain) \in Nat /\ NextNumber = Fill + Len(chain)
      /\ NextNumber \in Nat /\ NextNumber * BlockSize >= goal
      /\ chain = <<>> \/ NextNumber * BlockSize - BlockSize < goal
      /\ Fill * BlockSize < tailIndex + BlockSize /\ Fill * BlockSize \in Nat
      /\ FirstBase(tailIndex) = Fill * BlockSize
      /\ BlockSize \in Nat \ {0} /\ Len(<<>>) = 0 /\ (chain = <<>> <=> Len(chain) = 0)
  BY <1>1, <1>2, BlockNumbers DEF ProducerInv, Shape, ProducerType
<1>4. Fill' = NextNumber
  <2>1. PICK x \in Nat, i \in Int : x = NextNumber * BlockSize /\ i = goal + BlockSize - 1
    BY <1>3
  <2>2. x - BlockSize < goal
    BY <1>3, <2>1
  <2>3. NextNumber * BlockSize <= i /\ i < NextNumber * BlockSize + BlockSize
    BY <1>3, <2>1, <2>2
  <2>4. Num(i) = NextNumber
    BY <1>3, <2>3, InBlock
  <2>5. QED
    BY <1>2, <2>1, <2>4 DEF Fill
<1>5. NextNumber' = NextNumber /\ Placed' = Placed
  BY <1>2, <1>3, <1>4 DEF NextNumber, Placed
<1>6. Published' = Published
  <2>1. Published = 0..(Fill - 1) \cup Fill..(NextNumber - 1)
    BY <1>3 DEF Published
  <2>2. Published' = 0..(NextNumber - 1) \cup NextNumber..(NextNumber - 1)
    BY <1>2, <1>3, <1>4, <1>5 DEF Published
  <2>3. QED
    BY <1>3, <2>1, <2>2
<1>7. Kept' \subseteq Kept
  <2>1. Alive' = Alive
    BY <1>2, <1>6, ProducerOutstanding DEF Alive
  <2>2. QED
    BY <1>2, <2>1 DEF Kept
<1>8. /\ SameIndex /\ SameBlocks /\ (\A n : At(off, n)' = At(off, n)) /\ Alive' = Alive
      /\ Layout(off, r)' /\ Entering(off, r)' /\ Fresh' /\ Found(off, r)'
      /\ Settled' /\ Delivered' /\ Counted(off)'
  BY <1>2, <1>5, <1>6, <1>7, QuietProducer
<1>9. cpc' = cpc /\ loc' = loc
  BY <1>2 DEF consumer
<1>10. Filled(off)'
  <2>1. \A i \in Int : Present(i)' <=> Present(i)
    <3>1. \A i \in Int : i < tailIndex => i < goal
      BY <1>3
    <3>2. QED
      BY <1>2, <1>9, <3>1 DEF Present, Unmoved
  <2>2. QED
    BY <1>1, <1>2, <1>8, <2>1, FilledFrame
<1>11. Chained(off)'
  BY <1>2, <1>3 DEF Chained
<1>12. Tailed(off)'
  <2>1. ASSUME goal % BlockSize # 0 PROVE tailBlock = value[At(off, NextNumber - 1)]
    <3>1. CASE chain = <<>>
      <4>1. tailIndex % BlockSize # 0
        BY <1>3, <3>1, FirstBaseBounds
      <4>2. QED
        BY <1>1, <1>3, <3>1, <4>1 DEF Tailed
    <3>2. CASE chain # <<>>
      <4>1. tailBlock = chain[Len(chain)]
        BY <1>1, <1>2, <3>2 DEF Tailed
      <4>2. Len(chain) \in (undone + 1)..Len(chain) /\ Fill + Len(chain) - 1 = NextNumber - 1
        BY <1>3, <3>2
      <4>3. QED
        BY <1>1, <4>1, <4>2 DEF Chained
    <3>3. QED
      BY <3>1, <3>2
  <2>2. QED
    BY <1>2, <1>4, <1>8, <2>1 DEF Tailed
<1>13. PlacedOnce'
  <2>1. Withdrawn = {} /\ Withdrawn' = {}
    BY <1>2, <1>3 DEF Withdrawn
  <2>2. Indexed' = Indexed /\ Leaving' = Leaving /\ newBlock' = newBlock /\ free' = free
    BY <1>2, <1>9 DEF Indexed, Leaving
  <2>3. PlacedOnce!1' /\ PlacedOnce!2' /\ PlacedOnce!3' /\ PlacedOnce!4' /\ PlacedOnce!5'
    BY <1>1, <2>1, <2>2 DEF PlacedOnce
  <2>4. \A i, j \in DOMAIN chain' : chain'[i] = chain'[j] => i = j
    BY <1>2
  <2>5. QED
    BY <1>1, <1>2, <1>9, <2>3, <2>4 DEF PlacedOnce
<1>14. QED
  BY <1>8, <1>10, <1>11, <1>12, <1>13 DEF Deep

-----------------------------------------------------------------------------
(* Steps of the consumers, one by one. *)

\* A step of a consumer that leaves the index and what is alive alone.
LEMMA IndexKept ==
  ASSUME Frame, IndexType', NEW off \in Offsets, NEW r \in Nat, Deep(off, r),
         UNCHANGED <<tailIndex, headers, key, value, producer>>, Alive' = Alive
  PROVE  /\ SameIndex /\ SameBlocks /\ (\A n : At(off, n)' = At(off, n))
         /\ Layout(off, r)' /\ Entering(off, r)' /\ Fresh' /\ Chained(off)' /\ Tailed(off)'
<1>1. /\ Shape /\ IndexType /\ Layout(off, r) /\ Fresh /\ TailRight(off) /\ Linked(off)
      /\ Window(r) /\ Entering(off, r) /\ Chained(off) /\ Tailed(off)
  BY DEF Frame, Deep, Layout, Shape
<1>2. SameIndex /\ SameBlocks /\ \A n : At(off, n)' = At(off, n)
  BY <1>1, SameHeaders
<1>3. UNCHANGED <<tailBlock, ppc, goal, idxEntry, newBlock, chain, undone>>
  BY DEF producer
<1>4. Kept' = Kept /\ NextNumber' = NextNumber /\ Placed' = Placed
  BY <1>3 DEF Kept, NextNumber, Placed, Fill
<1>5. TailRight(off)'
  BY <1>1, <1>4 DEF TailRight, Cap, blockIndex
<1>6. Layout(off, r)'
  BY <1>1, <1>2, <1>4, <1>5, LayoutFrame DEF Window
<1>7. Entering(off, r)' /\ Fresh'
  BY <1>1, <1>2, <1>3, <1>4 DEF Entering, Fresh
<1>8. Chained(off)' /\ Tailed(off)'
  BY <1>1, <1>2, <1>3, ChainedFrame, TailedFrame
<1>9. QED
  BY <1>2, <1>6, <1>7, <1>8

\* A step of a consumer that touches no block.
LEMMA QuietConsumer ==
  ASSUME Frame, IndexType', NEW off \in Offsets, NEW r \in Nat, Deep(off, r),
         NEW c \in Consumers, Others(c),
         UNCHANGED <<tailIndex, headers, key, value, elements, completed, free, producer, out>>,
         headIndex' \in Nat, headIndex <= headIndex',
         cpc[c] \notin After, cpc'[c] \notin After,
         Span(cpc'[c], loc'[c]) = Span(cpc[c], loc[c]) \cup headIndex..(headIndex' - 1),
         FoundOk(off, r, cpc[c], loc[c])'
  PROVE  Deep(off, r)'
<1>1. /\ Shape /\ IndexType /\ Layout(off, r) /\ Fresh /\ TailRight(off) /\ Linked(off)
      /\ Window(r) /\ Entering(off, r) /\ Chained(off) /\ Tailed(off) /\ Settled /\ Filled(off)
      /\ Counted(off) /\ PlacedOnce /\ Delivered /\ Found(off, r) /\ headIndex \in Nat
  BY DEF Frame, Deep, Layout, Shape, CountersType
<1>2. SameIndex /\ SameBlocks /\ \A n : At(off, n)' = At(off, n)
  BY <1>1, SameHeaders
<1>3. UNCHANGED <<tailBlock, ppc, goal, idxEntry, newBlock, chain, undone>>
  BY DEF producer
<1>4. /\ cpc[c] \notin {"empty", "unlink", "free"} /\ cpc'[c] \notin {"empty", "unlink", "free"}
      /\ \A d \in Consumers \ {c} : cpc'[d] = cpc[d] /\ loc'[d] = loc[d]
  BY DEF After, Others
<1>5. /\ Uncounted(c) = Unmoved(c) /\ Uncounted(c)' = Unmoved(c)'
      /\ Unmoved(c)' = Unmoved(c) \cup headIndex..(headIndex' - 1)
  BY <1>4 DEF Uncounted, Unmoved, Span
<1>6. \A d \in Consumers \ {c} : Uncounted(d)' = Uncounted(d) /\ Unmoved(d)' = Unmoved(d) /\ Here(d)' = Here(d)
  BY <1>4 DEF Uncounted, Unmoved, Here
<1>7. ASSUME NEW i \in Int
      PROVE  /\ i >= headIndex' \/ (\E d \in Consumers : i \in Uncounted(d)')
                <=> i >= headIndex \/ (\E d \in Consumers : i \in Uncounted(d))
             /\ i >= headIndex' \/ (\E d \in Consumers : i \in Unmoved(d)')
                <=> i >= headIndex \/ (\E d \in Consumers : i \in Unmoved(d))
  <2>1. i >= headIndex' \/ i \in headIndex..(headIndex' - 1) <=> i >= headIndex
    BY <1>1
  <2>2. QED
    BY <1>5, <1>6, <2>1
<1>8. ASSUME NEW n \in Int PROVE Outstanding(n)' = Outstanding(n) /\ (Unlinking(n)' <=> Unlinking(n))
  <2>1. n * BlockSize \in Int /\ n * BlockSize + BlockSize - 1 \in Int
    BY SizeAssumption
  <2>2. (n * BlockSize)..(n * BlockSize + BlockSize - 1) \subseteq Int
    BY <2>1
  <2>3. Outstanding(n)' = Outstanding(n)
    BY <1>7, <2>2 DEF Outstanding
  <2>4. Unlinking(n)' <=> Unlinking(n)
    BY <1>4, <1>6 DEF Unlinking
  <2>5. QED
    BY <2>3, <2>4
<1>9. Alive' = Alive
  <2>1. \A n \in Published : Outstanding(n)' = Outstanding(n) /\ (Unlinking(n)' <=> Unlinking(n))
    BY <1>1, <1>8, BlockNumbers, SMTT(30)
  <2>2. QED
    BY <1>3, <2>1, AliveSame
<1>10. Layout(off, r)' /\ Entering(off, r)' /\ Fresh' /\ Chained(off)' /\ Tailed(off)'
  BY <1>9, IndexKept
<1>11. Found(off, r)'
  <2>1. ASSUME NEW d \in Consumers \ {c} PROVE FoundOk(off, r, cpc[d], loc[d])'
    BY <1>1, <1>2, <1>4, FoundOthers
  <2>2. QED
    BY <2>1 DEF Found
<1>12. Settled'
  <2>1. \A d \in Consumers : cpc'[d] = "unlink" => cpc[d] = "unlink" /\ Here(d)' = Here(d)
    BY <1>4, <1>6
  <2>2. \A d \in Consumers : cpc[d] = "unlink" => Here(d) \in Int
    BY HereRange DEF After
  <2>3. \A d \in Consumers : cpc[d] = "unlink" => Outstanding(Here(d))' = Outstanding(Here(d))
    <3>1. TAKE d \in Consumers
    <3>2. HAVE cpc[d] = "unlink"
    <3>3. PICK n \in Int : n = Here(d)
      BY <2>2, <3>2
    <3>4. Here(d)' = n
      BY <1>4, <1>6, <3>2, <3>3
    <3>5. QED
      BY <1>8, <3>3, <3>4
  <2>4. QED
    BY <1>1, <2>1, <2>3 DEF Settled
<1>13. Filled(off)'
  <2>1. \A i \in Int : Present(i)' <=> Present(i)
    BY <1>3, <1>7 DEF Present
  <2>2. QED
    BY <1>1, <1>2, <1>9, <2>1, FilledFrame
<1>14. Counted(off)'
  <2>1. \A n \in Alive : Outstanding(n)' = Outstanding(n)
    BY <1>1, <1>8, KeptFacts
  <2>2. QED
    BY <1>1, <1>2, <1>3, <1>9, <2>1, CountedFrame
<1>15. PlacedOnce'
  <2>1. /\ \A d \in Consumers : cpc'[d] = "free" => cpc[d] = "free" /\ loc'[d] = loc[d]
        /\ \A d \in Consumers : cpc[d] = "free" => cpc'[d] = "free" /\ loc'[d] = loc[d]
    BY <1>4
  <2>2. Leaving' = Leaving
    BY <2>1 DEF Leaving
  <2>3. \A x, y \in Consumers :
           cpc'[x] = "free" /\ cpc'[y] = "free" /\ loc'[x].block = loc'[y].block => x = y
    BY <1>1, <2>1 DEF PlacedOnce
  <2>4. QED
    BY <1>1, <1>2, <1>3, <2>2, <2>3, PlacedFrame
<1>16. Delivered'
  <2>1. ASSUME NEW i \in out, NEW d \in Consumers
        PROVE  i \in 0..(headIndex' - 1) /\ i \notin Unmoved(d)'
    <3>1. i \in 0..(headIndex - 1) /\ i \notin Unmoved(d)
      BY <1>1 DEF Delivered
    <3>2. i \notin headIndex..(headIndex' - 1)
      <4>1. i \in Int /\ i < headIndex
        BY <1>1, <3>1
      <4>2. headIndex \in Int /\ headIndex' \in Int /\ headIndex' - 1 \in Int
        BY <1>1
      <4>3. QED
        BY <4>1, <4>2, NotInRange, Zenon
    <3>3. QED
      BY <1>1, <1>5, <1>6, <3>1, <3>2
  <2>2. ASSUME NEW i \in out PROVE i \in 0..(headIndex' - 1)
    <3>1. i \in 0..(headIndex - 1)
      BY <1>1 DEF Delivered
    <3>2. i \in Int /\ 0 <= i /\ i < headIndex /\ headIndex' \in Int
      BY <1>1, <3>1
    <3>3. i < headIndex'
      BY <1>1, <3>2
    <3>4. QED
      BY <3>2, <3>3
  <2>3. QED
    BY <2>1, <2>2 DEF Delivered
<1>17. QED
  BY <1>10, <1>11, <1>12, <1>13, <1>14, <1>15, <1>16 DEF Deep

\* Until it has taken its elements a consumer holds nothing.
LEMMA ClaimingDeep ==
  ASSUME Frame, Frame', NEW off \in Offsets, NEW r \in Nat, Deep(off, r), NEW c \in Consumers,
         Dequeue(c) \/ DequeueBulk(c) \/ Check(c) \/ Claim(c) \/ Reload(c)
           \/ GiveBackClaim(c) \/ Take(c)
  PROVE  Deep(off, r)'
<1>1. /\ CountersType /\ ConsumerType /\ ClaimInv /\ Hands /\ Hands' /\ IndexType'
      /\ headIndex \in Nat /\ headIndex' \in Nat
  BY DEF Frame, Shape, Claims, CountersType
<1>2. CASE Dequeue(c) \/ DequeueBulk(c) \/ Check(c) \/ Claim(c) \/ Reload(c) \/ GiveBackClaim(c)
  <2>1. /\ Others(c) /\ cpc[c] \notin Before \cup After /\ cpc'[c] \notin Before \cup After
        /\ UNCHANGED <<tailIndex, headIndex, index, memory, producer, out>>
    <3>1. CASE Dequeue(c) \/ DequeueBulk(c)
      BY <1>1, <3>1, DequeueMoves DEF Before, After, counters
    <3>2. CASE Check(c)
      BY <1>1, <3>2, CheckMoves DEF Before, After, counters
    <3>3. CASE Claim(c)
      BY <1>1, <3>3, ClaimMoves DEF Before, After
    <3>4. CASE Reload(c)
      BY <1>1, <3>4, ReloadMoves DEF Before, After, counters
    <3>5. CASE GiveBackClaim(c)
      BY <1>1, <3>5, GiveBackMoves DEF Before, After
    <3>6. QED
      BY <1>2, <3>1, <3>2, <3>3, <3>4, <3>5
  <2>2. HandOk(cpc[c], loc[c], headIndex) /\ HandOk(cpc'[c], loc'[c], headIndex')
    BY <1>1 DEF Hands, HandInv
  <2>3. loc[c].at = 0 /\ loc[c].stop = 0 /\ loc'[c].at = 0 /\ loc'[c].stop = 0
    BY <2>1, <2>2 DEF HandOk
  <2>4. Span(cpc'[c], loc'[c]) = Span(cpc[c], loc[c]) \cup headIndex..(headIndex' - 1)
    BY <1>1, <2>1, <2>3 DEF Span, After
  <2>5. FoundOk(off, r, cpc[c], loc[c])'
    BY <2>1 DEF FoundOk, Before, After
  <2>6. headIndex <= headIndex'
    BY <1>1, <2>1
  <2>7. QED
    BY <1>1, <2>1, <2>4, <2>5, <2>6, QuietConsumer DEF index, memory
<1>3. CASE Take(c)
  <2>1. headIndex + loc[c].want <= tailIndex
    BY <1>1, <1>3, TakeThere DEF Take, Goto, Frame
  <2>2. /\ Others(c) /\ UNCHANGED <<tailIndex, index, memory, producer, out>>
        /\ headIndex' = headIndex + loc[c].want /\ cpc[c] = "take" /\ cpc'[c] = "index"
        /\ loc'[c] = [loc[c] EXCEPT !.at = headIndex, !.want = 0,
                                    !.stop = headIndex + loc[c].want]
    BY <1>1, <1>3, <2>1, TakeMoves
  <2>3. loc[c] \in Locals /\ loc[c].want \in Nat /\ HandOk(cpc[c], loc[c], headIndex)
    BY <1>1, HandLocals, HandAt
  <2>4. loc[c].at = 0 /\ loc[c].stop = 0 /\ loc'[c].at = headIndex /\ loc'[c].stop = headIndex'
    BY <2>2, <2>3 DEF HandOk, Before, After, Locals
  <2>5. Span(cpc'[c], loc'[c]) = Span(cpc[c], loc[c]) \cup headIndex..(headIndex' - 1)
    BY <2>2, <2>4 DEF Span
  <2>6. FoundOk(off, r, cpc[c], loc[c])'
    BY <2>2 DEF FoundOk, After
  <2>7. cpc[c] \notin After /\ cpc'[c] \notin After /\ headIndex <= headIndex'
    BY <1>1, <2>2, <2>3 DEF After
  <2>8. QED
    BY <1>1, <2>2, <2>5, <2>6, <2>7, QuietConsumer DEF index, memory
<1>4. QED
  BY <1>2, <1>3

\* The consumer has the newest index and its tail: that of the block placed last.
LEMMA LoadIndexDeep ==
  ASSUME Frame, Frame', NEW off \in Offsets, NEW r \in Nat, Deep(off, r), NEW c \in Consumers,
         LoadIndex(c)
  PROVE  Deep(off, r)'
<1>1. /\ Shape /\ IndexType /\ ConsumerType /\ IndexType' /\ Window(r) /\ TailRight(off)
      /\ headIndex \in Nat
  BY DEF Frame, Shape, Deep, Layout, CountersType
<1>2. /\ Others(c) /\ UNCHANGED <<counters, index, memory, producer, out>>
      /\ cpc[c] = "index" /\ cpc'[c] = "key"
      /\ loc'[c] = [loc[c] EXCEPT !.header = Len(headers), !.pos = blockIndex.tail]
  BY <1>1, LoadIndexMoves
<1>3. /\ loc'[c].at = loc[c].at /\ loc'[c].stop = loc[c].stop
      /\ loc'[c].header = Len(headers) /\ loc'[c].pos = blockIndex.tail
  BY <1>1, <1>2, HandLocals DEF Locals
<1>4. FoundOk(off, r, cpc[c], loc[c])'
  <2>1. UNCHANGED <<headers, value>>
    BY <1>2 DEF index
  <2>2. PICK p, l : p = cpc'[c] /\ l = loc'[c]
    OBVIOUS
  <2>3. p = "key" /\ l.header = Len(headers) /\ l.pos = blockIndex.tail /\ LastOf(l) = LastOf(loc[c])
    BY <1>2, <1>3, <2>2 DEF LastOf
  <2>4. PICK k \in Int : k = Placed - 1
    BY <1>1, BlockNumbers
  <2>5. LastOf(loc[c]) \in Int /\ LastOf(loc[c]) < Fill
    BY <1>2, HereRange DEF Before
  <2>6. k \in LastOf(l)..(r - 1)
    <3>1. Fill \in Nat /\ Fill <= Placed /\ Placed \in Nat /\ Placed <= r
      BY <1>1, BlockNumbers DEF Window
    <3>2. QED
      BY <2>3, <2>4, <2>5, <3>1
  <2>7. /\ \A n : At(off, n)' = At(off, n)
        /\ \A n : E(off, l.header, n)' = E(off, l.header, n)
        /\ Cap(l.header)' = Cap(l.header)
    <3>1. SameIndex /\ l.header \in DOMAIN headers
      BY <1>1, <2>1, <2>3, SameHeaders DEF IndexType
    <3>2. QED
      BY <1>1, <3>1, EntriesSame
  <2>8. l.pos = (k + off[l.header]) % Cap(l.header)'
    BY <1>1, <2>3, <2>4, <2>7 DEF TailRight
  <2>9. \A n : E(off, l.header, n)' = At(off, n)'
    BY <2>3, <2>7 DEF At
  <2>10. FoundOk(off, r, p, l)'
    <3>1. HereOf(p, l)' = HereOf(p, l) /\ LastOf(l)' = LastOf(l)
      BY DEF HereOf, LastOf
    <3>2. QED
      BY <2>3, <2>6, <2>8, <2>9, <3>1 DEF FoundOk, After
  <2>11. QED
    BY <2>2, <2>10
<1>5. Span(cpc'[c], loc'[c]) = Span(cpc[c], loc[c]) \cup headIndex..(headIndex' - 1)
  BY <1>1, <1>2, <1>3 DEF Span, counters
<1>6. headIndex' \in Nat /\ headIndex <= headIndex'
  BY <1>1, <1>2 DEF counters
<1>7. QED
  BY <1>1, <1>2, <1>4, <1>5, <1>6, QuietConsumer DEF index, memory, After, counters

\* The key that belongs to that tail leads it to the entry of its own block.
LEMMA LoadKeyDeep ==
  ASSUME Frame, Frame', NEW off \in Offsets, NEW r \in Nat, Deep(off, r), NEW c \in Consumers,
         LoadKey(c)
  PROVE  Deep(off, r)'
<1>1. /\ Shape /\ IndexType /\ ConsumerType /\ IndexType' /\ Window(r) /\ Keyed(off, r)
      /\ headIndex \in Nat /\ PlaceInv /\ Found(off, r)
  BY DEF Frame, Shape, Deep, Layout, CountersType, Hands
<1> DEFINE h == loc[c].header
           q == PositionOf(Base(loc[c].at), h, loc[c].pos, key[headers[h].index[loc[c].pos]])
<1>2. /\ Others(c) /\ UNCHANGED <<counters, index, memory, producer, out>>
      /\ cpc[c] = "key" /\ cpc'[c] = "move"
      /\ loc'[c] = [loc[c] EXCEPT !.pos = q] /\ q \in Nat
  <2>1. /\ Others(c) /\ UNCHANGED <<counters, index, memory, producer, out>>
        /\ cpc[c] = "key" /\ cpc'[c] = "move"
        /\ loc'[c] = [loc[c] EXCEPT !.pos = q] /\ q \in 0..(Cap(h) - 1)
    BY <1>1, LoadKeyMoves
  <2>2. h \in DOMAIN headers
    BY <1>1, <2>1 DEF PlaceInv, PlaceOk
  <2>3. Cap(h) \in Nat
    BY <1>1, <2>2, CapRange
  <2>4. QED
    BY <2>1, <2>3
<1> HIDE DEF q
<1>3. /\ loc'[c].at = loc[c].at /\ loc'[c].stop = loc[c].stop
      /\ loc'[c].header = h /\ loc'[c].pos = q /\ h \in DOMAIN headers
      /\ loc[c].at \in Nat
  BY <1>1, <1>2, HandLocals DEF Locals, PlaceInv, PlaceOk
<1>4. PICK m \in Int, z \in Int :
        /\ m = Here(c) /\ z = LastOf(loc[c]) /\ m <= z /\ z < Fill /\ m = Num(loc[c].at)
        /\ HereOf("move", loc'[c]) = m /\ LastOf(loc'[c]) = z
  <2>1. /\ Here(c) \in Int /\ LastOf(loc[c]) \in Int /\ Here(c) <= LastOf(loc[c])
        /\ LastOf(loc[c]) < Fill
    BY <1>2, HereRange DEF Before
  <2>2. Here(c) = Num(loc[c].at) /\ HereOf("move", loc'[c]) = Num(loc[c].at)
        /\ LastOf(loc'[c]) = LastOf(loc[c])
    BY <1>2, <1>3 DEF Here, HereOf, After, LastOf
  <2>3. QED
    BY <2>1, <2>2
<1>5. PICK k \in z..(r - 1) :
        /\ loc[c].pos = (k + off[h]) % Cap(h)
        /\ \A n \in m..k : E(off, h, n) = At(off, n)
  <2>1. FoundOk(off, r, cpc[c], loc[c])
    BY <1>1 DEF Found
  <2>2. QED
    BY <1>2, <1>4, <2>1 DEF FoundOk, Here
<1>6. m \in Alive /\ k \in Int /\ k \in m..(r - 1) /\ k \in m..k
  <2>1. k \in Int /\ k \in m..(r - 1) /\ k \in m..k
    BY <1>4, <1>5
  <2>2. m \in Alive
    <3>1. m \in Here(c)..LastOf(loc[c])
      BY <1>4
    <3>2. QED
      BY <1>2, <3>1, HeldAlive DEF Before
  <2>3. QED
    BY <2>1, <2>2
<1>7. key[headers[h].index[loc[c].pos]] = k * BlockSize
  <2>1. headers[h].index[loc[c].pos] = At(off, k)
    BY <1>5, <1>6 DEF E
  <2>2. key[At(off, k)] = k * BlockSize
    BY <1>1, <1>6 DEF Keyed, Kept
  <2>3. QED
    BY <2>1, <2>2
<1>8. q = (m + off[h]) % Cap(h)
  <2>1. PositionOf(m * BlockSize, h, (k + off[h]) % Cap(h), k * BlockSize) = (m + off[h]) % Cap(h)
    BY <1>1, <1>3, <1>6, PositionRight
  <2>2. Base(loc[c].at) = m * BlockSize
    <3>1. loc[c].at \in Int
      BY <1>3
    <3>2. QED
      BY <1>4, <3>1, BlockOf
  <2>3. QED
    BY <1>5, <1>7, <2>1, <2>2, Zenon DEF q
<1>9. FoundOk(off, r, cpc[c], loc[c])'
  <2>1. UNCHANGED <<headers, value>>
    BY <1>2 DEF index
  <2>2. PICK p, l : p = cpc'[c] /\ l = loc'[c]
    OBVIOUS
  <2>3. /\ p = "move" /\ l.header \in DOMAIN headers /\ l.pos = (m + off[l.header]) % Cap(l.header)
        /\ HereOf(p, l) = m /\ LastOf(l) = z
    BY <1>2, <1>3, <1>4, <1>8, <2>2
  <2>4. \A n \in m..z : E(off, l.header, n) = At(off, n)
    <3>1. l.header = h
      BY <1>3, <2>2
    <3>2. TAKE n \in m..z
    <3>3. n \in m..k
      BY <1>4, <1>5, <1>6
    <3>4. QED
      BY <1>5, <3>1, <3>3
  <2>5. /\ \A n : At(off, n)' = At(off, n)
        /\ \A n : E(off, l.header, n)' = E(off, l.header, n)
        /\ Cap(l.header)' = Cap(l.header)
    <3>1. SameIndex
      BY <1>1, <2>1, SameHeaders
    <3>2. QED
      BY <1>1, <2>3, <3>1, EntriesSame
  <2>6. FoundOk(off, r, p, l)'
    <3>1. HereOf(p, l)' = HereOf(p, l) /\ LastOf(l)' = LastOf(l)
      BY DEF HereOf, LastOf
    <3>2. QED
      BY <2>3, <2>4, <2>5, <3>1 DEF FoundOk, After
  <2>7. QED
    BY <2>2, <2>6
<1>10. Span(cpc'[c], loc'[c]) = Span(cpc[c], loc[c]) \cup headIndex..(headIndex' - 1)
  BY <1>1, <1>2, <1>3 DEF Span, counters
<1>11. headIndex' \in Nat /\ headIndex <= headIndex'
  BY <1>1, <1>2 DEF counters
<1>12. QED
  BY <1>1, <1>2, <1>9, <1>10, <1>11, QuietConsumer DEF index, memory, After, counters

\* A consumer at an entry is at the entry of its block, and the block is there.
LEMMA HeldEntry ==
  ASSUME Frame, NEW off \in Offsets, NEW r \in Nat, Deep(off, r), NEW c \in Consumers,
         cpc[c] \in {"move", "empty", "unlink"}
  PROVE  /\ Here(c) \in Alive /\ Here(c) \in Nat /\ Here(c) < Fill /\ Here(c) <= LastOf(loc[c])
         /\ EntryOf(c) = At(off, Here(c)) /\ EntryOf(c) \in Entries
         /\ value[EntryOf(c)] \in Blocks /\ key[EntryOf(c)] = Here(c) * BlockSize
         /\ cpc[c] \in {"empty", "unlink"} => loc[c].block = value[EntryOf(c)]
         /\ E(off, loc[c].header, Here(c)) = At(off, Here(c))
<1>1. /\ Shape /\ IndexType /\ Linked(off) /\ Found(off, r) /\ Keyed(off, r) /\ Window(r)
  BY DEF Frame, Shape, Deep, Layout
<1>2. PICK m \in Int : m = Here(c) /\ m <= LastOf(loc[c]) /\ LastOf(loc[c]) \in Int
  BY HereRange DEF Before, After
<1>3. m \in Here(c)..LastOf(loc[c])
  BY <1>2
<1>4. m \in Alive /\ m < Fill /\ m \in Nat
  BY <1>3, HeldAlive DEF Before, After
<1>5. FoundOk(off, r, cpc[c], loc[c]) /\ cpc[c] \in {"move"} \cup After /\ cpc[c] # "free"
  BY <1>1 DEF Found, After
<1>6. /\ loc[c].pos = (m + off[loc[c].header]) % Cap(loc[c].header)
      /\ E(off, loc[c].header, m) = At(off, m)
      /\ cpc[c] \in {"empty", "unlink"} => loc[c].block = value[At(off, m)]
  BY <1>2, <1>3, <1>5 DEF FoundOk, Here
<1>7. EntryOf(c) = At(off, m)
  BY <1>6 DEF EntryOf, E
<1>8. At(off, m) \in Entries /\ value[At(off, m)] \in Blocks
  BY <1>1, <1>4, AliveEntry
<1>9. key[At(off, m)] = m * BlockSize
  <2>1. m \in Kept /\ m \in m..(r - 1)
    BY <1>1, <1>4, KeptFacts
  <2>2. QED
    BY <1>1, <2>1 DEF Keyed
<1>10. QED
  BY <1>2, <1>4, <1>6, <1>7, <1>8, <1>9

\* Blocks that are there have entries of their own and are different blocks.
LEMMA AliveBlocks ==
  ASSUME Frame, NEW off \in Offsets, NEW r \in Nat, Deep(off, r), NEW m \in Alive, NEW n \in Alive,
         m # n
  PROVE  At(off, m) # At(off, n) /\ value[At(off, m)] # value[At(off, n)]
<1>1. Shape /\ Distinct /\ Window(r) /\ Linked(off) /\ PlacedOnce
  BY DEF Frame, Deep, Layout
<1>2. At(off, m) # At(off, n)
  BY <1>1, AliveApart
<1>3. At(off, m) \in Entries /\ At(off, n) \in Entries /\ value[At(off, m)] \in Blocks
  BY <1>1, AliveEntry
<1>4. QED
  BY <1>1, <1>2, <1>3 DEF PlacedOnce

\* The elements that Move moves: those of the call in its block, and they are there.
LEMMA MovedElements ==
  ASSUME Frame, NEW off \in Offsets, NEW r \in Nat, Deep(off, r), NEW c \in Consumers, cpc[c] = "move"
  PROVE  /\ \A s \in Slots : s \in MoveSlots(c) <=>
              Here(c) * BlockSize + s \in loc[c].at..(MoveEnd(c) - 1)
         /\ MoveSlots(c) \subseteq Slots
         /\ \A i \in loc[c].at..(MoveEnd(c) - 1) :
              /\ i \in Nat /\ i < headIndex /\ Num(i) = Here(c) /\ i \in Unmoved(c)
              /\ \A d \in Consumers \ {c} : i \notin Unmoved(d)
              /\ Present(i) /\ elements[value[EntryOf(c)]][i % BlockSize] = i
         /\ {elements[value[EntryOf(c)]][s] : s \in MoveSlots(c)} = loc[c].at..(MoveEnd(c) - 1)
<1>1. /\ Shape /\ ConsumerType /\ Hands /\ Linked(off) /\ Filled(off)
      /\ headIndex \in Nat /\ tailIndex \in Nat /\ headIndex <= tailIndex
  BY BlockNumbers DEF Frame, Shape, Deep, Layout
<1>2. /\ loc[c].at \in Nat /\ loc[c].stop \in Nat /\ loc[c].stop <= headIndex
  BY <1>1, HandLocals, HandAt DEF HandOk
<1> DEFINE at == loc[c].at  end == MoveEnd(c)  m == Here(c)
<1>3. /\ end \in Nat /\ at < end /\ end <= loc[c].stop /\ Num(end - 1) = Num(at)
  BY <1>1, MoveRange
<1>4. /\ m \in Alive /\ m \in Nat /\ m = Num(at) /\ EntryOf(c) = At(off, m)
      /\ EntryOf(c) \in Entries /\ value[EntryOf(c)] \in Blocks
  BY HeldEntry DEF Here, HereOf, After
<1> HIDE DEF at, end, m
<1>5. at \in Int /\ end - 1 \in Int /\ at \in Nat /\ at = loc[c].at
  BY <1>2, <1>3 DEF at
<1>6. ASSUME NEW i \in at..(end - 1)
      PROVE  i \in Nat /\ i < headIndex /\ i < loc[c].stop /\ Num(i) = m
             /\ i = m * BlockSize + (i % BlockSize) /\ i % BlockSize \in Slots
  <2>1. i \in Nat /\ i < headIndex /\ i < loc[c].stop /\ at <= i /\ i <= end - 1
    <3>1. i \in Int /\ at <= i /\ i <= end - 1
      BY <1>5
    <3>2. i \in Nat
      BY <1>5, <3>1
    <3>3. i < end
      BY <1>3, <3>1
    <3>4. QED
      BY <1>1, <1>2, <1>3, <3>1, <3>2, <3>3
  <2>2. Num(i) \in Int /\ Num(at) <= Num(i) /\ Num(i) <= Num(end - 1) /\ Num(at) \in Int
    <3>1. i \in Int
      BY <2>1
    <3>2. QED
      BY <1>5, <2>1, <3>1, NumOrder, BlockOf
  <2>3. Num(i) = m
    BY <1>3, <1>4, <2>2
  <2>4. i \in Int
    BY <2>1
  <2>5. QED
    BY <2>1, <2>3, <2>4, BlockOf
<1>7. MoveSlots(c) = {i % BlockSize : i \in at..(end - 1)}
  BY DEF MoveSlots, at, end
<1>8. MoveSlots(c) \subseteq Slots
  BY <1>6, <1>7
<1>9. ASSUME NEW s \in Slots
      PROVE  s \in MoveSlots(c) <=> m * BlockSize + s \in at..(end - 1)
  <2>1. (m * BlockSize + s) % BlockSize = s
    BY <1>4, BlockStart
  <2>2. m * BlockSize + s \in at..(end - 1) => s \in MoveSlots(c)
    BY <1>7, <2>1
  <2>3. s \in MoveSlots(c) => m * BlockSize + s \in at..(end - 1)
    BY <1>6, <1>7
  <2>4. QED
    BY <2>2, <2>3
<1>10. ASSUME NEW i \in at..(end - 1)
       PROVE  /\ i \in Unmoved(c) /\ \A d \in Consumers \ {c} : i \notin Unmoved(d)
              /\ Present(i) /\ elements[value[EntryOf(c)]][i % BlockSize] = i
  <2>1. i \in Unmoved(c)
    <3>1. i \in Int /\ at <= i /\ i < loc[c].stop
      BY <1>5, <1>6
    <3>2. QED
      BY <1>2, <1>5, <3>1 DEF Unmoved
  <2>2. ASSUME NEW d \in Consumers \ {c} PROVE i \notin Unmoved(d)
    <3>1. Uncounted(c) = Unmoved(c)
      BY DEF Uncounted, Unmoved, Span
    <3>2. Unmoved(d) \subseteq Uncounted(d)
      <4>1. loc[d].at \in Nat /\ loc[d].want \in Nat /\ loc[d].stop \in Nat
        BY <1>1, HandLocals
      <4>2. QED
        BY <4>1 DEF Unmoved, Uncounted, Span
    <3>3. QED
      BY <1>1, <2>1, <3>1, <3>2 DEF Hands, HandsApart
  <2>3. Present(i)
    <3>1. i < tailIndex
      BY <1>1, <1>6
    <3>2. QED
      BY <2>1, <3>1 DEF Present
  <2>4. elements[value[EntryOf(c)]][i % BlockSize] = i
    BY <1>1, <1>4, <1>6, <2>3 DEF Filled
  <2>5. QED
    BY <2>1, <2>2, <2>3, <2>4
<1>11. {elements[value[EntryOf(c)]][s] : s \in MoveSlots(c)} = at..(end - 1)
  BY <1>7, <1>10
<1>12. QED
  BY <1>6, <1>8, <1>9, <1>10, <1>11 DEF at, end, m

\* A consumer moves out exactly its elements of the current block.
LEMMA MoveDeep ==
  ASSUME Frame, Frame', NEW off \in Offsets, NEW r \in Nat, Deep(off, r), NEW c \in Consumers, Move(c)
  PROVE  Deep(off, r)' /\ out' = out \cup loc[c].at..(loc'[c].at - 1)
<1>1. /\ Shape /\ IndexType /\ IndexType' /\ ConsumerType /\ Hands /\ MemoryType /\ CountersType
      /\ Layout(off, r) /\ Linked(off) /\ Settled /\ Filled(off)
      /\ Counted(off) /\ PlacedOnce /\ Delivered /\ Found(off, r)
  BY DEF Frame, Shape, Deep, Layout
<1>2. cpc[c] = "move"
  BY DEF Move, Goto
<1> DEFINE at == loc[c].at  end == MoveEnd(c)  m == Here(c)  b == value[EntryOf(c)]
<1>3. /\ end \in 0..MaxTail /\ end - at \in Nat /\ at < end /\ end <= loc[c].stop
      /\ Num(end - 1) = Num(at) /\ end \in Nat /\ at \in Nat /\ loc[c].stop \in Nat
      /\ loc[c].stop <= headIndex /\ headIndex \in Nat
  BY <1>1, <1>2, MoveRange, HandLocals, HandAt DEF HandOk, CountersType
<1>4. /\ Others(c) /\ UNCHANGED <<counters, index, completed, free, producer>>
      /\ cpc'[c] = "empty" /\ b \in Blocks
      /\ loc'[c] = [loc[c] EXCEPT !.block = b, !.at = end, !.want = end - at]
      /\ elements' = [elements EXCEPT ![b] =
            [s \in Slots |-> IF s \in MoveSlots(c) THEN Gone ELSE @[s]]]
      /\ out' = out \cup {elements[b][s] : s \in MoveSlots(c)}
  BY <1>1, <1>3, MoveMoves
<1>5. /\ loc'[c].block = b /\ loc'[c].at = end /\ loc'[c].want = end - at
      /\ loc'[c].stop = loc[c].stop /\ loc'[c].header = loc[c].header /\ loc'[c].pos = loc[c].pos
  BY <1>1, <1>4, HandLocals DEF Locals
<1>6. /\ m \in Alive /\ m \in Nat /\ m = Num(at) /\ EntryOf(c) = At(off, m)
      /\ EntryOf(c) \in Entries
  BY <1>2, HeldEntry DEF Here, HereOf, After
<1>7. /\ \A s \in Slots : s \in MoveSlots(c) <=> m * BlockSize + s \in at..(end - 1)
      /\ \A i \in at..(end - 1) : /\ i \in Nat /\ i < headIndex /\ Num(i) = m /\ i \in Unmoved(c)
                                  /\ \A d \in Consumers \ {c} : i \notin Unmoved(d)
      /\ {elements[b][s] : s \in MoveSlots(c)} = at..(end - 1)
  BY <1>2, MovedElements
<1> HIDE DEF at, end, m, b
<1>8. UNCHANGED <<tailIndex, headIndex, headers, key, value, ppc, goal, newBlock, chain, undone>>
  BY <1>4 DEF counters, index, producer
<1>9. /\ Unmoved(c)' = Unmoved(c) \ at..(end - 1)
      /\ \A d \in Consumers \ {c} : Unmoved(d)' = Unmoved(d) /\ cpc'[d] = cpc[d] /\ loc'[d] = loc[d]
  <2>1. Unmoved(c)' = end..(loc[c].stop - 1) /\ Unmoved(c) = at..(loc[c].stop - 1)
    BY <1>5 DEF Unmoved, at
  <2>2. at..(loc[c].stop - 1) \ at..(end - 1) = end..(loc[c].stop - 1)
    BY <1>3
  <2>3. \A d \in Consumers \ {c} : Unmoved(d)' = Unmoved(d) /\ cpc'[d] = cpc[d] /\ loc'[d] = loc[d]
    BY <1>4 DEF Others, Unmoved
  <2>4. QED
    BY <2>1, <2>2, <2>3
<1>10. Span(cpc'[c], loc'[c]) = Span(cpc[c], loc[c])
  <2>1. end - (end - at) = at
    BY <1>3
  <2>2. QED
    BY <1>2, <1>4, <1>5, <2>1 DEF Span, at
<1>11. \A n : Outstanding(n)' = Outstanding(n) /\ (Unlinking(n)' <=> Unlinking(n))
  BY <1>2, <1>4, <1>8, <1>10, ConsumerOutstanding
<1>12. Alive' = Alive
  BY <1>8, <1>11, AliveSame
<1>13. /\ SameIndex /\ SameBlocks /\ (\A n : At(off, n)' = At(off, n))
       /\ Layout(off, r)' /\ Entering(off, r)' /\ Fresh' /\ Chained(off)' /\ Tailed(off)'
  BY <1>1, <1>4, <1>8, <1>12, IndexKept
<1>14. Settled'
  <2>1. \A d \in Consumers : cpc'[d] = "unlink" =>
          cpc[d] = "unlink" /\ Here(d)' = Here(d)
    BY <1>4, <1>9 DEF Here
  <2>2. QED
    BY <1>1, <1>11, <2>1 DEF Settled
<1>15. Found(off, r)'
  <2>1. ASSUME NEW d \in Consumers \ {c} PROVE FoundOk(off, r, cpc[d], loc[d])'
    BY <1>1, <1>8, <1>9, <1>13, FoundOthers
  <2>2. FoundOk(off, r, cpc[c], loc[c])'
    <3>1. PICK p, l : p = cpc'[c] /\ l = loc'[c]
      OBVIOUS
    <3>2. FoundOk(off, r, p, l)
      <4>1. FoundOk(off, r, "move", loc[c])
        BY <1>1, <1>2 DEF Found
      <4>2. HereOf(p, l) = m /\ HereOf("move", loc[c]) = m /\ LastOf(l) = LastOf(loc[c])
        BY <1>2, <1>3, <1>4, <1>5, <1>6, <3>1 DEF HereOf, LastOf, After, at
      <4>3. l.block = value[At(off, m)]
        BY <1>5, <1>6, <3>1 DEF b
      <4>4. QED
        BY <1>4, <1>5, <3>1, <4>1, <4>2, <4>3 DEF FoundOk, After
    <3>3. p = "empty" /\ l.header \in DOMAIN headers
      BY <1>1, <1>2, <1>4, <1>5, <3>1, HandAt DEF PlaceOk
    <3>4. FoundOk(off, r, p, l)'
      BY <1>1, <1>8, <1>13, <3>2, <3>3, FoundFrame
    <3>5. QED
      BY <3>1, <3>4
  <2>3. QED
    BY <2>1, <2>2 DEF Found
<1>16. \A i \in Int : Present(i)' <=> Present(i) /\ i \notin at..(end - 1)
  <2>1. TAKE i \in Int
  <2>2. (\E d \in Consumers : i \in Unmoved(d)') <=>
          (\E d \in Consumers : i \in Unmoved(d)) /\ i \notin at..(end - 1)
    BY <1>7, <1>9
  <2>3. i \in at..(end - 1) => ~(i >= headIndex)
    BY <1>3, <1>7
  <2>4. QED
    BY <1>8, <2>2, <2>3 DEF Present
<1>17. Filled(off)'
  <2>1. \A d \in Blocks, s \in Slots :
          elements'[d][s] = IF d = b /\ s \in MoveSlots(c) THEN Gone ELSE elements[d][s]
    BY <1>1, <1>4 DEF MemoryType
  <2>2. ASSUME NEW n \in Alive, NEW s \in Slots
        PROVE  elements'[value[At(off, n)]][s] =
                 IF Present(n * BlockSize + s)' THEN n * BlockSize + s ELSE Gone
    <3>1. n \in Nat /\ value[At(off, n)] \in Blocks
      BY <1>1, AliveEntry
    <3>2. PICK x \in Nat : x = n * BlockSize + s /\ Num(x) = n
      <4>1. n * BlockSize \in Nat /\ s \in Nat
        BY <3>1, SizeAssumption DEF Slots
      <4>2. Num(n * BlockSize + s) = n /\ n * BlockSize + s \in Nat
        BY <3>1, <4>1, BlockStart
      <4>3. QED
        BY <4>2
    <3>3. elements[value[At(off, n)]][s] = IF Present(x) THEN x ELSE Gone
      BY <1>1, <3>2 DEF Filled
    <3>4. CASE n = m
      <4>1. value[At(off, n)] = b /\ (s \in MoveSlots(c) <=> x \in at..(end - 1))
        BY <1>6, <1>7, <3>2, <3>4 DEF b
      <4>2. QED
        BY <1>4, <1>16, <2>1, <3>2, <3>3, <4>1
    <3>5. CASE n # m
      <4>1. value[At(off, n)] # b
        BY <1>6, <3>5, AliveBlocks DEF b
      <4>2. x \notin at..(end - 1)
        BY <1>7, <3>2, <3>5
      <4>3. QED
        BY <1>16, <2>1, <3>1, <3>2, <3>3, <4>1, <4>2
    <3>6. QED
      BY <3>4, <3>5
  <2>3. ASSUME NEW d \in Blocks, \A e \in Entries : value[e] # d, NEW s \in Slots
        PROVE  elements'[d][s] = Gone
    BY <1>1, <1>6, <2>1, <2>3 DEF Filled, b
  <2>4. QED
    BY <1>8, <1>12, <1>13, <2>2, <2>3 DEF Filled
<1>18. Counted(off)'
  BY <1>1, <1>4, <1>8, <1>11, <1>12, <1>13, CountedFrame
<1>19. PlacedOnce'
  <2>1. /\ \A d \in Consumers : cpc'[d] = "free" => cpc[d] = "free" /\ loc'[d] = loc[d]
        /\ \A d \in Consumers : cpc[d] = "free" => cpc'[d] = "free" /\ loc'[d] = loc[d]
    BY <1>2, <1>4, <1>9
  <2>2. Leaving' = Leaving
    BY <2>1 DEF Leaving
  <2>3. \A x, y \in Consumers :
           cpc'[x] = "free" /\ cpc'[y] = "free" /\ loc'[x].block = loc'[y].block => x = y
    BY <1>1, <2>1 DEF PlacedOnce
  <2>4. QED
    BY <1>1, <1>4, <1>8, <1>13, <2>2, <2>3, PlacedFrame
<1>20. out' = out \cup at..(end - 1)
  BY <1>4, <1>7
<1>21. Delivered'
  <2>1. ASSUME NEW i \in out' PROVE i \in 0..(headIndex' - 1) /\ \A d \in Consumers : i \notin Unmoved(d)'
    <3>1. CASE i \in out
      BY <1>1, <1>8, <1>9, <3>1 DEF Delivered
    <3>2. CASE i \in at..(end - 1)
      <4>1. i \in 0..(headIndex' - 1)
        BY <1>3, <1>7, <1>8, <3>2
      <4>2. QED
        BY <1>7, <1>9, <3>2, <4>1
    <3>3. QED
      BY <1>20, <2>1, <3>1, <3>2
  <2>2. QED
    BY <2>1 DEF Delivered
<1>22. out' = out \cup loc[c].at..(loc'[c].at - 1)
  BY <1>5, <1>20 DEF at
<1>23. QED
  BY <1>13, <1>14, <1>15, <1>17, <1>18, <1>19, <1>21, <1>22 DEF Deep

\* On to the next block, or done: what the consumer has not counted stays.
LEMMA AdvanceSpans ==
  ASSUME ConsumerType, Hands, NEW c \in Consumers, cpc[c] \in After, Advance(c)
  PROVE  /\ cpc'[c] \in {"idle", "move"}
         /\ Unmoved(c)' = Unmoved(c) /\ Uncounted(c)' = Unmoved(c)
<1>1. /\ loc[c] \in Locals /\ loc[c].at \in Nat /\ loc[c].stop \in Nat
  BY HandLocals
<1>2. CASE loc[c].at = loc[c].stop
  <2>1. cpc'[c] = "idle" /\ loc'[c].at = 0 /\ loc'[c].stop = 0
    BY <1>2 DEF Advance, NoLocals
  <2>2. loc[c].at..(loc[c].stop - 1) = {} /\ 0..(0 - 1) = {}
    BY <1>1, <1>2
  <2>3. QED
    BY <2>1, <2>2 DEF Unmoved, Uncounted, Span
<1>3. CASE loc[c].at # loc[c].stop
  <2>1. cpc'[c] = "move" /\ loc'[c].at = loc[c].at /\ loc'[c].stop = loc[c].stop
    BY <1>1, <1>3 DEF Advance, Locals
  <2>2. QED
    BY <2>1 DEF Unmoved, Uncounted, Span
<1>4. QED
  BY <1>2, <1>3

\* The entry of the next block is the next one in the consumer's index.
LEMMA AdvanceFound ==
  ASSUME Frame, NEW off \in Offsets, NEW r \in Nat, Deep(off, r), NEW c \in Consumers,
         cpc[c] \in {"empty", "free"}, Advance(c), UNCHANGED <<headers, value>>
  PROVE  FoundOk(off, r, cpc[c], loc[c])'
<1>1. /\ Shape /\ IndexType /\ ConsumerType /\ Found(off, r)
      /\ loc[c] \in Locals /\ loc[c].at \in Nat /\ loc[c].stop \in Nat
      /\ HandOk(cpc[c], loc[c], headIndex) /\ loc[c].header \in DOMAIN headers
  BY HandLocals, HandAt DEF Frame, Shape, Deep, PlaceOk, After
<1>2. CASE cpc'[c] = "idle"
  BY <1>2 DEF FoundOk, After
<1>3. CASE cpc'[c] = "move"
  <2>1. /\ loc[c].at # loc[c].stop
        /\ loc'[c].at = loc[c].at /\ loc'[c].stop = loc[c].stop /\ loc'[c].header = loc[c].header
        /\ loc'[c].pos = (loc[c].pos + 1) % Cap(loc[c].header)
    BY <1>1, <1>3 DEF Advance, Locals
  <2>2. PICK m \in Int, z \in Int, h \in DOMAIN headers :
          m = Here(c) /\ z = LastOf(loc[c]) /\ h = loc[c].header
    BY <1>1, HereRange DEF After
  <2>3. /\ loc[c].pos = (m + off[h]) % Cap(h)
        /\ \A n \in m..z : E(off, h, n) = At(off, n) \/ n = m
    BY <1>1, <2>2 DEF Found, FoundOk, After, Here
  <2>4. off[h] \in Int /\ Cap(h) \in Nat \ {0}
    <3>1. h \in Nat
      BY <1>1 DEF IndexType
    <3>2. QED
      BY <1>1, <3>1, CapRange DEF Offsets
  <2>5. loc'[c].pos = (m + 1 + off[h]) % Cap(h)
    <3>1. PICK a \in Int : a = m + off[h]
      BY <2>4
    <3>2. ((a % Cap(h)) + 1) % Cap(h) = (a + 1) % Cap(h)
      BY <2>4, <3>1, ModSteps
    <3>3. a + 1 = m + 1 + off[h]
      BY <2>4, <3>1
    <3>4. QED
      BY <2>1, <2>2, <2>3, <3>1, <3>2, <3>3, Zenon
  <2>6. Num(loc[c].at) = m + 1
    <3>1. /\ loc[c].at % BlockSize = 0 /\ m = Num(loc[c].at - 1) /\ 0 < loc[c].at
      BY <1>1, <2>1, <2>2 DEF HandOk, After, Here, HereOf
    <3>2. PICK i \in Int, j \in Int : i = loc[c].at /\ j = loc[c].at - 1
      BY <1>1
    <3>3. /\ m * BlockSize <= j /\ j < m * BlockSize + BlockSize /\ m * BlockSize \in Int
          /\ i = Num(i) * BlockSize /\ Num(i) \in Int
      <4>1. m * BlockSize <= j /\ j < m * BlockSize + BlockSize /\ m * BlockSize \in Int
        BY <3>1, <3>2, BlockOf
      <4>2. Num(i) \in Int /\ Num(i) * BlockSize \in Int /\ i = Num(i) * BlockSize + 0
        BY <3>1, <3>2, BlockOf
      <4>3. QED
        BY <4>1, <4>2
    <3>4. BlockSize \in Nat \ {0}
      BY SizeAssumption
    <3>5. (m + 1) * BlockSize = m * BlockSize + BlockSize /\ m + 1 \in Int
      BY <3>4, Times
    <3>6. PICK y \in Int : y = m * BlockSize
      BY <3>3
    <3>7. PICK x \in Int : x = Num(i) * BlockSize
      BY <3>3
    <3>8. m * BlockSize < Num(i) * BlockSize /\ Num(i) * BlockSize <= (m + 1) * BlockSize
      <4>1. y < x /\ x <= y + BlockSize
        BY <3>2, <3>3, <3>4, <3>6, <3>7
      <4>2. QED
        BY <3>5, <3>6, <3>7, <4>1
    <3>9. m < Num(i)
      BY <3>3, <3>4, <3>8, Times
    <3>10. ~(m + 1 < Num(i))
      <4>1. m + 1 < Num(i) => (m + 1) * BlockSize + BlockSize <= Num(i) * BlockSize
        BY <3>3, <3>4, <3>5, Times
      <4>2. (m + 1) * BlockSize \in Int
        BY <3>4, <3>5, Times
      <4>3. PICK w \in Int : w = (m + 1) * BlockSize
        BY <4>2
      <4>4. x <= w
        BY <3>7, <3>8, <4>3
      <4>5. ~(w + BlockSize <= x)
        BY <3>4, <4>4
      <4>6. QED
        BY <3>7, <4>1, <4>3, <4>5
    <3>11. QED
      BY <3>2, <3>3, <3>9, <3>10
  <2>7. PICK p, l : p = cpc'[c] /\ l = loc'[c]
    OBVIOUS
  <2>8. /\ p = "move" /\ l.header = h /\ l.pos = (m + 1 + off[h]) % Cap(h)
        /\ HereOf(p, l) = m + 1 /\ LastOf(l) = z
    BY <1>3, <2>1, <2>2, <2>5, <2>6, <2>7 DEF HereOf, LastOf, After
  <2>9. \A n \in (m + 1)..z : E(off, h, n) = At(off, n)
    <3>1. TAKE n \in (m + 1)..z
    <3>2. n \in m..z /\ n # m
      BY <2>2
    <3>3. QED
      BY <2>3, <3>2
  <2>10. FoundOk(off, r, p, l)
    BY <2>8, <2>9 DEF FoundOk, After
  <2>11. FoundOk(off, r, p, l)'
    <3>1. SameIndex
      BY <1>1, SameHeaders
    <3>2. QED
      BY <1>1, <2>2, <2>8, <2>10, <3>1, FoundFrame
  <2>12. QED
    BY <2>7, <2>11
<1>4. QED
  BY <1>2, <1>3 DEF Advance

\* The block that was emptied is back in the pool.
LEMMA FreeDeep ==
  ASSUME Frame, Frame', NEW off \in Offsets, NEW r \in Nat, Deep(off, r), NEW c \in Consumers, Free(c)
  PROVE  Deep(off, r)'
<1>1. /\ Shape /\ IndexType /\ IndexType' /\ ConsumerType /\ Hands /\ PlaceInv
      /\ Layout(off, r) /\ Linked(off) /\ Settled /\ Filled(off)
      /\ Counted(off) /\ PlacedOnce /\ Delivered /\ Found(off, r)
  BY DEF Frame, Shape, Deep, Layout, Hands
<1>2. /\ Others(c) /\ UNCHANGED <<counters, index, elements, completed, producer, out>>
      /\ cpc[c] = "free" /\ Advance(c) /\ free' = free \cup {loc[c].block}
  BY <1>1, FreeMoves
<1>3. /\ UNCHANGED <<tailIndex, headIndex, headers, key, value, ppc, goal, newBlock, chain, undone>>
      /\ \A d \in Consumers \ {c} : cpc'[d] = cpc[d] /\ loc'[d] = loc[d]
  BY <1>2 DEF counters, index, producer, Others
<1>4. cpc'[c] \in {"idle", "move"} /\ Unmoved(c)' = Unmoved(c) /\ Uncounted(c)' = Unmoved(c)
  BY <1>1, <1>2, AdvanceSpans DEF After
<1>5. \A n : Outstanding(n)' = Outstanding(n) /\ (Unlinking(n)' <=> Unlinking(n))
  <2>1. Span(cpc'[c], loc'[c]) = Span(cpc[c], loc[c])
    BY <1>2, <1>4 DEF Uncounted, Unmoved, Span
  <2>2. QED
    BY <1>2, <1>3, <1>4, <2>1, ConsumerOutstanding
<1>6. Alive' = Alive
  BY <1>3, <1>5, AliveSame
<1>7. /\ SameIndex /\ SameBlocks /\ (\A n : At(off, n)' = At(off, n))
      /\ Layout(off, r)' /\ Entering(off, r)' /\ Fresh' /\ Chained(off)' /\ Tailed(off)'
  BY <1>1, <1>2, <1>3, <1>6, IndexKept
<1>8. Found(off, r)'
  <2>1. ASSUME NEW d \in Consumers \ {c} PROVE FoundOk(off, r, cpc[d], loc[d])'
    BY <1>1, <1>3, <1>7, FoundOthers
  <2>2. FoundOk(off, r, cpc[c], loc[c])'
    BY <1>2, <1>3, AdvanceFound
  <2>3. QED
    BY <2>1, <2>2 DEF Found
<1>9. Settled'
  <2>1. \A d \in Consumers : cpc'[d] = "unlink" => cpc[d] = "unlink" /\ Here(d)' = Here(d)
    BY <1>3, <1>4 DEF Here
  <2>2. QED
    BY <1>1, <1>5, <2>1 DEF Settled
<1>10. \A d \in Consumers : Unmoved(d)' = Unmoved(d)
  BY <1>3, <1>4 DEF Unmoved
<1>11. Filled(off)'
  <2>1. \A i \in Int : Present(i)' <=> Present(i)
    BY <1>3, <1>10 DEF Present
  <2>2. QED
    BY <1>1, <1>2, <1>6, <1>7, <2>1, FilledFrame
<1>12. Counted(off)'
  BY <1>1, <1>2, <1>3, <1>5, <1>6, <1>7, CountedFrame
<1>13. Delivered'
  BY <1>1, <1>2, <1>3, <1>10 DEF Delivered
<1>14. PlacedOnce'
  <2>1. loc[c].block \in Blocks /\ loc[c].block \in Leaving
    BY <1>1, <1>2 DEF PlaceInv, PlaceOk, After, Leaving
  <2>2. Leaving' = Leaving \ {loc[c].block}
    <3>1. ASSUME NEW d \in Consumers \ {c}, cpc[d] = "free" PROVE loc[d].block # loc[c].block
      BY <1>1, <1>2, <3>1 DEF PlacedOnce
    <3>2. QED
      BY <1>2, <1>3, <1>4, <3>1 DEF Leaving
  <2>3. Indexed' = Indexed /\ Withdrawn' = Withdrawn
    BY <1>3 DEF Indexed, Withdrawn
  <2>4. PlacedOnce!1' /\ PlacedOnce!2' /\ PlacedOnce!3' /\ PlacedOnce!4' /\ PlacedOnce!5'
    BY <1>1, <1>2, <1>3, <2>1, <2>2, <2>3 DEF PlacedOnce
  <2>5. \A d \in Consumers : cpc'[d] = "free" => cpc[d] = "free" /\ loc'[d] = loc[d]
    BY <1>3, <1>4
  <2>6. QED
    BY <1>1, <1>3, <2>4, <2>5 DEF PlacedOnce
<1>15. QED
  BY <1>7, <1>8, <1>9, <1>11, <1>12, <1>13, <1>14 DEF Deep

\* The elements a consumer counts are those it has moved, and nobody else's.
LEMMA CountingOff ==
  ASSUME Frame, Frame', NEW off \in Offsets, NEW r \in Nat, Deep(off, r), NEW c \in Consumers,
         SetManyEmpty(c), NEW m \in Int, m = Here(c)
  PROVE  /\ \A n \in Int \ {m} : Outstanding(n)' = Outstanding(n)
         /\ Outstanding(m) # {} /\ IsFiniteSet(Outstanding(m)')
         /\ Cardinality(Outstanding(m)') \in Nat /\ Cardinality(Outstanding(m)) \in Nat
         /\ Cardinality(Outstanding(m)') = Cardinality(Outstanding(m)) - loc[c].want
         /\ Unmoved(c)' = Unmoved(c) /\ cpc'[c] \in {"idle", "move", "unlink"}
<1>1. /\ Shape /\ ConsumerType /\ IndexType /\ Hands /\ PlaceInv /\ headIndex \in Nat
  BY DEF Frame, Shape, Hands, CountersType
<1>2. /\ Others(c) /\ UNCHANGED <<counters, index, elements, free, producer, out>>
      /\ cpc[c] = "empty"
      /\ IF Emptied(c) THEN cpc'[c] = "unlink" /\ loc'[c] = loc[c] ELSE Advance(c)
  BY <1>1, SetManyEmptyMoves
<1>3. PICK at \in Nat, stop \in Nat, want \in Nat :
        /\ at = loc[c].at /\ stop = loc[c].stop /\ want = loc[c].want
        /\ 0 < want /\ want <= at /\ at <= stop /\ stop <= headIndex
        /\ Num(at - want) = m /\ Num(at - 1) = m
  <2>1. /\ loc[c].at \in Nat /\ loc[c].stop \in Nat /\ loc[c].want \in Nat
        /\ HandOk(cpc[c], loc[c], headIndex) /\ m = Num(loc[c].at - 1)
    BY <1>1, <1>2, HandLocals, HandAt DEF Here, HereOf, After
  <2>2. QED
    BY <1>2, <2>1 DEF HandOk, After
<1>4. cpc'[c] \in {"idle", "move", "unlink"} /\ Unmoved(c)' = Unmoved(c) /\ Uncounted(c)' = Unmoved(c)
  <2>1. CASE Emptied(c)
    <3>1. cpc'[c] = "unlink" /\ loc'[c] = loc[c]
      BY <1>2, <2>1
    <3>2. QED
      BY <3>1 DEF Unmoved, Uncounted, Span
  <2>2. CASE ~Emptied(c)
    BY <1>1, <1>2, <2>2, AdvanceSpans DEF After
  <2>3. QED
    BY <2>1, <2>2
<1> DEFINE K == (at - want)..(at - 1)
<1>5. Uncounted(c) = K \cup Unmoved(c) /\ K \cap Unmoved(c) = {}
  <2>1. Uncounted(c) = (at - want)..(stop - 1) /\ Unmoved(c) = at..(stop - 1)
    BY <1>2, <1>3 DEF Uncounted, Unmoved, Span
  <2>2. QED
    BY <1>3, <2>1
<1>6. ASSUME NEW i \in K
      PROVE  /\ i \in Int /\ i < headIndex /\ Num(i) = m
             /\ \A d \in Consumers \ {c} : i \notin Uncounted(d)
  <2>1. i \in Int /\ at - want <= i /\ i <= at - 1 /\ at - want \in Int /\ at - 1 \in Int
    BY <1>3
  <2>2. Num(at - want) <= Num(i) /\ Num(i) <= Num(at - 1) /\ Num(i) \in Int
    BY <2>1, NumOrder, BlockOf
  <2>3. Num(i) = m
    BY <1>3, <2>2
  <2>4. i < headIndex
    <3>1. at - 1 < headIndex
      BY <1>1, <1>3
    <3>2. QED
      BY <1>1, <2>1, <3>1
  <2>5. \A d \in Consumers \ {c} : i \notin Uncounted(d)
    BY <1>1, <1>5, <1>6 DEF Hands, HandsApart
  <2>6. QED
    BY <2>1, <2>3, <2>4, <2>5
<1>7. \A d \in Consumers \ {c} : Uncounted(d)' = Uncounted(d)
  BY <1>2 DEF Others, Uncounted
<1> HIDE DEF K
<1>8. \A n : Outstanding(n)' = Outstanding(n) \ K
  <2>1. headIndex' = headIndex
    BY <1>2 DEF counters
  <2>2. \A i : (\E d \in Consumers : i \in Uncounted(d)') <=>
                 (\E d \in Consumers : i \in Uncounted(d)) /\ i \notin K
    BY <1>4, <1>5, <1>6, <1>7
  <2>3. \A i \in K : ~(i >= headIndex)
    BY <1>1, <1>6
  <2>4. QED
    BY <2>1, <2>2, <2>3 DEF Outstanding
<1>9. \A n \in Int \ {m} : Outstanding(n)' = Outstanding(n)
  <2>1. TAKE n \in Int \ {m}
  <2>2. \A i \in Outstanding(n) : Num(i) = n
    BY <1>1, OutstandingFacts
  <2>3. Outstanding(n) \cap K = {}
    BY <1>6, <2>2
  <2>4. QED
    BY <1>8, <2>3
<1>10. ASSUME NEW i \in K PROVE i \in Outstanding(m)
  <2>1. i \in Int /\ Num(i) = m /\ i \in Uncounted(c)
    BY <1>5, <1>6
  <2>2. m * BlockSize <= i /\ i < m * BlockSize + BlockSize
    BY <2>1, InBlock
  <2>3. m * BlockSize \in Int /\ BlockSize \in Nat
    BY SizeAssumption
  <2>4. i \in (m * BlockSize)..(m * BlockSize + BlockSize - 1)
    BY <2>1, <2>2, <2>3
  <2>5. QED
    BY <2>1, <2>4 DEF Outstanding
<1>11. IsFiniteSet(K) /\ Cardinality(K) = want /\ K # {}
  <2>1. PICK x \in Int, y \in Int : x = at - want /\ y = at - 1
    BY <1>3
  <2>2. x <= y /\ y - x + 1 = want
    BY <1>3, <2>1
  <2>3. K = x..y /\ x \in x..y
    BY <2>1, <2>2 DEF K
  <2>4. IsFiniteSet(x..y) /\ Cardinality(x..y) = want
    <3>1. ~(x > y)
      BY <2>2
    <3>2. QED
      BY <2>2, <3>1, FS_Interval
  <2>5. QED
    BY <2>3, <2>4
<1>12. IsFiniteSet(Outstanding(m))
  <2>1. PICK x \in Int, y \in Int : x = m * BlockSize /\ y = m * BlockSize + BlockSize - 1
    BY SizeAssumption
  <2>2. Outstanding(m) \subseteq x..y
    BY <1>1, <2>1, OutstandingFacts
  <2>3. QED
    BY <2>2, FS_Interval, FS_Subset
<1>13. /\ IsFiniteSet(Outstanding(m)')
       /\ Cardinality(Outstanding(m)') = Cardinality(Outstanding(m)) - want
       /\ Cardinality(Outstanding(m)) \in Nat /\ Cardinality(Outstanding(m)') \in Nat
  <2>1. Outstanding(m)' = Outstanding(m) \ K /\ Outstanding(m) \cap K = K
    BY <1>8, <1>10
  <2>2. PICK S, T : S = Outstanding(m) /\ T = Outstanding(m)'
    OBVIOUS
  <2>3. IsFiniteSet(S) /\ T = S \ K /\ S \cap K = K
    BY <1>12, <2>1, <2>2
  <2>4. IsFiniteSet(T) /\ Cardinality(T) = Cardinality(S) - want
    BY <1>11, <2>3, FS_Difference
  <2>5. Cardinality(S) \in Nat /\ Cardinality(T) \in Nat
    BY <2>3, <2>4, FS_CardinalityType
  <2>6. QED
    BY <1>3, <2>2, <2>4, <2>5
<1>14. QED
  BY <1>3, <1>4, <1>9, <1>10, <1>11, <1>13

\* The consumer that counts the last elements of a block, and no other, unlinks it.
LEMMA SetManyEmptyDeep ==
  ASSUME Frame, Frame', NEW off \in Offsets, NEW r \in Nat, Deep(off, r), NEW c \in Consumers,
         SetManyEmpty(c)
  PROVE  Deep(off, r)'
<1>1. /\ Shape /\ IndexType /\ IndexType' /\ ConsumerType /\ Hands /\ PlaceInv /\ MemoryType
      /\ Layout(off, r) /\ Linked(off) /\ Settled /\ Filled(off)
      /\ Counted(off) /\ PlacedOnce /\ Delivered /\ Found(off, r)
  BY DEF Frame, Shape, Deep, Layout, Hands
<1>2. /\ Others(c) /\ UNCHANGED <<counters, index, elements, free, producer, out>>
      /\ cpc[c] = "empty"
      /\ completed' = [completed EXCEPT ![loc[c].block] = @ + loc[c].want]
      /\ IF Emptied(c) THEN cpc'[c] = "unlink" /\ loc'[c] = loc[c] ELSE Advance(c)
  BY <1>1, SetManyEmptyMoves
<1>3. PICK m \in Alive, b \in Blocks :
        /\ m = Here(c) /\ b = loc[c].block /\ m \in Int /\ b = value[At(off, m)]
        /\ At(off, m) \in Entries
  BY <1>2, HeldEntry
<1>4. /\ \A n \in Int \ {m} : Outstanding(n)' = Outstanding(n)
      /\ Outstanding(m) # {} /\ IsFiniteSet(Outstanding(m)')
      /\ Cardinality(Outstanding(m)') \in Nat /\ Cardinality(Outstanding(m)) \in Nat
      /\ Cardinality(Outstanding(m)') = Cardinality(Outstanding(m)) - loc[c].want
      /\ Unmoved(c)' = Unmoved(c) /\ cpc'[c] \in {"idle", "move", "unlink"}
  BY <1>3, CountingOff
<1>5. /\ UNCHANGED <<tailIndex, headIndex, headers, key, value, ppc, goal, newBlock, chain, undone>>
      /\ \A d \in Consumers \ {c} : cpc'[d] = cpc[d] /\ loc'[d] = loc[d] /\ Here(d)' = Here(d)
  BY <1>2 DEF counters, index, producer, Others, Here
<1>6. loc[c].want \in Nat /\ completed[b] \in Nat /\ BlockSize \in Nat
      /\ completed[b] = BlockSize - Cardinality(Outstanding(m))
  BY <1>1, <1>3, HandLocals, SizeAssumption DEF MemoryType, Counted
<1>7. completed'[b] = BlockSize - Cardinality(Outstanding(m)')
      /\ \A d \in Blocks \ {b} : completed'[d] = completed[d]
  <2>1. completed'[b] = completed[b] + loc[c].want
    BY <1>1, <1>2, <1>3 DEF MemoryType
  <2>2. completed[b] + loc[c].want = BlockSize - (Cardinality(Outstanding(m)) - loc[c].want)
    BY <1>4, <1>6
  <2>3. QED
    BY <1>1, <1>2, <1>3, <1>4, <2>1, <2>2 DEF MemoryType
<1>8. Emptied(c) <=> Outstanding(m)' = {}
  <2>1. Emptied(c) <=> completed[b] + loc[c].want = BlockSize
    BY <1>3 DEF Emptied
  <2>2. Emptied(c) <=> Cardinality(Outstanding(m)') = 0
    BY <1>4, <1>6, <2>1
  <2>3. QED
    BY <1>4, <2>2, FS_EmptySet
<1>9. cpc'[c] = "unlink" <=> Emptied(c)
  BY <1>2 DEF Advance
<1>10. Emptied(c) => loc'[c] = loc[c] /\ Here(c)' = m
  BY <1>2, <1>3 DEF Here, HereOf, After
<1>11. Alive' = Alive
  <2>1. Published' = Published /\ Published \subseteq Int
    BY <1>1, <1>5, BlockNumbers DEF Published, Fill, NextNumber
  <2>2. ASSUME NEW n \in Int \ {m} PROVE Unlinking(n)' <=> Unlinking(n)
    BY <1>2, <1>3, <1>5, <1>9, <1>10 DEF Unlinking
  <2>3. m \in Alive'
    <3>1. m \in Published
      BY DEF Alive
    <3>2. Outstanding(m)' # {} \/ Unlinking(m)'
      BY <1>8, <1>9, <1>10 DEF Unlinking
    <3>3. QED
      BY <2>1, <3>1, <3>2 DEF Alive
  <2>4. QED
    BY <1>4, <2>1, <2>2, <2>3 DEF Alive
<1>12. /\ SameIndex /\ SameBlocks /\ (\A n : At(off, n)' = At(off, n))
       /\ Layout(off, r)' /\ Entering(off, r)' /\ Fresh' /\ Chained(off)' /\ Tailed(off)'
  BY <1>1, <1>2, <1>5, <1>11, IndexKept
<1>13. Found(off, r)'
  <2>1. ASSUME NEW d \in Consumers \ {c} PROVE FoundOk(off, r, cpc[d], loc[d])'
    BY <1>1, <1>5, <1>12, FoundOthers
  <2>2. FoundOk(off, r, cpc[c], loc[c])'
    <3>1. CASE Emptied(c)
      <4>1. PICK p, q, l : p = cpc[c] /\ q = cpc'[c] /\ l = loc[c]
        OBVIOUS
      <4>2. FoundOk(off, r, p, l) /\ p = "empty" /\ q = "unlink" /\ l.header \in DOMAIN headers
        BY <1>1, <1>2, <3>1, <4>1 DEF Found, PlaceInv, PlaceOk, After
      <4>3. FoundOk(off, r, q, l)
        <5>1. HereOf(q, l) = HereOf(p, l)
          BY <4>2 DEF HereOf, After
        <5>2. QED
          BY <4>2, <5>1 DEF FoundOk, After
      <4>4. FoundOk(off, r, q, l)'
        BY <1>1, <1>5, <1>12, <4>2, <4>3, FoundFrame
      <4>5. QED
        BY <1>10, <3>1, <4>1, <4>4
    <3>2. CASE ~Emptied(c)
      BY <1>2, <1>5, <3>2, AdvanceFound
    <3>3. QED
      BY <3>1, <3>2
  <2>3. QED
    BY <2>1, <2>2 DEF Found
<1>14. Settled'
  <2>1. ASSUME NEW d \in Consumers \ {c}, cpc[d] = "unlink"
        PROVE  Here(d) \in Int /\ Here(d) # m /\ Outstanding(Here(d))' = {}
    <3>1. Outstanding(Here(d)) = {} /\ Here(d) \in Int
      BY <1>1, <2>1, HereRange DEF Settled, After
    <3>2. PICK n \in Int : n = Here(d)
      BY <3>1
    <3>3. Outstanding(n)' = {} /\ n # m
      BY <1>4, <3>1, <3>2
    <3>4. Here(d)' = n
      BY <1>5, <3>2
    <3>5. QED
      BY <3>2, <3>3, <3>4
  <2>2. Emptied(c) => Outstanding(Here(c))' = {}
    <3>1. Emptied(c) => Outstanding(m)' = {} /\ Here(c)' = m
      BY <1>8, <1>10
    <3>2. QED
      BY <3>1
  <2>3. QED
    BY <1>1, <1>5, <1>9, <1>10, <2>1, <2>2 DEF Settled
<1>15. \A d \in Consumers : Unmoved(d)' = Unmoved(d)
  BY <1>4, <1>5 DEF Unmoved
<1>16. Filled(off)'
  <2>1. \A i \in Int : Present(i)' <=> Present(i)
    BY <1>5, <1>15 DEF Present
  <2>2. QED
    BY <1>1, <1>2, <1>11, <1>12, <2>1, FilledFrame
<1>17. Counted(off)'
  <2>1. ASSUME NEW n \in Alive
        PROVE  completed'[value[At(off, n)]] = BlockSize - Cardinality(Outstanding(n)')
    <3>1. CASE n = m
      BY <1>3, <1>7, <3>1
    <3>2. CASE n # m
      <4>1. value[At(off, n)] # b /\ value[At(off, n)] \in Blocks /\ n \in Int
        BY <1>1, <1>3, <3>2, AliveBlocks, AliveEntry
      <4>2. QED
        BY <1>1, <1>4, <1>7, <3>2, <4>1 DEF Counted
    <3>3. QED
      BY <3>1, <3>2
  <2>2. newBlock # None => completed'[newBlock] = 0
    <3>1. newBlock # None => newBlock \in Blocks
      BY <1>1 DEF Shape, ProducerType
    <3>2. newBlock # b
      BY <1>1, <1>3 DEF PlacedOnce, Indexed
    <3>3. QED
      BY <1>1, <1>7, <3>1, <3>2 DEF Counted
  <2>3. QED
    BY <1>5, <1>11, <1>12, <2>1, <2>2 DEF Counted
<1>18. PlacedOnce'
  <2>1. /\ \A d \in Consumers : cpc'[d] = "free" => cpc[d] = "free" /\ loc'[d] = loc[d]
        /\ \A d \in Consumers : cpc[d] = "free" => cpc'[d] = "free" /\ loc'[d] = loc[d]
    BY <1>2, <1>4, <1>5
  <2>2. Leaving' = Leaving
    BY <2>1 DEF Leaving
  <2>3. \A x, y \in Consumers :
           cpc'[x] = "free" /\ cpc'[y] = "free" /\ loc'[x].block = loc'[y].block => x = y
    BY <1>1, <2>1 DEF PlacedOnce
  <2>4. QED
    BY <1>1, <1>2, <1>5, <1>12, <2>2, <2>3, PlacedFrame
<1>19. Delivered'
  BY <1>1, <1>2, <1>5, <1>15 DEF Delivered
<1>20. QED
  BY <1>12, <1>13, <1>14, <1>16, <1>17, <1>18, <1>19 DEF Deep

\* The block is out of the index, and its entry can be used again.
LEMMA UnlinkDeep ==
  ASSUME Frame, Frame', NEW off \in Offsets, NEW r \in Nat, Deep(off, r), NEW c \in Consumers, Unlink(c)
  PROVE  Deep(off, r)'
<1>1. /\ Shape /\ IndexType /\ IndexType' /\ ConsumerType /\ Hands /\ PlaceInv
      /\ Layout(off, r) /\ TailRight(off) /\ Linked(off) /\ Distinct /\ Window(r) /\ Keyed(off, r)
      /\ Entering(off, r) /\ Fresh /\ Chained(off) /\ Tailed(off) /\ Settled /\ Filled(off)
      /\ Counted(off) /\ PlacedOnce /\ Delivered /\ Found(off, r)
  BY DEF Frame, Shape, Deep, Layout, Hands
<1>2. /\ Others(c) /\ UNCHANGED <<counters, headers, key, memory, producer, loc, out>>
      /\ cpc[c] = "unlink" /\ cpc'[c] = "free"
      /\ value' = [value EXCEPT ![EntryOf(c)] = None]
  BY <1>1, UnlinkMoves
<1>3. PICK m \in Alive, b \in Blocks, e \in Entries :
        /\ m = Here(c) /\ b = loc[c].block /\ m \in Nat /\ m < Fill /\ b = value[e]
        /\ e = At(off, m) /\ e = EntryOf(c)
  BY <1>2, HeldEntry
<1>4. value'[e] = None /\ \A f \in Entries : f # e => value'[f] = value[f]
  BY <1>1, <1>2, <1>3 DEF IndexType
<1>5. /\ UNCHANGED <<tailIndex, headIndex, headers, key, elements, completed, free, tailBlock, ppc,
                     goal, idxEntry, newBlock, chain, undone, loc, out>>
      /\ \A d \in Consumers \ {c} : cpc'[d] = cpc[d]
  BY <1>2 DEF counters, memory, producer, Others
<1>6. SameIndex /\ (\A n : At(off, n)' = At(off, n)) /\ Cap(Len(headers))' = Cap(Len(headers))
  <2>1. SameIndex
    BY <1>5 DEF SameIndex
  <2>2. Cap(Len(headers))' = Cap(Len(headers))
    BY <1>5 DEF Cap
  <2>3. QED
    BY <1>1, <2>1, <2>2, EntriesSame
<1>7. \A d \in Consumers : /\ Uncounted(d)' = Uncounted(d) /\ Unmoved(d)' = Unmoved(d)
                           /\ d # c => Here(d)' = Here(d)
  BY <1>2, <1>5 DEF Uncounted, Unmoved, Span, Here
<1>8. \A n : Outstanding(n)' = Outstanding(n)
  BY <1>5, <1>7 DEF Outstanding
<1>9. /\ Outstanding(m) = {}
      /\ \A d \in Consumers \ {c} : cpc[d] = "unlink" => Here(d) # m
  BY <1>1, <1>2, <1>3 DEF Settled
<1>10. /\ \A n : n # m => (Unlinking(n)' <=> Unlinking(n))
       /\ ~Unlinking(m)'
  BY <1>2, <1>3, <1>5, <1>7, <1>9 DEF Unlinking
<1>11. /\ Fill' = Fill /\ NextNumber' = NextNumber /\ Placed' = Placed /\ Published' = Published
       /\ Alive' = Alive \ {m} /\ Kept' \subseteq Kept
  <2>1. Fill' = Fill /\ NextNumber' = NextNumber
    BY <1>5 DEF Fill, NextNumber
  <2>2. Placed' = Placed /\ Published' = Published
    BY <1>5, <2>1 DEF Placed, Published
  <2>3. Alive' = Alive \ {m}
    BY <1>8, <1>9, <1>10, <2>2 DEF Alive
  <2>4. QED
    BY <1>5, <2>1, <2>2, <2>3 DEF Kept
<1>12. \A n \in Alive' : /\ n \in Alive /\ n \in Nat /\ n # m /\ At(off, n) \in Entries /\ At(off, n) # e
                         /\ value[At(off, n)] \in Blocks /\ value'[At(off, n)] = value[At(off, n)]
  <2>1. TAKE n \in Alive'
  <2>2. n \in Alive /\ n # m
    BY <1>11
  <2>3. At(off, n) \in Entries /\ value[At(off, n)] \in Blocks /\ n \in Nat
    BY <1>1, <2>2, AliveEntry
  <2>4. At(off, n) # e
    BY <1>3, <2>2, AliveBlocks
  <2>5. QED
    BY <1>4, <2>2, <2>3, <2>4
<1>13. Layout(off, r)'
  <2>1. TailRight(off)'
    BY <1>1, <1>5, <1>6, <1>11 DEF TailRight, blockIndex
  <2>2. Window(r)' /\ Distinct'
    BY <1>1, <1>6, <1>11, EntriesSame DEF Window
  <2>3. Linked(off)'
    <3>1. \A n \in Alive' : value'[At(off, n)'] \in Blocks
      BY <1>6, <1>12
    <3>2. ASSUME NEW f \in Entries, value'[f] \in Blocks
          PROVE  \E n \in Alive' : f = At(off, n)'
      <4>1. f # e /\ value[f] \in Blocks
        BY <1>4, <3>2, BlocksAssumption
      <4>2. PICK n \in Alive : f = At(off, n)
        BY <1>1, <4>1 DEF Linked
      <4>3. n # m
        BY <1>3, <4>1, <4>2
      <4>4. QED
        BY <1>6, <1>11, <4>2, <4>3
    <3>3. QED
      BY <3>1, <3>2 DEF Linked
  <2>4. Keyed(off, r)'
    BY <1>1, <1>5, <1>6, <1>11 DEF Keyed
  <2>5. QED
    BY <2>1, <2>2, <2>3, <2>4 DEF Layout
<1>14. Entering(off, r)' /\ Fresh'
  <2>1. \A f \in Entries : value'[f] = Junk => value[f] = Junk
    BY <1>4, BlocksAssumption
  <2>2. Entering(off, r)'
    <3>1. SUFFICES ASSUME ppc \in {"advance", "block", "publish"} PROVE value'[idxEntry] \in {None, Junk}
      BY <1>1, <1>5, <1>6, <1>11 DEF Entering
    <3>2. value[idxEntry] \in {None, Junk} /\ idxEntry = At(off, NextNumber)
      BY <1>1, <3>1 DEF Entering
    <3>3. idxEntry \in Entries
      BY <1>1, <3>2, EntryAt, BlockNumbers
    <3>4. QED
      BY <1>4, <3>2, <3>3
  <2>3. QED
    BY <1>1, <1>5, <2>1, <2>2 DEF Fresh
<1>15. Chained(off)'
  <2>1. ASSUME NEW i \in (undone + 1)..Len(chain)
        PROVE  chain[i] = value'[At(off, Fill + i - 1)]
    <3>1. PICK n \in Alive : n = Fill + i - 1 /\ Outstanding(n) # {}
      BY <1>1, ChainNumber, ChainAlive
    <3>2. n \in Alive'
      BY <1>9, <1>11, <3>1
    <3>3. QED
      BY <1>1, <1>12, <3>1, <3>2 DEF Chained
  <2>2. QED
    BY <1>5, <1>6, <1>11, <2>1 DEF Chained
<1>16. Tailed(off)'
  <2>1. ASSUME tailIndex % BlockSize # 0 PROVE value'[At(off, Fill - 1)] = value[At(off, Fill - 1)]
    <3>1. PICK n \in Alive : n = Fill - 1 /\ Outstanding(n) # {}
      BY <1>1, <2>1, TailAlive
    <3>2. n \in Alive'
      BY <1>9, <1>11, <3>1
    <3>3. QED
      BY <1>12, <3>1, <3>2
  <2>2. QED
    BY <1>1, <1>5, <1>6, <1>11, <2>1 DEF Tailed
<1>17. Found(off, r)'
  <2>1. ASSUME NEW d \in Consumers \ {c} PROVE FoundOk(off, r, cpc[d], loc[d])'
    <3>1. cpc'[d] = cpc[d] /\ loc'[d] = loc[d]
      BY <1>5
    <3>2. ASSUME cpc[d] \in {"empty", "unlink"}
          PROVE  value'[At(off, Here(d))] = value[At(off, Here(d))]
      <4>1. Here(d) \in Alive /\ Here(d) \in Int
        BY <3>2, HeldEntry
      <4>2. Here(d) # m
        <5>1. CASE cpc[d] = "unlink"
          BY <1>9, <5>1
        <5>2. CASE cpc[d] = "empty"
          <6>1. ~Unlinking(Here(d)) \/ Here(d) # m
            <7>1. HandOk(cpc[d], loc[d], headIndex) /\ loc[d].at \in Nat /\ loc[d].stop \in Nat
                  /\ loc[d].want \in Nat
              BY <1>1, HandLocals, HandAt
            <7>2. PICK i \in Int : i = loc[d].at - 1
              BY <7>1
            <7>3. i \in Uncounted(d)
              BY <5>2, <7>1, <7>2 DEF HandOk, After, Uncounted, Span
            <7>4. Here(d) = Num(i)
              BY <5>2, <7>2 DEF Here, HereOf, After
            <7>5. i \in Outstanding(Here(d))
              <8>1. PICK n \in Int : n = Here(d)
                BY <4>1
              <8>2. n * BlockSize <= i /\ i < n * BlockSize + BlockSize
                BY <7>4, <8>1, BlockOf
              <8>3. n * BlockSize \in Int /\ BlockSize \in Nat
                BY SizeAssumption
              <8>4. i \in (n * BlockSize)..(n * BlockSize + BlockSize - 1)
                BY <8>2, <8>3
              <8>5. QED
                BY <7>3, <8>1, <8>4 DEF Outstanding
            <7>6. QED
              BY <1>9, <7>5
          <6>2. Unlinking(m)
            BY <1>2, <1>3 DEF Unlinking
          <6>3. QED
            BY <6>1, <6>2
        <5>3. QED
          BY <3>2, <5>1, <5>2
      <4>3. QED
        BY <1>11, <1>12, <4>1, <4>2
    <3>3. QED
      BY <1>1, <1>6, <3>1, <3>2, FoundOthers
  <2>2. FoundOk(off, r, cpc[c], loc[c])'
    <3>1. PICK p, q, l : p = cpc[c] /\ q = cpc'[c] /\ l = loc[c]
      OBVIOUS
    <3>2. FoundOk(off, r, p, l) /\ p = "unlink" /\ q = "free" /\ l.header \in DOMAIN headers
      BY <1>1, <1>2, <3>1 DEF Found, PlaceInv, PlaceOk, After
    <3>3. FoundOk(off, r, q, l)
      <4>1. HereOf(q, l) = HereOf(p, l)
        BY <3>2 DEF HereOf, After
      <4>2. QED
        BY <3>2, <4>1 DEF FoundOk, After
    <3>4. FoundOk(off, r, q, l)'
      BY <1>1, <1>6, <3>2, <3>3, FoundFrame
    <3>5. QED
      BY <1>5, <3>1, <3>4
  <2>3. QED
    BY <2>1, <2>2 DEF Found
<1>18. Settled'
  BY <1>1, <1>2, <1>5, <1>7, <1>8 DEF Settled
<1>19. Filled(off)'
  <2>1. \A i \in Int : Present(i)' <=> Present(i)
    BY <1>5, <1>7 DEF Present
  <2>2. ASSUME NEW n \in Alive', NEW s \in Slots
        PROVE  elements[value'[At(off, n)]][s] =
                 IF Present(n * BlockSize + s)' THEN n * BlockSize + s ELSE Gone
    <3>1. n * BlockSize + s \in Int
      <4>1. n \in Int /\ s \in Int /\ n * BlockSize \in Int
        BY <1>12, SizeAssumption DEF Slots
      <4>2. QED
        BY <4>1
    <3>2. QED
      BY <1>1, <1>12, <2>1, <3>1 DEF Filled
  <2>3. ASSUME NEW d \in Blocks, \A f \in Entries : value'[f] # d, NEW s \in Slots
        PROVE  elements[d][s] = Gone
    <3>1. CASE d = b
      <4>1. elements[b][s] = IF Present(m * BlockSize + s) THEN m * BlockSize + s ELSE Gone
        <5>1. m \in Alive /\ value[At(off, m)] = b
          BY <1>3
        <5>2. elements[value[At(off, m)]][s] =
                IF Present(m * BlockSize + s) THEN m * BlockSize + s ELSE Gone
          BY <1>1, <5>1 DEF Filled
        <5>3. QED
          BY <5>1, <5>2, Zenon
      <4>2. ~Present(m * BlockSize + s)
        <5>1. PICK y \in Int, i \in Int : y = m * BlockSize /\ i = y + s /\ i = m * BlockSize + s
          <6>1. m * BlockSize \in Int /\ s \in Int
            BY <1>3, SizeAssumption DEF Slots
          <6>2. QED
            BY <6>1
        <5>2. i \in y..(y + BlockSize - 1)
          BY <5>1, SizeAssumption DEF Slots
        <5>3. i \notin Outstanding(m)
          BY <1>9
        <5>4. \A d2 \in Consumers : Unmoved(d2) \subseteq Uncounted(d2)
          <6>1. TAKE d2 \in Consumers
          <6>2. loc[d2].at \in Nat /\ loc[d2].want \in Nat /\ loc[d2].stop \in Nat
            BY <1>1, HandLocals
          <6>3. QED
            BY <6>2 DEF Unmoved, Uncounted, Span
        <5>5. QED
          BY <5>1, <5>2, <5>3, <5>4 DEF Present, Outstanding
      <4>3. QED
        BY <3>1, <4>1, <4>2
    <3>2. CASE d # b
      <4>1. \A f \in Entries : value[f] # d
        BY <1>3, <1>4, <2>3, <3>2
      <4>2. QED
        BY <1>1, <4>1 DEF Filled
    <3>3. QED
      BY <3>1, <3>2
  <2>4. QED
    BY <1>5, <1>6, <2>2, <2>3 DEF Filled
<1>20. Counted(off)'
  BY <1>1, <1>5, <1>6, <1>8, <1>12 DEF Counted
<1>21. PlacedOnce'
  <2>1. Indexed' = Indexed \ {b} /\ b \in Indexed
    <3>1. \A f \in Entries : f # e => value[f] # b
      BY <1>1, <1>3 DEF PlacedOnce
    <3>2. \A d \in Blocks : (\E f \in Entries : value'[f] = d) <=> d # b /\ \E f \in Entries : value[f] = d
      BY <1>3, <1>4, <3>1, BlocksAssumption
    <3>3. QED
      BY <1>3, <3>2 DEF Indexed
  <2>2. Leaving' = Leaving \cup {b}
    BY <1>2, <1>3, <1>5 DEF Leaving
  <2>3. newBlock' = newBlock /\ free' = free /\ chain' = chain /\ Withdrawn' = Withdrawn
    BY <1>5 DEF Withdrawn
  <2>4. PlacedOnce!1' /\ PlacedOnce!2' /\ PlacedOnce!3' /\ PlacedOnce!4' /\ PlacedOnce!5'
    BY <1>1, <2>1, <2>2, <2>3 DEF PlacedOnce
  <2>5. \A f, g \in Entries : value'[f] = value'[g] /\ value'[f] \in Blocks => f = g
    BY <1>1, <1>4, BlocksAssumption DEF PlacedOnce
  <2>6. \A x, y \in Consumers :
           cpc'[x] = "free" /\ cpc'[y] = "free" /\ loc'[x].block = loc'[y].block => x = y
    <3>1. \A d \in Consumers \ {c} : cpc'[d] = "free" => loc[d].block # b
      BY <1>1, <1>3, <1>5, <2>1 DEF PlacedOnce, Leaving
    <3>2. QED
      BY <1>1, <1>3, <1>5, <3>1 DEF PlacedOnce
  <2>7. QED
    BY <1>1, <2>3, <2>4, <2>5, <2>6 DEF PlacedOnce
<1>22. Delivered'
  BY <1>1, <1>5, <1>7 DEF Delivered
<1>23. QED
  BY <1>13, <1>14, <1>15, <1>16, <1>17, <1>18, <1>19, <1>20, <1>21, <1>22 DEF Deep

-----------------------------------------------------------------------------
(* The invariant, and what follows from it. *)

\* A step that changes nothing keeps everything.
LEMMA StutterDeep ==
  ASSUME Frame, Frame', NEW off \in Offsets, NEW r \in Nat, Deep(off, r), UNCHANGED vars
  PROVE  Deep(off, r)'
<1>1. /\ UNCHANGED <<tailIndex, headIndex, headers, key, value, elements, completed, free,
                     tailBlock, ppc, goal, idxEntry, newBlock, chain, undone, cpc, loc, out>>
      /\ UNCHANGED producer
  BY DEF vars, counters, index, memory, producer, consumer
<1>2. /\ Shape /\ IndexType /\ IndexType' /\ Layout(off, r) /\ Linked(off) /\ Found(off, r)
      /\ Chained(off) /\ Tailed(off) /\ Settled /\ Filled(off) /\ Counted(off) /\ PlacedOnce
      /\ Delivered
  BY DEF Frame, Shape, Deep, Layout
<1>3. \A d \in Consumers : /\ Uncounted(d)' = Uncounted(d) /\ Unmoved(d)' = Unmoved(d)
                           /\ Here(d)' = Here(d)
  BY <1>1 DEF Uncounted, Unmoved, Span, Here
<1>4. \A n : Outstanding(n)' = Outstanding(n) /\ (Unlinking(n)' <=> Unlinking(n))
  BY <1>1, <1>3 DEF Outstanding, Unlinking
<1>5. Alive' = Alive
  BY <1>1, <1>4, AliveSame
<1>6. /\ SameIndex /\ SameBlocks /\ (\A n : At(off, n)' = At(off, n))
      /\ Layout(off, r)' /\ Entering(off, r)' /\ Fresh' /\ Chained(off)' /\ Tailed(off)'
  BY <1>1, <1>2, <1>5, IndexKept
<1>7. Found(off, r)'
  <2>1. r <= r
    OBVIOUS
  <2>2. \A d \in Consumers : FoundOk(off, r, cpc[d], loc[d])'
    BY <1>1, <1>2, <1>6, <2>1, FoundOthers
  <2>3. QED
    BY <2>2 DEF Found
<1>8. Settled' /\ Delivered'
  BY <1>1, <1>2, <1>3, <1>4 DEF Settled, Delivered
<1>9. Filled(off)'
  <2>1. \A i \in Int : Present(i)' <=> Present(i)
    BY <1>1, <1>3 DEF Present
  <2>2. QED
    BY <1>1, <1>2, <1>5, <1>6, <2>1, FilledFrame
<1>10. Counted(off)'
  BY <1>1, <1>2, <1>4, <1>5, <1>6, CountedFrame
<1>11. PlacedOnce'
  <2>1. Leaving' = Leaving
    BY <1>1 DEF Leaving
  <2>2. \A c, d \in Consumers :
          cpc'[c] = "free" /\ cpc'[d] = "free" /\ loc'[c].block = loc'[d].block => c = d
    BY <1>1, <1>2 DEF PlacedOnce
  <2>3. QED
    BY <1>1, <1>2, <1>6, <2>1, <2>2, PlacedFrame
<1>12. QED
  BY <1>6, <1>7, <1>8, <1>9, <1>10, <1>11 DEF Deep

\* Inv is inductive.
LEMMA InvStep ==
  Inv /\ [Next]_vars => Inv'
<1> SUFFICES ASSUME Inv, [Next]_vars PROVE Inv'
  OBVIOUS
<1>1. Frame /\ Frame' /\ IndexType'
  BY FrameStep DEF Inv, Frame, Shape
<1>2. PICK off \in Offsets, r \in Nat : Deep(off, r)
  BY DEF Inv
<1>3. \E s \in Offsets, t \in Nat : Deep(s, t)'
  <2>1. CASE Enqueue \/ EnqueueBulk \/ NoIndex
    BY <1>1, <1>2, <2>1, EnqueueDeep
  <2>2. CASE InsertEntry
    BY <1>1, <1>2, <2>2, InsertDeep
  <2>3. CASE AdvanceTail
    BY <1>1, <1>2, <2>3, AdvanceDeep
  <2>4. CASE NewBlockIndex
    BY <1>1, <1>2, <2>4, GrowDeep
  <2>5. CASE Requisition
    BY <1>1, <1>2, <2>5, RequisitionDeep
  <2>6. CASE NoBlock
    BY <1>1, <1>2, <2>6, NoBlockDeep
  <2>7. CASE Publish
    BY <1>1, <1>2, <2>7, PublishDeep
  <2>8. CASE Undo
    BY <1>1, <1>2, <2>8, UndoDeep
  <2>9. CASE GiveBack
    BY <1>1, <1>2, <2>9, GiveBackDeep
  <2>10. CASE Construct
    BY <1>1, <1>2, <2>10, ConstructDeep
  <2>11. CASE Commit
    BY <1>1, <1>2, <2>11, CommitDeep
  <2>12. ASSUME NEW c \in Consumers, Dequeue(c) \/ DequeueBulk(c) \/ ConsumerStep(c)
         PROVE  Deep(off, r)'
    <3>1. CASE Dequeue(c) \/ DequeueBulk(c) \/ Check(c) \/ Claim(c) \/ Reload(c)
                 \/ GiveBackClaim(c) \/ Take(c)
      BY <1>1, <1>2, <3>1, ClaimingDeep
    <3>2. CASE LoadIndex(c)
      BY <1>1, <1>2, <3>2, LoadIndexDeep
    <3>3. CASE LoadKey(c)
      BY <1>1, <1>2, <3>3, LoadKeyDeep
    <3>4. CASE Move(c)
      BY <1>1, <1>2, <3>4, MoveDeep
    <3>5. CASE SetManyEmpty(c)
      BY <1>1, <1>2, <3>5, SetManyEmptyDeep
    <3>6. CASE Unlink(c)
      BY <1>1, <1>2, <3>6, UnlinkDeep
    <3>7. CASE Free(c)
      BY <1>1, <1>2, <3>7, FreeDeep
    <3>8. QED
      BY <2>12, <3>1, <3>2, <3>3, <3>4, <3>5, <3>6, <3>7 DEF ConsumerStep
  <2>13. CASE UNCHANGED vars
    BY <1>1, <1>2, <2>13, StutterDeep
  <2>14. QED
    BY <1>2, <2>1, <2>2, <2>3, <2>4, <2>5, <2>6, <2>7, <2>8, <2>9, <2>10, <2>11, <2>12, <2>13
    DEF Next, ProducerStep
<1>4. QED
  BY <1>1, <1>3 DEF Inv

\* It holds at the beginning.
LEMMA InvInit ==
  Init => Inv
<1> SUFFICES ASSUME Init PROVE Inv
  OBVIOUS
<1> DEFINE off == [n \in Nat |-> 0]
<1>1. Frame /\ Shape /\ off \in Offsets /\ 0 \in Nat
  BY FrameInit DEF Frame, Offsets
<1>2. /\ tailIndex = 0 /\ headIndex = 0 /\ chain = <<>> /\ undone = 0 /\ ppc = "idle"
      /\ newBlock = None /\ free = Blocks /\ out = {} /\ Len(chain) = 0
      /\ \A c \in Consumers : cpc[c] = "idle" /\ loc[c] = NoLocals
      /\ \A e \in Entries : value[e] = Junk /\ key[e] = INVALID_BLOCK_BASE
      /\ \A b \in Blocks : \A s \in Slots : elements[b][s] = Gone
  BY DEF Init
<1>3. Fill = 0 /\ NextNumber = 0 /\ Placed = 0
  <2>1. Num(BlockSize - 1) = 0
    <3>1. BlockSize - 1 \in Int /\ 0 * BlockSize = 0 /\ BlockSize \in Nat \ {0, 1}
      BY SizeAssumption
    <3>2. 0 * BlockSize <= BlockSize - 1 /\ BlockSize - 1 < 0 * BlockSize + BlockSize
      BY <3>1
    <3>3. QED
      BY <3>1, <3>2, InBlock
  <2>2. tailIndex + BlockSize - 1 = BlockSize - 1
    BY <1>2, SizeAssumption
  <2>3. Fill = 0
    BY <2>1, <2>2 DEF Fill
  <2>4. QED
    BY <1>2, <2>3 DEF NextNumber, Placed
<1>4. Alive = {} /\ Kept = {}
  BY <1>2, <1>3 DEF Published, Alive, Kept
<1>5. \A e \in Entries : value[e] \notin Blocks
  BY <1>2, BlocksAssumption
<1>6. Layout(off, 0)
  <2>1. /\ Len(headers) = 1 /\ Cap(1) = IndexSize /\ blockIndex.tail = IndexSize - 1
        /\ DOMAIN headers = {1}
        /\ headers[1].index = [p \in 0..(IndexSize - 1) |-> p + 1]
    <3> DEFINE f == [p \in 0..(IndexSize - 1) |-> p + 1]
               h == [capacity |-> IndexSize, tail |-> IndexSize - 1, index |-> f]
    <3>1. headers = <<h>>
      BY DEF Init
    <3>2. h.capacity = IndexSize /\ h.tail = IndexSize - 1 /\ h.index = f
      OBVIOUS
    <3> HIDE DEF h
    <3>3. Len(headers) = 1 /\ DOMAIN headers = {1} /\ headers[1] = h
      BY <3>1
    <3>4. QED
      BY <3>2, <3>3 DEF Cap, blockIndex
  <2>2. TailRight(off)
    <3>1. (-1) % IndexSize = IndexSize - 1
      <4>1. IndexSize \in Nat \ {0} /\ -1 \in Int /\ (-1) * IndexSize = -IndexSize
        BY SizeAssumption
      <4>2. PICK i \in Int, q \in Int : i = -1 /\ q = -1
        OBVIOUS
      <4>3. q * IndexSize <= i /\ i < q * IndexSize + IndexSize
            /\ i - q * IndexSize = IndexSize - 1
        BY <4>1, <4>2
      <4>4. i % IndexSize = i - q * IndexSize
        BY <4>1, <4>3, Quotient
      <4>5. QED
        BY <4>2, <4>3, <4>4
    <3>2. Placed - 1 + off[Len(headers)] = -1
      BY <1>3, <2>1
    <3>3. QED
      BY <2>1, <3>1, <3>2 DEF TailRight
  <2>3. Distinct
    BY <2>1, SizeAssumption DEF Distinct
  <2>4. Window(0) /\ Keyed(off, 0)
    BY <1>3, <1>4 DEF Window, Keyed
  <2>5. Linked(off)
    BY <1>4, <1>5 DEF Linked
  <2>6. QED
    BY <2>2, <2>3, <2>4, <2>5 DEF Layout
<1>7. Entering(off, 0) /\ Fresh /\ Chained(off)
  BY <1>2 DEF Entering, Fresh, Chained
<1>8. Tailed(off)
  <2>1. 0 % BlockSize = 0
    BY SizeAssumption
  <2>2. QED
    BY <1>2, <2>1 DEF Tailed
<1>9. Found(off, 0)
  BY <1>2 DEF Found, FoundOk, After
<1>10. Settled /\ Delivered
  BY <1>2 DEF Settled, Delivered
<1>11. Filled(off) /\ Counted(off)
  BY <1>2, <1>4 DEF Filled, Counted
<1>12. PlacedOnce
  <2>1. Indexed = {} /\ Leaving = {} /\ Withdrawn = {}
    BY <1>2, <1>5 DEF Indexed, Leaving, Withdrawn
  <2>2. newBlock \notin Blocks
    BY <1>2, BlocksAssumption
  <2>3. QED
    BY <1>2, <1>5, <2>1, <2>2 DEF PlacedOnce
<1>13. Deep(off, 0)
  BY <1>6, <1>7, <1>8, <1>9, <1>10, <1>11, <1>12 DEF Deep
<1>14. QED
  BY <1>1, <1>13 DEF Inv

\* The invariant holds.
THEOREM InvHolds ==
  Spec => []Inv
<1>1. QED
  BY InvInit, InvStep, PTL DEF Spec

\* The lookup in the index ends at the entry of the block looked for, and the block is
\* there, whatever the producer has done to the index meanwhile (concurrentqueue.h:2945).
THEOREM LookupIsRight ==
  Spec => []LookupRight
<1>1. Inv => LookupRight
  <2> SUFFICES ASSUME Inv, NEW c \in Consumers, cpc[c] = "move"
               PROVE  key[EntryOf(c)] = Base(loc[c].at) /\ value[EntryOf(c)] \in Blocks
    BY DEF LookupRight
  <2>1. PICK off \in Offsets, r \in Nat : Deep(off, r)
    BY DEF Inv
  <2>2. Frame /\ ConsumerType
    BY DEF Inv, Frame, Shape
  <2>3. value[EntryOf(c)] \in Blocks /\ key[EntryOf(c)] = Here(c) * BlockSize
    BY <2>1, <2>2, HeldEntry
  <2>4. Here(c) = Num(loc[c].at)
    BY DEF Here, HereOf, After
  <2>5. Base(loc[c].at) = Num(loc[c].at) * BlockSize
    <3>1. loc[c].at \in Int
      BY <2>2, HandLocals
    <3>2. QED
      BY <3>1, BlockOf
  <2>6. QED
    BY <2>3, <2>4, <2>5
<1>2. QED
  BY <1>1, InvHolds, PTL

\* The producer takes an entry nobody uses and constructs an element in an empty slot
\* (concurrentqueue.h:2912).
THEOREM ReuseIsSafe ==
  Spec => []ReuseSafe
<1>1. Inv => EntryFree
  <2> SUFFICES ASSUME Inv, ppc \in {"advance", "block", "publish"}
               PROVE  /\ value[idxEntry] \in {None, Junk}
                      /\ \A c \in Consumers :
                           cpc[c] \in {"move", "empty", "unlink"} => EntryOf(c) # idxEntry
    BY DEF EntryFree
  <2>1. PICK off \in Offsets, r \in Nat : Deep(off, r)
    BY DEF Inv
  <2>2. value[idxEntry] \in {None, Junk}
    BY <2>1 DEF Deep, Entering
  <2>3. ASSUME NEW c \in Consumers, cpc[c] \in {"move", "empty", "unlink"}
        PROVE  value[EntryOf(c)] \in Blocks
    BY <2>1, <2>3, HeldEntry DEF Inv
  <2>4. QED
    BY <2>2, <2>3, BlocksAssumption
<1>2. Inv => NoOverwrite
  <2> SUFFICES ASSUME Inv, ppc = "construct", NEW i \in tailIndex..(goal - 1)
               PROVE  elements[Target(i)][i % BlockSize] = Gone
    BY DEF NoOverwrite
  <2>1. PICK off \in Offsets, r \in Nat : Deep(off, r)
    BY DEF Inv
  <2>2. Frame /\ CountersType /\ ProducerType
    BY DEF Inv, Frame, Shape
  <2>3. PICK m \in Alive : m = Num(i) /\ Target(i) = value[At(off, m)]
    BY <2>1, <2>2, TargetRight
  <2>4. i \in Int /\ i >= tailIndex /\ tailIndex \in Int
    BY <2>2, BoundsAssumption DEF CountersType, ProducerType
  <2>5. i % BlockSize \in Slots /\ i = m * BlockSize + (i % BlockSize)
    BY <2>3, <2>4, BlockOf
  <2>6. PICK s \in Slots : s = i % BlockSize /\ i = m * BlockSize + s
    BY <2>5
  <2>7. ~Present(i)
    BY <2>4 DEF Present
  <2>8. Filled(off)
    BY <2>1 DEF Deep
  <2>9. elements[value[At(off, m)]][s] =
          IF Present(m * BlockSize + s) THEN m * BlockSize + s ELSE Gone
    BY <2>8 DEF Filled
  <2>10. elements[value[At(off, m)]][s] = Gone
    BY <2>6, <2>7, <2>9, Zenon
  <2>11. QED
    BY <2>3, <2>6, <2>10
<1>3. Inv => ReuseSafe
  BY <1>1, <1>2 DEF ReuseSafe
<1>4. QED
  BY <1>3, InvHolds, PTL

\* At rest and empty, a queue has given all blocks back to the pool but the tail block
\* that still has room (concurrentqueue.h:2574, 2813).
THEOREM AllBlocksReturn ==
  Spec => []BlocksReturn
<1>1. Inv => BlocksReturn
  <2> SUFFICES ASSUME Inv, AtRest
               PROVE  free = Blocks \ (IF tailIndex % BlockSize = 0 THEN {} ELSE {tailBlock})
    BY DEF BlocksReturn
  <2>1. PICK off \in Offsets, r \in Nat : Deep(off, r)
    BY DEF Inv
  <2>2. /\ Shape /\ ProducerInv /\ ProducerType /\ PlacedOnce /\ Linked(off) /\ Tailed(off)
        /\ ppc = "idle" /\ headIndex = tailIndex /\ \A c \in Consumers : cpc[c] = "idle"
        /\ MemoryType /\ ConsumerType /\ Hands
    BY <2>1 DEF Inv, Frame, Shape, Deep, Layout, AtRest
  <2>3. chain = <<>> /\ undone = 0 /\ newBlock = None
    BY <2>2 DEF ProducerInv
  <2>4. /\ Fill \in Nat /\ NextNumber = Fill /\ tailIndex \in Nat /\ Fill * BlockSize \in Nat
        /\ tailIndex <= Fill * BlockSize /\ Fill * BlockSize < tailIndex + BlockSize
        /\ BlockSize \in Nat \ {0, 1} /\ FirstBase(tailIndex) = Fill * BlockSize
    <3>1. Len(chain) = 0
      BY <2>3
    <3>2. QED
      BY <2>2, <3>1, BlockNumbers
  <2>5. Leaving = {} /\ Withdrawn = {}
    BY <2>2, <2>3 DEF Leaving, Withdrawn
  <2>6. free = Blocks \ Indexed
    BY <2>2, <2>3, <2>5, BlocksAssumption DEF PlacedOnce, MemoryType, Indexed
  <2>7. \A c \in Consumers : Uncounted(c) = {} /\ ~(cpc[c] = "unlink")
    <3>1. TAKE c \in Consumers
    <3>2. HandOk(cpc[c], loc[c], headIndex)
      BY <2>2, HandAt
    <3>3. QED
      BY <2>2, <3>2 DEF HandOk, Uncounted, Span, Before, After
  <2>8. \A n \in Alive : n < Fill /\ n \in Nat /\ n * BlockSize + BlockSize > tailIndex
    <3>1. TAKE n \in Alive
    <3>2. n < Fill /\ n \in Nat /\ Outstanding(n) # {}
      BY <2>2, <2>3, <2>4, <2>7 DEF Alive, Published, Unlinking
    <3>3. PICK i \in Outstanding(n) : TRUE
      BY <3>2
    <3>4. n * BlockSize \in Int
      BY <2>4, <3>2
    <3>5. i < n * BlockSize + BlockSize /\ i \in Int /\ i >= tailIndex
      BY <2>2, <2>4, <2>7, <3>3, <3>4 DEF Outstanding
    <3>6. QED
      BY <2>4, <3>2, <3>4, <3>5
  <2>9. CASE tailIndex % BlockSize = 0
    <3>1. Fill * BlockSize = tailIndex
      BY <2>4, <2>9, FirstBaseBounds
    <3>2. Alive = {}
      <4>1. SUFFICES ASSUME NEW n \in Alive PROVE FALSE
        OBVIOUS
      <4>2. n < Fill /\ n \in Int /\ n * BlockSize + BlockSize > tailIndex
        BY <2>8
      <4>3. n * BlockSize + BlockSize <= Fill * BlockSize /\ n * BlockSize \in Int
        BY <2>4, <4>2, Times
      <4>4. QED
        BY <2>4, <3>1, <4>2, <4>3
    <3>3. Indexed = {}
      BY <2>2, <3>2 DEF Indexed, Linked
    <3>4. QED
      BY <2>6, <2>9, <3>3
  <2>10. CASE tailIndex % BlockSize # 0
    <3>1. Fill - 1 \in Alive /\ tailBlock = value[At(off, Fill - 1)]
      BY <2>2, <2>3, <2>10, TailAlive DEF Tailed
    <3>2. Alive = {Fill - 1}
      <4>1. SUFFICES ASSUME NEW n \in Alive PROVE n = Fill - 1
        BY <3>1
      <4>2. n < Fill /\ n \in Int /\ n * BlockSize + BlockSize > tailIndex
        BY <2>8
      <4>3. CASE n < Fill - 1
        <5>1. (Fill - 1) * BlockSize = Fill * BlockSize - BlockSize /\ Fill - 1 \in Int
          BY <2>4, Times
        <5>2. n * BlockSize + BlockSize <= (Fill - 1) * BlockSize /\ n * BlockSize \in Int
          BY <2>4, <4>2, <4>3, <5>1, Times
        <5>3. QED
          BY <2>4, <4>2, <5>1, <5>2
      <4>4. QED
        BY <2>4, <4>2, <4>3
    <3>3. At(off, Fill - 1) \in Entries /\ value[At(off, Fill - 1)] \in Blocks
      BY <2>2, <3>1, AliveEntry
    <3>4. Indexed = {tailBlock}
      <4>1. tailBlock \in Indexed
        BY <3>1, <3>3 DEF Indexed
      <4>2. ASSUME NEW b \in Indexed PROVE b = tailBlock
        <5>1. PICK e \in Entries : value[e] = b /\ b \in Blocks
          BY DEF Indexed
        <5>2. PICK n \in Alive : e = At(off, n)
          BY <2>2, <5>1 DEF Linked
        <5>3. n = Fill - 1
          BY <3>2
        <5>4. QED
          BY <3>1, <5>1, <5>2, <5>3
      <4>3. QED
        BY <4>1, <4>2
    <3>5. QED
      BY <2>6, <2>10, <3>4
  <2>11. QED
    BY <2>9, <2>10
<1>2. QED
  BY <1>1, InvHolds, PTL

\* No block counts more elements than it has slots.
LEMMA BoundedStep ==
  ASSUME Inv, Inv', Bounded, [Next]_vars
  PROVE  Bounded'
<1>1. Frame /\ Frame' /\ MemoryType /\ BlockSize \in Nat \ {0, 1}
  BY SizeAssumption DEF Inv, Frame, Shape
<1>2. CASE UNCHANGED completed
  BY <1>2 DEF Bounded
<1>3. CASE Requisition
  BY <1>1, <1>3 DEF Requisition, Bounded, MemoryType
<1>4. ASSUME NEW c \in Consumers, SetManyEmpty(c) PROVE Bounded'
  <2>1. PICK off \in Offsets, r \in Nat : Deep(off, r)
    BY DEF Inv
  <2>2. completed' = [completed EXCEPT ![loc[c].block] = @ + loc[c].want] /\ cpc[c] = "empty"
    BY <1>4 DEF SetManyEmpty
  <2>3. PICK m \in Alive : m = Here(c) /\ m \in Nat /\ EntryOf(c) = At(off, m)
                           /\ loc[c].block = value[At(off, m)]
    BY <1>1, <2>1, <2>2, HeldEntry
  <2>4. /\ Cardinality(Outstanding(m)') \in Nat /\ Cardinality(Outstanding(m)) \in Nat
        /\ Cardinality(Outstanding(m)') = Cardinality(Outstanding(m)) - loc[c].want
    <3>1. m \in Int
      BY <2>3
    <3>2. QED
      BY <1>1, <1>4, <2>1, <2>3, <3>1, CountingOff
  <2>5. completed[value[At(off, m)]] = BlockSize - Cardinality(Outstanding(m))
    BY <2>1 DEF Deep, Counted
  <2>6. completed[loc[c].block] + loc[c].want <= BlockSize
    <3>1. completed[loc[c].block] = BlockSize - Cardinality(Outstanding(m))
      BY <2>3, <2>5, Zenon
    <3>2. loc[c].want \in Nat
      BY <1>1, HandLocals DEF Frame, Shape
    <3>3. QED
      BY <1>1, <2>4, <3>1, <3>2
  <2>7. QED
    BY <1>1, <2>2, <2>6 DEF Bounded, MemoryType
<1>5. QED
  <2>1. \/ UNCHANGED completed \/ Requisition \/ \E c \in Consumers : SetManyEmpty(c)
    BY DEF Next, ProducerStep, ConsumerStep, vars, memory, Enqueue, EnqueueBulk, InsertEntry,
           AdvanceTail, NewBlockIndex, NoIndex, NoBlock, Publish, Undo, GiveBack, Construct,
           Commit, Dequeue, DequeueBulk, Check, Claim, Reload, GiveBackClaim, Take, LoadIndex,
           LoadKey, Move, Unlink, Free
  <2>2. QED
    BY <1>2, <1>3, <1>4, <2>1

\* The cardinality of a set with at most one member.
LEMMA AtMostOne ==
  ASSUME NEW S, \A x, y \in S : x = y
  PROVE  Cardinality(S) = One(S # {})
<1>1. CASE S = {}
  BY <1>1, FS_EmptySet DEF One
<1>2. CASE S # {}
  <2>1. PICK x \in S : TRUE
    BY <1>2
  <2>2. S = {x}
    BY <2>1
  <2>3. QED
    BY <1>2, <2>2, FS_Singleton DEF One
<1>3. QED
  BY <1>1, <1>2

\* A block that is placed once is counted once.
LEMMA InvPlaced ==
  Inv => BlockPlaced
<1> SUFFICES ASSUME Inv, NEW b \in Blocks
             PROVE  1 = One(b \in free) + Cardinality({e \in Entries : value[e] = b})
                          + One(newBlock = b) + Cardinality(Emptying(b))
                          + One(\E i \in 1..undone : chain[i] = b)
  BY DEF BlockPlaced
<1>1. PlacedOnce /\ b # None
  BY BlocksAssumption DEF Inv, Deep
<1>2. Cardinality({e \in Entries : value[e] = b}) = One(b \in Indexed)
  <2> DEFINE S == {e \in Entries : value[e] = b}
  <2>1. \A x, y \in S : x = y
    BY <1>1 DEF PlacedOnce
  <2>2. S # {} <=> b \in Indexed
    BY DEF Indexed
  <2> HIDE DEF S
  <2>3. Cardinality(S) = One(S # {})
    BY <2>1, AtMostOne
  <2>4. Cardinality(S) = One(b \in Indexed)
    BY <2>2, <2>3 DEF One
  <2>5. QED
    BY <2>4 DEF S
<1>3. Cardinality(Emptying(b)) = One(b \in Leaving)
  <2>1. \A x, y \in Emptying(b) : x = y
    BY <1>1 DEF PlacedOnce, Emptying
  <2>2. Emptying(b) # {} <=> b \in Leaving
    BY DEF Leaving, Emptying
  <2>3. Cardinality(Emptying(b)) = One(Emptying(b) # {})
    BY <2>1, AtMostOne
  <2>4. QED
    BY <2>2, <2>3 DEF One
<1>4. (\E i \in 1..undone : chain[i] = b) <=> b \in Withdrawn
  BY DEF Withdrawn
<1>5. /\ b \in free \/ b \in Indexed \/ b \in Leaving \/ b \in Withdrawn \/ newBlock = b
      /\ b \in free => b \notin Indexed /\ b \notin Leaving /\ b \notin Withdrawn /\ newBlock # b
      /\ b \in Indexed => b \notin Leaving /\ b \notin Withdrawn /\ newBlock # b
      /\ b \in Leaving => b \notin Withdrawn /\ newBlock # b
      /\ b \in Withdrawn => newBlock # b
  BY <1>1 DEF PlacedOnce
<1>6. One(\E i \in 1..undone : chain[i] = b) = One(b \in Withdrawn)
  BY <1>4 DEF One
<1>7. 1 = One(b \in free) + One(b \in Indexed) + One(newBlock = b) + One(b \in Leaving)
            + One(b \in Withdrawn)
  BY <1>5 DEF One
<1>8. QED
  BY <1>2, <1>3, <1>6, <1>7

\* Every variable has its type, every block is in one place, and no block counts more
\* elements than it has.
THEOREM BlocksAreSound ==
  Spec => []BlocksSound
<1>1. Init => Bounded
  BY SizeAssumption DEF Init, Bounded
<1>2. Inv /\ Inv' /\ Bounded /\ [Next]_vars => Bounded'
  BY BoundedStep
<1>3. Inv /\ Bounded => BlocksSound
  <2> SUFFICES ASSUME Inv, Bounded PROVE BlocksSound
    OBVIOUS
  <2>1. CountersType /\ IndexType /\ MemoryType /\ ProducerType /\ ConsumerType
    BY DEF Inv, Frame, Shape
  <2>2. OutType
    <3>1. \A i \in out : i \in 0..(headIndex - 1)
      BY DEF Inv, Deep, Delivered
    <3>2. QED
      BY <2>1, <3>1, BoundsAssumption DEF OutType, CountersType
  <2>3. TypeOK
    BY <2>1, <2>2, TypeParts
  <2>4. QED
    BY <2>3, InvPlaced DEF BlocksSound, Bounded
<1>4. QED
  BY <1>1, <1>2, <1>3, InvHolds, PTL DEF Spec

\* What the consumers hold is what they have claimed and not yet moved out.
Hold == [c \in Consumers |-> loc[c].at..(loc[c].stop - 1)]

\* A step of a consumer that takes and moves nothing.
LEMMA SameHold ==
  ASSUME ConsumerType, ConsumerType', NEW c \in Consumers, Others(c), Unmoved(c)' = Unmoved(c)
  PROVE  Hold' = Hold
<1>1. \A d \in Consumers : Unmoved(d)' = Unmoved(d)
  BY DEF Unmoved, Others
<1>2. QED
  BY <1>1 DEF Hold, Unmoved

\* The queue is first in, first out, and delivers each element once: every step is one
\* of ElementQueue or none.
THEOREM IsQueue ==
  Spec => QueueSpec
<1>1. Init => Queue!Init
  <2> SUFFICES ASSUME Init PROVE Queue!Init
    OBVIOUS
  <2>1. NoLocals.at = 0 /\ NoLocals.stop = 0 /\ 0..(0 - 1) = {}
    BY DEF NoLocals
  <2>2. \A c \in Consumers : loc[c].at..(loc[c].stop - 1) = {}
    BY <2>1 DEF Init
  <2>3. QED
    BY <2>2 DEF Init, Queue!Init
<1>2. Inv /\ Inv' /\ [Next]_vars => [Queue!Next]_Queue!vars
  <2> SUFFICES ASSUME Inv, Inv', [Next]_vars
               PROVE  Queue!Next \/ UNCHANGED <<tailIndex, headIndex, Hold, out>>
    BY DEF Queue!vars, Hold
  <2>1. /\ Frame /\ Frame' /\ ConsumerType /\ ConsumerType' /\ CountersType /\ IndexType
        /\ Hands /\ Hands' /\ PlaceInv /\ Claims /\ ClaimInv /\ Shape
    BY DEF Inv, Frame, Shape, Hands, Claims
  <2>2. CASE Commit
    <3>1. tailIndex' > tailIndex
      BY <2>1, <2>2 DEF Commit, Shape, ProducerInv
    <3>2. UNCHANGED <<headIndex, Hold, out>>
      BY <2>2 DEF Commit, Hold, consumer
    <3>3. QED
      BY <3>1, <3>2 DEF Queue!Next, Queue!Enqueue, Hold
  <2>3. CASE Enqueue \/ EnqueueBulk \/ (ProducerStep /\ ~Commit) \/ UNCHANGED vars
    <3>1. UNCHANGED <<counters, consumer>>
      BY <2>3 DEF ProducerStep, Enqueue, EnqueueBulk, InsertEntry, AdvanceTail, NewBlockIndex,
                  NoIndex, Requisition, NoBlock, Publish, Undo, GiveBack, Construct, vars
    <3>2. QED
      BY <3>1 DEF counters, consumer, Hold
  <2>4. ASSUME NEW c \in Consumers, Take(c) PROVE Queue!Next
    <3>1. headIndex + loc[c].want <= tailIndex /\ loc[c].want > 0
      BY <2>1, <2>4, TakeThere DEF Take, Goto, ClaimInv, ClaimOk
    <3>2. /\ Others(c) /\ UNCHANGED <<tailIndex, out>>
          /\ headIndex' = headIndex + loc[c].want /\ cpc[c] = "take"
          /\ loc'[c] = [loc[c] EXCEPT !.at = headIndex, !.want = 0,
                                      !.stop = headIndex + loc[c].want]
      BY <2>1, <2>4, <3>1, TakeMoves
    <3>3. loc'[c].at = headIndex /\ loc'[c].stop = headIndex'
      BY <2>1, <3>2, HandLocals, LocalTypes
    <3>4. loc[c].at = 0 /\ loc[c].stop = 0
      BY <2>1, <3>2, HandAt DEF HandOk, Before, After
    <3>5. Hold[c] = {} /\ Hold' = [Hold EXCEPT ![c] = headIndex..(headIndex' - 1)]
      <4>1. Hold[c] = loc[c].at..(loc[c].stop - 1) /\ Hold[c] = {}
        BY <3>4 DEF Hold
      <4>2. \A d \in Consumers : Hold'[d] = IF d = c THEN headIndex..(headIndex' - 1) ELSE Hold[d]
        BY <3>2, <3>3 DEF Hold, Others
      <4>3. Hold = [d \in Consumers |-> Hold[d]] /\ Hold' = [d \in Consumers |-> Hold'[d]]
        BY DEF Hold
      <4>4. QED
        BY <4>1, <4>2, <4>3
    <3>6. headIndex' \in (headIndex + 1)..tailIndex
      BY <2>1, <3>1, <3>2, HandLocals DEF CountersType
    <3>7. Queue!Claim(c)
      BY <3>2, <3>5, <3>6 DEF Queue!Claim, Hold
    <3>8. QED
      BY <3>7 DEF Queue!Next
  <2>5. ASSUME NEW c \in Consumers, Move(c) PROVE Queue!Next
    <3>1. PICK off \in Offsets, r \in Nat : Deep(off, r)
      BY DEF Inv
    <3>2. cpc[c] = "move"
      BY <2>5 DEF Move, Goto
    <3>3. /\ MoveEnd(c) \in Nat /\ loc[c].at < MoveEnd(c) /\ MoveEnd(c) <= loc[c].stop
          /\ MoveEnd(c) \in 0..MaxTail /\ MoveEnd(c) - loc[c].at \in Nat
      BY <2>1, <3>2, MoveRange, BoundsAssumption
    <3>4. /\ Others(c) /\ UNCHANGED <<tailIndex, headIndex>>
          /\ loc'[c] = [loc[c] EXCEPT !.block = value[EntryOf(c)], !.at = MoveEnd(c),
                                      !.want = MoveEnd(c) - loc[c].at]
      BY <2>1, <2>5, <3>3, MoveMoves DEF counters
    <3>5. loc'[c].at = MoveEnd(c) /\ loc'[c].stop = loc[c].stop
      BY <2>1, <3>4, HandLocals, LocalTypes
    <3>6. out' = out \cup loc[c].at..(MoveEnd(c) - 1)
      BY <2>1, <2>5, <3>1, <3>5, MoveDeep
    <3>7. loc[c].at \in Unmoved(c) /\ loc[c].at \in loc[c].at..(MoveEnd(c) - 1)
          /\ loc[c].at \in Nat /\ loc[c].stop \in Nat
      BY <2>1, <3>3, HandLocals DEF Unmoved
    <3>8. loc[c].at \notin out
      BY <3>1, <3>7 DEF Deep, Delivered
    <3>9. /\ Hold[c] = loc[c].at..(loc[c].stop - 1) /\ Hold'[c] = MoveEnd(c)..(loc[c].stop - 1)
          /\ Hold' = [Hold EXCEPT ![c] = Hold'[c]]
      BY <3>4, <3>5 DEF Hold, Others
    <3>10. Hold'[c] \subseteq Hold[c] /\ Hold[c] \ Hold'[c] = loc[c].at..(MoveEnd(c) - 1)
      BY <3>3, <3>7, <3>9
    <3>11. Queue!Deliver(c)
      BY <3>4, <3>6, <3>7, <3>8, <3>9, <3>10 DEF Queue!Deliver, Hold
    <3>12. QED
      BY <3>11 DEF Queue!Next
  <2>6. ASSUME NEW c \in Consumers,
               Dequeue(c) \/ DequeueBulk(c) \/ Check(c) \/ Claim(c) \/ Reload(c)
                 \/ GiveBackClaim(c)
        PROVE  UNCHANGED <<tailIndex, headIndex, Hold, out>>
    <3>1. Others(c) /\ UNCHANGED <<tailIndex, headIndex, out>>
          /\ cpc[c] \notin Before \cup After /\ cpc'[c] \notin Before \cup After
      BY <2>1, <2>6, DequeueMoves, CheckMoves, ClaimMoves, ReloadMoves, GiveBackMoves
      DEF counters, Before, After
    <3>2. HandOk(cpc[c], loc[c], headIndex) /\ HandOk(cpc'[c], loc'[c], headIndex')
      BY <2>1 DEF Hands, HandInv
    <3>3. Unmoved(c)' = Unmoved(c)
      BY <3>1, <3>2 DEF HandOk, Unmoved
    <3>4. QED
      BY <2>1, <3>1, <3>3, SameHold
  <2>7. ASSUME NEW c \in Consumers, LoadIndex(c) \/ LoadKey(c) \/ Unlink(c)
        PROVE  UNCHANGED <<tailIndex, headIndex, Hold, out>>
    <3>1. Others(c) /\ UNCHANGED <<tailIndex, headIndex, out>>
      BY <2>1, <2>7, LoadIndexMoves, LoadKeyMoves, UnlinkMoves DEF counters
    <3>2. loc'[c].at = loc[c].at /\ loc'[c].stop = loc[c].stop
      <4>1. loc[c] \in Locals
        BY <2>1, HandLocals
      <4>2. CASE LoadIndex(c)
        BY <2>1, <4>1, <4>2, LoadIndexMoves, LocalTypes
      <4>3. CASE LoadKey(c)
        BY <2>1, <4>1, <4>3, LoadKeyMoves, LocalTypes
      <4>4. CASE Unlink(c)
        BY <2>1, <4>4, UnlinkMoves
      <4>5. QED
        BY <2>7, <4>2, <4>3, <4>4
    <3>3. QED
      BY <2>1, <3>1, <3>2, SameHold DEF Unmoved
  <2>8. ASSUME NEW c \in Consumers, SetManyEmpty(c) \/ Free(c)
        PROVE  UNCHANGED <<tailIndex, headIndex, Hold, out>>
    <3>1. /\ Others(c) /\ UNCHANGED <<tailIndex, headIndex, out>> /\ cpc[c] \in After
          /\ loc'[c] = loc[c] \/ Advance(c)
      BY <2>1, <2>8, SetManyEmptyMoves, FreeMoves DEF counters, After
    <3>2. Unmoved(c)' = Unmoved(c)
      BY <2>1, <3>1, AdvanceSpans DEF Unmoved
    <3>3. QED
      BY <2>1, <3>1, <3>2, SameHold
  <2>9. QED
    BY <2>2, <2>3, <2>4, <2>5, <2>6, <2>7, <2>8 DEF Next, ConsumerStep, ProducerStep
<1>3. QED
  BY <1>1, <1>2, InvHolds, PTL DEF Spec, QueueSpec, Queue!Spec
=============================================================================
