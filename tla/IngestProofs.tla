---------------------------- MODULE IngestProofs ----------------------------
(***************************************************************************)
(* Proofs about the receive path, for any pool and any burst size: for any *)
(* number of lcores, and for one lcore that the path is a channel.         *)
(***************************************************************************)
EXTENDS Ingest, DataFacts

(* Type correctness. *)

LEMMA InitTypeInv == Init => TypeInv
<1> SUFFICES ASSUME Init PROVE TypeInv
  OBVIOUS
<1> USE SizesAssumption DEF Init
<1>1. TypeOK
  <2>1. 0 \in Seqs
    BY DEF Seqs
  <2>2. \A w \in Lcores : Len(burst[w]) = 0 /\ Len(msg[w]) = 0 /\ pc[w] = "rx"
    OBVIOUS
  <2>3. burst \in [Lcores -> Seq(Nat)] /\ msg \in [Lcores -> Seq(Bufs)]
    OBVIOUS
  <2>4. mem \in [Bufs -> Nat \cup {None}] /\ ring \in Seq(Bufs)
    OBVIOUS
  <2>5. \A w \in Lcores :
          /\ Len(burst[w]) <= BurstSize
          /\ Len(msg[w]) = IF pc[w] \in {"copy", "enqueue"} THEN Len(burst[w]) ELSE 0
    BY <2>2
  <2>6. pc \in [Lcores -> {"rx", "get", "copy", "enqueue"}]
    OBVIOUS
  <2>7. QED
    BY <2>1, <2>3, <2>4, <2>5, <2>6 DEF TypeOK
<1>2. NothingUnwritten
  BY DEF NothingUnwritten, Range
<1>3. QED
  BY <1>1, <1>2 DEF TypeInv

\* CopyIn writes packet positions, and only into the buffers it was given.
LEMMA CopyInMem ==
  ASSUME TypeOK, NEW w \in Lcores, CopyIn(w)
  PROVE  /\ mem' \in [Bufs -> Nat \cup {None}]
         /\ \A b \in Bufs : mem[b] \in Nat => mem'[b] \in Nat
         /\ \A b \in Range(msg[w]) : mem'[b] \in Nat
<1>1. /\ msg[w] \in Seq(Bufs) /\ burst[w] \in Seq(Nat)
      /\ Len(msg[w]) = Len(burst[w]) /\ mem \in [Bufs -> Nat \cup {None}]
  BY DEF TypeOK, CopyIn
<1> DEFINE at(b) == CHOOSE i \in 1..Len(msg[w]) : msg[w][i] = b
<1>2. \A b \in Range(msg[w]) : b \in Bufs /\ at(b) \in 1..Len(burst[w])
  <2>1. \A b \in Range(msg[w]) : \E i \in 1..Len(msg[w]) : msg[w][i] = b
    BY <1>1 DEF Range
  <2>2. \A b \in Range(msg[w]) : b \in Bufs
    BY <1>1, RangeOfSeq
  <2>3. QED
    BY <1>1, <2>1, <2>2
<1> HIDE DEF at
<1>3. \A b \in Range(msg[w]) : burst[w][at(b)] \in Nat
  BY <1>1, <1>2
<1>4. mem' = [b \in Bufs |-> IF b \in Range(msg[w]) THEN burst[w][at(b)] ELSE mem[b]]
  BY DEF CopyIn, at
<1>5. QED
  BY <1>1, <1>2, <1>3, <1>4

LEMMA NextTypeInv == TypeInv /\ [Next]_vars => TypeInv'
<1> SUFFICES ASSUME TypeInv, [Next]_vars PROVE TypeInv'
  OBVIOUS
<1> USE SizesAssumption, PoolAssumption DEF TypeInv, lcoreVars, dobVars
<1>1. CASE Lose
  <2>1. TypeOK'
    BY <1>1 DEF Lose, TypeOK
  <2>2. NothingUnwritten'
    BY <1>1 DEF Lose, NothingUnwritten
  <2>3. QED
    BY <2>1, <2>2
<1>2. CASE AssemInit
  <2>1. TypeOK'
    BY <1>2 DEF AssemInit, TypeOK
  <2>2. NothingUnwritten'
    BY <1>2 DEF AssemInit, NothingUnwritten
  <2>3. QED
    BY <2>1, <2>2
<1>3. ASSUME NEW w \in Lcores, RxBurst(w) PROVE TypeInv'
  <2>1. TypeOK'
    <3>1. PICK n \in 1..BurstSize :
            /\ burst' = [burst EXCEPT ![w] = [i \in 1..n |-> next + i - 1]]
            /\ next' = next + n
      BY <1>3 DEF RxBurst
    <3>2. /\ [i \in 1..n |-> next + i - 1] \in Seq(Nat)
          /\ Len([i \in 1..n |-> next + i - 1]) = n
      BY DEF TypeOK
    <3>3. QED
      BY <1>3, <3>1, <3>2 DEF RxBurst, TypeOK
  <2>2. NothingUnwritten'
    BY <1>3 DEF RxBurst, NothingUnwritten, TypeOK
  <2>3. QED
    BY <2>1, <2>2
<1>4. ASSUME NEW w \in Lcores, GetBulk(w) PROVE TypeInv'
  <2>1. TypeOK'
    <3>1. PICK b \in Injection(1..Len(burst[w]), free) :
            msg' = [msg EXCEPT ![w] = b] /\ free' = free \ Range(b)
      BY <1>4 DEF GetBulk
    <3>2. b \in Seq(Bufs) /\ Len(b) = Len(burst[w])
      <4>1. Len(burst[w]) \in Nat /\ free \subseteq Bufs
        BY DEF TypeOK
      <4>2. b \in [1..Len(burst[w]) -> Bufs]
        BY <4>1 DEF Injection
      <4>3. QED
        BY <4>1, <4>2, SeqDef, LenProperties
    <3>3. QED
      BY <1>4, <3>1, <3>2 DEF GetBulk, TypeOK
  <2>2. NothingUnwritten'
    BY <1>4 DEF GetBulk, NothingUnwritten, TypeOK
  <2>3. QED
    BY <2>1, <2>2
<1>5. ASSUME NEW w \in Lcores, GetBulkPanic(w) PROVE TypeInv'
  <2>1. TypeOK'
    BY <1>5 DEF GetBulkPanic, TypeOK
  <2>2. NothingUnwritten'
    BY <1>5 DEF GetBulkPanic, NothingUnwritten
  <2>3. QED
    BY <2>1, <2>2
<1>6. ASSUME NEW w \in Lcores, CopyIn(w) PROVE TypeInv'
  <2>1. /\ mem' \in [Bufs -> Nat \cup {None}]
        /\ \A b \in Bufs : mem[b] \in Nat => mem'[b] \in Nat
        /\ \A b \in Range(msg[w]) : mem'[b] \in Nat
    BY <1>6, CopyInMem
  <2>2. TypeOK'
    BY <1>6, <2>1 DEF CopyIn, TypeOK
  <2>3. Range(ring) \subseteq Bufs /\ \A v \in Lcores : Range(msg[v]) \subseteq Bufs
    BY RangeOfSeq DEF TypeOK
  <2>4. NothingUnwritten'
    BY <1>6, <2>1, <2>3 DEF CopyIn, NothingUnwritten, TypeOK
  <2>5. QED
    BY <2>2, <2>4
<1>7. ASSUME NEW w \in Lcores, EnqueueBulk(w) PROVE TypeInv'
  <2>1. ring \in Seq(Bufs) /\ msg[w] \in Seq(Bufs)
    BY DEF TypeOK
  <2>2. ring' \in Seq(Bufs) /\ Range(ring') \subseteq Range(ring) \cup Range(msg[w])
    BY <1>7, <2>1, RangeConcatenation DEF EnqueueBulk
  <2>3. TypeOK'
    BY <1>7, <2>2 DEF EnqueueBulk, TypeOK
  <2>4. NothingUnwritten'
    BY <1>7, <2>2 DEF EnqueueBulk, NothingUnwritten, TypeOK
  <2>5. QED
    BY <2>3, <2>4
<1>8. ASSUME NEW from, NEW to, Dequeue(from, to), to \in {"drainPut", "syncPut", "copyOut"}
      PROVE  TypeInv'
  <2>1. ring \in Seq(Bufs) /\ ring # <<>>
    BY <1>8 DEF TypeOK, Dequeue, CanDequeue
  <2>2. Tail(ring) \in Seq(Bufs) /\ Head(ring) \in Bufs /\ Head(ring) \in Range(ring)
    BY <2>1 DEF Range
  <2>3. Range(Tail(ring)) \subseteq Range(ring)
    BY <2>1 DEF Range
  <2>4. TypeOK'
    BY <1>8, <2>2 DEF Dequeue, TypeOK
  <2>5. NothingUnwritten'
    BY <1>8, <2>2, <2>3 DEF Dequeue, NothingUnwritten, TypeOK
  <2>6. QED
    BY <2>4, <2>5
<1>9. ASSUME NEW to, Put(to), cur # None, dpc = "put" => tmp \in Nat,
             to \in {"drain", "sync", "main"} \/ (to = "account" /\ dpc = "put")
      PROVE  TypeInv'
  <2>1. TypeOK'
    BY <1>9 DEF Put, TypeOK
  <2>2. NothingUnwritten'
    BY <1>9 DEF Put, NothingUnwritten
  <2>3. QED
    BY <2>1, <2>2
<1>10. CASE Drained
  <2>1. TypeOK'
    BY <1>10 DEF Drained, TypeOK
  <2>2. NothingUnwritten'
    BY <1>10 DEF Drained, NothingUnwritten
  <2>3. QED
    BY <2>1, <2>2
<1>11. CASE CopyOut
  <2>1. cur \in Bufs /\ mem[cur] \in Nat
    BY <1>11 DEF CopyOut, TypeOK, NothingUnwritten
  <2>2. TypeOK'
    BY <1>11, <2>1 DEF CopyOut, TypeOK
  <2>3. NothingUnwritten'
    BY <1>11, <2>1 DEF CopyOut, NothingUnwritten
  <2>4. QED
    BY <2>2, <2>3
<1>12. CASE Account
  <2>1. tmp \in Nat
    BY <1>12 DEF Account, NothingUnwritten
  <2>2. PackNum \in Nat \ {0}
    OBVIOUS
  <2>3. ExpectedAfter(tmp) \in Seqs
    BY <2>1, <2>2 DEF ExpectedAfter, PacketSeq, Seqs
  <2>4. TypeOK'
    BY <1>12, <2>3 DEF Account, TypeOK
  <2>5. NothingUnwritten'
    BY <1>12 DEF Account, NothingUnwritten
  <2>6. QED
    BY <2>4, <2>5
<1>13. CASE UNCHANGED vars
  <2>1. TypeOK'
    BY <1>13 DEF vars, TypeOK
  <2>2. NothingUnwritten'
    BY <1>13 DEF vars, NothingUnwritten
  <2>3. QED
    BY <2>1, <2>2
<1>14. CASE DobStep
  <2>1. CASE DrainDequeue
    BY <1>8, <2>1 DEF DrainDequeue
  <2>2. CASE SyncDequeue
    BY <1>8, <2>2 DEF SyncDequeue
  <2>3. CASE MainDequeue
    BY <1>8, <2>3 DEF MainDequeue
  <2>4. CASE DrainPut
    BY <1>9, <2>4 DEF DrainPut, TypeOK
  <2>5. CASE SyncPut
    BY <1>9, <2>5 DEF SyncPut, TypeOK
  <2>6. CASE MainPut
    BY <1>9, <2>6 DEF MainPut, TypeOK, NothingUnwritten
  <2>7. QED
    BY <1>10, <1>11, <1>12, <1>14, <2>1, <2>2, <2>3, <2>4, <2>5, <2>6 DEF DobStep
<1>15. ASSUME NEW w \in Lcores, RxTwice(w) PROVE TypeInv'
  <2>1. PICK v \in Lcores \ {w}, n \in 1..BurstSize :
          /\ pc[v] = "rx"
          /\ burst' = [u \in Lcores |-> IF u \in {v, w} THEN [i \in 1..n |-> next + i - 1]
                                                      ELSE burst[u]]
          /\ pc' = [u \in Lcores |-> IF u \in {v, w} THEN "get" ELSE pc[u]]
          /\ next' = next + n
    BY <1>15 DEF RxTwice
  <2>2. /\ [i \in 1..n |-> next + i - 1] \in Seq(Nat)
        /\ Len([i \in 1..n |-> next + i - 1]) = n
    BY DEF TypeOK
  <2>3. TypeOK'
    BY <1>15, <2>1, <2>2, SMTT(30) DEF RxTwice, TypeOK
  <2>4. NothingUnwritten'
    BY <1>15, <2>1 DEF RxTwice, NothingUnwritten, TypeOK
  <2>5. QED
    BY <2>3, <2>4
<1>16. QED
  BY <1>1, <1>2, <1>3, <1>4, <1>5, <1>6, <1>7, <1>13, <1>14, <1>15 DEF Next, LcoreStep

\* Every variable keeps its shape, and no buffer is queued before it has been
\* written (basicfwd.cpp:246-251).
THEOREM TypeCorrect == Spec => []TypeInv
  BY InitTypeInv, NextTypeInv, PTL DEF Spec
-----------------------------------------------------------------------------
(* Ownership of buffers. *)

\* Buffers the lcores other than w hold.
HeldByOthers(w) == UNION {Range(msg[v]) : v \in Lcores \ {w}}

\* Replacing the array of one lcore: what the lcores hold together.
LEMMA HeldUpdate ==
  ASSUME NEW w \in Lcores, NEW q, msg \in [Lcores -> Seq(Bufs)],
         msg' = [msg EXCEPT ![w] = q]
  PROVE  /\ Held' = HeldByOthers(w) \cup Range(q)
         /\ Held = HeldByOthers(w) \cup Range(msg[w])
<1>1. msg'[w] = q /\ \A v \in Lcores \ {w} : msg'[v] = msg[v]
  OBVIOUS
<1>2. Held = HeldByOthers(w) \cup Range(msg[w])
  <2>1. \A x : x \in Held <=> \E v \in Lcores : x \in Range(msg[v])
    BY DEF Held
  <2>2. \A x : x \in HeldByOthers(w) <=> \E v \in Lcores \ {w} : x \in Range(msg[v])
    BY DEF HeldByOthers
  <2>3. QED
    BY <2>1, <2>2
<1>3. Held' = HeldByOthers(w) \cup Range(q)
  <2>1. \A x : x \in Held' <=> \E v \in Lcores : x \in Range(msg'[v])
    BY DEF Held
  <2>2. \A x : x \in HeldByOthers(w) <=> \E v \in Lcores \ {w} : x \in Range(msg[v])
    BY DEF HeldByOthers
  <2>3. QED
    BY <1>1, <2>1, <2>2
<1>4. QED
  BY <1>2, <1>3

LEMMA InitOwnedOnce == Init => OwnedOnce
<1> SUFFICES ASSUME Init PROVE OwnedOnce
  OBVIOUS
<1>1. Range(<<>>) = {} /\ IsInjective(<<>>)
  BY DEF Range, IsInjective
<1>2. Held = {}
  BY <1>1 DEF Init, Held
<1>3. QED
  BY <1>1, <1>2, PoolAssumption DEF Init, OwnedOnce

LEMMA NextOwnedOnce == TypeInv /\ OwnedOnce /\ [Next]_vars => OwnedOnce'
<1> SUFFICES ASSUME TypeInv, OwnedOnce, [Next]_vars PROVE OwnedOnce'
  OBVIOUS
<1> USE DEF TypeInv, lcoreVars, dobVars
<1>1. ASSUME UNCHANGED <<free, ring, msg, cur>> PROVE OwnedOnce'
  BY <1>1 DEF OwnedOnce, Held
<1>2. ASSUME NEW w \in Lcores, GetBulk(w) PROVE OwnedOnce'
  <2>1. PICK b \in Injection(1..Len(burst[w]), free) :
          msg' = [msg EXCEPT ![w] = b] /\ free' = free \ Range(b)
    BY <1>2 DEF GetBulk
  <2>2. IsInjective(b) /\ Range(b) \subseteq free
    BY DEF Injection, Range
  <2>3. UNCHANGED <<ring, cur>> /\ msg \in [Lcores -> Seq(Bufs)]
    BY <1>2 DEF GetBulk, TypeOK
  <2>4. Held' \subseteq Held \cup Range(b)
    BY <2>1, <2>3, HeldUpdate
  <2>5. QED
    BY <2>1, <2>2, <2>3, <2>4 DEF OwnedOnce
<1>3. ASSUME NEW w \in Lcores, EnqueueBulk(w) PROVE OwnedOnce'
  <2>1. /\ ring \in Seq(Bufs) /\ msg[w] \in Seq(Bufs)
        /\ IsInjective(ring) /\ IsInjective(msg[w])
        /\ Range(ring) \cap Range(msg[w]) = {}
    BY DEF TypeOK, OwnedOnce
  <2>2. IsInjective(ring') /\ Range(ring') \subseteq Range(ring) \cup Range(msg[w])
    BY <1>3, <2>1, ConcatDistinct DEF EnqueueBulk
  <2>3. /\ UNCHANGED <<free, cur>> /\ msg' = [msg EXCEPT ![w] = <<>>]
        /\ msg \in [Lcores -> Seq(Bufs)]
    BY <1>3 DEF EnqueueBulk, TypeOK
  <2>4. Range(<<>>) = {} /\ IsInjective(<<>>)
    BY DEF Range, IsInjective
  <2>5. Held' \subseteq Held /\ Range(msg[w]) \subseteq Held
    BY <2>3, <2>4, HeldUpdate
  <2>6. QED
    BY <2>1, <2>2, <2>3, <2>4, <2>5 DEF OwnedOnce
<1>4. ASSUME NEW from, NEW to, Dequeue(from, to) PROVE OwnedOnce'
  <2>1. ring \in Seq(Bufs) /\ ring # <<>> /\ IsInjective(ring)
    BY <1>4 DEF TypeOK, OwnedOnce, Dequeue, CanDequeue
  <2>2. /\ cur' = Head(ring) /\ ring' = Tail(ring) /\ UNCHANGED <<free, msg>>
    BY <1>4 DEF Dequeue
  <2>3. /\ cur' \in Range(ring) /\ Range(ring') = Range(ring) \ {cur'}
        /\ IsInjective(ring')
    BY <2>1, <2>2, TailDistinct
  <2>4. Held' = Held /\ Held \cap Range(ring) = {}
    BY <2>2 DEF Held, OwnedOnce
  <2>5. QED
    BY <2>2, <2>3, <2>4 DEF OwnedOnce
<1>5. ASSUME NEW to, Put(to), cur # None PROVE OwnedOnce'
  <2>1. free' = free \cup {cur} /\ cur' = None /\ UNCHANGED <<ring, msg>>
    BY <1>5 DEF Put
  <2>2. None \notin Bufs /\ free' \subseteq Bufs /\ Range(ring) \subseteq Bufs
    BY <1>5, <2>1, RangeOfSeq, PoolAssumption DEF TypeOK
  <2>3. Held' = Held /\ \A v \in Lcores : Range(msg[v]) \subseteq Held
    BY <2>1 DEF Held
  <2>4. Held \subseteq Bufs
    BY RangeOfSeq DEF Held, TypeOK
  <2>5. QED
    BY <2>1, <2>2, <2>3, <2>4 DEF OwnedOnce
<1>6. CASE UNCHANGED vars
  BY <1>1, <1>6 DEF vars
<1>7. CASE Lose \/ AssemInit
  BY <1>1, <1>7 DEF Lose, AssemInit
<1>8. ASSUME NEW w \in Lcores, LcoreStep(w) PROVE OwnedOnce'
  <2>1. CASE RxBurst(w) \/ RxTwice(w) \/ GetBulkPanic(w) \/ CopyIn(w)
    BY <1>1, <2>1 DEF RxBurst, RxTwice, GetBulkPanic, CopyIn
  <2>2. QED
    BY <1>2, <1>3, <1>8, <2>1 DEF LcoreStep
<1>9. CASE DobStep
  <2>1. CASE DrainDequeue \/ SyncDequeue \/ MainDequeue
    BY <1>4, <2>1 DEF DrainDequeue, SyncDequeue, MainDequeue
  <2>2. CASE DrainPut \/ SyncPut \/ MainPut
    BY <1>5, <2>2 DEF DrainPut, SyncPut, MainPut, TypeOK
  <2>3. CASE Drained \/ CopyOut \/ Account
    BY <1>1, <2>3 DEF Drained, CopyOut, Account
  <2>4. QED
    BY <1>9, <2>1, <2>2, <2>3 DEF DobStep
<1>10. QED
  BY <1>6, <1>7, <1>8, <1>9 DEF Next

\* No buffer is ever in two places, whatever the number of lcores that share
\* the pool and the ring.
THEOREM BuffersOwnedOnce == Spec => []OwnedOnce
<1>1. Init => TypeInv /\ OwnedOnce
  BY InitTypeInv, InitOwnedOnce
<1>2. (TypeInv /\ OwnedOnce) /\ [Next]_vars => (TypeInv /\ OwnedOnce)'
  BY NextTypeInv, NextOwnedOnce
<1>3. QED
  BY <1>1, <1>2, PTL DEF Spec
-----------------------------------------------------------------------------
(* The leak of a failed bulk enqueue. *)

LEMMA InitLeak == Init => LeakAtMostOneBurst
<1> SUFFICES ASSUME Init PROVE LeakAtMostOneBurst
  OBVIOUS
<1>1. Leaked = {}
  BY DEF Init, Leaked
<1>2. QED
  BY <1>1, FS_EmptySet, SizesAssumption DEF LeakAtMostOneBurst

\* A burst that finds no room: ring and burst together are the whole pool, so
\* nothing had leaked before and what leaks now is in that burst.
LEMMA NoRoomLeaksTheBurst ==
  ASSUME TypeInv, OwnedOnce, NEW w \in Lcores, EnqueueBulk(w), ~RoomFor(Len(msg[w]))
  PROVE  /\ LeakAtMostOneBurst'
         /\ Leaked = {}
         /\ Range(msg[w]) \subseteq Leaked'
<1> USE DEF TypeInv
<1>1. /\ ring \in Seq(Bufs) /\ msg[w] \in Seq(Bufs)
      /\ IsInjective(ring) /\ IsInjective(msg[w])
      /\ Range(ring) \cap Range(msg[w]) = {}
  BY DEF TypeOK, OwnedOnce
<1>2. /\ IsFiniteSet(Range(ring)) /\ Cardinality(Range(ring)) = Len(ring)
      /\ IsFiniteSet(Range(msg[w])) /\ Cardinality(Range(msg[w])) = Len(msg[w])
      /\ Len(ring) \in Nat /\ Len(msg[w]) \in Nat
  BY <1>1, CountDistinct
<1>3. Cardinality(Range(ring) \cup Range(msg[w])) = Len(ring) + Len(msg[w])
  <2>1. Cardinality(Range(ring) \cap Range(msg[w])) = 0
    BY <1>1, FS_EmptySet
  <2>2. Cardinality(Range(ring) \cup Range(msg[w]))
          = Cardinality(Range(ring)) + Cardinality(Range(msg[w]))
              - Cardinality(Range(ring) \cap Range(msg[w]))
    BY <1>2, FS_Union
  <2>3. QED
    BY <1>2, <2>1, <2>2
<1>4. Len(ring) + Len(msg[w]) >= RingCap + 1
  BY <1>2, SizesAssumption DEF RoomFor
<1>5. Range(ring) \subseteq Bufs /\ Range(msg[w]) \subseteq Bufs
  BY <1>1, RangeOfSeq
<1>6. Range(ring) \cup Range(msg[w]) = Bufs
  <2>1. /\ Range(ring) \cup Range(msg[w]) \in SUBSET Bufs
        /\ IsFiniteSet(Bufs) /\ Cardinality(Bufs) = RingCap + 1
    BY <1>5, PoolAssumption
  <2>2. Cardinality(Range(ring) \cup Range(msg[w])) <= Cardinality(Bufs)
    BY <2>1, FS_Subset
  <2>3. Cardinality(Range(ring) \cup Range(msg[w])) = Cardinality(Bufs)
    BY <1>2, <1>3, <1>4, <2>1, <2>2, SizesAssumption
  <2>4. QED
    BY <2>1, <2>3, FS_Subset
<1>7. ring' = ring
  BY DEF EnqueueBulk
<1>8. Leaked' \in SUBSET Range(msg[w])
  BY <1>6, <1>7 DEF Leaked
<1>9. Len(msg[w]) <= BurstSize
  BY SizesAssumption DEF TypeOK, EnqueueBulk
<1>10. Cardinality(Leaked') <= Cardinality(Range(msg[w])) /\ IsFiniteSet(Leaked')
  BY <1>2, <1>8, FS_Subset
<1>11. Cardinality(Leaked') \in Nat
  BY <1>10, FS_CardinalityType
<1>12. LeakAtMostOneBurst'
  BY <1>2, <1>9, <1>10, <1>11, SizesAssumption DEF LeakAtMostOneBurst
<1>13. Leaked = {}
  <2>1. Range(msg[w]) \subseteq Held
    BY DEF Held
  <2>2. QED
    BY <1>6, <2>1 DEF Leaked
<1>14. Range(msg[w]) \subseteq Leaked'
  <2>1. /\ UNCHANGED <<free, cur>> /\ msg' = [msg EXCEPT ![w] = <<>>]
        /\ msg \in [Lcores -> Seq(Bufs)]
    BY DEF EnqueueBulk, TypeOK, dobVars
  <2>2. Range(<<>>) = {}
    BY DEF Range
  <2>3. Held' = HeldByOthers(w) /\ Held = HeldByOthers(w) \cup Range(msg[w])
    BY <2>1, <2>2, HeldUpdate
  <2>4. Range(msg[w]) \cap HeldByOthers(w) = {}
    BY DEF HeldByOthers, OwnedOnce
  <2>5. Range(msg[w]) \cap (free \cup Range(ring) \cup {cur}) = {}
    BY <2>3 DEF OwnedOnce
  <2>6. QED
    BY <1>5, <1>7, <2>1, <2>3, <2>4, <2>5 DEF Leaked
<1>15. QED
  BY <1>12, <1>13, <1>14

\* No other step leaks anything.
LEMMA LeakedStays ==
  ASSUME TypeInv, OwnedOnce, [Next]_vars,
         \A w \in Lcores : EnqueueBulk(w) => RoomFor(Len(msg[w]))
  PROVE  Leaked' = Leaked
<1> USE DEF TypeInv, lcoreVars, dobVars
<1>2. ASSUME UNCHANGED <<free, ring, msg, cur>> PROVE Leaked' = Leaked
  BY <1>2 DEF Leaked, Held
<1>3. ASSUME NEW w \in Lcores, GetBulk(w) PROVE Leaked' = Leaked
  <2>1. PICK b \in Injection(1..Len(burst[w]), free) :
          msg' = [msg EXCEPT ![w] = b] /\ free' = free \ Range(b)
    BY <1>3 DEF GetBulk
  <2>2. Range(b) \subseteq free
    BY DEF Injection, Range
  <2>3. UNCHANGED <<ring, cur>> /\ msg \in [Lcores -> Seq(Bufs)]
    BY <1>3 DEF GetBulk, TypeOK
  <2>4. Range(msg[w]) = {}
    <3>1. msg[w] \in Seq(Bufs) /\ Len(msg[w]) = 0
      BY <1>3 DEF GetBulk, TypeOK
    <3>2. msg[w] = <<>>
      BY <3>1
    <3>3. QED
      BY <3>2 DEF Range
  <2>5. Held' = Held \cup Range(b)
    BY <2>1, <2>3, <2>4, HeldUpdate
  <2>6. Leaked' = Leaked
    BY <2>1, <2>2, <2>3, <2>5 DEF Leaked
  <2>7. QED
    BY <2>6
<1>4. ASSUME NEW w \in Lcores, EnqueueBulk(w) PROVE Leaked' = Leaked
  <2>1. RoomFor(Len(msg[w]))
    BY <1>4
  <2>2. Leaked' = Leaked
    <3>1. ring \in Seq(Bufs) /\ msg[w] \in Seq(Bufs) /\ msg \in [Lcores -> Seq(Bufs)]
      BY DEF TypeOK
    <3>2. /\ ring' = ring \o msg[w] /\ msg' = [msg EXCEPT ![w] = <<>>]
          /\ UNCHANGED <<free, cur>>
      BY <1>4, <2>1 DEF EnqueueBulk
    <3>3. Range(ring') = Range(ring) \cup Range(msg[w])
      BY <3>1, <3>2, RangeConcatenation
    <3>4. Range(<<>>) = {}
      BY DEF Range
    <3>5. Held' = HeldByOthers(w) /\ Held = HeldByOthers(w) \cup Range(msg[w])
      BY <3>1, <3>2, <3>4, HeldUpdate
    <3>6. Leaked' = Leaked
      BY <3>2, <3>3, <3>5 DEF Leaked
    <3>7. QED
      BY <3>6
  <2>3. QED
    BY <2>2
<1>5. ASSUME NEW from, NEW to, Dequeue(from, to), cur = None PROVE Leaked' = Leaked
  <2>1. ring \in Seq(Bufs) /\ ring # <<>> /\ IsInjective(ring)
    BY <1>5 DEF TypeOK, OwnedOnce, Dequeue, CanDequeue
  <2>2. /\ cur' = Head(ring) /\ ring' = Tail(ring) /\ UNCHANGED <<free, msg>>
    BY <1>5 DEF Dequeue
  <2>3. cur' \in Range(ring) /\ Range(ring') = Range(ring) \ {cur'}
    BY <2>1, <2>2, TailDistinct
  <2>4. Held' = Held
    BY <2>2 DEF Held
  <2>5. Leaked' = Leaked
    BY <1>5, <2>2, <2>3, <2>4, PoolAssumption DEF Leaked
  <2>6. QED
    BY <2>5
<1>6. ASSUME NEW to, Put(to) PROVE Leaked' = Leaked
  <2>1. free' = free \cup {cur} /\ cur' = None /\ UNCHANGED <<ring, msg>>
    BY <1>6 DEF Put
  <2>2. Held' = Held
    BY <2>1 DEF Held
  <2>3. Leaked' = Leaked
    BY <2>1, <2>2, PoolAssumption DEF Leaked
  <2>4. QED
    BY <2>3
<1>7. CASE UNCHANGED vars
  BY <1>2, <1>7 DEF vars
<1>8. CASE Lose \/ AssemInit
  BY <1>2, <1>8 DEF Lose, AssemInit
<1>9. ASSUME NEW w \in Lcores, LcoreStep(w) PROVE Leaked' = Leaked
  <2>1. CASE RxBurst(w) \/ RxTwice(w) \/ GetBulkPanic(w) \/ CopyIn(w)
    BY <1>2, <2>1 DEF RxBurst, RxTwice, GetBulkPanic, CopyIn
  <2>2. QED
    BY <1>3, <1>4, <1>9, <2>1 DEF LcoreStep
<1>10. CASE DobStep
  <2>1. CASE DrainDequeue \/ SyncDequeue \/ MainDequeue
    <3>1. cur = None
      BY <2>1 DEF DrainDequeue, SyncDequeue, MainDequeue, Dequeue, TypeOK
    <3>2. QED
      BY <1>5, <2>1, <3>1 DEF DrainDequeue, SyncDequeue, MainDequeue
  <2>2. CASE DrainPut \/ SyncPut \/ MainPut
    BY <1>6, <2>2 DEF DrainPut, SyncPut, MainPut
  <2>3. CASE Drained \/ CopyOut \/ Account
    BY <1>2, <2>3 DEF Drained, CopyOut, Account
  <2>4. QED
    BY <1>10, <2>1, <2>2, <2>3 DEF DobStep
<1>11. QED
  BY <1>7, <1>8, <1>9, <1>10 DEF Next

LEMMA NextLeak == TypeInv /\ OwnedOnce /\ LeakAtMostOneBurst /\ [Next]_vars
                    => LeakAtMostOneBurst'
<1> SUFFICES ASSUME TypeInv, OwnedOnce, LeakAtMostOneBurst, [Next]_vars
             PROVE  LeakAtMostOneBurst'
  OBVIOUS
<1>1. CASE \A w \in Lcores : EnqueueBulk(w) => RoomFor(Len(msg[w]))
  BY <1>1, LeakedStays DEF LeakAtMostOneBurst
<1>2. CASE ~ \A w \in Lcores : EnqueueBulk(w) => RoomFor(Len(msg[w]))
  BY <1>2, NoRoomLeaksTheBurst
<1>3. QED
  BY <1>1, <1>2

\* The unnoticed failure of the bulk enqueue (basicfwd.cpp:251) costs at most
\* BURST_SIZE buffers in the life of the process.
THEOREM LeakBounded == Spec => []LeakAtMostOneBurst
<1> DEFINE IInv == TypeInv /\ OwnedOnce /\ LeakAtMostOneBurst
<1>1. Init => IInv
  BY InitTypeInv, InitOwnedOnce, InitLeak
<1>2. IInv /\ [Next]_vars => IInv'
  BY NextTypeInv, NextOwnedOnce, NextLeak
<1>3. IInv => LeakAtMostOneBurst
  OBVIOUS
<1> HIDE DEF IInv
<1>4. QED
  BY <1>1, <1>2, <1>3, PTL DEF Spec
-----------------------------------------------------------------------------
(* The panic of an empty pool. *)

\* What lcores hold fits into their arrays.
LEMMA HeldBounded ==
  ASSUME TypeOK, NEW w \in Lcores, Len(msg[w]) = 0
  PROVE  /\ IsFiniteSet(Held)
         /\ Cardinality(Held) <= (Cardinality(Lcores) - 1) * BurstSize
<1> DEFINE others == Lcores \ {w}
           places == others \X (1..BurstSize)
           at(b) == CHOOSE v \in places : v[2] \in 1..Len(msg[v[1]]) /\ msg[v[1]][v[2]] = b
           place == [b \in Held |-> at(b)]
<1>1. /\ IsFiniteSet(places)
      /\ Cardinality(places) = (Cardinality(Lcores) - 1) * BurstSize
  <2>1. IsFiniteSet(others) /\ Cardinality(others) = Cardinality(Lcores) - 1
    BY PoolAssumption, FS_RemoveElement
  <2>2. IsFiniteSet(1..BurstSize) /\ Cardinality(1..BurstSize) = BurstSize
    BY SizesAssumption, FS_Interval
  <2>3. /\ IsFiniteSet(places)
        /\ Cardinality(places) = Cardinality(others) * Cardinality(1..BurstSize)
    BY <2>1, <2>2, FS_Product, Zenon
  <2>4. QED
    BY <2>1, <2>2, <2>3
<1>2. \A b \in Held : \E v \in places : v[2] \in 1..Len(msg[v[1]]) /\ msg[v[1]][v[2]] = b
  <2>1. SUFFICES ASSUME NEW b \in Held
                 PROVE  \E v \in places : v[2] \in 1..Len(msg[v[1]]) /\ msg[v[1]][v[2]] = b
    OBVIOUS
  <2>2. PICK v \in Lcores : b \in Range(msg[v])
    BY DEF Held
  <2>3. msg[v] \in Seq(Bufs) /\ Len(msg[v]) <= BurstSize
    BY SizesAssumption DEF TypeOK
  <2>4. PICK i \in 1..Len(msg[v]) : msg[v][i] = b
    BY <2>2, <2>3 DEF Range
  <2>5. v # w /\ i \in 1..BurstSize
    BY <2>3, <2>4, SizesAssumption
  <2>6. <<v, i>> \in places /\ <<v, i>>[1] = v /\ <<v, i>>[2] = i
    BY <2>5
  <2>7. QED
    BY <2>4, <2>6
<1>3. \A b \in Held : /\ at(b) \in places
                      /\ msg[at(b)[1]][at(b)[2]] = b
  BY <1>2
<1> HIDE DEF places, at
<1>4. place \in Injection(Held, places)
  BY <1>3 DEF Injection, IsInjective
<1>5. QED
  BY <1>1, <1>4, FS_Injection

\* A get that fails finds the whole pool in the ring, in the hands of the
\* threads or leaked.
LEMMA PanicCounts ==
  ASSUME TypeOK, LeakAtMostOneBurst, NEW w \in Lcores, GetBulkPanic(w)
  PROVE  Len(ring) + (Cardinality(Lcores) + 1) * BurstSize + CacheSlack
           >= Cardinality(Bufs)
<1> DEFINE B == BurstSize
           L == Cardinality(Lcores)
<1>0. /\ B \in Nat /\ L \in Nat /\ CacheSlack \in Nat
      /\ IsFiniteSet(Bufs) /\ Cardinality(Bufs) \in Nat
  BY SizesAssumption, PoolAssumption, FS_CardinalityType
<1>1. /\ IsFiniteSet(free) /\ Cardinality(free) \in Nat
      /\ Cardinality(free) <= B + CacheSlack - 1
  <2>1. IsFiniteSet(free) /\ Cardinality(free) \in Nat
    BY <1>0, FS_Subset, FS_CardinalityType DEF TypeOK
  <2>2. Cardinality(free) < Len(burst[w]) + CacheSlack /\ Len(burst[w]) <= B
        /\ burst[w] \in Seq(Nat)
    BY DEF GetBulkPanic, TypeOK
  <2>3. Len(burst[w]) \in Nat
    BY <2>2
  <2>4. QED
    BY <1>0, <2>1, <2>2, <2>3
<1>2. /\ IsFiniteSet(Range(ring)) /\ Cardinality(Range(ring)) \in Nat
      /\ Cardinality(Range(ring)) <= Len(ring) /\ Len(ring) \in Nat
  BY CountDistinct, FS_CardinalityType DEF TypeOK
<1>3. /\ IsFiniteSet(Held) /\ Cardinality(Held) \in Nat
      /\ Cardinality(Held) <= (L - 1) * B
  <2>1. Len(msg[w]) = 0
    BY DEF GetBulkPanic, TypeOK
  <2>2. QED
    BY <2>1, HeldBounded, FS_CardinalityType
<1>4. IsFiniteSet({cur}) /\ Cardinality({cur}) = 1
  BY FS_Singleton
<1>5. /\ IsFiniteSet(Leaked) /\ Cardinality(Leaked) \in Nat
      /\ Cardinality(Leaked) <= B
  <2>1. Leaked \in SUBSET Bufs
    BY DEF Leaked
  <2>2. QED
    BY <1>0, <2>1, FS_Subset, FS_CardinalityType DEF LeakAtMostOneBurst
<1>6. \A S, T : IsFiniteSet(S) /\ IsFiniteSet(T) =>
        /\ IsFiniteSet(S \cup T) /\ Cardinality(S \cup T) \in Nat
        /\ Cardinality(S \cup T) <= Cardinality(S) + Cardinality(T)
  <2>1. SUFFICES ASSUME NEW S, NEW T, IsFiniteSet(S), IsFiniteSet(T)
                 PROVE  /\ IsFiniteSet(S \cup T) /\ Cardinality(S \cup T) \in Nat
                        /\ Cardinality(S \cup T) <= Cardinality(S) + Cardinality(T)
    OBVIOUS
  <2>2. /\ Cardinality(S) \in Nat /\ Cardinality(T) \in Nat
        /\ IsFiniteSet(S \cap T) /\ Cardinality(S \cap T) \in Nat
    <3>1. IsFiniteSet(S \cap T)
      BY <2>1, FS_Subset
    <3>2. QED
      BY <2>1, <3>1, FS_CardinalityType
  <2>3. /\ IsFiniteSet(S \cup T)
        /\ Cardinality(S \cup T)
             = Cardinality(S) + Cardinality(T) - Cardinality(S \cap T)
    BY <2>1, FS_Union
  <2>4. Cardinality(S \cup T) \in Nat
    BY <2>3, FS_CardinalityType
  <2>5. QED
    BY <2>2, <2>3, <2>4
<1> DEFINE A1 == free \cup Range(ring)
           A2 == A1 \cup Held
           A3 == A2 \cup {cur}
           A4 == A3 \cup Leaked
<1>7. /\ IsFiniteSet(A1) /\ Cardinality(A1) \in Nat
      /\ Cardinality(A1) <= Cardinality(free) + Cardinality(Range(ring))
  BY <1>1, <1>2, <1>6
<1>8. /\ IsFiniteSet(A2) /\ Cardinality(A2) \in Nat
      /\ Cardinality(A2) <= Cardinality(A1) + Cardinality(Held)
  <2> HIDE DEF A1
  <2>1. QED
    BY <1>3, <1>6, <1>7
<1>9. /\ IsFiniteSet(A3) /\ Cardinality(A3) \in Nat
      /\ Cardinality(A3) <= Cardinality(A2) + 1
  <2> HIDE DEF A2
  <2>1. QED
    BY <1>4, <1>6, <1>8
<1>10. /\ IsFiniteSet(A4) /\ Cardinality(A4) \in Nat
       /\ Cardinality(A4) <= Cardinality(A3) + Cardinality(Leaked)
  <2> HIDE DEF A3
  <2>1. QED
    BY <1>5, <1>6, <1>9
<1>11. Cardinality(Bufs) <= Cardinality(A4)
  <2>1. Bufs \in SUBSET A4
    BY DEF Leaked
  <2>2. QED
    BY <1>10, <2>1, FS_Subset
<1> HIDE DEF A1, A2, A3, A4, B, L
<1>12. Cardinality(Bufs) <= Len(ring) + ((L - 1) * B + 2 * B) + CacheSlack
  <2>1. (L - 1) * B \in Int
    BY <1>0
  <2>2. Cardinality(A1) <= Cardinality(free) + Len(ring)
    BY <1>1, <1>2, <1>7
  <2>3. /\ Cardinality(A2) <= Cardinality(A1) + (L - 1) * B
        /\ Cardinality(A4) <= Cardinality(A2) + 1 + B
    BY <1>0, <1>3, <1>5, <1>7, <1>8, <1>9, <1>10, <2>1
  <2>4. QED
    BY <1>0, <1>1, <1>2, <1>7, <1>8, <1>10, <1>11, <2>1, <2>2, <2>3
<1>13. (L - 1) * B + 2 * B = (L + 1) * B
  BY <1>0
<1>14. QED
  BY <1>12, <1>13 DEF B, L

LEMMA NextPanic == TypeInv /\ LeakAtMostOneBurst /\ PanicOnlyWhenBacklogged /\ [Next]_vars
                     => PanicOnlyWhenBacklogged'
<1> SUFFICES ASSUME TypeInv, LeakAtMostOneBurst, PanicOnlyWhenBacklogged, [Next]_vars
             PROVE  PanicOnlyWhenBacklogged'
  OBVIOUS
<1>1. CASE UNCHANGED vars
  BY <1>1 DEF vars, PanicOnlyWhenBacklogged
<1>2. ASSUME NEW w \in Lcores, GetBulkPanic(w) PROVE PanicOnlyWhenBacklogged'
  <2>1. ring' = ring
    BY <1>2 DEF GetBulkPanic
  <2>2. QED
    BY <1>2, <2>1, PanicCounts DEF TypeInv, PanicOnlyWhenBacklogged
<1>3. CASE ~panicked /\ panicked' = panicked
  BY <1>3 DEF PanicOnlyWhenBacklogged
<1>4. CASE Next
  <2>1. CASE Lose \/ AssemInit
    BY <1>3, <1>4, <2>1 DEF Next, Lose, AssemInit
  <2>2. ASSUME NEW w \in Lcores, LcoreStep(w) PROVE PanicOnlyWhenBacklogged'
    BY <1>2, <1>3, <1>4, <2>2 DEF Next, LcoreStep, RxBurst, RxTwice, GetBulk, CopyIn,
      EnqueueBulk
  <2>3. CASE DobStep
    BY <1>3, <1>4, <2>3 DEF Next, DobStep, DrainDequeue, DrainPut, Drained, SyncDequeue,
      SyncPut, MainDequeue, CopyOut, MainPut, Account, Dequeue, Put
  <2>4. QED
    BY <1>4, <2>1, <2>2, <2>3 DEF Next
<1>5. QED
  BY <1>1, <1>4

\* The process dies of an empty pool only when DOB is a whole pool behind,
\* less what the threads hold and the burst that may have leaked; the bound
\* is met exactly, for any number of lcores and any burst size.
THEOREM PanicMeansBacklog == Spec => []PanicOnlyWhenBacklogged
<1> DEFINE IInv == /\ TypeInv /\ OwnedOnce /\ LeakAtMostOneBurst
                   /\ PanicOnlyWhenBacklogged
<1>1. Init => IInv
  BY InitTypeInv, InitOwnedOnce, InitLeak DEF Init, PanicOnlyWhenBacklogged
<1>2. IInv /\ [Next]_vars => IInv'
  BY NextTypeInv, NextOwnedOnce, NextLeak, NextPanic
<1>3. IInv => PanicOnlyWhenBacklogged
  OBVIOUS
<1> HIDE DEF IInv
<1>4. QED
  BY <1>1, <1>2, <1>3, PTL DEF Spec
-----------------------------------------------------------------------------
(* The accounting. *)

LEMMA NextAligned == TypeInv /\ CleanMeansAligned /\ [Next]_vars => CleanMeansAligned'
<1> SUFFICES ASSUME TypeInv, CleanMeansAligned, [Next]_vars PROVE CleanMeansAligned'
  OBVIOUS
<1>1. ASSUME UNCHANGED <<packetSeq, global_count, mis>> PROVE CleanMeansAligned'
  BY <1>1 DEF CleanMeansAligned
<1>2. CASE UNCHANGED vars
  BY <1>1, <1>2 DEF vars, dobVars
<1>3. CASE Lose \/ AssemInit
  BY <1>1, <1>3 DEF Lose, AssemInit, dobVars
<1>4. ASSUME NEW w \in Lcores, LcoreStep(w) PROVE CleanMeansAligned'
  BY <1>1, <1>4 DEF LcoreStep, RxBurst, RxTwice, GetBulk, GetBulkPanic, CopyIn,
    EnqueueBulk, dobVars
<1>5. CASE DobStep
  <2>1. CASE Account
    <3>1. SUFFICES ASSUME mis' = 0 PROVE packetSeq' = global_count' % PackNum
      BY DEF CleanMeansAligned
    <3>2. mis \in Nat /\ global_count \in Nat
      BY DEF TypeInv, TypeOK
    <3>3. mis = 0 /\ packetSeq = PacketSeq(tmp)
      BY <2>1, <3>1, <3>2 DEF Account, Mismatch
    <3>4. packetSeq' = ((global_count % PackNum) + 1) % PackNum
      BY <2>1, <3>3 DEF Account, ExpectedAfter, CleanMeansAligned
    <3>5. ((global_count % PackNum) + 1) % PackNum = (global_count + 1) % PackNum
      <4>1. PackNum \in Nat \ {0} /\ global_count \in Int
        BY <3>2, SizesAssumption
      <4>2. QED
        BY <4>1, ModSteps, Zenon
    <3>6. QED
      BY <2>1, <3>4, <3>5 DEF Account
  <2>2. QED
    BY <1>1, <1>5, <2>1 DEF DobStep, DrainDequeue, DrainPut, Drained, SyncDequeue,
      SyncPut, MainDequeue, CopyOut, MainPut, Dequeue, Put
<1>6. QED
  BY <1>2, <1>3, <1>4, <1>5 DEF Next

\* No mismatch counted means that the packets accounted for are whole frames,
\* for any number of packets per frame (basicfwd.cpp:539-552).
THEOREM CleanIsAligned == Spec => []CleanMeansAligned
<1>1. 0 % PackNum = 0
  BY SizesAssumption
<1>2. Init => CleanMeansAligned
  BY <1>1 DEF Init, CleanMeansAligned
<1>3. Init => TypeInv /\ CleanMeansAligned
  BY <1>2, InitTypeInv
<1>4. (TypeInv /\ CleanMeansAligned) /\ [Next]_vars => (TypeInv /\ CleanMeansAligned)'
  BY NextTypeInv, NextAligned
<1>5. QED
  BY <1>3, <1>4, PTL DEF Spec

-----------------------------------------------------------------------------
(* The promised channel. *)

\* From the poll to the enqueue an lcore has a burst, and once it has copied
\* the burst its buffers hold the packets.
Copied ==
  \A w \in Lcores :
    /\ pc[w] = "rx" <=> burst[w] = <<>>
    /\ pc[w] = "enqueue" => \A i \in 1..Len(msg[w]) : mem[msg[w][i]] = burst[w][i]

LEMMA CopiedRight ==
  ASSUME TypeOK, NEW w \in Lcores, CopyIn(w), IsInjective(msg[w])
  PROVE  \A i \in 1..Len(msg[w]) : mem'[msg[w][i]] = burst[w][i]
<1>1. msg[w] \in Seq(Bufs)
  BY DEF TypeOK
<1>2. \A i, j \in 1..Len(msg[w]) : msg[w][i] = msg[w][j] => i = j
  BY <1>1 DEF IsInjective
<1> TAKE i \in 1..Len(msg[w])
<1>3. (CHOOSE j \in 1..Len(msg[w]) : msg[w][j] = msg[w][i]) = i
  BY <1>2
<1>4. msg[w][i] \in Bufs /\ msg[w][i] \in Range(msg[w])
  BY <1>1 DEF Range
<1>5. QED
  BY <1>3, <1>4 DEF CopyIn

LEMMA NextCopied == TypeInv /\ OwnedOnce /\ Copied /\ [Next]_vars => Copied'
<1> SUFFICES ASSUME TypeInv, OwnedOnce, Copied, [Next]_vars PROVE Copied'
  OBVIOUS
<1> USE DEF TypeInv, lcoreVars, dobVars
<1>1. ASSUME UNCHANGED <<mem, pc, burst, msg>> PROVE Copied'
  BY <1>1 DEF Copied
<1>2. ASSUME NEW w \in Lcores, RxBurst(w) PROVE Copied'
  <2>1. PICK n \in 1..BurstSize :
          burst' = [burst EXCEPT ![w] = [i \in 1..n |-> next + i - 1]]
    BY <1>2 DEF RxBurst
  <2>2. n \in Nat /\ n # 0 /\ [i \in 1..n |-> next + i - 1] # <<>>
    BY SizesAssumption
  <2>3. /\ pc' = [pc EXCEPT ![w] = "get"] /\ UNCHANGED <<mem, msg>>
        /\ pc \in [Lcores -> {"rx", "get", "copy", "enqueue"}]
        /\ burst \in [Lcores -> Seq(Nat)]
    BY <1>2 DEF RxBurst, TypeOK
  <2>4. QED
    BY <2>1, <2>2, <2>3 DEF Copied
<1>3. ASSUME NEW w \in Lcores, RxTwice(w) PROVE Copied'
  <2>1. PICK v \in Lcores \ {w}, n \in 1..BurstSize :
          /\ burst' = [u \in Lcores |-> IF u \in {v, w} THEN [i \in 1..n |-> next + i - 1]
                                                        ELSE burst[u]]
          /\ pc' = [u \in Lcores |-> IF u \in {v, w} THEN "get" ELSE pc[u]]
    BY <1>3 DEF RxTwice
  <2>2. n \in Nat /\ n # 0 /\ [i \in 1..n |-> next + i - 1] # <<>>
    BY SizesAssumption
  <2>3. UNCHANGED <<mem, msg>>
    BY <1>3 DEF RxTwice
  <2>4. QED
    BY <2>1, <2>2, <2>3 DEF Copied
<1>4. ASSUME NEW w \in Lcores, GetBulk(w) PROVE Copied'
  <2>1. PICK b : msg' = [msg EXCEPT ![w] = b]
    BY <1>4 DEF GetBulk
  <2>2. /\ pc[w] = "get" /\ pc' = [pc EXCEPT ![w] = "copy"] /\ UNCHANGED <<mem, burst>>
        /\ pc \in [Lcores -> {"rx", "get", "copy", "enqueue"}]
        /\ msg \in [Lcores -> Seq(Bufs)]
    BY <1>4 DEF GetBulk, TypeOK
  <2>3. QED
    BY <2>1, <2>2 DEF Copied
<1>5. ASSUME NEW w \in Lcores, CopyIn(w) PROVE Copied'
  <2>1. /\ pc[w] = "copy" /\ pc' = [pc EXCEPT ![w] = "enqueue"] /\ UNCHANGED <<burst, msg>>
        /\ pc \in [Lcores -> {"rx", "get", "copy", "enqueue"}]
        /\ msg \in [Lcores -> Seq(Bufs)]
    BY <1>5 DEF CopyIn, TypeOK
  <2>2. \A i \in 1..Len(msg[w]) : mem'[msg[w][i]] = burst[w][i]
    BY <1>5, CopiedRight DEF OwnedOnce
  <2>3. ASSUME NEW v \in Lcores, v # w, NEW i \in 1..Len(msg[v])
        PROVE  mem'[msg[v][i]] = mem[msg[v][i]]
    <3>1. msg[v][i] \in Range(msg[v]) /\ msg[v][i] \in Bufs
      BY <2>1 DEF Range
    <3>2. msg[v][i] \notin Range(msg[w])
      BY <2>3, <3>1 DEF OwnedOnce
    <3>3. QED
      BY <1>5, <3>1, <3>2 DEF CopyIn
  <2>4. QED
    BY <2>1, <2>2, <2>3 DEF Copied
<1>6. ASSUME NEW w \in Lcores, EnqueueBulk(w) PROVE Copied'
  <2>1. /\ pc' = [pc EXCEPT ![w] = "rx"] /\ UNCHANGED mem
        /\ burst' = [burst EXCEPT ![w] = <<>>] /\ msg' = [msg EXCEPT ![w] = <<>>]
        /\ pc \in [Lcores -> {"rx", "get", "copy", "enqueue"}]
        /\ burst \in [Lcores -> Seq(Nat)] /\ msg \in [Lcores -> Seq(Bufs)]
    BY <1>6 DEF EnqueueBulk, TypeOK
  <2>2. QED
    BY <2>1 DEF Copied
<1>7. CASE UNCHANGED vars
  BY <1>1, <1>7 DEF vars
<1>8. CASE Lose \/ AssemInit
  BY <1>1, <1>8 DEF Lose, AssemInit
<1>9. ASSUME NEW w \in Lcores, LcoreStep(w) PROVE Copied'
  <2>1. CASE GetBulkPanic(w)
    BY <1>1, <2>1 DEF GetBulkPanic
  <2>2. QED
    BY <1>2, <1>3, <1>4, <1>5, <1>6, <1>9, <2>1 DEF LcoreStep
<1>10. CASE DobStep
  BY <1>1, <1>10 DEF DobStep, DrainDequeue, DrainPut, Drained, SyncDequeue,
    SyncPut, MainDequeue, CopyOut, MainPut, Account, Dequeue, Put
<1>11. QED
  BY <1>7, <1>8, <1>9, <1>10 DEF Next

\* With one lcore: what is in DOB's hands, in the ring and in the burst.
InHand == IF cur = None THEN <<>> ELSE <<mem[cur]>>
Burst == burst[TheLcore]
Channel == (InHand \o Contents(ring)) \o Burst

FifoInv == TypeInv /\ OwnedOnce /\ Copied

LEMMA RegroupNats ==
  ASSUME NEW s \in Seq(Nat), NEW t \in Seq(Nat), NEW u \in Seq(Nat)
  PROVE  (s \o t) \o u = s \o (t \o u)
  BY ConcatAssociative

LEMMA ChannelTypes ==
  ASSUME TypeInv, TheLcore \in Lcores
  PROVE  /\ InHand \in Seq(Nat) /\ Contents(ring) \in Seq(Nat) /\ Burst \in Seq(Nat)
         /\ Len(Contents(ring)) = Len(ring) /\ Channel \in Seq(Nat)
<1>1. InHand \in Seq(Nat)
  BY DEF TypeInv, NothingUnwritten, InHand
<1>2. Contents(ring) \in Seq(Nat) /\ Len(Contents(ring)) = Len(ring)
  <2>1. \A i \in 1..Len(ring) : mem[ring[i]] \in Nat
    BY DEF TypeInv, TypeOK, NothingUnwritten, Range
  <2>2. Len(ring) \in Nat
    BY DEF TypeInv, TypeOK
  <2>3. QED
    BY <2>1, <2>2 DEF Contents
<1>3. Burst \in Seq(Nat)
  BY DEF TypeInv, TypeOK, Burst
<1>4. QED
  BY <1>1, <1>2, <1>3, ConcatProperties DEF Channel


\* What the channel holds after a step of each kind.
LEMMA ChannelKept ==
  ASSUME TypeInv, UNCHANGED <<cur, ring, burst>>,
         cur # None => mem'[cur] = mem[cur],
         \A b \in Range(ring) : mem'[b] = mem[b]
  PROVE  Channel' = Channel
<1>0. ring \in Seq(Bufs)
  BY DEF TypeInv, TypeOK
<1>1. \A i \in 1..Len(ring) : mem'[ring[i]] = mem[ring[i]]
  <2>1. TAKE i \in 1..Len(ring)
  <2>2. ring[i] \in Range(ring)
    BY <1>0 DEF Range
  <2>3. QED
    BY <2>2
<1>2. Contents(ring)' = Contents(ring)
  BY <1>1 DEF Contents
<1>3. InHand' = InHand
  BY DEF InHand
<1>4. Burst' = Burst
  BY DEF Burst
<1>5. QED
  BY <1>2, <1>3, <1>4 DEF Channel

LEMMA ChannelTakes ==
  ASSUME TypeInv, TheLcore \in Lcores, NEW from, NEW to, Dequeue(from, to), cur = None
  PROVE  Channel' = Channel
<1>1. /\ ring \in Seq(Bufs) /\ ring # <<>> /\ cur' = Head(ring) /\ ring' = Tail(ring)
      /\ UNCHANGED <<mem, burst>>
  BY DEF TypeInv, TypeOK, Dequeue, CanDequeue, lcoreVars
<1>2. PICK t \in Seq(Nat) : t = Contents(ring) /\ Len(t) = Len(ring)
  BY ChannelTypes
<1>3. Len(ring) \in Nat \ {0} /\ t # <<>> /\ Len(Tail(ring)) = Len(ring) - 1
      /\ \A i \in 1..Len(Tail(ring)) : Tail(ring)[i] = ring[i + 1]
  BY <1>1, <1>2
<1>4. \A i \in 1..Len(ring) : t[i] = mem[ring[i]]
  BY <1>2 DEF Contents
<1>5. Head(t) = mem[cur']
  BY <1>1, <1>2, <1>3, <1>4
<1>6. Contents(ring)' = Tail(t)
  <2>1. Contents(ring)' = [i \in 1..Len(Tail(ring)) |-> mem[Tail(ring)[i]]]
    BY <1>1 DEF Contents
  <2>2. /\ Tail(t) \in Seq(Nat) /\ Len(Tail(t)) = Len(Tail(ring))
        /\ \A i \in 1..Len(Tail(ring)) : Tail(t)[i] = t[i + 1]
    BY <1>2, <1>3, HeadTailProperties
  <2>3. \A i \in 1..Len(Tail(ring)) : Tail(t)[i] = mem[Tail(ring)[i]]
    BY <1>3, <1>4, <2>2
  <2>4. Tail(t) = [i \in 1..Len(Tail(ring)) |-> Tail(t)[i]]
    <3>1. \A u \in Seq(Nat) : u = [i \in 1..Len(u) |-> u[i]]
      OBVIOUS
    <3>2. QED
      BY <2>2, <3>1
  <2>5. QED
    BY <2>1, <2>3, <2>4
<1>7. cur' # None
  BY <1>1, PoolAssumption
<1>8. InHand' = <<Head(t)>> /\ InHand = <<>>
  BY <1>1, <1>5, <1>7 DEF InHand
<1>9. InHand' \o Tail(t) = InHand \o t
  BY <1>2, <1>3, <1>8
<1>10. Burst' = Burst
  BY <1>1 DEF Burst
<1>11. QED
  BY <1>2, <1>6, <1>9, <1>10 DEF Channel

LEMMA ChannelGives ==
  ASSUME TypeInv, TheLcore \in Lcores, NEW to, Put(to), cur # None
  PROVE  Channel # <<>> /\ Head(Channel) = mem[cur] /\ Channel' = Tail(Channel)
<1>1. cur' = None /\ UNCHANGED <<mem, ring, burst>>
  BY DEF Put, lcoreVars
<1>2. PICK e \in Nat : e = mem[cur]
  BY DEF TypeInv, NothingUnwritten
<1>3. PICK t \in Seq(Nat), b \in Seq(Nat) : t = Contents(ring) /\ b = Burst
  BY ChannelTypes
<1>4. Contents(ring)' = t /\ Burst' = b /\ InHand' = <<>> /\ InHand = <<e>>
  BY <1>1, <1>2, <1>3 DEF Contents, Burst, InHand
<1>5. Channel = <<e>> \o (t \o b) /\ Channel' = t \o b /\ t \o b \in Seq(Nat)
  <2>1. <<e>> \in Seq(Nat) /\ t \o b \in Seq(Nat)
    BY <1>2, <1>3
  <2>2. (<<e>> \o t) \o b = <<e>> \o (t \o b)
    BY <1>3, <2>1, RegroupNats
  <2>3. <<>> \o t = t
    BY <1>3, ConcatEmptySeq
  <2>4. QED
    BY <1>3, <1>4, <2>1, <2>2, <2>3 DEF Channel
<1>6. PICK u \in Seq(Nat) : u = t \o b
  BY <1>5
<1>7. <<e>> \o u # <<>> /\ Head(<<e>> \o u) = e /\ Tail(<<e>> \o u) = u
  <2>1. Head(<<e>>) = e /\ Tail(<<e>>) = <<>> /\ <<e>> # <<>> /\ <<e>> \in Seq(Nat)
    BY <1>2
  <2>2. /\ <<e>> \o u \in Seq(Nat) /\ Len(<<e>> \o u) = 1 + Len(u) /\ Len(u) \in Nat
        /\ (<<e>> \o u)[1] = e
    BY <1>6, <2>1, ConcatProperties
  <2>3. \A i \in 1..Len(u) : (<<e>> \o u)[i + 1] = u[i]
    BY <1>6, <2>1, <2>2, ConcatProperties
  <2>4. PICK v \in Seq(Nat) : v = <<e>> \o u
    BY <2>2
  <2>5. v # <<>> /\ Head(v) = e /\ Tail(v) \in Seq(Nat) /\ Len(Tail(v)) = Len(u)
    BY <2>2, <2>4
  <2>6. ASSUME NEW i \in 1..Len(u) PROVE Tail(v)[i] = u[i]
    <3>1. Tail(v)[i] = v[i + 1]
      BY <2>2, <2>4, <2>5
    <3>2. QED
      BY <2>3, <2>4, <3>1
  <2>7. Tail(v) = u
    BY <1>6, <2>5, <2>6, SeqEqual
  <2>8. QED
    BY <2>4, <2>5, <2>7
<1>8. QED
  BY <1>2, <1>5, <1>6, <1>7

LEMMA ChannelAccepts ==
  ASSUME TypeInv, Copied, TheLcore \in Lcores, RxBurst(TheLcore)
  PROVE  \E n \in 1..BurstSize :
           /\ next + n <= MaxPacket /\ next' = next + n
           /\ Channel' = Channel \o [i \in 1..n |-> next + i - 1]
<1>1. PICK n \in 1..BurstSize :
        /\ next + n <= MaxPacket /\ next' = next + n
        /\ burst' = [burst EXCEPT ![TheLcore] = [i \in 1..n |-> next + i - 1]]
  BY DEF RxBurst
<1>2. UNCHANGED <<cur, mem, ring>> /\ Burst = <<>> /\ Channel \in Seq(Nat)
  BY ChannelTypes DEF RxBurst, Burst, Copied, dobVars
<1>3. Burst' = [i \in 1..n |-> next + i - 1]
  BY <1>1 DEF Burst, TypeInv, TypeOK
<1>4. InHand' = InHand /\ Contents(ring)' = Contents(ring)
  BY <1>2 DEF InHand, Contents
<1>5. PICK s \in Seq(Nat) : s = InHand \o Contents(ring)
  BY ChannelTypes, ConcatProperties
<1>6. s \o <<>> = s
  BY <1>5, ConcatEmptySeq
<1>7. Channel = s /\ Channel' = s \o Burst'
  BY <1>2, <1>4, <1>5, <1>6 DEF Channel
<1>8. QED
  BY <1>1, <1>3, <1>7

LEMMA ChannelEnqueues ==
  ASSUME TypeInv, Copied, TheLcore \in Lcores, EnqueueBulk(TheLcore)
  PROVE  /\ Len(Burst) \in 1..BurstSize /\ Len(Burst) <= Len(Channel)
         /\ RoomFor(Len(msg[TheLcore])) => Channel' = Channel
         /\ ~RoomFor(Len(msg[TheLcore])) =>
              Channel' = SubSeq(Channel, 1, Len(Channel) - Len(Burst))
<1> DEFINE w == TheLcore
<1>1. PICK h \in Seq(Nat), t \in Seq(Nat), b \in Seq(Nat) :
        h = InHand /\ t = Contents(ring) /\ b = Burst
  BY ChannelTypes
<1>2. /\ msg[w] \in Seq(Bufs) /\ Len(msg[w]) = Len(b) /\ pc[w] = "enqueue"
      /\ Len(b) <= BurstSize /\ b # <<>> /\ b = burst[w]
      /\ \A i \in 1..Len(msg[w]) : mem[msg[w][i]] = b[i]
  BY <1>1 DEF EnqueueBulk, TypeInv, TypeOK, Copied, Burst
<1>3. Len(b) \in 1..BurstSize
  BY <1>1, <1>2, SizesAssumption
<1>4. UNCHANGED <<cur, mem>> /\ Burst' = <<>> /\ InHand' = h
  BY <1>1 DEF EnqueueBulk, dobVars, TypeInv, TypeOK, Burst, InHand
<1>5. PICK s \in Seq(Nat) : s = h \o t /\ Channel = s \o b
  BY <1>1, ConcatProperties DEF Channel
<1>6. /\ Channel \in Seq(Nat) /\ Len(Channel) = Len(s) + Len(b) /\ Len(s) \in Nat
      /\ Len(b) \in Nat
  BY <1>1, <1>5, ConcatProperties
<1>7. ASSUME RoomFor(Len(msg[w])) PROVE Channel' = Channel
  <2>1. ring' = ring \o msg[w] /\ ring \in Seq(Bufs)
    BY <1>7 DEF EnqueueBulk, TypeInv, TypeOK
  <2>2. Contents(ring)' = t \o b
    <3>1. PICK n \in Nat, m \in Nat : n = Len(ring) /\ n = Len(t) /\ m = Len(b)
      BY <1>1, <2>1, ChannelTypes
    <3>2. /\ Len(ring') = n + m /\ t \o b \in Seq(Nat) /\ Len(t \o b) = n + m
          /\ \A i \in 1..(n + m) : (t \o b)[i] = IF i <= n THEN t[i] ELSE b[i - n]
          /\ \A i \in 1..(n + m) : ring'[i] = IF i <= n THEN ring[i] ELSE msg[w][i - n]
      <4>1. /\ t \o b \in Seq(Nat) /\ Len(t \o b) = n + m
            /\ \A i \in 1..(n + m) : (t \o b)[i] = IF i <= n THEN t[i] ELSE b[i - n]
        BY <3>1, ConcatProperties
      <4>2. /\ Len(ring \o msg[w]) = n + m
            /\ \A i \in 1..(n + m) : (ring \o msg[w])[i] =
                                     IF i <= n THEN ring[i] ELSE msg[w][i - n]
        <5>1. msg[w] \in Seq(Bufs) /\ ring \in Seq(Bufs) /\ Len(ring) = n /\ Len(msg[w]) = m
          BY <1>2, <2>1, <3>1
        <5>2. QED
          BY <5>1, ConcatProperties
      <4>3. QED
        BY <2>1, <4>1, <4>2
    <3>3. ASSUME NEW i \in 1..(n + m) PROVE mem[ring'[i]] = (t \o b)[i]
      <4>1. CASE i <= n
        <5>1. t[i] = mem[ring[i]]
          BY <1>1, <3>1, <4>1 DEF Contents
        <5>2. QED
          BY <3>2, <4>1, <5>1
      <4>2. CASE ~(i <= n)
        <5>1. i - n \in 1..m
          BY <3>1, <4>2
        <5>2. mem[msg[w][i - n]] = b[i - n]
          BY <1>2, <3>1, <5>1
        <5>3. QED
          BY <3>2, <4>2, <5>2
      <4>3. QED
        BY <4>1, <4>2
    <3>4. Contents(ring)' = [i \in 1..(n + m) |-> mem[ring'[i]]]
      BY <1>4, <3>2 DEF Contents
    <3>5. t \o b = [i \in 1..(n + m) |-> (t \o b)[i]]
      <4>1. \A u \in Seq(Nat) : u = [i \in 1..Len(u) |-> u[i]]
        OBVIOUS
      <4>2. QED
        BY <3>2, <4>1
    <3>6. [i \in 1..(n + m) |-> mem[ring'[i]]] = [i \in 1..(n + m) |-> (t \o b)[i]]
      BY <3>3, Zenon
    <3>7. QED
      BY <3>4, <3>5, <3>6, Zenon
  <2>3. h \o (t \o b) = s \o b
    <3>1. (h \o t) \o b = h \o (t \o b)
      BY RegroupNats
    <3>2. QED
      BY <1>5, <3>1
  <2>4. (s \o b) \o <<>> = s \o b
    BY <1>5, <1>6, ConcatEmptySeq
  <2>5. QED
    BY <1>1, <1>4, <1>5, <2>2, <2>3, <2>4 DEF Channel
<1>8. ASSUME ~RoomFor(Len(msg[w]))
      PROVE  Channel' = SubSeq(Channel, 1, Len(Channel) - Len(b))
  <2>1. ring' = ring
    BY <1>8 DEF EnqueueBulk
  <2>2. Contents(ring)' = t
    BY <1>1, <1>4, <2>1 DEF Contents
  <2>3. s \o <<>> = s
    BY <1>5, ConcatEmptySeq
  <2>4. Channel' = s
    BY <1>1, <1>4, <1>5, <2>2, <2>3 DEF Channel
  <2>5. SubSeq(s \o b, 1, Len(s)) = s
    BY <1>1, <1>5, SubSeqOfConcat1, SubSeqFull
  <2>6. Len(Channel) - Len(b) = Len(s)
    BY <1>6
  <2>7. QED
    BY <1>5, <2>4, <2>5, <2>6
<1>9. QED
  BY <1>1, <1>3, <1>6, <1>7, <1>8


\* What a step does to the channel, the wire and the leak.
LEMMA ChannelSteps ==
  ASSUME FifoInv, LeakAtMostOneBurst, Lcores = {TheLcore}, [Next]_vars
  PROVE  \/ /\ Channel' = Channel /\ UNCHANGED <<next, lost>> /\ Leaked' = Leaked
            /\ ~(\E to : Put(to) /\ cur # None)
         \/ /\ Lose /\ Channel' = Channel /\ Leaked' = Leaked
         \/ /\ UNCHANGED <<lost, dobVars>> /\ Leaked' = Leaked
            /\ \E n \in 1..BurstSize :
                 /\ next + n <= MaxPacket /\ next' = next + n
                 /\ Channel' = Channel \o [i \in 1..n |-> next + i - 1]
         \/ /\ UNCHANGED <<next, lost, dobVars>> /\ Leaked = {} /\ Leaked' # {}
            /\ \E n \in 1..BurstSize :
                 /\ n <= Len(Channel)
                 /\ Channel' = SubSeq(Channel, 1, Len(Channel) - n)
         \/ /\ UNCHANGED <<next, lost>> /\ Leaked' = Leaked
            /\ \E to : Put(to) /\ cur # None
            /\ Channel # <<>> /\ Head(Channel) = mem[cur] /\ Channel' = Tail(Channel)
<1>0. TypeInv /\ OwnedOnce /\ Copied /\ TheLcore \in Lcores
  BY DEF FifoInv
<1> DEFINE w == TheLcore
<1>1. CASE EnqueueBulk(w) /\ ~RoomFor(Len(msg[w]))
  <2>1. Leaked = {} /\ Range(msg[w]) \subseteq Leaked'
    BY <1>0, <1>1, NoRoomLeaksTheBurst
  <2>2. /\ Len(Burst) \in 1..BurstSize /\ Len(Burst) <= Len(Channel)
        /\ Channel' = SubSeq(Channel, 1, Len(Channel) - Len(Burst))
    BY <1>0, <1>1, ChannelEnqueues
  <2>3. Range(msg[w]) # {}
    <3>1. msg[w] \in Seq(Bufs) /\ Len(msg[w]) = Len(burst[w])
      BY <1>0, <1>1 DEF TypeInv, TypeOK, EnqueueBulk
    <3>2. 1 \in 1..Len(msg[w])
      BY <2>2, <3>1, SizesAssumption DEF Burst
    <3>3. msg[w][1] \in Range(msg[w])
      BY <3>1, <3>2 DEF Range
    <3>4. QED
      BY <3>3
  <2>4. UNCHANGED <<next, lost, dobVars>>
    BY <1>1 DEF EnqueueBulk
  <2>5. QED
    BY <2>1, <2>2, <2>3, <2>4
<1>2. CASE ~(EnqueueBulk(w) /\ ~RoomFor(Len(msg[w])))
  <2>1. Leaked' = Leaked
    BY <1>0, <1>2, LeakedStays
  <2>2. ASSUME UNCHANGED <<mem, cur, ring, burst>> PROVE Channel' = Channel
    BY <1>0, <2>2, ChannelKept
  <2>3. ASSUME cur' # None \/ cur = None, NEW to, Put(to), cur # None PROVE FALSE
    BY <2>3 DEF Put
  <2>4. CASE UNCHANGED vars
    <3>1. UNCHANGED <<mem, cur, ring, burst, next, lost>>
      BY <2>4 DEF vars, lcoreVars, dobVars
    <3>2. QED
      BY <2>1, <2>2, <2>3, <3>1
  <2>5. CASE Lose
    BY <2>1, <2>2, <2>5 DEF Lose, lcoreVars, dobVars
  <2>6. CASE AssemInit
    <3>1. UNCHANGED <<mem, cur, ring, burst, next, lost>>
      BY <2>6 DEF AssemInit, lcoreVars, dobVars
    <3>2. QED
      BY <2>1, <2>2, <2>3, <3>1
  <2>7. CASE RxBurst(w)
    <3>1. UNCHANGED <<lost, dobVars>>
      BY <2>7 DEF RxBurst
    <3>2. QED
      BY <1>0, <2>1, <2>7, <3>1, ChannelAccepts
  <2>8. CASE GetBulk(w) \/ GetBulkPanic(w)
    <3>1. UNCHANGED <<mem, cur, ring, burst, next, lost>>
      BY <2>8 DEF GetBulk, GetBulkPanic, lcoreVars, dobVars
    <3>2. QED
      BY <2>1, <2>2, <2>3, <3>1
  <2>9. CASE CopyIn(w)
    <3>1. UNCHANGED <<cur, ring, burst, next, lost>>
      BY <2>9 DEF CopyIn, lcoreVars, dobVars
    <3>2. \A b \in Bufs \ Range(msg[w]) : mem'[b] = mem[b]
      BY <2>9 DEF CopyIn
    <3>3. /\ Range(ring) \subseteq Bufs /\ cur \in Bufs \cup {None}
          /\ Range(msg[w]) \cap Range(ring) = {}
      BY <1>0, RangeOfSeq DEF TypeInv, TypeOK, OwnedOnce
    <3>4. cur \notin Range(msg[w])
      BY <1>0 DEF OwnedOnce, Held
    <3>5. Channel' = Channel
      BY <1>0, <3>1, <3>2, <3>3, <3>4, ChannelKept
    <3>6. QED
      BY <2>1, <2>3, <3>1, <3>5
  <2>10. CASE EnqueueBulk(w)
    <3>1. Channel' = Channel /\ UNCHANGED <<next, lost, cur>>
      BY <1>0, <1>2, <2>10, ChannelEnqueues DEF EnqueueBulk, dobVars
    <3>2. QED
      BY <2>1, <2>3, <3>1
  <2>11. ASSUME NEW from, NEW to, Dequeue(from, to), from \in {"drain", "sync", "main"}
         PROVE  Channel' = Channel /\ UNCHANGED <<next, lost>> /\ cur = None
    <3>1. cur = None /\ UNCHANGED <<next, lost>>
      BY <1>0, <2>11 DEF Dequeue, TypeInv, TypeOK
    <3>2. QED
      BY <1>0, <2>11, <3>1, ChannelTakes
  <2>12. CASE DrainDequeue \/ SyncDequeue \/ MainDequeue
    <3>1. Channel' = Channel /\ UNCHANGED <<next, lost>> /\ cur = None
      BY <2>11, <2>12 DEF DrainDequeue, SyncDequeue, MainDequeue
    <3>2. QED
      BY <2>1, <2>3, <3>1
  <2>13. CASE DrainPut \/ SyncPut \/ MainPut
    <3>1. cur # None
      BY <1>0, <2>13 DEF DrainPut, SyncPut, MainPut, TypeInv, TypeOK
    <3>2. PICK to : Put(to)
      BY <2>13 DEF DrainPut, SyncPut, MainPut
    <3>3. UNCHANGED <<next, lost>>
      BY <3>2 DEF Put
    <3>4. Channel # <<>> /\ Head(Channel) = mem[cur] /\ Channel' = Tail(Channel)
      BY <1>0, <3>1, <3>2, ChannelGives
    <3>5. QED
      BY <2>1, <3>1, <3>2, <3>3, <3>4
  <2>14. CASE Drained \/ CopyOut \/ Account
    <3>1. UNCHANGED <<mem, cur, ring, burst, next, lost>>
      BY <2>14 DEF Drained, CopyOut, Account, lcoreVars
    <3>2. QED
      BY <2>1, <2>2, <2>3, <3>1
  <2>15. ASSUME RxTwice(w) PROVE FALSE
    BY <2>15 DEF RxTwice
  <2>16. QED
    BY <2>4, <2>5, <2>6, <2>7, <2>8, <2>9, <2>10, <2>12, <2>13, <2>14, <2>15
      DEF Next, LcoreStep, DobStep
<1>3. QED
  BY <1>1, <1>2

LEMMA InitFifo == Init => FifoInv
<1>1. Init => Copied
  BY DEF Init, Copied
<1>2. QED
  BY <1>1, InitTypeInv, InitOwnedOnce DEF FifoInv

LEMMA NextFifo == FifoInv /\ [Next]_vars => FifoInv'
  BY NextTypeInv, NextOwnedOnce, NextCopied DEF FifoInv

LEMMA OneLcore ==
  ASSUME Cardinality(Lcores) = 1
  PROVE  Lcores = {TheLcore}
  BY PoolAssumption, FS_Singleton DEF TheLcore

\* With one lcore the path is the promised channel: nothing altered, doubled
\* or overtaken between the poll and DOB, and one burst given up at most.
THEOREM ImplementsLossyFifo == Cardinality(Lcores) = 1 => (Spec => FifoSpec)
<1> SUFFICES ASSUME Cardinality(Lcores) = 1 PROVE Spec => FifoSpec
  OBVIOUS
<1>1. Init => Fifo!Init
  <2> SUFFICES ASSUME Init PROVE Fifo!Init
    OBVIOUS
  <2>1. TheLcore \in Lcores
    BY OneLcore
  <2>2. Leaked = {}
    BY DEF Init, Leaked
  <2>3. InHand = <<>> /\ Contents(ring) = <<>> /\ Burst = <<>>
    BY <2>1 DEF Init, InHand, Contents, Burst
  <2>4. (<<>> \o <<>>) \o <<>> = <<>>
    OBVIOUS
  <2>5. Channel = <<>>
    BY <2>3, <2>4 DEF Channel
  <2>6. QED
    BY <2>2, <2>5 DEF Init, Fifo!Init, Channel, InHand, Burst
<1>2. FifoInv /\ LeakAtMostOneBurst /\ [Next]_vars => [Fifo!Next]_(Fifo!vars)
  <2> SUFFICES ASSUME FifoInv, LeakAtMostOneBurst, [Next]_vars
               PROVE  [Fifo!Next]_(Fifo!vars)
    OBVIOUS
  <2>0. Lcores = {TheLcore}
    BY OneLcore
  <2> USE DEF Channel, InHand, Burst
  <2>1. CASE Channel' = Channel /\ UNCHANGED next /\ Leaked' = Leaked
    BY <2>1 DEF Fifo!vars
  <2>2. CASE Lose /\ Channel' = Channel /\ Leaked' = Leaked
    BY <2>2 DEF Lose, Fifo!Next, Fifo!Lose
  <2>3. CASE /\ Leaked' = Leaked
             /\ \E n \in 1..BurstSize :
                  /\ next + n <= MaxPacket /\ next' = next + n
                  /\ Channel' = Channel \o [i \in 1..n |-> next + i - 1]
    BY <2>3 DEF Fifo!Next, Fifo!Accept
  <2>4. CASE /\ UNCHANGED next /\ Leaked = {} /\ Leaked' # {}
             /\ \E n \in 1..BurstSize :
                  /\ n <= Len(Channel)
                  /\ Channel' = SubSeq(Channel, 1, Len(Channel) - n)
    BY <2>4 DEF Fifo!Next, Fifo!GiveUp
  <2>5. CASE /\ UNCHANGED next /\ Leaked' = Leaked
             /\ Channel # <<>> /\ Channel' = Tail(Channel)
    BY <2>5 DEF Fifo!Next, Fifo!Deliver
  <2>6. QED
    BY <2>0, <2>1, <2>2, <2>3, <2>4, <2>5, ChannelSteps
<1>3. QED
  BY <1>1, <1>2, InitFifo, NextFifo, LeakBounded, PTL DEF Spec, FifoSpec, Fifo!Spec

-----------------------------------------------------------------------------
(* The mismatch counter. *)

Rising(q) == \A i, j \in 1..Len(q) : i < j => q[i] < q[j]

\* The elements of q that do not follow the one before, e being expected first.
Due(e, q, i) == IF i = 1 THEN e ELSE q[i - 1] + 1
Jumps(e, q) == {q[i] : i \in {j \in 1..Len(q) : q[j] # Due(e, q, j)}}

LEMMA RisingIs ==
  ASSUME NEW q, NEW l, Len(q) = l
  PROVE  Rising(q) <=> \A i, j \in 1..l : i < j => q[i] < q[j]
  BY DEF Rising

LEMMA JumpsFinite ==
  ASSUME NEW q \in Seq(Nat), NEW e
  PROVE  IsFiniteSet(Jumps(e, q)) /\ Cardinality(Jumps(e, q)) \in Nat
         /\ Jumps(e, q) \subseteq Range(q)
<1>1. Jumps(e, q) \subseteq Range(q)
  BY DEF Jumps, Range
<1>2. IsFiniteSet(Range(q))
  BY CountDistinct
<1>3. QED
  BY <1>1, <1>2, FS_Subset, FS_CardinalityType

LEMMA JumpsAre ==
  ASSUME NEW q, NEW e, NEW k
  PROVE  k \in Jumps(e, q) <=> \E i \in 1..Len(q) : q[i] = k /\ k # Due(e, q, i)
  BY DEF Jumps

\* q is what is in the channel and m the next packet on the wire.
LEMMA JumpsAccept ==
  ASSUME NEW q \in Seq(Nat), NEW m \in Nat, NEW n \in Nat, NEW e,
         NEW r, r = [i \in 1..n |-> m + i - 1], Rising(Append(q, m))
  PROVE  /\ Jumps(e, Append(q \o r, m + n)) = Jumps(e, Append(q, m))
         /\ Rising(Append(q \o r, m + n))
<1> DEFINE p == Append(q, m)
           t == Append(q \o r, m + n)
<1>1. PICK l \in Nat : l = Len(q)
  OBVIOUS
<1>2. p \in Seq(Nat) /\ Len(p) = l + 1 /\ p[l + 1] = m /\ \A i \in 1..l : p[i] = q[i]
  BY <1>1, AppendProperties
<1>3. r \in Seq(Nat) /\ Len(r) = n /\ \A i \in 1..n : r[i] = m + i - 1
  OBVIOUS
<1>4. /\ q \o r \in Seq(Nat) /\ Len(q \o r) = l + n
      /\ \A i \in 1..(l + n) : (q \o r)[i] = IF i <= l THEN q[i] ELSE r[i - l]
  BY <1>1, <1>3, ConcatProperties
<1>5. /\ t \in Seq(Nat) /\ Len(t) = (l + n) + 1 /\ t[(l + n) + 1] = m + n
      /\ \A i \in 1..(l + n) : t[i] = (q \o r)[i]
  BY <1>4, AppendProperties
<1> HIDE DEF p, t
<1>6. ASSUME NEW i \in 1..l PROVE t[i] = p[i] /\ p[i] \in Nat
  <2>1. i \in 1..(l + n) /\ i <= l /\ i \in 1..(l + 1)
    OBVIOUS
  <2>2. p[i] \in Nat
    BY <1>2, <2>1
  <2>3. t[i] = (q \o r)[i] /\ (q \o r)[i] = q[i] /\ p[i] = q[i]
    BY <1>2, <1>4, <1>5, <2>1
  <2>4. QED
    BY <2>2, <2>3
<1>7. ASSUME NEW i \in (l + 1)..((l + n) + 1) PROVE t[i] = m + (i - (l + 1))
  <2>1. CASE i = (l + n) + 1
    BY <1>5, <2>1
  <2>2. CASE i # (l + n) + 1
    <3>1. i \in 1..(l + n) /\ ~(i <= l) /\ i - l \in 1..n
      BY <2>2
    <3>2. t[i] = (q \o r)[i] /\ (q \o r)[i] = r[i - l]
      BY <1>4, <1>5, <3>1
    <3>3. r[i - l] = m + (i - l) - 1
      BY <1>3, <3>1
    <3>4. m + (i - l) - 1 = m + (i - (l + 1)) /\ i \in Int
      OBVIOUS
    <3>5. QED
      BY <3>2, <3>3, <3>4
  <2>3. QED
    BY <2>1, <2>2
<1>8. ASSUME NEW i \in 1..(l + 1) PROVE t[i] = p[i] /\ Due(e, t, i) = Due(e, p, i)
  <2>1. ASSUME NEW j \in 1..(l + 1) PROVE t[j] = p[j]
    <3>1. CASE j = l + 1
      <4>1. t[l + 1] = m + ((l + 1) - (l + 1))
        BY <1>7
      <4>2. QED
        BY <1>2, <3>1, <4>1
    <3>2. CASE j # l + 1
      BY <1>6, <3>2
    <3>3. QED
      BY <3>1, <3>2
  <2>2. CASE i = 1
    BY <2>1, <2>2 DEF Due
  <2>3. CASE i # 1
    <3>1. i - 1 \in 1..(l + 1)
      BY <2>3
    <3>2. QED
      BY <2>1, <2>3, <3>1 DEF Due
  <2>4. QED
    BY <2>2, <2>3
<1>9. ASSUME NEW i \in (l + 2)..((l + n) + 1) PROVE t[i] = Due(e, t, i)
  <2>1. i \in (l + 1)..((l + n) + 1) /\ i - 1 \in (l + 1)..((l + n) + 1) /\ i # 1
    OBVIOUS
  <2>2. t[i] = m + (i - (l + 1)) /\ t[i - 1] = m + ((i - 1) - (l + 1))
    BY <1>7, <2>1
  <2>3. QED
    BY <2>1, <2>2 DEF Due
<1>10. Jumps(e, t) = Jumps(e, p)
  <2>1. ASSUME NEW k PROVE k \in Jumps(e, t) <=> k \in Jumps(e, p)
    <3>1. ASSUME k \in Jumps(e, t) PROVE k \in Jumps(e, p)
      <4>1. PICK i \in 1..((l + n) + 1) : t[i] = k /\ k # Due(e, t, i)
        <5>1. PICK i \in 1..Len(t) : t[i] = k /\ k # Due(e, t, i)
          BY <3>1, JumpsAre
        <5>2. i \in 1..((l + n) + 1)
          BY <1>5
        <5>3. QED
          BY <5>1, <5>2
      <4>2. i \in 1..(l + 1)
        BY <1>9, <4>1
      <4>3. p[i] = k /\ k # Due(e, p, i)
        BY <1>8, <4>1, <4>2
      <4>4. QED
        BY <1>2, <4>2, <4>3, JumpsAre
    <3>2. ASSUME k \in Jumps(e, p) PROVE k \in Jumps(e, t)
      <4>1. PICK i \in 1..(l + 1) : p[i] = k /\ k # Due(e, p, i)
        <5>1. PICK i \in 1..Len(p) : p[i] = k /\ k # Due(e, p, i)
          BY <3>2, JumpsAre
        <5>2. i \in 1..(l + 1)
          BY <1>2
        <5>3. QED
          BY <5>1, <5>2
      <4>2. t[i] = k /\ k # Due(e, t, i) /\ i \in 1..((l + n) + 1)
        BY <1>8, <4>1
      <4>3. QED
        BY <1>5, <4>1, <4>2, JumpsAre
    <3>3. QED
      BY <3>1, <3>2
  <2>2. QED
    BY <2>1
<1>13. \A i, j \in 1..(l + 1) : i < j => p[i] < p[j]
  <2>1. Rising(p)
    BY DEF p
  <2>2. QED
    BY <1>2, <2>1, RisingIs
<1>11. Rising(t)
  <2>1. SUFFICES ASSUME NEW i \in 1..((l + n) + 1), NEW j \in 1..((l + n) + 1), i < j
                 PROVE  t[i] < t[j]
    BY <1>5, RisingIs
  <2>2. CASE j <= l + 1
    <3>1. i \in 1..(l + 1) /\ j \in 1..(l + 1)
      BY <2>1, <2>2
    <3>2. t[i] = p[i] /\ t[j] = p[j] /\ p[i] < p[j]
      BY <1>8, <1>13, <2>1, <3>1
    <3>3. QED
      BY <3>2
  <2>3. CASE i >= l + 1
    <3>1. i \in (l + 1)..((l + n) + 1) /\ j \in (l + 1)..((l + n) + 1)
      BY <2>1, <2>3
    <3>2. t[i] = m + (i - (l + 1)) /\ t[j] = m + (j - (l + 1))
      BY <1>7, <3>1
    <3>3. QED
      BY <2>1, <3>2
  <2>4. CASE i <= l /\ j > l + 1
    <3>1. p[i] < p[l + 1]
      BY <1>13, <2>4
    <3>2. t[j] = m + (j - (l + 1)) /\ t[i] = p[i] /\ p[i] \in Nat
      BY <1>6, <1>7, <2>4
    <3>3. QED
      BY <1>2, <2>4, <3>1, <3>2
  <2>5. QED
    BY <2>2, <2>3, <2>4
<1>12. QED
  BY <1>10, <1>11 DEF p, t

\* The end of the channel is replaced by k.
LEMMA JumpsCut ==
  ASSUME NEW q \in Seq(Nat), NEW m \in Nat, NEW n \in 0..Len(q), NEW k \in Nat, NEW e,
         k >= m, Rising(Append(q, m))
  PROVE  LET s == SubSeq(q, 1, n)
         IN /\ Jumps(e, Append(s, k)) \subseteq Jumps(e, Append(q, m)) \cup {k}
            /\ Rising(Append(s, k))
<1> DEFINE s == SubSeq(q, 1, n)
           p == Append(q, m)
           t == Append(s, k)
<1>1. PICK l \in Nat : l = Len(q) /\ n \in 0..l /\ n \in Nat
  OBVIOUS
<1>2. p \in Seq(Nat) /\ Len(p) = l + 1 /\ p[l + 1] = m /\ \A i \in 1..l : p[i] = q[i]
  BY <1>1, AppendProperties
<1>3. s \in Seq(Nat) /\ Len(s) = n /\ \A i \in 1..n : s[i] = q[i]
  BY <1>1
<1>4. t \in Seq(Nat) /\ Len(t) = n + 1 /\ t[n + 1] = k /\ \A i \in 1..n : t[i] = s[i]
  BY <1>3, AppendProperties
<1>6. \A i, j \in 1..(l + 1) : i < j => p[i] < p[j]
  <2>1. Rising(p)
    OBVIOUS
  <2> HIDE DEF p
  <2>2. QED
    BY <1>2, <2>1, RisingIs
<1> HIDE DEF s, p, t
<1>5. ASSUME NEW i \in 1..n PROVE t[i] = p[i] /\ p[i] \in Nat /\ Due(e, t, i) = Due(e, p, i)
  <2>1. ASSUME NEW j \in 1..n PROVE t[j] = p[j] /\ p[j] \in Nat
    <3>1. j \in 1..l /\ j \in 1..(l + 1)
      BY <1>1
    <3>2. p[j] \in Nat
      BY <1>2, <3>1
    <3>3. QED
      BY <1>2, <1>3, <1>4, <3>1, <3>2
  <2>2. CASE i = 1
    BY <2>1, <2>2 DEF Due
  <2>3. CASE i # 1
    <3>1. i - 1 \in 1..n
      BY <1>1, <2>3
    <3>2. QED
      BY <2>1, <2>3, <3>1 DEF Due
  <2>4. QED
    BY <2>2, <2>3
<1>7. ASSUME NEW j \in Jumps(e, t), j # k PROVE j \in Jumps(e, p)
  <2>1. PICK i \in 1..(n + 1) : t[i] = j /\ j # Due(e, t, i)
    <3>1. PICK i \in 1..Len(t) : t[i] = j /\ j # Due(e, t, i)
      BY <1>7, JumpsAre
    <3>2. i \in 1..(n + 1)
      BY <1>4
    <3>3. QED
      BY <3>1, <3>2
  <2>2. i \in 1..n /\ i \in 1..(l + 1)
    BY <1>1, <1>4, <1>7, <2>1
  <2>3. p[i] = j /\ j # Due(e, p, i)
    BY <1>5, <2>1, <2>2
  <2>4. QED
    BY <1>1, <1>2, <2>2, <2>3, JumpsAre
<1>8. Rising(t)
  <2>1. SUFFICES ASSUME NEW i \in 1..(n + 1), NEW j \in 1..(n + 1), i < j
                 PROVE  t[i] < t[j]
    BY <1>4, RisingIs
  <2>2. CASE j <= n
    <3>1. i \in 1..n /\ j \in 1..n /\ i \in 1..(l + 1) /\ j \in 1..(l + 1)
      BY <1>1, <2>1, <2>2
    <3>2. t[i] = p[i] /\ t[j] = p[j] /\ p[i] < p[j]
      BY <1>5, <1>6, <2>1, <3>1
    <3>3. QED
      BY <3>2
  <2>3. CASE j = n + 1
    <3>0. i \in 1..n /\ i \in 1..(l + 1) /\ l + 1 \in 1..(l + 1) /\ i < l + 1
      BY <1>1, <2>1, <2>3
    <3>1. p[i] < m /\ t[i] = p[i] /\ p[i] \in Nat
      BY <1>2, <1>5, <1>6, <3>0
    <3>2. QED
      BY <1>4, <2>3, <3>1
  <2>4. QED
    BY <2>1, <2>2, <2>3
<1>9. QED
  BY <1>7, <1>8 DEF s, p, t

\* The head of the channel is taken out.
LEMMA JumpsTake ==
  ASSUME NEW q \in Seq(Nat), NEW m \in Nat, NEW e, q # <<>>, Rising(Append(q, m))
  PROVE  /\ Jumps(Head(q) + 1, Append(Tail(q), m)) \subseteq Jumps(e, Append(q, m)) \ {Head(q)}
         /\ Head(q) # e => Head(q) \in Jumps(e, Append(q, m))
         /\ Rising(Append(Tail(q), m))
<1> DEFINE p == Append(q, m)
           t == Append(Tail(q), m)
<1>1. PICK l \in Nat : Len(q) = l + 1
  <2>1. Len(q) - 1 \in Nat
    OBVIOUS
  <2>2. QED
    BY <2>1
<1>2. p \in Seq(Nat) /\ Len(p) = l + 2 /\ p[l + 2] = m /\ \A i \in 1..(l + 1) : p[i] = q[i]
  BY <1>1, AppendProperties
<1>3. /\ Tail(q) \in Seq(Nat) /\ Len(Tail(q)) = l /\ \A i \in 1..l : Tail(q)[i] = q[i + 1]
      /\ Head(q) = q[1]
  BY <1>1, HeadTailProperties
<1>4. t \in Seq(Nat) /\ Len(t) = l + 1 /\ t[l + 1] = m /\ \A i \in 1..l : t[i] = Tail(q)[i]
  BY <1>3, AppendProperties
<1>5. \A i \in 1..(l + 1) : t[i] = p[i + 1]
  <2>1. TAKE i \in 1..(l + 1)
  <2>2. CASE i = l + 1
    BY <1>2, <1>4, <2>2
  <2>3. CASE i # l + 1
    <3>1. i \in 1..l /\ i + 1 \in 1..(l + 1)
      BY <2>3
    <3>2. QED
      BY <1>2, <1>3, <1>4, <3>1
  <2>4. QED
    BY <2>2, <2>3
<1>6. p[1] = Head(q)
  BY <1>2, <1>3
<1>7. \A i, j \in 1..(l + 2) : i < j => p[i] < p[j]
  <2>1. Rising(p)
    OBVIOUS
  <2> HIDE DEF p
  <2>2. QED
    BY <1>2, <2>1, RisingIs
<1> HIDE DEF p, t
<1>8. ASSUME NEW k \in Jumps(Head(q) + 1, t) PROVE k \in Jumps(e, p) /\ k # Head(q)
  <2>1. PICK i \in 1..(l + 1) : t[i] = k /\ k # Due(Head(q) + 1, t, i)
    <3>1. PICK i \in 1..Len(t) : t[i] = k /\ k # Due(Head(q) + 1, t, i)
      BY <1>8, JumpsAre
    <3>2. i \in 1..(l + 1)
      BY <1>4
    <3>3. QED
      BY <3>1, <3>2
  <2>2. i + 1 \in 1..(l + 2) /\ i + 1 # 1 /\ 1 < i + 1 /\ 1 \in 1..(l + 2)
    BY <2>1
  <2>3. p[i + 1] = k /\ k # Due(e, p, i + 1)
    <3>0. p[i + 1] = k /\ (i + 1) - 1 = i
      <4>1. t[i] = p[i + 1]
        BY <1>5
      <4>2. (i + 1) - 1 = i
        OBVIOUS
      <4>3. QED
        BY <2>1, <4>1, <4>2
    <3>1. CASE i = 1
      BY <1>6, <2>1, <2>2, <3>0, <3>1 DEF Due
    <3>2. CASE i # 1
      <4>1. i - 1 \in 1..(l + 1) /\ (i - 1) + 1 = i
        BY <3>2
      <4>2. t[i - 1] = p[i]
        BY <1>5, <4>1
      <4>3. QED
        BY <2>1, <2>2, <3>0, <3>2, <4>2 DEF Due
    <3>3. QED
      BY <3>1, <3>2
  <2>4. k \in Jumps(e, p)
    BY <1>2, <2>2, <2>3, JumpsAre
  <2>5. p[1] < p[i + 1] /\ p[1] \in Nat /\ p[i + 1] \in Nat
    BY <1>2, <1>7, <2>2
  <2>6. QED
    BY <1>6, <2>3, <2>4, <2>5
<1>9. ASSUME Head(q) # e PROVE Head(q) \in Jumps(e, p)
  <2>1. 1 \in 1..(l + 2) /\ p[1] = Head(q) /\ Due(e, p, 1) = e
    BY <1>6 DEF Due
  <2>2. QED
    BY <1>2, <1>9, <2>1, JumpsAre
<1>10. Rising(t)
  <2>1. SUFFICES ASSUME NEW i \in 1..(l + 1), NEW j \in 1..(l + 1), i < j
                 PROVE  t[i] < t[j]
    BY <1>4, RisingIs
  <2>2. i + 1 \in 1..(l + 2) /\ j + 1 \in 1..(l + 2) /\ i + 1 < j + 1
    BY <2>1
  <2>3. t[i] = p[i + 1] /\ t[j] = p[j + 1] /\ p[i + 1] < p[j + 1]
    BY <1>5, <1>7, <2>2
  <2>4. QED
    BY <2>3
<1>11. QED
  BY <1>8, <1>9, <1>10 DEF p, t


\* The packets under way, and the next one of the wire behind them.
Wire == Append(Channel, next)

\* What DOB will count once it has worked the wire off, expecting packet e
\* first, and what it may count.
Debt(e) == (mis + Cardinality(Jumps(e, Wire)))
             + (IF dpc = "account" /\ Mismatch(tmp) THEN 1 ELSE 0)
Allowed == lost + (IF Leaked = {} THEN 0 ELSE 1)

Expects(e) ==
  /\ dpc \in {"main", "copyOut", "put"} => PacketSeq(e) = packetSeq
  /\ dpc = "account" => e = tmp + 1

GapsInv ==
  /\ dpc \in {"drain", "drainPut", "sync", "syncPut"} => packetSeq = 0
  /\ dpc = "put" => tmp = mem[cur]
  /\ Rising(Wire)
  /\ \E e \in Nat : Expects(e) /\ Debt(e) <= Allowed

\* The pieces are numbers.
LEMMA GapsTypes ==
  ASSUME TypeInv, TheLcore \in Lcores, NEW e
  PROVE  /\ Channel \in Seq(Nat) /\ next \in Nat /\ Wire \in Seq(Nat)
         /\ mis \in Nat /\ lost \in Nat /\ Cardinality(Jumps(e, Wire)) \in Nat
         /\ IsFiniteSet(Jumps(e, Wire))
<1>1. Channel \in Seq(Nat)
  BY ChannelTypes
<1>2. next \in Nat /\ mis \in Nat /\ lost \in Nat
  BY DEF TypeInv, TypeOK
<1>3. Wire \in Seq(Nat)
  BY <1>1, <1>2, AppendProperties DEF Wire
<1>4. QED
  BY <1>1, <1>2, <1>3, JumpsFinite

\* Nobody writes into the buffer DOB has in its hands.
LEMMA InHandStays ==
  ASSUME FifoInv, Lcores = {TheLcore}, [Next]_vars, cur # None
  PROVE  mem'[cur] = mem[cur]
<1>1. CASE CopyIn(TheLcore)
  <2>1. cur \in Bufs /\ cur \notin Range(msg[TheLcore])
    BY DEF FifoInv, TypeInv, TypeOK, OwnedOnce, Held
  <2>2. QED
    BY <1>1, <2>1 DEF CopyIn
<1>2. CASE ~CopyIn(TheLcore)
  <2>1. mem' = mem
    BY <1>2 DEF Next, vars, Lose, AssemInit, LcoreStep, RxBurst, RxTwice, GetBulk,
      GetBulkPanic, EnqueueBulk, DobStep, DrainDequeue, DrainPut, Drained, SyncDequeue,
      SyncPut, MainDequeue, CopyOut, MainPut, Account, Dequeue, Put
  <2>2. QED
    BY <2>1
<1>3. QED
  BY <1>1, <1>2

\* A set with at most one element more has a cardinality larger by one at most.
LEMMA OneMore ==
  ASSUME NEW A, NEW B, NEW k, IsFiniteSet(A), B \subseteq A \cup {k}
  PROVE  Cardinality(B) \in Nat /\ Cardinality(A) \in Nat
         /\ Cardinality(B) <= Cardinality(A) + 1
<1>1. /\ IsFiniteSet(A \cup {k}) /\ Cardinality(A \cup {k}) \in Nat /\ Cardinality(A) \in Nat
      /\ Cardinality(A \cup {k}) <= Cardinality(A) + 1
  BY FS_AddElement, FS_CardinalityType
<1>2. IsFiniteSet(B) /\ Cardinality(B) <= Cardinality(A \cup {k}) /\ Cardinality(B) \in Nat
  BY <1>1, FS_Subset, FS_CardinalityType
<1>3. QED
  BY <1>1, <1>2

\* Steps that are not DOB's.
LEMMA GapsOthers ==
  ASSUME FifoInv, LeakAtMostOneBurst, GapsInv, Lcores = {TheLcore}, [Next]_vars,
         UNCHANGED dobVars
  PROVE  GapsInv'
<1>0. TypeInv /\ TypeInv' /\ TheLcore \in Lcores
  BY NextFifo DEF FifoInv
<1>1. UNCHANGED <<dpc, cur, tmp, packetSeq, mis>>
  BY DEF dobVars
<1>2. PICK e \in Nat : Expects(e) /\ Debt(e) <= Allowed
  BY DEF GapsInv
<1>3. /\ Channel \in Seq(Nat) /\ next \in Nat /\ Wire \in Seq(Nat)
      /\ mis \in Nat /\ lost \in Nat /\ Cardinality(Jumps(e, Wire)) \in Nat
      /\ IsFiniteSet(Jumps(e, Wire))
  BY <1>0, GapsTypes
<1>4. dpc' = "put" => tmp' = mem'[cur']
  BY <1>0, <1>1, InHandStays DEF GapsInv, TypeInv, TypeOK
<1>5. dpc' \in {"drain", "drainPut", "sync", "syncPut"} => packetSeq' = 0
  BY <1>1 DEF GapsInv
<1>6. PICK a \in {0, 1} : /\ a = IF dpc = "account" /\ Mismatch(tmp) THEN 1 ELSE 0
                          /\ a = (IF dpc = "account" /\ Mismatch(tmp) THEN 1 ELSE 0)'
  BY <1>1 DEF Mismatch
<1>7. Expects(e)'
  BY <1>1, <1>2 DEF Expects
<1>8. Rising(Append(Channel, next))
  BY DEF GapsInv, Wire
<1>9. ASSUME NEW d \in {0, 1}, Allowed' = Allowed + d, Rising(Wire'),
             Cardinality(Jumps(e, Wire')) \in Nat,
             Cardinality(Jumps(e, Wire')) <= Cardinality(Jumps(e, Wire)) + d
      PROVE  GapsInv'
  <2>1. PICK l \in Nat : l = Allowed
    <3>1. Allowed \in Nat
      <4>1. CASE Leaked = {}
        BY <1>3, <4>1 DEF Allowed
      <4>2. CASE Leaked # {}
        BY <1>3, <4>2 DEF Allowed
      <4>3. QED
        BY <4>1, <4>2
    <3>2. QED
      BY <3>1
  <2>2. PICK c \in Nat : c = Cardinality(Jumps(e, Wire))
    BY <1>3
  <2>3. PICK f \in Nat : f = Cardinality(Jumps(e, Wire'))
    BY <1>9
  <2>4. (mis + c) + a <= l /\ f <= c + d /\ l + d = Allowed'
    BY <1>2, <1>6, <1>9, <2>1, <2>2, <2>3 DEF Debt
  <2>5. (mis + f) + a <= l + d
    BY <1>3, <2>4
  <2>6. Debt(e)' = (mis + f) + a
    BY <1>1, <1>6, <2>3 DEF Debt
  <2>7. Debt(e)' <= Allowed'
    BY <2>4, <2>5, <2>6
  <2>8. QED
    BY <1>4, <1>5, <1>7, <1>9, <2>7 DEF GapsInv
<1>10. CASE Channel' = Channel /\ UNCHANGED <<next, lost>> /\ Leaked' = Leaked
  <2>1. Wire' = Wire /\ Allowed' = Allowed + 0
    BY <1>3, <1>10 DEF Wire, Allowed
  <2>2. Cardinality(Jumps(e, Wire')) <= Cardinality(Jumps(e, Wire)) + 0
    BY <1>3, <2>1
  <2>3. QED
    BY <1>3, <1>9, <2>1, <2>2 DEF GapsInv
<1>11. CASE Lose /\ Channel' = Channel /\ Leaked' = Leaked
  <2>1. next' = next + 1 /\ Allowed' = Allowed + 1
    BY <1>3, <1>11 DEF Lose, Allowed
  <2>2. PICK n \in Nat : n = Len(Channel) /\ SubSeq(Channel, 1, n) = Channel
                         /\ n \in 0..Len(Channel)
    BY <1>3
  <2>3. Wire' = Append(SubSeq(Channel, 1, n), next + 1)
    BY <1>11, <2>1, <2>2 DEF Wire
  <2>4. next + 1 \in Nat /\ next + 1 >= next
    BY <1>3
  <2>5. Jumps(e, Wire') \subseteq Jumps(e, Wire) \cup {next + 1} /\ Rising(Wire')
    BY <1>3, <1>8, <2>2, <2>3, <2>4, JumpsCut DEF Wire
  <2>6. /\ Cardinality(Jumps(e, Wire')) \in Nat
        /\ Cardinality(Jumps(e, Wire')) <= Cardinality(Jumps(e, Wire)) + 1
    BY <1>3, <2>5, OneMore
  <2>7. QED
    BY <1>9, <2>1, <2>5, <2>6
<1>12. CASE /\ UNCHANGED lost /\ Leaked' = Leaked
            /\ \E n \in 1..BurstSize :
                 /\ next + n <= MaxPacket /\ next' = next + n
                 /\ Channel' = Channel \o [i \in 1..n |-> next + i - 1]
  <2>1. PICK n \in 1..BurstSize : /\ next' = next + n
                                  /\ Channel' = Channel \o [i \in 1..n |-> next + i - 1]
    BY <1>12
  <2>2. n \in Nat /\ Allowed' = Allowed + 0
    BY <1>3, <1>12, SizesAssumption DEF Allowed
  <2>3. PICK r : r = [i \in 1..n |-> next + i - 1]
    OBVIOUS
  <2>4. Wire' = Append(Channel \o r, next + n)
    BY <2>1, <2>3 DEF Wire
  <2>5. Jumps(e, Append(Channel \o r, next + n)) = Jumps(e, Append(Channel, next))
        /\ Rising(Append(Channel \o r, next + n))
    BY <1>3, <1>8, <2>2, <2>3, JumpsAccept
  <2>6. Jumps(e, Wire') = Jumps(e, Wire) /\ Rising(Wire')
    BY <2>4, <2>5 DEF Wire
  <2>7. Cardinality(Jumps(e, Wire')) <= Cardinality(Jumps(e, Wire)) + 0
    BY <1>3, <2>6
  <2>8. QED
    BY <1>3, <1>9, <2>2, <2>6, <2>7
<1>13. CASE /\ UNCHANGED <<next, lost>> /\ Leaked = {} /\ Leaked' # {}
            /\ \E n \in 1..BurstSize :
                 /\ n <= Len(Channel)
                 /\ Channel' = SubSeq(Channel, 1, Len(Channel) - n)
  <2>1. PICK b \in 1..BurstSize : /\ b <= Len(Channel)
                                  /\ Channel' = SubSeq(Channel, 1, Len(Channel) - b)
    BY <1>13
  <2>2. PICK n : n = Len(Channel) - b /\ n \in 0..Len(Channel)
    BY <1>3, <2>1, SizesAssumption
  <2>3. Wire' = Append(SubSeq(Channel, 1, n), next) /\ next >= next
    <3>1. Channel' = SubSeq(Channel, 1, n)
      BY <2>1, <2>2, Zenon
    <3>2. next >= next
      BY <1>3
    <3>3. QED
      BY <1>13, <3>1, <3>2 DEF Wire
  <2>4. Allowed' = Allowed + 1
    BY <1>3, <1>13 DEF Allowed
  <2>5. Jumps(e, Wire') \subseteq Jumps(e, Wire) \cup {next} /\ Rising(Wire')
    <3>1. LET s == SubSeq(Channel, 1, n)
          IN  /\ Jumps(e, Append(s, next)) \subseteq Jumps(e, Append(Channel, next)) \cup {next}
              /\ Rising(Append(s, next))
      BY <1>3, <1>8, <2>2, <2>3, JumpsCut
    <3>2. QED
      BY <2>3, <3>1 DEF Wire
  <2>6. /\ Cardinality(Jumps(e, Wire')) \in Nat
        /\ Cardinality(Jumps(e, Wire')) <= Cardinality(Jumps(e, Wire)) + 1
    BY <1>3, <2>5, OneMore
  <2>7. QED
    BY <1>9, <2>4, <2>5, <2>6
<1>14. ASSUME NEW to, Put(to), cur # None PROVE FALSE
  BY <1>1, <1>14 DEF Put
<1>15. QED
  BY <1>10, <1>11, <1>12, <1>13, <1>14, ChannelSteps

\* DOB's steps that give no buffer back.
LEMMA GapsReads ==
  ASSUME FifoInv, LeakAtMostOneBurst, GapsInv, Lcores = {TheLcore}, Next,
         DrainDequeue \/ SyncDequeue \/ MainDequeue \/ Drained \/ CopyOut \/ Account
  PROVE  GapsInv'
<1>0. TypeInv /\ TheLcore \in Lcores
  BY DEF FifoInv
<1>1. PICK e \in Nat : Expects(e) /\ Debt(e) <= Allowed
  BY DEF GapsInv
<1>2. /\ mis \in Nat /\ lost \in Nat /\ Cardinality(Jumps(e, Wire)) \in Nat
  BY <1>0, GapsTypes
<1>3. UNCHANGED <<next, lost>> /\ dpc' # dpc /\ ~(\E to : Put(to) /\ cur # None)
  BY <1>0 DEF DrainDequeue, SyncDequeue, MainDequeue, Drained, CopyOut, Account, Dequeue,
    Put, TypeInv, TypeOK
<1>4. Channel' = Channel /\ UNCHANGED <<next, lost>> /\ Leaked' = Leaked
  <2>1. ASSUME Lose PROVE FALSE
    BY <1>3, <2>1 DEF Lose, dobVars
  <2>2. ~UNCHANGED dobVars
    BY <1>3 DEF dobVars
  <2>3. QED
    BY <1>3, <2>1, <2>2, ChannelSteps
<1>5. Wire' = Wire /\ Allowed' = Allowed
  BY <1>4 DEF Wire, Allowed
<1>6. CASE DrainDequeue \/ SyncDequeue \/ MainDequeue \/ Drained \/ CopyOut
  <2>1. UNCHANGED <<packetSeq, mis>> /\ dpc # "account" /\ dpc' # "account"
    BY <1>6 DEF DrainDequeue, SyncDequeue, MainDequeue, Drained, CopyOut, Dequeue
  <2>2. /\ dpc' \in {"drain", "drainPut", "sync", "syncPut"}
             => dpc \in {"drain", "drainPut", "sync", "syncPut"}
        /\ dpc' \in {"main", "copyOut", "put"} => dpc \in {"main", "copyOut", "put"}
    BY <1>6 DEF DrainDequeue, SyncDequeue, MainDequeue, Drained, CopyOut, Dequeue
  <2>3. dpc' = "put" => tmp' = mem'[cur']
    BY <1>6 DEF DrainDequeue, SyncDequeue, MainDequeue, Drained, CopyOut, Dequeue
  <2>4. Expects(e)'
    BY <1>1, <2>1, <2>2 DEF Expects
  <2>5. Debt(e)' = Debt(e)
    BY <1>5, <2>1 DEF Debt
  <2>6. QED
    BY <1>1, <1>5, <2>1, <2>2, <2>3, <2>4, <2>5 DEF GapsInv
<1>7. CASE Account
  <2>1. e = tmp + 1 /\ tmp \in Nat /\ dpc = "account" /\ dpc' = "main"
    BY <1>0, <1>1, <1>7 DEF Account, Expects, TypeInv, NothingUnwritten
  <2>2. packetSeq' = PacketSeq(e)
    <3>1. ((tmp % PackNum) + 1) % PackNum = (tmp + 1) % PackNum
      <4>1. PackNum \in Nat \ {0} /\ tmp \in Int
        BY <2>1, SizesAssumption
      <4>2. QED
        BY <4>1, ModSteps, Zenon
    <3>2. QED
      BY <1>7, <2>1, <3>1 DEF Account, ExpectedAfter, PacketSeq
  <2>3. Expects(e)'
    BY <2>1, <2>2 DEF Expects, PacketSeq
  <2>4. PICK c \in Nat : c = Cardinality(Jumps(e, Wire))
    BY <1>2
  <2>5. Debt(e)' = mis' + c
    <3>1. mis' \in Nat
      BY <1>2, <1>7 DEF Account
    <3>2. QED
      BY <1>5, <2>1, <2>4, <3>1 DEF Debt
  <2>6. Debt(e)' = Debt(e)
    <3>1. CASE Mismatch(tmp)
      BY <1>2, <1>7, <2>1, <2>4, <2>5, <3>1 DEF Debt, Account
    <3>2. CASE ~Mismatch(tmp)
      BY <1>2, <1>7, <2>1, <2>4, <2>5, <3>2 DEF Debt, Account
    <3>3. QED
      BY <3>1, <3>2
  <2>7. QED
    BY <1>1, <1>5, <2>1, <2>3, <2>6 DEF GapsInv
<1>8. QED
  BY <1>6, <1>7


\* DOB gives back the buffer of the packet at the head of the channel.
LEMMA GapsPuts ==
  ASSUME FifoInv, LeakAtMostOneBurst, GapsInv, Lcores = {TheLcore}, Next,
         DrainPut \/ SyncPut \/ MainPut
  PROVE  GapsInv'
<1>0. TypeInv /\ TheLcore \in Lcores
  BY DEF FifoInv
<1>1. PICK e \in Nat : Expects(e) /\ Debt(e) <= Allowed
  BY DEF GapsInv
<1>2. /\ Channel \in Seq(Nat) /\ next \in Nat
      /\ mis \in Nat /\ lost \in Nat /\ Cardinality(Jumps(e, Wire)) \in Nat
      /\ IsFiniteSet(Jumps(e, Wire))
  BY <1>0, GapsTypes
<1>3. /\ UNCHANGED <<next, lost, tmp, packetSeq, mis>> /\ dpc' # dpc /\ cur # None
      /\ dpc \in {"drainPut", "syncPut", "put"} /\ dpc' \in {"drain", "main", "sync", "account"}
      /\ \E to : Put(to)
  BY <1>0 DEF DrainPut, SyncPut, MainPut, Put, TypeInv, TypeOK
<1>4. /\ Channel # <<>> /\ Head(Channel) = mem[cur] /\ Channel' = Tail(Channel)
      /\ Leaked' = Leaked
  <2>1. ASSUME Lose PROVE FALSE
    BY <1>3, <2>1 DEF Lose, dobVars
  <2>2. ~UNCHANGED dobVars
    BY <1>3 DEF dobVars
  <2>3. QED
    BY <1>3, <2>1, <2>2, ChannelSteps
<1>5. PICK h \in Nat : h = Head(Channel) /\ h = mem[cur]
  BY <1>2, <1>4, HeadTailProperties
<1>6. Wire' = Append(Tail(Channel), next) /\ Allowed' = Allowed
  BY <1>3, <1>4 DEF Wire, Allowed
<1>7. /\ Jumps(h + 1, Wire') \subseteq Jumps(e, Wire) \ {h}
      /\ h # e => h \in Jumps(e, Wire)
      /\ Rising(Wire')
  <2>1. Rising(Append(Channel, next))
    BY DEF GapsInv, Wire
  <2>2. /\ Jumps(Head(Channel) + 1, Append(Tail(Channel), next))
             \subseteq Jumps(e, Append(Channel, next)) \ {Head(Channel)}
        /\ Head(Channel) # e => Head(Channel) \in Jumps(e, Append(Channel, next))
        /\ Rising(Append(Tail(Channel), next))
    BY <1>2, <1>4, <2>1, JumpsTake
  <2>3. QED
    BY <1>5, <1>6, <2>2 DEF Wire
<1>8. PICK c \in Nat : c = Cardinality(Jumps(e, Wire))
  BY <1>2
<1>9. PICK f \in Nat : f = Cardinality(Jumps(h + 1, Wire')) /\ f <= c
                       /\ (h # e => f + 1 <= c)
  <2>1. IsFiniteSet(Jumps(e, Wire) \ {h})
    BY <1>2, FS_Subset
  <2>2. /\ IsFiniteSet(Jumps(h + 1, Wire'))
        /\ Cardinality(Jumps(h + 1, Wire')) <= Cardinality(Jumps(e, Wire) \ {h})
        /\ Cardinality(Jumps(h + 1, Wire')) \in Nat
        /\ Cardinality(Jumps(e, Wire) \ {h}) \in Nat
    BY <1>7, <2>1, FS_Subset, FS_CardinalityType
  <2>3. CASE h \in Jumps(e, Wire)
    <3>1. Cardinality(Jumps(e, Wire) \ {h}) = c - 1
      BY <1>2, <1>8, <2>3, FS_RemoveElement
    <3>2. QED
      BY <2>2, <3>1
  <2>4. CASE h \notin Jumps(e, Wire)
    <3>1. Jumps(e, Wire) \ {h} = Jumps(e, Wire) /\ h = e
      BY <1>7, <2>4
    <3>2. QED
      BY <1>8, <2>2, <3>1
  <2>5. QED
    BY <2>3, <2>4
<1>10. PICK l : l = Allowed /\ l = Allowed' /\ mis + c <= l
  <2>1. dpc # "account"
    BY <1>3
  <2>2. Debt(e) = (mis + c) + 0
    BY <1>8, <2>1 DEF Debt
  <2>3. QED
    BY <1>1, <1>2, <1>6, <1>8, <2>2
<1>11. l \in Int
  <2>1. CASE Leaked = {}
    BY <1>2, <1>10, <2>1 DEF Allowed
  <2>2. CASE Leaked # {}
    BY <1>2, <1>10, <2>2 DEF Allowed
  <2>3. QED
    BY <2>1, <2>2
<1>12. Expects(h + 1)' /\ (dpc' \in {"drain", "drainPut", "sync", "syncPut"} => packetSeq' = 0)
  <2>1. CASE DrainPut
    BY <2>1 DEF DrainPut, Put, Expects, GapsInv
  <2>2. CASE SyncPut
    <3>1. packetSeq' = 0
      BY <2>2, <1>3 DEF SyncPut, GapsInv
    <3>2. CASE LastOfFrame(mem[cur])
      <4>1. ((h % PackNum) + 1) % PackNum = (h + 1) % PackNum
        <5>1. PackNum \in Nat \ {0} /\ h \in Int
          BY SizesAssumption
        <5>2. QED
          BY <5>1, ModSteps, Zenon
      <4>2. h % PackNum = PackNum - 1
        BY <1>5, <3>2 DEF LastOfFrame, PacketSeq
      <4>3. PackNum % PackNum = 0 /\ (PackNum - 1) + 1 = PackNum
        BY SizesAssumption
      <4>4. PacketSeq(h + 1) = 0
        BY <4>1, <4>2, <4>3 DEF PacketSeq
      <4>5. dpc' = "main"
        BY <2>2, <3>2 DEF SyncPut, Put
      <4>6. QED
        BY <3>1, <4>4, <4>5 DEF Expects, PacketSeq
    <3>3. CASE ~LastOfFrame(mem[cur])
      <4>1. dpc' = "sync"
        BY <2>2, <3>3 DEF SyncPut, Put
      <4>2. QED
        BY <3>1, <4>1 DEF Expects
    <3>4. QED
      BY <3>2, <3>3
  <2>3. CASE MainPut
    <3>1. dpc' = "account" /\ tmp' = tmp /\ tmp = mem[cur]
      BY <2>3 DEF MainPut, Put, GapsInv
    <3>2. QED
      BY <1>5, <3>1 DEF Expects
  <2>4. QED
    BY <2>1, <2>2, <2>3
<1>13. Debt(h + 1)' <= Allowed'
  <2>0. Cardinality(Jumps(h + 1, Wire))' = f
    BY <1>9
  <2>1. CASE dpc' = "account" /\ Mismatch(tmp)'
    <3>1. dpc = "put"
      BY <1>3, <2>1 DEF DrainPut, SyncPut, MainPut, Put
    <3>2. tmp = h /\ packetSeq = PacketSeq(e) /\ packetSeq # PacketSeq(h)
      BY <1>1, <1>3, <1>5, <2>1, <3>1 DEF GapsInv, Expects, Mismatch
    <3>3. h # e
      BY <3>2
    <3>4. Debt(h + 1)' = (mis + f) + 1
      BY <1>3, <2>0, <2>1 DEF Debt
    <3>5. (mis + f) + 1 <= l
      BY <1>2, <1>9, <1>10, <1>11, <3>3
    <3>6. QED
      BY <1>10, <3>4, <3>5
  <2>2. CASE ~(dpc' = "account" /\ Mismatch(tmp)')
    <3>1. Debt(h + 1)' = (mis + f) + 0
      BY <1>3, <2>0, <2>2 DEF Debt
    <3>2. (mis + f) + 0 <= l
      BY <1>2, <1>9, <1>10, <1>11
    <3>3. QED
      BY <1>10, <3>1, <3>2
  <2>3. QED
    BY <2>1, <2>2
<1>14. QED
  <2>1. h + 1 \in Nat /\ dpc' # "put"
    BY <1>3
  <2>2. QED
    BY <1>7, <1>12, <1>13, <2>1 DEF GapsInv

LEMMA NextGaps ==
  FifoInv /\ LeakAtMostOneBurst /\ GapsInv /\ Lcores = {TheLcore} /\ [Next]_vars => GapsInv'
<1> SUFFICES ASSUME FifoInv, LeakAtMostOneBurst, GapsInv, Lcores = {TheLcore}, [Next]_vars
             PROVE  GapsInv'
  OBVIOUS
<1>1. CASE UNCHANGED dobVars
  BY <1>1, GapsOthers
<1>2. CASE ~UNCHANGED dobVars
  <2>1. Next
    BY <1>2 DEF vars
  <2>2. DobStep
    BY <1>2, <2>1 DEF Next, Lose, AssemInit, LcoreStep, RxBurst, RxTwice, GetBulk,
      GetBulkPanic, CopyIn, EnqueueBulk
  <2>3. QED
    BY <2>1, <2>2, GapsReads, GapsPuts DEF DobStep
<1>3. QED
  BY <1>1, <1>2

LEMMA InitGaps == Init /\ Lcores = {TheLcore} => GapsInv
<1> SUFFICES ASSUME Init, Lcores = {TheLcore} PROVE GapsInv
  OBVIOUS
<1>1. InHand = <<>> /\ Contents(ring) = <<>> /\ Burst = <<>>
  BY DEF Init, InHand, Contents, Burst
<1>2. (<<>> \o <<>>) \o <<>> = <<>>
  OBVIOUS
<1>3. Wire = <<0>>
  <2>1. Channel = <<>>
    BY <1>1, <1>2 DEF Channel
  <2>2. next = 0
    BY DEF Init
  <2>3. Append(<<>>, 0) = <<0>>
    OBVIOUS
  <2>4. QED
    BY <2>1, <2>2, <2>3 DEF Wire
<1>4. Len(<<0>>) = 1 /\ <<0>>[1] = 0
  OBVIOUS
<1>5. Rising(Wire)
  <2>1. \A i, j \in 1..1 : ~(i < j)
    OBVIOUS
  <2>2. QED
    BY <1>3, <1>4, <2>1 DEF Rising
<1>6. Jumps(0, Wire) = {}
  BY <1>3, <1>4, JumpsAre DEF Due
<1>7. Cardinality(Jumps(0, Wire)) = 0
  BY <1>6, FS_EmptySet
<1>8. Leaked = {} /\ lost = 0 /\ mis = 0 /\ dpc = "drain" /\ packetSeq = 0
  BY DEF Init, Leaked
<1>9. Debt(0) <= Allowed
  BY <1>7, <1>8 DEF Debt, Allowed
<1>10. Expects(0)
  BY <1>8 DEF Expects
<1>11. QED
  BY <1>5, <1>8, <1>9, <1>10 DEF GapsInv

\* With one lcore, DOB counts no more mismatches than the network lost
\* packets, and one for the burst that may have been given up.
THEOREM MismatchesAreGaps == Cardinality(Lcores) = 1 => (Spec => []MisCountsGaps)
<1> SUFFICES ASSUME Cardinality(Lcores) = 1 PROVE Spec => []MisCountsGaps
  OBVIOUS
<1>0. Lcores = {TheLcore}
  BY OneLcore
<1>1. Init => FifoInv /\ GapsInv
  BY <1>0, InitFifo, InitGaps
<1>2. FifoInv /\ LeakAtMostOneBurst /\ GapsInv /\ [Next]_vars => FifoInv' /\ GapsInv'
  BY <1>0, NextFifo, NextGaps
<1>3. FifoInv /\ GapsInv => MisCountsGaps
  <2> SUFFICES ASSUME FifoInv, GapsInv PROVE MisCountsGaps
    OBVIOUS
  <2>1. TypeInv /\ TheLcore \in Lcores
    BY <1>0 DEF FifoInv
  <2>2. PICK e \in Nat : Debt(e) <= Allowed
    BY DEF GapsInv
  <2>3. mis \in Nat /\ lost \in Nat /\ Cardinality(Jumps(e, Wire)) \in Nat
    BY <2>1, GapsTypes
  <2>4. PICK c \in Nat : c = Cardinality(Jumps(e, Wire))
    BY <2>3
  <2>5. PICK l \in Nat : l = Allowed
    <3>1. CASE Leaked = {}
      BY <2>3, <3>1 DEF Allowed
    <3>2. CASE Leaked # {}
      BY <2>3, <3>2 DEF Allowed
    <3>3. QED
      BY <3>1, <3>2
  <2>6. PICK a \in {0, 1} : a = IF dpc = "account" /\ Mismatch(tmp) THEN 1 ELSE 0
    OBVIOUS
  <2>7. (mis + c) + a <= l
    BY <2>2, <2>4, <2>5, <2>6 DEF Debt
  <2>8. mis <= l
    BY <2>3, <2>7
  <2>9. QED
    BY <2>5, <2>8 DEF MisCountsGaps, Allowed
<1>4. QED
  BY <1>1, <1>2, <1>3, LeakBounded, PTL DEF Spec
=============================================================================
