---------------------------- MODULE ProducerTable ---------------------------
(***************************************************************************)
(* get_or_add_implicit_producer (concurrentqueue.h:3374-3524): the hash    *)
(* tables in which a thread that enqueues without a token finds its        *)
(* producer, composed with the list of producers.                          *)
(*                                                                         *)
(* A table that fills up is followed by a larger one, under a lock that no *)
(* thread waits for; its entries stay where they are, and a thread copies  *)
(* its own over when it needs it next.  Threads go on with the table they  *)
(* loaded, which may have been replaced since.  A table maps threads to    *)
(* producers: linear probing finds a thread, or its free slot, as long as  *)
(* one slot is free (RoomInTables) and because none is ever emptied.       *)
(***************************************************************************)
EXTENDS ProducerList, Sequences

CONSTANTS
  InitialSize,    \* INITIAL_IMPLICIT_PRODUCER_HASH_SIZE
  Capacities      \* what doubling it makes of it, as often as is needed

ASSUME CapacitiesAssumption ==
  /\ InitialSize \in Capacities /\ Capacities \subseteq Nat \ {0}
  /\ \A c \in Capacities : c = InitialSize \/ \E b \in Capacities : c = 2 * b
  /\ \E c \in Capacities : c \div 2 > Cardinality(Threads)

VARIABLES
  tables,                   \* all ImplicitProducerHashes, the current one last
  implicitProducerHashCount,
  resizeInProgress,
  mainHash,                 \* threads: the table each works with ...
  newCount                  \* ... and the count it got

table == <<tables, implicitProducerHashCount, resizeInProgress>>
locals == <<mainHash, newCount>>
vars == <<listVars, table, locals>>

Empty(capacity) == [capacity |-> capacity, value |-> [t \in Threads |-> Null]]

Init ==
  /\ InitList
  /\ tables = << Empty(InitialSize) >>
  /\ implicitProducerHashCount = 0 /\ resizeInProgress = FALSE
  /\ mainHash = [t \in Threads |-> 1]
  /\ newCount = [t \in Threads |-> 0]

implicitProducerHash == Len(tables)

Main(t) == tables[mainHash[t]]

UseTable(t, h) == mainHash' = [mainHash EXCEPT ![t] = h]

HavingCurrent(t) == \* slip: looks in the current table only
  {h \in {implicitProducerHash} : tables[h].value[t] # Null}

\* The tables, from the current one back, that have thread t.
Having(t) == {h \in DOMAIN tables : tables[h].value[t] # Null}

Put(t, p) == tables' = [tables EXCEPT ![mainHash[t]].value[t] = p]

GetOrAdd(t) ==
  /\ calls > 0
  /\ calls' = calls - 1
  /\ UseTable(t, implicitProducerHash)
  /\ \/ /\ Having(t) = {}
        /\ Goto(t, "idle", "countSlot")
        /\ mine' = [mine EXCEPT ![t] = Null]
     \/ \E h \in Having(t) :
          /\ \A older \in Having(t) : older <= h
          /\ Goto(t, "idle", IF h = implicitProducerHash THEN "enqueue" ELSE "copy")
          /\ mine' = [mine EXCEPT ![t] = tables[h].value[t]]
  /\ UNCHANGED <<list, queues, failures, at, consumers, table, newCount>>

\* Into the table it began with, which may not be the current one any more.
Copy(t) ==
  /\ Goto(t, "copy", "enqueue")
  /\ Put(t, mine[t])
  /\ UNCHANGED <<list, queues, bounds, mine, at, consumers,
                 implicitProducerHashCount, resizeInProgress, locals>>

CountSlot(t) ==
  /\ Goto(t, "countSlot", "check")
  /\ implicitProducerHashCount' = implicitProducerHashCount + 1
  /\ newCount' = [newCount EXCEPT ![t] = implicitProducerHashCount']
  /\ UNCHANGED <<list, queues, bounds, mine, at, consumers, tables,
                 resizeInProgress, mainHash>>

HalfFull(t, capacity) == newCount[t] >= capacity \div 2

\* At half its size the table should grow, unless another thread sees to it.
\* Whoever has the lock loads the table again, which no one else replaces now.
Check(t) ==
  /\ pc[t] = "check"
  /\ IF HalfFull(t, Main(t).capacity) /\ ~resizeInProgress
     THEN /\ resizeInProgress' = TRUE
          /\ UseTable(t, implicitProducerHash)
          /\ Goto(t, "check",
                  IF HalfFull(t, tables[implicitProducerHash].capacity)
                  THEN "malloc" ELSE "unlock")
     ELSE Goto(t, "check", "room") /\ UNCHANGED <<resizeInProgress, mainHash>>
  /\ UNCHANGED <<list, queues, bounds, mine, at, consumers, tables,
                 implicitProducerHashCount, newCount>>

\* Twice the size, as often as it takes.
NewCapacity(t) ==
  Min({c \in Capacities : c > Main(t).capacity /\ ~HalfFull(t, c)})

Grow(t) ==
  /\ Goto(t, "malloc", "unlock")
  /\ tables' = Append(tables, Empty(NewCapacity(t)))
  /\ UseTable(t, Len(tables'))
  /\ UNCHANGED <<list, queues, bounds, mine, at, consumers,
                 implicitProducerHashCount, resizeInProgress, newCount>>

GrowFails(t) ==
  /\ Goto(t, "malloc", "giveUp")
  /\ failures > 0
  /\ failures' = failures - 1
  /\ implicitProducerHashCount' = implicitProducerHashCount - 1
  /\ UNCHANGED <<list, queues, mine, at, calls, consumers, tables,
                 resizeInProgress, locals>>

UnlockNot(t) == \* slip: a failure leaves the lock behind
  /\ \/ Goto(t, "unlock", "room") /\ resizeInProgress' = FALSE
     \/ Goto(t, "giveUp", "idle") /\ UNCHANGED resizeInProgress
  /\ UNCHANGED <<list, queues, bounds, mine, at, consumers, tables,
                 implicitProducerHashCount, locals>>

Unlock(t) ==
  /\ \/ Goto(t, "unlock", "room")
     \/ Goto(t, "giveUp", "idle")
  /\ resizeInProgress' = FALSE
  /\ UNCHANGED <<list, queues, bounds, mine, at, consumers, tables,
                 implicitProducerHashCount, locals>>

NotFull(t, capacity) == \* slip: up to the last slot
  newCount[t] <= capacity

\* Below three quarters the old table will do.
NotTooFull(t, capacity) == newCount[t] < capacity \div 2 + capacity \div 4

Room(t) ==
  /\ pc[t] = "room"
  /\ IF NotTooFull(t, Main(t).capacity)
     THEN Goto(t, "room", "create") /\ UNCHANGED mainHash
     ELSE Goto(t, "room", "check") /\ UseTable(t, implicitProducerHash)
  /\ UNCHANGED <<list, queues, bounds, mine, at, consumers, table, newCount>>

\* No memory for a producer.
Failed(t) ==
  /\ Goto(t, "failed", "idle")
  /\ implicitProducerHashCount' = implicitProducerHashCount - 1
  /\ UNCHANGED <<list, queues, bounds, mine, at, consumers, tables,
                 resizeInProgress, locals>>

Insert(t) ==
  /\ Goto(t, "got", "enqueue")
  /\ Put(t, mine[t])
  /\ newCount' = [newCount EXCEPT ![t] = 0]
  /\ UNCHANGED <<list, queues, bounds, mine, at, consumers,
                 implicitProducerHashCount, resizeInProgress, mainHash>>

\* What a thread does once it has called enqueue.
Finish(t) ==
  \/ Copy(t) \/ CountSlot(t) \/ Check(t) \/ Grow(t) \/ GrowFails(t)
  \/ Unlock(t) \/ Room(t) \/ Failed(t) \/ Insert(t)
  \/ (CreateAndAdd(t) \/ Enqueue(t)) /\ UNCHANGED <<table, locals>>

Next ==
  \/ \E t \in Threads : GetOrAdd(t) \/ Finish(t)
  \/ /\ \/ \E k \in Tokens : TokenStep(k)
        \/ \E c \in Consumers : ConsumerStep(c)
     /\ UNCHANGED <<table, locals>>

Spec == Init /\ [][Next]_vars

\* A thread in a call keeps running.
FairSpec == Spec /\ \A t \in Threads : WF_vars(Finish(t))
-----------------------------------------------------------------------------
(* Properties *)

\* Shape of every variable that is not local to an actor.
TypeOK ==
  /\ producerListTail \in 0..created /\ producerCount \in 0..created
  /\ next \in [Producers -> 0..created]
  /\ isExplicit \in [Producers -> BOOLEAN]
  /\ inactive \in [Producers -> BOOLEAN]
  /\ \A p \in Producers : inactive[p] => isExplicit[p]
  /\ tailIndex \in [Producers -> Nat]
  /\ \A p \in Producers : headIndex[p] \in 0..tailIndex[p]
  /\ implicitProducerHashCount \in 0..Cardinality(Threads)
  /\ resizeInProgress \in BOOLEAN

\* The comments the probing loops rely on (concurrentqueue.h:3398, 3405): every
\* table keeps a free slot, whoever still inserts into it or copies to it.
RoomInTables ==
  \A h \in DOMAIN tables :
    Cardinality({t \in Threads : tables[h].value[t] # Null})
      < tables[h].capacity

\* A thread enqueues into one producer only, for ever: whatever table it looks
\* into, it never gets a second one, which would reorder its elements.
ProducersOf(t) == {tables[h].value[t] : h \in DOMAIN tables} \ {Null}

OneProducer == \A t \in Threads : Cardinality(ProducersOf(t)) <= 1

Holding == {a \in Actors : pc[a] \in {"got", "holds", "enqueue"}}

\* Two threads never enqueue into the same producer, whose queue has room for
\* one producing thread: one hands it on only when it is through with it.
Exclusive ==
  /\ \A a, b \in Holding : a # b => mine[a] # mine[b]
  /\ \A a \in Holding : ~inactive[mine[a]]

\* Producers reachable from p.
Reach(p) ==
  LET far[i \in 0..MaxProducers] == IF i = 0 THEN {p}
        ELSE {next[q] : q \in far[i - 1] \ {Null}} \cup far[i - 1]
  IN  far[MaxProducers] \ {Null}

\* Every producer that anybody uses is on the list, where consumers find it.
AllListed ==
  \A p \in 1..created :
    p \notin {mine[a] : a \in {b \in Actors : pc[b] \in {"count", "push"}}}
      => p \in Reach(producerListTail)

\* The list is sound, and so are the variables.
ListSound == TypeOK /\ AllListed

\* The count of used slots, by which tables grow, is that of the threads in a
\* table and those about to be: what failed is taken back.
Counting(t) ==
  pc[t] \in {"check", "malloc", "unlock", "room", "create", "count", "push",
             "got", "failed"}
SlotsCounted ==
  implicitProducerHashCount =
    Cardinality({t \in Threads : ProducersOf(t) # {} \/ Counting(t)})

\* The tables are sound: they keep room because what they hold is counted.
TablesSound == RoomInTables /\ SlotsCounted

\* A call that got less than it asked for.
ShortReturn(c) ==
  cpc[c] # "idle" /\ cpc'[c] = "idle" /\ headIndex' = headIndex

\* A dequeue that returns short of what it asked for leaves no element behind
\* that was there when it was called ("they appeared empty at the time they
\* were checked", concurrentqueue.h:1100), whatever producers come, are handed
\* on or change places in the rotation, but in producers where it lost a claim
\* to a consumer that was dequeuing there at the same time.
MissesOnlyLost ==
  [][\A c \in Consumers : ShortReturn(c) =>
       \A p \in Producers \ loc[c].lost : headIndex[p] >= loc[c].seen[p]]_vars

\* Threads that wait for another one to grow the table do not wait for ever:
\* the calls, as many as the bound allows, come to their end.
CallsEnd == <>[](\A t \in Threads : pc[t] \in {"idle", "absent"})
=============================================================================
