------------------------ MODULE ProducerTableProofs -------------------------
(***************************************************************************)
(* Proofs about the producers of a ConcurrentQueue: whoever enqueues, with *)
(* or without a token, has a producer of its own, for any number of        *)
(* threads, tokens and consumers, tables of any sizes and any bounds.      *)
(*                                                                         *)
(* The invariant says more than that: a producer belongs to whoever has it *)
(* in hand or finds it in any of the tables, the ones that are not current *)
(* included; an inactive one belongs to nobody.                            *)
(***************************************************************************)
EXTENDS ProducerTable, DataFacts

\* What table h says about thread t.
Entry(h, t) == tables[h].value[t]

Tables(capacities) ==
  Seq([capacity : capacities, value : [Threads -> Producers \cup {Null}]])

Types ==
  /\ created \in 0..MaxProducers
  /\ producerListTail \in Producers \cup {Null}
  /\ next \in [Producers -> Producers \cup {Null}]
  /\ inactive \in [Producers -> BOOLEAN]
  /\ pc = [a \in Actors |-> pc[a]]
  /\ mine \in [Actors -> 0..created]
  /\ at \in [Actors -> Producers \cup {Null}]
  /\ \A a \in Actors : pc[a] = "catch" => at[a] # Null
  /\ mainHash \in [Threads -> DOMAIN tables]
  /\ tables # <<>> /\ \E capacities : tables \in Tables(capacities)

\* Steps at which an actor has a producer in hand ...
Equipped(a) == pc[a] \in {"count", "push", "got", "holds", "enqueue", "copy"}

\* ... and those at which a thread is in no table.
New(t) == pc[t] \in {"countSlot", "check", "malloc", "unlock", "giveUp", "room",
                     "create", "count", "push", "got", "failed"}

Owners ==
  /\ \A a \in Actors : Equipped(a) => mine[a] # Null
  /\ \A a, b \in Actors : a # b => mine[a] = Null \/ mine[a] # mine[b]
  /\ \A a \in Actors : mine[a] # Null => ~inactive[mine[a]]
  /\ \A p \in Producers : inactive[p] => p <= created

Entries ==
  \A h \in DOMAIN tables, t \in Threads :
    /\ Entry(h, t) \in 0..created
    /\ New(t) => Entry(h, t) = Null
    /\ Entry(h, t) # Null =>
         /\ ~inactive[Entry(h, t)]
         /\ \A a \in Actors : a # t => mine[a] # Entry(h, t)
         /\ \A g \in DOMAIN tables, u \in Threads :
              u # t => Entry(g, u) # Entry(h, t)
         /\ \A g \in DOMAIN tables :
              Entry(g, t) # Null => Entry(g, t) = Entry(h, t)
         /\ pc[t] = "copy" => mine[t] = Entry(h, t)

IInv == Types /\ Owners /\ Entries

LEMMA InitInv == Init => IInv
<1> SUFFICES ASSUME Init PROVE IInv
  OBVIOUS
<1>1. PICK who :
        pc = [a \in Actors |-> IF a \in who THEN "idle" ELSE "absent"]
  BY DEF Init, InitList
<1>2. /\ pc = [a \in Actors |-> pc[a]]
      /\ \A a \in Actors : pc[a] \in {"idle", "absent"}
  BY <1>1
<1>3. /\ created = 0 /\ producerListTail = 0
      /\ next = [p \in Producers |-> 0]
      /\ inactive = [p \in Producers |-> FALSE]
      /\ mine = [a \in Actors |-> 0] /\ at = [a \in Actors |-> 0]
      /\ mainHash = [t \in Threads |-> 1]
      /\ tables = << Empty(InitialSize) >>
  BY DEF Init, InitList, Null
<1>4. /\ DOMAIN tables = {1} /\ tables # <<>>
      /\ \A h \in DOMAIN tables, t \in Threads : Entry(h, t) = Null
      /\ tables \in Tables({InitialSize})
  BY <1>3 DEF Entry, Empty, Tables, Null
<1>5. Types
  <2>1. \E capacities : tables \in Tables(capacities)
    BY <1>4
  <2>2. QED
    BY <1>2, <1>3, <1>4, <2>1, ActorsAssumption DEF Types, Null, Producers
<1>6. Owners
  BY <1>2, <1>3 DEF Owners, Equipped, Null
<1>7. Entries
  BY <1>3, <1>4 DEF Entries, Null
<1>8. QED
  BY <1>5, <1>6, <1>7 DEF IInv

\* Steps that neither give a producer to anyone nor take one.
SameOwners == UNCHANGED <<created, producerListTail, next, inactive, mine, tables>>

LEMMA PlainStep ==
  ASSUME IInv, SameOwners, NEW a \in Actors, NEW to,
         pc' = [pc EXCEPT ![a] = to],
         at' \in [Actors -> Producers \cup {Null}],
         \A b \in Actors : b # a => at'[b] = at[b],
         to = "catch" => at'[a] # Null,
         mainHash' \in [Threads -> DOMAIN tables],
         Equipped(a)' => mine[a] # Null,
         a \in Threads /\ New(a)' => \A h \in DOMAIN tables : Entry(h, a) = Null,
         to # "copy"
  PROVE  IInv'
<1> USE DEF IInv, SameOwners
<1>1. Types'
  BY DEF Types
<1>2. Owners'
  <2>1. \A b \in Actors : Equipped(b)' => mine[b] # Null
    BY DEF Owners, Equipped, Types
  <2>2. QED
    BY <2>1 DEF Owners
<1>3. Entries'
  <2>1. \A t \in Threads : New(t)' => \A h \in DOMAIN tables : Entry(h, t) = Null
    BY DEF Entries, New, Types, Actors
  <2>2. \A t \in Threads : pc'[t] = "copy" => pc[t] = "copy"
    BY DEF Types, Actors
  <2>3. QED
    BY <2>1, <2>2 DEF Entries, Entry
<1>4. QED
  BY <1>1, <1>2, <1>3

\* Steps with mainHash as it was, which lead anywhere but to "copy".
LEMMA PlainSteps ==
  ASSUME IInv, NEW a \in Actors,
         \/ CreateFails(a) \/ CountProducer(a) \/ Enqueue(a)
         \/ a \in Tokens /\ (Scan(a) \/ Construct(a) \/ Constructed(a) \/ UseToken(a)),
         UNCHANGED <<tables, mainHash>>
  PROVE  IInv'
<1> USE DEF Goto, See, list, bounds, queues, actors, SameOwners
<1>1. mainHash' \in [Threads -> DOMAIN tables]
  BY DEF IInv, Types
<1>2. a \in Threads /\ New(a) => \A h \in DOMAIN tables : Entry(h, a) = Null
  BY DEF IInv, Entries
<1>3. /\ at \in [Actors -> Producers \cup {Null}]
      /\ producerListTail \in Producers \cup {Null}
      /\ next \in [Producers -> Producers \cup {Null}]
      /\ pc = [b \in Actors |-> pc[b]]
  BY DEF IInv, Types
<1>4. Equipped(a) => mine[a] # Null
  BY DEF IInv, Owners
<1>5. CASE CreateFails(a)
  <2>1. pc' = [pc EXCEPT ![a] = "failed"] /\ pc[a] = "create" /\ SameOwners /\ at' = at
    BY <1>5 DEF CreateFails
  <2>2. New(a) /\ ~Equipped(a)'
    BY <1>3, <2>1 DEF New, Equipped
  <2>3. QED
    BY <1>1, <1>2, <1>3, <2>1, <2>2, PlainStep
<1>6. CASE CountProducer(a)
  <2>1. /\ pc' = [pc EXCEPT ![a] = "push"] /\ pc[a] = "count" /\ SameOwners
        /\ at' = [at EXCEPT ![a] = producerListTail]
    BY <1>6 DEF CountProducer
  <2>2. New(a) /\ Equipped(a)
    BY <2>1 DEF New, Equipped
  <2>3. /\ at' \in [Actors -> Producers \cup {Null}]
        /\ \A b \in Actors : b # a => at'[b] = at[b]
    BY <1>3, <2>1
  <2>4. QED
    BY <1>1, <1>2, <1>4, <2>1, <2>2, <2>3, PlainStep
<1>7. CASE Enqueue(a)
  <2>1. /\ SameOwners /\ at' = at /\ pc[a] = "enqueue"
        /\ pc' = [pc EXCEPT ![a] = IF a \in Tokens THEN "holds" ELSE "idle"]
    BY <1>7 DEF Enqueue
  <2> DEFINE to == IF a \in Tokens THEN "holds" ELSE "idle"
  <2>2. Equipped(a) /\ to # "catch" /\ to # "copy" /\ ~New(a)'
    BY <1>3, <2>1 DEF New, Equipped
  <2>3. pc' = [pc EXCEPT ![a] = to]
    BY <2>1
  <2> HIDE DEF to
  <2>4. QED
    BY <1>1, <1>3, <1>4, <2>1, <2>2, <2>3, PlainStep
<1>8. CASE a \in Tokens /\ (Scan(a) \/ Construct(a) \/ Constructed(a) \/ UseToken(a))
  <2>1. a \notin Threads
    BY <1>8, ActorsAssumption
  <2>2. CASE Scan(a)
    <3>1. SameOwners
      BY <2>2 DEF Scan
    <3>2. PICK to : /\ pc' = [pc EXCEPT ![a] = to]
                    /\ to \in {"create", "catch", "scan"}
                    /\ \/ at' = at /\ (to = "catch" => at[a] # Null)
                       \/ /\ to = "scan" /\ at[a] # Null
                          /\ at' = [at EXCEPT ![a] = next[at[a]]]
      <4>1. CASE at[a] = Null
        BY <2>2, <4>1 DEF Scan
      <4>2. CASE at[a] # Null /\ inactive[at[a]] /\ isExplicit[at[a]]
        BY <2>2, <4>2 DEF Scan
      <4>3. CASE at[a] # Null /\ ~(inactive[at[a]] /\ isExplicit[at[a]])
        <5>1. pc[a] = "scan" /\ pc' = pc /\ at' = [at EXCEPT ![a] = next[at[a]]]
          BY <2>2, <4>3 DEF Scan
        <5>2. pc' = [pc EXCEPT ![a] = "scan"]
          BY <1>3, <5>1
        <5>3. QED
          BY <4>3, <5>1, <5>2
      <4>4. QED
        BY <4>1, <4>2, <4>3
    <3>3. /\ at' \in [Actors -> Producers \cup {Null}]
          /\ \A b \in Actors : b # a => at'[b] = at[b]
          /\ to = "catch" => at'[a] # Null
      BY <1>3, <3>2
    <3>4. ~Equipped(a)' /\ to # "copy"
      BY <1>3, <3>2 DEF Equipped
    <3>5. QED
      BY <1>1, <2>1, <3>1, <3>2, <3>3, <3>4, PlainStep
  <2>3. CASE Construct(a)
    <3>1. /\ SameOwners /\ pc' = [pc EXCEPT ![a] = "scan"]
          /\ at' = [at EXCEPT ![a] = producerListTail]
      BY <2>3 DEF Construct
    <3>2. /\ at' \in [Actors -> Producers \cup {Null}] /\ ~Equipped(a)'
          /\ \A b \in Actors : b # a => at'[b] = at[b]
      BY <1>3, <3>1 DEF Equipped
    <3>3. QED
      BY <1>1, <2>1, <3>1, <3>2, PlainStep
  <2>4. CASE Constructed(a) \/ UseToken(a)
    <3>1. /\ SameOwners /\ at' = at
          /\ \/ pc[a] = "got" /\ pc' = [pc EXCEPT ![a] = "holds"]
             \/ pc[a] = "failed" /\ pc' = [pc EXCEPT ![a] = "idle"]
             \/ pc[a] = "holds" /\ pc' = [pc EXCEPT ![a] = "enqueue"]
      BY <2>4 DEF Constructed, UseToken
    <3>2. Equipped(a)' => Equipped(a)
      BY <1>3, <3>1 DEF Equipped
    <3>3. PICK to : pc' = [pc EXCEPT ![a] = to] /\ to # "catch" /\ to # "copy"
      BY <3>1
    <3>4. QED
      BY <1>1, <1>3, <1>4, <2>1, <3>1, <3>2, <3>3, PlainStep
  <2>5. QED
    BY <1>8, <2>2, <2>3, <2>4
<1>9. QED
  BY <1>5, <1>6, <1>7, <1>8

\* Steps of a thread that has no producer yet, towards a table with room.
LEMMA TableSteps ==
  ASSUME IInv, NEW t \in Threads,
         CountSlot(t) \/ Check(t) \/ GrowFails(t) \/ Unlock(t) \/ Room(t) \/ Failed(t)
  PROVE  IInv'
<1>1. SameOwners /\ at' = at
  BY DEF CountSlot, Check, GrowFails, Unlock, Room, Failed, SameOwners, list, bounds,
    table, locals
<1>2. /\ New(t) /\ pc = [b \in Actors |-> pc[b]] /\ t \in Actors
      /\ at \in [Actors -> Producers \cup {Null}]
      /\ mainHash \in [Threads -> DOMAIN tables] /\ Len(tables) \in DOMAIN tables
  <2>1. New(t)
    BY DEF CountSlot, Check, GrowFails, Unlock, Room, Failed, New, Goto
  <2>2. Len(tables) \in DOMAIN tables
    <3>1. PICK capacities : tables \in Tables(capacities) /\ tables # <<>>
      BY DEF IInv, Types
    <3>2. QED
      BY <3>1 DEF Tables
  <2>3. QED
    BY <2>1, <2>2 DEF IInv, Types, Actors
<1>3. PICK to : /\ pc' = [pc EXCEPT ![t] = to]
                /\ to \in {"check", "room", "malloc", "unlock", "giveUp", "idle",
                           "create"}
  BY DEF CountSlot, Check, GrowFails, Unlock, Room, Failed, Goto
<1>4. mainHash' \in [Threads -> DOMAIN tables]
  <2>1. mainHash' = mainHash \/ mainHash' = [mainHash EXCEPT ![t] = Len(tables)]
    BY DEF CountSlot, Check, GrowFails, Unlock, Room, Failed, locals, UseTable,
      implicitProducerHash
  <2>2. QED
    BY <1>2, <2>1
<1>5. ~Equipped(t)' /\ \A h \in DOMAIN tables : Entry(h, t) = Null
  BY <1>2, <1>3 DEF Equipped, IInv, Entries
<1>6. QED
  BY <1>1, <1>2, <1>3, <1>4, <1>5, PlainStep

\* A token takes over a producer that belonged to nobody.
LEMMA CatchInv == ASSUME IInv, NEW a \in Tokens, Catch(a), UNCHANGED <<table, locals>>
                  PROVE  IInv'
<1> USE DEF Goto, See, table, locals, queues, bounds
<1>0. /\ a \in Actors /\ a \notin Threads /\ pc[a] = "catch" /\ at[a] \in Producers
      /\ pc = [b \in Actors |-> pc[b]]
  BY ActorsAssumption DEF Catch, IInv, Types, Actors, Null, Producers
<1>1. CASE inactive[at[a]]
  <2>1. /\ pc' = [pc EXCEPT ![a] = "got"] /\ mine' = [mine EXCEPT ![a] = at[a]]
        /\ at' = [at EXCEPT ![a] = Null]
        /\ inactive' = [inactive EXCEPT ![at[a]] = FALSE]
        /\ UNCHANGED <<producerListTail, next, created, tables, mainHash>>
    BY <1>1 DEF Catch
  <2>2. at[a] \in 1..created /\ created \in Nat /\ at[a] # Null
    BY <1>0, <1>1, ActorsAssumption DEF IInv, Types, Owners, Producers, Null
  <2>3. /\ \A b \in Actors : mine[b] # at[a]
        /\ \A h \in DOMAIN tables, t \in Threads : Entry(h, t) # at[a]
    BY <1>1, <2>2 DEF IInv, Owners, Entries
  <2>4. Types'
    <3>1. mine' \in [Actors -> 0..created'] /\ inactive' \in [Producers -> BOOLEAN]
      BY <1>0, <2>1, <2>2 DEF IInv, Types
    <3>2. /\ at' \in [Actors -> Producers \cup {Null}]
          /\ \A b \in Actors : pc'[b] = "catch" => at'[b] # Null
      BY <1>0, <2>1 DEF IInv, Types
    <3>3. QED
      BY <1>0, <2>1, <3>1, <3>2 DEF IInv, Types
  <2>5. Owners'
    BY <1>0, <2>1, <2>2, <2>3 DEF IInv, Types, Owners, Equipped, Null
  <2>6. Entries'
    <3>1. /\ \A t \in Threads : pc'[t] = pc[t] /\ t \in Actors
          /\ \A b \in Actors : mine'[b] = mine[b] \/ (b = a /\ mine'[b] = at[a])
          /\ \A p \in Producers : inactive'[p] => inactive[p]
      <4>1. \A p \in Producers : inactive'[p] => inactive[p]
        BY <1>0, <2>1 DEF IInv, Types
      <4>2. \A t \in Threads : pc'[t] = pc[t] /\ t \in Actors
        BY <1>0, <2>1 DEF Actors
      <4>3. \A b \in Actors : mine'[b] = mine[b] \/ (b = a /\ mine'[b] = at[a])
        BY <1>0, <2>1 DEF IInv, Types
      <4>4. QED
        BY <4>1, <4>2, <4>3
    <3>2. \A t \in Threads : New(t)' <=> New(t)
      BY <3>1 DEF New
    <3>3. \A h \in DOMAIN tables, t \in Threads :
            Entry(h, t) # Null => Entry(h, t) \in Producers
      <4>1. created \in 0..MaxProducers
        BY DEF IInv, Types
      <4>2. \A h \in DOMAIN tables, t \in Threads : Entry(h, t) \in 0..created
        BY DEF IInv, Entries
      <4>3. QED
        BY <4>1, <4>2, ActorsAssumption DEF Producers, Null
    <3>4. \A t \in Threads : mine'[t] = mine[t]
      BY <1>0, <3>1
    <3>5. \A h \in DOMAIN tables, t \in Threads, b \in Actors :
            Entry(h, t) # Null /\ b # t => mine'[b] # Entry(h, t)
      BY <2>3, <3>1 DEF IInv, Entries
    <3>6. \A h \in DOMAIN tables, t \in Threads :
            Entry(h, t) # Null => ~inactive'[Entry(h, t)]
      BY <3>1, <3>3 DEF IInv, Entries
    <3>7. \A h \in DOMAIN tables, t \in Threads : Entry(h, t)' = Entry(h, t)
      BY <2>1 DEF Entry
    <3>8. QED
      BY <2>1, <3>1, <3>2, <3>4, <3>5, <3>6, <3>7 DEF IInv, Entries
  <2>7. QED
    BY <2>4, <2>5, <2>6 DEF IInv
<1>2. CASE ~inactive[at[a]]
  <2>1. /\ pc' = [pc EXCEPT ![a] = "scan"] /\ at' = [at EXCEPT ![a] = next[at[a]]]
        /\ SameOwners /\ mainHash' = mainHash
    BY <1>2 DEF Catch, SameOwners
  <2>2. /\ at' \in [Actors -> Producers \cup {Null}] /\ ~Equipped(a)'
        /\ \A b \in Actors : b # a => at'[b] = at[b]
        /\ mainHash' \in [Threads -> DOMAIN tables]
    BY <1>0, <2>1 DEF IInv, Types, Equipped
  <2>3. QED
    BY <1>0, <2>1, <2>2, PlainStep
<1>3. QED
  BY <1>1, <1>2

\* A new producer is nobody else's.
LEMMA CreateInv == ASSUME IInv, NEW a \in Actors, Create(a), UNCHANGED <<table, locals>>
                   PROVE  IInv'
<1> USE DEF Goto, table, locals, queues, bounds
<1>1. /\ pc[a] = "create" /\ pc' = [pc EXCEPT ![a] = "count"]
      /\ created' = created + 1 /\ mine' = [mine EXCEPT ![a] = created']
      /\ created \in Nat /\ created + 1 \in 1..MaxProducers
      /\ UNCHANGED <<producerListTail, next, inactive, at, tables, mainHash>>
      /\ pc = [b \in Actors |-> pc[b]]
  BY ActorsAssumption DEF Create, IInv, Types
<1>2. /\ \A b \in Actors : mine[b] # created + 1 /\ mine[b] \in 0..created
      /\ \A h \in DOMAIN tables, t \in Threads :
           Entry(h, t) # created + 1 /\ Entry(h, t) \in 0..created
      /\ ~inactive[created + 1]
  <2>1. \A b \in Actors : mine[b] # created + 1 /\ mine[b] \in 0..created
    BY <1>1 DEF IInv, Types
  <2>2. \A h \in DOMAIN tables, t \in Threads :
           Entry(h, t) # created + 1 /\ Entry(h, t) \in 0..created
    <3>1. \A h \in DOMAIN tables, t \in Threads : Entry(h, t) \in 0..created
      BY DEF IInv, Entries
    <3>2. QED
      BY <1>1, <3>1
  <2>3. ~inactive[created + 1]
    BY <1>1 DEF IInv, Owners, Producers
  <2>4. QED
    BY <2>1, <2>2, <2>3
<1>3. Types'
  <2>1. mine' \in [Actors -> 0..created']
    BY <1>1, <1>2 DEF IInv, Types
  <2>2. /\ created' \in 0..MaxProducers /\ pc' = [b \in Actors |-> pc'[b]]
        /\ \A b \in Actors : pc'[b] = "catch" => at'[b] # Null
    <3>1. created' \in 0..MaxProducers
      BY <1>1, ActorsAssumption
    <3>2. pc' = [b \in Actors |-> pc'[b]] /\ at' = at
      BY <1>1
    <3>3. \A b \in Actors : pc'[b] = "catch" => pc[b] = "catch"
      BY <1>1
    <3>4. QED
      BY <3>1, <3>2, <3>3 DEF IInv, Types
  <2>3. QED
    BY <1>1, <2>1, <2>2 DEF IInv, Types
<1>4. Owners'
  <2>1. /\ mine'[a] = created + 1 /\ created + 1 # Null
        /\ \A b \in Actors : b # a => mine'[b] = mine[b] /\ pc'[b] = pc[b]
    BY <1>1 DEF IInv, Types, Null
  <2>2. \A b \in Actors : Equipped(b)' => mine'[b] # Null
    BY <2>1 DEF IInv, Owners, Equipped
  <2>3. \A p \in Producers : inactive'[p] => p <= created'
    BY <1>1 DEF IInv, Owners, Producers
  <2>4. QED
    BY <1>1, <1>2, <2>1, <2>2, <2>3 DEF IInv, Owners
<1>5. Entries'
  <2>1. \A t \in Threads : New(t)' => New(t)
    BY <1>1 DEF New, Actors
  <2>2. \A t \in Threads : pc'[t] = "copy" => pc[t] = "copy" /\ t # a
    BY <1>1 DEF Actors
  <2>3. QED
    BY <1>1, <1>2, <2>1, <2>2 DEF IInv, Types, Entries, Entry, Actors
<1>6. QED
  BY <1>3, <1>4, <1>5 DEF IInv

LEMMA PushInv == ASSUME IInv, NEW a \in Actors, Push(a), UNCHANGED <<table, locals>>
                 PROVE  IInv'
<1> USE DEF Goto, See, table, locals, queues, bounds
<1>0. /\ pc[a] = "push" /\ pc = [b \in Actors |-> pc[b]] /\ mine[a] \in Producers
      /\ New(a) /\ Equipped(a)
  BY ActorsAssumption
    DEF Push, IInv, Types, Owners, New, Equipped, Producers, Null
<1>1. CASE producerListTail = at[a]
  <2>1. /\ pc' = [pc EXCEPT ![a] = "got"]
        /\ next' = [next EXCEPT ![mine[a]] = at[a]]
        /\ producerListTail' = mine[a] /\ at' = [at EXCEPT ![a] = Null]
        /\ UNCHANGED <<inactive, created, mine, tables, mainHash>>
    BY <1>1 DEF Push
  <2>2. Types'
    BY <1>0, <2>1 DEF IInv, Types
  <2>3. Owners'
    BY <1>0, <2>1 DEF IInv, Types, Owners, Equipped
  <2>4. Entries'
    <3>1. \A t \in Threads : (New(t)' => New(t)) /\ (pc'[t] = "copy" => pc[t] = "copy")
      BY <1>0, <2>1 DEF New, Actors
    <3>2. QED
      BY <2>1, <3>1 DEF IInv, Entries, Entry
  <2>5. QED
    BY <2>2, <2>3, <2>4 DEF IInv
<1>2. CASE producerListTail # at[a]
  <2>1. /\ pc' = [pc EXCEPT ![a] = "push"]
        /\ at' = [at EXCEPT ![a] = producerListTail]
        /\ SameOwners /\ mainHash' = mainHash
    BY <1>0, <1>2 DEF Push, SameOwners
  <2>2. /\ at' \in [Actors -> Producers \cup {Null}]
        /\ \A b \in Actors : b # a => at'[b] = at[b]
        /\ mainHash' \in [Threads -> DOMAIN tables] /\ mine[a] # Null
        /\ a \in Threads => \A h \in DOMAIN tables : Entry(h, a) = Null
    BY <1>0, <2>1 DEF IInv, Types, Owners, Entries
  <2>3. QED
    BY <2>1, <2>2, PlainStep
<1>3. QED
  BY <1>1, <1>2

\* The producer a token leaves behind belongs to nobody.
LEMMA DestructInv ==
  ASSUME IInv, NEW k \in Tokens, Destruct(k), UNCHANGED <<table, locals>>
  PROVE  IInv'
<1> USE DEF Goto, table, locals, queues, bounds
<1>1. /\ k \in Actors /\ k \notin Threads /\ pc[k] = "holds"
      /\ pc' = [pc EXCEPT ![k] = "idle"] /\ mine' = [mine EXCEPT ![k] = Null]
      /\ inactive' = [inactive EXCEPT ![mine[k]] = TRUE]
      /\ UNCHANGED <<producerListTail, next, created, at, tables, mainHash>>
      /\ pc = [b \in Actors |-> pc[b]]
  BY ActorsAssumption DEF Destruct, IInv, Types, Actors
<1>2. mine[k] \in Producers /\ mine[k] \in 1..created /\ created \in Nat /\ mine[k] # Null
  BY <1>1, ActorsAssumption DEF IInv, Types, Owners, Equipped, Producers, Null
<1>3. /\ \A b \in Actors : b # k => mine[b] # mine[k]
      /\ \A h \in DOMAIN tables, t \in Threads : Entry(h, t) # mine[k]
  BY <1>1, <1>2 DEF IInv, Owners, Entries
<1>4. Types'
  <2>1. mine' \in [Actors -> 0..created'] /\ inactive' \in [Producers -> BOOLEAN]
    BY <1>1, <1>2 DEF IInv, Types, Null
  <2>2. QED
    BY <1>1, <2>1 DEF IInv, Types
<1>5. Owners'
  BY <1>1, <1>2, <1>3 DEF IInv, Types, Owners, Equipped, Null
<1>6. Entries'
  BY <1>1, <1>2, <1>3 DEF IInv, Types, Entries, Entry, New, Null, Actors
<1>7. QED
  BY <1>4, <1>5, <1>6 DEF IInv

\* A thread finds its own producer or, in no table, none.
LEMMA GetOrAddInv == ASSUME IInv, NEW t \in Threads, GetOrAdd(t) PROVE IInv'
<1> USE DEF Goto, list, table
<1>0. /\ t \in Actors /\ pc[t] = "idle" /\ pc = [b \in Actors |-> pc[b]]
      /\ UNCHANGED <<producerListTail, next, inactive, created, at, tables>>
      /\ mainHash' = [mainHash EXCEPT ![t] = Len(tables)]
  BY DEF GetOrAdd, Actors, IInv, Types, UseTable, implicitProducerHash
<1>1. PICK to, p : /\ pc' = [pc EXCEPT ![t] = to] /\ mine' = [mine EXCEPT ![t] = p]
                   /\ \/ /\ to = "countSlot" /\ p = Null
                         /\ \A h \in DOMAIN tables : Entry(h, t) = Null
                      \/ /\ to \in {"enqueue", "copy"} /\ p # Null
                         /\ \E h \in DOMAIN tables : p = Entry(h, t)
  <2>1. CASE Having(t) = {}
    BY <2>1 DEF GetOrAdd, Having, Entry
  <2>2. CASE Having(t) # {}
    <3>1. PICK h \in Having(t) :
            /\ pc' = [pc EXCEPT ![t] =
                        IF h = implicitProducerHash THEN "enqueue" ELSE "copy"]
            /\ mine' = [mine EXCEPT ![t] = tables[h].value[t]]
      BY <2>2 DEF GetOrAdd
    <3>2. h \in DOMAIN tables /\ Entry(h, t) # Null
      BY <3>1 DEF Having, Entry
    <3>3. QED
      BY <3>1, <3>2 DEF Entry
  <2>3. QED
    BY <2>1, <2>2
<1>2. /\ p \in 0..created
      /\ p # Null => /\ ~inactive[p] /\ \A b \in Actors : b # t => mine[b] # p
                     /\ \A g \in DOMAIN tables : Entry(g, t) # Null => Entry(g, t) = p
                     /\ \A g \in DOMAIN tables, u \in Threads :
                          u # t => Entry(g, u) # p
  <2>1. created \in Nat
    BY ActorsAssumption DEF IInv, Types
  <2>2. QED
    BY <1>1, <2>1 DEF IInv, Entries, Null
<1>3. Types'
  <2>1. Len(tables) \in DOMAIN tables
    BY DEF IInv, Types, Tables
  <2>2. QED
    BY <1>0, <1>1, <1>2, <2>1 DEF IInv, Types
<1>4. Owners'
  BY <1>0, <1>1, <1>2 DEF IInv, Types, Owners, Equipped, Null
<1>5. Entries'
  <2>1. \A u \in Threads : u # t => (New(u)' <=> New(u)) /\ pc'[u] = pc[u]
    BY <1>0, <1>1 DEF New, Actors
  <2>2. New(t)' => \A h \in DOMAIN tables : Entry(h, t) = Null
    BY <1>0, <1>1 DEF New
  <2>3. mine'[t] = p /\ \A b \in Actors : b # t => mine'[b] = mine[b]
    BY <1>0, <1>1 DEF IInv, Types
  <2>4. QED
    <3>1. SUFFICES ASSUME NEW h \in DOMAIN tables, NEW u \in Threads
                   PROVE  /\ Entry(h, u) \in 0..created
                          /\ New(u)' => Entry(h, u) = Null
                          /\ Entry(h, u) # Null =>
                               /\ ~inactive[Entry(h, u)]
                               /\ \A a \in Actors : a # u => mine'[a] # Entry(h, u)
                               /\ \A g \in DOMAIN tables, v \in Threads :
                                    v # u => Entry(g, v) # Entry(h, u)
                               /\ \A g \in DOMAIN tables :
                                    Entry(g, u) # Null => Entry(g, u) = Entry(h, u)
                               /\ pc'[u] = "copy" => mine'[u] = Entry(h, u)
      BY <1>0 DEF Entries, Entry
    <3>2. CASE u = t
      BY <1>2, <2>2, <2>3, <3>2, <1>1 DEF IInv, Entries, Null
    <3>3. CASE u # t
      <4>1. /\ pc'[u] = pc[u] /\ mine'[u] = mine[u] /\ (New(u)' <=> New(u))
            /\ u \in Actors
        BY <2>1, <2>3, <3>3 DEF Actors
      <4>2. Entry(h, u) # Null => mine'[t] # Entry(h, u)
        BY <1>2, <2>3, <3>3
      <4>3. QED
        BY <2>3, <3>3, <4>1, <4>2 DEF IInv, Entries
    <3>4. QED
      BY <3>2, <3>3
<1>6. QED
  BY <1>3, <1>4, <1>5 DEF IInv

LEMMA Member ==
  ASSUME NEW S, NEW s \in Seq(S)
  PROVE  /\ Len(s) \in Nat /\ DOMAIN s = 1..Len(s)
         /\ s = [i \in 1..Len(s) |-> s[i]]
         /\ \A i \in 1..Len(s) : s[i] \in S
  OBVIOUS

LEMMA PutFacts ==
  ASSUME Types, NEW t \in Threads, Put(t, mine[t]), mine[t] \in Producers
  PROVE  /\ DOMAIN tables' = DOMAIN tables /\ tables' # <<>>
         /\ \E capacities : tables' \in Tables(capacities)
         /\ \A h \in DOMAIN tables, u \in Threads :
              \/ Entry(h, u)' = Entry(h, u)
              \/ u = t /\ Entry(h, u)' = mine[t]
<1> DEFINE m == mainHash[t]
           e == [tables[m] EXCEPT !.value[t] = mine[t]]
<1>1. PICK capacities : tables \in Tables(capacities) /\ tables # <<>>
  BY DEF Types
<1>2. m \in DOMAIN tables /\ tables' = [tables EXCEPT ![m] = e]
  BY DEF Put, Types
<1>3. tables[m] \in [capacity : capacities, value : [Threads -> Producers \cup {Null}]]
  <2> DEFINE X == [capacity : capacities, value : [Threads -> Producers \cup {Null}]]
  <2>1. tables \in Seq(X) /\ m \in DOMAIN tables
    BY <1>1, <1>2 DEF Tables
  <2> HIDE DEF X
  <2>2. tables[m] \in X
    BY <2>1
  <2>3. QED
    BY <2>2 DEF X
<1>4. /\ e \in [capacity : capacities, value : [Threads -> Producers \cup {Null}]]
      /\ \A u \in Threads : e.value[u] = IF u = t THEN mine[t] ELSE tables[m].value[u]
  BY <1>3
<1> HIDE DEF e, m
<1>5. tables' \in Tables(capacities) /\ DOMAIN tables' = DOMAIN tables
  BY <1>1, <1>2, <1>4 DEF Tables
<1>6. \A h \in DOMAIN tables : tables'[h] = IF h = m THEN e ELSE tables[h]
  BY <1>1, <1>2 DEF Tables
<1>7. tables' # <<>>
  BY <1>1, <1>5 DEF Tables
<1>8. QED
  BY <1>4, <1>5, <1>6, <1>7 DEF Entry

\* The producer a thread puts into a table is its own.
LEMMA PutInv == ASSUME IInv, NEW t \in Threads, Copy(t) \/ Insert(t) PROVE IInv'
<1>0. /\ t \in Actors /\ pc[t] \in {"copy", "got"}
      /\ pc = [b \in Actors |-> pc[b]] /\ pc' = [pc EXCEPT ![t] = "enqueue"]
      /\ UNCHANGED <<created, producerListTail, next, inactive, mine, at, mainHash>>
      /\ Put(t, mine[t])
  BY DEF Copy, Insert, Goto, list, bounds, locals, Actors, IInv, Types
<1>1. mine[t] \in Producers /\ mine[t] \in 0..created /\ mine[t] # Null
  BY <1>0, ActorsAssumption DEF IInv, Types, Owners, Equipped, Producers, Null
<1>2. /\ DOMAIN tables' = DOMAIN tables /\ tables' # <<>>
      /\ \E capacities : tables' \in Tables(capacities)
      /\ \A h \in DOMAIN tables, u \in Threads :
           \/ Entry(h, u)' = Entry(h, u)
           \/ u = t /\ Entry(h, u)' = mine[t]
  BY <1>0, <1>1, PutFacts DEF IInv
<1>3. Types'
  BY <1>0, <1>2 DEF IInv, Types
<1>4. Owners'
  BY <1>0, <1>1 DEF IInv, Types, Owners, Equipped
<1>5. \A h \in DOMAIN tables : Entry(h, t) \in {Null, mine[t]}
  BY <1>0 DEF IInv, Entries, New
<1>6. /\ \A a \in Actors : a # t => mine[a] # mine[t]
      /\ \A h \in DOMAIN tables, u \in Threads : u # t => Entry(h, u) # mine[t]
      /\ ~inactive[mine[t]]
  BY <1>0, <1>1 DEF IInv, Owners, Entries
<1>7. Entries'
  <2>1. /\ ~New(t)' /\ pc'[t] # "copy"
        /\ \A u \in Threads : u # t => (New(u)' <=> New(u)) /\ pc'[u] = pc[u]
    BY <1>0 DEF New, Actors
  <2>2. SUFFICES ASSUME NEW h \in DOMAIN tables, NEW u \in Threads
        PROVE  /\ Entry(h, u)' \in 0..created
               /\ New(u)' => Entry(h, u)' = Null
               /\ Entry(h, u)' # Null =>
                    /\ ~inactive[Entry(h, u)']
                    /\ \A a \in Actors : a # u => mine[a] # Entry(h, u)'
                    /\ \A g \in DOMAIN tables, v \in Threads :
                         v # u => Entry(g, v)' # Entry(h, u)'
                    /\ \A g \in DOMAIN tables :
                         Entry(g, u)' # Null => Entry(g, u)' = Entry(h, u)'
                    /\ pc'[u] = "copy" => mine[u] = Entry(h, u)'
    BY <1>0, <1>2 DEF Entries
  <2>3. CASE u = t
    <3>1. \A g \in DOMAIN tables : Entry(g, t)' \in {Null, mine[t]}
      BY <1>2, <1>5
    <3>2. Null \in 0..created
      BY ActorsAssumption DEF IInv, Types, Null
    <3>3. \A g \in DOMAIN tables, v \in Threads : v # t => Entry(g, v)' # mine[t]
      BY <1>2, <1>6
    <3>4. QED
      BY <1>1, <1>6, <2>1, <2>3, <3>1, <3>2, <3>3
  <2>4. CASE u # t
    <3>1. \A g \in DOMAIN tables, v \in Threads : v # t => Entry(g, v)' = Entry(g, v)
      BY <1>2
    <3>2. \A g \in DOMAIN tables : Entry(h, u) # Null => Entry(g, t)' # Entry(h, u)
      BY <1>2, <1>6, <2>4 DEF IInv, Entries
    <3>3. \A g \in DOMAIN tables, v \in Threads :
            v # u /\ Entry(h, u) # Null => Entry(g, v)' # Entry(h, u)
      BY <2>4, <3>1, <3>2 DEF IInv, Entries
    <3>4. Entry(h, u)' = Entry(h, u)
      BY <2>4, <3>1
    <3>5. QED
      BY <2>1, <2>4, <3>1, <3>3, <3>4 DEF IInv, Entries
  <2>5. QED
    BY <2>3, <2>4
<1>8. QED
  BY <1>3, <1>4, <1>7 DEF IInv

\* A new table says nothing about anybody.
LEMMA GrowInv == ASSUME IInv, NEW t \in Threads, Grow(t) PROVE IInv'
<1>0. /\ t \in Actors /\ pc[t] = "malloc" /\ pc = [b \in Actors |-> pc[b]]
      /\ pc' = [pc EXCEPT ![t] = "unlock"]
      /\ UNCHANGED <<created, producerListTail, next, inactive, mine, at>>
      /\ tables' = Append(tables, Empty(NewCapacity(t)))
      /\ mainHash' = [mainHash EXCEPT ![t] = Len(tables')]
  BY DEF Grow, Goto, UseTable, list, bounds, Actors, IInv, Types
<1> DEFINE e == Empty(NewCapacity(t))
<1>1. PICK capacities : tables \in Tables(capacities) /\ tables # <<>>
  BY DEF IInv, Types
<1> DEFINE S == [capacity : capacities \cup {NewCapacity(t)},
                 value : [Threads -> Producers \cup {Null}]]
<1>2. e \in S /\ \A u \in Threads : e.value[u] = Null
  BY DEF Empty
<1>3. tables \in Seq(S)
  <2>1. [capacity : capacities, value : [Threads -> Producers \cup {Null}]] \subseteq S
    OBVIOUS
  <2>2. /\ tables = [i \in 1..Len(tables) |-> tables[i]] /\ Len(tables) \in Nat
        /\ \A i \in 1..Len(tables) : tables[i] \in
             [capacity : capacities, value : [Threads -> Producers \cup {Null}]]
    BY <1>1, Member DEF Tables
  <2>3. \A i \in 1..Len(tables) : tables[i] \in S
    BY <2>1, <2>2
  <2> HIDE DEF S
  <2>4. QED
    BY <2>2, <2>3
<1> HIDE DEF S, e
<1>4. /\ tables' \in Seq(S) /\ tables' # <<>> /\ Len(tables') = Len(tables) + 1
      /\ DOMAIN tables = 1..Len(tables) /\ DOMAIN tables' = 1..(Len(tables) + 1)
      /\ Len(tables) \in Nat
      /\ \A h \in DOMAIN tables' :
           tables'[h] = IF h = Len(tables) + 1 THEN e ELSE tables[h]
  BY <1>0, <1>2, <1>3 DEF e
<1>5. /\ \A h \in DOMAIN tables : h \in DOMAIN tables'
      /\ \A h \in DOMAIN tables', u \in Threads :
           \/ Entry(h, u)' = Null
           \/ h \in DOMAIN tables /\ Entry(h, u)' = Entry(h, u)
  BY <1>2, <1>4 DEF Entry
<1>6. Types'
  <2>1. \E c : tables' \in Tables(c)
    BY <1>4 DEF S, Tables
  <2>2. mainHash' \in [Threads -> DOMAIN tables']
    BY <1>0, <1>4 DEF IInv, Types
  <2>3. QED
    BY <1>0, <1>4, <2>1, <2>2 DEF IInv, Types
<1>7. Owners'
  BY <1>0 DEF IInv, Types, Owners, Equipped
<1>8. Entries'
  <2>1. \A u \in Threads : (New(u)' => New(u)) /\ (pc'[u] = "copy" => pc[u] = "copy")
    BY <1>0 DEF New, Actors
  <2>2. Null \in 0..created
    BY ActorsAssumption DEF IInv, Types, Null
  <2>3. SUFFICES ASSUME NEW h \in DOMAIN tables', NEW u \in Threads
        PROVE  /\ Entry(h, u)' \in 0..created
               /\ New(u)' => Entry(h, u)' = Null
               /\ Entry(h, u)' # Null =>
                    /\ ~inactive[Entry(h, u)']
                    /\ \A a \in Actors : a # u => mine[a] # Entry(h, u)'
                    /\ \A g \in DOMAIN tables', v \in Threads :
                         v # u => Entry(g, v)' # Entry(h, u)'
                    /\ \A g \in DOMAIN tables' :
                         Entry(g, u)' # Null => Entry(g, u)' = Entry(h, u)'
                    /\ pc'[u] = "copy" => mine[u] = Entry(h, u)'
    <3>1. UNCHANGED <<created, inactive, mine>>
      BY <1>0
    <3>2. QED
      BY <3>1 DEF Entries
  <2>4. CASE Entry(h, u)' = Null
    BY <2>2, <2>4
  <2>5. CASE Entry(h, u)' # Null
    <3>1. h \in DOMAIN tables /\ Entry(h, u)' = Entry(h, u)
      BY <1>5, <2>5
    <3>2. \A g \in DOMAIN tables', v \in Threads :
            v # u => Entry(g, v)' # Entry(h, u)
      BY <1>5, <2>5, <3>1 DEF IInv, Entries
    <3>3. \A g \in DOMAIN tables' :
            Entry(g, u)' # Null => Entry(g, u)' = Entry(h, u)
      BY <1>5, <2>5, <3>1 DEF IInv, Entries
    <3>4. QED
      BY <2>1, <2>5, <3>1, <3>2, <3>3 DEF IInv, Entries
  <2>6. QED
    BY <2>4, <2>5
<1>9. QED
  BY <1>6, <1>7, <1>8 DEF IInv

watched == <<created, producerListTail, next, inactive, pc, mine, at, mainHash, tables>>

LEMMA Unwatched == IInv /\ UNCHANGED watched => IInv'
<1> SUFFICES ASSUME IInv, UNCHANGED watched PROVE IInv'
  OBVIOUS
<1>1. Types'
  BY DEF watched, IInv, Types
<1>2. Owners'
  BY DEF watched, IInv, Owners, Equipped
<1>3. Entries'
  BY DEF watched, IInv, Entries, Entry, New
<1>4. QED
  BY <1>1, <1>2, <1>3 DEF IInv

LEMMA NextInv == IInv /\ [Next]_vars => IInv'
<1> SUFFICES ASSUME IInv, [Next]_vars PROVE IInv'
  OBVIOUS
<1>1. ASSUME NEW t \in Threads, GetOrAdd(t) \/ Finish(t) PROVE IInv'
  <2>1. t \in Actors
    BY DEF Actors
  <2>2. CASE GetOrAdd(t)
    BY <2>2, GetOrAddInv
  <2>3. CASE Copy(t) \/ Insert(t)
    BY <2>3, PutInv
  <2>4. CASE Grow(t)
    BY <2>4, GrowInv
  <2>5. CASE \/ CountSlot(t) \/ Check(t) \/ GrowFails(t) \/ Unlock(t)
             \/ Room(t) \/ Failed(t)
    BY <2>5, TableSteps
  <2>6. CASE (CreateAndAdd(t) \/ Enqueue(t)) /\ UNCHANGED <<table, locals>>
    BY <2>1, <2>6, CreateInv, PushInv, PlainSteps DEF CreateAndAdd, table, locals
  <2>7. QED
    BY <1>1, <2>2, <2>3, <2>4, <2>5, <2>6 DEF Finish
<1>2. ASSUME NEW k \in Tokens, TokenStep(k), UNCHANGED <<table, locals>> PROVE IInv'
  <2>1. k \in Actors
    BY DEF Actors
  <2>2. CASE Catch(k) \/ Destruct(k)
    BY <1>2, <2>2, CatchInv, DestructInv
  <2>3. CASE Create(k) \/ Push(k)
    BY <1>2, <2>1, <2>3, CreateInv, PushInv
  <2>4. CASE ~(Catch(k) \/ Destruct(k) \/ Create(k) \/ Push(k))
    BY <1>2, <2>1, <2>4, PlainSteps
      DEF TokenStep, RecycleOrCreate, CreateAndAdd, table, locals
  <2>5. QED
    BY <2>2, <2>3, <2>4
<1>3. ASSUME NEW c \in Consumers, ConsumerStep(c), UNCHANGED <<table, locals>>
      PROVE  IInv'
  <2>1. UNCHANGED watched
    BY <1>3 DEF ConsumerStep, TryDequeue, TryDequeueBulk, TryDequeueToken, Score,
      Scored, Best, Others, Rotate, Place, Current, Walk, list, actors, table, locals, watched
  <2>2. QED
    BY <2>1, Unwatched
<1>4. CASE UNCHANGED vars
  <2>1. UNCHANGED watched
    BY <1>4 DEF vars, listVars, list, actors, table, locals, watched
  <2>2. QED
    BY <2>1, Unwatched
<1>5. QED
  BY <1>1, <1>2, <1>3, <1>4 DEF Next

LEMMA InvHolds == Spec => []IInv
<1>1. QED
  BY InitInv, NextInv, PTL DEF Spec

\* No two enqueue into one producer, whose queue has room for one producing
\* thread: a token hands its own on only when it is through with it
\* (concurrentqueue.h:678, 3220).
THEOREM ProducersNotShared == Spec => []Exclusive
<1>1. IInv => Exclusive
  BY DEF IInv, Owners, Exclusive, Holding, Equipped
<1>2. QED
  BY <1>1, InvHolds, PTL

\* A thread finds the same producer in whatever table it looks
\* (concurrentqueue.h:3398-3423).
THEOREM OneProducerEach == Spec => []OneProducer
<1>1. IInv => OneProducer
  <2>1. SUFFICES ASSUME IInv, NEW t \in Threads
                 PROVE  Cardinality(ProducersOf(t)) <= 1
    BY DEF OneProducer
  <2>2. ProducersOf(t) = {Entry(h, t) : h \in DOMAIN tables} \ {Null}
    BY DEF ProducersOf, Entry
  <2>3. CASE ProducersOf(t) = {}
    BY <2>3, FS_EmptySet
  <2>4. CASE ProducersOf(t) # {}
    <3>1. PICK p : ProducersOf(t) = {p}
      BY <2>1, <2>2, <2>4 DEF IInv, Entries
    <3>2. QED
      BY <3>1, FS_Singleton
  <2>5. QED
    BY <2>3, <2>4
<1>2. QED
  BY <1>1, InvHolds, PTL
-----------------------------------------------------------------------------
(* The tables.  A slot is counted before it is used, and a thread adds a    *)
(* producer only with a count that is below its table's share.  So the     *)
(* threads that are or will be in a table with counts of at most m are at  *)
(* most m (Bounded), whoever failed in between and whatever table they     *)
(* began with.                                                             *)

\* What of a table may be used.
Share(capacity) == capacity \div 2 + capacity \div 4

\* Steps of the thread that has the lock, and of one that found room.
Locking == {"malloc", "unlock", "giveUp"}
Adding == {"create", "count", "push", "got"}

\* Thread t is in table h or in one before it, from which it copies.
Present(h, t) == \E g \in 1..h : Entry(g, t) # Null

Places ==
  /\ \A h \in DOMAIN tables : tables[h].capacity \in Capacities
  /\ \A g, h \in DOMAIN tables : g <= h => tables[g].capacity <= tables[h].capacity
  /\ newCount \in [Threads -> 0..Cardinality(Threads)]
  /\ \A t \in Threads : pc[t] \in Locking => resizeInProgress
  /\ \A t, u \in Threads : pc[t] \in Locking /\ pc[u] \in Locking => t = u
  /\ \A t \in Threads : pc[t] = "malloc" =>
       mainHash[t] = Len(tables) /\ HalfFull(t, Main(t).capacity)
  /\ \A t \in Threads : pc[t] \in Adding => newCount[t] < Share(Main(t).capacity)
  /\ \A t \in Threads : pc[t] = "copy" => Present(mainHash[t], t)

Early(h, m) ==
  {t \in Threads : Present(h, t) \/ (Counting(t) /\ newCount[t] <= m)}

Bounded ==
  \A h \in DOMAIN tables, m \in Nat :
    Share(tables[h].capacity) <= m + 1 => Cardinality(Early(h, m)) <= m

TInv == Places /\ SlotsCounted /\ Bounded

\* The threads that the count stands for.
InTables(t) == \E h \in DOMAIN tables : Entry(h, t) # Null
Used == {t \in Threads : InTables(t) \/ Counting(t)}

LEMMA SlotsOfUsed == SlotsCounted <=> implicitProducerHashCount = Cardinality(Used)
<1>1. \A t : ProducersOf(t) # {} <=> InTables(t)
  BY DEF ProducersOf, InTables, Entry
<1>2. {t \in Threads : ProducersOf(t) # {} \/ Counting(t)} = Used
  BY <1>1 DEF Used
<1>3. QED
  BY <1>2 DEF SlotsCounted

LEMMA TableFacts ==
  ASSUME Types
  PROVE  /\ Len(tables) \in Nat \ {0} /\ DOMAIN tables = 1..Len(tables)
         /\ \A h \in DOMAIN tables, t \in Threads : Entry(h, t) \in Producers \cup {Null}
         /\ \A t \in Threads : mainHash[t] \in DOMAIN tables
<1>1. PICK capacities : tables \in Tables(capacities) /\ tables # <<>>
  BY DEF Types
<1> DEFINE S == [capacity : capacities, value : [Threads -> Producers \cup {Null}]]
<1>2. tables \in Seq(S)
  BY <1>1 DEF Tables
<1>3. \A h \in DOMAIN tables : tables[h] \in S
  <2> HIDE DEF S
  <2>1. QED
    BY <1>2
<1>4. \A h \in DOMAIN tables, t \in Threads : Entry(h, t) \in Producers \cup {Null}
  BY <1>3 DEF Entry
<1>5. QED
  BY <1>1, <1>2, <1>4 DEF Types

LEMMA ShareFacts ==
  ASSUME NEW c \in Nat \ {0}
  PROVE  /\ Share(c) \in Nat /\ Share(c) < c
         /\ \A d \in Nat : c <= d => Share(c) <= Share(d) /\ c \div 2 <= d \div 2
BY DEF Share

\* Sets of threads can be counted.
LEMMA SomeThreads ==
  ASSUME NEW S \in SUBSET Threads
  PROVE  /\ IsFiniteSet(S) /\ Cardinality(S) \in Nat
         /\ Cardinality(S) <= Cardinality(Threads) /\ Cardinality(Threads) \in Nat
         /\ \A T \in SUBSET S : Cardinality(T) <= Cardinality(S)
         /\ \A t \in Threads \ S :
              /\ Cardinality(S \cup {t}) = Cardinality(S) + 1
              /\ Cardinality(S) + 1 <= Cardinality(Threads)
         /\ \A t \in S : Cardinality(S \ {t}) = Cardinality(S) - 1
<1>1. IsFiniteSet(Threads)
  BY ActorsAssumption
<1>2. \A T \in SUBSET Threads :
        IsFiniteSet(T) /\ Cardinality(T) \in Nat /\ Cardinality(T) <= Cardinality(Threads)
  BY <1>1, FS_Subset, FS_CardinalityType
<1>3. \A T \in SUBSET S : Cardinality(T) <= Cardinality(S)
  BY <1>2, FS_Subset
<1>4. \A t \in Threads \ S : /\ Cardinality(S \cup {t}) = Cardinality(S) + 1
                             /\ Cardinality(S) + 1 <= Cardinality(Threads)
  <2>1. TAKE t \in Threads \ S
  <2>2. Cardinality(S \cup {t}) = Cardinality(S) + 1
    BY <1>2, FS_AddElement
  <2>3. S \cup {t} \in SUBSET Threads
    OBVIOUS
  <2>4. QED
    BY <1>2, <2>2, <2>3
<1>5. \A t \in S : Cardinality(S \ {t}) = Cardinality(S) - 1
  BY <1>2, FS_RemoveElement
<1>6. QED
  BY <1>1, <1>2, <1>3, <1>4, <1>5, FS_CardinalityType

LEMMA UsedFacts == Used \in SUBSET Threads /\ \A h, m : Early(h, m) \in SUBSET Threads
BY DEF Used, Early

LEMMA InitTables == Init => TInv
<1> SUFFICES ASSUME Init PROVE TInv
  OBVIOUS
<1>1. \A t \in Threads : pc[t] \in {"idle", "absent"}
  BY DEF Init, InitList, Actors
<1>2. /\ tables = << Empty(InitialSize) >> /\ implicitProducerHashCount = 0
      /\ mainHash = [t \in Threads |-> 1] /\ newCount = [t \in Threads |-> 0]
      /\ InitialSize \in Capacities
  BY CapacitiesAssumption DEF Init
<1>3. /\ DOMAIN tables = {1} /\ tables[1].capacity = InitialSize
      /\ \A h \in DOMAIN tables, t \in Threads : Entry(h, t) = Null
  BY <1>2 DEF Entry, Empty
<1>4. \A t \in Threads : ~Counting(t) /\ pc[t] \notin Locking \cup Adding \cup {"malloc", "copy"}
  BY <1>1 DEF Counting, Locking, Adding
<1>5. Places
  <2>1. newCount \in [Threads -> 0..Cardinality(Threads)]
    <3>1. Cardinality(Threads) \in Nat
      BY SomeThreads
    <3>2. QED
      BY <1>2, <3>1
  <2>2. tables[1].capacity <= tables[1].capacity
    BY <1>2, <1>3, CapacitiesAssumption
  <2>3. QED
    BY <1>2, <1>3, <1>4, <2>1, <2>2 DEF Places
<1>6. SlotsCounted
  <2>1. Used = {}
    BY <1>3, <1>4 DEF Used, InTables
  <2>2. QED
    BY <1>2, <2>1, SlotsOfUsed, FS_EmptySet
<1>7. Bounded
  <2>1. SUFFICES ASSUME NEW h \in DOMAIN tables, NEW m \in Nat
                 PROVE  Cardinality(Early(h, m)) <= m
    BY DEF Bounded
  <2>2. Early(h, m) = {}
    BY <1>3, <1>4 DEF Early, Present
  <2>3. QED
    BY <2>2, FS_EmptySet
<1>8. QED
  BY <1>5, <1>6, <1>7 DEF TInv

\* Steps of a thread that leave the tables, or put its producer into one.
LEMMA PlaceStep ==
  ASSUME IInv, Places, NEW t \in Threads, NEW to,
         pc' = [pc EXCEPT ![t] = to],
         Len(tables') = Len(tables), DOMAIN tables' = DOMAIN tables,
         \A h \in DOMAIN tables : tables'[h].capacity = tables[h].capacity,
         \A h \in DOMAIN tables, u \in Threads : Entry(h, u) # Null => Entry(h, u)' # Null,
         newCount' \in [Threads -> 0..Cardinality(Threads)],
         mainHash' \in [Threads -> DOMAIN tables],
         \A u \in Threads \ {t} : newCount'[u] = newCount[u] /\ mainHash'[u] = mainHash[u],
         \/ resizeInProgress' = resizeInProgress /\ (to \in Locking => pc[t] \in Locking)
         \/ ~resizeInProgress /\ resizeInProgress'
         \/ pc[t] \in Locking /\ to \notin Locking,
         to = "malloc" => mainHash'[t] = Len(tables) /\ HalfFull(t, Main(t).capacity)',
         to \in Adding => newCount'[t] < Share(tables[mainHash'[t]].capacity),
         to = "copy" => Present(mainHash'[t], t)
  PROVE  Places'
<1>1. /\ \A u \in Threads : u \in Actors
      /\ pc'[t] = to /\ \A u \in Threads \ {t} : pc'[u] = pc[u]
  BY DEF Actors, IInv, Types
<1>2. \A h \in DOMAIN tables, u \in Threads : Present(h, u) => Present(h, u)'
  <2>1. \A h \in DOMAIN tables : 1..h \subseteq DOMAIN tables
    BY TableFacts DEF IInv
  <2>2. QED
    BY <2>1 DEF Present
<1>3. \A u \in Threads : mainHash'[u] \in DOMAIN tables
  OBVIOUS
<1>4. \A u \in Threads : pc'[u] \in Locking => resizeInProgress'
  <2>1. SUFFICES ASSUME NEW u \in Threads, pc'[u] \in Locking PROVE resizeInProgress'
    OBVIOUS
  <2>2. CASE u = t
    BY <1>1, <2>1, <2>2 DEF Places
  <2>3. CASE u # t
    BY <1>1, <2>1, <2>3 DEF Places
  <2>4. QED
    BY <2>2, <2>3
<1>5. \A u, v \in Threads : pc'[u] \in Locking /\ pc'[v] \in Locking => u = v
  <2>1. \A u \in Threads \ {t} : pc'[u] \in Locking => resizeInProgress /\ pc[u] \in Locking
    BY <1>1 DEF Places
  <2>2. \A u \in Threads \ {t} : pc'[u] \in Locking => ~(to \in Locking)
    BY <1>1, <2>1 DEF Places
  <2>3. QED
    BY <1>1, <2>1, <2>2 DEF Places
<1>6. \A u \in Threads : pc'[u] = "malloc" =>
        mainHash'[u] = Len(tables') /\ HalfFull(u, Main(u).capacity)'
  <2>1. SUFFICES ASSUME NEW u \in Threads \ {t}, pc[u] = "malloc"
                 PROVE  mainHash'[u] = Len(tables') /\ HalfFull(u, Main(u).capacity)'
    BY <1>1
  <2>2. mainHash[u] = Len(tables) /\ HalfFull(u, Main(u).capacity)
    BY <2>1 DEF Places
  <2>3. QED
    BY <1>3, <2>2 DEF HalfFull, Main
<1>7. \A u \in Threads : pc'[u] \in Adding => newCount'[u] < Share(Main(u)'.capacity)
  <2>1. \A u \in Threads : Main(u)'.capacity = tables[mainHash'[u]].capacity
    BY <1>3 DEF Main
  <2>2. \A u \in Threads : pc[u] \in Adding => newCount[u] < Share(tables[mainHash[u]].capacity)
    BY DEF Places, Main
  <2>3. \A u \in Threads : pc'[u] \in Adding =>
          newCount'[u] < Share(tables[mainHash'[u]].capacity)
    <3>1. TAKE u \in Threads
    <3>2. CASE u = t
      BY <1>1, <3>2
    <3>3. CASE u # t
      BY <1>1, <2>2, <3>3
    <3>4. QED
      BY <3>2, <3>3
  <2>4. QED
    BY <2>1, <2>3
<1>8. \A u \in Threads : pc'[u] = "copy" => \E g \in 1..mainHash'[u] : Entry(g, u)' # Null
  <2>1. \A h \in DOMAIN tables, u \in Threads :
          Present(h, u) => \E g \in 1..h : Entry(g, u)' # Null
    BY <1>2 DEF Present
  <2>2. \A u \in Threads : pc'[u] = "copy" => Present(mainHash'[u], u)
    BY <1>1 DEF Places
  <2>3. QED
    BY <1>3, <2>1, <2>2
<1>9. /\ \A h \in DOMAIN tables' : tables'[h].capacity \in Capacities
      /\ \A g, h \in DOMAIN tables' : g <= h => tables'[g].capacity <= tables'[h].capacity
  BY DEF Places
<1>10. QED
  BY <1>4, <1>5, <1>6, <1>7, <1>8, <1>9 DEF Places, Present

\* Steps that leave the tables, the counts and who is counted.
LEMMA SameCounts ==
  ASSUME TInv, tables' = tables, newCount' = newCount,
         implicitProducerHashCount' = implicitProducerHashCount,
         \A u \in Threads : Counting(u)' <=> Counting(u)
  PROVE  SlotsCounted' /\ Bounded'
<1>1. /\ \A u \in Threads : InTables(u)' <=> InTables(u)
      /\ \A h : \A u \in Threads : Present(h, u)' <=> Present(h, u)
  BY DEF InTables, Present, Entry
<1>2. Used' = Used /\ \A h, m : Early(h, m)' = Early(h, m)
  BY <1>1 DEF Used, Early
<1>3. (SlotsCounted <=> implicitProducerHashCount = Cardinality(Used))'
  BY SlotsOfUsed, PTL
<1>4. QED
  BY <1>2, <1>3, SlotsOfUsed DEF TInv, Bounded

\* Without a producer after all, a thread is no longer counted.
LEMMA Uncounted ==
  ASSUME IInv, TInv, NEW t \in Threads, New(t), Counting(t), ~Counting(t)',
         \A u \in Threads \ {t} : Counting(u)' <=> Counting(u),
         tables' = tables, newCount' = newCount,
         implicitProducerHashCount' = implicitProducerHashCount - 1
  PROVE  SlotsCounted' /\ Bounded'
<1>1. /\ \A u \in Threads : InTables(u)' <=> InTables(u)
      /\ \A h : \A u \in Threads : Present(h, u)' <=> Present(h, u)
  BY DEF InTables, Present, Entry
<1>2. ~InTables(t)
  BY DEF InTables, IInv, Entries
<1>3. t \in Used /\ Used' = Used \ {t}
  BY <1>1, <1>2 DEF Used
<1>4. SlotsCounted'
  <2>1. Cardinality(Used \ {t}) = Cardinality(Used) - 1
    BY <1>3, UsedFacts, SomeThreads
  <2>2. (SlotsCounted <=> implicitProducerHashCount = Cardinality(Used))'
    BY SlotsOfUsed, PTL
  <2>3. QED
    BY <1>3, <2>1, <2>2, SlotsOfUsed DEF TInv
<1>5. Bounded'
  <2>1. SUFFICES ASSUME NEW h \in DOMAIN tables, NEW m \in Nat,
                        Share(tables[h].capacity) <= m + 1
                 PROVE  Cardinality(Early(h, m)') <= m
    BY DEF Bounded
  <2>2. Early(h, m)' \subseteq Early(h, m)
    BY <1>1 DEF Early
  <2>3. Cardinality(Early(h, m)) <= m
    BY <2>1 DEF TInv, Bounded
  <2>4. Cardinality(Early(h, m)') <= Cardinality(Early(h, m))
    BY <2>2, UsedFacts, SomeThreads
  <2>5. Cardinality(Early(h, m)) \in Nat /\ Cardinality(Early(h, m)') \in Nat
    <3>1. Early(h, m)' \in SUBSET Threads
      BY <2>2, UsedFacts
    <3>2. QED
      BY <3>1, UsedFacts, SomeThreads
  <2>6. QED
    BY <2>3, <2>4, <2>5
<1>6. QED
  BY <1>4, <1>5

LEMMA CountSlotTables == ASSUME IInv, TInv, NEW t \in Threads, CountSlot(t) PROVE TInv'
<1> DEFINE n == implicitProducerHashCount
<1>1. /\ pc[t] = "countSlot" /\ pc' = [pc EXCEPT ![t] = "check"]
      /\ implicitProducerHashCount' = n + 1 /\ newCount' = [newCount EXCEPT ![t] = n + 1]
      /\ UNCHANGED <<tables, resizeInProgress, mainHash>>
      /\ pc = [b \in Actors |-> pc[b]] /\ t \in Actors
      /\ newCount \in [Threads -> 0..Cardinality(Threads)]
  BY DEF CountSlot, Goto, IInv, Types, Actors, TInv, Places
<1>2. ~InTables(t) /\ ~Counting(t) /\ Counting(t)'
  <2>1. \A h \in DOMAIN tables : Entry(h, t) = Null
    BY <1>1 DEF IInv, Entries, New
  <2>2. QED
    BY <1>1, <2>1 DEF InTables, Counting
<1>3. \A u \in Threads \ {t} : pc'[u] = pc[u] /\ newCount'[u] = newCount[u]
                              /\ (Counting(u)' <=> Counting(u))
  BY <1>1 DEF Actors, Counting
<1>4. /\ \A u \in Threads : InTables(u)' <=> InTables(u)
      /\ \A h : \A u \in Threads : Present(h, u)' <=> Present(h, u)
  BY <1>1 DEF InTables, Present, Entry
<1>5. t \notin Used /\ Used' = Used \cup {t}
  BY <1>2, <1>3, <1>4 DEF Used
<1>6. n = Cardinality(Used) /\ n \in Nat /\ Cardinality(Used \cup {t}) = n + 1
      /\ n + 1 <= Cardinality(Threads) /\ Cardinality(Threads) \in Nat
  <2>1. n = Cardinality(Used)
    BY SlotsOfUsed DEF TInv
  <2>2. QED
    BY <1>5, <2>1, UsedFacts, SomeThreads
<1> HIDE DEF n
<1>7. newCount' \in [Threads -> 0..Cardinality(Threads)] /\ newCount'[t] = n + 1
  <2>1. n + 1 \in 0..Cardinality(Threads)
    BY <1>6
  <2>2. QED
    BY <1>1, <2>1
<1>8. Places'
  <2>1. mainHash' \in [Threads -> DOMAIN tables]
    BY <1>1 DEF IInv, Types
  <2>2. Places
    BY DEF TInv
  <2>3. QED
    BY <1>1, <1>3, <1>7, <2>1, <2>2, PlaceStep DEF Locking, Adding, Entry
<1>9. SlotsCounted'
  <2>1. (SlotsCounted <=> implicitProducerHashCount = Cardinality(Used))'
    BY SlotsOfUsed, PTL
  <2>2. QED
    BY <1>1, <1>5, <1>6, <2>1
<1>10. Bounded'
  <2>1. SUFFICES ASSUME NEW h \in DOMAIN tables, NEW m \in Nat,
                        Share(tables[h].capacity) <= m + 1
                 PROVE  Cardinality(Early(h, m)') <= m
    BY <1>1 DEF Bounded
  <2>2. CASE m < n + 1
    <3>1. Early(h, m)' \subseteq Early(h, m)
      BY <1>3, <1>4, <1>6, <1>7, <2>2 DEF Early
    <3>2. Early(h, m) \subseteq Early(h, m)'
      BY <1>2, <1>3, <1>4, <2>2 DEF Early
    <3>3. Early(h, m)' = Early(h, m)
      BY <3>1, <3>2
    <3>4. QED
      BY <2>1, <3>3 DEF TInv, Bounded
  <2>3. CASE n + 1 <= m
    <3>1. Early(h, m)' \subseteq Used \cup {t}
      <4>1. 1..h \subseteq DOMAIN tables
        BY TableFacts DEF IInv
      <4>2. \A u \in Threads : Present(h, u) => InTables(u)
        BY <4>1 DEF Present, InTables
      <4>3. QED
        BY <1>3, <1>4, <4>2 DEF Early, Used
    <3>2. Used \cup {t} \in SUBSET Threads
      BY UsedFacts
    <3>3. Cardinality(Early(h, m)') <= n + 1 /\ Cardinality(Early(h, m)') \in Nat
      <4>1. Early(h, m)' \in SUBSET Threads
        BY <3>1, <3>2
      <4>2. QED
        BY <1>6, <3>1, <3>2, <4>1, SomeThreads
    <3>4. QED
      BY <1>6, <2>3, <3>3
  <2>4. QED
    BY <1>6, <2>2, <2>3
<1>11. QED
  BY <1>8, <1>9, <1>10 DEF TInv

\* Steps that lead on to a table with room, or give up.
LEMMA WaitTables ==
  ASSUME IInv, TInv, NEW t \in Threads, Check(t) \/ Room(t) \/ Unlock(t)
  PROVE  TInv'
<1>1. /\ pc = [b \in Actors |-> pc[b]] /\ t \in Actors /\ Places
      /\ newCount \in [Threads -> 0..Cardinality(Threads)]
      /\ mainHash \in [Threads -> DOMAIN tables] /\ Len(tables) \in DOMAIN tables
  BY TableFacts DEF IInv, Types, Actors, TInv, Places
<1>2. UNCHANGED <<tables, newCount, implicitProducerHashCount>>
  BY DEF Check, Room, Unlock, table, locals
<1>3. PICK to :
        /\ pc' = [pc EXCEPT ![t] = to]
        /\ mainHash' = mainHash \/ mainHash' = [mainHash EXCEPT ![t] = Len(tables)]
        /\ \/ resizeInProgress' = resizeInProgress /\ (to \in Locking => pc[t] \in Locking)
           \/ ~resizeInProgress /\ resizeInProgress'
           \/ pc[t] \in Locking /\ to \notin Locking
        /\ to = "malloc" => /\ mainHash' = [mainHash EXCEPT ![t] = Len(tables)]
                            /\ HalfFull(t, tables[Len(tables)].capacity)
        /\ to \in Adding => mainHash' = mainHash /\ newCount[t] < Share(Main(t).capacity)
        /\ to # "copy"
        /\ <<pc[t], to>> \in
             {<<"check", "malloc">>, <<"check", "unlock">>, <<"check", "room">>,
              <<"room", "create">>, <<"room", "check">>,
              <<"unlock", "room">>, <<"giveUp", "idle">>}
  <2>1. CASE Check(t) /\ HalfFull(t, Main(t).capacity) /\ ~resizeInProgress
    <3>1. /\ resizeInProgress' = TRUE /\ pc[t] = "check"
          /\ mainHash' = [mainHash EXCEPT ![t] = Len(tables)]
          /\ pc' = [pc EXCEPT ![t] = IF HalfFull(t, tables[Len(tables)].capacity)
                                     THEN "malloc" ELSE "unlock"]
      BY <2>1 DEF Check, Goto, UseTable, implicitProducerHash
    <3>2. CASE HalfFull(t, tables[Len(tables)].capacity)
      BY <2>1, <3>1, <3>2 DEF Adding
    <3>3. CASE ~HalfFull(t, tables[Len(tables)].capacity)
      BY <2>1, <3>1, <3>3 DEF Adding
    <3>4. QED
      BY <3>2, <3>3
  <2>2. CASE Check(t) /\ ~(HalfFull(t, Main(t).capacity) /\ ~resizeInProgress)
    BY <2>2 DEF Check, Goto, Locking, Adding
  <2>3. CASE Room(t) /\ NotTooFull(t, Main(t).capacity)
    BY <2>3 DEF Room, Goto, Locking, NotTooFull, Share, table
  <2>4. CASE Room(t) /\ ~NotTooFull(t, Main(t).capacity)
    BY <2>4 DEF Room, Goto, Locking, Adding, UseTable, implicitProducerHash, table
  <2>5. CASE Unlock(t)
    BY <2>5 DEF Unlock, Goto, Locking, Adding, locals
  <2>6. QED
    BY <2>1, <2>2, <2>3, <2>4, <2>5
<1>4. /\ mainHash' \in [Threads -> DOMAIN tables]
      /\ \A u \in Threads \ {t} : mainHash'[u] = mainHash[u]
  BY <1>1, <1>3
<1>5. to = "malloc" => mainHash'[t] = Len(tables) /\ HalfFull(t, Main(t).capacity)'
  BY <1>1, <1>2, <1>3 DEF HalfFull, Main
<1>6. to \in Adding => newCount'[t] < Share(tables[mainHash'[t]].capacity)
  BY <1>2, <1>3 DEF Main
<1>7. Places'
  <2>1. /\ Len(tables') = Len(tables) /\ DOMAIN tables' = DOMAIN tables
        /\ \A h \in DOMAIN tables : tables'[h].capacity = tables[h].capacity
        /\ \A h \in DOMAIN tables, u \in Threads : Entry(h, u) # Null => Entry(h, u)' # Null
        /\ newCount' \in [Threads -> 0..Cardinality(Threads)]
        /\ \A u \in Threads \ {t} : newCount'[u] = newCount[u] /\ mainHash'[u] = mainHash[u]
    BY <1>1, <1>2, <1>4 DEF Entry
  <2>2. QED
    BY <1>1, <1>3, <1>4, <1>5, <1>6, <2>1, PlaceStep
<1>8. \A u \in Threads : Counting(u)' <=> Counting(u)
  <2>1. Counting(t)' <=> Counting(t)
    BY <1>1, <1>3 DEF Counting
  <2>2. QED
    BY <1>1, <1>3, <2>1 DEF Counting, Actors
<1>9. QED
  BY <1>2, <1>7, <1>8, SameCounts DEF TInv

LEMMA FailTables ==
  ASSUME IInv, TInv, NEW t \in Threads, GrowFails(t) \/ Failed(t) PROVE TInv'
<1>1. /\ pc = [b \in Actors |-> pc[b]] /\ t \in Actors /\ Places
      /\ newCount \in [Threads -> 0..Cardinality(Threads)]
      /\ mainHash \in [Threads -> DOMAIN tables]
  BY DEF IInv, Types, Actors, TInv, Places
<1>2. /\ UNCHANGED <<tables, newCount, mainHash, resizeInProgress>>
      /\ implicitProducerHashCount' = implicitProducerHashCount - 1
      /\ \/ pc[t] = "malloc" /\ pc' = [pc EXCEPT ![t] = "giveUp"]
         \/ pc[t] = "failed" /\ pc' = [pc EXCEPT ![t] = "idle"]
  BY DEF GrowFails, Failed, Goto, locals
<1>3. Places'
  <2>1. PICK to : /\ pc' = [pc EXCEPT ![t] = to] /\ to \in {"giveUp", "idle"}
                  /\ to \in Locking => pc[t] \in Locking
    BY <1>2 DEF Locking
  <2>2. to \notin Adding /\ to # "copy" /\ to # "malloc"
    BY <2>1 DEF Adding
  <2>3. \A h \in DOMAIN tables, u \in Threads : Entry(h, u) # Null => Entry(h, u)' # Null
    BY <1>2 DEF Entry
  <2>4. QED
    BY <1>1, <1>2, <2>1, <2>2, <2>3, PlaceStep
<1>4. /\ New(t) /\ Counting(t) /\ ~Counting(t)'
      /\ \A u \in Threads \ {t} : Counting(u)' <=> Counting(u)
  BY <1>1, <1>2 DEF New, Counting, Actors
<1>5. QED
  BY <1>2, <1>3, <1>4, Uncounted DEF TInv

LEMMA PutPlaces ==
  ASSUME Types, NEW t \in Threads, Put(t, mine[t])
  PROVE  /\ Len(tables') = Len(tables) /\ DOMAIN tables' = DOMAIN tables
         /\ \A h \in DOMAIN tables : tables'[h].capacity = tables[h].capacity
         /\ \A h \in DOMAIN tables, u \in Threads :
              Entry(h, u)' = IF h = mainHash[t] /\ u = t THEN mine[t] ELSE Entry(h, u)
<1> DEFINE S == [capacity : {tables[h].capacity : h \in DOMAIN tables},
                 value : [Threads -> Producers \cup {Null}]]
           m == mainHash[t]
           e == [tables[m] EXCEPT !.value[t] = mine[t]]
<1>1. m \in DOMAIN tables /\ tables' = [tables EXCEPT ![m] = e]
  BY TableFacts DEF Put
<1>2. PICK capacities : tables \in Tables(capacities)
  BY DEF Types
<1> DEFINE X == [capacity : capacities, value : [Threads -> Producers \cup {Null}]]
<1>3. tables \in Seq(X)
  BY <1>2 DEF Tables
<1>4. tables[m] \in X
  <2> HIDE DEF X
  <2>1. QED
    BY <1>1, <1>3
<1>5. /\ e.capacity = tables[m].capacity
      /\ \A u \in Threads : e.value[u] = IF u = t THEN mine[t] ELSE tables[m].value[u]
  BY <1>4
<1> HIDE DEF e, X
<1>6. /\ Len(tables') = Len(tables) /\ DOMAIN tables' = DOMAIN tables
      /\ \A h \in DOMAIN tables : tables'[h] = IF h = m THEN e ELSE tables[h]
  BY <1>1, <1>3
<1>7. QED
  BY <1>5, <1>6 DEF Entry

\* A thread that inserts was counted with less than the table's share, a thread
\* that copies is in an older table.
LEMMA PutTables ==
  ASSUME IInv, TInv, NEW t \in Threads, Copy(t) \/ Insert(t) PROVE TInv'
<1> DEFINE M == mainHash[t]
<1>1. /\ pc = [b \in Actors |-> pc[b]] /\ t \in Actors /\ Places
      /\ newCount \in [Threads -> 0..Cardinality(Threads)]
      /\ mainHash \in [Threads -> DOMAIN tables] /\ M \in DOMAIN tables
      /\ Len(tables) \in Nat /\ DOMAIN tables = 1..Len(tables)
  BY TableFacts DEF IInv, Types, Actors, TInv, Places
<1>2. /\ Put(t, mine[t]) /\ pc[t] \in {"copy", "got"} /\ pc' = [pc EXCEPT ![t] = "enqueue"]
      /\ UNCHANGED <<mainHash, resizeInProgress, implicitProducerHashCount>>
      /\ newCount' = newCount \/ newCount' = [newCount EXCEPT ![t] = 0]
  BY DEF Copy, Insert, Goto, locals
<1>3. /\ Len(tables') = Len(tables) /\ DOMAIN tables' = DOMAIN tables
      /\ \A h \in DOMAIN tables : tables'[h].capacity = tables[h].capacity
      /\ \A h \in DOMAIN tables, u \in Threads :
           Entry(h, u)' = IF h = M /\ u = t THEN mine[t] ELSE Entry(h, u)
  BY <1>2, PutPlaces DEF IInv
<1>4. mine[t] # Null
  BY <1>1, <1>2 DEF IInv, Owners, Equipped
<1> HIDE DEF M
<1>5. /\ newCount' \in [Threads -> 0..Cardinality(Threads)]
      /\ \A u \in Threads \ {t} : newCount'[u] = newCount[u] /\ pc'[u] = pc[u]
                                  /\ (Counting(u)' <=> Counting(u))
      /\ ~Counting(t)'
  <2>1. 0 \in 0..Cardinality(Threads)
    <3>1. Cardinality(Threads) \in Nat
      BY SomeThreads
    <3>2. QED
      BY <3>1
  <2>2. QED
    BY <1>1, <1>2, <2>1 DEF Counting, Actors
<1>6. Places'
  <2>1. \A h \in DOMAIN tables, u \in Threads : Entry(h, u) # Null => Entry(h, u)' # Null
    BY <1>3, <1>4
  <2>2. mainHash' \in [Threads -> DOMAIN tables]
    BY <1>1, <1>2
  <2>3. QED
    BY <1>1, <1>2, <1>3, <1>5, <2>1, <2>2, PlaceStep DEF Locking, Adding
<1>7. \A u \in Threads \ {t} : /\ InTables(u)' <=> InTables(u)
                               /\ \A h \in DOMAIN tables : Present(h, u)' <=> Present(h, u)
  <2>1. \A h \in DOMAIN tables : 1..h \subseteq DOMAIN tables
    BY <1>1
  <2>2. QED
    BY <1>3, <2>1 DEF InTables, Present
<1>8. InTables(t)' /\ \A h \in DOMAIN tables : Present(h, t)' <=> (Present(h, t) \/ M <= h)
  <2>1. InTables(t)'
    BY <1>1, <1>3, <1>4 DEF InTables
  <2>2. SUFFICES ASSUME NEW h \in DOMAIN tables
                 PROVE  Present(h, t)' <=> (Present(h, t) \/ M <= h)
    BY <2>1
  <2>3. 1..h \subseteq DOMAIN tables /\ (M \in 1..h <=> M <= h)
    BY <1>1
  <2>4. QED
    BY <1>3, <1>4, <2>3 DEF Present
<1>9. InTables(t) \/ Counting(t)
  <2>1. CASE pc[t] = "copy"
    <3>1. Present(M, t)
      BY <1>1, <2>1 DEF Places, M
    <3>2. 1..M \subseteq DOMAIN tables
      BY <1>1
    <3>3. QED
      BY <3>1, <3>2 DEF Present, InTables
  <2>2. CASE pc[t] = "got"
    BY <2>2 DEF Counting
  <2>3. QED
    BY <1>2, <2>1, <2>2
<1>10. SlotsCounted'
  <2>1. Used' = Used
    BY <1>5, <1>7, <1>8, <1>9 DEF Used
  <2>2. (SlotsCounted <=> implicitProducerHashCount = Cardinality(Used))'
    BY SlotsOfUsed, PTL
  <2>3. QED
    BY <1>2, <2>1, <2>2, SlotsOfUsed DEF TInv
<1>11. Bounded'
  <2>1. SUFFICES ASSUME NEW h \in DOMAIN tables, NEW m \in Nat,
                        Share(tables[h].capacity) <= m + 1
                 PROVE  Cardinality(Early(h, m)') <= m
    BY <1>3 DEF Bounded
  <2>2. M <= h => t \in Early(h, m)
    <3>1. HAVE M <= h
    <3>2. CASE pc[t] = "copy"
      <4>1. Present(M, t)
        BY <1>1, <3>2 DEF Places, M
      <4>2. 1..M \subseteq 1..h
        BY <1>1, <3>1
      <4>3. QED
        BY <4>1, <4>2 DEF Present, Early
    <3>3. CASE pc[t] = "got"
      <4>1. newCount[t] < Share(tables[M].capacity)
        BY <1>1, <3>3 DEF Places, Adding, Main, M
      <4>2. /\ tables[M].capacity \in Nat \ {0} /\ tables[h].capacity \in Nat \ {0}
            /\ tables[M].capacity <= tables[h].capacity
        BY <1>1, <3>1, CapacitiesAssumption DEF Places
      <4>3. Share(tables[M].capacity) <= Share(tables[h].capacity)
            /\ Share(tables[M].capacity) \in Nat /\ Share(tables[h].capacity) \in Nat
        BY <4>2, ShareFacts
      <4>4. newCount[t] \in Nat
        BY <1>1, SomeThreads
      <4>5. newCount[t] <= m
        BY <2>1, <4>1, <4>3, <4>4
      <4>6. QED
        BY <3>3, <4>5 DEF Early, Counting
    <3>4. QED
      BY <1>2, <3>2, <3>3
  <2>3. Early(h, m)' \subseteq Early(h, m)
    <3>1. \A u \in Threads \ {t} : u \in Early(h, m)' => u \in Early(h, m)
      BY <1>5, <1>7 DEF Early
    <3>2. t \in Early(h, m)' => t \in Early(h, m)
      BY <1>5, <1>8, <2>2 DEF Early
    <3>3. Early(h, m)' \subseteq Threads
      BY DEF Early
    <3>4. QED
      BY <3>1, <3>2, <3>3
  <2>4. Cardinality(Early(h, m)) <= m /\ Cardinality(Early(h, m)) \in Nat
    BY <2>1, UsedFacts, SomeThreads DEF TInv, Bounded
  <2>5. Cardinality(Early(h, m)') <= Cardinality(Early(h, m))
        /\ Cardinality(Early(h, m)') \in Nat
    <3>1. Early(h, m)' \in SUBSET Threads
      BY <2>3, UsedFacts
    <3>2. QED
      BY <2>3, <3>1, UsedFacts, SomeThreads
  <2>6. QED
    BY <2>4, <2>5
<1>12. QED
  BY <1>6, <1>10, <1>11 DEF TInv

\* Doubling often enough, the table gets large enough.
LEMMA LargerTable ==
  ASSUME IInv, TInv, NEW t \in Threads, pc[t] = "malloc"
  PROVE  NewCapacity(t) \in Capacities /\ NewCapacity(t) > Main(t).capacity
<1> DEFINE S == {c \in Capacities : c > Main(t).capacity /\ ~HalfFull(t, c)}
<1>1. PICK c \in Capacities : c \div 2 > Cardinality(Threads)
  BY CapacitiesAssumption
<1>2. /\ newCount[t] \in 0..Cardinality(Threads) /\ Cardinality(Threads) \in Nat
      /\ Main(t).capacity \in Nat \ {0} /\ c \in Nat \ {0}
      /\ newCount[t] >= Main(t).capacity \div 2
  <2>1. Main(t).capacity \in Capacities
    BY TableFacts DEF TInv, Places, Main, IInv
  <2>2. QED
    BY <2>1, SomeThreads, CapacitiesAssumption DEF TInv, Places, HalfFull
<1>3. c > Main(t).capacity
  <2>1. c <= Main(t).capacity => c \div 2 <= Main(t).capacity \div 2
    BY <1>2, ShareFacts
  <2>2. c \div 2 \in Nat /\ Main(t).capacity \div 2 \in Nat
    BY <1>2
  <2>3. QED
    BY <1>1, <1>2, <2>1, <2>2
<1>4. c \in S
  <2>1. c \div 2 \in Nat
    BY <1>2
  <2>2. QED
    BY <1>1, <1>2, <1>3, <2>1 DEF HalfFull
<1>5. S \in SUBSET Nat
  BY CapacitiesAssumption
<1>6. \E n \in S : \A d \in S : n <= d
  <2> HIDE DEF S
  <2>1. QED
    BY <1>4, <1>5, LeastNumber
<1>7. Min(S) \in S
  <2> HIDE DEF S
  <2>1. QED
    BY <1>6 DEF Min
<1>8. QED
  BY <1>7 DEF NewCapacity

\* A new table inherits its bound from the one before.
LEMMA GrowTables == ASSUME IInv, TInv, NEW t \in Threads, Grow(t) PROVE TInv'
<1> DEFINE e == Empty(NewCapacity(t))
<1>0. PICK n \in Nat \ {0} : n = Len(tables) /\ DOMAIN tables = 1..n
  BY TableFacts DEF IInv
<1>1. /\ pc = [b \in Actors |-> pc[b]] /\ t \in Actors /\ Places
      /\ newCount \in [Threads -> 0..Cardinality(Threads)]
      /\ mainHash \in [Threads -> DOMAIN tables]
      /\ n \in Nat \ {0} /\ DOMAIN tables = 1..n /\ n = Len(tables)
  BY <1>0 DEF IInv, Types, Actors, TInv, Places
<1>2. /\ pc[t] = "malloc" /\ pc' = [pc EXCEPT ![t] = "unlock"]
      /\ tables' = Append(tables, e) /\ mainHash' = [mainHash EXCEPT ![t] = Len(tables')]
      /\ UNCHANGED <<implicitProducerHashCount, resizeInProgress, newCount>>
  BY DEF Grow, Goto, UseTable
<1>3. /\ e.capacity = NewCapacity(t) /\ \A u \in Threads : e.value[u] = Null
  BY DEF Empty
<1>4. NewCapacity(t) \in Capacities /\ NewCapacity(t) > tables[n].capacity
  <2>1. Main(t) = tables[n]
    BY <1>1, <1>2 DEF Places, Main
  <2>2. QED
    BY <1>2, <2>1, LargerTable
<1> HIDE DEF e
<1>5. /\ Len(tables') = n + 1 /\ DOMAIN tables' = 1..(n + 1)
      /\ \A h \in 1..n : tables'[h] = tables[h]
      /\ tables'[n + 1] = e
  <2>1. PICK X : tables \in Seq(X)
    BY DEF IInv, Types, Tables
  <2>2. tables \in Seq(X \cup {e})
    <3>1. /\ tables = [i \in 1..Len(tables) |-> tables[i]] /\ Len(tables) \in Nat
          /\ \A i \in 1..Len(tables) : tables[i] \in X
      BY <2>1, Member
    <3>2. QED
      BY <3>1
  <2>3. QED
    BY <1>0, <1>2, <2>2
<1>6. \A u \in Threads : /\ Entry(n + 1, u)' = Null
                         /\ \A h \in 1..n : Entry(h, u)' = Entry(h, u)
  BY <1>3, <1>5 DEF Entry
<1>7. \A u \in Threads : /\ Present(n + 1, u)' <=> Present(n, u)
                         /\ \A h \in 1..n : Present(h, u)' <=> Present(h, u)
                         /\ InTables(u)' <=> InTables(u)
  <2>1. 1..(n + 1) = 1..n \cup {n + 1} /\ \A h \in 1..n : 1..h \subseteq 1..n
    BY <1>1
  <2>2. QED
    BY <1>1, <1>5, <1>6, <2>1 DEF Present, InTables
<1>8. \A u \in Threads : Counting(u)' <=> Counting(u)
  BY <1>1, <1>2 DEF Counting, Actors
<1>9. SlotsCounted'
  <2>1. Used' = Used
    BY <1>7, <1>8 DEF Used
  <2>2. (SlotsCounted <=> implicitProducerHashCount = Cardinality(Used))'
    BY SlotsOfUsed, PTL
  <2>3. QED
    BY <1>2, <2>1, <2>2, SlotsOfUsed DEF TInv
<1>10. Bounded'
  <2>1. SUFFICES ASSUME NEW h \in 1..(n + 1), NEW m \in Nat,
                        Share(tables'[h].capacity) <= m + 1
                 PROVE  Cardinality(Early(h, m)') <= m
    BY <1>5 DEF Bounded
  <2>2. CASE h \in 1..n
    <3>1. Early(h, m)' = Early(h, m)
      BY <1>2, <1>7, <1>8, <2>2 DEF Early
    <3>2. QED
      BY <1>1, <1>5, <2>1, <2>2, <3>1 DEF TInv, Bounded
  <2>3. CASE h = n + 1
    <3>1. Early(h, m)' = Early(n, m)
      BY <1>2, <1>7, <1>8, <2>3 DEF Early
    <3>2. /\ n \in DOMAIN tables /\ tables[n].capacity \in Nat \ {0}
          /\ NewCapacity(t) \in Nat \ {0} /\ tables'[h].capacity = NewCapacity(t)
      BY <1>1, <1>3, <1>4, <1>5, <2>3, CapacitiesAssumption DEF Places
    <3>3. Share(tables[n].capacity) <= m + 1
      <4>1. /\ Share(tables[n].capacity) <= Share(NewCapacity(t))
            /\ Share(tables[n].capacity) \in Nat /\ Share(NewCapacity(t)) \in Nat
        BY <1>4, <3>2, ShareFacts
      <4>2. QED
        BY <2>1, <3>2, <4>1
    <3>4. QED
      BY <3>1, <3>2, <3>3 DEF TInv, Bounded
  <2>4. QED
    BY <1>1, <2>2, <2>3
<1>11. Places'
  <2>1. /\ pc'[t] = "unlock" /\ mainHash'[t] = n + 1
        /\ \A u \in Threads \ {t} : pc'[u] = pc[u] /\ mainHash'[u] = mainHash[u]
                                    /\ mainHash[u] \in 1..n
    BY <1>1, <1>2, <1>5 DEF Actors
  <2>2. \A h \in DOMAIN tables' : tables'[h].capacity \in Capacities
    <3>1. \A h \in 1..n : tables[h].capacity \in Capacities
      BY <1>1 DEF Places
    <3>2. QED
      BY <1>1, <1>3, <1>4, <1>5, <3>1
  <2>3. \A g, h \in DOMAIN tables' : g <= h => tables'[g].capacity <= tables'[h].capacity
    <3>1. SUFFICES ASSUME NEW g \in 1..(n + 1), NEW h \in 1..(n + 1), g <= h
                   PROVE  tables'[g].capacity <= tables'[h].capacity
      BY <1>5
    <3>2. CASE h \in 1..n
      BY <1>1, <1>5, <3>1, <3>2 DEF Places
    <3>3. CASE g = n + 1
      BY <1>1, <2>2, <1>5, <3>1, <3>3, CapacitiesAssumption
    <3>4. CASE h = n + 1 /\ g \in 1..n
      <4>1. tables[g].capacity <= tables[n].capacity /\ tables[g].capacity \in Nat
            /\ tables[n].capacity \in Nat /\ NewCapacity(t) \in Nat
        BY <1>1, <1>4, <3>4, CapacitiesAssumption DEF Places
      <4>2. tables'[g].capacity = tables[g].capacity /\ tables'[h].capacity = NewCapacity(t)
        BY <1>3, <1>5, <3>4
      <4>3. QED
        BY <1>4, <4>1, <4>2
    <3>5. QED
      BY <1>1, <3>1, <3>2, <3>3, <3>4
  <2>4. \A u \in Threads : pc'[u] \in Locking => u = t
    BY <1>1, <1>2, <2>1 DEF Places, Locking
  <2>5. resizeInProgress'
    BY <1>1, <1>2 DEF Places, Locking
  <2>6. \A u \in Threads : pc'[u] # "malloc"
    BY <2>1, <2>4 DEF Locking
  <2>7. \A u \in Threads : pc'[u] \in Adding => newCount'[u] < Share(Main(u)'.capacity)
    <3>1. SUFFICES ASSUME NEW u \in Threads \ {t}, pc[u] \in Adding
                   PROVE  newCount'[u] < Share(Main(u)'.capacity)
      BY <2>1 DEF Adding
    <3>2. Main(u)' = Main(u)
      BY <1>5, <2>1 DEF Main
    <3>3. QED
      BY <1>1, <1>2, <3>1, <3>2 DEF Places
  <2>8. \A u \in Threads : pc'[u] = "copy" => \E g \in 1..mainHash'[u] : Entry(g, u)' # Null
    <3>1. SUFFICES ASSUME NEW u \in Threads \ {t}, pc[u] = "copy"
                   PROVE  \E g \in 1..mainHash[u] : Entry(g, u)' # Null
      BY <2>1
    <3>2. PICK g \in 1..mainHash[u] : Entry(g, u) # Null
      BY <1>1, <3>1 DEF Places, Present
    <3>3. g \in 1..n
      BY <1>1, <2>1
    <3>4. QED
      BY <1>6, <3>2, <3>3
  <2>9. QED
    BY <1>1, <1>2, <2>2, <2>3, <2>4, <2>5, <2>6, <2>7, <2>8 DEF Places, Present
<1>12. QED
  BY <1>9, <1>10, <1>11 DEF TInv

\* Everyone else: tokens and consumers, and threads that add a producer.
LEMMA OtherTables ==
  ASSUME IInv, TInv, UNCHANGED <<table, locals>>,
         \/ \E t \in Threads : CreateAndAdd(t) \/ Enqueue(t)
         \/ \A u \in Threads : pc'[u] = pc[u]
  PROVE  TInv'
<1>1. UNCHANGED <<tables, implicitProducerHashCount, resizeInProgress, mainHash, newCount>>
  BY DEF table, locals
<1>2. CASE \A u \in Threads : pc'[u] = pc[u]
  <2>1. \A u \in Threads : Counting(u)' <=> Counting(u)
    BY <1>2 DEF Counting
  <2>2. Places'
    BY <1>1, <1>2 DEF TInv, Places, HalfFull, Main, Present, Entry
  <2>3. QED
    BY <1>1, <2>1, <2>2, SameCounts DEF TInv
<1>3. ASSUME NEW t \in Threads, CreateAndAdd(t) \/ Enqueue(t) PROVE TInv'
  <2>1. /\ pc = [b \in Actors |-> pc[b]] /\ t \in Actors /\ t \notin Tokens /\ Places
        /\ newCount \in [Threads -> 0..Cardinality(Threads)]
        /\ mainHash \in [Threads -> DOMAIN tables]
    BY ActorsAssumption DEF IInv, Types, Actors, TInv, Places
  <2>2. PICK to : /\ pc' = [pc EXCEPT ![t] = to]
                  /\ <<pc[t], to>> \in {<<"create", "count">>, <<"create", "failed">>,
                       <<"count", "push">>, <<"push", "push">>, <<"push", "got">>,
                       <<"enqueue", "idle">>}
    <3>1. CASE Create(t) \/ CreateFails(t) \/ CountProducer(t) \/ Enqueue(t)
      BY <2>1, <3>1 DEF Create, CreateFails, CountProducer, Enqueue, Goto
    <3>2. CASE Push(t) /\ producerListTail = at[t]
      BY <3>2 DEF Push, Goto
    <3>3. CASE Push(t) /\ producerListTail # at[t]
      <4>1. pc[t] = "push" /\ pc' = pc
        BY <3>3 DEF Push
      <4>2. pc' = [pc EXCEPT ![t] = "push"]
        BY <2>1, <4>1
      <4>3. QED
        BY <4>1, <4>2
    <3>4. QED
      BY <1>3, <3>1, <3>2, <3>3 DEF CreateAndAdd
  <2>3. Places'
    <3>1. to \notin Locking /\ to # "malloc" /\ to # "copy"
      BY <2>2 DEF Locking
    <3>2. to \in Adding => newCount'[t] < Share(tables[mainHash'[t]].capacity)
      BY <1>1, <2>1, <2>2 DEF Places, Adding, Main
    <3>3. \A h \in DOMAIN tables, u \in Threads : Entry(h, u) # Null => Entry(h, u)' # Null
      BY <1>1 DEF Entry
    <3>4. QED
      BY <1>1, <2>1, <2>2, <3>1, <3>2, <3>3, PlaceStep
  <2>4. \A u \in Threads : Counting(u)' <=> Counting(u)
    BY <2>1, <2>2 DEF Counting, Actors
  <2>5. QED
    BY <1>1, <2>3, <2>4, SameCounts DEF TInv
<1>4. QED
  BY <1>2, <1>3

LEMMA GetTables == ASSUME IInv, TInv, NEW t \in Threads, GetOrAdd(t) PROVE TInv'
<1>1. /\ pc = [b \in Actors |-> pc[b]] /\ t \in Actors /\ Places
      /\ newCount \in [Threads -> 0..Cardinality(Threads)]
      /\ mainHash \in [Threads -> DOMAIN tables]
      /\ Len(tables) \in DOMAIN tables /\ DOMAIN tables = 1..Len(tables)
      /\ Len(tables) \in Nat
  BY TableFacts DEF IInv, Types, Actors, TInv, Places
<1>2. /\ UNCHANGED <<tables, newCount, implicitProducerHashCount, resizeInProgress>>
      /\ mainHash' = [mainHash EXCEPT ![t] = Len(tables)]
  BY DEF GetOrAdd, UseTable, implicitProducerHash, table
<1>3. PICK to : /\ pc[t] = "idle" /\ pc' = [pc EXCEPT ![t] = to]
                /\ to \in {"countSlot", "enqueue", "copy"}
                /\ to = "copy" => Present(Len(tables), t)
  <2>1. CASE Having(t) = {}
    BY <2>1 DEF GetOrAdd, Goto
  <2>2. CASE Having(t) # {}
    <3>1. PICK h \in Having(t) :
            /\ pc[t] = "idle"
            /\ pc' = [pc EXCEPT ![t] =
                        IF h = implicitProducerHash THEN "enqueue" ELSE "copy"]
      BY <2>2 DEF GetOrAdd, Goto
    <3>2. Present(Len(tables), t)
      BY <1>1, <3>1 DEF Having, Present, Entry
    <3>3. QED
      BY <3>1, <3>2
  <2>3. QED
    BY <2>1, <2>2
<1>4. Places'
  <2>1. to \notin Locking /\ to # "malloc" /\ to \notin Adding
    BY <1>3 DEF Locking, Adding
  <2>2. /\ mainHash' \in [Threads -> DOMAIN tables] /\ mainHash'[t] = Len(tables)
        /\ \A u \in Threads \ {t} : mainHash'[u] = mainHash[u]
    BY <1>1, <1>2
  <2>3. \A h \in DOMAIN tables, u \in Threads : Entry(h, u) # Null => Entry(h, u)' # Null
    BY <1>2 DEF Entry
  <2>4. QED
    BY <1>1, <1>2, <1>3, <2>1, <2>2, <2>3, PlaceStep
<1>5. \A u \in Threads : Counting(u)' <=> Counting(u)
  BY <1>1, <1>3 DEF Counting, Actors
<1>6. QED
  BY <1>2, <1>4, <1>5, SameCounts DEF TInv

LEMMA NextTables == IInv /\ TInv /\ [Next]_vars => TInv'
<1> SUFFICES ASSUME IInv, TInv, [Next]_vars PROVE TInv'
  OBVIOUS
<1>1. ASSUME NEW t \in Threads, GetOrAdd(t) \/ Finish(t) PROVE TInv'
  <2>1. CASE (CreateAndAdd(t) \/ Enqueue(t)) /\ UNCHANGED <<table, locals>>
    BY <2>1, OtherTables
  <2>2. CASE GetOrAdd(t)
    BY <2>2, GetTables
  <2>3. CASE Copy(t) \/ Insert(t)
    BY <2>3, PutTables
  <2>4. CASE CountSlot(t)
    BY <2>4, CountSlotTables
  <2>5. CASE Check(t) \/ Room(t) \/ Unlock(t)
    BY <2>5, WaitTables
  <2>6. CASE Grow(t)
    BY <2>6, GrowTables
  <2>7. CASE GrowFails(t) \/ Failed(t)
    BY <2>7, FailTables
  <2>8. QED
    BY <1>1, <2>1, <2>2, <2>3, <2>4, <2>5, <2>6, <2>7 DEF Finish
<1>2. ASSUME NEW k \in Tokens, TokenStep(k), UNCHANGED <<table, locals>> PROVE TInv'
  <2>1. k \notin Threads /\ pc = [b \in Actors |-> pc[b]]
    BY ActorsAssumption DEF IInv, Types
  <2>2. pc' = pc \/ \E to : pc' = [pc EXCEPT ![k] = to]
    BY <1>2 DEF TokenStep, Construct, Constructed, UseToken, Destruct, RecycleOrCreate,
      Scan, Catch, CreateAndAdd, Create, CreateFails, CountProducer, Push, Enqueue, Goto
  <2>3. \A u \in Threads : pc'[u] = pc[u]
    BY <2>1, <2>2 DEF Actors
  <2>4. QED
    BY <1>2, <2>3, OtherTables
<1>3. ASSUME NEW c \in Consumers, ConsumerStep(c), UNCHANGED <<table, locals>>
      PROVE  TInv'
  <2>1. pc' = pc
    BY <1>3 DEF ConsumerStep, TryDequeue, TryDequeueBulk, TryDequeueToken, Score,
      Scored, Best, Others, Rotate, Place, Current, Walk, actors
  <2>2. QED
    BY <1>3, <2>1, OtherTables
<1>4. CASE UNCHANGED vars
  <2>1. pc' = pc /\ UNCHANGED <<table, locals>>
    BY <1>4 DEF vars, listVars, actors
  <2>2. QED
    BY <2>1, OtherTables
<1>5. QED
  BY <1>1, <1>2, <1>3, <1>4 DEF Next

LEMMA TablesHold == Spec => [](IInv /\ TInv)
<1>1. QED
  BY InitInv, NextInv, InitTables, NextTables, PTL DEF Spec

\* Every table keeps a free slot, which ends the probing of whoever looks a
\* thread up (concurrentqueue.h:3398, 3405), because the count by which tables
\* grow is that of the slots in use or about to be, failures taken back.
THEOREM TablesKeepRoom == Spec => []TablesSound
<1>1. IInv /\ TInv => RoomInTables
  <2>1. SUFFICES ASSUME IInv, TInv, NEW h \in DOMAIN tables
                 PROVE  Cardinality({t \in Threads : Entry(h, t) # Null})
                          < tables[h].capacity
    BY DEF RoomInTables, Entry
  <2> DEFINE S == {t \in Threads : Entry(h, t) # Null}
  <2>2. tables[h].capacity \in Nat \ {0}
    BY <2>1, CapacitiesAssumption DEF TInv, Places
  <2>3. Share(tables[h].capacity) \in Nat /\ Share(tables[h].capacity) < tables[h].capacity
    BY <2>2, ShareFacts
  <2>4. PICK m \in Nat : /\ Share(tables[h].capacity) <= m + 1
                         /\ m < tables[h].capacity
    <3>1. PICK i \in Nat, j \in Nat \ {0} :
            i = Share(tables[h].capacity) /\ j = tables[h].capacity /\ i < j
      BY <2>2, <2>3
    <3>2. j - 1 \in Nat /\ i <= (j - 1) + 1 /\ j - 1 < j
      BY <3>1
    <3>3. QED
      BY <3>1, <3>2
  <2>5. h \in 1..h
    BY TableFacts, <2>1 DEF IInv
  <2>6. S \subseteq Early(h, m)
    BY <2>5 DEF Early, Present
  <2>7. Cardinality(Early(h, m)) <= m
    BY <2>1, <2>4 DEF TInv, Bounded
  <2>8. Cardinality(S) <= Cardinality(Early(h, m)) /\ Cardinality(S) \in Nat
        /\ Cardinality(Early(h, m)) \in Nat
    <3>1. S \in SUBSET Threads
      OBVIOUS
    <3> HIDE DEF S
    <3>2. QED
      BY <2>6, <3>1, UsedFacts, SomeThreads
  <2>9. QED
    BY <2>2, <2>4, <2>7, <2>8
<1>2. QED
  BY <1>1, TablesHold, PTL DEF TablesSound, TInv

-----------------------------------------------------------------------------
(* The list.  That a producer can be reached is said of the sets that next  *)
(* does not leave: every one of them that has the tail has all producers   *)
(* on the list.                                                            *)

\* Producers on the list: the others are in hand of those that add them.
Adds(a) == pc[a] \in {"count", "push"}
Linked == {p \in 1..created : \A a \in Actors : Adds(a) => mine[a] # p}
CountsOne == {a \in Actors : pc[a] = "count"}

Closed(S) == \A p \in S : next[p] # Null => next[p] \in S

\* Producer p is found from q on.
Ahead(q, p) ==
  \A S \in SUBSET Producers : Closed(S) /\ (q = Null \/ q \in S) => p \in S

\* No producers go round in a circle.
Grounded == \A S \in SUBSET Linked : S # {} => \E p \in S : next[p] \notin S

Chain ==
  /\ producerListTail \in Linked \cup {Null}
  /\ \A p \in Producers : next[p] \in Linked \cup {Null}
  /\ \A p \in Producers \ Linked : next[p] = Null
  /\ \A p \in Linked : Ahead(producerListTail, p)
  /\ Grounded
  /\ producerCount \in Nat /\ producerCount + Cardinality(CountsOne) = created

Explicit ==
  /\ isExplicit \in [Producers -> BOOLEAN]
  /\ \A p \in Producers : inactive[p] => isExplicit[p]
  /\ \A k \in Tokens : mine[k] # Null => isExplicit[mine[k]]

Queues ==
  /\ tailIndex \in [Producers -> Nat] /\ headIndex \in [Producers -> Nat]
  /\ \A p \in Producers : headIndex[p] <= tailIndex[p]
  /\ \A p \in Producers : tailIndex[p] > 0 => p \in Linked

LInv == Chain /\ Explicit /\ Queues

LEMMA LinkedFacts ==
  ASSUME IInv
  PROVE  /\ created \in Nat /\ MaxProducers \in Nat /\ created <= MaxProducers
         /\ Linked \subseteq Producers /\ Linked \subseteq 1..created
         /\ Null \notin Producers /\ Null \notin Linked
         /\ IsFiniteSet(Actors) /\ CountsOne \in SUBSET Actors
         /\ IsFiniteSet(CountsOne) /\ Cardinality(CountsOne) \in Nat
<1>1. IsFiniteSet(Actors) /\ CountsOne \in SUBSET Actors
  BY ActorsAssumption, FS_Union DEF Actors, CountsOne
<1>2. IsFiniteSet(CountsOne) /\ Cardinality(CountsOne) \in Nat
  BY <1>1, FS_Subset, FS_CardinalityType
<1>3. QED
  BY <1>1, <1>2, ActorsAssumption DEF IInv, Types, Linked, Producers, Null

LEMMA ListBegins == Init => LInv
<1> SUFFICES ASSUME Init PROVE LInv
  OBVIOUS
<1>1. PICK who :
        pc = [a \in Actors |-> IF a \in who THEN "idle" ELSE "absent"]
  BY DEF Init, InitList
<1>2. /\ producerListTail = 0 /\ producerCount = 0 /\ created = 0
      /\ next = [p \in Producers |-> 0]
      /\ inactive = [p \in Producers |-> FALSE] /\ isExplicit = [p \in Producers |-> FALSE]
      /\ tailIndex = [p \in Producers |-> 0] /\ headIndex = [p \in Producers |-> 0]
      /\ mine = [a \in Actors |-> 0]
  BY DEF Init, InitList, Null
<1>3. Linked = {} /\ CountsOne = {}
  BY <1>1, <1>2 DEF Linked, CountsOne
<1>4. Cardinality(CountsOne) = 0
  BY <1>3, FS_EmptySet
<1>5. Chain
  BY <1>2, <1>3, <1>4 DEF Chain, Grounded, Null
<1>6. Explicit
  BY <1>2 DEF Explicit, Actors, Null
<1>7. Queues
  BY <1>2 DEF Queues
<1>8. QED
  BY <1>5, <1>6, <1>7 DEF LInv

\* Steps that neither add a producer nor bring one nearer to the list.
LEMMA SameChain ==
  ASSUME Chain, UNCHANGED <<producerListTail, producerCount, next, created>>,
         \A a \in Actors : /\ Adds(a)' <=> Adds(a)
                           /\ Adds(a) => mine'[a] = mine[a]
                           /\ pc'[a] = "count" <=> pc[a] = "count"
  PROVE  Chain' /\ Linked' = Linked
<1>1. Linked' = Linked
  BY DEF Linked
<1>2. CountsOne' = CountsOne
  BY DEF CountsOne
<1>3. \A p \in Linked : Ahead(producerListTail, p)'
  BY DEF Chain, Ahead, Closed
<1>4. Grounded'
  BY <1>1 DEF Chain, Grounded
<1>5. QED
  BY <1>1, <1>2, <1>3, <1>4 DEF Chain

\* Steps of one actor of that kind.
LEMMA QuietStep ==
  ASSUME IInv, LInv, NEW a \in Actors, UNCHANGED <<list, queues>>,
         \/ pc' = pc
         \/ \E to : /\ pc' = [pc EXCEPT ![a] = to]
                    /\ ~Adds(a) /\ to \notin {"count", "push"},
         \A b \in Actors : b # a => mine'[b] = mine[b],
         mine' = mine \/ ~Adds(a),
         a \in Tokens => mine'[a] \in {mine[a], Null}
  PROVE  LInv' /\ Linked' = Linked
<1>1. \A b \in Actors : /\ Adds(b)' <=> Adds(b)
                        /\ Adds(b) => mine'[b] = mine[b]
                        /\ pc'[b] = "count" <=> pc[b] = "count"
  <2>1. pc = [b \in Actors |-> pc[b]]
    BY DEF IInv, Types
  <2>2. CASE pc' = pc
    BY <2>2 DEF Adds
  <2>3. CASE pc' # pc
    <3>1. PICK to : /\ pc' = [pc EXCEPT ![a] = to]
                    /\ ~Adds(a) /\ to \notin {"count", "push"}
      BY <2>3
    <3>2. QED
      BY <2>1, <3>1 DEF Adds
  <2>4. QED
    BY <2>2, <2>3
<1>2. Chain' /\ Linked' = Linked
  BY <1>1, SameChain DEF LInv, list
<1>3. Explicit'
  BY DEF LInv, Explicit, list, Actors
<1>4. Queues'
  BY <1>2 DEF LInv, Queues, queues
<1>5. QED
  BY <1>2, <1>3, <1>4 DEF LInv

LEMMA ThreadQuiet ==
  ASSUME IInv, LInv, NEW t \in Threads,
         \/ GetOrAdd(t) \/ Copy(t) \/ CountSlot(t) \/ Check(t) \/ Grow(t) \/ GrowFails(t)
         \/ Unlock(t) \/ Room(t) \/ Failed(t) \/ Insert(t)
  PROVE  LInv' /\ Linked' = Linked
<1>1. t \in Actors /\ t \notin Tokens /\ mine = [b \in Actors |-> mine[b]]
  BY ActorsAssumption DEF Actors, IInv, Types
<1>2. UNCHANGED <<list, queues>>
  BY DEF GetOrAdd, Copy, CountSlot, Check, Grow, GrowFails, Unlock, Room, Failed, Insert
<1>3. PICK to : /\ pc' = [pc EXCEPT ![t] = to]
                /\ ~Adds(t) /\ to \notin {"count", "push"}
  <2>1. CASE GetOrAdd(t)
    <3>1. CASE Having(t) = {}
      BY <2>1, <3>1 DEF GetOrAdd, Goto, Adds
    <3>2. CASE Having(t) # {}
      <4>1. PICK h \in Having(t) :
            /\ pc[t] = "idle"
            /\ pc' = [pc EXCEPT ![t] =
                        IF h = implicitProducerHash THEN "enqueue" ELSE "copy"]
        BY <2>1, <3>2 DEF GetOrAdd, Goto
      <4>2. PICK to \in {"enqueue", "copy"} : pc' = [pc EXCEPT ![t] = to]
        BY <4>1
      <4>3. to \notin {"count", "push"} /\ ~Adds(t)
        BY <4>1, <4>2 DEF Adds
      <4>4. QED
        BY <4>2, <4>3
    <3>3. QED
      BY <3>1, <3>2
  <2>2. CASE Check(t)
    BY <2>2 DEF Check, Goto, Adds
  <2>3. CASE Room(t)
    BY <2>3 DEF Room, Goto, Adds
  <2>4. CASE \/ Copy(t) \/ CountSlot(t) \/ Grow(t) \/ GrowFails(t) \/ Unlock(t)
             \/ Failed(t) \/ Insert(t)
    BY <2>4 DEF Copy, CountSlot, Grow, GrowFails, Unlock, Failed, Insert, Goto, Adds
  <2>5. QED
    BY <2>1, <2>2, <2>3, <2>4
<1>4. \A b \in Actors : b # t => mine'[b] = mine[b]
  <2>1. mine' = mine \/ \E p : mine' = [mine EXCEPT ![t] = p]
    BY DEF GetOrAdd, Copy, CountSlot, Check, Grow, GrowFails, Unlock, Room, Failed, Insert
  <2>2. QED
    BY <1>1, <2>1
<1>5. QED
  BY <1>1, <1>2, <1>3, <1>4, QuietStep

\* A new producer, in hand of the one that created it.
LEMMA CreateList ==
  ASSUME IInv, LInv, NEW a \in Actors, Create(a) PROVE LInv' /\ Linked' = Linked
<1>1. /\ pc[a] = "create" /\ pc' = [pc EXCEPT ![a] = "count"]
      /\ created' = created + 1 /\ mine' = [mine EXCEPT ![a] = created + 1]
      /\ isExplicit' = [isExplicit EXCEPT ![created + 1] = a \in Tokens]
      /\ UNCHANGED <<producerListTail, producerCount, next, inactive, tailIndex, headIndex>>
      /\ pc = [b \in Actors |-> pc[b]] /\ mine = [b \in Actors |-> mine[b]]
      /\ created \in Nat /\ created + 1 \in Producers
  <2>1. created \in Nat /\ created < MaxProducers /\ MaxProducers \in Nat
    BY LinkedFacts DEF Create
  <2>2. QED
    BY <2>1 DEF Create, Goto, queues, IInv, Types, Producers
<1>2. \A b \in Actors : /\ mine[b] \in 0..created
                        /\ b # a => pc'[b] = pc[b] /\ mine'[b] = mine[b]
                        /\ b = a => pc'[b] = "count" /\ mine'[b] = created + 1
  BY <1>1 DEF IInv, Types
<1>3. Linked' = Linked
  <2>1. \A b \in Actors \ {a} : (Adds(b)' <=> Adds(b)) /\ mine'[b] = mine[b]
    BY <1>2 DEF Adds
  <2>2. Adds(a)' /\ ~Adds(a) /\ mine'[a] = created + 1
    BY <1>1, <1>2 DEF Adds
  <2>3. 1..(created + 1) = 1..created \cup {created + 1} /\ created + 1 \notin 1..created
    BY <1>1
  <2>4. QED
    BY <1>1, <2>1, <2>2, <2>3 DEF Linked
<1>4. producerCount + Cardinality(CountsOne') = created'
  <2>1. CountsOne' = CountsOne \cup {a} /\ a \notin CountsOne
    BY <1>1 DEF CountsOne
  <2>2. Cardinality(CountsOne \cup {a}) = Cardinality(CountsOne) + 1
    BY <2>1, LinkedFacts, FS_AddElement
  <2>3. QED
    BY <1>1, <2>1, <2>2, LinkedFacts DEF LInv, Chain
<1>5. Chain'
  <2>1. \A p \in Linked : Ahead(producerListTail, p)'
    BY <1>1 DEF LInv, Chain, Ahead, Closed
  <2>2. QED
    BY <1>1, <1>3, <1>4, <2>1 DEF LInv, Chain, Grounded
<1>6. Explicit'
  <2>1. isExplicit' \in [Producers -> BOOLEAN]
    BY <1>1 DEF LInv, Explicit
  <2>2. \A p \in Producers : inactive'[p] => isExplicit'[p]
    <3>1. \A p \in Producers : inactive[p] => p # created + 1
      BY <1>1 DEF IInv, Owners
    <3>2. QED
      BY <1>1, <3>1 DEF LInv, Explicit
  <2>3. \A k \in Tokens : mine'[k] # Null => isExplicit'[mine'[k]]
    <3>1. SUFFICES ASSUME NEW k \in Tokens, mine'[k] # Null PROVE isExplicit'[mine'[k]]
      OBVIOUS
    <3>2. CASE k = a
      BY <1>1, <1>2, <3>2 DEF LInv, Explicit
    <3>3. CASE k # a
      <4>1. k \in Actors
        BY DEF Actors
      <4>2. mine'[k] = mine[k] /\ mine[k] \in 0..created /\ mine[k] # created + 1
        BY <1>1, <1>2, <3>3, <4>1
      <4>3. mine[k] \in Producers
        BY <1>1, <3>1, <4>2, LinkedFacts DEF Producers, Null
      <4>4. QED
        BY <1>1, <3>1, <4>2, <4>3 DEF LInv, Explicit
    <3>4. QED
      BY <3>2, <3>3
  <2>4. QED
    BY <2>1, <2>2, <2>3 DEF Explicit
<1>7. Queues'
  BY <1>1, <1>3 DEF LInv, Queues
<1>8. QED
  BY <1>3, <1>5, <1>6, <1>7 DEF LInv

LEMMA CountList ==
  ASSUME IInv, LInv, NEW a \in Actors, CountProducer(a) PROVE LInv' /\ Linked' = Linked
<1>1. /\ pc[a] = "count" /\ pc' = [pc EXCEPT ![a] = "push"]
      /\ producerCount' = producerCount + 1
      /\ UNCHANGED <<producerListTail, next, inactive, isExplicit, created, tailIndex,
                     headIndex, mine>>
      /\ pc = [b \in Actors |-> pc[b]]
  BY DEF CountProducer, Goto, queues, IInv, Types
<1>2. \A b \in Actors : Adds(b)' <=> Adds(b)
  BY <1>1 DEF Adds
<1>3. Linked' = Linked
  BY <1>1, <1>2 DEF Linked
<1>4. producerCount' \in Nat /\ producerCount' + Cardinality(CountsOne') = created'
  <2>1. CountsOne' = CountsOne \ {a} /\ a \in CountsOne
    BY <1>1 DEF CountsOne
  <2>2. Cardinality(CountsOne \ {a}) = Cardinality(CountsOne) - 1
    BY <2>1, LinkedFacts, FS_RemoveElement
  <2>3. QED
    BY <1>1, <2>1, <2>2, LinkedFacts DEF LInv, Chain
<1>5. Chain'
  <2>1. \A p \in Linked : Ahead(producerListTail, p)'
    BY <1>1 DEF LInv, Chain, Ahead, Closed
  <2>2. QED
    BY <1>1, <1>3, <1>4, <2>1 DEF LInv, Chain, Grounded
<1>6. QED
  BY <1>1, <1>3, <1>5 DEF LInv, Explicit, Queues

\* What is said of the list stays true when a producer is put in front of it.
LEMMA StillAhead ==
  ASSUME NEW m, next[m] = Null,
         \A p \in Producers \ {m} : next'[p] = next[p],
         NEW q, NEW p, Ahead(q, p)
  PROVE  Ahead(q, p)'
<1>1. SUFFICES ASSUME NEW S \in SUBSET Producers, Closed(S)', q = Null \/ q \in S
               PROVE  p \in S
  BY DEF Ahead
<1>2. Closed(S)
  BY <1>1 DEF Closed
<1>3. QED
  BY <1>1, <1>2 DEF Ahead

LEMMA PushList ==
  ASSUME IInv, LInv, NEW a \in Actors, Push(a), producerListTail = at[a]
  PROVE  /\ LInv' /\ Linked' = Linked \cup {mine[a]} /\ mine[a] \in Producers \ Linked
         /\ \A p \in Producers \ {mine[a]} : next'[p] = next[p]
<1> DEFINE m == mine[a]
<1>1. /\ pc[a] = "push" /\ pc' = [pc EXCEPT ![a] = "got"]
      /\ next' = [next EXCEPT ![m] = producerListTail] /\ producerListTail' = m
      /\ UNCHANGED <<producerCount, inactive, isExplicit, created, tailIndex,
                     headIndex, mine>>
      /\ pc = [b \in Actors |-> pc[b]] /\ m \in 0..created /\ m # Null
      /\ next \in [Producers -> Producers \cup {Null}]
  BY DEF Push, Goto, queues, IInv, Types, Owners, Equipped
<1>2. m \in Producers /\ m \in 1..created /\ m \notin Linked
  BY <1>1, LinkedFacts DEF Producers, Null, Linked, Adds
<1>3. PICK n \in Producers : n = m
  BY <1>2
<1>4. Linked' = Linked \cup {n}
  <2>1. \A b \in Actors \ {a} : (Adds(b)' <=> Adds(b)) /\ (Adds(b) => mine[b] # n)
    BY <1>1, <1>3 DEF Adds, IInv, Owners
  <2>2. ~Adds(a)'
    BY <1>1 DEF Adds
  <2>3. QED
    BY <1>1, <1>2, <1>3, <2>1, <2>2 DEF Linked
<1> HIDE DEF m
<1>5. /\ next'[n] = producerListTail /\ next[n] = Null /\ n \notin Linked /\ n # Null
      /\ \A p \in Producers \ {n} : next'[p] = next[p]
      /\ producerListTail' = n
  BY <1>1, <1>2, <1>3 DEF LInv, Chain
<1>6. \A p \in Linked \cup {n} : Ahead(producerListTail, p)'
  <2>1. SUFFICES ASSUME NEW p \in Linked \cup {n}, NEW S \in SUBSET Producers,
                        Closed(S)', n \in S
                 PROVE  p \in S
    BY <1>5 DEF Ahead
  <2>2. CASE p = n
    BY <2>1, <2>2
  <2>3. CASE p \in Linked
    <3>1. Closed(S)
      BY <1>5, <2>1 DEF Closed
    <3>2. producerListTail = Null \/ producerListTail \in S
      BY <1>5, <2>1 DEF Closed
    <3>3. QED
      BY <2>3, <3>1, <3>2 DEF LInv, Chain, Ahead
  <2>4. QED
    BY <2>2, <2>3
<1>7. Grounded'
  <2>1. SUFFICES ASSUME NEW S \in SUBSET (Linked \cup {n}), S # {}
                 PROVE  \E p \in S : next'[p] \notin S
    BY <1>4 DEF Grounded
  <2>2. CASE S = {n}
    BY <1>5, <2>2 DEF LInv, Chain
  <2>3. CASE S # {n}
    <3>1. S \ {n} \in SUBSET Linked /\ S \ {n} # {}
      BY <2>1, <2>3
    <3>2. PICK p \in S \ {n} : next[p] \notin S \ {n}
      BY <3>1 DEF LInv, Chain, Grounded
    <3>3. p \in Producers /\ next[p] # n /\ next'[p] = next[p]
      BY <1>5, <3>1, <3>2, LinkedFacts DEF LInv, Chain
    <3>4. QED
      BY <3>2, <3>3
  <2>4. QED
    BY <2>2, <2>3
<1>8. Chain'
  <2>1. CountsOne' = CountsOne
    BY <1>1 DEF CountsOne
  <2>2. /\ producerListTail' \in Linked' \cup {Null}
        /\ \A p \in Producers : next'[p] \in Linked' \cup {Null}
        /\ \A p \in Producers \ Linked' : next'[p] = Null
    BY <1>4, <1>5 DEF LInv, Chain
  <2>3. producerCount' \in Nat /\ producerCount' + Cardinality(CountsOne') = created'
    BY <1>1, <2>1 DEF LInv, Chain
  <2>4. QED
    BY <1>4, <1>6, <1>7, <2>2, <2>3 DEF Chain
<1>9. Explicit' /\ Queues'
  BY <1>1, <1>4 DEF LInv, Explicit, Queues
<1>10. QED
  BY <1>2, <1>3, <1>4, <1>5, <1>8, <1>9 DEF LInv, m

\* A token that takes over a producer, or leaves one.
LEMMA HandOverList ==
  ASSUME IInv, LInv, NEW k \in Tokens,
         (Catch(k) /\ inactive[at[k]]) \/ Destruct(k)
  PROVE  LInv' /\ Linked' = Linked
<1>0. k \in Actors /\ pc = [b \in Actors |-> pc[b]] /\ mine = [b \in Actors |-> mine[b]]
      /\ inactive \in [Producers -> BOOLEAN]
  BY DEF Actors, IInv, Types
<1>1. /\ UNCHANGED <<producerListTail, producerCount, next, isExplicit, created, tailIndex,
                     headIndex>>
      /\ ~Adds(k)
      /\ \E to \in {"got", "idle"} : pc' = [pc EXCEPT ![k] = to]
  BY DEF Catch, Destruct, Goto, queues, Adds
<1>2. PICK p : /\ mine' = [mine EXCEPT ![k] = p] /\ (p = Null \/ isExplicit[p])
               /\ \A q \in Producers : inactive'[q] => inactive[q] \/ isExplicit[q]
  <2>1. CASE Catch(k) /\ inactive[at[k]]
    <3>1. at[k] \in Producers
      BY <1>0, <2>1 DEF Catch, IInv, Types
    <3>2. /\ mine' = [mine EXCEPT ![k] = at[k]] /\ isExplicit[at[k]]
          /\ inactive' = [inactive EXCEPT ![at[k]] = FALSE]
      BY <2>1, <3>1 DEF Catch, LInv, Explicit
    <3>3. \A q \in Producers : inactive'[q] => inactive[q]
      BY <1>0, <3>2
    <3>4. QED
      BY <3>2, <3>3
  <2>2. CASE Destruct(k)
    <3>1. mine[k] # Null
      BY <1>0, <2>2 DEF Destruct, Goto, IInv, Owners, Equipped
    <3>2. /\ mine' = [mine EXCEPT ![k] = Null] /\ isExplicit[mine[k]]
          /\ inactive' = [inactive EXCEPT ![mine[k]] = TRUE]
      BY <2>2, <3>1 DEF Destruct, LInv, Explicit
    <3>3. \A q \in Producers : inactive'[q] => inactive[q] \/ isExplicit[q]
      BY <1>0, <3>2
    <3>4. QED
      BY <3>2, <3>3
  <2>3. QED
    BY <2>1, <2>2
<1>3. \A b \in Actors : /\ Adds(b)' <=> Adds(b)
                        /\ Adds(b) => mine'[b] = mine[b]
                        /\ pc'[b] = "count" <=> pc[b] = "count"
  BY <1>0, <1>1, <1>2 DEF Adds
<1>4. Chain' /\ Linked' = Linked
  BY <1>1, <1>3, SameChain DEF LInv
<1>5. Explicit'
  BY <1>0, <1>1, <1>2 DEF LInv, Explicit, Actors
<1>6. Queues'
  BY <1>1, <1>4 DEF LInv, Queues
<1>7. QED
  BY <1>4, <1>5, <1>6 DEF LInv

\* Whoever enqueues does so into a producer on the list.
LEMMA EnqueueList ==
  ASSUME IInv, LInv, NEW a \in Actors, Enqueue(a)
  PROVE  /\ LInv' /\ Linked' = Linked
         /\ \A p \in Producers : tailIndex[p] <= tailIndex'[p]
<1>1. /\ pc[a] = "enqueue" /\ \E to \in {"holds", "idle"} : pc' = [pc EXCEPT ![a] = to]
      /\ tailIndex' = [tailIndex EXCEPT ![mine[a]] = @ + 1]
      /\ UNCHANGED <<producerListTail, producerCount, next, inactive, isExplicit, created,
                     headIndex, mine>>
      /\ pc = [b \in Actors |-> pc[b]]
  BY DEF Enqueue, Goto, list, IInv, Types
<1>2. \A b \in Actors : /\ Adds(b)' <=> Adds(b)
                        /\ pc'[b] = "count" <=> pc[b] = "count"
  BY <1>1 DEF Adds
<1>3. Chain' /\ Linked' = Linked
  BY <1>1, <1>2, SameChain DEF LInv
<1>4. mine[a] \in Linked
  <2>1. mine[a] \in 0..created /\ mine[a] # Null /\ ~Adds(a)
        /\ \A b \in Actors : b # a => mine[b] # mine[a]
    BY <1>1 DEF IInv, Types, Owners, Equipped, Adds
  <2>2. QED
    BY <2>1, LinkedFacts DEF Linked, Null
<1>5. /\ tailIndex' \in [Producers -> Nat]
      /\ \A p \in Producers : /\ tailIndex[p] \in Nat /\ tailIndex[p] <= tailIndex'[p]
                              /\ tailIndex'[p] > 0 => tailIndex[p] > 0 \/ p = mine[a]
  <2>1. tailIndex \in [Producers -> Nat] /\ mine[a] \in Producers
    BY <1>4, LinkedFacts DEF LInv, Queues
  <2>2. tailIndex[mine[a]] + 1 \in Nat
    BY <2>1
  <2>3. \A p \in Producers : tailIndex'[p] = IF p = mine[a] THEN tailIndex[p] + 1 ELSE tailIndex[p]
    BY <1>1, <2>1
  <2>4. tailIndex' \in [Producers -> Nat]
    BY <1>1, <2>1, <2>2
  <2>5. QED
    BY <2>1, <2>3, <2>4
<1>6. Queues'
  <2>1. \A p \in Producers : headIndex[p] <= tailIndex'[p]
    BY <1>5 DEF LInv, Queues
  <2>2. QED
    BY <1>1, <1>3, <1>4, <1>5, <2>1 DEF LInv, Queues
<1>7. QED
  BY <1>1, <1>3, <1>5, <1>6 DEF LInv, Explicit

-----------------------------------------------------------------------------
(* The consumers.  What one that has got nothing yet has still to find, it *)
(* finds in what is left of its way.                                       *)

LocalsType ==
  [ptr : Producers \cup {Null}, best : Producers \cup {Null}, bestSize : Nat,
   nonEmptyCount : Nat, tail : Producers \cup {Null}, want : Nat,
   seen : [Producers -> Nat], lost : SUBSET Producers]

TokenType ==
  [initialOffset : Nat, lastKnown : Int, desired : Producers \cup {Null},
   current : Producers \cup {Null}, consumed : Nat]

\* Producer p has elements that were there when the call with locals l began, and
\* has not refused any to it.
Due(l, p) == p \notin l.lost /\ l.seen[p] > headIndex[p]

AllAhead(l) == \A p \in Producers : Due(l, p) => Ahead(l.ptr, p)

\* Producer p is found on the way round from l.ptr to the current one.
Around(l, current, p) ==
  \A S \in SUBSET Producers :
    l.ptr \in S /\ (\A q \in S \ {current} : After(q, l.tail) \in S) => p \in S

AllAround(l, current) == \A p \in Producers : Due(l, p) => Around(l, current, p)

\* A consumer at step s, with locals l and token k.
Sound(s, l, k) ==
  /\ \A p \in Producers : l.seen[p] <= tailIndex[p]
  /\ s \in {"idle", "absent"} => l = NoLocals
  /\ s \notin {"idle", "absent"} => l.want > 0
  /\ k.desired # Null => k.desired \in Linked /\ k.current \in Linked
  /\ s = "score" /\ l.nonEmptyCount = 0 => l.bestSize = 0 /\ AllAhead(l)
  /\ s \in {"score", "best"} /\ (s = "score" => l.nonEmptyCount > 0) => l.best # Null
  /\ s = "others" => AllAhead(l) /\ (l.best # Null => ~Due(l, l.best))
  /\ s = "place" => l.tail \in Linked
  /\ s \in {"current", "walk"} => k.desired # Null
  /\ s = "walk" => /\ l.tail \in Linked /\ l.ptr \in Linked
                   /\ ~Due(l, k.current) /\ AllAround(l, k.current)

CInv ==
  /\ loc \in [Consumers -> LocalsType] /\ token \in [Consumers -> TokenType]
  /\ cpc = [c \in Consumers |-> cpc[c]]
  /\ globalExplicitConsumerOffset \in Nat
  /\ \A c \in Consumers : Sound(cpc[c], loc[c], token[c])

LEMMA NoLocalsType == NoLocals \in LocalsType
BY DEF NoLocals, LocalsType

LEMMA InitConsumers == Init => CInv
<1> SUFFICES ASSUME Init PROVE CInv
  OBVIOUS
<1>1. PICK who : cpc = [c \in Consumers |-> IF c \in who THEN "idle" ELSE "absent"]
  BY DEF Init, InitList
<1>2. /\ loc = [c \in Consumers |-> NoLocals] /\ globalExplicitConsumerOffset = 0
      /\ token \in [Consumers -> [initialOffset : InitialOffsets, lastKnown : {-1},
                      desired : {Null}, current : {Null}, consumed : {0}]]
      /\ tailIndex = [p \in Producers |-> 0]
  BY DEF Init, InitList
<1>3. token \in [Consumers -> TokenType] /\ \A c \in Consumers : token[c].desired = Null
  <2> DEFINE R == [initialOffset : InitialOffsets, lastKnown : {-1},
                   desired : {Null}, current : {Null}, consumed : {0}]
  <2>1. \A k \in R : k \in TokenType /\ k.desired = Null
    <3>1. SUFFICES ASSUME NEW k \in R PROVE k \in TokenType /\ k.desired = Null
      OBVIOUS
    <3>2. /\ k.initialOffset \in Nat /\ k.lastKnown \in Int /\ k.desired = Null
          /\ k.current = Null /\ k.consumed \in Nat
      <4>1. k.initialOffset \in Nat
        BY ConsumersAssumption
      <4>2. k.lastKnown \in Int
        OBVIOUS
      <4>3. k.desired = Null /\ k.current = Null
        OBVIOUS
      <4>4. k.consumed \in Nat
        OBVIOUS
      <4>5. QED
        BY <4>1, <4>2, <4>3, <4>4
    <3>3. k = [initialOffset |-> k.initialOffset, lastKnown |-> k.lastKnown,
               desired |-> k.desired, current |-> k.current, consumed |-> k.consumed]
      OBVIOUS
    <3> HIDE DEF R
    <3>4. QED
      BY <3>2, <3>3 DEF TokenType
  <2>2. token \in [Consumers -> R]
    BY <1>2
  <2> HIDE DEF R
  <2>3. QED
    BY <2>1, <2>2
<1>4. \A p \in Producers : NoLocals.seen[p] <= tailIndex[p]
  BY <1>2 DEF NoLocals
<1>5. \A c \in Consumers : cpc[c] \in {"idle", "absent"} /\ loc[c] = NoLocals
  BY <1>1, <1>2
<1>6. \A c \in Consumers : Sound(cpc[c], loc[c], token[c])
  BY <1>3, <1>4, <1>5 DEF Sound
<1>7. QED
  BY <1>1, <1>2, <1>3, <1>6, NoLocalsType DEF CInv

LEMMA LesserOfTwo ==
  ASSUME NEW i \in Int, NEW j \in Int
  PROVE  Min({i, j}) = IF i <= j THEN i ELSE j
BY DEF Min

\* What a call takes from a queue: all it can, or else it has lost some there.
LEMMA TakeFacts ==
  ASSUME Queues, NEW c, NEW p \in Producers, loc[c].want \in Nat,
         NEW taken \in Outcomes(c, p), TakeFrom(p, taken)
  PROVE  /\ headIndex' \in [Producers -> Nat]
         /\ \A q \in Producers : headIndex[q] <= headIndex'[q] /\ headIndex'[q] <= tailIndex[q]
         /\ taken \in Nat /\ taken <= loc[c].want
         /\ taken < loc[c].want => headIndex'[p] = tailIndex[p] \/ p \in Lost(c, p, taken)
         /\ taken = 0 => headIndex' = headIndex
         /\ taken > 0 => headIndex' # headIndex
<1>1. /\ headIndex[p] \in Nat /\ tailIndex[p] \in Nat /\ headIndex[p] <= tailIndex[p]
      /\ headIndex \in [Producers -> Nat]
  BY DEF Queues
<1>2. Size(p) \in Nat /\ headIndex[p] + Size(p) = tailIndex[p]
  BY <1>1 DEF Size
<1>3. PICK most \in Nat :
        /\ most = Available(c, p)
        /\ most = IF loc[c].want <= Size(p) THEN loc[c].want ELSE Size(p)
  BY <1>2, LesserOfTwo DEF Available
<1>4. taken \in Nat /\ taken <= most
  BY <1>3 DEF Outcomes
<1>5. headIndex' = [headIndex EXCEPT ![p] = headIndex[p] + taken]
  BY <1>1, <1>4 DEF TakeFrom
<1>6. taken <= loc[c].want /\ taken <= Size(p)
  BY <1>2, <1>3, <1>4
<1>7. headIndex' \in [Producers -> Nat] /\ headIndex'[p] = headIndex[p] + taken
      /\ \A q \in Producers : q # p => headIndex'[q] = headIndex[q]
  BY <1>1, <1>4, <1>5
<1>8. taken = 0 => headIndex' = headIndex
  BY <1>1, <1>5
<1>9. taken > 0 => headIndex' # headIndex
  BY <1>1, <1>4, <1>7
<1>10. \A q \in Producers : headIndex[q] <= headIndex'[q] /\ headIndex'[q] <= tailIndex[q]
  <2>1. TAKE q \in Producers
  <2>2. CASE q = p
    BY <1>1, <1>2, <1>4, <1>6, <1>7, <2>2
  <2>3. CASE q # p
    BY <1>7, <2>3 DEF Queues
  <2>4. QED
    BY <2>2, <2>3
<1>11. taken < loc[c].want => headIndex'[p] = tailIndex[p] \/ p \in Lost(c, p, taken)
  <2>1. CASE taken < most
    BY <1>3, <2>1 DEF Lost
  <2>2. CASE taken = most
    BY <1>1, <1>2, <1>3, <1>7, <2>2
  <2>3. QED
    BY <1>3, <1>4, <2>1, <2>2
<1>12. QED
  BY <1>4, <1>6, <1>7, <1>8, <1>9, <1>10, <1>11

\* What a call has lost, it does not forget.
LEMMA LostFacts ==
  ASSUME NEW c, NEW p \in Producers, NEW taken, loc[c] \in LocalsType
  PROVE  Lost(c, p, taken) \in SUBSET Producers /\ loc[c].lost \subseteq Lost(c, p, taken)
BY DEF Lost, LocalsType

\* Nothing is ahead of the end of the list.
LEMMA EndOfList == \A p : ~Ahead(Null, p)
<1>1. PICK S \in SUBSET Producers : S = {}
  OBVIOUS
<1>2. Closed(S)
  BY <1>1 DEF Closed
<1>3. QED
  BY <1>1, <1>2 DEF Ahead

LEMMA TailOnList ==
  ASSUME Chain, Linked # {}
  PROVE  producerListTail \in Linked /\ producerListTail # Null
<1>1. PICK p \in Linked : Ahead(producerListTail, p)
  BY DEF Chain
<1>2. QED
  BY <1>1, EndOfList DEF Chain

\* What is ahead of q, and is not q, is ahead of the next one.
LEMMA AheadOfNext ==
  ASSUME NEW q \in Producers, NEW p \in Producers, Ahead(q, p), p # q
  PROVE  Ahead(next[q], p)
<1>1. SUFFICES ASSUME NEW S \in SUBSET Producers, Closed(S), next[q] = Null \/ next[q] \in S
               PROVE  p \in S
  BY DEF Ahead
<1>2. Closed(S \cup {q})
  BY <1>1 DEF Closed
<1>3. p \in S \cup {q}
  BY <1>1, <1>2 DEF Ahead
<1>4. QED
  BY <1>3

\* A producer that is due is on the list.
LEMMA DueOnList ==
  ASSUME LInv, NEW l \in LocalsType, \A p \in Producers : l.seen[p] <= tailIndex[p],
         NEW p \in Producers, Due(l, p)
  PROVE  p \in Linked
<1>1. /\ l.seen[p] \in Nat /\ headIndex[p] \in Nat /\ tailIndex[p] \in Nat
      /\ l.seen[p] <= tailIndex[p] /\ l.seen[p] > headIndex[p]
  BY DEF LInv, Queues, LocalsType, Due
<1>2. tailIndex[p] > 0
  BY <1>1
<1>3. QED
  BY <1>2 DEF LInv, Queues

LEMMA AfterOnList ==
  ASSUME IInv, Chain, NEW q \in Linked, NEW tail \in Linked
  PROVE  After(q, tail) \in Linked
BY LinkedFacts DEF Chain, After

\* A way round that stops nowhere comes by every producer on the list.
LEMMA AllTheWayRound ==
  ASSUME IInv, Chain, NEW S \in SUBSET Producers, NEW q \in S, q \in Linked,
         \A r \in S : After(r, producerListTail) \in S
  PROVE  Linked \subseteq S
<1>1. producerListTail \in Linked /\ producerListTail # Null
  BY TailOnList
<1>2. PICK r \in S \cap Linked : next[r] \notin S \cap Linked
  BY DEF Chain, Grounded
<1>3. After(r, producerListTail) \in S /\ After(r, producerListTail) \in Linked
  BY <1>1, <1>2, AfterOnList
<1>4. producerListTail \in S
  BY <1>2, <1>3 DEF After
<1>5. Closed(S)
  BY DEF Closed, After
<1>6. QED
  BY <1>4, <1>5 DEF Chain, Ahead

LEMMA AlongOnList ==
  ASSUME IInv, Chain, NEW q \in Linked, NEW tail \in Linked, NEW n \in Nat
  PROVE  Along(q, n, tail) \in Linked
<1> DEFINE one == [r \in Linked |-> After(r, tail)]
<1>1. one \in [Linked -> Linked]
  BY AfterOnList
<1>2. PICK f \in [0..n -> Linked] :
        f = [i \in 0..n |-> IF i = 0 THEN q ELSE one[f[i - 1]]]
  <2> HIDE DEF one
  <2>1. PICK f \in [0..n -> Linked] : Iterates(f, one, q, n)
    BY <1>1, Iteration
  <2>2. QED
    BY <2>1 DEF Iterates
<1> DEFINE step[i \in 0..n] == IF i = 0 THEN q ELSE After(step[i - 1], tail)
<1>3. f = [i \in 0..n |-> IF i = 0 THEN q ELSE After(f[i - 1], tail)]
  <2>1. \A i \in 0..n : i # 0 => one[f[i - 1]] = After(f[i - 1], tail)
    <3>1. \A i \in 0..n : i # 0 => i - 1 \in 0..n
      OBVIOUS
    <3>2. QED
      BY <1>2, <3>1
  <2> HIDE DEF one
  <2>2. \A i \in 0..n : f[i] = IF i = 0 THEN q ELSE After(f[i - 1], tail)
    BY <1>2, <2>1
  <2>3. QED
    BY <1>2, <2>2
<1>4. step = [i \in 0..n |-> IF i = 0 THEN q ELSE After(step[i - 1], tail)]
  <2> HIDE DEF one
  <2>1. \E g : g = [i \in 0..n |-> IF i = 0 THEN q ELSE After(g[i - 1], tail)]
    BY <1>3
  <2>2. QED
    BY <2>1 DEF step
<1>5. Along(q, n, tail) = step[n]
  BY DEF Along
<1> HIDE DEF step, one
<1>6. step[0] \in Linked
  BY <1>4
<1>7. \A i \in 1..n : step[i - 1] \in Linked => step[i] \in Linked
  BY <1>4, AfterOnList
<1>8. \A i \in 0..n : step[i] \in Linked
  BY <1>6, <1>7, IterationStays
<1>9. QED
  BY <1>5, <1>8

\* With a producer on the list there is one that has been counted.
LEMMA SomeCounted ==
  ASSUME IInv, Chain, Linked # {}
  PROVE  producerCount \in Nat \ {0}
<1>1. PICK p \in Linked : TRUE
  OBVIOUS
<1> DEFINE S == (1..created) \ {p}
           f == [a \in CountsOne |-> mine[a]]
<1>2. created \in Nat /\ p \in 1..created
  BY LinkedFacts
<1>3. IsFiniteSet(S) /\ Cardinality(S) = created - 1
  <2>1. IsFiniteSet(1..created) /\ Cardinality(1..created) = created
    BY <1>2, FS_Interval
  <2>2. QED
    BY <1>2, <2>1, FS_RemoveElement
<1>4. f \in Injection(CountsOne, S)
  <2>1. \A a \in CountsOne : /\ a \in Actors /\ Adds(a) /\ Equipped(a)
                             /\ mine[a] \in 1..created /\ mine[a] # p
    <3>1. \A a \in CountsOne : a \in Actors /\ Adds(a) /\ Equipped(a)
      BY DEF CountsOne, Adds, Equipped
    <3>2. \A a \in CountsOne : mine[a] \in 0..created /\ mine[a] # 0
      BY <3>1 DEF IInv, Types, Owners, Null
    <3>3. QED
      BY <1>2, <3>1, <3>2 DEF Linked
  <2>2. f \in [CountsOne -> S]
    BY <2>1
  <2>3. \A a, b \in CountsOne : f[a] = f[b] => a = b
    BY <2>1 DEF IInv, Owners
  <2> HIDE DEF f, S
  <2>4. QED
    BY <2>2, <2>3 DEF Injection, IsInjective
<1>5. Cardinality(CountsOne) <= created - 1
  <2> HIDE DEF S, f
  <2>1. QED
    BY <1>3, <1>4, FS_Injection
<1>6. QED
  BY <1>2, <1>5, LinkedFacts DEF Chain

-----------------------------------------------------------------------------
\* What a step may do to the list and the queues beside a consumer's own.
ListGrows ==
  /\ \A p \in Producers : /\ tailIndex[p] <= tailIndex'[p]
                          /\ headIndex[p] <= headIndex'[p]
  /\ Linked \subseteq Linked'
  /\ \/ next' = next
     \/ \E m \in Producers \ Linked : \A p \in Producers \ {m} : next'[p] = next[p]

LEMMA AroundStays ==
  ASSUME IInv, Chain, NEW m \in Producers \ Linked,
         \A p \in Producers \ {m} : next'[p] = next[p],
         NEW l, l.tail \in Linked, l.ptr \in Linked,
         NEW current, NEW p \in Producers, Around(l, current, p)
  PROVE  Around(l, current, p)'
<1>1. SUFFICES ASSUME NEW S \in SUBSET Producers, l.ptr \in S,
                      \A q \in S \ {current} : After(q, l.tail)' \in S
               PROVE  p \in S
  BY DEF Around
<1>2. \A q \in S \ {m} : After(q, l.tail)' = After(q, l.tail) /\ After(q, l.tail) # m
  BY DEF After, Chain
<1>3. \A q \in (S \ {m}) \ {current} : After(q, l.tail) \in S \ {m}
  BY <1>1, <1>2
<1>4. l.ptr \in S \ {m}
  BY <1>1
<1>5. p \in S \ {m}
  BY <1>3, <1>4 DEF Around
<1>6. QED
  BY <1>5

LEMMA SoundStays ==
  ASSUME IInv, LInv, LInv', NEW s, NEW l \in LocalsType, NEW k \in TokenType,
         Sound(s, l, k), ListGrows
  PROVE  Sound(s, l, k)'
<1>1. \A p \in Producers :
        /\ l.seen[p] \in Nat /\ headIndex[p] \in Nat /\ headIndex'[p] \in Nat
        /\ tailIndex[p] \in Nat /\ tailIndex'[p] \in Nat
  BY DEF LocalsType, LInv, Queues
<1>2. \A p \in Producers : l.seen[p] <= tailIndex'[p] /\ (Due(l, p)' => Due(l, p))
  BY <1>1 DEF Sound, ListGrows, Due
<1>3. AllAhead(l) => AllAhead(l)'
  <2>1. SUFFICES ASSUME AllAhead(l), NEW p \in Producers, Due(l, p)'
                 PROVE  Ahead(l.ptr, p)'
    BY DEF AllAhead
  <2>2. Ahead(l.ptr, p)
    BY <1>2, <2>1 DEF AllAhead
  <2>3. CASE next' = next
    BY <2>2, <2>3 DEF Ahead, Closed
  <2>4. CASE next' # next
    <3>1. PICK m \in Producers \ Linked : \A q \in Producers \ {m} : next'[q] = next[q]
      BY <2>4 DEF ListGrows
    <3>2. next[m] = Null
      BY DEF LInv, Chain
    <3>3. QED
      BY <2>2, <3>1, <3>2, StillAhead
  <2>5. QED
    BY <2>3, <2>4
<1>4. s = "walk" => AllAround(l, k.current)'
  <2>1. SUFFICES ASSUME s = "walk", NEW p \in Producers, Due(l, p)'
                 PROVE  Around(l, k.current, p)'
    BY DEF AllAround
  <2>2. Around(l, k.current, p) /\ l.tail \in Linked /\ l.ptr \in Linked
    BY <1>2, <2>1 DEF Sound, AllAround
  <2>3. CASE next' = next
    BY <2>2, <2>3 DEF Around, After
  <2>4. CASE next' # next
    <3>1. PICK m \in Producers \ Linked : \A q \in Producers \ {m} : next'[q] = next[q]
      BY <2>4 DEF ListGrows
    <3>2. QED
      BY <2>2, <3>1, AroundStays DEF LInv
  <2>5. QED
    BY <2>3, <2>4
<1>5. /\ s = "others" /\ l.best # Null => ~Due(l, l.best)'
      /\ s = "walk" => ~Due(l, k.current)'
  <2>1. l.best \in Producers \cup {Null}
    BY DEF LocalsType
  <2>2. s = "walk" => k.current \in Producers
    BY LinkedFacts DEF Sound
  <2>3. QED
    BY <1>2, <2>1, <2>2 DEF Sound
<1>6. \A p \in Linked : p \in Linked'
  BY DEF ListGrows
<1>7. QED
  BY <1>2, <1>3, <1>4, <1>5, <1>6 DEF Sound

\* What a step of consumer c keeps, and what it shows if c returns with nothing.
GoodStep(c) ==
  /\ UNCHANGED <<list, tailIndex, actors>>
  /\ headIndex' \in [Producers -> Nat]
  /\ \A p \in Producers : headIndex[p] <= headIndex'[p] /\ headIndex'[p] <= tailIndex[p]
  /\ globalExplicitConsumerOffset' \in Nat
  /\ \E s : \E l \in LocalsType, k \in TokenType :
       /\ cpc' = [cpc EXCEPT ![c] = s] /\ loc' = [loc EXCEPT ![c] = l]
       /\ token' = [token EXCEPT ![c] = k]
       /\ Sound(s, l, k)'
  /\ ShortReturn(c) => \A p \in Producers : ~Due(loc[c], p)

LEMMA Good ==
  ASSUME NEW c, NEW s, NEW l \in LocalsType, NEW k \in TokenType,
         UNCHANGED <<list, tailIndex, actors>>,
         headIndex' \in [Producers -> Nat],
         \A p \in Producers : headIndex[p] <= headIndex'[p] /\ headIndex'[p] <= tailIndex[p],
         globalExplicitConsumerOffset' \in Nat,
         cpc' = [cpc EXCEPT ![c] = s], loc' = [loc EXCEPT ![c] = l],
         token' = [token EXCEPT ![c] = k], Sound(s, l, k)',
         ShortReturn(c) => \A p \in Producers : ~Due(loc[c], p)
  PROVE  GoodStep(c)
BY DEF GoodStep

LEMMA SameList ==
  ASSUME UNCHANGED <<list, tailIndex, actors>>
  PROVE  /\ Linked' = Linked /\ next' = next
         /\ (Chain => Chain') /\ (Explicit => Explicit')
         /\ \A q, p : Ahead(q, p)' <=> Ahead(q, p)
         /\ \A l, current, p : Around(l, current, p)' <=> Around(l, current, p)
<1>1. UNCHANGED <<producerListTail, producerCount, next, inactive, isExplicit, created, pc,
                  mine>>
  BY DEF list, actors
<1>2. /\ Linked' = Linked /\ CountsOne' = CountsOne
      /\ \A q, p : Ahead(q, p)' <=> Ahead(q, p)
      /\ \A l, current, p : Around(l, current, p)' <=> Around(l, current, p)
  BY <1>1 DEF Linked, Adds, CountsOne, Ahead, Closed, Around, After
<1>3. Grounded' <=> Grounded
  BY <1>1, <1>2 DEF Grounded
<1>4. Chain => Chain'
  BY <1>1, <1>2, <1>3 DEF Chain
<1>5. Explicit => Explicit'
  BY <1>1 DEF Explicit
<1>6. QED
  BY <1>1, <1>2, <1>4, <1>5

LEMMA ConsumerFacts ==
  ASSUME CInv, NEW c \in Consumers
  PROVE  /\ loc[c] \in LocalsType /\ token[c] \in TokenType
         /\ Sound(cpc[c], loc[c], token[c])
         /\ loc = [d \in Consumers |-> loc[d]] /\ token = [d \in Consumers |-> token[d]]
         /\ cpc = [d \in Consumers |-> cpc[d]]
BY DEF CInv

\* Without a change to the queues nothing is said anew about the heads.
LEMMA SameHeads ==
  ASSUME LInv, CInv, UNCHANGED <<headIndex, globalExplicitConsumerOffset>>
  PROVE  /\ headIndex' \in [Producers -> Nat]
         /\ \A p \in Producers : headIndex[p] <= headIndex'[p] /\ headIndex'[p] <= tailIndex[p]
         /\ globalExplicitConsumerOffset' \in Nat
BY DEF LInv, Queues, CInv

\* Whoever begins where the list does has all before it.
LEMMA AllAheadOfTail ==
  ASSUME LInv, NEW l \in LocalsType, l.ptr = producerListTail,
         \A p \in Producers : l.seen[p] <= tailIndex[p]
  PROVE  AllAhead(l)
BY DueOnList DEF AllAhead, LInv, Chain

LEMMA StartWalk ==
  ASSUME IInv, LInv, CInv, NEW c \in Consumers, TryDequeue(c) \/ TryDequeueBulk(c)
  PROVE  GoodStep(c)
<1>1. /\ loc[c] = NoLocals /\ cpc[c] = "idle"
      /\ token[c].desired # Null => token[c].desired \in Linked /\ token[c].current \in Linked
      /\ UNCHANGED <<list, tailIndex, headIndex, actors, globalExplicitConsumerOffset, token>>
  BY ConsumerFacts DEF TryDequeue, TryDequeueBulk, CGoto, Sound, queues
<1>2. PICK k \in TokenType : k = token[c]
  BY ConsumerFacts
<1>3. PICK s \in {"score", "others"}, want \in Nat \ {0} :
        /\ cpc' = [cpc EXCEPT ![c] = s]
        /\ loc' = [loc EXCEPT ![c].ptr = producerListTail, ![c].want = want,
                              ![c].seen = tailIndex]
  <2>1. CASE TryDequeue(c)
    <3>1. PICK want \in Nat \ {0} : want = 1
      OBVIOUS
    <3>2. /\ cpc' = [cpc EXCEPT ![c] = "score"]
          /\ loc' = [loc EXCEPT ![c].ptr = producerListTail, ![c].want = want,
                                ![c].seen = tailIndex]
      BY <2>1, <3>1 DEF TryDequeue, CGoto
    <3>3. QED
      BY <3>2
  <2>2. CASE TryDequeueBulk(c)
    BY <2>2, ConsumersAssumption DEF TryDequeueBulk, CGoto
  <2>3. QED
    BY <2>1, <2>2
<1>4. PICK l \in LocalsType :
        l = [ptr |-> producerListTail, best |-> Null, bestSize |-> 0, nonEmptyCount |-> 0,
             tail |-> Null, want |-> want, seen |-> tailIndex, lost |-> {}]
  BY DEF LocalsType, IInv, Types, LInv, Queues
<1>5. loc' = [loc EXCEPT ![c] = l]
  BY <1>1, <1>3, <1>4, ConsumerFacts DEF NoLocals
<1>6. \A p \in Producers : l.seen[p] <= tailIndex[p]
  BY <1>4 DEF LInv, Queues
<1>7. AllAhead(l)
  BY <1>4, <1>6, AllAheadOfTail
<1>8. Sound(s, l, k)'
  BY <1>1, <1>2, <1>3, <1>4, <1>6, <1>7, SameList DEF Sound, AllAhead, Due
<1>9. token' = [token EXCEPT ![c] = k]
  BY <1>1, <1>2, ConsumerFacts
<1>10. cpc'[c] # "idle"
  BY <1>3, ConsumerFacts
<1>11. QED
  BY <1>1, <1>3, <1>5, <1>8, <1>9, <1>10, SameHeads, Good DEF ShortReturn

LEMMA StartToken ==
  ASSUME IInv, LInv, CInv, NEW c \in Consumers, TryDequeueToken(c)
  PROVE  GoodStep(c)
<1>1. /\ loc[c] = NoLocals /\ cpc[c] = "idle"
      /\ token[c].desired # Null => token[c].desired \in Linked /\ token[c].current \in Linked
      /\ UNCHANGED <<list, tailIndex, headIndex, actors, globalExplicitConsumerOffset, token>>
  BY ConsumerFacts DEF TryDequeueToken, CGoto, Sound, queues
<1>2. PICK k \in TokenType : k = token[c]
  BY ConsumerFacts
<1>3. PICK s \in {"rotate", "current"}, want \in Nat \ {0} :
        /\ cpc' = [cpc EXCEPT ![c] = s]
        /\ s = "current" => token[c].desired # Null
        /\ loc' = [loc EXCEPT ![c].want = want, ![c].seen = tailIndex]
  <2>1. PICK want \in Nat \ {0} : loc' = [loc EXCEPT ![c].want = want, ![c].seen = tailIndex]
    BY ConsumersAssumption DEF TryDequeueToken
  <2>2. \E s \in {"rotate", "current"} : /\ cpc' = [cpc EXCEPT ![c] = s]
                                         /\ s = "current" => token[c].desired # Null
    <3>1. CASE token[c].desired = Null \/ token[c].lastKnown # globalExplicitConsumerOffset
      BY <3>1 DEF TryDequeueToken, CGoto
    <3>2. CASE ~(token[c].desired = Null \/ token[c].lastKnown # globalExplicitConsumerOffset)
      BY <3>2 DEF TryDequeueToken, CGoto
    <3>3. QED
      BY <3>1, <3>2
  <2>3. QED
    BY <2>1, <2>2
<1>4. PICK l \in LocalsType :
        l = [loc[c] EXCEPT !.want = want, !.seen = tailIndex]
  BY ConsumerFacts DEF LocalsType, LInv, Queues
<1>5. loc' = [loc EXCEPT ![c] = l] /\ l.want = want /\ l.seen = tailIndex
  BY <1>3, <1>4, ConsumerFacts DEF LocalsType
<1>6. \A p \in Producers : l.seen[p] <= tailIndex[p]
  BY <1>5 DEF LInv, Queues
<1>7. Sound(s, l, k)'
  BY <1>1, <1>2, <1>3, <1>5, <1>6, SameList DEF Sound
<1>8. token' = [token EXCEPT ![c] = k]
  BY <1>1, <1>2, ConsumerFacts
<1>9. cpc'[c] # "idle"
  BY <1>3, ConsumerFacts
<1>10. QED
  BY <1>1, <1>3, <1>5, <1>7, <1>8, <1>9, SameHeads, Good DEF ShortReturn

LEMMA Returns ==
  ASSUME LInv, CInv, NEW c \in Consumers, Return(c), NEW k \in TokenType,
         token' = [token EXCEPT ![c] = k],
         k.desired # Null => k.desired \in Linked /\ k.current \in Linked,
         UNCHANGED <<list, tailIndex, actors>>,
         headIndex' \in [Producers -> Nat],
         \A p \in Producers : headIndex[p] <= headIndex'[p] /\ headIndex'[p] <= tailIndex[p],
         globalExplicitConsumerOffset' \in Nat,
         headIndex' = headIndex => \A p \in Producers : ~Due(loc[c], p)
  PROVE  GoodStep(c)
<1>1. \A p \in Producers : NoLocals.seen[p] <= tailIndex[p]
  BY DEF NoLocals, LInv, Queues
<1>2. PICK l \in LocalsType : l = NoLocals
  BY NoLocalsType
<1>3. Sound("idle", l, k)'
  BY <1>1, <1>2, SameList DEF Sound, NoLocals
<1>4. cpc' = [cpc EXCEPT ![c] = "idle"] /\ loc' = [loc EXCEPT ![c] = l]
  BY <1>2 DEF Return
<1>5. QED
  BY <1>3, <1>4, Good DEF ShortReturn

\* A step of the scan that finds a queue empty has passed what is due there.
LEMMA PassBy ==
  ASSUME LInv, NEW l \in LocalsType, l.ptr \in Producers, AllAhead(l), ~Due(l, l.ptr),
         NEW n, n.ptr = next[l.ptr], n.seen = l.seen, n.lost = l.lost
  PROVE  AllAhead(n)
BY AheadOfNext DEF AllAhead, Due

LEMMA ScoreStep ==
  ASSUME IInv, LInv, CInv, NEW c \in Consumers, Score(c)
  PROVE  GoodStep(c)
<1>1. PICK l \in LocalsType, k \in TokenType : l = loc[c] /\ k = token[c]
  BY ConsumerFacts
<1>2. /\ cpc[c] = "score" /\ l.ptr \in Producers /\ Sound("score", l, k)
      /\ UNCHANGED <<list, tailIndex, headIndex, actors, globalExplicitConsumerOffset, token,
                     cpc>>
  BY <1>1, ConsumerFacts DEF Score, LocalsType, queues
<1>3. PICK size \in Nat : size = Size(l.ptr) /\ (size = 0 => headIndex[l.ptr] = tailIndex[l.ptr])
  BY <1>2 DEF Size, LInv, Queues
<1>4. PICK count \in Nat : count = IF size > 0 THEN l.nonEmptyCount + 1 ELSE l.nonEmptyCount
  BY DEF LocalsType
<1>5. PICK best \in Producers \cup {Null} : best = IF size > l.bestSize THEN l.ptr ELSE l.best
  BY DEF LocalsType
<1>6. PICK bestSize \in Nat : bestSize = IF size > l.bestSize THEN size ELSE l.bestSize
  BY DEF LocalsType
<1>7. loc' = [loc EXCEPT ![c].nonEmptyCount = count, ![c].best = best,
                         ![c].bestSize = bestSize, ![c].ptr = next[l.ptr]]
  BY <1>1, <1>3, <1>4, <1>5, <1>6 DEF Score
<1>8. next[l.ptr] \in Producers \cup {Null}
  BY <1>2 DEF IInv, Types
<1>9. PICK n \in LocalsType :
        n = [l EXCEPT !.nonEmptyCount = count, !.best = best, !.bestSize = bestSize,
                      !.ptr = next[l.ptr]]
  BY <1>8 DEF LocalsType
<1>10. /\ n.ptr = next[l.ptr] /\ n.seen = l.seen /\ n.want = l.want /\ n.lost = l.lost
       /\ n.nonEmptyCount = count /\ n.best = best /\ n.bestSize = bestSize
  BY <1>9 DEF LocalsType
<1>11. loc' = [loc EXCEPT ![c] = n]
  BY <1>1, <1>7, <1>9, ConsumerFacts DEF LocalsType
<1>12. count = 0 => size = 0 /\ l.nonEmptyCount = 0 /\ bestSize = 0 /\ AllAhead(n)
  <2>1. HAVE count = 0
  <2>2. size = 0 /\ l.nonEmptyCount = 0
    BY <1>4, <2>1 DEF LocalsType
  <2>3. l.bestSize = 0 /\ AllAhead(l)
    BY <1>2, <2>2 DEF Sound
  <2>4. ~Due(l, l.ptr)
    <3>1. /\ l.seen[l.ptr] \in Nat /\ headIndex[l.ptr] \in Nat
          /\ l.seen[l.ptr] <= tailIndex[l.ptr] /\ headIndex[l.ptr] = tailIndex[l.ptr]
      BY <1>2, <1>3, <2>2 DEF Sound, LInv, Queues, LocalsType
    <3>2. QED
      BY <3>1 DEF Due
  <2>5. AllAhead(n)
    BY <1>2, <1>10, <2>3, <2>4, PassBy
  <2>6. QED
    BY <1>6, <2>2, <2>3, <2>5
<1>13. count > 0 => best # Null
  <2>1. HAVE count > 0
  <2>2. CASE size > l.bestSize
    BY <1>2, <1>5, <2>2, LinkedFacts
  <2>3. CASE ~(size > l.bestSize)
    <3>1. l.nonEmptyCount > 0
      <4>1. size = 0 => l.nonEmptyCount > 0
        BY <1>4, <2>1
      <4>2. size > 0 /\ l.nonEmptyCount = 0 => FALSE
        BY <1>2, <2>3 DEF Sound
      <4>3. l.nonEmptyCount \in Nat
        BY DEF LocalsType
      <4>4. QED
        BY <4>1, <4>2, <4>3
    <3>2. QED
      BY <1>2, <1>5, <2>3, <3>1 DEF Sound
  <2>4. QED
    BY <2>2, <2>3
<1>14. Sound("score", n, k)'
  <2>1. \A p \in Producers : n.seen[p] <= tailIndex[p]
    BY <1>2, <1>10 DEF Sound
  <2>2. AllAhead(n)' <=> AllAhead(n)
    BY <1>2, SameList DEF AllAhead, Due
  <2>3. QED
    BY <1>2, <1>10, <1>12, <1>13, <2>1, <2>2, SameList DEF Sound
<1>15. cpc' = [cpc EXCEPT ![c] = "score"] /\ token' = [token EXCEPT ![c] = k]
  BY <1>1, <1>2, ConsumerFacts
<1>16. QED
  BY <1>2, <1>11, <1>14, <1>15, SameHeads, Good DEF ShortReturn

LEMMA ScoredStep ==
  ASSUME IInv, LInv, CInv, NEW c \in Consumers, Scored(c)
  PROVE  GoodStep(c)
<1>1. PICK l \in LocalsType, k \in TokenType : l = loc[c] /\ k = token[c]
  BY ConsumerFacts
<1>2. /\ cpc[c] = "score" /\ Sound("score", l, k)
      /\ UNCHANGED <<list, tailIndex, headIndex, actors, globalExplicitConsumerOffset, token>>
      /\ token' = [token EXCEPT ![c] = k]
      /\ l.ptr = Null \/ l.nonEmptyCount = ScoreLimit
  BY <1>1, ConsumerFacts DEF Scored, queues
<1>3. CASE l.nonEmptyCount > 0
  <2>1. /\ cpc' = [cpc EXCEPT ![c] = "best"]
        /\ loc' = [loc EXCEPT ![c].ptr = Null, ![c].bestSize = 0]
    BY <1>1, <1>3 DEF Scored, CGoto
  <2>2. PICK n \in LocalsType : n = [l EXCEPT !.ptr = Null, !.bestSize = 0]
    BY DEF LocalsType
  <2>3. /\ n.seen = l.seen /\ n.want = l.want /\ n.best = l.best
        /\ loc' = [loc EXCEPT ![c] = n]
    BY <1>1, <2>1, <2>2, ConsumerFacts DEF LocalsType
  <2>4. Sound("best", n, k)'
    BY <1>2, <1>3, <2>3, SameList DEF Sound
  <2>5. QED
    BY <1>2, <2>1, <2>3, <2>4, SameHeads, Good, ConsumerFacts DEF ShortReturn
<1>4. CASE ~(l.nonEmptyCount > 0)
  <2>1. l.nonEmptyCount = 0 /\ l.ptr = Null /\ Return(c)
    BY <1>1, <1>2, <1>4, ConsumersAssumption DEF LocalsType, Scored
  <2>2. \A p \in Producers : ~Due(l, p)
    BY <1>2, <2>1, EndOfList DEF Sound, AllAhead
  <2>3. k.desired # Null => k.desired \in Linked /\ k.current \in Linked
    BY <1>2 DEF Sound
  <2>4. QED
    BY <1>1, <1>2, <2>1, <2>2, <2>3, Returns, SameHeads
<1>5. QED
  BY <1>3, <1>4


\* Taking from a queue leaves less due, and nothing where it takes all or loses
\* some.
LEMMA DueLess ==
  ASSUME LInv, NEW l \in LocalsType, NEW n \in LocalsType, n.seen = l.seen,
         l.lost \subseteq n.lost,
         \A p \in Producers : l.seen[p] <= tailIndex[p],
         headIndex' \in [Producers -> Nat],
         \A p \in Producers : headIndex[p] <= headIndex'[p] /\ headIndex'[p] <= tailIndex[p]
  PROVE  \A p \in Producers : /\ Due(n, p)' => Due(l, p)
                              /\ headIndex'[p] = tailIndex[p] \/ p \in n.lost
                                   => ~Due(n, p)'
<1>1. TAKE p \in Producers
<1>2. /\ l.seen[p] \in Nat /\ headIndex[p] \in Nat /\ headIndex'[p] \in Nat
      /\ tailIndex[p] \in Nat /\ l.seen[p] <= tailIndex[p] /\ headIndex[p] <= headIndex'[p]
  BY DEF LocalsType, LInv, Queues
<1>3. QED
  BY <1>2 DEF Due

LEMMA BestStep ==
  ASSUME IInv, LInv, CInv, NEW c \in Consumers, Best(c)
  PROVE  GoodStep(c)
<1>1. PICK l \in LocalsType, k \in TokenType : l = loc[c] /\ k = token[c]
  BY ConsumerFacts
<1>2. /\ cpc[c] = "best" /\ Sound("best", l, k)
      /\ UNCHANGED <<list, tailIndex, actors, globalExplicitConsumerOffset, token>>
      /\ token' = [token EXCEPT ![c] = k]
  BY <1>1, ConsumerFacts DEF Best
<1>3. /\ l.best \in Producers /\ l.want \in Nat \ {0}
      /\ \A p \in Producers : l.seen[p] <= tailIndex[p]
      /\ k.desired # Null => k.desired \in Linked /\ k.current \in Linked
  BY <1>2 DEF Sound, LocalsType
<1>4. PICK taken \in Outcomes(c, l.best) :
        /\ TakeFrom(l.best, taken)
        /\ IF taken > 0
           THEN Return(c)
           ELSE /\ CGoto(c, "best", "others")
                /\ loc' = [loc EXCEPT ![c].ptr = producerListTail,
                                      ![c].lost = Lost(c, l.best, 0)]
  BY <1>1 DEF Best
<1>9. /\ headIndex' \in [Producers -> Nat]
      /\ \A q \in Producers : headIndex[q] <= headIndex'[q] /\ headIndex'[q] <= tailIndex[q]
      /\ taken \in Nat
      /\ taken = 0 => headIndex' = headIndex
      /\ taken = 0 => headIndex'[l.best] = tailIndex[l.best] \/ l.best \in Lost(c, l.best, 0)
      /\ taken > 0 => headIndex' # headIndex
  BY <1>1, <1>3, <1>4, TakeFacts DEF LInv
<1>5. globalExplicitConsumerOffset' \in Nat
  BY <1>2 DEF CInv
<1>6. CASE taken > 0
  <2>1. Return(c)
    BY <1>4, <1>6
  <2>2. QED
    BY <1>2, <1>3, <1>5, <1>6, <1>9, <2>1, Returns
<1>7. CASE taken = 0
  <2> DEFINE lost == Lost(c, l.best, 0)
  <2>11. lost \in SUBSET Producers /\ l.lost \subseteq lost
    BY <1>1, <1>3, LostFacts
  <2> HIDE DEF lost
  <2>1. /\ cpc' = [cpc EXCEPT ![c] = "others"]
        /\ loc' = [loc EXCEPT ![c].ptr = producerListTail, ![c].lost = lost]
    BY <1>4, <1>7 DEF CGoto, lost
  <2>2. PICK n \in LocalsType : n = [l EXCEPT !.ptr = producerListTail, !.lost = lost]
    BY <2>11 DEF LocalsType, IInv, Types
  <2>3. /\ n.seen = l.seen /\ n.want = l.want /\ n.best = l.best /\ n.ptr = producerListTail
        /\ n.lost = lost /\ loc' = [loc EXCEPT ![c] = n]
    BY <1>1, <2>1, <2>2, ConsumerFacts DEF LocalsType
  <2>5. \A p \in Producers : /\ Due(n, p)' => Due(l, p)
                             /\ headIndex'[p] = tailIndex[p] \/ p \in n.lost => ~Due(n, p)'
    BY <1>3, <1>9, <2>3, <2>11, DueLess
  <2>6. ~Due(n, n.best)'
    BY <1>3, <1>7, <1>9, <2>3, <2>5 DEF lost
  <2>7. AllAhead(n)'
    <3>1. SUFFICES ASSUME NEW p \in Producers, Due(n, p)' PROVE Ahead(n.ptr, p)'
      BY DEF AllAhead
    <3>2. p \in Linked
      BY <1>3, <2>5, <3>1, DueOnList
    <3>3. QED
      BY <1>2, <2>3, <3>2, SameList DEF LInv, Chain
  <2>8. Sound("others", n, k)'
    BY <1>2, <1>3, <2>3, <2>6, <2>7, SameList DEF Sound
  <2>9. cpc'[c] # "idle"
    BY <2>1, ConsumerFacts
  <2>10. QED
    BY <1>2, <1>5, <1>9, <2>1, <2>3, <2>8, <2>9, Good DEF ShortReturn
<1>8. QED
  BY <1>6, <1>7, <1>9

LEMMA OthersStep ==
  ASSUME IInv, LInv, CInv, NEW c \in Consumers, Others(c)
  PROVE  GoodStep(c)
<1>1. PICK l \in LocalsType, k \in TokenType : l = loc[c] /\ k = token[c]
  BY ConsumerFacts
<1>2. /\ cpc[c] = "others" /\ Sound("others", l, k)
      /\ UNCHANGED <<list, tailIndex, actors, globalExplicitConsumerOffset, token>>
      /\ token' = [token EXCEPT ![c] = k]
  BY <1>1, ConsumerFacts DEF Others
<1>3. /\ l.ptr \in Producers \cup {Null} /\ l.best \in Producers \cup {Null}
      /\ l.want \in Nat \ {0} /\ AllAhead(l) /\ (l.best # Null => ~Due(l, l.best))
      /\ \A p \in Producers : l.seen[p] <= tailIndex[p]
      /\ k.desired # Null => k.desired \in Linked /\ k.current \in Linked
  BY <1>2 DEF Sound, LocalsType
<1>4. globalExplicitConsumerOffset' \in Nat
  BY <1>2 DEF CInv
<1>5. CASE l.ptr = Null
  <2>1. Return(c) /\ UNCHANGED headIndex
    BY <1>1, <1>2, <1>5 DEF Others
  <2>2. \A p \in Producers : ~Due(l, p)
    BY <1>3, <1>5, EndOfList DEF AllAhead
  <2>3. QED
    BY <1>1, <1>2, <1>3, <2>1, <2>2, Returns, SameHeads
<1>6. CASE l.ptr # Null
  <2>1. l.ptr \in Producers
    BY <1>3, <1>6
  <2>2. PICK taken \in Nat, lost \in SUBSET Producers :
          /\ taken <= l.want /\ l.lost \subseteq lost
          /\ IF taken = l.want
             THEN Return(c)
             ELSE /\ loc' = [loc EXCEPT ![c].ptr = next[l.ptr], ![c].want = @ - taken,
                                        ![c].lost = lost]
                  /\ UNCHANGED cpc
          /\ headIndex' \in [Producers -> Nat]
          /\ \A q \in Producers : headIndex[q] <= headIndex'[q] /\ headIndex'[q] <= tailIndex[q]
          /\ taken > 0 => headIndex' # headIndex
          /\ \/ l.ptr = l.best
             \/ taken < l.want => headIndex'[l.ptr] = tailIndex[l.ptr] \/ l.ptr \in lost
    <3>1. CASE l.ptr = l.best
      <4>1. PICK taken \in Nat, lost \in SUBSET Producers : taken = 0 /\ lost = l.lost
        BY DEF LocalsType
      <4>2. UNCHANGED <<headIndex, cpc>> /\ loc' = [loc EXCEPT ![c].ptr = next[l.ptr]]
        BY <1>1, <1>2, <1>6, <3>1 DEF Others
      <4>3. loc' = [loc EXCEPT ![c].ptr = next[l.ptr], ![c].want = @ - taken,
                               ![c].lost = lost]
        <5>1. l.want - taken = l.want
          BY <1>3, <4>1
        <5>2. [l EXCEPT !.ptr = next[l.ptr]] =
              [l EXCEPT !.ptr = next[l.ptr], !.want = l.want - taken, !.lost = lost]
          BY <4>1, <5>1 DEF LocalsType
        <5>3. QED
          BY <1>1, <4>2, <5>2, ConsumerFacts
      <4>4. /\ headIndex' \in [Producers -> Nat]
            /\ \A q \in Producers : headIndex[q] <= headIndex'[q] /\ headIndex'[q] <= tailIndex[q]
        BY <1>2, <4>2, SameHeads
      <4>5. taken <= l.want /\ taken # l.want /\ l.lost \subseteq lost /\ ~(taken > 0)
        BY <1>3, <4>1
      <4>6. UNCHANGED cpc
        BY <4>2
      <4>7. QED
        BY <3>1, <4>3, <4>4, <4>5, <4>6
    <3>2. CASE l.ptr # l.best
      <4>1. PICK taken \in Outcomes(c, l.ptr) :
              /\ TakeFrom(l.ptr, taken)
              /\ IF taken = l.want
                 THEN Return(c)
                 ELSE /\ loc' = [loc EXCEPT ![c].ptr = next[l.ptr], ![c].want = @ - taken,
                                            ![c].lost = Lost(c, l.ptr, taken)]
                      /\ UNCHANGED cpc
        BY <1>1, <1>6, <3>2 DEF Others
      <4>2. /\ headIndex' \in [Producers -> Nat]
            /\ \A q \in Producers : headIndex[q] <= headIndex'[q] /\ headIndex'[q] <= tailIndex[q]
            /\ taken \in Nat /\ taken <= l.want
            /\ taken > 0 => headIndex' # headIndex
            /\ taken < l.want => headIndex'[l.ptr] = tailIndex[l.ptr]
                                   \/ l.ptr \in Lost(c, l.ptr, taken)
        BY <1>1, <1>3, <2>1, <4>1, TakeFacts DEF LInv
      <4>3. Lost(c, l.ptr, taken) \in SUBSET Producers /\ l.lost \subseteq Lost(c, l.ptr, taken)
        BY <1>1, <2>1, LostFacts
      <4>4. QED
        BY <4>1, <4>2, <4>3
    <3>3. QED
      BY <3>1, <3>2
  <2>3. CASE taken = l.want
    <3>1. Return(c)
      BY <2>2, <2>3
    <3>2. headIndex' # headIndex
      BY <1>3, <2>2, <2>3
    <3>3. QED
      BY <1>2, <1>3, <1>4, <2>2, <3>1, <3>2, Returns
  <2>4. CASE taken # l.want
    <3>1. PICK want \in Nat \ {0} : want = l.want - taken
      BY <1>3, <2>2, <2>4
    <3>2. next[l.ptr] \in Producers \cup {Null}
      BY <2>1 DEF IInv, Types
    <3>3. PICK n \in LocalsType : n = [l EXCEPT !.ptr = next[l.ptr], !.want = want,
                                           !.lost = lost]
      BY <3>2 DEF LocalsType
    <3>4. /\ loc' = [loc EXCEPT ![c].ptr = next[l.ptr], ![c].want = want, ![c].lost = lost]
          /\ UNCHANGED cpc
      BY <1>1, <2>2, <2>4, <3>1, ConsumerFacts
    <3>5. /\ n.seen = l.seen /\ n.want = want /\ n.best = l.best /\ n.ptr = next[l.ptr]
          /\ n.lost = lost /\ loc' = [loc EXCEPT ![c] = n]
      BY <1>1, <3>3, <3>4, ConsumerFacts DEF LocalsType
    <3>6. \A p \in Producers : /\ Due(n, p)' => Due(l, p)
                               /\ headIndex'[p] = tailIndex[p] \/ p \in n.lost => ~Due(n, p)'
      BY <1>3, <2>2, <3>5, DueLess
    <3>7. n.best # Null => ~Due(n, n.best)'
      BY <1>3, <3>5, <3>6
    <3>8. ~Due(n, l.ptr)'
      <4>1. taken < l.want
        BY <1>3, <2>2, <2>4
      <4>2. QED
        BY <1>3, <1>6, <2>1, <2>2, <3>5, <3>6, <4>1
    <3>9. AllAhead(n)'
      <4>1. SUFFICES ASSUME NEW p \in Producers, Due(n, p)' PROVE Ahead(n.ptr, p)'
        BY DEF AllAhead
      <4>2. Due(l, p) /\ p # l.ptr
        BY <3>6, <3>8, <4>1
      <4>3. Ahead(l.ptr, p)
        BY <1>3, <4>2 DEF AllAhead
      <4>4. QED
        BY <1>2, <2>1, <3>5, <4>2, <4>3, AheadOfNext, SameList
    <3>10. Sound("others", n, k)'
      BY <1>2, <1>3, <3>1, <3>5, <3>7, <3>9, SameList DEF Sound
    <3>11. cpc' = [cpc EXCEPT ![c] = "others"]
      BY <1>2, <3>4, ConsumerFacts
    <3>12. cpc'[c] # "idle"
      BY <1>2, <3>4
    <3>13. QED
      BY <1>2, <1>4, <2>2, <3>5, <3>10, <3>11, <3>12, Good DEF ShortReturn
  <2>5. QED
    BY <2>3, <2>4
<1>7. QED
  BY <1>5, <1>6


LEMMA RotateStep ==
  ASSUME IInv, LInv, CInv, NEW c \in Consumers, Rotate(c)
  PROVE  GoodStep(c)
<1>1. PICK l \in LocalsType, k \in TokenType : l = loc[c] /\ k = token[c]
  BY ConsumerFacts
<1>2. /\ cpc[c] = "rotate" /\ Sound("rotate", l, k)
      /\ UNCHANGED <<list, tailIndex, headIndex, actors, globalExplicitConsumerOffset, token>>
      /\ token' = [token EXCEPT ![c] = k]
  BY <1>1, ConsumerFacts DEF Rotate, queues
<1>3. /\ l.want > 0 /\ \A p \in Producers : l.seen[p] <= tailIndex[p]
      /\ k.desired # Null => k.desired \in Linked /\ k.current \in Linked
  BY <1>2 DEF Sound
<1>4. CASE k.desired = Null /\ producerListTail = Null
  <2>1. Return(c)
    BY <1>1, <1>4 DEF Rotate
  <2>2. Linked = {}
    BY <1>4, TailOnList DEF LInv
  <2>3. \A p \in Producers : ~Due(l, p)
    BY <1>3, <2>2, DueOnList
  <2>4. QED
    BY <1>1, <1>2, <1>3, <2>1, <2>3, Returns, SameHeads
<1>5. CASE ~(k.desired = Null /\ producerListTail = Null)
  <2>1. /\ cpc' = [cpc EXCEPT ![c] = "place"]
        /\ loc' = [loc EXCEPT ![c].tail = producerListTail]
    BY <1>1, <1>5 DEF Rotate, CGoto
  <2>2. producerListTail \in Linked
    <3>1. k.desired # Null => Linked # {}
      BY <1>3
    <3>2. QED
      BY <1>5, <3>1, TailOnList DEF LInv, Chain
  <2>3. PICK n \in LocalsType : n = [l EXCEPT !.tail = producerListTail]
    BY DEF LocalsType, IInv, Types
  <2>4. /\ n.seen = l.seen /\ n.want = l.want /\ n.tail = producerListTail
        /\ n.lost = l.lost /\ loc' = [loc EXCEPT ![c] = n]
    BY <1>1, <2>1, <2>3, ConsumerFacts DEF LocalsType
  <2>5. Sound("place", n, k)'
    BY <1>2, <1>3, <2>2, <2>4, SameList DEF Sound
  <2>6. cpc'[c] # "idle"
    BY <2>1, ConsumerFacts
  <2>7. QED
    BY <1>2, <2>1, <2>4, <2>5, <2>6, SameHeads, Good DEF ShortReturn
<1>6. QED
  BY <1>4, <1>5

LEMMA RotatedStep ==
  ASSUME IInv, LInv, CInv, NEW c \in Consumers, Place(c)
  PROVE  GoodStep(c)
<1>1. PICK l \in LocalsType, k \in TokenType : l = loc[c] /\ k = token[c]
  BY ConsumerFacts
<1>2. /\ cpc[c] = "place" /\ cpc' = [cpc EXCEPT ![c] = "current"]
      /\ loc' = [loc EXCEPT ![c].tail = Null]
      /\ Sound("place", l, k)
      /\ UNCHANGED <<list, tailIndex, headIndex, actors, globalExplicitConsumerOffset>>
  BY <1>1, ConsumerFacts DEF Place, CGoto, queues
<1>3. /\ l.want > 0 /\ \A p \in Producers : l.seen[p] <= tailIndex[p]
      /\ k.desired # Null => k.desired \in Linked /\ k.current \in Linked
      /\ l.tail \in Linked
  BY <1>2 DEF Sound
<1>4. producerCount \in Nat \ {0}
  BY <1>3, SomeCounted DEF LInv
<1>5. PICK offset \in Nat :
        offset = producerCount - 1 - (k.initialOffset % producerCount)
  BY <1>4 DEF TokenType
<1>6. PICK start \in Linked :
        start = IF k.desired = Null THEN Along(l.tail, offset, l.tail) ELSE k.desired
  BY <1>3, AlongOnList DEF LInv
<1>7. PICK delta \in Nat :
        delta = (globalExplicitConsumerOffset - k.lastKnown) % producerCount
  BY <1>4 DEF TokenType, CInv
<1>8. PICK producer \in Linked : producer = Along(start, delta, l.tail)
  BY <1>3, AlongOnList DEF LInv
<1>9. token' = [token EXCEPT
         ![c].lastKnown = globalExplicitConsumerOffset, ![c].desired = producer,
         ![c].current = producer, ![c].consumed = 0]
  BY <1>1, <1>5, <1>6, <1>7, <1>8 DEF Place
<1>10. producer \in Producers
  BY LinkedFacts
<1>11. PICK m \in TokenType :
         m = [k EXCEPT !.lastKnown = globalExplicitConsumerOffset, !.desired = producer,
                       !.current = producer, !.consumed = 0]
  <2>1. PICK known \in Int : known = globalExplicitConsumerOffset
    BY DEF CInv
  <2>2. [k EXCEPT !.lastKnown = known, !.desired = producer, !.current = producer,
                  !.consumed = 0] \in TokenType
    BY <1>10 DEF TokenType
  <2>3. QED
    BY <2>1, <2>2
<1>12. /\ m.desired = producer /\ m.current = producer
       /\ token' = [token EXCEPT ![c] = m]
  BY <1>1, <1>9, <1>11, ConsumerFacts DEF TokenType
<1>13. PICK n \in LocalsType : n = [l EXCEPT !.tail = Null]
  BY DEF LocalsType
<1>14. /\ n.seen = l.seen /\ n.want = l.want
       /\ loc' = [loc EXCEPT ![c] = n]
  BY <1>1, <1>2, <1>13, ConsumerFacts DEF LocalsType
<1>15. Sound("current", n, m)'
  BY <1>2, <1>3, <1>10, <1>12, <1>14, LinkedFacts, SameList DEF Sound
<1>16. cpc'[c] # "idle"
  BY <1>2, ConsumerFacts
<1>17. QED
  BY <1>2, <1>12, <1>14, <1>15, <1>16, SameHeads, Good DEF ShortReturn

\* Turns of a token begin where its last element came from.
LEMMA CurrentStep ==
  ASSUME IInv, LInv, CInv, NEW c \in Consumers, Current(c)
  PROVE  GoodStep(c)
<1>1. PICK l \in LocalsType, k \in TokenType : l = loc[c] /\ k = token[c]
  BY ConsumerFacts
<1>2. /\ cpc[c] = "current" /\ Sound("current", l, k)
      /\ UNCHANGED <<list, tailIndex, actors>>
  BY <1>1, ConsumerFacts DEF Current
<1>3. /\ l.want \in Nat \ {0} /\ \A p \in Producers : l.seen[p] <= tailIndex[p]
      /\ k.desired \in Linked /\ k.current \in Linked /\ k.current \in Producers
      /\ k.desired # Null
  BY <1>2, LinkedFacts DEF Sound, LocalsType
<1>4. PICK taken \in Outcomes(c, k.current) :
        /\ TakeFrom(k.current, taken)
        /\ token' = [token EXCEPT ![c].consumed = @ + taken]
        /\ \E turn \in {0, 1} :
             globalExplicitConsumerOffset' = globalExplicitConsumerOffset + turn
        /\ IF l.want - taken = 0
           THEN Return(c)
           ELSE /\ CGoto(c, "current", "walk")
                /\ loc' = [loc EXCEPT
                     ![c].ptr = After(k.current, producerListTail),
                     ![c].tail = producerListTail, ![c].want = l.want - taken,
                     ![c].lost = Lost(c, k.current, taken)]
  BY <1>1 DEF Current, Turns
<1>5. /\ headIndex' \in [Producers -> Nat]
      /\ \A q \in Producers : headIndex[q] <= headIndex'[q] /\ headIndex'[q] <= tailIndex[q]
      /\ taken \in Nat /\ taken <= l.want
      /\ taken < l.want => headIndex'[k.current] = tailIndex[k.current]
                             \/ k.current \in Lost(c, k.current, taken)
      /\ taken > 0 => headIndex' # headIndex
  BY <1>1, <1>3, <1>4, TakeFacts DEF LInv
<1>6. PICK consumed \in Nat : consumed = k.consumed + taken
  BY <1>5 DEF TokenType
<1>7. PICK m \in TokenType : m = [k EXCEPT !.consumed = consumed]
  BY DEF TokenType
<1>8. /\ m.desired = k.desired /\ m.current = k.current
      /\ token' = [token EXCEPT ![c] = m]
  <2>1. m.desired = k.desired /\ m.current = k.current
    BY <1>7 DEF TokenType
  <2>2. token' = [token EXCEPT ![c].consumed = @ + taken]
    BY <1>4
  <2>3. token' = [token EXCEPT ![c] = m]
    BY <1>1, <1>6, <1>7, <2>2, ConsumerFacts DEF TokenType
  <2>4. QED
    BY <2>1, <2>3
<1>9. globalExplicitConsumerOffset' \in Nat
  BY <1>4 DEF CInv
<1>10. PICK left \in Nat : left = l.want - taken
  BY <1>3, <1>5
<1>11. CASE left = 0
  <2>1. Return(c)
    BY <1>4, <1>10, <1>11
  <2>2. headIndex' # headIndex
    BY <1>3, <1>5, <1>10, <1>11
  <2>3. QED
    BY <1>2, <1>3, <1>5, <1>8, <1>9, <2>1, <2>2, Returns
<1>12. CASE left # 0
  <2> DEFINE lost == Lost(c, k.current, taken)
  <2>13. lost \in SUBSET Producers /\ l.lost \subseteq lost
    BY <1>1, <1>3, LostFacts
  <2>14. taken < l.want => headIndex'[k.current] = tailIndex[k.current] \/ k.current \in lost
    BY <1>5
  <2>1. /\ cpc' = [cpc EXCEPT ![c] = "walk"]
        /\ loc' = [loc EXCEPT ![c].ptr = After(k.current, producerListTail),
                              ![c].tail = producerListTail, ![c].want = left,
                              ![c].lost = lost]
    BY <1>4, <1>10, <1>12 DEF CGoto
  <2> HIDE DEF lost
  <2>2. producerListTail \in Linked
    BY <1>3, TailOnList DEF LInv
  <2>3. PICK ptr \in Linked : ptr = After(k.current, producerListTail)
    BY <1>3, <2>2, AfterOnList DEF LInv
  <2>4. ptr \in Producers /\ producerListTail \in Producers
    BY <2>2, LinkedFacts
  <2>5. PICK n \in LocalsType :
          n = [l EXCEPT !.ptr = ptr, !.tail = producerListTail, !.want = left,
                     !.lost = lost]
    BY <2>4, <2>13 DEF LocalsType
  <2>6. /\ n.seen = l.seen /\ n.want = left /\ n.tail = producerListTail /\ n.ptr = ptr
        /\ n.lost = lost /\ loc' = [loc EXCEPT ![c] = n]
    BY <1>1, <2>1, <2>3, <2>5, ConsumerFacts DEF LocalsType
  <2>7. \A p \in Producers : /\ Due(n, p)' => Due(l, p)
                             /\ headIndex'[p] = tailIndex[p] \/ p \in n.lost => ~Due(n, p)'
    BY <1>3, <1>5, <2>6, <2>13, DueLess
  <2>8. ~Due(n, k.current)'
    BY <1>3, <1>5, <1>10, <1>12, <2>6, <2>7, <2>14
  <2>9. AllAround(n, k.current)'
    <3>1. SUFFICES ASSUME NEW p \in Producers, Due(n, p)' PROVE Around(n, k.current, p)
      BY <1>2, SameList DEF AllAround
    <3>2. p \in Linked /\ p # k.current
      BY <1>3, <2>7, <2>8, <3>1, DueOnList
    <3>3. SUFFICES ASSUME NEW S \in SUBSET Producers, ptr \in S,
                          \A q \in S \ {k.current} : After(q, producerListTail) \in S
                   PROVE  p \in S
      BY <2>6 DEF Around
    <3>4. \A q \in S \cup {k.current} : After(q, producerListTail) \in S \cup {k.current}
      BY <2>3, <3>3
    <3>5. Linked \subseteq S \cup {k.current}
      BY <1>3, <3>4, AllTheWayRound DEF LInv
    <3>6. QED
      BY <3>2, <3>5
  <2>10. Sound("walk", n, m)'
    BY <1>2, <1>3, <1>8, <1>10, <1>12, <2>2, <2>6, <2>8, <2>9, SameList DEF Sound
  <2>11. cpc'[c] # "idle"
    BY <2>1, ConsumerFacts
  <2>12. QED
    BY <1>2, <1>5, <1>8, <1>9, <2>1, <2>6, <2>10, <2>11, Good DEF ShortReturn
<1>13. QED
  BY <1>11, <1>12

LEMMA WalkStep ==
  ASSUME IInv, LInv, CInv, NEW c \in Consumers, Walk(c)
  PROVE  GoodStep(c)
<1>1. PICK l \in LocalsType, k \in TokenType : l = loc[c] /\ k = token[c]
  BY ConsumerFacts
<1>2. /\ cpc[c] = "walk" /\ Sound("walk", l, k)
      /\ UNCHANGED <<list, tailIndex, actors, globalExplicitConsumerOffset>>
  BY <1>1, ConsumerFacts DEF Walk
<1>3. /\ l.want \in Nat \ {0} /\ \A p \in Producers : l.seen[p] <= tailIndex[p]
      /\ k.desired \in Linked /\ k.current \in Linked /\ k.desired # Null
      /\ l.tail \in Linked /\ l.ptr \in Linked /\ l.ptr \in Producers
      /\ ~Due(l, k.current) /\ AllAround(l, k.current)
  BY <1>2, LinkedFacts DEF Sound, LocalsType
<1>4. globalExplicitConsumerOffset' \in Nat
  BY <1>2 DEF CInv
<1>5. CASE l.ptr = k.current
  <2>1. Return(c) /\ UNCHANGED <<headIndex, token>>
    BY <1>1, <1>5 DEF Walk
  <2>2. \A p \in Producers : ~Due(l, p)
    <3>1. SUFFICES ASSUME NEW p \in Producers, Due(l, p) PROVE FALSE
      OBVIOUS
    <3>2. Around(l, k.current, p)
      BY <1>3, <3>1 DEF AllAround
    <3>3. p \in {k.current}
      BY <1>3, <1>5, <3>2 DEF Around
    <3>4. QED
      BY <1>3, <3>1, <3>3
  <2>3. token' = [token EXCEPT ![c] = k]
    BY <1>1, <2>1, ConsumerFacts
  <2>4. QED
    BY <1>1, <1>2, <1>3, <2>1, <2>2, <2>3, Returns, SameHeads
<1>6. CASE l.ptr # k.current
  <2>1. PICK taken \in Outcomes(c, l.ptr) :
          /\ TakeFrom(l.ptr, taken)
          /\ token' = IF taken = 0 THEN token
                      ELSE [token EXCEPT ![c].current = l.ptr, ![c].consumed = taken]
          /\ IF taken = l.want
             THEN Return(c)
             ELSE /\ loc' = [loc EXCEPT ![c].ptr = After(l.ptr, l.tail),
                                        ![c].want = @ - taken,
                                        ![c].lost = Lost(c, l.ptr, taken)]
                  /\ UNCHANGED cpc
    BY <1>1, <1>6 DEF Walk, WalkOn
  <2>2. PICK lost \in SUBSET Producers : lost = Lost(c, l.ptr, taken) /\ l.lost \subseteq lost
    BY <1>1, <1>3, LostFacts
  <2>3. /\ headIndex' \in [Producers -> Nat]
        /\ \A q \in Producers : headIndex[q] <= headIndex'[q] /\ headIndex'[q] <= tailIndex[q]
        /\ taken \in Nat /\ taken <= l.want
        /\ taken < l.want => headIndex'[l.ptr] = tailIndex[l.ptr] \/ l.ptr \in lost
        /\ taken > 0 => headIndex' # headIndex
    BY <1>1, <1>3, <2>1, <2>2, TakeFacts DEF LInv
  <2>4. PICK m \in TokenType :
          /\ m.desired = k.desired /\ m.current = IF taken = 0 THEN k.current ELSE l.ptr
          /\ token' = [token EXCEPT ![c] = m]
    <3>1. token' = IF taken = 0 THEN token
                   ELSE [token EXCEPT ![c].current = l.ptr, ![c].consumed = taken]
      BY <2>1
    <3>2. CASE taken = 0
      BY <1>1, <3>1, <3>2, ConsumerFacts
    <3>3. CASE taken # 0
      <4>1. PICK m \in TokenType : m = [k EXCEPT !.current = l.ptr, !.consumed = taken]
        BY <1>3, <2>3 DEF TokenType
      <4>2. m.desired = k.desired /\ m.current = l.ptr
        BY <4>1 DEF TokenType
      <4>3. token' = [token EXCEPT ![c] = m]
        BY <1>1, <3>1, <3>3, <4>1, ConsumerFacts DEF TokenType
      <4>4. QED
        BY <3>3, <4>2, <4>3
    <3>4. QED
      BY <3>2, <3>3
  <2>5. CASE taken = l.want
    <3>1. Return(c)
      BY <2>1, <2>5
    <3>2. headIndex' # headIndex
      BY <1>3, <2>3, <2>5
    <3>3. m.desired \in Linked /\ m.current \in Linked
      BY <1>3, <2>4
    <3>4. QED
      BY <1>2, <1>4, <2>3, <2>4, <3>1, <3>2, <3>3, Returns
  <2>6. CASE taken # l.want
    <3>1. PICK want \in Nat \ {0} : want = l.want - taken
      BY <1>3, <2>3, <2>6
    <3>2. /\ loc' = [loc EXCEPT ![c].ptr = After(l.ptr, l.tail), ![c].want = want,
                                ![c].lost = lost]
          /\ UNCHANGED cpc
      BY <1>1, <2>1, <2>2, <2>6, <3>1, ConsumerFacts
    <3>3. PICK ptr \in Linked : ptr = After(l.ptr, l.tail)
      BY <1>3, AfterOnList DEF LInv
    <3>4. ptr \in Producers
      BY LinkedFacts
    <3>5. PICK n \in LocalsType : n = [l EXCEPT !.ptr = ptr, !.want = want, !.lost = lost]
      BY <3>4 DEF LocalsType
    <3>6. /\ n.seen = l.seen /\ n.want = want /\ n.tail = l.tail /\ n.ptr = ptr
          /\ n.lost = lost /\ loc' = [loc EXCEPT ![c] = n]
      BY <1>1, <3>2, <3>3, <3>5, ConsumerFacts DEF LocalsType
    <3>7. \A p \in Producers : /\ Due(n, p)' => Due(l, p)
                               /\ headIndex'[p] = tailIndex[p] \/ p \in n.lost => ~Due(n, p)'
      BY <1>3, <2>2, <2>3, <3>6, DueLess
    <3>8. ~Due(n, l.ptr)'
      BY <1>3, <2>3, <2>6, <3>6, <3>7
    <3>9. k.current \in Producers
      BY <1>3, LinkedFacts
    <3>10. ~Due(n, k.current)'
      BY <1>3, <3>7, <3>9
    <3>11. ~Due(n, m.current)'
      BY <2>4, <3>8, <3>10
    <3>12. AllAround(n, m.current)'
      <4>1. SUFFICES ASSUME NEW p \in Producers, Due(n, p)' PROVE Around(n, m.current, p)
        BY <1>2, SameList DEF AllAround
      <4>2. SUFFICES ASSUME NEW S \in SUBSET Producers, ptr \in S,
                            \A q \in S \ {m.current} : After(q, l.tail) \in S
                     PROVE  p \in S
        BY <3>6 DEF Around
      <4>3. p # l.ptr /\ p # k.current /\ Around(l, k.current, p)
        BY <1>3, <3>7, <3>8, <3>10, <4>1 DEF AllAround
      <4>4. \A q \in (S \cup {l.ptr}) \ {k.current} : After(q, l.tail) \in S \cup {l.ptr}
        <5>1. CASE m.current = k.current
          BY <3>3, <4>2, <5>1
        <5>2. CASE m.current = l.ptr
          BY <3>3, <4>2, <5>2
        <5>3. QED
          BY <2>4, <5>1, <5>2
      <4>5. p \in S \cup {l.ptr}
        BY <1>3, <4>3, <4>4 DEF Around
      <4>6. QED
        BY <4>3, <4>5
    <3>13. m.desired \in Linked /\ m.current \in Linked
      BY <1>3, <2>4
    <3>14. Sound("walk", n, m)'
      BY <1>2, <1>3, <2>4, <3>1, <3>3, <3>6, <3>11, <3>12, <3>13, SameList DEF Sound
    <3>15. cpc' = [cpc EXCEPT ![c] = "walk"] /\ cpc'[c] # "idle"
      BY <1>2, <3>2, ConsumerFacts
    <3>16. QED
      BY <1>2, <1>4, <2>3, <2>4, <3>6, <3>14, <3>15, Good DEF ShortReturn
  <2>7. QED
    BY <2>5, <2>6
<1>7. QED
  BY <1>5, <1>6


-----------------------------------------------------------------------------
(* Every step keeps the list, and whoever walks along it sound. *)

LEMMA QuietGrows ==
  ASSUME LInv, UNCHANGED <<list, queues>>, Linked' = Linked
  PROVE  ListGrows
<1>1. \A p \in Producers : tailIndex[p] \in Nat /\ headIndex[p] \in Nat
  BY DEF LInv, Queues
<1>2. next' = next /\ tailIndex' = tailIndex /\ headIndex' = headIndex
  BY DEF list, queues
<1>3. QED
  BY <1>1, <1>2 DEF ListGrows

\* Steps that an actor takes on the way, or in vain.
LEMMA WaitList ==
  ASSUME IInv, LInv, NEW a \in Actors,
         \/ CreateFails(a)
         \/ Push(a) /\ producerListTail # at[a]
         \/ Scan(a)
         \/ Catch(a) /\ ~inactive[at[a]]
         \/ Construct(a) \/ Constructed(a) \/ UseToken(a)
  PROVE  LInv' /\ ListGrows
<1>1. UNCHANGED <<list, queues, mine>>
  BY DEF CreateFails, Push, Scan, Catch, Construct, Constructed, UseToken, list
<1>2. \/ pc' = pc
      \/ \E to : /\ pc' = [pc EXCEPT ![a] = to]
                 /\ ~Adds(a) /\ to \notin {"count", "push"}
  <2>1. CASE CreateFails(a) \/ Construct(a) \/ Constructed(a) \/ UseToken(a)
    BY <2>1 DEF CreateFails, Construct, Constructed, UseToken, Goto, Adds
  <2>2. CASE Push(a) /\ producerListTail # at[a]
    BY <2>2 DEF Push
  <2>3. CASE Scan(a)
    BY <2>3 DEF Scan, Goto, Adds
  <2>4. CASE Catch(a) /\ ~inactive[at[a]]
    BY <2>4 DEF Catch, Goto, Adds
  <2>5. QED
    BY <2>1, <2>2, <2>3, <2>4
<1>3. LInv' /\ Linked' = Linked
  BY <1>1, <1>2, QuietStep
<1>4. QED
  BY <1>1, <1>3, QuietGrows

LEMMA MoreList ==
  ASSUME IInv, LInv, NEW a \in Actors, CreateAndAdd(a) \/ Enqueue(a)
  PROVE  LInv' /\ ListGrows
<1>1. \A p \in Producers : tailIndex[p] \in Nat /\ headIndex[p] \in Nat
  BY DEF LInv, Queues
<1>2. CASE Create(a)
  <2>1. LInv' /\ Linked' = Linked
    BY <1>2, CreateList
  <2>2. UNCHANGED <<next, tailIndex, headIndex>>
    BY <1>2 DEF Create, queues
  <2>3. QED
    BY <1>1, <2>1, <2>2 DEF ListGrows
<1>3. CASE CreateFails(a)
  BY <1>3, WaitList
<1>4. CASE CountProducer(a)
  <2>1. LInv' /\ Linked' = Linked
    BY <1>4, CountList
  <2>2. UNCHANGED <<next, tailIndex, headIndex>>
    BY <1>4 DEF CountProducer, queues
  <2>3. QED
    BY <1>1, <2>1, <2>2 DEF ListGrows
<1>5. CASE Push(a) /\ producerListTail = at[a]
  <2>1. /\ LInv' /\ Linked' = Linked \cup {mine[a]} /\ mine[a] \in Producers \ Linked
        /\ \A p \in Producers \ {mine[a]} : next'[p] = next[p]
    BY <1>5, PushList
  <2>2. UNCHANGED <<tailIndex, headIndex>>
    BY <1>5 DEF Push, queues
  <2>3. QED
    BY <1>1, <2>1, <2>2 DEF ListGrows
<1>6. CASE Push(a) /\ producerListTail # at[a]
  BY <1>6, WaitList
<1>7. CASE Enqueue(a)
  <2>1. /\ LInv' /\ Linked' = Linked
        /\ \A p \in Producers : tailIndex[p] <= tailIndex'[p]
    BY <1>7, EnqueueList
  <2>2. UNCHANGED <<next, headIndex>>
    BY <1>7 DEF Enqueue, list
  <2>3. QED
    BY <1>1, <2>1, <2>2 DEF ListGrows
<1>8. QED
  BY <1>2, <1>3, <1>4, <1>5, <1>6, <1>7 DEF CreateAndAdd

LEMMA TokenList ==
  ASSUME IInv, LInv, NEW k \in Tokens, TokenStep(k)
  PROVE  LInv' /\ ListGrows
<1>1. k \in Actors
  BY DEF Actors
<1>2. CASE CreateAndAdd(k) \/ Enqueue(k)
  BY <1>1, <1>2, MoreList
<1>3. CASE (Catch(k) /\ inactive[at[k]]) \/ Destruct(k)
  <2>1. LInv' /\ Linked' = Linked
    BY <1>3, HandOverList
  <2>2. UNCHANGED <<next, tailIndex, headIndex>>
    BY <1>3 DEF Catch, Destruct, queues
  <2>3. \A p \in Producers : tailIndex[p] \in Nat /\ headIndex[p] \in Nat
    BY DEF LInv, Queues
  <2>4. QED
    BY <2>1, <2>2, <2>3 DEF ListGrows
<1>4. CASE \/ Scan(k) \/ (Catch(k) /\ ~inactive[at[k]])
           \/ Construct(k) \/ Constructed(k) \/ UseToken(k)
  BY <1>1, <1>4, WaitList
<1>5. QED
  BY <1>2, <1>3, <1>4 DEF TokenStep, RecycleOrCreate

\* What other actors do leaves the consumers sound.
LEMMA OthersGrow ==
  ASSUME IInv, LInv, CInv, LInv', ListGrows, UNCHANGED consumers
  PROVE  CInv'
<1>1. UNCHANGED <<globalExplicitConsumerOffset, token, cpc, loc>>
  BY DEF consumers
<1>2. ASSUME NEW c \in Consumers PROVE Sound(cpc[c], loc[c], token[c])'
  <2>1. PICK s : \E l \in LocalsType, k \in TokenType : s = cpc[c] /\ l = loc[c] /\ k = token[c]
    BY ConsumerFacts
  <2>2. PICK l \in LocalsType, k \in TokenType : l = loc[c] /\ k = token[c]
    BY <2>1
  <2>3. Sound(s, l, k)
    BY <2>1, <2>2, ConsumerFacts
  <2>4. Sound(s, l, k)'
    BY <2>3, SoundStays
  <2>5. s = cpc'[c] /\ l = loc'[c] /\ k = token'[c]
    BY <1>1, <2>1, <2>2
  <2>6. QED
    BY <2>4, <2>5
<1>3. QED
  BY <1>1, <1>2 DEF CInv

\* A consumer's step leaves the list, itself and the others sound.
LEMMA ConsumerGrows ==
  ASSUME IInv, LInv, CInv, NEW c \in Consumers, GoodStep(c)
  PROVE  LInv' /\ CInv'
<1>1. /\ UNCHANGED <<list, tailIndex, actors>>
      /\ headIndex' \in [Producers -> Nat]
      /\ \A p \in Producers : headIndex[p] <= headIndex'[p] /\ headIndex'[p] <= tailIndex[p]
      /\ globalExplicitConsumerOffset' \in Nat
  BY DEF GoodStep
<1>2. LInv'
  <2>1. Queues'
    BY <1>1, SameList DEF LInv, Queues
  <2>2. Chain /\ Explicit
    BY DEF LInv
  <2>3. Chain' /\ Explicit'
    BY <1>1, <2>2, SameList
  <2>4. QED
    BY <2>1, <2>3 DEF LInv
<1>3. ListGrows
  <2>1. \A p \in Producers : tailIndex[p] \in Nat /\ tailIndex'[p] = tailIndex[p]
    BY <1>1 DEF LInv, Queues
  <2>2. QED
    BY <1>1, <2>1, SameList DEF ListGrows
<1>4. PICK s : \E l \in LocalsType, k \in TokenType :
         /\ cpc' = [cpc EXCEPT ![c] = s] /\ loc' = [loc EXCEPT ![c] = l]
         /\ token' = [token EXCEPT ![c] = k] /\ Sound(s, l, k)'
  BY DEF GoodStep
<1>5. PICK l \in LocalsType, k \in TokenType :
         /\ cpc' = [cpc EXCEPT ![c] = s] /\ loc' = [loc EXCEPT ![c] = l]
         /\ token' = [token EXCEPT ![c] = k] /\ Sound(s, l, k)'
  BY <1>4
<1>6. /\ loc' \in [Consumers -> LocalsType] /\ token' \in [Consumers -> TokenType]
      /\ cpc' = [d \in Consumers |-> cpc'[d]]
      /\ cpc'[c] = s /\ loc'[c] = l /\ token'[c] = k
      /\ \A d \in Consumers : d # c =>
           cpc'[d] = cpc[d] /\ loc'[d] = loc[d] /\ token'[d] = token[d]
  BY <1>5 DEF CInv
<1>7. ASSUME NEW d \in Consumers PROVE Sound(cpc[d], loc[d], token[d])'
  <2>1. CASE d = c
    BY <1>5, <1>6, <2>1
  <2>2. CASE d # c
    <3>1. PICK t : \E m \in LocalsType, j \in TokenType : t = cpc[d] /\ m = loc[d] /\ j = token[d]
      BY ConsumerFacts
    <3>2. PICK m \in LocalsType, j \in TokenType : m = loc[d] /\ j = token[d]
      BY <3>1
    <3>3. Sound(t, m, j)
      BY <3>1, <3>2, ConsumerFacts
    <3>4. Sound(t, m, j)'
      BY <1>2, <1>3, <3>3, SoundStays
    <3>5. t = cpc'[d] /\ m = loc'[d] /\ j = token'[d]
      BY <1>6, <2>2, <3>1, <3>2
    <3>6. QED
      BY <3>4, <3>5
  <2>3. QED
    BY <2>1, <2>2
<1>8. QED
  BY <1>1, <1>2, <1>6, <1>7 DEF CInv


LEMMA ConsumerGood ==
  ASSUME IInv, LInv, CInv, NEW c \in Consumers, ConsumerStep(c)
  PROVE  GoodStep(c)
BY StartWalk, StartToken, ScoreStep, ScoredStep, BestStep, OthersStep, RotateStep,
   RotatedStep, CurrentStep, WalkStep DEF ConsumerStep

\* What a step is, for those that walk.
LEMMA Steps ==
  ASSUME IInv, LInv, CInv, [Next]_vars
  PROVE  \/ LInv' /\ ListGrows /\ UNCHANGED consumers
         \/ \E c \in Consumers : GoodStep(c)
<1>1. ASSUME NEW t \in Threads, GetOrAdd(t) \/ Finish(t)
      PROVE  LInv' /\ ListGrows /\ UNCHANGED consumers
  <2>1. t \in Actors
    BY DEF Actors
  <2>2. CASE CreateAndAdd(t) \/ Enqueue(t)
    <3>1. UNCHANGED consumers
      BY <2>2 DEF CreateAndAdd, Create, CreateFails, CountProducer, Push, Enqueue
    <3>2. QED
      BY <2>1, <2>2, <3>1, MoreList
  <2>3. CASE \/ GetOrAdd(t) \/ Copy(t) \/ CountSlot(t) \/ Check(t) \/ Grow(t) \/ GrowFails(t)
             \/ Unlock(t) \/ Room(t) \/ Failed(t) \/ Insert(t)
    <3>1. UNCHANGED <<list, queues, consumers>>
      BY <2>3 DEF GetOrAdd, Copy, CountSlot, Check, Grow, GrowFails, Unlock, Room, Failed,
        Insert
    <3>2. LInv' /\ Linked' = Linked
      BY <2>3, ThreadQuiet
    <3>3. QED
      BY <3>1, <3>2, QuietGrows
  <2>4. QED
    BY <1>1, <2>2, <2>3 DEF Finish
<1>2. ASSUME NEW k \in Tokens, TokenStep(k)
      PROVE  LInv' /\ ListGrows /\ UNCHANGED consumers
  <2>1. UNCHANGED consumers
    BY <1>2 DEF TokenStep, Construct, Constructed, UseToken, Destruct, RecycleOrCreate,
      Scan, Catch, CreateAndAdd, Create, CreateFails, CountProducer, Push, Enqueue
  <2>2. QED
    BY <1>2, <2>1, TokenList
<1>3. ASSUME NEW c \in Consumers, ConsumerStep(c) PROVE GoodStep(c)
  BY <1>3, ConsumerGood
<1>4. CASE UNCHANGED vars
  <2>1. UNCHANGED <<list, queues, pc, mine, consumers>>
    BY <1>4 DEF vars, listVars, actors
  <2>2. Linked' = Linked /\ Chain'
    BY <2>1, SameChain DEF LInv, list, Adds
  <2>3. Explicit' /\ Queues'
    BY <2>1, <2>2 DEF LInv, Explicit, Queues, list, queues
  <2>4. LInv'
    BY <2>2, <2>3 DEF LInv
  <2>5. QED
    BY <2>1, <2>2, <2>4, QuietGrows
<1>5. QED
  BY <1>1, <1>2, <1>3, <1>4 DEF Next

LEMMA NextList == IInv /\ LInv /\ CInv /\ [Next]_vars => LInv' /\ CInv'
BY Steps, OthersGrow, ConsumerGrows

LEMMA ListHolds == Spec => [](IInv /\ LInv /\ CInv)
<1>1. QED
  BY InitInv, NextInv, ListBegins, InitConsumers, NextList, PTL DEF Spec

\* When a call returns with less than it asked for, be it with a token or without
\* (concurrentqueue.h:1119-1150, 1227-1262, 1309-1345), all elements that were
\* there when it began have been dequeued, but for those of producers where it
\* lost a claim to another consumer.
THEOREM OnlyWhatIsLostIsMissed == Spec => MissesOnlyLost
<1> DEFINE A == \A c \in Consumers : ShortReturn(c) =>
                  \A p \in Producers \ loc[c].lost : headIndex[p] >= loc[c].seen[p]
<1>1. IInv /\ LInv /\ CInv /\ [Next]_vars => [A]_vars
  <2>1. SUFFICES ASSUME IInv, LInv, CInv, [Next]_vars,
                        NEW c \in Consumers, ShortReturn(c), NEW p \in Producers \ loc[c].lost
                 PROVE  headIndex[p] >= loc[c].seen[p]
    OBVIOUS
  <2>2. ~UNCHANGED consumers
    BY <2>1 DEF ShortReturn, consumers
  <2>3. PICK d \in Consumers : GoodStep(d)
    BY <2>1, <2>2, Steps
  <2>4. d = c
    <3>1. \E s : cpc' = [cpc EXCEPT ![d] = s]
      BY <2>3 DEF GoodStep
    <3>2. d # c => cpc'[c] = cpc[c]
      BY <2>1, <3>1, ConsumerFacts
    <3>3. QED
      BY <2>1, <3>2 DEF ShortReturn
  <2>5. ~Due(loc[c], p)
    BY <2>1, <2>3, <2>4 DEF GoodStep
  <2>6. headIndex[p] \in Nat /\ loc[c].seen[p] \in Nat
    BY <2>1, ConsumerFacts DEF LocalsType, LInv, Queues
  <2>7. QED
    BY <2>5, <2>6 DEF Due
<1> HIDE DEF A
<1>2. Spec => [][A]_vars
  BY <1>1, ListHolds, PTL DEF Spec
<1>3. QED
  BY <1>2 DEF MissesOnlyLost, A


-----------------------------------------------------------------------------
(* What can be reached is found in as many steps as there are producers. *)

\* One step more from all of T.
Further(T) == {next[q] : q \in T \ {Null}} \cup T

LEMMA ReachIs ==
  ASSUME IInv, NEW start \in Producers
  PROVE  Closed(Reach(start)) /\ start \in Reach(start) /\ Reach(start) \subseteq Producers
<1> DEFINE X == SUBSET (Producers \cup {Null})
           one == [T \in X |-> Further(T)]
<1>1. MaxProducers \in Nat /\ next \in [Producers -> Producers \cup {Null}]
  BY ActorsAssumption DEF IInv, Types
<1>2. one \in [X -> X] /\ {start} \in X /\ \A T \in X : one[T] = Further(T)
  BY <1>1 DEF Further
<1>3. PICK f \in [0..MaxProducers -> X] :
        f = [i \in 0..MaxProducers |-> IF i = 0 THEN {start} ELSE one[f[i - 1]]]
  <2> HIDE DEF one, X
  <2>1. PICK x \in X, n \in Nat : x = {start} /\ n = MaxProducers
    BY <1>1, <1>2
  <2>2. one \in [X -> X]
    BY <1>2
  <2>3. PICK f \in [0..n -> X] : Iterates(f, one, x, n)
    BY <2>2, Iteration
  <2>4. QED
    BY <2>1, <2>3 DEF Iterates
<1> DEFINE far[i \in 0..MaxProducers] == IF i = 0 THEN {start}
             ELSE {next[q] : q \in far[i - 1] \ {Null}} \cup far[i - 1]
<1> HIDE DEF one, X
<1>4. f = [i \in 0..MaxProducers |-> IF i = 0 THEN {start}
             ELSE {next[q] : q \in f[i - 1] \ {Null}} \cup f[i - 1]]
  <2>1. \A i \in 0..MaxProducers : i # 0 => i - 1 \in 0..MaxProducers
    BY <1>1
  <2>2. \A i \in 0..MaxProducers : i # 0 =>
          one[f[i - 1]] = {next[q] : q \in f[i - 1] \ {Null}} \cup f[i - 1]
    BY <1>2, <1>3, <2>1 DEF Further
  <2>3. \A i \in 0..MaxProducers : f[i] = IF i = 0 THEN {start}
             ELSE {next[q] : q \in f[i - 1] \ {Null}} \cup f[i - 1]
    BY <1>3, <2>2
  <2>4. QED
    BY <1>3, <2>3
<1>5. far = [i \in 0..MaxProducers |-> IF i = 0 THEN {start}
             ELSE {next[q] : q \in far[i - 1] \ {Null}} \cup far[i - 1]]
  <2>1. \E g : g = [i \in 0..MaxProducers |-> IF i = 0 THEN {start}
             ELSE {next[q] : q \in g[i - 1] \ {Null}} \cup g[i - 1]]
    BY <1>4
  <2>2. QED
    BY <2>1 DEF far
<1>6. Reach(start) = far[MaxProducers] \ {Null}
  BY DEF Reach
<1> HIDE DEF far
<1>7. /\ IsFiniteSet(Producers \cup {Null})
      /\ Cardinality(Producers \cup {Null}) = MaxProducers + 1
  <2>1. Producers \cup {Null} = 0..MaxProducers
    BY <1>1 DEF Producers, Null
  <2>2. IsFiniteSet(0..MaxProducers) /\ Cardinality(0..MaxProducers) = MaxProducers + 1
    BY <1>1, FS_Interval
  <2>3. QED
    BY <2>1, <2>2
<1> DEFINE Saturates(i) == /\ far[i] \in X /\ start \in far[i]
                           /\ Further(far[i]) = far[i] \/ Cardinality(far[i]) >= i + 1
           S == {i \in Nat : i \in 0..MaxProducers => Saturates(i)}
<1>8. 0 \in S
  <2>1. far[0] = {start}
    BY <1>1, <1>5
  <2>2. Cardinality(far[0]) = 1
    BY <2>1, FS_Singleton
  <2>3. far[0] \in X /\ start \in far[0] /\ Cardinality(far[0]) >= 0 + 1
    BY <1>2, <2>1, <2>2
  <2>4. QED
    BY <2>3
<1>9. ASSUME NEW i \in Nat, i \in S PROVE i + 1 \in S
  <2>1. SUFFICES ASSUME i + 1 \in 0..MaxProducers PROVE Saturates(i + 1)
    OBVIOUS
  <2>2. Saturates(i)
    BY <1>1, <1>9, <2>1
  <2>3. far[i + 1] = Further(far[i])
    <3>1. i + 1 # 0 /\ (i + 1) - 1 = i
      OBVIOUS
    <3>2. QED
      BY <1>5, <2>1, <3>1 DEF Further
  <2>4. far[i + 1] \in X /\ start \in far[i + 1] /\ far[i] \subseteq far[i + 1]
    BY <1>2, <2>2, <2>3 DEF Further
  <2>5. CASE Further(far[i]) = far[i]
    BY <2>3, <2>4, <2>5
  <2>6. CASE Further(far[i]) # far[i]
    <3>1. Cardinality(far[i]) >= i + 1
      BY <2>2, <2>6
    <3>2. IsFiniteSet(far[i + 1])
      BY <1>7, <2>4, FS_Subset DEF X
    <3>3. /\ Cardinality(far[i]) \in Nat /\ Cardinality(far[i + 1]) \in Nat
          /\ Cardinality(far[i]) < Cardinality(far[i + 1])
      <4>1. far[i] \in SUBSET far[i + 1] /\ far[i] # far[i + 1]
        BY <2>3, <2>4, <2>6
      <4>2. /\ IsFiniteSet(far[i]) /\ Cardinality(far[i]) <= Cardinality(far[i + 1])
            /\ Cardinality(far[i]) # Cardinality(far[i + 1])
        BY <3>2, <4>1, FS_Subset
      <4>3. Cardinality(far[i]) \in Nat /\ Cardinality(far[i + 1]) \in Nat
        BY <3>2, <4>2, FS_CardinalityType
      <4>4. QED
        BY <4>2, <4>3
    <3>4. Cardinality(far[i + 1]) >= (i + 1) + 1
      BY <3>1, <3>3
    <3>5. QED
      BY <2>4, <3>4
  <2>7. QED
    BY <2>5, <2>6
<1>10. Saturates(MaxProducers)
  <2>1. Nat \subseteq S
    <3> HIDE DEF S
    <3>1. QED
      BY <1>8, <1>9, Induction
  <2>2. QED
    BY <1>1, <2>1
<1>11. CASE Further(far[MaxProducers]) = far[MaxProducers]
  <2>1. \A q \in far[MaxProducers] \ {Null} : next[q] \in far[MaxProducers]
    BY <1>11 DEF Further
  <2>2. QED
    BY <1>6, <1>10, <2>1 DEF Closed, X, Producers, Null
<1>12. CASE Cardinality(far[MaxProducers]) >= MaxProducers + 1
  <2>1. far[MaxProducers] \in SUBSET (Producers \cup {Null})
    BY <1>10 DEF X
  <2>2. Cardinality(far[MaxProducers]) <= MaxProducers + 1
        /\ Cardinality(far[MaxProducers]) \in Nat
    BY <1>7, <2>1, FS_Subset, FS_CardinalityType
  <2>3. Cardinality(far[MaxProducers]) = Cardinality(Producers \cup {Null})
    BY <1>1, <1>7, <1>12, <2>2
  <2>4. far[MaxProducers] = Producers \cup {Null}
    BY <1>7, <2>1, <2>3, FS_Subset
  <2>5. Reach(start) = Producers
    BY <1>6, <2>4 DEF Producers, Null
  <2>6. QED
    BY <1>1, <2>5 DEF Closed
<1>13. QED
  BY <1>10, <1>11, <1>12

LockType == resizeInProgress \in BOOLEAN

LEMMA LockHolds == Spec => []LockType
<1>1. Init => LockType
  BY DEF Init, LockType
<1>2. LockType /\ [Next]_vars => LockType'
  <2> SUFFICES ASSUME LockType, [Next]_vars PROVE LockType'
    OBVIOUS
  <2>1. ASSUME NEW t \in Threads, GetOrAdd(t) \/ Finish(t) PROVE LockType'
    BY <2>1 DEF LockType, Finish, GetOrAdd, Copy, CountSlot, Check, Grow, GrowFails, Unlock,
      Room, Failed, Insert, table
  <2>2. CASE UNCHANGED <<table, locals>>
    BY <2>2 DEF LockType, table
  <2>3. CASE UNCHANGED vars
    BY <2>3 DEF LockType, vars, table
  <2>4. QED
    BY <2>1, <2>2, <2>3 DEF Next
<1>3. QED
  BY <1>1, <1>2, PTL DEF Spec

\* The variables keep their shape, and consumers find every producer that
\* anybody uses on their way from the list's tail (concurrentqueue.h:3252-3275).
THEOREM ListStaysSound == Spec => []ListSound
<1>1. IInv /\ LInv /\ TInv /\ LockType => ListSound
  <2>1. SUFFICES ASSUME IInv, LInv, TInv, LockType PROVE ListSound
    OBVIOUS
  <2>2. /\ producerListTail \in Linked \cup {Null}
        /\ \A p \in Producers : next[p] \in Linked \cup {Null}
        /\ producerCount \in Nat /\ producerCount + Cardinality(CountsOne) = created
        /\ created \in Nat /\ Linked \subseteq 1..created /\ Cardinality(CountsOne) \in Nat
    BY <2>1, LinkedFacts DEF LInv, Chain
  <2>3. producerListTail \in 0..created /\ producerCount \in 0..created
    BY <2>2 DEF Null
  <2>4. next \in [Producers -> 0..created]
    <3>1. next \in [Producers -> Producers \cup {Null}]
      BY <2>1 DEF IInv, Types
    <3>2. \A p \in Linked \cup {Null} : p \in 0..created
      BY <2>2 DEF Null
    <3>3. \A p \in Producers : next[p] \in 0..created
      BY <2>2, <3>2
    <3>4. QED
      BY <3>1, <3>3
  <2>5. /\ isExplicit \in [Producers -> BOOLEAN] /\ inactive \in [Producers -> BOOLEAN]
        /\ \A p \in Producers : inactive[p] => isExplicit[p]
        /\ tailIndex \in [Producers -> Nat]
        /\ \A p \in Producers : headIndex[p] \in 0..tailIndex[p]
    BY <2>1 DEF IInv, Types, LInv, Explicit, Queues
  <2>6. implicitProducerHashCount \in 0..Cardinality(Threads)
    <3>1. implicitProducerHashCount = Cardinality(Used)
      BY <2>1, SlotsOfUsed DEF TInv
    <3>2. Used \in SUBSET Threads /\ IsFiniteSet(Threads)
      BY UsedFacts, ActorsAssumption
    <3>3. IsFiniteSet(Used) /\ Cardinality(Used) <= Cardinality(Threads)
      BY <3>2, FS_Subset
    <3>4. Cardinality(Used) \in Nat /\ Cardinality(Threads) \in Nat
      BY <3>2, <3>3, FS_CardinalityType
    <3>5. QED
      BY <3>1, <3>3, <3>4
  <2>7. resizeInProgress \in BOOLEAN
    BY <2>1 DEF LockType
  <2>8. TypeOK
    BY <2>3, <2>4, <2>5, <2>6, <2>7 DEF TypeOK
  <2>9. AllListed
    <3>1. SUFFICES ASSUME NEW p \in 1..created,
                          p \notin {mine[a] : a \in {b \in Actors : pc[b] \in {"count", "push"}}}
                   PROVE  p \in Reach(producerListTail)
      BY DEF AllListed
    <3>2. p \in Linked
      BY <3>1 DEF Linked, Adds
    <3>3. producerListTail \in Producers /\ Ahead(producerListTail, p)
      BY <2>1, <3>2, TailOnList, LinkedFacts DEF LInv, Chain
    <3>4. /\ Closed(Reach(producerListTail)) /\ producerListTail \in Reach(producerListTail)
          /\ Reach(producerListTail) \in SUBSET Producers
      BY <2>1, <3>3, ReachIs
    <3>5. QED
      BY <3>3, <3>4 DEF Ahead
  <2>10. QED
    BY <2>8, <2>9 DEF ListSound
<1>2. QED
  BY <1>1, TablesHold, ListHolds, LockHolds, PTL
=============================================================================
