--------------------------- MODULE FreeListProofs ---------------------------
(***************************************************************************)
(* Proofs about the free list, for any number of threads and blocks.       *)
(*                                                                         *)
(* The set of nodes on the list is not computed by following next, as      *)
(* Chain does, but by elimination: a node that no caller owns, that is not *)
(* flagged, and that no thread is linking or has just popped.  Inv says    *)
(* that head and next move within that set, that no two of its nodes have  *)
(* the same successor, and that a reference count of zero means that       *)
(* nobody looks at the node.  Reached says that no set but a whole one     *)
(* holds head and the successors of its nodes: so the walk of Chain meets  *)
(* what Inv says is on the list, and ListSound follows.                    *)
(***************************************************************************)
EXTENDS FreeList, DataFacts

Early == {"link", "setNext", "setRef"}   \* the add has not published the node
Late == {"push", "giveUp"}               \* the node has the list's reference

\* The node is on the list: there is nowhere else it could be.
OnList(n) ==
  /\ n \in Nodes /\ owner[n] = None /\ ~flag[n]
  /\ \A t \in Threads : node[t] # n /\ ~(pc[t] = "drop" /\ cur[t] = n)

Types ==
  /\ head \in Nodes \cup {None}
  /\ next \in [Nodes -> Nodes \cup {None}]
  /\ count \in [Nodes -> Nat]
  /\ flag \in [Nodes -> BOOLEAN]
  /\ owner \in [Nodes -> Threads \cup {None}]
  /\ pc \in [Threads -> Early \cup Late \cup
                {"idle", "refs", "incref", "next", "pop", "drop", "release"}]
  /\ node \in [Threads -> Nodes \cup {None}]
  /\ expected \in [Threads -> Nodes \cup {None}]
  /\ cur \in [Threads -> Nodes \cup {None}]
  /\ prevHead \in [Threads -> Nodes \cup {None}]
  /\ seen \in [Threads -> [count : Nat, flag : BOOLEAN]]
  /\ after \in [Threads -> Nodes \cup {None}]

\* What a thread knows at each line.
Adding(t) ==
  /\ node[t] # None <=> pc[t] \in Early \cup Late
  /\ pc[t] \in Early =>
       flag[node[t]] /\ count[node[t]] = 0 /\ owner[node[t]] = None
  /\ pc[t] \in Late => ~flag[node[t]] /\ owner[node[t]] = None
  /\ pc[t] \in {"setRef", "push"} => next[node[t]] = expected[t]
Getting(t) ==
  /\ prevHead[t] # None <=> pc[t] = "release"
  /\ pc[t] \in {"refs", "incref", "next", "pop", "drop"} => cur[t] # None
  /\ pc[t] = "incref" => seen[t].count > 0
  /\ pc[t] = "pop" => after[t] = next[cur[t]]
  /\ pc[t] = "drop" => ~flag[cur[t]] /\ owner[cur[t]] = None
Locals == \A t \in Threads : Adding(t) /\ Getting(t)

\* No two threads link or have popped the same node.
Alone ==
  \A t, u \in Threads :
    /\ node[t] # None /\ node[t] = node[u] => t = u
    /\ pc[t] = "drop" /\ pc[u] = "drop" /\ cur[t] = cur[u] => t = u
    /\ pc[t] = "drop" => node[u] # cur[t]

\* The count is what it says: the threads that refer to the node, and the
\* list's own reference while the node has neither a caller nor the flag.
\* A flagged node has a thread that will link it.
Counted(n) ==
  count[n] = Cardinality(Referring(n)) + One(owner[n] = None /\ ~flag[n])
Flagged(n) ==
  flag[n] => owner[n] = None /\ (Referring(n) # {} \/ Linking(n) # {})
Nodewise == \A n \in Nodes : Counted(n) /\ Flagged(n)

\* The list is a chain of its own nodes in which nothing leads to the head.
Stack ==
  /\ head # None => OnList(head)
  /\ \A n \in Nodes : OnList(n) =>
       /\ next[n] # None => OnList(next[n]) /\ next[n] # head
       /\ \A m \in Nodes : OnList(m) /\ next[m] = next[n] /\ next[n] # None
            => m = n

Inv == Types /\ Locals /\ Alone /\ Nodewise /\ Stack
-----------------------------------------------------------------------------
\* Sets of threads are finite, and one thread more or less is one more or less.
LEMMA Cards ==
  ASSUME NEW S \in SUBSET Threads
  PROVE  /\ Cardinality(S) \in Nat
         /\ Cardinality(S) = 0 <=> S = {}
         /\ \A t \in S : Cardinality(S \ {t}) = Cardinality(S) - 1
         /\ \A t \in Threads \ S : Cardinality(S \cup {t}) = Cardinality(S) + 1
<1>1. IsFiniteSet(S)
  BY PoolAssumption, FS_Subset
<1>2. Cardinality(S) \in Nat /\ (Cardinality(S) = 0 <=> S = {})
  BY <1>1, FS_CardinalityType, FS_EmptySet
<1>3. ASSUME NEW t \in S PROVE Cardinality(S \ {t}) = Cardinality(S) - 1
  BY <1>1, FS_RemoveElement
<1>4. ASSUME NEW t \in Threads \ S
      PROVE  Cardinality(S \cup {t}) = Cardinality(S) + 1
  BY <1>1, FS_AddElement
<1>5. QED
  BY <1>2, <1>3, <1>4

LEMMA InitInv == Init => Inv
<1> SUFFICES ASSUME Init PROVE Inv
  OBVIOUS
<1> USE PoolAssumption DEF Init, NoRefs
<1>1. Types
  BY DEF Types
<1>2. Locals
  BY DEF Locals, Adding, Getting, Early, Late
<1>3. Alone
  BY DEF Alone
<1>4. ASSUME NEW n \in Nodes PROVE Counted(n) /\ Flagged(n)
  <2>1. Referring(n) = {} /\ owner[n] # None
    BY DEF Referring
  <2>2. Cardinality(Referring(n)) = 0
    BY <2>1, FS_EmptySet
  <2>3. QED
    BY <2>1, <2>2 DEF Counted, Flagged, One
<1>5. Stack
  BY DEF Stack, OnList
<1>6. QED
  BY <1>1, <1>2, <1>3, <1>4, <1>5 DEF Inv, Nodewise

\* A node nobody refers to has count zero, or one for the list; one that is
\* being linked and not yet published has no reference at all.
LEMMA CountFacts ==
  ASSUME Inv, NEW n \in Nodes
  PROVE  /\ Referring(n) \in SUBSET Threads
         /\ Cardinality(Referring(n)) \in Nat
         /\ count[n] = 0 => Referring(n) = {}
         /\ Referring(n) # {} => count[n] > 0
         /\ \A t \in Threads : node[t] = n /\ pc[t] \in Early => Referring(n) = {}
<1>1. Referring(n) \in SUBSET Threads
  BY DEF Referring
<1>2. /\ Cardinality(Referring(n)) \in Nat
      /\ Cardinality(Referring(n)) = 0 <=> Referring(n) = {}
  BY <1>1, Cards
<1>3. Counted(n) /\ count[n] \in Nat
  BY DEF Inv, Nodewise, Types
<1>4. /\ count[n] = 0 => Referring(n) = {}
      /\ Referring(n) # {} => count[n] > 0
  BY <1>2, <1>3 DEF Counted, One
<1>5. ASSUME NEW t \in Threads, node[t] = n, pc[t] \in Early
      PROVE  Referring(n) = {}
  BY <1>4, <1>5 DEF Inv, Locals, Adding
<1>6. QED
  BY <1>1, <1>2, <1>4, <1>5

\* Steps that read: no word changes, no thread begins or ends a reference, a
\* link or a pop.
LEMMA Reading ==
  ASSUME Inv, Types', Locals', UNCHANGED <<words, node>>,
         \A u \in Threads : /\ pc'[u] = "drop" <=> pc[u] = "drop"
                            /\ pc[u] = "drop" => cur'[u] = cur[u],
         \A n \in Nodes : Referring(n)' = Referring(n)
  PROVE  Inv'
<1>1. Alone'
  BY DEF Inv, Alone
<1>2. ASSUME NEW n \in Nodes PROVE (Counted(n) /\ Flagged(n))'
  <2>1. Linking(n)' = Linking(n)
    BY DEF Linking
  <2>2. QED
    BY <2>1 DEF Inv, Nodewise, Counted, Flagged, words
<1>3. \A n : OnList(n)' <=> OnList(n)
  BY DEF OnList, words
<1>4. Stack'
  BY <1>3 DEF Inv, Stack, words
<1>5. QED
  BY <1>1, <1>2, <1>4 DEF Inv, Nodewise

LEMMA ReadSteps ==
  ASSUME Inv, NEW t \in Threads,
         \/ LoadHead(t) \/ PushFails(t) \/ Get(t) \/ LoadRefs(t)
         \/ NoReference(t) \/ IncRefFails(t) \/ LoadNext(t) \/ PopFails(t)
  PROVE  Inv'
<1> USE DEF Goto, words, addLocals, getLocals
<1>1. Types'
  <2>1. Types
    BY DEF Inv
  <2>2. CASE LoadHead(t) \/ PushFails(t)
    BY <2>1, <2>2 DEF Types, LoadHead, PushFails, Early, Late
  <2>3. CASE Get(t) \/ LoadRefs(t) \/ LoadNext(t) \/ PopFails(t)
    <3>1. CASE LoadRefs(t)
      <4>1. cur[t] \in Nodes
        BY <2>1, <3>1 DEF LoadRefs, Inv, Locals, Getting, Types
      <4>2. Refs(cur[t]) \in [count : Nat, flag : BOOLEAN]
        BY <2>1, <4>1 DEF Refs, Types
      <4>3. QED
        BY <2>1, <3>1, <4>2 DEF Types, LoadRefs
    <3>2. CASE LoadNext(t)
      <4>1. cur[t] \in Nodes
        BY <2>1, <3>2 DEF LoadNext, Inv, Locals, Getting, Types
      <4>2. QED
        BY <2>1, <3>2, <4>1 DEF Types, LoadNext
    <3>3. CASE Get(t)
      BY <2>1, <3>3 DEF Types, Get
    <3>4. CASE PopFails(t)
      BY <2>1, <3>4 DEF Types, PopFails
    <3>5. QED
      BY <2>3, <3>1, <3>2, <3>3, <3>4
  <2>4. CASE NoReference(t) \/ IncRefFails(t)
    <3>1. NoRefs \in [count : Nat, flag : BOOLEAN]
      BY DEF NoRefs
    <3>2. pc' \in [Threads -> Early \cup Late \cup
            {"idle", "refs", "incref", "next", "pop", "drop", "release"}]
      BY <2>1, <2>4 DEF Types, NoReference, IncRefFails, Reload
    <3>3. /\ cur' \in [Threads -> Nodes \cup {None}]
          /\ seen' \in [Threads -> [count : Nat, flag : BOOLEAN]]
      <4>1. cur' = [cur EXCEPT ![t] = head] /\ seen' = [seen EXCEPT ![t] = NoRefs]
        BY <2>4 DEF NoReference, IncRefFails, Reload
      <4>2. QED
        BY <2>1, <3>1, <4>1 DEF Types
    <3>4. QED
      BY <2>1, <2>4, <3>2, <3>3 DEF Types, NoReference, IncRefFails
  <2>5. QED
    BY <2>2, <2>3, <2>4
<1>2. Locals'
  <2>1. Types /\ Locals
    BY DEF Inv
  <2>2. CASE LoadHead(t) \/ PushFails(t)
    BY <2>1, <2>2 DEF Types, Locals, Adding, Getting, LoadHead, PushFails, Early, Late
  <2>3. CASE LoadRefs(t)
    <3>1. cur[t] \in Nodes
      BY <2>1, <2>3 DEF LoadRefs, Locals, Getting, Types
    <3>2. Refs(cur[t]).count = count[cur[t]]
      BY DEF Refs
    <3>3. QED
      BY <2>1, <2>3, <3>1, <3>2 DEF Types, Locals, Adding, Getting, LoadRefs, Early, Late
  <2>4. CASE Get(t) \/ LoadNext(t) \/ PopFails(t)
    BY <2>1, <2>4, PoolAssumption
      DEF Types, Locals, Adding, Getting, Get, LoadNext, PopFails, Early, Late
  <2>5. CASE NoReference(t) \/ IncRefFails(t)
    BY <2>1, <2>5 DEF Types, Locals, Adding, Getting, NoReference, IncRefFails,
      Reload, Early, Late
  <2>6. QED
    BY <2>2, <2>3, <2>4, <2>5
<1>3. UNCHANGED <<words, node>>
  BY DEF LoadHead, PushFails, Get, LoadRefs, NoReference, IncRefFails, LoadNext,
    PopFails, Reload
<1>4. \A u \in Threads : /\ pc'[u] = "drop" <=> pc[u] = "drop"
                         /\ pc[u] = "drop" => cur'[u] = cur[u]
  BY DEF Inv, Types, LoadHead, PushFails, Get, LoadRefs, NoReference, IncRefFails,
    LoadNext, PopFails, Reload
<1>5. ASSUME NEW n \in Nodes PROVE Referring(n)' = Referring(n)
  <2>1. \A u \in Threads : u \in Referring(n)' <=> u \in Referring(n)
    <3>1. Types /\ Getting(t)
      BY DEF Inv, Locals
    <3>2. CASE LoadHead(t) \/ PushFails(t) \/ Get(t) \/ LoadRefs(t)
      BY <3>1, <3>2, PoolAssumption
        DEF Referring, Types, LoadHead, PushFails, Get, LoadRefs
    <3>3. CASE NoReference(t) \/ IncRefFails(t) \/ LoadNext(t)
      BY <3>1, <3>3, PoolAssumption
        DEF Referring, Types, NoReference, IncRefFails, LoadNext, Reload
    <3>4. CASE PopFails(t)
      BY <3>1, <3>4, PoolAssumption DEF Referring, Types, Getting, PopFails
    <3>5. QED
      BY <3>2, <3>3, <3>4
  <2>2. QED
    BY <2>1 DEF Referring
<1>6. QED
  BY <1>1, <1>2, <1>3, <1>4, <1>5, Reading

-----------------------------------------------------------------------------
\* The list stays sound while its nodes, the head and their links do.
LEMMA StackFrame ==
  ASSUME Inv, head' = head, next' \in [Nodes -> Nodes \cup {None}],
         \A n : OnList(n)' <=> OnList(n),
         \A n \in Nodes : OnList(n) => next'[n] = next[n]
  PROVE  Stack'
BY DEF Inv, Types, Stack

LEMMA SetNextStep ==
  ASSUME Inv, NEW t \in Threads, SetNext(t)
  PROVE  Inv'
<1> USE DEF Goto, addLocals, getLocals, SetNext
<1> DEFINE n == node[t]
<1>1. n \in Nodes /\ Types /\ Locals /\ Alone /\ Nodewise
  BY DEF Inv, Types, Locals, Adding, Early
<1>2. Types'
  BY <1>1 DEF Types, Early
<1>3. Referring(n) = {}
  BY <1>1, CountFacts DEF Early
<1>4. Locals'
  <2>1. ASSUME NEW u \in Threads PROVE Adding(u)'
    <3>1. CASE u = t
      BY <1>1, <3>1 DEF Types, Locals, Adding, Early, Late
    <3>2. CASE u # t
      <4>1. node[u] # n
        BY <1>1, <3>2, PoolAssumption DEF Alone
      <4>2. QED
        BY <1>1, <3>2, <4>1 DEF Types, Locals, Adding
    <3>3. QED
      BY <3>1, <3>2
  <2>2. ASSUME NEW u \in Threads PROVE Getting(u)'
    <3>1. pc[u] = "pop" => cur[u] # n
      BY <1>3 DEF Referring
    <3>2. pc[u] = "pop" => cur[u] \in Nodes
      BY <1>1 DEF Types, Locals, Getting
    <3>3. QED
      BY <1>1, <3>1, <3>2 DEF Types, Locals, Getting
  <2>3. QED
    BY <2>1, <2>2 DEF Locals
<1>5. Alone'
  BY <1>1 DEF Types, Alone
<1>6. Nodewise'
  <2>1. ASSUME NEW m \in Nodes
        PROVE  Referring(m)' = Referring(m) /\ Linking(m)' = Linking(m)
    BY <1>1 DEF Types, Referring, Linking
  <2>2. QED
    BY <1>1, <2>1 DEF Nodewise, Counted, Flagged
<1>7. Stack'
  <2>1. \A m : OnList(m)' <=> OnList(m)
    BY <1>1 DEF Types, OnList
  <2>2. ~OnList(n)
    BY DEF OnList
  <2>3. \A m \in Nodes : OnList(m) => next'[m] = next[m]
    BY <1>1, <2>2 DEF Types
  <2>4. next' \in [Nodes -> Nodes \cup {None}]
    BY <1>2 DEF Types
  <2>5. QED
    BY <2>1, <2>3, <2>4, StackFrame
<1>8. QED
  BY <1>2, <1>4, <1>5, <1>6, <1>7 DEF Inv

LEMMA SetRefStep ==
  ASSUME Inv, NEW t \in Threads, SetRef(t)
  PROVE  Inv'
<1> USE DEF Goto, addLocals, getLocals, SetRef
<1> DEFINE n == node[t]
<1>1. n \in Nodes /\ Types /\ Locals /\ Alone /\ Nodewise
  BY DEF Inv, Types, Locals, Adding, Early
<1>2. Types'
  BY <1>1 DEF Types, Early, Late
<1>3. Referring(n) = {} /\ owner[n] = None /\ Cardinality(Referring(n)) = 0
  <2>1. Referring(n) = {} /\ owner[n] = None
    BY <1>1, CountFacts DEF Early, Locals, Adding
  <2>2. QED
    BY <2>1, FS_EmptySet
<1>4. Locals'
  <2>1. ASSUME NEW u \in Threads PROVE Adding(u)'
    <3>1. CASE u = t
      BY <1>1, <1>3, <3>1 DEF Types, Locals, Adding, Early, Late
    <3>2. CASE u # t
      <4>1. node[u] # n
        BY <1>1, <3>2, PoolAssumption DEF Alone
      <4>2. QED
        BY <1>1, <3>2, <4>1 DEF Types, Locals, Adding, Early, Late
    <3>3. QED
      BY <3>1, <3>2
  <2>2. ASSUME NEW u \in Threads PROVE Getting(u)'
    <3>1. pc[u] = "drop" => cur[u] # n
      BY <1>1 DEF Alone
    <3>2. pc[u] = "drop" => cur[u] \in Nodes
      BY <1>1 DEF Types, Locals, Getting
    <3>3. QED
      BY <1>1, <3>1, <3>2 DEF Types, Locals, Getting
  <2>3. QED
    BY <2>1, <2>2 DEF Locals
<1>5. Alone'
  BY <1>1 DEF Types, Alone
<1>6. Nodewise'
  <2>1. ASSUME NEW m \in Nodes
        PROVE  Referring(m)' = Referring(m) /\ Linking(m)' = Linking(m)
    BY <1>1 DEF Types, Referring, Linking
  <2>2. ASSUME NEW m \in Nodes PROVE (Counted(m) /\ Flagged(m))'
    <3>1. CASE m = n
      <4>1. count'[n] = 1 /\ ~flag'[n] /\ owner'[n] = None
        BY <1>1, <1>3 DEF Types
      <4>2. Cardinality(Referring(n)') = 0
        BY <1>1, <1>3, <2>1
      <4>3. QED
        BY <3>1, <4>1, <4>2 DEF Counted, Flagged, One
    <3>2. CASE m # n
      BY <1>1, <2>1, <3>2 DEF Types, Nodewise, Counted, Flagged
    <3>3. QED
      BY <3>1, <3>2
  <2>3. QED
    BY <2>2 DEF Nodewise
<1>7. Stack'
  <2>1. \A m : OnList(m)' <=> OnList(m)
    <3>1. ~OnList(n) /\ ~OnList(n)'
      BY <1>1 DEF OnList
    <3>2. ASSUME NEW m \in Nodes, m # n PROVE OnList(m)' <=> OnList(m)
      BY <1>1, <3>2 DEF Types, OnList
    <3>3. QED
      BY <3>1, <3>2 DEF OnList
  <2>2. QED
    BY <1>1, <2>1, StackFrame DEF Types
<1>8. QED
  BY <1>2, <1>4, <1>5, <1>6, <1>7 DEF Inv

LEMMA IncRefStep ==
  ASSUME Inv, NEW t \in Threads, IncRef(t)
  PROVE  Inv'
<1> USE DEF Goto, addLocals, getLocals, IncRef
<1> DEFINE n == cur[t]
<1>1. n \in Nodes /\ Types /\ Locals /\ Alone /\ Nodewise
  BY DEF Inv, Types, Locals, Getting
<1>2. count[n] > 0 /\ count[n] \in Nat
  BY <1>1 DEF Locals, Getting, Refs, Types
<1>3. Types'
  <2>1. NoRefs \in [count : Nat, flag : BOOLEAN]
    BY DEF NoRefs
  <2>2. seen' \in [Threads -> [count : Nat, flag : BOOLEAN]]
    BY <1>1, <2>1 DEF Types
  <2>3. count' \in [Nodes -> Nat]
    BY <1>1, <1>2 DEF Types
  <2>4. QED
    BY <1>1, <2>2, <2>3 DEF Types, Early, Late
<1>4. Locals'
  <2>1. ASSUME NEW u \in Threads PROVE Adding(u)'
    <3>1. pc[u] \in Early => node[u] # n
      BY <1>1, <1>2 DEF Locals, Adding
    <3>2. pc[u] \in Early => node[u] \in Nodes
      BY <1>1 DEF Types, Locals, Adding
    <3>3. QED
      BY <1>1, <3>1, <3>2 DEF Types, Locals, Adding, Early, Late
  <2>2. ASSUME NEW u \in Threads PROVE Getting(u)'
    BY <1>1 DEF Types, Locals, Getting
  <2>3. QED
    BY <2>1, <2>2 DEF Locals
<1>5. Alone'
  BY <1>1 DEF Types, Alone
<1>6. Nodewise'
  <2>1. ASSUME NEW m \in Nodes PROVE Linking(m)' = Linking(m)
    BY <1>1 DEF Linking
  <2>2. Getting(t) /\ t \notin Referring(n)
    BY <1>1, PoolAssumption DEF Locals, Getting, Referring
  <2>3. Referring(n)' = Referring(n) \cup {t}
    BY <1>1, <2>2 DEF Types, Referring
  <2>4. Cardinality(Referring(n)') = Cardinality(Referring(n)) + 1
    BY <2>2, <2>3, CountFacts, <1>1, Cards
  <2>5. (Counted(n) /\ Flagged(n))'
    <3>1. Cardinality(Referring(n)) \in Nat
      BY <1>1, CountFacts
    <3>2. count'[n] = count[n] + 1
      BY <1>1 DEF Types
    <3>3. QED
      BY <1>1, <2>1, <2>3, <2>4, <3>1, <3>2 DEF Nodewise, Counted, Flagged, One
  <2>6. ASSUME NEW m \in Nodes, m # n PROVE (Counted(m) /\ Flagged(m))'
    <3>1. Referring(m)' = Referring(m)
      BY <1>1, <2>6 DEF Types, Referring
    <3>2. QED
      BY <1>1, <2>1, <2>6, <3>1 DEF Types, Nodewise, Counted, Flagged
  <2>7. QED
    BY <2>5, <2>6 DEF Nodewise
<1>7. Stack'
  <2>1. \A m : OnList(m)' <=> OnList(m)
    BY <1>1 DEF Types, OnList
  <2>2. QED
    BY <1>1, <2>1, StackFrame DEF Types
<1>8. QED
  BY <1>3, <1>4, <1>5, <1>6, <1>7 DEF Inv

LEMMA AddStepInv ==
  ASSUME Inv, NEW t \in Threads, Add(t)
  PROVE  Inv'
<1> USE DEF addLocals, getLocals
<1>1. Types /\ Locals /\ Alone /\ Nodewise
  BY DEF Inv
<1>2. PICK n \in Nodes :
        /\ pc[t] = "idle" /\ owner[n] = t
        /\ owner' = [owner EXCEPT ![n] = None]
        /\ flag' = [flag EXCEPT ![n] = TRUE]
        /\ IF count[n] = 0
           THEN pc' = [pc EXCEPT ![t] = "link"] /\ node' = [node EXCEPT ![t] = n]
           ELSE UNCHANGED <<pc, node>>
        /\ UNCHANGED <<head, next, count, expected, getLocals>>
  BY DEF Add
<1>3. /\ owner[n] # None /\ owner'[n] = None /\ flag'[n] /\ ~flag[n]
      /\ n # None /\ node[t] = None
  <2>1. owner[n] # None /\ n # None
    BY <1>2, PoolAssumption
  <2>2. ~flag[n]
    BY <1>1, <2>1 DEF Nodewise, Flagged
  <2>3. node[t] = None
    BY <1>1, <1>2 DEF Locals, Adding, Early, Late
  <2>4. QED
    BY <1>1, <1>2, <2>1, <2>2, <2>3 DEF Types
<1>4. \A u \in Threads : node[u] # n /\ ~(pc[u] = "drop" /\ cur[u] = n)
  BY <1>1, <1>3 DEF Locals, Adding, Getting, Early, Late
<1>5. Types'
  BY <1>1, <1>2 DEF Types, Early
<1>6. \A m \in Nodes : m # n => owner'[m] = owner[m] /\ flag'[m] = flag[m]
  BY <1>1, <1>2 DEF Types
<1>7. \A u \in Threads : u # t => pc'[u] = pc[u] /\ node'[u] = node[u]
  BY <1>1, <1>2 DEF Types
<1>8. \/ pc' = pc /\ node' = node /\ count[n] # 0
      \/ pc'[t] = "link" /\ node'[t] = n /\ count[n] = 0
  BY <1>1, <1>2 DEF Types
<1>9. Locals'
  <2>1. ASSUME NEW u \in Threads PROVE Adding(u)'
    <3>1. CASE u = t
      BY <1>1, <1>2, <1>3, <1>8, <3>1 DEF Types, Locals, Adding, Early, Late
    <3>2. CASE u # t
      BY <1>1, <1>2, <1>4, <1>6, <1>7, <3>2 DEF Types, Locals, Adding
    <3>3. QED
      BY <3>1, <3>2
  <2>2. ASSUME NEW u \in Threads PROVE Getting(u)'
    <3>1. CASE u = t
      BY <1>1, <1>2, <1>8, <3>1 DEF Types, Locals, Getting
    <3>2. CASE u # t
      BY <1>1, <1>2, <1>4, <1>6, <1>7, <3>2 DEF Types, Locals, Getting
    <3>3. QED
      BY <3>1, <3>2
  <2>3. QED
    BY <2>1, <2>2 DEF Locals
<1>10. Alone'
  BY <1>1, <1>2, <1>4, <1>7, <1>8 DEF Types, Alone
<1>11. Nodewise'
  <2>1. ASSUME NEW m \in Nodes PROVE Referring(m)' = Referring(m)
    <3>1. \A u \in Threads : (pc'[u] \in {"next", "pop", "drop"})
                               <=> (pc[u] \in {"next", "pop", "drop"})
      BY <1>2, <1>7, <1>8
    <3>2. cur' = cur /\ prevHead' = prevHead
      BY <1>2
    <3>3. QED
      BY <3>1, <3>2 DEF Referring
  <2>2. (Counted(n) /\ Flagged(n))'
    <3>1. Counted(n)'
      <4>1. count' = count /\ Counted(n)
        BY <1>1, <1>2 DEF Nodewise
      <4>2. QED
        BY <1>3, <2>1, <4>1 DEF Counted, One
    <3>2. Referring(n) # {} \/ Linking(n)' # {}
      <4>1. CASE count[n] = 0
        BY <1>8, <4>1 DEF Linking
      <4>2. CASE count[n] # 0
        <5>1. count[n] = Cardinality(Referring(n)) + 0
          BY <1>1, <1>3 DEF Nodewise, Counted, One
        <5>2. Referring(n) # {}
          BY <4>2, <5>1, FS_EmptySet
        <5>3. QED
          BY <5>2
      <4>3. QED
        BY <4>1, <4>2
    <3>3. QED
      BY <1>3, <2>1, <3>1, <3>2 DEF Flagged
  <2>3. ASSUME NEW m \in Nodes, m # n PROVE (Counted(m) /\ Flagged(m))'
    <3>1. Linking(m) \subseteq Linking(m)'
      BY <1>3, <1>7, <2>3, <1>8, PoolAssumption DEF Linking
    <3>2. count' = count /\ Counted(m) /\ Flagged(m)
      BY <1>1, <1>2 DEF Nodewise
    <3>3. QED
      BY <1>6, <2>1, <2>3, <3>1, <3>2 DEF Counted, Flagged
  <2>4. QED
    BY <2>2, <2>3 DEF Nodewise
<1>12. Stack'
  <2>1. ~OnList(n) /\ ~OnList(n)'
    BY <1>3 DEF OnList
  <2>2. ASSUME NEW m \in Nodes, m # n PROVE OnList(m)' <=> OnList(m)
    <3>1. \A u \in Threads : /\ node'[u] # m <=> node[u] # m
                             /\ pc'[u] = "drop" <=> pc[u] = "drop"
      BY <1>2, <1>3, <1>7, <1>8, <2>2, PoolAssumption
    <3>2. cur' = cur
      BY <1>2
    <3>3. QED
      BY <1>6, <2>2, <3>1, <3>2 DEF OnList
  <2>3. \A m : OnList(m)' <=> OnList(m)
    BY <2>1, <2>2 DEF OnList
  <2>4. QED
    BY <1>1, <1>2, <2>3, StackFrame DEF Types
<1>13. QED
  BY <1>5, <1>9, <1>10, <1>11, <1>12 DEF Inv

\* A node that leaves the linking thread's hands unflagged is on the list.
LEMMA PushStep ==
  ASSUME Inv, NEW t \in Threads, Push(t)
  PROVE  Inv'
<1> USE DEF addLocals, getLocals, Push, AddDone, Resume
<1>0. PICK n \in Nodes : n = node[t]
  BY DEF Inv, Types, Locals, Adding, Late
<1> USE <1>0
<1>1. Types /\ Locals /\ Alone /\ Nodewise /\ Stack
  BY DEF Inv
<1>2. /\ n \in Nodes /\ n # None /\ ~flag[n] /\ owner[n] = None
      /\ next[n] = head /\ head \in Nodes \cup {None}
  BY <1>1, PoolAssumption DEF Types, Locals, Adding, Late
<1>3. Types'
  BY <1>1, <1>2 DEF Types
<1>4. /\ node'[t] = None /\ expected'[t] = None
      /\ pc'[t] \in {"idle", "refs"}
      /\ pc'[t] = "refs" => cur[t] # None
      /\ \A u \in Threads : u # t =>
           pc'[u] = pc[u] /\ node'[u] = node[u] /\ expected'[u] = expected[u]
  BY <1>1 DEF Types
<1>5. Locals'
  <2>1. ASSUME NEW u \in Threads PROVE Adding(u)'
    <3>1. CASE u = t
      BY <1>4, <3>1 DEF Adding, Early, Late
    <3>2. CASE u # t
      BY <1>1, <1>4, <3>2 DEF Locals, Adding
    <3>3. QED
      BY <3>1, <3>2
  <2>2. ASSUME NEW u \in Threads PROVE Getting(u)'
    <3>1. CASE u = t
      BY <1>1, <1>4, <3>1 DEF Locals, Getting
    <3>2. CASE u # t
      BY <1>1, <1>4, <3>2 DEF Locals, Getting
    <3>3. QED
      BY <3>1, <3>2
  <2>3. QED
    BY <2>1, <2>2 DEF Locals
<1>6. Alone'
  BY <1>1, <1>4, PoolAssumption DEF Types, Locals, Getting, Alone
<1>7. \A m \in Nodes : Referring(m)' = Referring(m)
  <2>1. \A u \in Threads : (pc'[u] \in {"next", "pop", "drop"})
                             <=> (pc[u] \in {"next", "pop", "drop"})
    BY <1>4
  <2>2. QED
    BY <2>1 DEF Referring
<1>8. Nodewise'
  <2>1. ASSUME NEW m \in Nodes PROVE (Counted(m) /\ Flagged(m))'
    <3>1. Counted(m)'
      BY <1>1, <1>7 DEF Nodewise, Counted
    <3>2. Flagged(m)'
      <4>1. CASE m = n
        BY <1>2, <4>1 DEF Flagged
      <4>2. CASE m # n
        <5>1. Linking(m) \subseteq Linking(m)'
          BY <1>4, <4>2 DEF Linking
        <5>2. QED
          BY <1>1, <1>7, <5>1 DEF Nodewise, Flagged
      <4>3. QED
        BY <4>1, <4>2
    <3>3. QED
      BY <3>1, <3>2
  <2>2. QED
    BY <2>1 DEF Nodewise
<1>9. Stack'
  <2>1. ~OnList(n) /\ OnList(n)'
    <3>1. \A u \in Threads : u # t => node[u] # n
      BY <1>1, <1>2 DEF Alone
    <3>2. \A u \in Threads : pc[u] = "drop" => cur[u] # n
      BY <1>1 DEF Alone
    <3>3. \A u \in Threads : node'[u] # n /\ ~(pc'[u] = "drop" /\ cur'[u] = n)
      BY <1>2, <1>4, <3>1, <3>2
    <3>4. QED
      BY <1>2, <3>3 DEF OnList
  <2>2. ASSUME NEW m \in Nodes, m # n PROVE OnList(m)' <=> OnList(m)
    <3>1. \A u \in Threads : /\ node'[u] # m <=> node[u] # m
                             /\ pc'[u] = "drop" <=> pc[u] = "drop"
      BY <1>4, <2>2, PoolAssumption
    <3>2. QED
      BY <3>1 DEF OnList
  <2>3. \A m : OnList(m)' <=> (OnList(m) \/ m = n)
    BY <1>2, <2>1, <2>2 DEF OnList
  <2>4. head' = n /\ next' = next
    OBVIOUS
  <2>5. head' # None => OnList(head)'
    BY <2>1, <2>4
  <2>6. ASSUME NEW m \in Nodes, OnList(m)', next[m] # None
        PROVE  OnList(next[m])' /\ next[m] # n
    BY <1>1, <1>2, <2>1, <2>3, <2>6 DEF Stack
  <2>7. ASSUME NEW m \in Nodes, NEW k \in Nodes, OnList(m)', OnList(k)',
               next[k] = next[m], next[m] # None
        PROVE  k = m
    BY <1>1, <1>2, <2>3, <2>7 DEF Stack
  <2>8. QED
    BY <2>4, <2>5, <2>6, <2>7 DEF Stack
<1>10. QED
  BY <1>3, <1>5, <1>6, <1>8, <1>9 DEF Inv

LEMMA GiveUpStep ==
  ASSUME Inv, NEW t \in Threads, GiveUp(t)
  PROVE  Inv'
<1> USE DEF addLocals, getLocals, GiveUp, AddDone, Resume
<1>0. PICK n \in Nodes : n = node[t]
  BY DEF Inv, Types, Locals, Adding, Late
<1> USE <1>0
<1>1. Types /\ Locals /\ Alone /\ Nodewise
  BY DEF Inv
<1>2. n \in Nodes /\ n # None /\ ~flag[n] /\ owner[n] = None
  BY <1>1, PoolAssumption DEF Types, Locals, Adding, Late
<1>3. /\ Cardinality(Referring(n)) \in Nat
      /\ count[n] = Cardinality(Referring(n)) + 1
  BY <1>1, <1>2, CountFacts DEF Nodewise, Counted, One
<1>4. /\ count'[n] = Cardinality(Referring(n)) /\ flag'[n]
      /\ \A m \in Nodes : m # n => count'[m] = count[m] /\ flag'[m] = flag[m]
  BY <1>1, <1>2, <1>3 DEF Types
<1>5. Types'
  <2>1. count' \in [Nodes -> Nat] /\ flag' \in [Nodes -> BOOLEAN]
    BY <1>1, <1>2, <1>3 DEF Types
  <2>2. pc' \in [Threads -> Early \cup Late \cup
          {"idle", "refs", "incref", "next", "pop", "drop", "release"}]
    BY <1>1 DEF Types, Early
  <2>3. QED
    BY <1>1, <2>1, <2>2 DEF Types
<1>6. /\ \A u \in Threads : u # t =>
           pc'[u] = pc[u] /\ node'[u] = node[u] /\ expected'[u] = expected[u]
      /\ \/ pc'[t] = "setNext" /\ node'[t] = n /\ count[n] = 1
         \/ /\ pc'[t] \in {"idle", "refs"} /\ node'[t] = None /\ count[n] # 1
            /\ pc'[t] = "refs" => cur[t] # None
  BY <1>1 DEF Types
<1>7. \A u \in Threads : u # t => node[u] # n
  BY <1>1, <1>2 DEF Alone
<1>8. \A u \in Threads : pc[u] = "drop" => cur[u] # n /\ cur[u] \in Nodes
  BY <1>1 DEF Types, Locals, Getting, Alone
<1>9. Locals'
  <2>1. ASSUME NEW u \in Threads PROVE Adding(u)'
    <3>1. CASE u = t
      BY <1>2, <1>3, <1>4, <1>6, <3>1 DEF Adding, Early, Late
    <3>2. CASE u # t
      <4>1. pc[u] \in Early \cup Late => node[u] \in Nodes
        BY <1>1 DEF Types, Locals, Adding
      <4>2. QED
        BY <1>1, <1>4, <1>6, <1>7, <3>2, <4>1 DEF Locals, Adding
    <3>3. QED
      BY <3>1, <3>2
  <2>2. ASSUME NEW u \in Threads PROVE Getting(u)'
    <3>1. CASE u = t
      BY <1>1, <1>6, <3>1 DEF Locals, Getting
    <3>2. CASE u # t
      BY <1>1, <1>4, <1>6, <1>8, <3>2 DEF Locals, Getting
    <3>3. QED
      BY <3>1, <3>2
  <2>3. QED
    BY <2>1, <2>2 DEF Locals
<1>10. Alone'
  BY <1>1, <1>6, PoolAssumption DEF Types, Locals, Getting, Alone
<1>11. \A m \in Nodes : Referring(m)' = Referring(m)
  <2>1. \A u \in Threads : (pc'[u] \in {"next", "pop", "drop"})
                             <=> (pc[u] \in {"next", "pop", "drop"})
    BY <1>6
  <2>2. QED
    BY <2>1 DEF Referring
<1>12. Nodewise'
  <2>1. (Counted(n) /\ Flagged(n))'
    <3>1. Counted(n)'
      BY <1>3, <1>4, <1>2, <1>11 DEF Counted, One
    <3>2. Referring(n) # {} \/ Linking(n)' # {}
      <4>1. CASE count[n] = 1
        BY <1>6, <4>1 DEF Linking
      <4>2. CASE count[n] # 1
        <5>1. Cardinality(Referring(n)) # 0
          BY <1>3, <4>2
        <5>2. Referring(n) # {}
          BY <5>1, FS_EmptySet
        <5>3. QED
          BY <5>2
      <4>3. QED
        BY <4>1, <4>2
    <3>3. QED
      BY <1>2, <1>11, <3>1, <3>2 DEF Flagged
  <2>2. ASSUME NEW m \in Nodes, m # n PROVE (Counted(m) /\ Flagged(m))'
    <3>1. Linking(m) \subseteq Linking(m)'
      BY <1>6, <2>2 DEF Linking
    <3>2. QED
      BY <1>1, <1>4, <1>11, <2>2, <3>1 DEF Nodewise, Counted, Flagged
  <2>3. QED
    BY <2>1, <2>2 DEF Nodewise
<1>13. Stack'
  <2>1. ~OnList(n) /\ ~OnList(n)'
    BY <1>4 DEF OnList
  <2>2. ASSUME NEW m \in Nodes, m # n PROVE OnList(m)' <=> OnList(m)
    <3>1. \A u \in Threads : /\ node'[u] # m <=> node[u] # m
                             /\ pc'[u] = "drop" <=> pc[u] = "drop"
      BY <1>6, <2>2, PoolAssumption
    <3>2. QED
      BY <1>4, <2>2, <3>1 DEF OnList
  <2>3. \A m : OnList(m)' <=> OnList(m)
    BY <2>1, <2>2 DEF OnList
  <2>4. QED
    BY <1>1, <2>3, StackFrame DEF Types
<1>14. QED
  BY <1>5, <1>9, <1>10, <1>12, <1>13 DEF Inv

LEMMA PopStep ==
  ASSUME Inv, NEW t \in Threads, Pop(t)
  PROVE  Inv'
<1> USE DEF Goto, addLocals, getLocals, Pop
<1>0. PICK n \in Nodes : n = cur[t]
  BY DEF Inv, Types, Locals, Getting
<1> USE <1>0
<1>1. Types /\ Locals /\ Alone /\ Nodewise /\ Stack
  BY DEF Inv
<1>2. head = n /\ OnList(n) /\ head' = next[n] /\ next' = next
  BY <1>1, PoolAssumption DEF Stack, Locals, Getting
<1>3. Types'
  BY <1>1 DEF Types
<1>4. /\ pc'[t] = "drop" /\ cur' = cur
      /\ \A u \in Threads : u # t => pc'[u] = pc[u] /\ after'[u] = after[u]
  BY <1>1 DEF Types
<1>5. Locals'
  <2>1. ASSUME NEW u \in Threads PROVE Adding(u)'
    <3>1. CASE u = t
      BY <1>1, <1>4, <3>1 DEF Locals, Adding, Early, Late
    <3>2. CASE u # t
      BY <1>1, <1>4, <3>2 DEF Locals, Adding
    <3>3. QED
      BY <3>1, <3>2
  <2>2. ASSUME NEW u \in Threads PROVE Getting(u)'
    <3>1. CASE u = t
      BY <1>1, <1>2, <1>4, <3>1 DEF Locals, Getting, OnList
    <3>2. CASE u # t
      BY <1>1, <1>4, <3>2 DEF Locals, Getting
    <3>3. QED
      BY <3>1, <3>2
  <2>3. QED
    BY <2>1, <2>2 DEF Locals
<1>6. Alone'
  BY <1>1, <1>2, <1>4 DEF Alone, OnList
<1>7. Nodewise'
  <2>1. \A u \in Threads : (pc'[u] \in {"next", "pop", "drop"})
                             <=> (pc[u] \in {"next", "pop", "drop"})
    BY <1>4
  <2>2. ASSUME NEW m \in Nodes
        PROVE  Referring(m)' = Referring(m) /\ Linking(m)' = Linking(m)
    BY <1>4, <2>1 DEF Referring, Linking
  <2>3. QED
    BY <1>1, <2>2 DEF Nodewise, Counted, Flagged
<1>8. Stack'
  <2>1. ~OnList(n)'
    BY <1>4 DEF OnList
  <2>2. ASSUME NEW m \in Nodes, m # n PROVE OnList(m)' <=> OnList(m)
    BY <1>4, <2>2 DEF OnList
  <2>3. \A m : OnList(m)' <=> (OnList(m) /\ m # n)
    BY <2>1, <2>2 DEF OnList
  <2>4. head' # None => OnList(head)'
    <3>1. next[n] # None => OnList(next[n]) /\ next[n] # n
      BY <1>1, <1>2 DEF Stack
    <3>2. next[n] # None => OnList(next[n])'
      BY <2>3, <3>1
    <3>3. QED
      BY <1>2, <3>2
  <2>5. ASSUME NEW m \in Nodes, OnList(m)', next[m] # None
        PROVE  OnList(next[m])' /\ next[m] # head'
    <3>1. OnList(m) /\ m # n /\ OnList(next[m]) /\ next[m] # n
      BY <1>1, <1>2, <2>3, <2>5 DEF Stack
    <3>2. next[m] # next[n]
      BY <1>1, <1>2, <2>5, <3>1 DEF Stack
    <3>3. OnList(next[m])'
      BY <2>3, <3>1
    <3>4. QED
      BY <1>2, <3>2, <3>3
  <2>6. ASSUME NEW m \in Nodes, NEW k \in Nodes, OnList(m)', OnList(k)',
               next[k] = next[m], next[m] # None
        PROVE  k = m
    BY <1>1, <2>3, <2>6 DEF Stack
  <2>7. QED
    BY <1>2, <2>4, <2>5, <2>6 DEF Stack
<1>9. QED
  BY <1>3, <1>5, <1>6, <1>7, <1>8 DEF Inv

LEMMA DropStep ==
  ASSUME Inv, NEW t \in Threads, Drop(t)
  PROVE  Inv'
<1> USE DEF Goto, addLocals, getLocals, Drop
<1>0. PICK n \in Nodes : n = cur[t]
  BY DEF Inv, Types, Locals, Getting
<1> USE <1>0
<1>1. Types /\ Locals /\ Alone /\ Nodewise
  BY DEF Inv
<1>2. ~flag[n] /\ owner[n] = None /\ t # None /\ n # None
  BY <1>1, PoolAssumption DEF Locals, Getting
<1>3. /\ Referring(n) \in SUBSET Threads /\ t \in Referring(n)
      /\ Cardinality(Referring(n)) \in Nat
      /\ Cardinality(Referring(n) \ {t}) = Cardinality(Referring(n)) - 1
      /\ Cardinality(Referring(n) \ {t}) \in Nat
      /\ count[n] = Cardinality(Referring(n)) + 1
  <2>1. t \in Referring(n) /\ Referring(n) \in SUBSET Threads
    BY DEF Referring
  <2>2. count[n] = Cardinality(Referring(n)) + 1
    BY <1>1, <1>2 DEF Nodewise, Counted, One
  <2>3. Referring(n) \ {t} \in SUBSET Threads
    BY <2>1
  <2>4. QED
    BY <2>1, <2>2, <2>3, Cards
<1>4. /\ count'[n] = Cardinality(Referring(n) \ {t}) /\ owner'[n] = t
      /\ flag' = flag /\ node' = node
      /\ \A m \in Nodes : m # n => count'[m] = count[m] /\ owner'[m] = owner[m]
  BY <1>1, <1>3 DEF Types
<1>5. /\ pc'[t] = "idle" /\ cur'[t] = None
      /\ \A u \in Threads : u # t => pc'[u] = pc[u] /\ cur'[u] = cur[u]
  BY <1>1 DEF Types
<1>6. Types'
  <2>1. count' \in [Nodes -> Nat]
    BY <1>1, <1>3, <1>4 DEF Types
  <2>2. QED
    BY <1>1, <2>1 DEF Types
<1>7. \A u \in Threads : /\ node[u] # n
                         /\ u # t /\ pc[u] = "drop" => cur[u] # n
  BY <1>1 DEF Alone
<1>8. Locals'
  <2>1. ASSUME NEW u \in Threads PROVE Adding(u)'
    <3>1. pc[u] \in Early \cup Late => node[u] \in Nodes
      BY <1>1 DEF Types, Locals, Adding
    <3>2. CASE u = t
      BY <1>1, <1>4, <1>5, <3>2 DEF Locals, Adding, Early, Late
    <3>3. CASE u # t
      BY <1>1, <1>4, <1>5, <1>7, <3>1, <3>3 DEF Locals, Adding
    <3>4. QED
      BY <3>2, <3>3
  <2>2. ASSUME NEW u \in Threads PROVE Getting(u)'
    <3>1. pc[u] = "drop" => cur[u] \in Nodes
      BY <1>1 DEF Types, Locals, Getting
    <3>2. CASE u = t
      BY <1>1, <1>5, <3>2 DEF Locals, Getting
    <3>3. CASE u # t
      BY <1>1, <1>4, <1>5, <1>7, <3>1, <3>3 DEF Locals, Getting
    <3>4. QED
      BY <3>2, <3>3
  <2>3. QED
    BY <2>1, <2>2 DEF Locals
<1>9. Alone'
  BY <1>1, <1>4, <1>5 DEF Alone
<1>10. Nodewise'
  <2>1. Referring(n)' = Referring(n) \ {t}
    <3>1. prevHead[t] = None
      BY <1>1 DEF Locals, Getting
    <3>2. prevHead' = prevHead
      OBVIOUS
    <3>3. QED
      BY <1>2, <1>5, <3>1, <3>2 DEF Referring
  <2>2. ASSUME NEW m \in Nodes, m # n PROVE Referring(m)' = Referring(m)
    BY <1>5, <2>2, PoolAssumption DEF Referring
  <2>3. \A m \in Nodes : Linking(m)' = Linking(m)
    BY <1>4 DEF Linking
  <2>4. (Counted(n) /\ Flagged(n))'
    BY <1>2, <1>3, <1>4, <2>1 DEF Counted, Flagged, One
  <2>5. ASSUME NEW m \in Nodes, m # n PROVE (Counted(m) /\ Flagged(m))'
    BY <1>1, <1>4, <2>2, <2>3, <2>5 DEF Nodewise, Counted, Flagged
  <2>6. QED
    BY <2>4, <2>5 DEF Nodewise
<1>11. Stack'
  <2>1. ~OnList(n) /\ ~OnList(n)'
    BY <1>2, <1>4 DEF OnList
  <2>2. ASSUME NEW m \in Nodes, m # n PROVE OnList(m)' <=> OnList(m)
    BY <1>4, <1>5, <2>2 DEF OnList
  <2>3. \A m : OnList(m)' <=> OnList(m)
    BY <2>1, <2>2 DEF OnList
  <2>4. QED
    BY <1>1, <2>3, StackFrame DEF Types
<1>12. QED
  BY <1>6, <1>8, <1>9, <1>10, <1>11 DEF Inv

LEMMA ReleaseStep ==
  ASSUME Inv, NEW t \in Threads, Release(t)
  PROVE  Inv'
<1> USE DEF addLocals, getLocals, Release, Resume
<1>0. PICK n \in Nodes : n = prevHead[t]
  BY DEF Inv, Types, Locals, Getting
<1> USE <1>0
<1>1. Types /\ Locals /\ Alone /\ Nodewise
  BY DEF Inv
<1>2. node[t] = None /\ n # None
  BY <1>1, PoolAssumption DEF Locals, Adding, Early, Late
<1>3. /\ Referring(n) \in SUBSET Threads /\ t \in Referring(n)
      /\ Cardinality(Referring(n)) \in Nat
      /\ Cardinality(Referring(n) \ {t}) = Cardinality(Referring(n)) - 1
      /\ Cardinality(Referring(n) \ {t}) \in Nat
      /\ Cardinality(Referring(n) \ {t}) = 0 <=> Referring(n) \ {t} = {}
      /\ count[n] = Cardinality(Referring(n)) + One(owner[n] = None /\ ~flag[n])
      /\ One(owner[n] = None /\ ~flag[n]) \in {0, 1}
  <2>1. t \in Referring(n) /\ Referring(n) \in SUBSET Threads
    BY DEF Referring
  <2>2. /\ count[n] = Cardinality(Referring(n)) + One(owner[n] = None /\ ~flag[n])
        /\ One(owner[n] = None /\ ~flag[n]) \in {0, 1}
    BY <1>1 DEF Nodewise, Counted, One
  <2>3. Referring(n) \ {t} \in SUBSET Threads
    BY <2>1
  <2>4. QED
    BY <2>1, <2>2, <2>3, Cards
<1>4. /\ count'[n] = count[n] - 1 /\ count[n] \in Nat /\ count[n] > 0
      /\ \A m \in Nodes : m # n => count'[m] = count[m]
      /\ flag' = flag /\ owner' = owner /\ next' = next /\ head' = head
      /\ cur' = cur /\ expected' = expected
  BY <1>1, <1>3 DEF Types
<1>5. /\ prevHead'[t] = None
      /\ \A u \in Threads : u # t =>
           pc'[u] = pc[u] /\ prevHead'[u] = prevHead[u] /\ node'[u] = node[u]
      /\ \/ /\ pc'[t] = "link" /\ node'[t] = n /\ count[n] = 1 /\ flag[n]
         \/ /\ pc'[t] \in {"idle", "refs"} /\ node'[t] = None
            /\ pc'[t] = "refs" => cur[t] # None
            /\ ~(count[n] = 1 /\ flag[n])
  BY <1>1, <1>2 DEF Types
<1>6. Types'
  <2>1. count' \in [Nodes -> Nat]
    BY <1>1, <1>4 DEF Types
  <2>2. pc' \in [Threads -> Early \cup Late \cup
          {"idle", "refs", "incref", "next", "pop", "drop", "release"}]
    BY <1>1 DEF Types, Early
  <2>3. QED
    BY <1>1, <2>1, <2>2 DEF Types
\* A flagged node has no thread in the late part of an add, and one in the
\* early part means that nobody refers to it.
<1>7. flag[n] => owner[n] = None /\ \A u \in Threads :
                   node[u] # n /\ ~(pc[u] = "drop" /\ cur[u] = n)
  <2>1. ASSUME flag[n], NEW u \in Threads, node[u] = n PROVE FALSE
    <3>1. pc[u] \notin Early
      BY <1>1, <1>3, <2>1, CountFacts
    <3>2. pc[u] \notin Late
      BY <1>1, <2>1 DEF Locals, Adding
    <3>3. QED
      BY <1>1, <1>2, <2>1, <3>1, <3>2 DEF Locals, Adding
  <2>2. QED
    BY <1>1, <2>1 DEF Locals, Getting, Nodewise, Flagged
<1>8. \A u \in Threads : pc[u] \in Early => node[u] # n /\ node[u] \in Nodes
  BY <1>1, <1>3, CountFacts DEF Types, Locals, Adding
<1>9. Locals'
  <2>1. ASSUME NEW u \in Threads PROVE Adding(u)'
    <3>1. CASE u = t
      BY <1>2, <1>4, <1>5, <1>7, <3>1 DEF Adding, Early, Late
    <3>2. CASE u # t
      BY <1>1, <1>4, <1>5, <1>8, <3>2 DEF Locals, Adding
    <3>3. QED
      BY <3>1, <3>2
  <2>2. ASSUME NEW u \in Threads PROVE Getting(u)'
    <3>1. CASE u = t
      BY <1>4, <1>5, <3>1 DEF Getting
    <3>2. CASE u # t
      BY <1>1, <1>4, <1>5, <3>2 DEF Locals, Getting
    <3>3. QED
      BY <3>1, <3>2
  <2>3. QED
    BY <2>1, <2>2 DEF Locals
<1>10. Alone'
  BY <1>1, <1>4, <1>5, <1>7, PoolAssumption DEF Types, Locals, Getting, Alone
<1>11. Referring(n)' = Referring(n) \ {t}
  BY <1>4, <1>5, PoolAssumption DEF Referring
<1>12. Nodewise'
  <2>1. Counted(n)'
    BY <1>3, <1>4, <1>11 DEF Counted
  <2>2. Flagged(n)'
    <3>1. SUFFICES ASSUME flag[n]
          PROVE  Referring(n)' # {} \/ Linking(n)' # {}
      BY <1>4, <1>7 DEF Flagged
    <3>2. CASE count[n] = 1
      BY <1>5, <3>1, <3>2 DEF Linking
    <3>3. CASE count[n] # 1
      <4>1. Cardinality(Referring(n) \ {t}) # 0
        BY <1>3, <3>1, <3>3 DEF One
      <4>2. QED
        BY <1>3, <1>11, <4>1
    <3>4. QED
      BY <3>2, <3>3
  <2>3. ASSUME NEW m \in Nodes, m # n PROVE (Counted(m) /\ Flagged(m))'
    <3>1. Referring(m)' = Referring(m)
      <4>1. m # None
        BY PoolAssumption
      <4>2. QED
        BY <1>4, <1>5, <2>3, <4>1 DEF Referring
    <3>2. Linking(m) \subseteq Linking(m)'
      BY <1>2, <1>5, PoolAssumption DEF Linking
    <3>3. QED
      BY <1>1, <1>4, <2>3, <3>1, <3>2 DEF Nodewise, Counted, Flagged
  <2>4. QED
    BY <2>1, <2>2, <2>3 DEF Nodewise
<1>13. Stack'
  <2>1. ASSUME NEW m \in Nodes PROVE OnList(m)' <=> OnList(m)
    <3>1. \A u \in Threads : pc'[u] = "drop" <=> pc[u] = "drop"
      BY <1>5
    <3>2. CASE m = n /\ flag[n]
      BY <1>4, <3>2 DEF OnList
    <3>3. CASE m # n \/ ~flag[n]
      <4>1. \A u \in Threads : node'[u] # m <=> node[u] # m
        BY <1>2, <1>5, <3>3, PoolAssumption
      <4>2. QED
        BY <1>4, <3>1, <4>1 DEF OnList
    <3>4. QED
      BY <3>2, <3>3
  <2>2. \A m : OnList(m)' <=> OnList(m)
    BY <2>1 DEF OnList
  <2>3. QED
    BY <1>1, <1>4, <2>2, StackFrame DEF Types
<1>14. QED
  BY <1>6, <1>9, <1>10, <1>12, <1>13 DEF Inv
-----------------------------------------------------------------------------
LEMMA NextInv == Inv /\ [Next]_vars => Inv'
<1> SUFFICES ASSUME Inv, [Next]_vars PROVE Inv'
  OBVIOUS
<1>1. CASE UNCHANGED vars
  <2>1. \A n : OnList(n)' <=> OnList(n)
    BY <1>1 DEF OnList, vars, words, addLocals, getLocals
  <2>2. \A n : Referring(n)' = Referring(n) /\ Linking(n)' = Linking(n)
    BY <1>1 DEF Referring, Linking, vars, words, addLocals, getLocals
  <2>3. Types' /\ Locals' /\ Alone'
    BY <1>1 DEF Inv, Types, Locals, Adding, Getting, Alone,
      vars, words, addLocals, getLocals
  <2>4. Nodewise' /\ Stack'
    BY <1>1, <2>1, <2>2 DEF Inv, Nodewise, Counted, Flagged, Stack, vars, words
  <2>5. QED
    BY <2>3, <2>4 DEF Inv
<1>2. ASSUME NEW t \in Threads, Call(t) PROVE Inv'
  BY <1>2, AddStepInv, ReadSteps DEF Call
<1>3. ASSUME NEW t \in Threads, AddStep(t) PROVE Inv'
  BY <1>3, ReadSteps, SetNextStep, SetRefStep, PushStep, GiveUpStep DEF AddStep
<1>4. ASSUME NEW t \in Threads, GetStep(t) PROVE Inv'
  BY <1>4, ReadSteps, IncRefStep, PopStep, DropStep, ReleaseStep DEF GetStep
<1>5. QED
  BY <1>1, <1>2, <1>3, <1>4 DEF Next, Step

LEMMA InvHolds == Spec => []Inv
BY InitInv, NextInv, PTL DEF Spec

\* A held reference keeps the node's successor in place, so that a pop that
\* succeeds never installs a stale head (concurrentqueue.h:1466-1469).
THEOREM NoStaleSuccessor == Spec => []NextStable
<1>1. Inv => NextStable
  BY DEF Inv, Locals, Getting, NextStable
<1>2. QED
  BY <1>1, InvHolds, PTL

\* A caller's block is not flagged, and neither is one just popped: the
\* assertion after a pop never fails (concurrentqueue.h:1443, 1472).
THEOREM PoppedUnflagged == Spec => []FlagClear
<1>1. Inv => FlagClear
  <2>1. SUFFICES ASSUME Inv, NEW n \in Nodes, owner[n] # None \/ Popping(n) # {}
                 PROVE  ~flag[n]
    BY DEF FlagClear
  <2>2. CASE owner[n] # None
    BY <2>1, <2>2 DEF Inv, Nodewise, Flagged
  <2>3. CASE Popping(n) # {}
    BY <2>1, <2>3 DEF Inv, Popping, Locals, Getting
  <2>4. QED
    BY <2>1, <2>2, <2>3
<1>2. QED
  BY <1>1, InvHolds, PTL

\* The list implements the pool of blocks: a caller gives back what it holds,
\* and gets what nobody holds (concurrentqueue.h:1438-1489).
THEOREM ImplementsBlockPool == Spec => PoolSpec
<1> USE DEF addLocals, getLocals, words
<1>1. Init => Pool!Init
  BY DEF Init, Pool!Init
<1>2. Inv /\ [Next]_vars => [Pool!Next]_owner
  <2> SUFFICES ASSUME Inv, [Next]_vars PROVE Pool!Next \/ owner' = owner
    BY DEF vars
  <2>1. CASE UNCHANGED vars
    BY <2>1 DEF vars
  <2>2. ASSUME NEW t \in Threads, Add(t) PROVE Pool!Next
    BY <2>2 DEF Add, Pool!Next, Pool!Put
  <2>3. ASSUME NEW t \in Threads, Drop(t) PROVE Pool!Next
    <3>1. cur[t] \in Nodes /\ owner[cur[t]] = None
      BY <2>3 DEF Drop, Goto, Inv, Types, Locals, Getting
    <3>2. owner' = [owner EXCEPT ![cur[t]] = t]
      BY <2>3 DEF Drop
    <3>3. QED
      BY <3>1, <3>2 DEF Pool!Next, Pool!Take
  <2>4. ASSUME NEW t \in Threads, AddStep(t) PROVE owner' = owner
    BY <2>4 DEF AddStep, LoadHead, SetNext, SetRef, Push, PushFails, GiveUp
  <2>5. ASSUME NEW t \in Threads, GetStep(t), ~Drop(t) PROVE owner' = owner
    BY <2>5 DEF GetStep, LoadRefs, NoReference, IncRef, IncRefFails, LoadNext,
      Pop, PopFails, Release
  <2>6. ASSUME NEW t \in Threads, Get(t) PROVE owner' = owner
    BY <2>6 DEF Get
  <2>7. QED
    BY <2>1, <2>2, <2>3, <2>4, <2>5, <2>6 DEF Next, Call, Step
<1>3. QED
  BY <1>1, <1>2, InvHolds, PTL DEF Spec, PoolSpec, Pool!Spec


-----------------------------------------------------------------------------
(* The list itself, from the head on.  That a node can be reached is said   *)
(* of the sets that next does not leave; that a walk of as many steps as     *)
(* there are nodes comes to the end follows, as no node is met twice.        *)

OnSet == {n \in Nodes : OnList(n)}
Closed(S) == \A n \in S : next[n] # None => next[n] \in S
Reached ==
  \A S \in SUBSET Nodes : Closed(S) /\ (head # None => head \in S) => OnSet \subseteq S

LEMMA ReachedInit == Init => Reached
BY PoolAssumption DEF Init, Reached, OnSet, OnList

\* Steps that neither push nor pop.
LEMMA ReachedFrame ==
  ASSUME Inv, Reached, head' = head,
         \A n \in Nodes : OnList(n)' => OnList(n),
         \A n \in Nodes : OnList(n) => next'[n] = next[n]
  PROVE  Reached'
<1>1. SUFFICES ASSUME NEW S \in SUBSET Nodes, Closed(S)', head # None => head \in S
               PROVE  OnSet' \subseteq S
  BY DEF Reached
<1>2. Closed(S \cap OnSet)
  <2>1. SUFFICES ASSUME NEW n \in S, OnList(n), next[n] # None
                 PROVE  next[n] \in S /\ OnList(next[n]) /\ next[n] \in Nodes
    BY DEF Closed, OnSet
  <2>2. n \in Nodes /\ next'[n] = next[n]
    BY <2>1
  <2>3. next[n] \in S
    BY <1>1, <2>1, <2>2 DEF Closed
  <2>4. QED
    BY <2>1, <2>2, <2>3 DEF Inv, Stack
<1>3. head # None => head \in S \cap OnSet
  BY <1>1 DEF Inv, Stack, OnSet, OnList
<1>4. OnSet \subseteq S \cap OnSet
  BY <1>2, <1>3 DEF Reached
<1>5. QED
  BY <1>4 DEF OnSet

LEMMA ReachedNext == Inv /\ Reached /\ [Next]_vars => Reached'
<1> SUFFICES ASSUME Inv, Reached, [Next]_vars PROVE Reached'
  OBVIOUS
<1> USE DEF Goto, words, addLocals, getLocals
<1>1. CASE UNCHANGED vars
  BY <1>1, ReachedFrame DEF vars, OnList
<1>2. ASSUME NEW t \in Threads, Push(t) PROVE Reached'
  <2>1. /\ node[t] \in Nodes /\ node[t] # None /\ next[node[t]] = head
        /\ head' = node[t] /\ next' = next /\ flag' = flag /\ owner' = owner
        /\ \A n \in Nodes : OnList(n)' => OnList(n) \/ n = node[t]
    <3>1. /\ node[t] \in Nodes /\ node[t] # None /\ next[node[t]] = head
      BY <1>2, PoolAssumption DEF Push, Inv, Types, Locals, Adding, Late
    <3>2. \A u \in Threads : /\ node'[u] = node[u] \/ (u = t)
                             /\ pc[u] = "drop" => pc'[u] = "drop"
                             /\ cur'[u] = cur[u]
      BY <1>2 DEF Push, AddDone, Inv, Types
    <3>3. head' = node[t] /\ next' = next /\ flag' = flag /\ owner' = owner
      BY <1>2 DEF Push
    <3>4. QED
      BY <3>1, <3>2, <3>3 DEF OnList
  <2>2. SUFFICES ASSUME NEW S \in SUBSET Nodes, Closed(S)', node[t] \in S
                 PROVE  OnSet' \subseteq S
    BY <2>1 DEF Reached
  <2>3. Closed(S) /\ (head # None => head \in S)
    BY <2>1, <2>2 DEF Closed
  <2>4. OnSet \subseteq S
    BY <2>3 DEF Reached
  <2>5. QED
    BY <2>1, <2>2, <2>4 DEF OnSet
<1>3. ASSUME NEW t \in Threads, Pop(t) PROVE Reached'
  <2>1. /\ head = cur[t] /\ head \in Nodes /\ head' = next[head] /\ next' = next
        /\ \A n \in Nodes : OnList(n)' => OnList(n) /\ n # head
    <3>1. /\ head = cur[t] /\ head \in Nodes /\ head' = next[head] /\ next' = next
      BY <1>3 DEF Pop, Inv, Types, Locals, Getting
    <3>2. /\ pc'[t] = "drop" /\ pc[t] = "pop" /\ cur' = cur /\ node' = node /\ flag' = flag
          /\ owner' = owner /\ \A u \in Threads : u # t => pc'[u] = pc[u]
      BY <1>3 DEF Pop, Inv, Types
    <3>3. QED
      BY <3>1, <3>2 DEF OnList
  <2>2. SUFFICES ASSUME NEW S \in SUBSET Nodes, Closed(S)',
                        next[head] # None => next[head] \in S
                 PROVE  OnSet' \subseteq S
    BY <2>1 DEF Reached
  <2>3. Closed(S \cup {head}) /\ head \in S \cup {head}
    BY <2>1, <2>2 DEF Closed
  <2>4. OnSet \subseteq S \cup {head}
    BY <2>1, <2>3 DEF Reached
  <2>5. QED
    BY <2>1, <2>4 DEF OnSet
<1>4. ASSUME NEW t \in Threads,
             \/ Add(t) \/ Get(t)
             \/ LoadHead(t) \/ SetNext(t) \/ SetRef(t) \/ PushFails(t) \/ GiveUp(t)
             \/ LoadRefs(t) \/ NoReference(t) \/ IncRef(t) \/ IncRefFails(t)
             \/ LoadNext(t) \/ PopFails(t) \/ Drop(t) \/ Release(t)
      PROVE  Reached'
  <2>1. Types /\ Locals
    BY DEF Inv
  <2>2. head' = head
    BY <1>4 DEF Add, Get, LoadHead, SetNext, SetRef, PushFails, GiveUp, LoadRefs,
      NoReference, IncRef, IncRefFails, LoadNext, PopFails, Drop, Release
  <2>3. \A n \in Nodes : OnList(n) => next'[n] = next[n]
    <3>1. CASE SetNext(t)
      BY <2>1, <3>1 DEF SetNext, OnList, Types
    <3>2. CASE ~SetNext(t)
      BY <1>4, <3>2 DEF Add, Get, LoadHead, SetRef, PushFails, GiveUp, LoadRefs,
        NoReference, IncRef, IncRefFails, LoadNext, PopFails, Drop, Release
    <3>3. QED
      BY <3>1, <3>2
  <2>4. \A n \in Nodes : OnList(n)' => OnList(n)
    <3>1. CASE LoadHead(t) \/ SetNext(t) \/ PushFails(t) \/ Get(t) \/ LoadRefs(t)
      BY <2>1, <3>1 DEF LoadHead, SetNext, PushFails, Get, LoadRefs, OnList, Types
    <3>2. CASE NoReference(t) \/ IncRef(t) \/ IncRefFails(t) \/ LoadNext(t) \/ PopFails(t)
      BY <2>1, <3>2 DEF NoReference, IncRef, IncRefFails, LoadNext, PopFails, Reload,
        OnList, Types
    <3>3. CASE Add(t)
      <4>1. node[t] = None
        BY <2>1, <3>3 DEF Add, Locals, Adding, Early, Late
      <4>2. PICK m \in Nodes : /\ owner' = [owner EXCEPT ![m] = None]
                               /\ flag' = [flag EXCEPT ![m] = TRUE]
        BY <3>3 DEF Add
      <4>3. /\ cur' = cur /\ pc[t] = "idle"
            /\ \A u \in Threads : u # t => node'[u] = node[u] /\ pc'[u] = pc[u]
        BY <2>1, <3>3 DEF Add, Types
      <4>4. ASSUME NEW n \in Nodes, OnList(n)' PROVE OnList(n)
        <5>1. n # m /\ owner[n] = None /\ ~flag[n] /\ n # None
          BY <2>1, <4>2, <4>4, PoolAssumption DEF OnList, Types
        <5>2. QED
          BY <4>1, <4>3, <4>4, <5>1 DEF OnList
      <4>5. QED
        BY <4>4
    <3>4. CASE SetRef(t)
      <4>1. \A n \in Nodes : OnList(n)' => n # node[t] /\ ~flag[n]
        BY <2>1, <3>4 DEF SetRef, OnList, Types
      <4>2. QED
        BY <2>1, <3>4, <4>1 DEF SetRef, OnList, Types
    <3>5. CASE GiveUp(t)
      <4>1. node[t] \in Nodes
        BY <2>1, <3>5 DEF GiveUp, Types, Locals, Adding, Late
      <4>2. \A n \in Nodes : OnList(n)' => n # node[t] /\ ~flag[n]
        BY <2>1, <3>5, <4>1 DEF GiveUp, OnList, Types
      <4>3. /\ cur' = cur /\ owner' = owner /\ pc[t] = "giveUp"
            /\ \A u \in Threads : u # t => node'[u] = node[u] /\ pc'[u] = pc[u]
        BY <2>1, <3>5 DEF GiveUp, AddDone, Types
      <4>4. QED
        BY <4>2, <4>3 DEF OnList
    <3>6. CASE Drop(t)
      <4>1. cur[t] \in Nodes
        BY <2>1, <3>6 DEF Drop, Types, Locals, Getting
      <4>2. \A n \in Nodes : OnList(n)' => n # cur[t] /\ owner[n] = None
        BY <2>1, <3>6, <4>1, PoolAssumption DEF Drop, OnList, Types
      <4>3. /\ flag' = flag /\ node' = node
            /\ \A u \in Threads : u # t => cur'[u] = cur[u] /\ pc'[u] = pc[u]
        BY <2>1, <3>6 DEF Drop, Types
      <4>4. QED
        BY <4>2, <4>3 DEF OnList
    <3>7. CASE Release(t)
      <4>1. node[t] = None
        BY <2>1, <3>7 DEF Release, Locals, Adding, Early, Late
      <4>2. /\ flag' = flag /\ owner' = owner /\ cur' = cur /\ pc[t] = "release"
            /\ \A u \in Threads : u # t => node'[u] = node[u] /\ pc'[u] = pc[u]
        BY <2>1, <3>7 DEF Release, Types
      <4>3. ASSUME NEW n \in Nodes, OnList(n)' PROVE OnList(n)
        BY <4>1, <4>2, <4>3, PoolAssumption DEF OnList
      <4>4. QED
        BY <4>3
    <3>8. QED
      BY <1>4, <3>1, <3>2, <3>3, <3>4, <3>5, <3>6, <3>7
  <2>5. QED
    BY <2>2, <2>3, <2>4, ReachedFrame
<1>5. QED
  BY <1>1, <1>2, <1>3, <1>4 DEF Next, Call, Step, AddStep, GetStep

LEMMA ReachedHolds == Spec => [](Inv /\ Reached)
<1>1. QED
  BY InitInv, NextInv, ReachedInit, ReachedNext, PTL DEF Spec


\* The walk along the list, from what it is defined by.
LEMMA ChainFacts ==
  ASSUME Types
  PROVE  /\ Cardinality(Nodes) \in Nat
         /\ Chain \in [0..Cardinality(Nodes) -> Nodes \cup {None}]
         /\ Chain[0] = head
         /\ \A i \in 1..Cardinality(Nodes) :
              Chain[i] = IF Chain[i - 1] = None THEN None ELSE next[Chain[i - 1]]
<1> DEFINE X == Nodes \cup {None}
           one == [n \in X |-> IF n = None THEN None ELSE next[n]]
<1>1. PICK N \in Nat : N = Cardinality(Nodes)
  BY PoolAssumption, FS_CardinalityType
<1>2. one \in [X -> X] /\ head \in X
  BY PoolAssumption DEF Types
<1>3. PICK f \in [0..N -> X] : f = [i \in 0..N |-> IF i = 0 THEN head ELSE one[f[i - 1]]]
  <2> HIDE DEF one, X
  <2>1. PICK f \in [0..N -> X] : Iterates(f, one, head, N)
    BY <1>1, <1>2, Iteration
  <2>2. QED
    BY <2>1 DEF Iterates
<1> DEFINE nth[i \in 0..N] == IF i = 0 THEN head
             ELSE IF nth[i - 1] = None THEN None ELSE next[nth[i - 1]]
<1> HIDE DEF one
<1>4. f = [i \in 0..N |-> IF i = 0 THEN head
             ELSE IF f[i - 1] = None THEN None ELSE next[f[i - 1]]]
  <2>1. \A i \in 0..N : i # 0 => i - 1 \in 0..N
    OBVIOUS
  <2>2. \A i \in 0..N : i # 0 =>
          one[f[i - 1]] = IF f[i - 1] = None THEN None ELSE next[f[i - 1]]
    BY <2>1 DEF one
  <2>3. \A i \in 0..N : f[i] = IF i = 0 THEN head
             ELSE IF f[i - 1] = None THEN None ELSE next[f[i - 1]]
    BY <1>3, <2>2
  <2>4. QED
    BY <1>3, <2>3
<1>5. nth = [i \in 0..N |-> IF i = 0 THEN head
             ELSE IF nth[i - 1] = None THEN None ELSE next[nth[i - 1]]]
  <2>1. \E g : g = [i \in 0..N |-> IF i = 0 THEN head
             ELSE IF g[i - 1] = None THEN None ELSE next[g[i - 1]]]
    BY <1>4
  <2>2. QED
    BY <2>1 DEF nth
<1>6. Chain = nth
  BY <1>1 DEF Chain
<1> HIDE DEF nth
<1>7. nth[0] = head /\ \A i \in 1..N : nth[i] =
        IF nth[i - 1] = None THEN None ELSE next[nth[i - 1]]
  BY <1>5
<1>8. \A i \in 0..N : nth[i] \in Nodes \cup {None}
  <2>1. nth[0] \in Nodes \cup {None}
    BY <1>2, <1>7
  <2>2. \A i \in 1..N : nth[i - 1] \in Nodes \cup {None} => nth[i] \in Nodes \cup {None}
    BY <1>7 DEF Types
  <2>3. QED
    BY <2>1, <2>2, IterationStays
<1>9. nth \in [0..N -> Nodes \cup {None}]
  BY <1>5, <1>8
<1>10. QED
  BY <1>1, <1>6, <1>7, <1>9

\* No node is met twice, so that the walk comes to the end.
LEMMA ChainEnds ==
  ASSUME Inv
  PROVE  /\ \A i \in 0..Cardinality(Nodes) : Chain[i] # None => OnList(Chain[i])
         /\ Chain[Cardinality(Nodes)] = None
<1>0. PICK N \in Nat : N = Cardinality(Nodes)
  BY ChainFacts DEF Inv
<1>1. PICK f \in [0..N -> Nodes \cup {None}] :
        /\ N = Cardinality(Nodes) /\ f = Chain /\ f[0] = head
        /\ \A i \in 1..N : f[i] = IF f[i - 1] = None THEN None ELSE next[f[i - 1]]
  BY <1>0, ChainFacts DEF Inv
<1>2. \A i \in 0..N : f[i] \in OnSet \cup {None}
  <2>1. f[0] \in OnSet \cup {None}
    BY <1>1 DEF Inv, Stack, OnSet, OnList
  <2>2. \A i \in 1..N : f[i - 1] \in OnSet \cup {None} => f[i] \in OnSet \cup {None}
    BY <1>1 DEF Inv, Stack, OnSet, OnList
  <2>3. QED
    BY <2>1, <2>2, IterationStays
<1> DEFINE Apart(i) == f[i] # None =>
             \A j, k \in 0..i : f[j] # None /\ (f[j] = f[k] => j = k)
           S == {i \in Nat : i \in 0..N => Apart(i)}
<1>3. 0 \in S
  OBVIOUS
<1>4. ASSUME NEW i \in Nat, i \in S PROVE i + 1 \in S
  <2>1. SUFFICES ASSUME i + 1 \in 0..N, f[i + 1] # None PROVE Apart(i + 1)
    OBVIOUS
  <2>2. f[i] # None /\ f[i + 1] = next[f[i]]
    <3>1. i + 1 \in 1..N /\ (i + 1) - 1 = i
      BY <2>1
    <3>2. QED
      BY <1>1, <2>1, <3>1
  <2>3. \A j, k \in 0..i : f[j] # None /\ (f[j] = f[k] => j = k)
    BY <1>4, <2>1, <2>2
  <2>4. \A j \in 0..i : f[j] # f[i + 1]
    <3>1. SUFFICES ASSUME NEW j \in 0..i, f[j] = f[i + 1] PROVE FALSE
      OBVIOUS
    <3>2. OnList(f[i]) /\ f[i] \in Nodes /\ next[f[i]] # head /\ next[f[i]] # None
      <4>1. f[i] \in OnSet
        BY <1>2, <2>1, <2>2
      <4>2. QED
        BY <2>1, <2>2, <4>1 DEF OnSet, Inv, Stack
    <3>3. j # 0
      BY <1>1, <2>2, <3>1, <3>2
    <3>4. j - 1 \in 0..i /\ j \in 1..N /\ f[j] = next[f[j - 1]]
      <4>1. j - 1 \in 0..i /\ j \in 1..N
        BY <2>1, <3>3
      <4>2. f[j - 1] # None
        BY <2>3, <4>1
      <4>3. QED
        BY <1>1, <4>1, <4>2
    <3>5. OnList(f[j - 1]) /\ f[j - 1] \in Nodes
      <4>1. f[j - 1] # None /\ j - 1 \in 0..N
        BY <2>1, <2>3, <3>4
      <4>2. f[j - 1] \in OnSet
        BY <1>2, <4>1
      <4>3. QED
        BY <4>2 DEF OnSet
    <3>6. f[j - 1] = f[i]
      BY <2>2, <3>1, <3>2, <3>4, <3>5 DEF Inv, Stack
    <3>7. j - 1 = i
      BY <2>3, <3>4, <3>6
    <3>8. QED
      BY <3>7
  <2>5. \A j \in 0..(i + 1) : j \in 0..i \/ j = i + 1
    OBVIOUS
  <2>6. QED
    BY <2>1, <2>3, <2>4, <2>5
<1>5. Apart(N)
  <2>1. Nat \subseteq S
    <3> HIDE DEF S
    <3>1. QED
      BY <1>3, <1>4, Induction
  <2>2. QED
    BY <2>1
<1>6. f[N] = None
  <2>1. SUFFICES ASSUME f[N] # None PROVE FALSE
    OBVIOUS
  <2>2. \A j, k \in 0..N : f[j] # None /\ (f[j] = f[k] => j = k)
    BY <1>5, <2>1
  <2>3. f \in Injection(0..N, Nodes)
    <3>1. f \in [0..N -> Nodes]
      BY <2>2
    <3>2. QED
      BY <2>2, <3>1 DEF Injection, IsInjective
  <2>4. Cardinality(0..N) <= Cardinality(Nodes)
    BY <2>3, PoolAssumption, FS_Injection
  <2>5. Cardinality(0..N) = N + 1
    BY FS_Interval
  <2>6. QED
    BY <1>1, <2>4, <2>5
<1>7. QED
  BY <1>1, <1>2, <1>6 DEF OnSet

\* So the nodes met are those on the list.
LEMMA ListedIs ==
  ASSUME Inv, Reached
  PROVE  Listed = OnSet
<1>0. PICK N \in Nat : N = Cardinality(Nodes)
  BY ChainFacts DEF Inv
<1>1. PICK f \in [0..N -> Nodes \cup {None}] :
        /\ N = Cardinality(Nodes) /\ f = Chain /\ f[0] = head
        /\ \A i \in 1..N : f[i] = IF f[i - 1] = None THEN None ELSE next[f[i - 1]]
  BY <1>0, ChainFacts DEF Inv
<1>2. /\ \A i \in 0..N : f[i] # None => f[i] \in OnSet
      /\ f[N] = None
  BY <1>1, ChainEnds DEF OnSet, OnList
<1>3. Listed = {f[i] : i \in 0..N} \ {None}
  BY <1>1 DEF Listed
<1>4. Closed(Listed)
  <2>1. SUFFICES ASSUME NEW i \in 0..N, f[i] # None, next[f[i]] # None
                 PROVE  next[f[i]] \in Listed
    BY <1>3 DEF Closed
  <2>2. i + 1 \in 1..N /\ (i + 1) - 1 = i
    BY <1>2, <2>1
  <2>3. f[i + 1] = next[f[i]]
    BY <1>1, <2>1, <2>2
  <2>4. QED
    BY <1>3, <2>1, <2>2, <2>3
<1>5. Listed \in SUBSET Nodes /\ (head # None => head \in Listed)
  BY <1>1, <1>3
<1>6. OnSet \subseteq Listed
  BY <1>4, <1>5 DEF Reached
<1>7. Listed \subseteq OnSet
  BY <1>2, <1>3
<1>8. QED
  BY <1>6, <1>7

LEMMA Alike ==
  ASSUME Inv, NEW n \in Nodes
  PROVE  /\ Linking(n) = {} \/ \E t \in Threads : Linking(n) = {t}
         /\ Popping(n) = {} \/ \E t \in Threads : Popping(n) = {t}
         /\ Linking(n) = {} \/ Popping(n) = {}
         /\ owner[n] # None => ~flag[n] /\ Linking(n) = {} /\ Popping(n) = {}
         /\ flag[n] => Popping(n) = {} /\ (Linking(n) # {} \/ Referring(n) # {})
         /\ \A t \in Linking(n) : pc[t] \in {"push", "giveUp"} <=> ~flag[n]
         /\ OnList(n) <=> /\ owner[n] = None /\ ~flag[n]
                          /\ Linking(n) = {} /\ Popping(n) = {}
<1>1. Types /\ Locals /\ Alone /\ Flagged(n) /\ n # None
  BY PoolAssumption DEF Inv, Nodewise
<1>2. /\ \A t, u \in Linking(n) : t = u
      /\ \A t, u \in Popping(n) : t = u
      /\ Linking(n) = {} \/ Popping(n) = {}
  BY <1>1 DEF Alone, Linking, Popping
<1>3. \A t \in Linking(n) : /\ pc[t] \in Early \cup Late /\ owner[n] = None
                            /\ pc[t] \in Early => flag[n]
                            /\ pc[t] \in Late => ~flag[n]
  BY <1>1 DEF Locals, Adding, Linking
<1>4. \A t \in Popping(n) : ~flag[n] /\ owner[n] = None
  BY <1>1 DEF Locals, Getting, Popping
<1>5. OnList(n) <=> /\ owner[n] = None /\ ~flag[n]
                    /\ Linking(n) = {} /\ Popping(n) = {}
  BY DEF OnList, Linking, Popping
<1>6. /\ Linking(n) = {} \/ \E t \in Threads : Linking(n) = {t}
      /\ Popping(n) = {} \/ \E t \in Threads : Popping(n) = {t}
  BY <1>2 DEF Linking, Popping
<1>7. QED
  BY <1>1, <1>2, <1>3, <1>4, <1>5, <1>6 DEF Flagged, Early, Late

\* The list is sound: every block is in exactly one place and every reference
\* is counted (concurrentqueue.h:1416-1529).
THEOREM ListStaysSound == Spec => []ListSound
<1>1. Inv /\ Reached => ListSound
  <2> SUFFICES ASSUME Inv, Reached PROVE ListSound
    OBVIOUS
  <2>1. \A n \in Nodes : n \in Listed <=> OnList(n)
    BY ListedIs DEF OnSet
  <2>2. ASSUME NEW n \in Nodes
        PROVE  /\ Cardinality(Linking(n)) = One(Linking(n) # {})
               /\ Cardinality(Popping(n)) = One(Popping(n) # {})
               /\ Cardinality(Referring(n)) \in Nat
               /\ Cardinality(Referring(n)) <= Cardinality(Threads)
               /\ Cardinality(Threads) \in Nat
    <3>1. \A t : Cardinality({t}) = 1
      BY FS_Singleton
    <3>2. Cardinality({}) = 0
      BY FS_EmptySet
    <3>3. /\ Cardinality(Linking(n)) = One(Linking(n) # {})
          /\ Cardinality(Popping(n)) = One(Popping(n) # {})
      BY <3>1, <3>2, Alike DEF One
    <3>4. Referring(n) \in SUBSET Threads /\ IsFiniteSet(Threads)
      BY PoolAssumption DEF Referring
    <3>5. QED
      BY <3>3, <3>4, FS_Subset, FS_CardinalityType
  <2>3. OnePlace
    <3>1. SUFFICES ASSUME NEW n \in Nodes
                   PROVE 1 = One(owner[n] # None) + One(n \in Listed)
                             + Cardinality(Linking(n)) + Cardinality(Popping(n))
                             + One(flag[n] /\ Linking(n) = {} /\ Referring(n) # {})
      BY DEF OnePlace
    <3>2. QED
      BY <2>1, <2>2, Alike DEF One
  <2>4. RefsCount
    <3>1. SUFFICES ASSUME NEW n \in Nodes
                   PROVE count[n] = Cardinality(Referring(n)) + Cardinality(Popping(n))
                           + One(\/ n \in Listed
                                 \/ \E t \in Linking(n) : pc[t] \in {"push", "giveUp"})
      BY DEF RefsCount
    <3>2. count[n] = Cardinality(Referring(n)) + One(owner[n] = None /\ ~flag[n])
      BY DEF Inv, Nodewise, Counted
    <3>3. One(owner[n] = None /\ ~flag[n])
            = Cardinality(Popping(n))
                + One(\/ n \in Listed
                      \/ \E t \in Linking(n) : pc[t] \in {"push", "giveUp"})
      BY <2>1, <2>2, Alike DEF One
    <3>4. PICK i \in Nat, j \in Nat, k \in Nat :
            /\ i = Cardinality(Referring(n)) /\ j = Cardinality(Popping(n))
            /\ k = One(\/ n \in Listed
                       \/ \E t \in Linking(n) : pc[t] \in {"push", "giveUp"})
      BY <2>2 DEF One
    <3>5. count[n] = i + (j + k)
      BY <3>2, <3>3, <3>4
    <3>6. count[n] = (i + j) + k
      BY <3>5
    <3>7. QED
      BY <3>4, <3>6
  <2>5. TypeOK
    <3>1. \A n \in Nodes : count[n] \in 0..(Cardinality(Threads) + 1)
      <4>1. TAKE n \in Nodes
      <4>2. count[n] = Cardinality(Referring(n)) + One(owner[n] = None /\ ~flag[n])
        BY DEF Inv, Nodewise, Counted
      <4>3. QED
        BY <2>2, <4>2 DEF One
    <3>2. count \in [Nodes -> 0..(Cardinality(Threads) + 1)]
      BY <3>1 DEF Inv, Types
    <3>3. QED
      BY <3>2 DEF Inv, Types, TypeOK, Early, Late
  <2>6. FlagClear
    BY Alike DEF FlagClear
  <2>7. QED
    BY <2>3, <2>4, <2>5, <2>6 DEF ListSound
<1>2. QED
  BY <1>1, ReachedHolds, PTL
=============================================================================
