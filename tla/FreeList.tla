----------------------------- MODULE FreeList ------------------------------
(***************************************************************************)
(* FreeList (concurrentqueue.h:1416-1529): the lock-free stack that keeps  *)
(* the empty blocks of all producers.  One action is one atomic operation  *)
(* of the code, so every interleaving of the compare-and-swaps is covered; *)
(* memory is sequentially consistent.                                      *)
(*                                                                         *)
(* A node's freeListRefs is a reference count and, in its top bit, the     *)
(* wish to be put on the list (SHOULD_BE_ON_FREELIST).  They are kept      *)
(* apart here: count and flag, written together where the code writes the  *)
(* word.                                                                   *)
(***************************************************************************)
EXTENDS Naturals, FiniteSets

CONSTANTS
  Threads,      \* threads that use the list
  Nodes,        \* blocks
  None          \* nullptr

ASSUME PoolAssumption ==
  /\ IsFiniteSet(Threads) /\ IsFiniteSet(Nodes)
  /\ None \notin Nodes /\ None \notin Threads

VARIABLES
  head,         \* freeListHead
  next,         \* freeListNext of each node
  count,        \* freeListRefs & REFS_MASK
  flag,         \* freeListRefs & SHOULD_BE_ON_FREELIST
  owner,        \* the caller that has the node, None while the list has it
  pc,           \* where each thread is
  node,         \* the node add_knowing_refcount_is_zero works on
  expected,     \* ... and its local head
  cur,          \* local head of try_get
  prevHead,     \* prevHead of try_get, once cur has moved on
  seen,         \* refs as try_get loaded it
  after         \* local next of try_get

words == <<head, next, count, flag, owner>>
addLocals == <<node, expected>>
getLocals == <<cur, prevHead, seen, after>>
vars == <<words, pc, addLocals, getLocals>>

Goto(t, from, to) == pc[t] = from /\ pc' = [pc EXCEPT ![t] = to]

\* Where a thread goes on after adding a node: back into try_get, unless its
\* list has ended or it was not in try_get at all.
Resume(t) == IF cur[t] = None THEN "idle" ELSE "refs"

NoRefs == [count |-> 0, flag |-> FALSE]
Refs(n) == [count |-> count[n], flag |-> flag[n]]

Init ==
  /\ head = None /\ next = [n \in Nodes |-> None]
  /\ count = [n \in Nodes |-> 0] /\ flag = [n \in Nodes |-> FALSE]
  /\ owner \in [Nodes -> Threads]
  /\ pc = [t \in Threads |-> "idle"]
  /\ node = [t \in Threads |-> None] /\ expected = [t \in Threads |-> None]
  /\ cur = [t \in Threads |-> None] /\ prevHead = [t \in Threads |-> None]
  /\ seen = [t \in Threads |-> NoRefs] /\ after = [t \in Threads |-> None]
-----------------------------------------------------------------------------
(* add *)

AddAtOnce(t) == \* slip: links the node although others refer to it
  /\ pc[t] = "idle"
  /\ \E n \in Nodes :
       /\ owner[n] = t
       /\ owner' = [owner EXCEPT ![n] = None]
       /\ flag' = [flag EXCEPT ![n] = TRUE]
       /\ pc' = [pc EXCEPT ![t] = "link"] /\ node' = [node EXCEPT ![t] = n]
  /\ UNCHANGED <<head, next, count, expected, getLocals>>

\* The node belongs on the list.  Whoever drops its last reference puts it
\* there: this thread, when there is none.
Add(t) ==
  /\ pc[t] = "idle"
  /\ \E n \in Nodes :
       /\ owner[n] = t
       /\ owner' = [owner EXCEPT ![n] = None]
       /\ flag' = [flag EXCEPT ![n] = TRUE]
       /\ IF count[n] = 0
          THEN pc' = [pc EXCEPT ![t] = "link"] /\ node' = [node EXCEPT ![t] = n]
          ELSE UNCHANGED <<pc, node>>
  /\ UNCHANGED <<head, next, count, expected, getLocals>>

LoadHead(t) ==
  /\ Goto(t, "link", "setNext")
  /\ expected' = [expected EXCEPT ![t] = head]
  /\ UNCHANGED <<words, node, getLocals>>

SetNext(t) ==
  /\ Goto(t, "setNext", "setRef")
  /\ next' = [next EXCEPT ![node[t]] = expected[t]]
  /\ UNCHANGED <<head, count, flag, owner, addLocals, getLocals>>

SetRef(t) ==
  /\ Goto(t, "setRef", "push")
  /\ count' = [count EXCEPT ![node[t]] = 1]
  /\ flag' = [flag EXCEPT ![node[t]] = FALSE]
  /\ UNCHANGED <<head, next, owner, addLocals, getLocals>>

AddDone(t) ==
  /\ pc' = [pc EXCEPT ![t] = Resume(t)]
  /\ node' = [node EXCEPT ![t] = None]
  /\ expected' = [expected EXCEPT ![t] = None]

Push(t) ==
  /\ pc[t] = "push" /\ head = expected[t]
  /\ head' = node[t]
  /\ AddDone(t)
  /\ UNCHANGED <<next, count, flag, owner, getLocals>>

PushFails(t) ==
  /\ head # expected[t]
  /\ Goto(t, "push", "giveUp")
  /\ expected' = [expected EXCEPT ![t] = head]
  /\ UNCHANGED <<words, node, getLocals>>

\* The add failed: drop the reference and leave the node to whoever drops the
\* last one, which may be this thread.
GiveUp(t) ==
  /\ pc[t] = "giveUp"
  /\ count' = [count EXCEPT ![node[t]] = @ - 1]
  /\ flag' = [flag EXCEPT ![node[t]] = TRUE]
  /\ IF count[node[t]] = 1
     THEN pc' = [pc EXCEPT ![t] = "setNext"] /\ UNCHANGED addLocals
     ELSE AddDone(t)
  /\ UNCHANGED <<head, next, owner, getLocals>>
-----------------------------------------------------------------------------
(* try_get *)

Get(t) ==
  /\ head # None
  /\ Goto(t, "idle", "refs")
  /\ cur' = [cur EXCEPT ![t] = head]
  /\ UNCHANGED <<words, addLocals, prevHead, seen, after>>

RetrySame(t) == \* slip: starts over with the same node
  /\ cur[t] # None
  /\ seen' = [seen EXCEPT ![t] = NoRefs]
  /\ pc' = [pc EXCEPT ![t] = "refs"]
  /\ UNCHANGED cur

\* Start over with the head as it is now; an empty list ends the call.
Reload(t) ==
  /\ cur' = [cur EXCEPT ![t] = head]
  /\ seen' = [seen EXCEPT ![t] = NoRefs]
  /\ pc' = [pc EXCEPT ![t] = IF head = None THEN "idle" ELSE "refs"]

LoadRefs(t) ==
  /\ Goto(t, "refs", "incref")
  /\ count[cur[t]] > 0
  /\ seen' = [seen EXCEPT ![t] = Refs(cur[t])]
  /\ UNCHANGED <<words, addLocals, cur, prevHead, after>>

NoReference(t) ==
  /\ pc[t] = "refs" /\ count[cur[t]] = 0
  /\ Reload(t)
  /\ UNCHANGED <<words, addLocals, prevHead, after>>

IncRef(t) ==
  /\ Goto(t, "incref", "next")
  /\ Refs(cur[t]) = seen[t]
  /\ count' = [count EXCEPT ![cur[t]] = @ + 1]
  /\ seen' = [seen EXCEPT ![t] = NoRefs]
  /\ UNCHANGED <<head, next, flag, owner, addLocals, cur, prevHead, after>>

IncRefFails(t) ==
  /\ pc[t] = "incref" /\ Refs(cur[t]) # seen[t]
  /\ Reload(t)
  /\ UNCHANGED <<words, addLocals, prevHead, after>>

LoadNext(t) ==
  /\ Goto(t, "next", "pop")
  /\ after' = [after EXCEPT ![t] = next[cur[t]]]
  /\ UNCHANGED <<words, addLocals, cur, prevHead, seen>>

Pop(t) ==
  /\ head = cur[t]
  /\ Goto(t, "pop", "drop")
  /\ head' = after[t]
  /\ after' = [after EXCEPT ![t] = None]
  /\ UNCHANGED <<next, count, flag, owner, addLocals, cur, prevHead, seen>>

PopFails(t) ==
  /\ head # cur[t]
  /\ Goto(t, "pop", "release")
  /\ prevHead' = [prevHead EXCEPT ![t] = cur[t]]
  /\ cur' = [cur EXCEPT ![t] = head]
  /\ after' = [after EXCEPT ![t] = None]
  /\ UNCHANGED <<words, addLocals, seen>>

\* The node is the caller's: its own reference goes and the list's.
Drop(t) ==
  /\ Goto(t, "drop", "idle")
  /\ count' = [count EXCEPT ![cur[t]] = @ - 2]
  /\ owner' = [owner EXCEPT ![cur[t]] = t]
  /\ cur' = [cur EXCEPT ![t] = None]
  /\ UNCHANGED <<head, next, flag, addLocals, prevHead, seen, after>>

ReleaseOnly(t) == \* slip: the last reference does not add the waiting node
  /\ pc[t] = "release"
  /\ count' = [count EXCEPT ![prevHead[t]] = @ - 1]
  /\ prevHead' = [prevHead EXCEPT ![t] = None]
  /\ pc' = [pc EXCEPT ![t] = Resume(t)]
  /\ UNCHANGED <<head, next, flag, owner, addLocals, cur, seen, after>>

\* Drop the reference; the last one adds the node if it is waited for.
Release(t) ==
  /\ pc[t] = "release"
  /\ count' = [count EXCEPT ![prevHead[t]] = @ - 1]
  /\ prevHead' = [prevHead EXCEPT ![t] = None]
  /\ IF count[prevHead[t]] = 1 /\ flag[prevHead[t]]
     THEN /\ pc' = [pc EXCEPT ![t] = "link"]
          /\ node' = [node EXCEPT ![t] = prevHead[t]]
     ELSE /\ pc' = [pc EXCEPT ![t] = Resume(t)]
          /\ UNCHANGED node
  /\ UNCHANGED <<head, next, flag, owner, expected, cur, seen, after>>
-----------------------------------------------------------------------------
AddStep(t) == LoadHead(t) \/ SetNext(t) \/ SetRef(t)
                \/ Push(t) \/ PushFails(t) \/ GiveUp(t)
GetStep(t) == LoadRefs(t) \/ NoReference(t) \/ IncRef(t) \/ IncRefFails(t)
                \/ LoadNext(t) \/ Pop(t) \/ PopFails(t) \/ Drop(t) \/ Release(t)

Step(t) == AddStep(t) \/ GetStep(t)      \* goes on with a call
Call(t) == Add(t) \/ Get(t)              \* begins one

Next == \E t \in Threads : Call(t) \/ Step(t)

Spec == Init /\ [][Next]_vars

\* A thread in a call is scheduled for ever; nobody is obliged to call.
FairSpec == Spec /\ \A t \in Threads : WF_vars(Step(t))
-----------------------------------------------------------------------------
(* Properties *)

\* The nodes on the list, from the head, as a function that ends in None.
Chain ==
  LET nth[i \in 0..Cardinality(Nodes)] ==
        IF i = 0 THEN head
        ELSE IF nth[i - 1] = None THEN None ELSE next[nth[i - 1]]
  IN  nth
Listed == {Chain[i] : i \in DOMAIN Chain} \ {None}

Linking(n) == {t \in Threads : node[t] = n}
Popping(n) == {t \in Threads : pc[t] = "drop" /\ cur[t] = n}
Referring(n) ==
  {t \in Threads : \/ pc[t] \in {"next", "pop", "drop"} /\ cur[t] = n
                   \/ prevHead[t] = n}

One(condition) == IF condition THEN 1 ELSE 0

\* Shape of every variable.
TypeOK ==
  /\ head \in Nodes \cup {None}
  /\ next \in [Nodes -> Nodes \cup {None}]
  /\ count \in [Nodes -> 0..(Cardinality(Threads) + 1)]
  /\ flag \in [Nodes -> BOOLEAN]
  /\ owner \in [Nodes -> Threads \cup {None}]
  /\ pc \in [Threads -> {"idle", "link", "setNext", "setRef", "push", "giveUp",
                         "refs", "incref", "next", "pop", "drop", "release"}]

\* Every node is in exactly one place: with one caller, once on the list,
\* with the one thread that links it ("we run only one copy of this method
\* per node at a time", concurrentqueue.h:1498), just popped, or left behind
\* flagged with a thread that still refers to it and will link it.
OnePlace ==
  \A n \in Nodes :
    1 = One(owner[n] # None) + One(n \in Listed) + Cardinality(Linking(n))
          + Cardinality(Popping(n))
          + One(flag[n] /\ Linking(n) = {} /\ Referring(n) # {})

\* The reference count counts: a listed node has the list's reference and one
\* per thread that looks at it, and so has a node about to be pushed.
RefsCount ==
  \A n \in Nodes :
    count[n] = Cardinality(Referring(n)) + Cardinality(Popping(n))
                 + One(\/ n \in Listed
                       \/ \E t \in Linking(n) : pc[t] \in {"push", "giveUp"})

\* A held reference keeps next in place (concurrentqueue.h:1466): a pop that
\* succeeds puts the true second node at the head, however often the node left
\* the list and came back in between.
NextStable ==
  \A t \in Threads : pc[t] = "pop" /\ head = cur[t] => after[t] = next[cur[t]]

\* The assertion after a pop (concurrentqueue.h:1472) and the comment in add
\* (1443): a node that was popped or has a caller is not flagged.
FlagClear ==
  \A n \in Nodes : owner[n] # None \/ Popping(n) # {} => ~flag[n]

\* The list is sound: all of this together, with the shape of the variables.
ListSound == TypeOK /\ OnePlace /\ RefsCount /\ FlagClear

\* To its callers the list is a pool in which no block has two holders.
Pool == INSTANCE BlockPool
PoolSpec == Pool!Spec

\* Lock-free: while somebody is in a call, calls keep ending.
Ends == \E t \in Threads : pc[t] # "idle" /\ pc'[t] = "idle"
LockFree == []<>(\A t \in Threads : pc[t] = "idle") \/ []<><<Ends>>_vars
=============================================================================
