---------------------------- MODULE ProducerList ----------------------------
(***************************************************************************)
(* The list of producers of a ConcurrentQueue (concurrentqueue.h): threads *)
(* and ProducerTokens add producers to it, tokens hand theirs on, and      *)
(* consumers walk along it to find elements, with a ConsumerToken or       *)
(* without.                                                                *)
(*                                                                         *)
(* A producer's own queue is the abstract one that ImplicitQueue           *)
(* implements, as its two counters.  A dequeue claims its elements first,  *)
(* and gives back the claims that turn out to be too many: while two       *)
(* consumers dequeue from the same producer one can lose elements to the   *)
(* other's claims that are not paid back, and return with fewer than there *)
(* are, or none.  How many it loses is left open here.  Every other action *)
(* is one operation on an atomic that another thread can tell apart.       *)
(***************************************************************************)
EXTENDS Integers, FiniteSetsExt

CONSTANTS
  Threads,         \* threads that enqueue without a token
  Tokens,          \* ProducerTokens, each with a thread of its own
  Consumers,       \* threads that dequeue, each with a ConsumerToken
  ScoreLimit,      \* non-empty producers after which a scan stops: 3
  Quota,           \* EXPLICIT_CONSUMER_CONSUMPTION_QUOTA_BEFORE_ROTATE
  Wants,           \* how many elements a call asks for
  InitialOffsets,  \* initialOffsets that the ConsumerTokens may have
  MaxProducers,    \* bound: producers that malloc provides
  Casts            \* bounds: who takes part together, how often malloc fails
                   \* and how often they call enqueue

ASSUME ActorsAssumption ==
  /\ IsFiniteSet(Threads) /\ IsFiniteSet(Tokens) /\ Threads \cap Tokens = {}
  /\ MaxProducers \in Nat
ASSUME ConsumersAssumption ==
  /\ ScoreLimit \in Nat \ {0}
  /\ Wants \subseteq Nat \ {0}
  /\ InitialOffsets \subseteq Nat

Actors == Threads \cup Tokens
Producers == 1..MaxProducers
Null == 0

VARIABLES
  producerListTail, producerCount,
  next, inactive, isExplicit,   \* of each producer
  created,                      \* how many there are
  tailIndex, headIndex,         \* of each producer's queue
  failures, calls,              \* what is left of these bounds
  pc, mine, at,                 \* actors: where, their producer, one in view
  globalExplicitConsumerOffset,
  token,                        \* the ConsumerTokens
  cpc, loc,                     \* consumers: where, and their locals
  contested                     \* consumers that have met another one in the
                                \* dequeue of a producer that they are in

list == <<producerListTail, producerCount, next, inactive, isExplicit,
          created>>
queues == <<tailIndex, headIndex>>
actors == <<failures, calls, pc, mine, at>>
consumers == <<globalExplicitConsumerOffset, token, cpc, loc, contested>>
bounds == <<failures, calls>>
listVars == <<list, queues, actors, consumers>>

NoLocals == [ptr |-> Null, best |-> Null, bestSize |-> 0, nonEmptyCount |-> 0,
             tail |-> Null, want |-> 0, seen |-> [p \in Producers |-> 0],
             lost |-> {}]

InitList ==
  /\ producerListTail = Null /\ producerCount = 0
  /\ next = [p \in Producers |-> Null]
  /\ inactive = [p \in Producers |-> FALSE]
  /\ isExplicit = [p \in Producers |-> FALSE]
  /\ created = 0
  /\ tailIndex = [p \in Producers |-> 0] /\ headIndex = [p \in Producers |-> 0]
  /\ mine = [a \in Actors |-> Null] /\ at = [a \in Actors |-> Null]
  /\ globalExplicitConsumerOffset = 0
  /\ token \in [Consumers -> [initialOffset : InitialOffsets, lastKnown : {-1},
                  desired : {Null}, current : {Null}, consumed : {0}]]
  /\ \E cast \in Casts :
       /\ failures = cast.failures /\ calls = cast.calls
       /\ pc = [a \in Actors |-> IF a \in cast.who THEN "idle" ELSE "absent"]
       /\ cpc = [c \in Consumers |->
                   IF c \in cast.who THEN "idle" ELSE "absent"]
  /\ loc = [c \in Consumers |-> NoLocals]
  /\ contested = {}

-----------------------------------------------------------------------------
(* recycle_or_create_producer, from "scan" to "got" or "failed".  Only      *)
(* tokens make their producers inactive (a thread that exits does not, as  *)
(* MOODYCAMEL_CPP11_THREAD_LOCAL_SUPPORTED is off), so a thread's scan     *)
(* finds nothing and is left out: it begins at "create".                   *)

Goto(a, from, to) == pc[a] = from /\ pc' = [pc EXCEPT ![a] = to]

See(a, p) == at' = [at EXCEPT ![a] = p]

Scan(a) ==
  /\ pc[a] = "scan"
  /\ IF at[a] = Null
     THEN Goto(a, "scan", "create") /\ UNCHANGED at
     ELSE IF inactive[at[a]] /\ isExplicit[at[a]]
     THEN Goto(a, "scan", "catch") /\ UNCHANGED at
     ELSE See(a, next[at[a]]) /\ UNCHANGED pc
  /\ UNCHANGED <<list, queues, bounds, mine, consumers>>

CatchUnchecked(a) == \* slip: stores where the code compares and exchanges
  /\ Goto(a, "catch", "got")
  /\ inactive' = [inactive EXCEPT ![at[a]] = FALSE]
  /\ mine' = [mine EXCEPT ![a] = at[a]]
  /\ See(a, Null)
  /\ UNCHANGED <<producerListTail, producerCount, next, isExplicit, created,
                 queues, bounds, consumers>>

Catch(a) ==
  /\ pc[a] = "catch"
  /\ IF inactive[at[a]]
     THEN /\ Goto(a, "catch", "got")
          /\ inactive' = [inactive EXCEPT ![at[a]] = FALSE]
          /\ mine' = [mine EXCEPT ![a] = at[a]]
          /\ See(a, Null)
     ELSE /\ Goto(a, "catch", "scan")
          /\ See(a, next[at[a]])
          /\ UNCHANGED <<inactive, mine>>
  /\ UNCHANGED <<producerListTail, producerCount, next, isExplicit, created,
                 queues, bounds, consumers>>

Create(a) ==
  /\ Goto(a, "create", "count")
  /\ created < MaxProducers
  /\ created' = created + 1
  /\ isExplicit' = [isExplicit EXCEPT ![created'] = a \in Tokens]
  /\ mine' = [mine EXCEPT ![a] = created']
  /\ UNCHANGED <<producerListTail, producerCount, next, inactive, queues,
                 bounds, at, consumers>>

CreateFails(a) ==
  /\ Goto(a, "create", "failed")
  /\ failures > 0 \/ created = MaxProducers
  /\ failures' = Max({0, failures - 1})
  /\ UNCHANGED <<list, queues, mine, at, calls, consumers>>

CountProducer(a) ==
  /\ Goto(a, "count", "push")
  /\ producerCount' = producerCount + 1
  /\ See(a, producerListTail)
  /\ UNCHANGED <<producerListTail, next, inactive, isExplicit, created, queues,
                 bounds, mine, consumers>>

PushUnchecked(a) == \* slip: stores where the code compares and exchanges
  /\ Goto(a, "push", "got")
  /\ next' = [next EXCEPT ![mine[a]] = at[a]]
  /\ producerListTail' = mine[a]
  /\ See(a, Null)
  /\ UNCHANGED <<producerCount, inactive, isExplicit, created, queues, bounds,
                 mine, consumers>>

Push(a) ==
  /\ pc[a] = "push"
  /\ IF producerListTail = at[a]
     THEN /\ Goto(a, "push", "got")
          /\ next' = [next EXCEPT ![mine[a]] = at[a]]
          /\ producerListTail' = mine[a]
          /\ See(a, Null)
     ELSE /\ See(a, producerListTail)
          /\ UNCHANGED <<pc, next, producerListTail>>
  /\ UNCHANGED <<producerCount, inactive, isExplicit, created, queues, bounds,
                 mine, consumers>>

CreateAndAdd(a) ==
  Create(a) \/ CreateFails(a) \/ CountProducer(a) \/ Push(a)

RecycleOrCreate(k) == Scan(k) \/ Catch(k) \/ CreateAndAdd(k)

\* One element more in the queue of a's producer.
Enqueue(a) ==
  /\ Goto(a, "enqueue", IF a \in Tokens THEN "holds" ELSE "idle")
  /\ tailIndex' = [tailIndex EXCEPT ![mine[a]] = @ + 1]
  /\ UNCHANGED <<list, headIndex, bounds, mine, at, consumers>>
-----------------------------------------------------------------------------
(* ProducerTokens *)

Construct(k) ==
  /\ Goto(k, "idle", "scan")
  /\ See(k, producerListTail)
  /\ UNCHANGED <<list, queues, bounds, mine, consumers>>

Constructed(k) ==
  /\ \/ Goto(k, "got", "holds")
     \/ Goto(k, "failed", "idle")     \* the token is not valid()
  /\ UNCHANGED <<list, queues, bounds, mine, at, consumers>>

UseToken(k) ==
  /\ Goto(k, "holds", "enqueue")
  /\ calls > 0
  /\ calls' = calls - 1
  /\ UNCHANGED <<list, queues, failures, mine, at, consumers>>

Destruct(k) ==
  /\ Goto(k, "holds", "idle")
  /\ inactive' = [inactive EXCEPT ![mine[k]] = TRUE]
  /\ mine' = [mine EXCEPT ![k] = Null]
  /\ UNCHANGED <<producerListTail, producerCount, next, isExplicit, created,
                 queues, bounds, at, consumers>>

TokenStep(k) == \/ Construct(k) \/ Constructed(k) \/ UseToken(k)
                \/ Destruct(k) \/ RecycleOrCreate(k) \/ Enqueue(k)
-----------------------------------------------------------------------------
(* Consumers.  A call for one element is a bulk call for one. *)

CGoto(c, from, to) == cpc[c] = from /\ cpc' = [cpc EXCEPT ![c] = to]

Return(c) == cpc' = [cpc EXCEPT ![c] = "idle"] /\ loc' = [loc EXCEPT ![c] = NoLocals]

Size(p) == tailIndex[p] - headIndex[p]

\* What producer p has of what c still wants.
Available(c, p) == Min({loc[c].want, Size(p)})

\* What dequeue_bulk of producer p may give c: all of that, unless other claims
\* came in its way.
Outcomes(c, p) ==
  IF c \in contested THEN 0..Available(c, p) ELSE {Available(c, p)}

TakeFrom(p, taken) == headIndex' = [headIndex EXCEPT ![p] = @ + taken]

\* Where the call of c has lost elements, once it got just these from p.
Lost(c, p, taken) ==
  IF taken < Available(c, p) THEN loc[c].lost \cup {p} ELSE loc[c].lost

\* The producer that c is dequeuing from.
Dequeuing(c) ==
  CASE cpc[c] = "best" -> loc[c].best
    [] cpc[c] = "others" /\ loc[c].ptr # loc[c].best -> loc[c].ptr
    [] cpc[c] = "current" -> token[c].current
    [] cpc[c] = "walk" /\ loc[c].ptr # token[c].current -> loc[c].ptr
    [] OTHER -> Null

Meeting(d) ==
  Dequeuing(d) # Null /\ \E e \in Consumers \ {d} : Dequeuing(e) = Dequeuing(d)

\* After a step of c, which begins or ends a dequeue of its own.
Meet(c) ==
  contested' = (contested \ {c}) \cup {d \in Consumers : Meeting(d)'}

\* The scan of try_dequeue, which asks for one element.
TryDequeue(c) ==
  /\ CGoto(c, "idle", "score")
  /\ loc' = [loc EXCEPT ![c].ptr = producerListTail, ![c].want = 1,
                        ![c].seen = tailIndex]
  /\ UNCHANGED <<list, queues, actors, globalExplicitConsumerOffset, token>>

\* try_dequeue_non_interleaved, try_dequeue_bulk
TryDequeueBulk(c) ==
  /\ CGoto(c, "idle", "others")
  /\ \E max \in Wants :
       loc' = [loc EXCEPT ![c].ptr = producerListTail, ![c].want = max,
                          ![c].seen = tailIndex]
  /\ UNCHANGED <<list, queues, actors, globalExplicitConsumerOffset, token>>

Score(c) ==
  LET l == loc[c]
      size == Size(l.ptr)
  IN  /\ cpc[c] = "score"
      /\ l.ptr # Null /\ l.nonEmptyCount < ScoreLimit
      /\ loc' = [loc EXCEPT
           ![c].nonEmptyCount = IF size > 0 THEN @ + 1 ELSE @,
           ![c].best = IF size > l.bestSize THEN l.ptr ELSE @,
           ![c].bestSize = IF size > @ THEN size ELSE @,
           ![c].ptr = next[l.ptr]]
      /\ UNCHANGED <<list, queues, actors, globalExplicitConsumerOffset, token,
                     cpc>>

Scored(c) ==
  LET l == loc[c]
  IN  /\ cpc[c] = "score"
      /\ l.ptr = Null \/ l.nonEmptyCount = ScoreLimit
      /\ IF l.nonEmptyCount > 0
         THEN /\ CGoto(c, "score", "best")
              /\ loc' = [loc EXCEPT ![c].ptr = Null, ![c].bestSize = 0]
         ELSE Return(c)
      /\ UNCHANGED <<list, queues, actors, globalExplicitConsumerOffset,
                     token>>

Best(c) ==
  /\ cpc[c] = "best"
  /\ \E taken \in Outcomes(c, loc[c].best) :
       /\ TakeFrom(loc[c].best, taken)
       /\ IF taken > 0
          THEN Return(c)
          ELSE /\ CGoto(c, "best", "others")
               /\ loc' = [loc EXCEPT ![c].ptr = producerListTail,
                                     ![c].lost = Lost(c, loc[c].best, 0)]
  /\ UNCHANGED <<list, tailIndex, actors, globalExplicitConsumerOffset, token>>

Others(c) ==
  LET l == loc[c]
  IN  /\ cpc[c] = "others"
      /\ CASE l.ptr = Null -> Return(c) /\ UNCHANGED headIndex
           [] l.ptr # Null /\ l.ptr = l.best ->
                /\ loc' = [loc EXCEPT ![c].ptr = next[l.ptr]]
                /\ UNCHANGED <<cpc, headIndex>>
           [] OTHER ->
                \E taken \in Outcomes(c, l.ptr) :
                  /\ TakeFrom(l.ptr, taken)
                  /\ IF taken = l.want
                     THEN Return(c)
                     ELSE /\ loc' = [loc EXCEPT ![c].ptr = next[l.ptr],
                                                ![c].want = @ - taken,
                                                ![c].lost = Lost(c, l.ptr, taken)]
                          /\ UNCHANGED cpc
      /\ UNCHANGED <<list, tailIndex, actors, globalExplicitConsumerOffset,
                     token>>
-----------------------------------------------------------------------------
(* Consumers with a ConsumerToken *)

TryDequeueToken(c) ==
  /\ CGoto(c, "idle",
       IF \/ token[c].desired = Null
          \/ token[c].lastKnown # globalExplicitConsumerOffset
       THEN "rotate" ELSE "current")
  /\ \E max \in Wants : loc' = [loc EXCEPT ![c].want = max, ![c].seen = tailIndex]
  /\ UNCHANGED <<list, queues, actors, globalExplicitConsumerOffset, token>>

\* update_current_producer_after_rotation, as far as its first load ...
Rotate(c) ==
  /\ cpc[c] = "rotate"
  /\ IF token[c].desired = Null /\ producerListTail = Null
     THEN Return(c)
     ELSE /\ CGoto(c, "rotate", "place")
          /\ loc' = [loc EXCEPT ![c].tail = producerListTail]
  /\ UNCHANGED <<list, queues, actors, globalExplicitConsumerOffset, token>>

\* The producer after p on the way round, where the list begins with tail.
After(p, tail) == IF next[p] = Null THEN tail ELSE next[p]

\* The producer n steps on from p.
Along(p, n, tail) ==
  LET step[i \in 0..n] == IF i = 0 THEN p ELSE After(step[i - 1], tail)
  IN  step[n]

\* ... and the rest of it.
Place(c) ==
  LET k == token[c]
      tail == loc[c].tail
      offset == producerCount - 1 - (k.initialOffset % producerCount)
      start == IF k.desired = Null THEN Along(tail, offset, tail) ELSE k.desired
      delta == (globalExplicitConsumerOffset - k.lastKnown) % producerCount
      producer == Along(start, delta, tail)
  IN  /\ CGoto(c, "place", "current")
      /\ token' = [token EXCEPT
           ![c].lastKnown = globalExplicitConsumerOffset, ![c].desired = producer,
           ![c].current = producer, ![c].consumed = 0]
      /\ loc' = [loc EXCEPT ![c].tail = Null]
      /\ UNCHANGED <<list, queues, actors, globalExplicitConsumerOffset>>

\* Whether a call that got what it wanted moves everyone on: a bulk call from
\* the quota on, a call for one only at the quota exactly.
Turns(want, consumed) ==
  IF consumed < Quota THEN {0}
  ELSE IF consumed > Quota /\ want = 1 THEN {0, 1} ELSE {1}

\* The producer whose turn it is; after Quota elements it is everyone's turn to
\* move on.
Current(c) ==
  LET k == token[c]
  IN  /\ cpc[c] = "current"
      /\ \E taken \in Outcomes(c, k.current) :
           LET left == loc[c].want - taken
           IN  /\ TakeFrom(k.current, taken)
               /\ token' = [token EXCEPT ![c].consumed = @ + taken]
               /\ \E turn \in (IF left = 0
                                THEN Turns(loc[c].want, k.consumed + taken)
                                ELSE {0}) :
                    globalExplicitConsumerOffset' =
                      globalExplicitConsumerOffset + turn
               /\ IF left = 0
                  THEN Return(c)
                  ELSE /\ CGoto(c, "current", "walk")
                       /\ loc' = [loc EXCEPT
                            ![c].ptr = After(k.current, producerListTail),
                            ![c].tail = producerListTail, ![c].want = left,
                            ![c].lost = Lost(c, k.current, taken)]
      /\ UNCHANGED <<list, tailIndex, actors>>

\* Through to the next producer, with what this one gives.
WalkOn(c) ==
  LET l == loc[c]
  IN  \E taken \in Outcomes(c, l.ptr) :
        /\ TakeFrom(l.ptr, taken)
        /\ token' = IF taken = 0 THEN token
                    ELSE [token EXCEPT ![c].current = l.ptr,
                                       ![c].consumed = taken]
        /\ IF taken = l.want
           THEN Return(c)
           ELSE /\ loc' = [loc EXCEPT ![c].ptr = After(l.ptr, l.tail),
                                      ![c].want = @ - taken,
                                      ![c].lost = Lost(c, l.ptr, taken)]
                /\ UNCHANGED cpc

WalkToTail(c) == \* slip: stops where the list begins
  /\ cpc[c] = "walk"
  /\ IF loc[c].ptr = loc[c].tail
     THEN Return(c) /\ UNCHANGED <<headIndex, token>>
     ELSE WalkOn(c)
  /\ UNCHANGED <<list, tailIndex, actors, globalExplicitConsumerOffset>>

\* Round the list until it is back at the producer it got an element from last.
Walk(c) ==
  /\ cpc[c] = "walk"
  /\ IF loc[c].ptr = token[c].current
     THEN Return(c) /\ UNCHANGED <<headIndex, token>>
     ELSE WalkOn(c)
  /\ UNCHANGED <<list, tailIndex, actors, globalExplicitConsumerOffset>>

ConsumerStep(c) ==
  /\ \/ TryDequeue(c) \/ TryDequeueBulk(c) \/ TryDequeueToken(c)
     \/ Score(c) \/ Scored(c) \/ Best(c) \/ Others(c)
     \/ Rotate(c) \/ Place(c) \/ Current(c) \/ Walk(c)
  /\ Meet(c)
=============================================================================
