----------------------------- MODULE DataFacts -----------------------------
(***************************************************************************)
(* Lemmas about data that the proofs of several modules need.              *)
(***************************************************************************)
EXTENDS Integers, Sequences, FiniteSets, Functions,
        FiniteSetTheorems, FunctionTheorems, SequenceTheorems,
        WellFoundedInduction, TLAPS
-----------------------------------------------------------------------------
(* Queues as sets: what enqueues and dequeues do to the elements of a queue in
   which none occurs twice. *)

\* What a bulk enqueue does to the members of a queue.
LEMMA ConcatDistinct ==
  ASSUME NEW S, NEW s \in Seq(S), NEW t \in Seq(S),
         IsInjective(s), IsInjective(t), Range(s) \cap Range(t) = {}
  PROVE  /\ Range(s \o t) = Range(s) \cup Range(t)
         /\ IsInjective(s \o t)
<1>1. Range(s \o t) = Range(s) \cup Range(t)
  BY RangeConcatenation
<1>2. /\ Len(s \o t) = Len(s) + Len(t) /\ Len(s) \in Nat /\ Len(t) \in Nat
      /\ DOMAIN (s \o t) = 1..Len(s \o t)
      /\ DOMAIN s = 1..Len(s) /\ DOMAIN t = 1..Len(t)
      /\ \A i \in 1..Len(s) : (s \o t)[i] = s[i]
      /\ \A i \in 1..Len(t) : (s \o t)[Len(s) + i] = t[i]
  OBVIOUS
<1>3. \A i \in 1..Len(s \o t) : \/ i \in 1..Len(s)
                                \/ \E k \in 1..Len(t) : i = Len(s) + k
  <2>1. \A i \in 1..Len(s \o t) : i \notin 1..Len(s) =>
           i - Len(s) \in 1..Len(t) /\ i = Len(s) + (i - Len(s))
    BY <1>2
  <2>2. QED
    BY <2>1
<1>4. SUFFICES ASSUME NEW i \in 1..Len(s \o t), NEW j \in 1..Len(s \o t),
                      (s \o t)[i] = (s \o t)[j]
               PROVE  i = j
  BY <1>1, <1>2 DEF IsInjective
<1>5. \A k \in 1..Len(s), l \in 1..Len(t) : (s \o t)[k] # (s \o t)[Len(s) + l]
  BY <1>2 DEF Range
<1>6. CASE i \in 1..Len(s) /\ j \in 1..Len(s)
  BY <1>2, <1>4, <1>6 DEF IsInjective
<1>7. CASE i \notin 1..Len(s) /\ j \notin 1..Len(s)
  <2>1. PICK k \in 1..Len(t) : i = Len(s) + k
    BY <1>3, <1>7
  <2>2. PICK l \in 1..Len(t) : j = Len(s) + l
    BY <1>3, <1>7
  <2>3. k = l
    BY <1>2, <1>4, <2>1, <2>2 DEF IsInjective
  <2>4. QED
    BY <2>1, <2>2, <2>3
<1>8. QED
  BY <1>3, <1>4, <1>5, <1>6, <1>7

\* A dequeue takes exactly the head out of a queue of distinct elements.
LEMMA TailDistinct ==
  ASSUME NEW S, NEW s \in Seq(S), s # <<>>, IsInjective(s)
  PROVE  /\ Head(s) \in Range(s)
         /\ Range(Tail(s)) = Range(s) \ {Head(s)}
         /\ IsInjective(Tail(s))
<1>1. /\ Len(s) \in Nat \ {0} /\ Len(Tail(s)) = Len(s) - 1 /\ Head(s) = s[1]
      /\ DOMAIN s = 1..Len(s) /\ DOMAIN Tail(s) = 1..Len(Tail(s))
      /\ \A i \in 1..Len(Tail(s)) : Tail(s)[i] = s[i + 1] /\ i + 1 \in 1..Len(s)
      /\ 1 \in 1..Len(s)
  OBVIOUS
<1>2. Head(s) \in Range(s)
  BY <1>1 DEF Range
<1>3. \A i \in 1..Len(Tail(s)) : Tail(s)[i] \in Range(s) /\ Tail(s)[i] # Head(s)
  BY <1>1 DEF Range, IsInjective
<1>4. \A i \in 1..Len(s) : s[i] # Head(s) => s[i] \in Range(Tail(s))
  <2>1. SUFFICES ASSUME NEW i \in 1..Len(s), s[i] # Head(s)
                 PROVE  s[i] \in Range(Tail(s))
    OBVIOUS
  <2>2. i - 1 \in 1..Len(Tail(s)) /\ i = (i - 1) + 1
    BY <1>1, <2>1
  <2>3. QED
    BY <1>1, <2>2 DEF Range
<1>5. Range(Tail(s)) = Range(s) \ {Head(s)}
  BY <1>1, <1>3, <1>4 DEF Range
<1>6. IsInjective(Tail(s))
  <2>1. SUFFICES ASSUME NEW i \in 1..Len(Tail(s)), NEW j \in 1..Len(Tail(s)),
                        Tail(s)[i] = Tail(s)[j]
                 PROVE  i = j
    BY <1>1 DEF IsInjective
  <2>2. i + 1 = j + 1
    BY <1>1, <2>1 DEF IsInjective
  <2>3. QED
    BY <2>2
<1>7. QED
  BY <1>2, <1>5, <1>6

\* Distinct elements can be counted by the length of their queue, others are
\* at most as many.
LEMMA CountDistinct ==
  ASSUME NEW S, NEW s \in Seq(S)
  PROVE  /\ IsFiniteSet(Range(s))
         /\ Cardinality(Range(s)) <= Len(s)
         /\ IsInjective(s) => Cardinality(Range(s)) = Len(s)
<1>1. /\ IsFiniteSet(1..Len(s)) /\ Cardinality(1..Len(s)) = Len(s)
  <2>1. Len(s) \in Nat
    OBVIOUS
  <2>2. QED
    BY <2>1, FS_Interval
<1>2. s \in [1..Len(s) -> S]
  BY LenProperties
<1>3. s \in Surjection(1..Len(s), Range(s))
  BY <1>2, Fun_RangeProperties
<1>4. IsInjective(s) => s \in Injection(1..Len(s), Range(s))
  BY <1>3 DEF Injection, Surjection
<1>5. QED
  BY <1>1, <1>3, <1>4, FS_Surjection

\* A single enqueue adds one element.
LEMMA AppendDistinct ==
  ASSUME NEW S, NEW s \in Seq(S), NEW e \in S, IsInjective(s), e \notin Range(s)
  PROVE  /\ Range(Append(s, e)) = Range(s) \cup {e}
         /\ IsInjective(Append(s, e))
<1> DEFINE t == <<e>>
<1>1. t \in Seq(S) /\ Range(t) = {e} /\ IsInjective(t)
  BY DEF Range, IsInjective
<1>2. Append(s, e) = s \o t
  OBVIOUS
<1> HIDE DEF t
<1>3. Range(s) \cap Range(t) = {}
  BY <1>1
<1>4. Range(s \o t) = Range(s) \cup Range(t) /\ IsInjective(s \o t)
  BY <1>1, <1>3, ConcatDistinct
<1>5. QED
  BY <1>1, <1>2, <1>4, SMTT(30)

\* Handing an element on from one queue to the next leaves their whole as it is.
LEMMA HandOn ==
  ASSUME NEW S, NEW s \in Seq(S), NEW t \in Seq(S)
  PROVE  /\ s \o <<>> = s /\ <<>> \o s = s
         /\ t # <<>> => (s \o <<Head(t)>>) \o Tail(t) = s \o t
         /\ \A e \in S : s \o Append(t, e) = (s \o t) \o <<e>>
         /\ \A e \in S : s \o Append(t, e) = Append(s \o t, e)
<1>1. s \o <<>> = s /\ <<>> \o s = s
  BY ConcatEmptySeq
<1>2. ASSUME t # <<>> PROVE (s \o <<Head(t)>>) \o Tail(t) = s \o t
  <2>1. /\ <<Head(t)>> \in Seq(S) /\ Tail(t) \in Seq(S)
        /\ <<Head(t)>> \o Tail(t) = t
    BY <1>2
  <2>2. QED
    BY <2>1, ConcatAssociative
<1>3. ASSUME NEW e \in S
      PROVE  /\ s \o Append(t, e) = (s \o t) \o <<e>>
             /\ s \o Append(t, e) = Append(s \o t, e)
  <2>1. <<e>> \in Seq(S) /\ Append(t, e) = t \o <<e>> /\ s \o t \in Seq(S)
    BY AppendIsConcat
  <2>2. s \o Append(t, e) = (s \o t) \o <<e>>
    BY <2>1, ConcatAssociative
  <2>3. Append(s \o t, e) = (s \o t) \o <<e>>
    BY <2>1, AppendIsConcat
  <2>4. QED
    BY <2>2, <2>3
<1>4. QED
  BY <1>1, <1>2, <1>3

\* Five queues in a row, and the last four of them.
Five(k, r, g, q, d) == (((k \o r) \o g) \o q) \o d
Four(r, g, q, d) == ((r \o g) \o q) \o d

\* Concatenation by a name, so that the provers see its laws and not its definition.
Joined(s, t) == s \o t

\* The first of five queues in a row can be set apart.
LEMMA Regroup ==
  ASSUME NEW S
  PROVE  \A k, r, g, q, d \in Seq(S) :
           /\ Four(r, g, q, d) \in Seq(S)
           /\ Five(k, r, g, q, d) = k \o Four(r, g, q, d)
<1>1. \A s, t \in Seq(S) : Joined(s, t) \in Seq(S)
  BY ConcatProperties DEF Joined
<1>2. \A s, t, u \in Seq(S) : Joined(Joined(s, t), u) = Joined(s, Joined(t, u))
  BY ConcatAssociative DEF Joined
<1> TAKE k, r, g, q, d \in Seq(S)
<1>3. /\ Joined(r, g) \in Seq(S)
      /\ Joined(Joined(k, r), g) = Joined(k, Joined(r, g))
  BY <1>1, <1>2, SMTT(30)
<1>4. /\ Joined(Joined(r, g), q) \in Seq(S)
      /\ Joined(Joined(k, Joined(r, g)), q) = Joined(k, Joined(Joined(r, g), q))
  BY <1>1, <1>2, <1>3, SMTT(30)
<1>5. /\ Joined(Joined(Joined(r, g), q), d) \in Seq(S)
      /\ Joined(Joined(k, Joined(Joined(r, g), q)), d)
           = Joined(k, Joined(Joined(Joined(r, g), q), d))
  BY <1>1, <1>2, <1>4, SMTT(30)
<1>6. Joined(Joined(Joined(Joined(k, r), g), q), d)
        = Joined(k, Joined(Joined(Joined(r, g), q), d))
  BY <1>3, <1>4, <1>5, Zenon
<1>7. QED
  BY <1>5, <1>6, Zenon DEF Joined, Five, Four
-----------------------------------------------------------------------------
(* Multiples and remainders. *)

\* Remainders.
LEMMA ModRange == \A a \in Int, n \in Nat \ {0} : a % n \in 0..(n - 1)
  OBVIOUS

\* Multiples of n, and what lies between them.
LEMMA Times ==
  ASSUME NEW n \in Nat \ {0}, NEW a \in Int, NEW b \in Int
  PROVE  /\ a * n \in Int /\ (a + 1) * n = a * n + n /\ (a - 1) * n = a * n - n
         /\ (a + b) * n = a * n + b * n
         /\ a <= b => a * n <= b * n
         /\ a < b => a * n + n <= b * n
         /\ a * n < b * n => a < b
<1>1. a * n \in Int /\ (a + 1) * n = a * n + n /\ (a - 1) * n = a * n - n
      /\ (a + b) * n = a * n + b * n
  OBVIOUS
<1>2. \A x, y \in Int : x <= y => x * n <= y * n
  <2>1. TAKE x, y \in Int
  <2>2. HAVE x <= y
  <2>3. (y - x) * n \in Nat
    <3>1. \A k \in Nat : k * n \in Nat
      OBVIOUS
    <3>2. y - x \in Nat
      BY <2>2
    <3>3. QED
      BY <3>1, <3>2
  <2>4. (y - x) * n = y * n - x * n /\ x * n \in Int /\ y * n \in Int
    OBVIOUS
  <2>5. QED
    BY <2>3, <2>4
<1>3. a <= b => a * n <= b * n
  BY <1>2
<1>4. a < b => a * n + n <= b * n
  <2>1. HAVE a < b
  <2>2. (a + 1) * n <= b * n
    BY <1>2, <2>1
  <2>3. QED
    BY <1>1, <2>2
<1>5. a * n < b * n => a < b
  BY <1>2
<1>6. QED
  BY <1>1, <1>3, <1>4, <1>5

\* Division with remainder, and that it is unique.
LEMMA Division ==
  ASSUME NEW n \in Nat \ {0}, NEW a \in Int
  PROVE  /\ a \div n \in Int /\ a % n \in 0..(n - 1)
         /\ (a \div n) * n \in Int /\ a = (a \div n) * n + (a % n)
         /\ (a \div n) * n <= a /\ a < (a \div n) * n + n
OBVIOUS

\* The quotient is unique.
LEMMA Quotient ==
  ASSUME NEW n \in Nat \ {0}, NEW a \in Int, NEW q \in Int,
         q * n <= a, a < q * n + n
  PROVE  a \div n = q /\ a % n = a - q * n
<1> DEFINE p == a \div n
<1>1. p \in Int /\ a % n \in 0..(n - 1) /\ a = p * n + (a % n)
  BY Division
<1> HIDE DEF p
<1>2. p * n \in Int /\ q * n \in Int
  BY <1>1
<1>3. CASE p < q
  <2>1. p * n + n <= q * n
    BY <1>1, <1>3, Times
  <2>2. QED
    BY <1>1, <1>2, <2>1
<1>4. CASE q < p
  <2>1. q * n + n <= p * n
    BY <1>1, <1>4, Times
  <2>2. QED
    BY <1>1, <1>2, <2>1
<1>5. QED
  BY <1>1, <1>2, <1>3, <1>4 DEF p

\* Two numbers less than n apart have different remainders.
LEMMA ModApart ==
  ASSUME NEW n \in Nat \ {0}, NEW a \in Int, NEW b \in Int,
         a < b, b < a + n
  PROVE  a % n # b % n
<1> DEFINE p == a \div n  q == b \div n
<1>1. /\ p \in Int /\ a % n \in 0..(n - 1) /\ a = p * n + (a % n)
      /\ q \in Int /\ b % n \in 0..(n - 1) /\ b = q * n + (b % n)
  BY Division
<1> HIDE DEF p, q
<1>2. p * n \in Int /\ q * n \in Int
  BY <1>1
<1>3. SUFFICES ASSUME a % n = b % n PROVE FALSE
  OBVIOUS
<1>4. p * n < q * n /\ q * n < p * n + n
  BY <1>1, <1>2, <1>3
<1>5. p < q
  BY <1>1, <1>4, Times
<1>6. p * n + n <= q * n
  BY <1>1, <1>5, Times
<1>7. QED
  BY <1>2, <1>4, <1>6

\* A remainder can be taken before an addition or after it.
LEMMA ModAdd ==
  ASSUME NEW n \in Nat \ {0}, NEW a \in Int, NEW b \in Int
  PROVE  ((a % n) + b) % n = (a + b) % n
<1> DEFINE p == a \div n  q == (a + b) \div n  r == a % n  t == (a + b) % n
<1>1. /\ p \in Int /\ r \in 0..(n - 1) /\ a = p * n + r
      /\ q \in Int /\ t \in 0..(n - 1) /\ a + b = q * n + t
  BY Division
<1> HIDE DEF p, q, r, t
<1>2. (q - p) * n = q * n - p * n /\ p * n \in Int /\ q * n \in Int
  BY <1>1
<1>3. r + b = (q - p) * n + t
  BY <1>1, <1>2
<1>4. q - p \in Int /\ (q - p) * n \in Int
  BY <1>1, <1>2
<1>5. (q - p) * n <= r + b /\ r + b < (q - p) * n + n
  BY <1>1, <1>3, <1>4
<1>6. PICK i \in Int, k \in Int : i = r + b /\ k = q - p
  BY <1>1
<1>7. (r + b) % n = t
  <2>1. k * n <= i /\ i < k * n + n /\ i = k * n + t
    BY <1>3, <1>5, <1>6
  <2>2. i % n = i - k * n
    BY <2>1, Quotient
  <2>3. i % n = t
    BY <1>1, <2>1, <2>2
  <2>4. QED
    BY <1>6, <2>3
<1>8. QED
  BY <1>7 DEF r, t

\* A remainder's successor, its predecessor, and a full turn.
LEMMA ModSteps ==
  ASSUME NEW n \in Nat \ {0}, NEW a \in Int
  PROVE  /\ ((a % n) + 1) % n = (a + 1) % n /\ ((a % n) - 1) % n = (a - 1) % n
         /\ (a + n) % n = a % n
<1>1. ((a % n) + 1) % n = (a + 1) % n
  <2>1. PICK b \in Int : b = 1
    OBVIOUS
  <2>2. ((a % n) + b) % n = (a + b) % n
    BY ModAdd
  <2>3. QED
    BY <2>1, <2>2, Zenon
<1>2. ((a % n) - 1) % n = (a - 1) % n
  <2>1. PICK b \in Int : b = -1
    OBVIOUS
  <2>2. ((a % n) + b) % n = (a + b) % n
    BY ModAdd
  <2>3. a % n \in Int
    BY Division
  <2>4. a + b = a - 1 /\ (a % n) + b = (a % n) - 1
    BY <2>1, <2>3
  <2>5. QED
    BY <2>2, <2>4, Zenon
<1>3. (a + n) % n = a % n
  <2> DEFINE p == a \div n
  <2>1. p \in Int /\ p * n \in Int /\ a = p * n + (a % n) /\ a % n \in 0..(n - 1)
    BY Division
  <2> HIDE DEF p
  <2>2. (p + 1) * n = p * n + n /\ p + 1 \in Int
    BY <2>1
  <2>3. PICK q \in Int, b \in Int : q = p + 1 /\ b = a + n
    BY <2>1
  <2>4. q * n \in Int /\ q * n <= b /\ b < q * n + n /\ b - q * n = a % n
    <3>1. q * n = p * n + n
      BY <2>2, <2>3
    <3>2. PICK i \in Int, j \in Int, k \in Int : i = p * n /\ j = q * n /\ k = a % n
      BY <2>1, <2>2, <2>3
    <3>3. a = i + k /\ j = i + n /\ b = a + n /\ 0 <= k /\ k <= n - 1
      BY <2>1, <2>3, <3>1, <3>2
    <3>4. j <= b /\ b < j + n /\ b - j = k
      BY <3>3
    <3>5. QED
      BY <3>2, <3>4
  <2>5. b % n = a % n
    BY <2>4, Quotient
  <2>6. QED
    BY <2>3, <2>5
<1>4. QED
  BY <1>1, <1>2, <1>3

\* A number below a range is not in it.
LEMMA NotInRange == \A i, j, k \in Int : i < j => i \notin j..k
OBVIOUS
-----------------------------------------------------------------------------
(* Induction.  The library's theorems on it take an operator, which the
   provers cannot instantiate; that every set of numbers has a least element
   needs none. *)

\* Pairs of numbers in ascending order.
Ascending == {p \in Nat \X Nat : p[1] < p[2]}

LEMMA LeastNumber ==
  ASSUME NEW S \in SUBSET Nat, S # {}
  PROVE  \E m \in S : \A n \in S : m <= n
<1>1. OpToRel(<, Nat) = Ascending
  BY DEF OpToRel, Ascending
<1>2. IsWellFoundedOn(Ascending, Nat)
  BY <1>1, NatLessThanWellFounded
<1>3. PICK m \in S : \A n \in S : <<n, m>> \notin Ascending
  BY <1>2, WFMin
<1>4. \A n \in S : m <= n
  <2>1. TAKE n \in S
  <2>2. n \in Nat /\ m \in Nat /\ ~(n < m)
    BY <1>3 DEF Ascending
  <2>3. QED
    BY <2>2
<1>5. QED
  BY <1>4

\* A set that has 0 and the successors of its members has all numbers.
LEMMA Induction ==
  ASSUME NEW S, 0 \in S, \A n \in Nat : n \in S => n + 1 \in S
  PROVE  Nat \subseteq S
<1> SUFFICES ASSUME Nat \ S # {} PROVE FALSE
  OBVIOUS
<1>1. PICK m \in Nat \ S : \A n \in Nat \ S : m <= n
  BY LeastNumber
<1>2. m - 1 \in Nat /\ m - 1 \in S
  BY <1>1
<1>3. QED
  BY <1>1, <1>2

\* What a function from 0..n on defined step by step comes to: it exists ...
Iterates(f, step, x, n) ==
  f = [i \in 0..n |-> IF i = 0 THEN x ELSE step[f[i - 1]]]

LEMMA Iteration ==
  ASSUME NEW X, NEW x \in X, NEW step \in [X -> X], NEW n \in Nat
  PROVE  \E f \in [0..n -> X] : Iterates(f, step, x, n)
<1> DEFINE Right(k, f) == /\ f \in [0..k -> X] /\ f[0] = x
                          /\ \A i \in 1..k : f[i] = step[f[i - 1]]
           S == {k \in Nat : \E f : Right(k, f)}
<1>1. 0 \in S
  <2>1. Right(0, [i \in 0..0 |-> x])
    OBVIOUS
  <2>2. QED
    BY <2>1
<1>2. ASSUME NEW k \in Nat, k \in S PROVE k + 1 \in S
  <2>1. PICK f : Right(k, f)
    BY <1>2
  <2> DEFINE g == [i \in 0..(k + 1) |-> IF i = k + 1 THEN step[f[k]] ELSE f[i]]
  <2>2. f[k] \in X
    BY <2>1
  <2>3. g \in [0..(k + 1) -> X] /\ g[0] = x /\ g[k + 1] = step[f[k]]
    BY <2>1, <2>2
  <2>4. \A i \in 0..k : g[i] = f[i]
    OBVIOUS
  <2>5. \A i \in 1..(k + 1) : g[i] = step[g[i - 1]]
    <3>1. TAKE i \in 1..(k + 1)
    <3>2. CASE i = k + 1
      BY <2>3, <2>4, <3>2
    <3>3. CASE i \in 1..k
      BY <2>1, <2>4, <3>3
    <3>4. QED
      BY <3>2, <3>3
  <2> HIDE DEF g
  <2>6. Right(k + 1, g)
    BY <2>3, <2>5
  <2>7. QED
    BY <2>6
<1>3. Nat \subseteq S
  <2> HIDE DEF S
  <2>1. QED
    BY <1>1, <1>2, Induction
<1>4. PICK f : Right(n, f)
  BY <1>3
<1>5. Iterates(f, step, x, n)
  <2>1. f = [i \in 0..n |-> f[i]]
    BY <1>4
  <2>2. \A i \in 0..n : f[i] = IF i = 0 THEN x ELSE step[f[i - 1]]
    BY <1>4
  <2>3. QED
    BY <2>1, <2>2 DEF Iterates
<1>6. QED
  BY <1>4, <1>5

\* ... and it stays in any set that the steps do not leave.
LEMMA IterationStays ==
  ASSUME NEW Y, NEW n \in Nat, NEW f, f[0] \in Y,
         \A i \in 1..n : f[i - 1] \in Y => f[i] \in Y
  PROVE  \A i \in 0..n : f[i] \in Y
<1> DEFINE S == {i \in Nat : i \in 0..n => f[i] \in Y}
<1>1. 0 \in S
  OBVIOUS
<1>2. ASSUME NEW i \in Nat, i \in S PROVE i + 1 \in S
  <2>1. CASE i + 1 \in 1..n
    <3>1. f[(i + 1) - 1] \in Y
      BY <1>2, <2>1
    <3>2. QED
      BY <2>1, <3>1
  <2>2. CASE i + 1 \notin 1..n
    BY <2>2
  <2>3. QED
    BY <2>1, <2>2
<1>3. Nat \subseteq S
  <2> HIDE DEF S
  <2>1. QED
    BY <1>1, <1>2, Induction
<1>4. QED
  BY <1>3
=============================================================================
