--------------------------- MODULE Outbound_proofs --------------------------
(***************************************************************************)
(* Proofs about the traffic that leaves: the webhook outbox, for any       *)
(* deliveries, worker processes, back-off schedule and lapses, as long as  *)
(* no delivery is replayed while an attempt of it is in flight; the send   *)
(* budgets, for any capacity and rate; the TLS report job, for any         *)
(* reports, addresses, replicas and workers; one email's delivery, for any *)
(* recipients, hosts and policies; and, because it too is about sums, the  *)
(* fixed-window limits, for any attempts, keys, weights and lost answers.  *)
(* The budgets, the caps and the windows are sums, so the lemmas on sums   *)
(* come first; they are proved by induction on the naturals, stated for    *)
(* sets of naturals.                                                       *)
(***************************************************************************)
EXTENDS RateWindows, WebhookDelivery, TokenBuckets, TlsReports, MailDelivery,
        FiniteSetTheorems, WellFoundedInduction, TLAPS

-----------------------------------------------------------------------------
(* Induction, and sums.                                                    *)

\* A nonempty set of naturals has a least member.
LEMMA LeastNatural ==
    ASSUME NEW T \in SUBSET Nat, T # {}
    PROVE  \E x \in T : \A y \in T : x <= y
<1>1. IsWellFoundedOn(OpToRel(<, Nat), Nat)
  BY NatLessThanWellFounded
<1>2. \E x \in T : \A y \in T : ~ (<<y, x>> \in OpToRel(<, Nat))
  BY <1>1, WFMin, Zenon
<1>3. ASSUME NEW x \in Nat, NEW y \in Nat, ~ (<<y, x>> \in OpToRel(<, Nat))
      PROVE  x <= y
  BY <1>3 DEF OpToRel
<1> QED
  BY <1>2, <1>3

\* A set of naturals with 0 and every successor is all of them.
LEMMA NaturalsBySteps ==
    ASSUME NEW S \in SUBSET Nat, 0 \in S, \A n \in S : n + 1 \in S
    PROVE  S = Nat
<1> SUFFICES ASSUME S # Nat
             PROVE  FALSE
  OBVIOUS
<1> DEFINE T == Nat \ S
<1>1. T \in SUBSET Nat /\ T # {}
  OBVIOUS
<1>2. PICK x \in T : \A y \in T : x <= y
  BY <1>1, LeastNatural
<1>3. x # 0 /\ x - 1 \in Nat /\ x - 1 \notin T
  BY <1>2
<1> QED
  BY <1>3

\* A condition, counted.
One(c) == IF c THEN 1 ELSE 0

-----------------------------------------------------------------------------
\* The recursive function inside a sum, and the element it takes first.
First(s) == CHOOSE x \in s : TRUE
Rest(s) == s \ {First(s)}
SumsTo(f, S) == CHOOSE g : g = [s \in SUBSET S |-> IF s = {} THEN 0 ELSE f[First(s)] + g[Rest(s)]]

\* The sum is the recursive function that takes the first element first.
LEMMA SumIsSumsTo ==
    ASSUME NEW f, NEW S
    PROVE  SumFunctionOnSet(f, S) = SumsTo(f, S)[S]
  BY DEF SumFunctionOnSet, FoldFunctionOnSet, MapThenFoldSet, SumsTo, First, Rest

\* Taking the first element leaves a smaller finite set.
LEMMA RestIsLess ==
    ASSUME NEW S, IsFiniteSet(S), NEW s \in SUBSET S, s # {}
    PROVE  /\ First(s) \in s /\ Rest(s) \in SUBSET S
           /\ IsFiniteSet(s) /\ IsFiniteSet(Rest(s))
           /\ Cardinality(s) \in Nat /\ Cardinality(Rest(s)) \in Nat
           /\ Cardinality(s) = Cardinality(Rest(s)) + 1
<1>1. First(s) \in s
  BY DEF First
<1>2. IsFiniteSet(s)
  BY FS_Subset
<1>3. IsFiniteSet(Rest(s)) /\ Cardinality(Rest(s)) = Cardinality(s) - 1
  BY <1>1, <1>2, FS_RemoveElement DEF Rest
<1>4. Cardinality(s) \in Nat /\ Cardinality(Rest(s)) \in Nat
  BY <1>2, <1>3, FS_CardinalityType
<1> QED
  BY <1>1, <1>2, <1>3, <1>4 DEF Rest

\* The recursion has a solution ...
LEMMA SumsToExists ==
    ASSUME NEW f, NEW S, IsFiniteSet(S)
    PROVE  \A s \in SUBSET S :
              SumsTo(f, S)[s] = IF s = {} THEN 0 ELSE f[First(s)] + SumsTo(f, S)[Rest(s)]
<1> DEFINE Step(h) == [s \in SUBSET S |-> IF s = {} THEN 0 ELSE f[First(s)] + h[Rest(s)]]
           Upto(h, n) == \A s \in SUBSET S : Cardinality(s) <= n => h[s] = Step(h)[s]
           N == {n \in Nat : \E h : Upto(h, n)}
<1>1. 0 \in N
  <2>1. \A s \in SUBSET S : Cardinality(s) <= 0 => s = {}
    <3> SUFFICES ASSUME NEW s \in SUBSET S, s # {}
                 PROVE  ~(Cardinality(s) <= 0)
      OBVIOUS
    <3> QED
      BY RestIsLess
  <2>2. Upto([s \in SUBSET S |-> 0], 0)
    BY <2>1
  <2> QED
    BY <2>2
<1>2. ASSUME NEW n \in N
      PROVE  n + 1 \in N
  <2>1. PICK h : Upto(h, n)
    BY <1>2
  <2>2. Upto(Step(h), n + 1)
    <3> SUFFICES ASSUME NEW s \in SUBSET S, Cardinality(s) <= n + 1, s # {}
                 PROVE  f[First(s)] + h[Rest(s)] = f[First(s)] + Step(h)[Rest(s)]
      BY RestIsLess
    <3>1. Cardinality(Rest(s)) <= n /\ Rest(s) \in SUBSET S
      BY RestIsLess
    <3>2. h[Rest(s)] = Step(h)[Rest(s)]
      BY <2>1, <3>1
    <3> QED
      BY <3>2
  <2> HIDE DEF Step, Upto
  <2>3. n + 1 \in Nat /\ \E g : Upto(g, n + 1)
    BY <2>2
  <2> QED
    BY <2>3
<1>3. N = Nat
  <2> HIDE DEF N
  <2>1. N \in SUBSET Nat
    BY DEF N
  <2> QED
    BY <1>1, <1>2, <2>1, NaturalsBySteps
<1>4. PICK h : Upto(h, Cardinality(S))
  BY <1>3, FS_CardinalityType
<1>5. \A s \in SUBSET S : h[s] = Step(h)[s]
  BY <1>4, FS_Subset
<1> DEFINE g == [s \in SUBSET S |-> h[s]]
<1>6. \A s \in SUBSET S : s # {} => g[Rest(s)] = h[Rest(s)]
  BY RestIsLess
<1>7. g = Step(g)
  BY <1>5, <1>6
<1> HIDE DEF g
<1>8. SumsTo(f, S) = Step(SumsTo(f, S))
  BY <1>7 DEF SumsTo
<1> DEFINE a == SumsTo(f, S)
<1> HIDE DEF a
<1>9. a = Step(a)
  BY <1>8 DEF a
<1>10. \A s \in SUBSET S : a[s] = IF s = {} THEN 0 ELSE f[First(s)] + a[Rest(s)]
  BY <1>9
<1> QED
  BY <1>10 DEF a

\* ... and a larger set's solution gives the sums of its subsets.
LEMMA SumsAgree ==
    ASSUME NEW f, NEW S, IsFiniteSet(S)
    PROVE  \A R \in SUBSET S : SumFunctionOnSet(f, R) = SumsTo(f, S)[R]
<1> SUFFICES ASSUME NEW R \in SUBSET S
             PROVE  SumsTo(f, R)[R] = SumsTo(f, S)[R]
  BY SumIsSumsTo
<1> DEFINE N == {n \in Nat : \A s \in SUBSET R : Cardinality(s) <= n =>
                                SumsTo(f, R)[s] = SumsTo(f, S)[s]}
<1>1. IsFiniteSet(R)
  BY FS_Subset
<1>2. \A s \in SUBSET R : /\ SumsTo(f, R)[s] = IF s = {} THEN 0 ELSE f[First(s)] + SumsTo(f, R)[Rest(s)]
                          /\ SumsTo(f, S)[s] = IF s = {} THEN 0 ELSE f[First(s)] + SumsTo(f, S)[Rest(s)]
  <2>1. SUBSET R \subseteq SUBSET S
    OBVIOUS
  <2> QED
    BY <1>1, <2>1, SumsToExists
<1>3. ASSUME NEW n \in Nat, NEW s \in SUBSET R, Cardinality(s) <= n, s # {}
      PROVE  /\ Rest(s) \in SUBSET R /\ n # 0 /\ Cardinality(Rest(s)) <= n - 1
  BY <1>1, <1>3, RestIsLess
<1>4. 0 \in N
  BY <1>2, <1>3
<1>5. ASSUME NEW n \in N
      PROVE  n + 1 \in N
  <2> SUFFICES ASSUME NEW s \in SUBSET R, Cardinality(s) <= n + 1, s # {}
               PROVE  SumsTo(f, R)[s] = SumsTo(f, S)[s]
    BY <1>2
  <2>1. Rest(s) \in SUBSET R /\ Cardinality(Rest(s)) <= n
    BY <1>3
  <2>2. SumsTo(f, R)[Rest(s)] = SumsTo(f, S)[Rest(s)]
    BY <1>5, <2>1
  <2> QED
    BY <1>2, <2>2
<1>6. N = Nat
  <2> HIDE DEF N
  <2>1. N \in SUBSET Nat
    BY DEF N
  <2> QED
    BY <1>4, <1>5, <2>1, NaturalsBySteps
<1>7. Cardinality(R) \in Nat
  BY <1>1, FS_CardinalityType
<1> QED
  BY <1>6, <1>7

\* A sum takes its elements one by one.
LEMMA SumUnfolds ==
    ASSUME NEW f, NEW S, IsFiniteSet(S)
    PROVE  /\ S = {} => SumFunctionOnSet(f, S) = 0
           /\ S # {} => SumFunctionOnSet(f, S) = f[First(S)] + SumFunctionOnSet(f, Rest(S))
<1> DEFINE a == SumsTo(f, S)
<1>1. \A s \in SUBSET S : a[s] = IF s = {} THEN 0 ELSE f[First(s)] + a[Rest(s)]
  BY SumsToExists
<1>2. \A R \in SUBSET S : SumFunctionOnSet(f, R) = a[R]
  BY SumsAgree
<1> HIDE DEF a
<1>3. a[S] = IF S = {} THEN 0 ELSE f[First(S)] + a[Rest(S)]
  BY <1>1
<1>4. S \in SUBSET S /\ Rest(S) \in SUBSET S
  BY DEF Rest
<1> QED
  BY <1>2, <1>3, <1>4

\* A sum of integers is one.
LEMMA SumType ==
    ASSUME NEW T, NEW f \in [T -> Int], NEW S \in SUBSET T, IsFiniteSet(S)
    PROVE  SumFunctionOnSet(f, S) \in Int
<1> DEFINE N == {n \in Nat : \A s \in SUBSET S : Cardinality(s) <= n => SumFunctionOnSet(f, s) \in Int}
<1>1. \A s \in SUBSET S : IsFiniteSet(s)
  BY FS_Subset
<1>2. 0 \in N
  <2> SUFFICES ASSUME NEW s \in SUBSET S, Cardinality(s) <= 0
               PROVE  SumFunctionOnSet(f, s) \in Int
    OBVIOUS
  <2>1. s = {}
    BY RestIsLess
  <2>2. SumFunctionOnSet(f, s) = 0
    BY <1>1, <2>1, SumUnfolds
  <2> QED
    BY <2>2
<1>3. ASSUME NEW n \in N
      PROVE  n + 1 \in N
  <2> SUFFICES ASSUME NEW s \in SUBSET S, Cardinality(s) <= n + 1
               PROVE  SumFunctionOnSet(f, s) \in Int
    OBVIOUS
  <2>1. CASE s = {}
    <3>1. SumFunctionOnSet(f, s) = 0
      BY <1>1, <2>1, SumUnfolds
    <3> QED
      BY <3>1
  <2>2. CASE s # {}
    <3>1. First(s) \in s /\ Rest(s) \in SUBSET S /\ Cardinality(Rest(s)) <= n
      BY <2>2, RestIsLess
    <3>2. SumFunctionOnSet(f, Rest(s)) \in Int
      BY <1>3, <3>1
    <3>3. SumFunctionOnSet(f, s) = f[First(s)] + SumFunctionOnSet(f, Rest(s))
      BY <1>1, <2>2, SumUnfolds
    <3>4. f[First(s)] \in Int
      BY <3>1
    <3> QED
      BY <3>2, <3>3, <3>4
  <2> QED
    BY <2>1, <2>2
<1>4. N = Nat
  <2> HIDE DEF N
  <2>1. N \in SUBSET Nat
    BY DEF N
  <2> QED
    BY <1>2, <1>3, <2>1, NaturalsBySteps
<1>5. Cardinality(S) \in Nat
  BY FS_CardinalityType
<1> QED
  BY <1>4, <1>5

\* Any element of a sum may be taken first.
LEMMA SumTakes ==
    ASSUME NEW T, NEW f \in [T -> Int], NEW S \in SUBSET T, IsFiniteSet(S)
    PROVE  \A x \in S : SumFunctionOnSet(f, S) = f[x] + SumFunctionOnSet(f, S \ {x})
<1> DEFINE Sum(s) == SumFunctionOnSet(f, s)
           Takes(s) == \A x \in s : Sum(s) = f[x] + Sum(s \ {x})
           N == {n \in Nat : \A s \in SUBSET S : Cardinality(s) <= n => Takes(s)}
<1>1. \A s \in SUBSET S : IsFiniteSet(s) /\ Sum(s) \in Int
  BY FS_Subset, SumType
<1>2. 0 \in N
  <2>1. \A s \in SUBSET S : Cardinality(s) <= 0 => s = {}
    BY RestIsLess
  <2> QED
    BY <2>1
<1>3. ASSUME NEW n \in N
      PROVE  n + 1 \in N
  <2> SUFFICES ASSUME NEW s \in SUBSET S, Cardinality(s) <= n + 1, NEW x \in s
               PROVE  Sum(s) = f[x] + Sum(s \ {x})
    OBVIOUS
  <2> DEFINE p == First(s)
  <2>1. p \in s /\ Rest(s) \in SUBSET S /\ Cardinality(Rest(s)) <= n
    BY RestIsLess
  <2>2. Sum(s) = f[p] + Sum(Rest(s))
    BY <1>1, SumUnfolds
  <2>3. CASE x = p
    BY <2>2, <2>3 DEF Rest
  <2>4. CASE x # p
    <3>1. x \in Rest(s) /\ p \in s \ {x}
      BY <2>1, <2>4 DEF Rest
    <3>2. Takes(Rest(s))
      BY <1>3, <2>1
    <3>3. Sum(Rest(s)) = f[x] + Sum(Rest(s) \ {x})
      BY <3>1, <3>2
    <3>4. s \ {x} \in SUBSET S /\ Cardinality(s \ {x}) <= n
      <4>1. Cardinality(s \ {x}) = Cardinality(s) - 1 /\ Cardinality(s) \in Nat
        BY <1>1, FS_RemoveElement, FS_CardinalityType
      <4> QED
        BY <4>1
    <3>5. Takes(s \ {x})
      BY <1>3, <3>4
    <3>6. Sum(s \ {x}) = f[p] + Sum((s \ {x}) \ {p})
      BY <3>1, <3>5
    <3>7. (s \ {x}) \ {p} = Rest(s) \ {x} /\ Rest(s) \ {x} \in SUBSET S
      BY DEF Rest
    <3>8. PICK c : c = Sum(Rest(s) \ {x})
      OBVIOUS
    <3>9. c \in Int /\ Sum((s \ {x}) \ {p}) = c
      BY <1>1, <3>7, <3>8
    <3>10. f[x] \in Int /\ f[p] \in Int
      BY <2>1
    <3> HIDE DEF Sum, p
    <3> QED
      BY <2>2, <3>3, <3>6, <3>8, <3>9, <3>10
  <2> QED
    BY <2>3, <2>4
<1>4. N = Nat
  <2> HIDE DEF N
  <2>1. N \in SUBSET Nat
    BY DEF N
  <2> QED
    BY <1>2, <1>3, <2>1, NaturalsBySteps
<1>5. Cardinality(S) \in Nat
  BY FS_CardinalityType
<1> QED
  BY <1>4, <1>5

\* Functions that agree on a set have the same sum over it.
LEMMA SumSame ==
    ASSUME NEW f, NEW g, NEW S, IsFiniteSet(S), \A x \in S : f[x] = g[x]
    PROVE  SumFunctionOnSet(f, S) = SumFunctionOnSet(g, S)
<1> DEFINE N == {n \in Nat : \A s \in SUBSET S : Cardinality(s) <= n =>
                                SumFunctionOnSet(f, s) = SumFunctionOnSet(g, s)}
<1>1. \A s \in SUBSET S : IsFiniteSet(s)
  BY FS_Subset
<1>2. 0 \in N
  <2> SUFFICES ASSUME NEW s \in SUBSET S, Cardinality(s) <= 0
               PROVE  SumFunctionOnSet(f, s) = SumFunctionOnSet(g, s)
    OBVIOUS
  <2>1. s = {}
    BY RestIsLess
  <2> QED
    BY <1>1, <2>1, SumUnfolds
<1>3. ASSUME NEW n \in N
      PROVE  n + 1 \in N
  <2> SUFFICES ASSUME NEW s \in SUBSET S, Cardinality(s) <= n + 1
               PROVE  SumFunctionOnSet(f, s) = SumFunctionOnSet(g, s)
    OBVIOUS
  <2>1. CASE s = {}
    BY <1>1, <2>1, SumUnfolds
  <2>2. CASE s # {}
    <3>1. First(s) \in S /\ Rest(s) \in SUBSET S /\ Cardinality(Rest(s)) <= n
      BY <2>2, RestIsLess
    <3>2. SumFunctionOnSet(f, Rest(s)) = SumFunctionOnSet(g, Rest(s))
      BY <1>3, <3>1
    <3>3. /\ SumFunctionOnSet(f, s) = f[First(s)] + SumFunctionOnSet(f, Rest(s))
          /\ SumFunctionOnSet(g, s) = g[First(s)] + SumFunctionOnSet(g, Rest(s))
      BY <1>1, <2>2, SumUnfolds
    <3> QED
      BY <3>1, <3>2, <3>3
  <2> QED
    BY <2>1, <2>2
<1>4. N = Nat
  <2> HIDE DEF N
  <2>1. N \in SUBSET Nat
    BY DEF N
  <2> QED
    BY <1>2, <1>3, <2>1, NaturalsBySteps
<1>5. Cardinality(S) \in Nat
  BY FS_CardinalityType
<1> QED
  BY <1>4, <1>5

\* The sum of a function changed in one place.
LEMMA SumChanges ==
    ASSUME NEW T, NEW f \in [T -> Int], NEW g \in [T -> Int], NEW S \in SUBSET T, IsFiniteSet(S),
           NEW x \in T, \A y \in T \ {x} : g[y] = f[y]
    PROVE  SumFunctionOnSet(g, S) = SumFunctionOnSet(f, S) + (IF x \in S THEN g[x] - f[x] ELSE 0)
<1>1. IsFiniteSet(S \ {x})
  BY FS_RemoveElement
<1>2. SumFunctionOnSet(f, S \ {x}) = SumFunctionOnSet(g, S \ {x})
  BY <1>1, SumSame
<1>3. SumFunctionOnSet(f, S \ {x}) \in Int /\ SumFunctionOnSet(f, S) \in Int
      /\ SumFunctionOnSet(g, S) \in Int
  BY <1>1, SumType
<1>4. CASE x \notin S
  <2>1. S \ {x} = S
    BY <1>4
  <2> QED
    BY <1>2, <1>3, <1>4, <2>1
<1>5. CASE x \in S
  <2>1. /\ SumFunctionOnSet(f, S) = f[x] + SumFunctionOnSet(f, S \ {x})
        /\ SumFunctionOnSet(g, S) = g[x] + SumFunctionOnSet(g, S \ {x})
    BY <1>5, SumTakes
  <2> QED
    BY <1>2, <1>3, <1>5, <2>1
<1> QED
  BY <1>4, <1>5

\* The sum over a span: its last place apart, and where only that differs.
LEMMA SpanSum ==
    ASSUME NEW T, NEW f \in [T -> Int]
    PROVE  \A a \in Int, b \in Int : a <= b /\ a..b \in SUBSET T =>
              /\ SumFunctionOnSet(f, a..b) \in Int
              /\ SumFunctionOnSet(f, a..(b - 1)) \in Int
              /\ SumFunctionOnSet(f, a..b) = f[b] + SumFunctionOnSet(f, a..(b - 1))
              /\ a = b => SumFunctionOnSet(f, a..b) = f[b]
<1> SUFFICES ASSUME NEW a \in Int, NEW b \in Int, a <= b, a..b \in SUBSET T
             PROVE  /\ SumFunctionOnSet(f, a..b) \in Int
                    /\ SumFunctionOnSet(f, a..(b - 1)) \in Int
                    /\ SumFunctionOnSet(f, a..b) = f[b] + SumFunctionOnSet(f, a..(b - 1))
                    /\ a = b => SumFunctionOnSet(f, a..b) = f[b]
  OBVIOUS
<1> DEFINE S == a..b
           R == a..(b - 1)
<1>1. IsFiniteSet(S) /\ S \in SUBSET T
  BY FS_Interval
<1>2. b \in S /\ S \ {b} = R
  OBVIOUS
<1>3. a = b => R = {}
  OBVIOUS
<1>4. IsFiniteSet(R) /\ R \in SUBSET T
  BY <1>1, <1>2, FS_Subset
<1>5. f[b] \in Int
  BY <1>1, <1>2
<1> HIDE DEF S, R
<1>6. SumFunctionOnSet(f, S) \in Int /\ SumFunctionOnSet(f, R) \in Int
  BY <1>1, <1>4, SumType
<1>7. \A x \in S : SumFunctionOnSet(f, S) = f[x] + SumFunctionOnSet(f, S \ {x})
  BY <1>1, SumTakes
<1>8. SumFunctionOnSet(f, S) = f[b] + SumFunctionOnSet(f, R)
  BY <1>2, <1>7, Zenon
<1>9. R = {} => SumFunctionOnSet(f, R) = 0
  BY <1>4, SumUnfolds
<1>10. a = b => SumFunctionOnSet(f, S) = f[b]
  BY <1>3, <1>5, <1>8, <1>9
<1> QED
  BY <1>6, <1>8, <1>10, Zenon DEF S, R

\* h is f but in one place.
DiffersAt(f, h, T, x) == \A y \in T \ {x} : h[y] = f[y]

\* When a function changes at one element, its sum changes by as much.
LEMMA SumChangesAt ==
    ASSUME NEW T, NEW f \in [T -> Int], NEW h \in [T -> Int], NEW S \in SUBSET T, IsFiniteSet(S)
    PROVE  \A x \in S : DiffersAt(f, h, T, x) =>
              SumFunctionOnSet(h, S) = SumFunctionOnSet(f, S) + (h[x] - f[x])
<1> SUFFICES ASSUME NEW x \in S, \A y \in T \ {x} : h[y] = f[y]
             PROVE  SumFunctionOnSet(h, S) = SumFunctionOnSet(f, S) + (h[x] - f[x])
  BY DEF DiffersAt
<1>1. x \in T
  OBVIOUS
<1>2. SumFunctionOnSet(h, S) = SumFunctionOnSet(f, S) + (IF x \in S THEN h[x] - f[x] ELSE 0)
  BY <1>1, SumChanges
<1> QED
  BY <1>2

\* The same for a span of integers that ends where the function changes.
LEMMA SpanSumChanges ==
    ASSUME NEW T, NEW f \in [T -> Int], NEW h \in [T -> Int]
    PROVE  \A a \in Int, b \in Int :
              a <= b /\ a..b \in SUBSET T /\ DiffersAt(f, h, T, b) =>
                 SumFunctionOnSet(h, a..b) = SumFunctionOnSet(f, a..b) + (h[b] - f[b])
<1> SUFFICES ASSUME NEW a \in Int, NEW b \in Int, a <= b, a..b \in SUBSET T,
                    DiffersAt(f, h, T, b)
             PROVE  SumFunctionOnSet(h, a..b) = SumFunctionOnSet(f, a..b) + (h[b] - f[b])
  OBVIOUS
<1> DEFINE S == a..b
<1>1. IsFiniteSet(S) /\ S \in SUBSET T /\ b \in S
  BY FS_Interval
<1> HIDE DEF S
<1>2. \A x \in S : DiffersAt(f, h, T, x) =>
         SumFunctionOnSet(h, S) = SumFunctionOnSet(f, S) + (h[x] - f[x])
  BY <1>1, SumChangesAt
<1> QED
  BY <1>1, <1>2, Zenon DEF S

-----------------------------------------------------------------------------
(* The webhook outbox.                                                     *)

\* What the lapses pay for: attempts in flight beside one, and attempts of a
\* cycle beyond its counter.  A row that is due has paid for its next claim.
PaidFor(d) ==
    LET next == IF Due(d) THEN 1 ELSE 0 IN
    /\ row[d].status = "none" => row[d].attempts = 0 /\ row[d].due = 0
    /\ IsFiniteSet(InFlight(d))
    /\ Cardinality(InFlight(d)) + next <= 1 + lapses
    /\ InFlight(d) # {} => claims[d] >= 1
    /\ claims[d] <= MaxAttempts + lapses
    /\ row[d].status # "none" => claims[d] <= row[d].attempts + lapses
    /\ \A t \in InFlight(d) : claims[d] + next <= t.prior + 1 + lapses

\* Without lapses there is one attempt at a time, of a row that waits for it.
InOrder(d) ==
    lapses = 0 =>
        /\ \A t \in InFlight(d) : /\ \A u \in InFlight(d) : u = t
                                  /\ row[d].status \in {"pending", "none"} /\ ~Due(d)
                                  /\ t.prior + 1 <= claims[d]
        /\ row[d].status # "none" => row[d].attempts <= claims[d]
        /\ row[d].status = "failed" => claims[d] >= MaxAttempts

\* The inductive invariant.
Paid == OutboxTypeOK /\ \A d \in Deliveries : PaidFor(d) /\ InOrder(d)

\* The numbers of the schedule.
LEMMA Schedule ==
    /\ Len(Backoff) \in Nat /\ MaxAttempts = Len(Backoff) + 1 /\ MaxAttempts \in Nat
    /\ \A n \in 1..Len(Backoff) : Backoff[n] \in Nat /\ Backoff[n] > 0
    /\ LockTicks \in Nat /\ LockTicks > 0
  <1>1. \A n \in 1..Len(Backoff) : Backoff[n] \in Nat \ {0}
    BY BackoffAssumption
  <1> QED BY <1>1, BackoffAssumption, BoundAssumption DEF MaxAttempts

\* What the invariant says of one delivery's numbers.
LEMMA Numbers ==
    ASSUME Paid, NEW d \in Deliveries
    PROVE  /\ row[d] \in Row /\ claims[d] \in Nat /\ lapses \in Nat /\ replays[d] \in Nat
           /\ row[d].attempts \in Nat /\ row[d].attempts <= MaxAttempts /\ row[d].due \in Nat
           /\ Cardinality(InFlight(d)) \in Nat /\ IsFiniteSet(InFlight(d))
           /\ \A t \in InFlight(d) : t \in Task /\ t.prior \in Nat /\ t.prior + 1 <= MaxAttempts
           /\ PaidFor(d) /\ InOrder(d)
  <1>1. /\ row[d] \in Row /\ claims[d] \in Nat /\ lapses \in Nat /\ replays[d] \in Nat
        /\ PaidFor(d) /\ InOrder(d) /\ InFlight(d) \subseteq Task
    BY DEF Paid, OutboxTypeOK, InFlight
  <1>2. row[d].attempts \in Nat /\ row[d].attempts <= MaxAttempts /\ row[d].due \in Nat
    BY <1>1, Schedule DEF Row
  <1>3. \A t \in Task : t.prior \in Nat /\ t.prior + 1 <= MaxAttempts
    BY Schedule DEF Task
  <1>4. Cardinality(InFlight(d)) \in Nat /\ IsFiniteSet(InFlight(d))
    BY <1>1, FS_CardinalityType DEF PaidFor
  <1> QED BY <1>1, <1>2, <1>3, <1>4

\* A delivery whose row, counter and attempts a step leaves alone, or whose
\* attempts it ends or replaces by a later stage of themselves.
LEMMA LeftAlone ==
    ASSUME Paid, NEW d \in Deliveries,
           row'[d].status = row[d].status, row'[d].attempts = row[d].attempts,
           row'[d].due = row[d].due, claims'[d] = claims[d], lapses' = lapses,
           IsFiniteSet(InFlight(d)'), Cardinality(InFlight(d)') <= Cardinality(InFlight(d)),
           \A t \in InFlight(d)' : \E u \in InFlight(d) : t.prior = u.prior,
           (\A t, u \in InFlight(d) : t = u) => (\A t, u \in InFlight(d)' : t = u)
    PROVE  PaidFor(d)' /\ InOrder(d)'
  <1>1. /\ lapses \in Nat /\ Cardinality(InFlight(d)) \in Nat /\ Cardinality(InFlight(d)') \in Nat
        /\ PaidFor(d) /\ InOrder(d)
    BY Numbers, FS_CardinalityType
  <1>2. Due(d)' = Due(d) /\ MaxAttempts' = MaxAttempts
    BY DEF Due, MaxAttempts
  <1> DEFINE next == IF Due(d) THEN 1 ELSE 0
  <1>3. Cardinality(InFlight(d)') + next <= 1 + lapses
    BY <1>1 DEF PaidFor
  <1>4. InFlight(d)' # {} => claims[d] >= 1
    BY <1>1 DEF PaidFor
  <1>5. \A t \in InFlight(d)' : claims[d] + next <= t.prior + 1 + lapses
    BY <1>1 DEF PaidFor
  <1>6. PaidFor(d)'
    BY <1>1, <1>2, <1>3, <1>4, <1>5 DEF PaidFor
  <1>7. InOrder(d)'
    <2> SUFFICES ASSUME lapses = 0 PROVE InOrder(d)'
      BY DEF InOrder
    <2>1. \A t \in InFlight(d)' : \A u \in InFlight(d)' : u = t
      BY <1>1 DEF InOrder
    <2>2. \A t \in InFlight(d)' : row[d].status \in {"pending", "none"} /\ ~Due(d) /\ t.prior + 1 <= claims[d]
      BY <1>1 DEF InOrder
    <2> QED BY <1>1, <1>2, <2>1, <2>2 DEF InOrder
  <1> QED BY <1>6, <1>7

\* The same when the attempts only end.
LEMMA LeftAloneFewer ==
    ASSUME Paid, NEW d \in Deliveries,
           row'[d].status = row[d].status, row'[d].attempts = row[d].attempts,
           row'[d].due = row[d].due, claims'[d] = claims[d], lapses' = lapses,
           InFlight(d)' \subseteq InFlight(d)
    PROVE  PaidFor(d)' /\ InOrder(d)'
  <1>1. IsFiniteSet(InFlight(d)') /\ Cardinality(InFlight(d)') <= Cardinality(InFlight(d))
    BY Numbers, FS_Subset
  <1> QED BY <1>1, LeftAlone

\* A row that is rewritten and not left due, with no new attempt.
LEMMA Rewritten ==
    ASSUME Paid, NEW d \in Deliveries, OutboxTypeOK',
           ~Due(d)', claims'[d] = claims[d], lapses' = lapses, InFlight(d)' \subseteq InFlight(d),
           row'[d].status = "none" => row'[d].attempts = 0 /\ row'[d].due = 0,
           row'[d].status # "none" => claims[d] <= row'[d].attempts + lapses,
           lapses = 0 =>
              /\ InFlight(d)' # {} => row'[d].status \in {"pending", "none"}
              /\ row'[d].status # "none" => row'[d].attempts <= claims[d]
              /\ row'[d].status = "failed" => claims[d] >= MaxAttempts
    PROVE  PaidFor(d)' /\ InOrder(d)'
  <1>1. IsFiniteSet(InFlight(d)') /\ Cardinality(InFlight(d)') <= Cardinality(InFlight(d))
        /\ Cardinality(InFlight(d)') \in Nat
    BY Numbers, FS_Subset, FS_CardinalityType
  <1>2. /\ lapses \in Nat /\ claims[d] \in Nat /\ Cardinality(InFlight(d)) \in Nat
        /\ PaidFor(d) /\ InOrder(d) /\ \A t \in InFlight(d) : t.prior \in Nat
    BY Numbers
  <1>3. /\ Cardinality(InFlight(d)) <= 1 + lapses /\ claims[d] <= MaxAttempts + lapses
        /\ InFlight(d) # {} => claims[d] >= 1
        /\ \A t \in InFlight(d) : claims[d] <= t.prior + 1 + lapses
    BY <1>2 DEF PaidFor
  <1>4. MaxAttempts' = MaxAttempts
    BY DEF MaxAttempts
  <1>5. PaidFor(d)'
    <2>1. Cardinality(InFlight(d)') + 0 <= 1 + lapses
      BY <1>1, <1>2, <1>3
    <2>2. \A t \in InFlight(d)' : claims[d] + 0 <= t.prior + 1 + lapses
      BY <1>2, <1>3
    <2>3. InFlight(d)' # {} => claims[d] >= 1
      BY <1>3
    <2> QED BY <1>1, <1>3, <1>4, <2>1, <2>2, <2>3 DEF PaidFor
  <1>6. InOrder(d)'
    <2> SUFFICES ASSUME lapses = 0 PROVE InOrder(d)'
      BY DEF InOrder
    <2>1. \A t \in InFlight(d)' : /\ \A u \in InFlight(d)' : u = t
                                  /\ t.prior + 1 <= claims[d]
      BY <1>2 DEF InOrder
    <2> QED BY <1>4, <2>1 DEF InOrder
  <1> QED BY <1>5, <1>6

\* A set with one element more.
LEMMA OneMore ==
    ASSUME NEW S, NEW x, IsFiniteSet(S)
    PROVE  /\ IsFiniteSet(S \cup {x}) /\ Cardinality(S \cup {x}) \in Nat
           /\ Cardinality(S \cup {x}) <= Cardinality(S) + 1
  <1>1. IsFiniteSet(S \cup {x}) /\ Cardinality(S) \in Nat
    BY FS_AddElement, FS_CardinalityType
  <1>2. Cardinality(S \cup {x}) = IF x \in S THEN Cardinality(S) ELSE Cardinality(S) + 1
    BY FS_AddElement
  <1> QED BY <1>1, <1>2

\* Nothing is enqueued at the start.
LEMMA PaidAtFirst == OutboxInit => Paid
  <1> SUFFICES ASSUME OutboxInit PROVE Paid
    OBVIOUS
  <1>1. OutboxTypeOK
    BY Schedule DEF OutboxInit, OutboxTypeOK, NoRow, Row, Finished
  <1>2. ASSUME NEW d \in Deliveries PROVE PaidFor(d) /\ InOrder(d)
    <2>1. /\ InFlight(d) = {} /\ row[d].status = "none" /\ row[d].attempts = 0 /\ row[d].due = 0
          /\ claims[d] = 0 /\ lapses = 0 /\ ~Due(d)
      BY DEF OutboxInit, InFlight, NoRow, Due
    <2> QED BY <2>1, Schedule, FS_EmptySet DEF PaidFor, InOrder
  <1> QED BY <1>1, <1>2 DEF Paid

(***************************************************************************)
(* The claim.                                                              *)
(***************************************************************************)

\* What a claim makes of a row: an attempt, or the end of it.
LEMMA AfterClaimIs ==
    ASSUME NEW r \in Row, r.status = "pending"
    PROVE  /\ AfterClaim(r) \in Row /\ AfterClaim(r).due = LockTicks
           /\ \/ /\ AfterClaim(r).status = "failed"
                 /\ r.attempts = MaxAttempts /\ AfterClaim(r).attempts = MaxAttempts
              \/ AfterClaim(r).status = "cancelled" /\ AfterClaim(r).attempts = r.attempts
              \/ /\ AfterClaim(r).status = "pending"
                 /\ AfterClaim(r).attempts = r.attempts + 1 /\ r.attempts < MaxAttempts
  <1> DEFINE c == Claimed(r)
             Wide == [status : {"none", "pending", "cancelled"} \cup Finished,
                      attempts : Nat, due : Nat]
  <1>1. r \in Wide /\ r.attempts \in Nat /\ r.attempts <= MaxAttempts
    BY Schedule DEF Row
  <1>2. ASSUME NEW x \in Wide, x.attempts <= MaxAttempts
        PROVE  x \in Row
    BY <1>2, Schedule DEF Row
  <1>3. /\ c \in Wide /\ c.attempts = r.attempts + 1 /\ c.due = LockTicks /\ c.status = "pending"
    <2>1. c = [r EXCEPT !.attempts = r.attempts + 1, !.due = LockTicks]
      BY DEF Claimed
    <2>2. r.attempts + 1 \in Nat /\ LockTicks \in Nat
      BY <1>1, Schedule
    <2> HIDE DEF c
    <2> QED BY <1>1, <2>1, <2>2
  <1> HIDE DEF c
  <1>4. CASE c.attempts > MaxAttempts
    <2> DEFINE x == [c EXCEPT !.status = "failed", !.attempts = MaxAttempts]
    <2>1. AfterClaim(r) = x
      BY <1>4 DEF AfterClaim, c
    <2>2. x \in Wide /\ x.status = "failed" /\ x.attempts = MaxAttempts /\ x.due = LockTicks
      BY <1>3, Schedule DEF Finished
    <2> HIDE DEF x
    <2>3. x \in Row
      BY <1>2, <2>2, Schedule
    <2> QED BY <1>1, <1>3, <1>4, <2>1, <2>2, <2>3, Schedule
  <1>5. CASE ~(c.attempts > MaxAttempts) /\ hook # "active"
    <2> DEFINE x == [c EXCEPT !.status = "cancelled", !.attempts = c.attempts - 1]
    <2>1. AfterClaim(r) = x
      BY <1>5 DEF AfterClaim, c
    <2>2. c.attempts - 1 = r.attempts
      BY <1>1, <1>3
    <2>3. x \in Wide /\ x.status = "cancelled" /\ x.attempts = r.attempts /\ x.due = LockTicks
      BY <1>1, <1>3, <2>2
    <2>4. x \in Row
      BY <1>1, <1>2, <2>3
    <2> HIDE DEF x
    <2> QED BY <2>1, <2>3, <2>4
  <1>6. CASE ~(c.attempts > MaxAttempts) /\ ~(hook # "active")
    <2>1. AfterClaim(r) = c
      BY <1>6 DEF AfterClaim, c
    <2>2. c.attempts <= MaxAttempts /\ r.attempts < MaxAttempts
      BY <1>1, <1>3, <1>6, Schedule
    <2>3. c \in Row
      BY <1>2, <1>3, <2>2
    <2> QED BY <1>3, <2>1, <2>2, <2>3
  <1> QED BY <1>4, <1>5, <1>6

\* A claimed batch keeps the invariant.
LEMMA ClaimPaid ==
    ASSUME Paid, NEW w \in Workers, NEW S \in SUBSET Deliveries, ClaimDueDeliveries(w, S)
    PROVE  Paid'
  <1> DEFINE live == {d \in S : AfterClaim(row[d]).status = "pending"}
             new(d) == [delivery |-> d, worker |-> w, prior |-> row[d].attempts,
                        result |-> "posting"]
  <1>1. /\ \A d \in S : Due(d)
        /\ row' = [d \in Deliveries |-> IF d \in S THEN AfterClaim(row[d]) ELSE row[d]]
        /\ tasks' = tasks \cup {new(d) : d \in live}
        /\ claims' = [d \in Deliveries |-> IF d \in live THEN claims[d] + 1 ELSE claims[d]]
        /\ UNCHANGED <<hook, replays, lapses>>
    BY DEF ClaimDueDeliveries
  <1>2. \A d \in S : row[d] \in Row /\ row[d].status = "pending"
    BY <1>1, Numbers DEF Due
  <1>3. \A d \in live : new(d) \in Task /\ new(d).delivery = d /\ new(d).prior = row[d].attempts
    <2> SUFFICES ASSUME NEW d \in live
                 PROVE  new(d) \in Task /\ new(d).delivery = d /\ new(d).prior = row[d].attempts
      OBVIOUS
    <2>1. row[d].attempts \in Nat /\ row[d].attempts < MaxAttempts
      BY <1>2, AfterClaimIs, Numbers
    <2>2. row[d].attempts \in 0..(MaxAttempts - 1)
      BY <2>1, Schedule
    <2> QED BY <2>2 DEF Task
  <1>4. OutboxTypeOK'
    <2>1. row' \in [Deliveries -> Row]
      <3>1. \A d \in Deliveries : row[d] \in Row
        BY Numbers
      <3>2. \A d \in S : AfterClaim(row[d]) \in Row
        BY <1>2, AfterClaimIs
      <3> QED BY <1>1, <3>1, <3>2
    <2>2. tasks' \subseteq Task
      <3> HIDE DEF live, new
      <3> QED BY <1>1, <1>3 DEF Paid, OutboxTypeOK
    <2>3. claims' \in [Deliveries -> Nat]
      BY <1>1 DEF Paid, OutboxTypeOK
    <2> QED BY <1>1, <2>1, <2>2, <2>3 DEF Paid, OutboxTypeOK
  <1>5. ASSUME NEW d \in Deliveries
        PROVE  /\ d \in live => InFlight(d)' = InFlight(d) \cup {new(d)}
               /\ d \notin live => InFlight(d)' = InFlight(d)
    <2> HIDE DEF live, new
    <2> QED BY <1>1, <1>3 DEF InFlight
  <1> HIDE DEF new
  <1>6. ASSUME NEW d \in Deliveries PROVE PaidFor(d)' /\ InOrder(d)'
    <2>n. /\ claims[d] \in Nat /\ lapses \in Nat /\ row[d].attempts \in Nat
          /\ Cardinality(InFlight(d)) \in Nat /\ IsFiniteSet(InFlight(d))
          /\ PaidFor(d) /\ InOrder(d) /\ lapses' = lapses
          /\ \A t \in InFlight(d) : t.prior \in Nat
      BY <1>1, Numbers
    <2>1. CASE d \notin S
      <3>1. row'[d] = row[d] /\ claims'[d] = claims[d] /\ InFlight(d)' \subseteq InFlight(d)
        BY <1>1, <1>5, <2>1
      <3> QED BY <2>n, <3>1, LeftAloneFewer
    <2>2. CASE d \in S /\ d \notin live
      <3>1. row'[d] = AfterClaim(row[d]) /\ claims'[d] = claims[d] /\ InFlight(d)' \subseteq InFlight(d)
        BY <1>1, <1>5, <2>2
      <3>2. \/ /\ row'[d].status = "failed"
               /\ row[d].attempts = MaxAttempts /\ row'[d].attempts = MaxAttempts
            \/ row'[d].status = "cancelled" /\ row'[d].attempts = row[d].attempts
        BY <1>2, <2>2, <3>1, AfterClaimIs
      <3>3. Due(d) /\ row[d].status = "pending"
        BY <1>1, <1>2, <2>2
      <3>4. lapses = 0 => InFlight(d) = {} /\ row[d].attempts <= claims[d]
        BY <2>n, <3>3 DEF InOrder
      <3>5. claims[d] <= row[d].attempts + lapses
        BY <2>n, <3>3 DEF PaidFor
      <3>6. ~Due(d)'
        BY <3>2 DEF Due
      <3>7. lapses = 0 =>
              /\ InFlight(d)' # {} => row'[d].status \in {"pending", "none"}
              /\ row'[d].status # "none" => row'[d].attempts <= claims[d]
              /\ row'[d].status = "failed" => claims[d] >= MaxAttempts
        BY <2>n, <3>1, <3>2, <3>4, Schedule
      <3> QED BY <1>4, <2>n, <3>1, <3>2, <3>5, <3>6, <3>7, Rewritten
    <2>3. CASE d \in live
      <3>0. d \in S
        BY <2>3
      <3>1. /\ row'[d] = AfterClaim(row[d]) /\ claims'[d] = claims[d] + 1
            /\ InFlight(d)' = InFlight(d) \cup {new(d)}
        BY <1>1, <1>5, <2>3
      <3>2. /\ row'[d].status = "pending" /\ row'[d].attempts = row[d].attempts + 1
            /\ row'[d].due = LockTicks /\ row[d].attempts < MaxAttempts
        BY <1>2, <2>3, <3>0, <3>1, AfterClaimIs
      <3>3. Due(d) /\ row[d].status = "pending" /\ new(d).prior = row[d].attempts
        BY <1>1, <1>2, <1>3, <2>3, <3>0
      <3>4. ~Due(d)'
        BY <3>2, Schedule DEF Due
      <3> HIDE DEF live
      <3>5. /\ IsFiniteSet(InFlight(d)')
            /\ Cardinality(InFlight(d)') <= Cardinality(InFlight(d)) + 1
            /\ Cardinality(InFlight(d)') \in Nat
        BY <2>n, <3>1, OneMore
      <3>6. /\ Cardinality(InFlight(d)) + 1 <= 1 + lapses
            /\ claims[d] <= row[d].attempts + lapses
            /\ \A t \in InFlight(d) : claims[d] + 1 <= t.prior + 1 + lapses
        BY <2>n, <3>3 DEF PaidFor
      <3>7. PaidFor(d)'
        <4>1. Cardinality(InFlight(d)') + 0 <= 1 + lapses
          BY <2>n, <3>5, <3>6
        <4>2. \A t \in InFlight(d)' : claims'[d] + 0 <= t.prior + 1 + lapses
          BY <2>n, <3>1, <3>3, <3>6
        <4>3. /\ claims'[d] >= 1 /\ claims'[d] <= MaxAttempts + lapses
              /\ claims'[d] <= row'[d].attempts + lapses
          BY <2>n, <3>1, <3>2, <3>6, Schedule
        <4>4. MaxAttempts' = MaxAttempts
          BY DEF MaxAttempts
        <4> QED BY <2>n, <3>2, <3>4, <3>5, <4>1, <4>2, <4>3, <4>4 DEF PaidFor
      <3>8. InOrder(d)'
        <4> SUFFICES ASSUME lapses = 0 PROVE InOrder(d)'
          BY <2>n DEF InOrder
        <4>1. InFlight(d)' = {new(d)} /\ row[d].attempts <= claims[d]
          BY <2>n, <3>1, <3>3 DEF InOrder
        <4>2. new(d).prior + 1 <= claims'[d] /\ row'[d].attempts <= claims'[d]
          BY <2>n, <3>1, <3>2, <3>3, <4>1
        <4> QED BY <3>2, <3>4, <4>1, <4>2 DEF InOrder
      <3> QED BY <3>7, <3>8
    <2> QED BY <2>1, <2>2, <2>3
  <1> QED BY <1>4, <1>6 DEF Paid

(***************************************************************************)
(* The result.                                                             *)
(***************************************************************************)

\* What recordAttempt writes: the attempt's own number, and never a row that
\* is due.
LEMMA RecordedIs ==
    ASSUME NEW r \in Row, NEW t \in Task, r.status # "none"
    PROVE  /\ Recorded(r, t) \in Row /\ Recorded(r, t).attempts = t.prior + 1
           /\ Recorded(r, t).status # "none"
           /\ ~(Recorded(r, t).status = "pending" /\ Recorded(r, t).due = 0)
           /\ \/ Recorded(r, t).status = "delivered"
              \/ Recorded(r, t).status = "failed" /\ t.prior + 1 = MaxAttempts
              \/ Recorded(r, t).status = r.status
  <1> DEFINE n == t.prior + 1
  <1>1. n \in 0..MaxAttempts /\ n \in Nat /\ n >= 1
    BY Schedule DEF Task
  <1>2. r.status \in {"none", "pending", "cancelled"} \cup Finished /\ r.due \in Nat
    BY DEF Row
  <1> HIDE DEF n
  <1>3. CASE t.result = "ok"
    <2> DEFINE x == [r EXCEPT !.status = "delivered", !.attempts = n]
    <2>1. Recorded(r, t) = x
      BY <1>3 DEF Recorded, n
    <2>2. x \in Row /\ x.status = "delivered" /\ x.attempts = n
      BY <1>1 DEF Row, Finished
    <2> HIDE DEF x
    <2> QED BY <2>1, <2>2 DEF n
  <1>4. CASE t.result # "ok" /\ n > Len(Backoff)
    <2> DEFINE x == [r EXCEPT !.status = "failed", !.attempts = n]
    <2>1. Recorded(r, t) = x
      BY <1>4 DEF Recorded, n
    <2>2. x \in Row /\ x.status = "failed" /\ x.attempts = n
      BY <1>1 DEF Row, Finished
    <2>3. n = MaxAttempts
      BY <1>1, <1>4, Schedule
    <2> HIDE DEF x
    <2> QED BY <2>1, <2>2, <2>3 DEF n
  <1>5. CASE t.result # "ok" /\ ~(n > Len(Backoff))
    <2> DEFINE x == [r EXCEPT !.attempts = n, !.due = Backoff[n]]
    <2>1. Recorded(r, t) = x
      BY <1>5 DEF Recorded, n
    <2>2. n \in 1..Len(Backoff)
      BY <1>1, <1>5, Schedule
    <2>3. Backoff[n] \in Nat /\ Backoff[n] > 0
      BY <2>2, Schedule
    <2>4. x \in Row /\ x.status = r.status /\ x.attempts = n /\ x.due = Backoff[n]
      BY <1>1, <2>3 DEF Row
    <2> HIDE DEF x
    <2> QED BY <2>1, <2>3, <2>4 DEF n
  <1> QED BY <1>3, <1>4, <1>5

\* A step that ends or advances an attempt keeps the invariant.
LEMMA TaskPaid ==
    ASSUME Paid, NEW t \in tasks, TaskStep(t)
    PROVE  Paid'
  <1>t. /\ OutboxTypeOK /\ t \in Task /\ t.delivery \in Deliveries /\ t \in InFlight(t.delivery)
        /\ t.prior \in Nat
    <2>1. t \in Task
      BY DEF Paid, OutboxTypeOK
    <2>2. t.prior \in Nat
      BY <2>1, Schedule DEF Task
    <2> QED BY <2>1, <2>2 DEF Paid, InFlight, Task
  <1>1. ASSUME NEW result \in {"ok", "error"}, PerformHttpAttempt(t, result)
        PROVE  Paid'
    <2> DEFINE u == [t EXCEPT !.result = result]
    <2>1. u \in Task /\ u.delivery = t.delivery /\ u.prior = t.prior
      BY <1>t DEF Task
    <2>2. tasks' = (tasks \ {t}) \cup {u} /\ UNCHANGED <<row, hook, replays, claims, lapses>>
      BY <1>1 DEF PerformHttpAttempt
    <2> HIDE DEF u
    <2>3. OutboxTypeOK'
      BY <1>t, <2>1, <2>2 DEF OutboxTypeOK
    <2>4. ASSUME NEW d \in Deliveries PROVE PaidFor(d)' /\ InOrder(d)'
      <3>n. IsFiniteSet(InFlight(d)) /\ Cardinality(InFlight(d)) \in Nat
        BY Numbers
      <3>1. CASE d = t.delivery
        <4>1. InFlight(d)' = (InFlight(d) \ {t}) \cup {u}
          BY <2>1, <2>2, <3>1 DEF InFlight
        <4>2. /\ IsFiniteSet(InFlight(d) \ {t})
              /\ Cardinality(InFlight(d) \ {t}) = Cardinality(InFlight(d)) - 1
          BY <1>t, <3>1, <3>n, FS_RemoveElement
        <4>3. /\ IsFiniteSet(InFlight(d)') /\ Cardinality(InFlight(d)') \in Nat
              /\ Cardinality(InFlight(d)') <= Cardinality(InFlight(d) \ {t}) + 1
          BY <4>1, <4>2, OneMore
        <4>4. Cardinality(InFlight(d)') <= Cardinality(InFlight(d))
          BY <3>n, <4>2, <4>3
        <4>5. \A v \in InFlight(d)' : \E x \in InFlight(d) : v.prior = x.prior
          BY <1>t, <2>1, <3>1, <4>1
        <4>6. (\A v, x \in InFlight(d) : v = x) => (\A v, x \in InFlight(d)' : v = x)
          BY <1>t, <3>1, <4>1
        <4> QED BY <2>2, <4>3, <4>4, <4>5, <4>6, LeftAlone
      <3>2. CASE d # t.delivery
        <4>1. InFlight(d)' \subseteq InFlight(d)
          BY <2>1, <2>2, <3>2 DEF InFlight
        <4> QED BY <2>2, <4>1, LeftAloneFewer
      <3> QED BY <3>1, <3>2
    <2> QED BY <2>3, <2>4 DEF Paid
  <1>2. ASSUME tasks' = tasks \ {t}, UNCHANGED <<row, hook, replays, claims, lapses>>
        PROVE  Paid'
    <2>1. OutboxTypeOK'
      BY <1>t, <1>2 DEF OutboxTypeOK
    <2>2. ASSUME NEW d \in Deliveries PROVE PaidFor(d)' /\ InOrder(d)'
      <3>1. InFlight(d)' \subseteq InFlight(d)
        BY <1>2 DEF InFlight
      <3> QED BY <1>2, <3>1, LeftAloneFewer
    <2> QED BY <2>1, <2>2 DEF Paid
  <1>3. CASE RecordAttemptFails(t)
    BY <1>2, <1>3 DEF RecordAttemptFails
  <1>4. CASE RecordAttempt(t) /\ row[t.delivery].status = "none"
    BY <1>2, <1>4 DEF RecordAttempt
  <1>5. CASE RecordAttempt(t) /\ row[t.delivery].status # "none"
    <2> DEFINE e == t.delivery
    <2>1. /\ row' = [row EXCEPT ![e] = Recorded(row[e], t)] /\ tasks' = tasks \ {t}
          /\ UNCHANGED <<hook, replays, claims, lapses>>
      BY <1>5 DEF RecordAttempt
    <2>2. /\ Recorded(row[e], t) \in Row /\ Recorded(row[e], t).attempts = t.prior + 1
          /\ Recorded(row[e], t).status # "none"
          /\ ~(Recorded(row[e], t).status = "pending" /\ Recorded(row[e], t).due = 0)
          /\ \/ Recorded(row[e], t).status = "delivered"
             \/ Recorded(row[e], t).status = "failed" /\ t.prior + 1 = MaxAttempts
             \/ Recorded(row[e], t).status = row[e].status
      BY <1>5, <1>t, Numbers, RecordedIs
    <2>3. OutboxTypeOK'
      BY <1>t, <2>1, <2>2 DEF OutboxTypeOK
    <2>4. ASSUME NEW d \in Deliveries PROVE PaidFor(d)' /\ InOrder(d)'
      <3>1. InFlight(d)' = InFlight(d) \ {t}
        BY <2>1 DEF InFlight
      <3>2. CASE d # e
        <4>1. row'[d] = row[d]
          BY <1>t, <2>1, <3>2 DEF OutboxTypeOK
        <4> QED BY <2>1, <3>1, <4>1, LeftAloneFewer
      <3>3. CASE d = e
        <4>1. row'[d] = Recorded(row[d], t)
          BY <1>t, <2>1, <3>3 DEF OutboxTypeOK
        <4>2. /\ PaidFor(d) /\ InOrder(d) /\ lapses \in Nat /\ claims[d] \in Nat
              /\ row[d].attempts \in Nat
          BY Numbers
        <4>3. claims[d] <= t.prior + 1 + lapses
          BY <1>t, <3>3, <4>2 DEF PaidFor
        <4>4. lapses = 0 => InFlight(d)' = {} /\ t.prior + 1 <= claims[d] /\ row[d].status = "pending"
          BY <1>5, <1>t, <3>1, <3>3, <4>2 DEF InOrder
        <4>5. ~Due(d)'
          BY <2>2, <3>3, <4>1 DEF Due
        <4>6. lapses = 0 =>
                /\ InFlight(d)' # {} => row'[d].status \in {"pending", "none"}
                /\ row'[d].status # "none" => row'[d].attempts <= claims[d]
                /\ row'[d].status = "failed" => claims[d] >= MaxAttempts
          BY <1>t, <2>2, <3>3, <4>1, <4>2, <4>4, Schedule
        <4> QED BY <2>1, <2>2, <2>3, <3>1, <3>3, <4>1, <4>3, <4>5, <4>6, Rewritten
      <3> QED BY <3>2, <3>3
    <2> QED BY <2>3, <2>4 DEF Paid
  <1> QED BY <1>1, <1>3, <1>4, <1>5 DEF TaskStep

(***************************************************************************)
(* Everything else.                                                        *)
(***************************************************************************)

\* A row that starts afresh when nothing of it is in flight.
LEMMA AfreshPaid ==
    ASSUME Paid, NEW d \in Deliveries, InFlight(d) = {}, tasks' = tasks, lapses' = lapses,
           row'[d].status = "pending", row'[d].attempts = 0, row'[d].due = 0, claims'[d] = 0
    PROVE  PaidFor(d)' /\ InOrder(d)'
  <1>1. InFlight(d)' = {} /\ lapses \in Nat /\ MaxAttempts' = MaxAttempts
    BY Numbers DEF InFlight, MaxAttempts
  <1>2. Cardinality(InFlight(d)') = 0 /\ IsFiniteSet(InFlight(d)')
    BY <1>1, FS_EmptySet
  <1>3. PaidFor(d)'
    BY <1>1, <1>2, Schedule DEF PaidFor
  <1>4. InOrder(d)'
    BY <1>1 DEF InOrder
  <1> QED BY <1>3, <1>4

\* Time keeps the invariant: a lapse is counted as it happens.
LEMMA TickPaid ==
    ASSUME Paid, OutboxTick
    PROVE  Paid'
  <1>1. /\ lapses' = IF Lapses THEN lapses + 1 ELSE lapses
        /\ row' = [d \in Deliveries |-> [row[d] EXCEPT !.due = Less(@)]]
        /\ UNCHANGED <<tasks, hook, replays, claims>>
    BY DEF OutboxTick
  <1>2. ASSUME NEW d \in Deliveries
        PROVE  /\ row'[d] \in Row /\ row'[d].status = row[d].status
               /\ row'[d].attempts = row[d].attempts /\ row'[d].due = Less(row[d].due)
    <2>1. row[d] \in Row /\ row[d].due \in Nat
      BY Numbers
    <2>2. Less(row[d].due) \in Nat
      BY <2>1 DEF Less
    <2>3. row'[d] = [row[d] EXCEPT !.due = Less(row[d].due)]
      BY <1>1
    <2> QED BY <2>1, <2>2, <2>3 DEF Row
  <1>3. lapses \in Nat /\ lapses' \in Nat /\ lapses <= lapses' /\ (Lapses => lapses' = lapses + 1)
    BY <1>1 DEF Paid, OutboxTypeOK
  <1>4. OutboxTypeOK'
    <2>1. row' \in [Deliveries -> Row]
      BY <1>1, <1>2
    <2> QED BY <1>1, <1>3, <2>1 DEF Paid, OutboxTypeOK
  <1>5. ASSUME NEW d \in Deliveries PROVE PaidFor(d)' /\ InOrder(d)'
    <2>n. /\ claims[d] \in Nat /\ row[d].attempts \in Nat /\ row[d].due \in Nat
          /\ Cardinality(InFlight(d)) \in Nat /\ IsFiniteSet(InFlight(d))
          /\ PaidFor(d) /\ InOrder(d) /\ \A t \in InFlight(d) : t.prior \in Nat
      BY Numbers
    <2>1. /\ InFlight(d)' = InFlight(d) /\ claims'[d] = claims[d] /\ MaxAttempts' = MaxAttempts
      BY <1>1 DEF InFlight, MaxAttempts
    <2>2. Due(d)' /\ ~Due(d) /\ InFlight(d) # {} => Lapses
      <3> SUFFICES ASSUME Due(d)', ~Due(d), NEW t \in InFlight(d) PROVE Lapses
        OBVIOUS
      <3>1. row[d].status = "pending" /\ row[d].due = 1
        BY <1>2, <2>n DEF Due, Less
      <3> QED BY <3>1 DEF Lapses, InFlight
    <2>3. Due(d) => Due(d)'
      BY <1>2, <2>n DEF Due, Less
    <2>4. InFlight(d) = {} => Cardinality(InFlight(d)) = 0
      BY FS_EmptySet
    <2> DEFINE next == IF Due(d) THEN 1 ELSE 0
               next2 == IF Due(d)' THEN 1 ELSE 0
    <2>5. next2 <= next \/ InFlight(d) = {} \/ (next2 = 1 /\ next = 0 /\ lapses' = lapses + 1)
      BY <1>3, <2>2
    <2>6. next \in 0..1 /\ next2 \in 0..1
      OBVIOUS
    <2>7. /\ row[d].status = "none" => row[d].attempts = 0 /\ row[d].due = 0
          /\ Cardinality(InFlight(d)) + next <= 1 + lapses
          /\ InFlight(d) # {} => claims[d] >= 1
          /\ claims[d] <= MaxAttempts + lapses
          /\ row[d].status # "none" => claims[d] <= row[d].attempts + lapses
          /\ \A t \in InFlight(d) : claims[d] + next <= t.prior + 1 + lapses
      BY <2>n DEF PaidFor
    <2> HIDE DEF next, next2
    <2>8. Cardinality(InFlight(d)) + next2 <= 1 + lapses'
      BY <1>3, <2>4, <2>5, <2>6, <2>7, <2>n
    <2>9. \A t \in InFlight(d) : claims[d] + next2 <= t.prior + 1 + lapses'
      BY <1>3, <2>5, <2>6, <2>7, <2>n
    <2>10. /\ row[d].status = "none" => row'[d].attempts = 0 /\ row'[d].due = 0
           /\ claims[d] <= MaxAttempts + lapses'
           /\ row[d].status # "none" => claims[d] <= row'[d].attempts + lapses'
      <3>1. /\ row'[d].attempts = row[d].attempts
            /\ row[d].due = 0 => row'[d].due = 0
        BY <1>2, <2>n DEF Less
      <3>2. claims[d] <= MaxAttempts + lapses'
        BY <1>3, <2>7, <2>n, Schedule
      <3>3. row[d].status # "none" => claims[d] <= row[d].attempts + lapses'
        BY <1>3, <2>7, <2>n
      <3> QED BY <2>7, <3>1, <3>2, <3>3
    <2>11. PaidFor(d)'
      BY <1>2, <2>1, <2>7, <2>8, <2>9, <2>10, <2>n DEF PaidFor, next2
    <2>12. InOrder(d)'
      <3> SUFFICES ASSUME lapses' = 0 PROVE InOrder(d)'
        BY DEF InOrder
      <3>1. lapses = 0 /\ ~Lapses
        BY <1>3
      <3>2. \A t \in InFlight(d) : /\ \A u \in InFlight(d) : u = t
                                   /\ row[d].status \in {"pending", "none"} /\ ~Due(d)'
                                   /\ t.prior + 1 <= claims[d]
        BY <2>2, <2>n, <3>1 DEF InOrder
      <3> QED BY <1>2, <2>1, <2>n, <3>1, <3>2 DEF InOrder
    <2> QED BY <2>11, <2>12
  <1> QED BY <1>4, <1>5 DEF Paid

\* Every step keeps the invariant.
LEMMA NextPaid ==
    ASSUME ~ReplayInFlight, Paid, [OutboxNext]_outboxVars
    PROVE  Paid'
  <1>t. OutboxTypeOK
    BY DEF Paid
  <1>0. NoRow \in Row /\ NoRow.status = "none" /\ NoRow.attempts = 0 /\ NoRow.due = 0
    BY Schedule DEF NoRow, Row
  <1>1. ASSUME NEW e \in Deliveries, EnqueueEvent(e)
        PROVE  Paid'
    <2>1. /\ row[e].status = "none" /\ claims[e] = 0
          /\ row' = [row EXCEPT ![e].status = "pending"]
          /\ UNCHANGED <<tasks, hook, replays, claims, lapses>>
      BY <1>1 DEF EnqueueEvent
    <2>2. /\ row'[e] = [row[e] EXCEPT !.status = "pending"]
          /\ \A d \in Deliveries : d # e => row'[d] = row[d]
      BY <1>t, <2>1 DEF OutboxTypeOK
    <2>3. /\ row[e] \in Row /\ InFlight(e) = {} /\ row[e].attempts = 0 /\ row[e].due = 0
      BY <2>1, Numbers DEF PaidFor
    <2>4. /\ row'[e] \in Row /\ row'[e].status = "pending"
          /\ row'[e].attempts = 0 /\ row'[e].due = 0
      BY <2>2, <2>3 DEF Row
    <2>5. OutboxTypeOK'
      BY <1>t, <2>1, <2>2, <2>4 DEF OutboxTypeOK
    <2>6. ASSUME NEW d \in Deliveries PROVE PaidFor(d)' /\ InOrder(d)'
      <3>1. CASE d = e
        BY <2>1, <2>3, <2>4, <3>1, AfreshPaid
      <3>2. CASE d # e
        BY <2>1, <2>2, <3>2, LeftAloneFewer DEF InFlight
      <3> QED BY <3>1, <3>2
    <2> QED BY <2>5, <2>6 DEF Paid
  <1>2. ASSUME NEW e \in Deliveries, ReplayDelivery(e)
        PROVE  Paid'
    <2> DEFINE x == [status |-> "pending", attempts |-> 0, due |-> 0]
    <2>1. /\ InFlight(e) = {}
          /\ row' = [row EXCEPT ![e] = x]
          /\ replays' = [replays EXCEPT ![e] = @ + 1]
          /\ claims' = [claims EXCEPT ![e] = 0]
          /\ UNCHANGED <<tasks, hook, lapses>>
      BY <1>2 DEF ReplayDelivery
    <2>2. x \in Row /\ x.status = "pending" /\ x.attempts = 0 /\ x.due = 0
      BY Schedule DEF Row
    <2> HIDE DEF x
    <2>3. /\ row'[e] = x /\ claims'[e] = 0
          /\ \A d \in Deliveries : d # e => row'[d] = row[d] /\ claims'[d] = claims[d]
      BY <1>t, <2>1 DEF OutboxTypeOK
    <2>4. OutboxTypeOK'
      BY <1>t, <2>1, <2>2 DEF OutboxTypeOK
    <2>5. ASSUME NEW d \in Deliveries PROVE PaidFor(d)' /\ InOrder(d)'
      <3>1. CASE d = e
        BY <2>1, <2>2, <2>3, <3>1, AfreshPaid
      <3>2. CASE d # e
        BY <2>1, <2>3, <3>2, LeftAloneFewer DEF InFlight
      <3> QED BY <3>1, <3>2
    <2> QED BY <2>4, <2>5 DEF Paid
  <1>3. ASSUME NEW w \in Workers, Crash(w)
        PROVE  Paid'
    <2>1. tasks' \subseteq tasks /\ UNCHANGED <<row, hook, replays, claims, lapses>>
      BY <1>3 DEF Crash
    <2>2. OutboxTypeOK'
      BY <1>t, <2>1 DEF OutboxTypeOK
    <2>3. ASSUME NEW d \in Deliveries PROVE PaidFor(d)' /\ InOrder(d)'
      <3>1. InFlight(d)' \subseteq InFlight(d)
        BY <2>1 DEF InFlight
      <3> QED BY <2>1, <3>1, LeftAloneFewer
    <2> QED BY <2>2, <2>3 DEF Paid
  \* Rows that are deleted.
  <1>4. ASSUME NEW S \in SUBSET Deliveries,
               row' = [d \in Deliveries |-> IF d \in S THEN NoRow ELSE row[d]],
               hook' \in {"active", "revoked", "deleted"},
               UNCHANGED <<tasks, replays, claims, lapses>>
        PROVE  Paid'
    <2>1. OutboxTypeOK'
      BY <1>0, <1>4, <1>t DEF OutboxTypeOK
    <2>2. ASSUME NEW d \in Deliveries PROVE PaidFor(d)' /\ InOrder(d)'
      <3>1. InFlight(d)' \subseteq InFlight(d)
        BY <1>4 DEF InFlight
      <3>2. CASE d \in S
        <4>1. row'[d] = NoRow
          BY <1>4, <3>2
        <4>2. ~Due(d)'
          BY <1>0, <4>1 DEF Due
        <4> QED BY <1>0, <1>4, <2>1, <3>1, <4>1, <4>2, Rewritten
      <3>3. CASE d \notin S
        <4>1. row'[d] = row[d]
          BY <1>4, <3>3
        <4> QED BY <1>4, <3>1, <4>1, LeftAloneFewer
      <3> QED BY <3>2, <3>3
    <2> QED BY <2>1, <2>2 DEF Paid
  <1>5. CASE PurgeOldDeliveries
    BY <1>4, <1>5, <1>t DEF PurgeOldDeliveries, OutboxTypeOK
  <1>6. CASE DeleteWebhook
    <2>1. row' = [d \in Deliveries |-> IF d \in Deliveries THEN NoRow ELSE row[d]]
      BY <1>6 DEF DeleteWebhook
    <2> QED BY <1>4, <1>6, <2>1 DEF DeleteWebhook
  <1>7. CASE RevokeKey \/ UNCHANGED outboxVars
    <2>1. /\ UNCHANGED <<row, tasks, replays, claims, lapses>>
          /\ hook' \in {"active", "revoked", "deleted"}
      BY <1>7, <1>t DEF RevokeKey, outboxVars, OutboxTypeOK
    <2>2. OutboxTypeOK'
      BY <1>t, <2>1 DEF OutboxTypeOK
    <2>3. ASSUME NEW d \in Deliveries PROVE PaidFor(d)' /\ InOrder(d)'
      BY <2>1, LeftAloneFewer DEF InFlight
    <2> QED BY <2>2, <2>3 DEF Paid
  <1> QED BY <1>1, <1>2, <1>3, <1>5, <1>6, <1>7, ClaimPaid, TaskPaid, TickPaid DEF OutboxNext

\* What a step without a lapse may do to a delivery that was made.
LEMMA DeliveredStays ==
    ASSUME Paid, OutboxNext
    PROVE  DeliveredIsTerminal
  <1> SUFFICES ASSUME lapses' = 0, NEW d \in Deliveries, row[d].status = "delivered"
               PROVE  row'[d].status \in {"delivered", "none"} \/ replays'[d] > replays[d]
    BY DEF DeliveredIsTerminal
  <1>t. OutboxTypeOK /\ row[d] \in Row /\ lapses \in Nat /\ InOrder(d)
    BY Numbers DEF Paid
  <1>1. ASSUME NEW e \in Deliveries, EnqueueEvent(e) PROVE row'[d].status = "delivered"
    BY <1>1, <1>t DEF EnqueueEvent, OutboxTypeOK
  <1>2. ASSUME NEW e \in Deliveries, ReplayDelivery(e)
        PROVE  row'[d].status = "delivered" \/ replays'[d] > replays[d]
    BY <1>2, <1>t DEF ReplayDelivery, OutboxTypeOK
  <1>3. ASSUME NEW w \in Workers, NEW S \in SUBSET Deliveries, ClaimDueDeliveries(w, S)
        PROVE  row'[d].status = "delivered"
    BY <1>3 DEF ClaimDueDeliveries, Due
  <1>4. ASSUME NEW w \in Workers, Crash(w) PROVE row'[d].status = "delivered"
    BY <1>4 DEF Crash
  <1>5. ASSUME NEW t \in tasks, TaskStep(t) PROVE row'[d].status = "delivered"
    <2>1. lapses = 0
      BY <1>5 DEF TaskStep, PerformHttpAttempt, RecordAttempt, RecordAttemptFails
    <2>2. t.delivery # d
      BY <1>t, <2>1 DEF InOrder, InFlight
    <2>3. row'[d] = row[d]
      BY <1>5, <1>t, <2>2 DEF TaskStep, PerformHttpAttempt, RecordAttempt, RecordAttemptFails, OutboxTypeOK
    <2> QED BY <2>3
  <1>6. CASE PurgeOldDeliveries
    BY <1>6 DEF PurgeOldDeliveries, NoRow
  <1>7. CASE RevokeKey
    BY <1>7 DEF RevokeKey
  <1>8. CASE DeleteWebhook
    BY <1>8 DEF DeleteWebhook, NoRow
  <1>9. CASE OutboxTick
    <2>1. row'[d] = [row[d] EXCEPT !.due = Less(@)]
      BY <1>9 DEF OutboxTick
    <2> QED BY <1>t, <2>1 DEF Row
  <1> QED BY <1>1, <1>2, <1>3, <1>4, <1>5, <1>6, <1>7, <1>8, <1>9 DEF OutboxNext

\* Attempts are bounded in number and in flight, however many processes claim,
\* crash or lose results: only a lapse adds one (webhook-delivery-claim).
THEOREM AttemptsStayBounded == ASSUME ~ReplayInFlight PROVE OutboxSpec => []AttemptsAreBounded
  <1>1. Paid /\ [OutboxNext]_outboxVars => Paid'
    BY NextPaid
  <1>2. Paid => AttemptsAreBounded
    <2> SUFFICES ASSUME Paid PROVE AttemptsAreBounded
      OBVIOUS
    <2>1. ASSUME NEW d \in Deliveries
          PROVE  Cardinality(InFlight(d)) <= 1 + lapses /\ claims[d] <= MaxAttempts + lapses
      BY Numbers DEF PaidFor
    <2> QED BY <2>1 DEF Paid, AttemptsAreBounded, OneAttemptAtATime, AttemptLimit
  <1> QED BY PaidAtFirst, <1>1, <1>2, PTL DEF OutboxSpec

\* Without a lapse no delivery fails before the attempts of its own cycle are
\* used up, and one that was made stays made (webhook-delivery-attempt).
THEOREM CyclesAreKept == ASSUME ~ReplayInFlight PROVE OutboxSpec => CycleIsKept
  <1>1. Paid /\ [OutboxNext]_outboxVars => Paid'
    BY NextPaid
  <1>2. Paid => FullCycleBeforeFailed
    BY DEF Paid, InOrder, FullCycleBeforeFailed
  <1>3. Paid /\ Paid' /\ [OutboxNext]_outboxVars =>
          [FullCycleBeforeFailed' /\ DeliveredIsTerminal]_outboxVars
    <2>1. Paid' => FullCycleBeforeFailed'
      BY <1>2, PTL
    <2> QED BY <2>1, DeliveredStays
  <1> QED BY PaidAtFirst, <1>1, <1>3, PTL DEF OutboxSpec, CycleIsKept

-----------------------------------------------------------------------------
(* The send budgets.                                                       *)

TokenTyped ==
    /\ tick \in 0..MaxTicks
    /\ bucket \in [BucketStores -> [parts : Nat, at : Nat]]
    /\ promised \in [BucketStores -> Int]
    /\ granted \in [BucketStores -> [0..MaxTicks -> Nat]]

\* What a store granted in a span of ticks.
GrantedIn(s, from, to) == SumFunctionOnSet(granted[s], from..to)

\* A store's bucket never holds more than its capacity; what it granted since
\* any tick and what it holds now are within the rate; its last promise is one
\* its refill keeps.
StoreKept(s) ==
    /\ bucket[s].at <= tick /\ bucket[s].parts <= Capacity * Unit
    /\ \A t \in 0..MaxTicks : t > tick => granted[s][t] = 0
    /\ \A from \in 0..tick :
          Unit * GrantedIn(s, from, tick) + Refill(bucket[s])
             <= Capacity * Unit + (tick - from) * PerTick
    /\ promised[s] # NoPromise =>
          /\ bucket[s].at <= promised[s]
          /\ Unit <= bucket[s].parts + (promised[s] - bucket[s].at) * PerTick

\* The inductive invariant.
BudgetKept ==
    /\ TokenTyped
    /\ \A s \in BucketStores : StoreKept(s)
    /\ RateHolds

\* Arithmetic, in the pieces the proofs need.
LEMMA WholeTokens ==
    ASSUME NEW a \in Nat, NEW b \in Nat \ {0}
    PROVE  /\ a \div b \in Nat
           /\ (a \div b) * b <= a
           /\ a < (a \div b) * b + b
  OBVIOUS

\* Multiplying by a natural number keeps the order.
LEMMA TimesKeepsOrder ==
    ASSUME NEW a \in Nat, NEW b \in Nat, NEW c \in Nat, a <= b
    PROVE  a * c <= b * c /\ a * c \in Nat /\ b * c \in Nat
  OBVIOUS

\* Products spread over sums and differences.
LEMMA TimesSpreads ==
    ASSUME NEW a \in Int, NEW b \in Int, NEW c \in Int
    PROVE  /\ (a - b) * c = a * c - b * c /\ (a + b) * c = a * c + b * c
           /\ c * (a + b) = c * a + c * b
           /\ a * c \in Int /\ b * c \in Int /\ c * a \in Int /\ c * b \in Int
  OBVIOUS

\* refill holds at most the capacity, and grows by the rate.
LEMMA RefillFacts ==
    ASSUME NEW p \in Nat, NEW at \in Nat, NEW now \in Nat, at <= now,
           NEW next \in Nat, next = now + 1
    PROVE  LET full == Capacity * Unit
               level == Least(full, p + (now - at) * PerTick)
               later == Least(full, p + (next - at) * PerTick)
           IN  /\ full \in Nat /\ Unit <= full
               /\ level \in Nat /\ level <= full
               /\ later \in Nat /\ later <= full /\ later <= level + PerTick
<1>1. Capacity * Unit \in Nat /\ Unit <= Capacity * Unit
  <2>1. 1 * Unit <= Capacity * Unit
    BY TokenConstants, TimesKeepsOrder
  <2> QED
    BY <2>1, TokenConstants
<1>2. PICK x \in Nat : x = (now - at) * PerTick
  BY TokenConstants, TimesKeepsOrder
<1>3. (next - at) * PerTick = x + PerTick
  <2>1. (now - at) + 1 = next - at
    OBVIOUS
  <2>2. ((now - at) + 1) * PerTick = (now - at) * PerTick + 1 * PerTick
    BY TimesSpreads, TokenConstants
  <2> QED
    BY <1>2, <2>1, <2>2, TokenConstants
<1>4. PICK full \in Nat : full = Capacity * Unit /\ Unit <= full
  BY <1>1
<1>5. PerTick \in Nat
  BY TokenConstants
<1> QED
  BY <1>2, <1>3, <1>4, <1>5 DEF Least

\* takeNow: what a take of count tokens leaves and promises.
LEMMA TakeFacts ==
    ASSUME TokenTyped, NEW s \in BucketStores, StoreKept(s), NEW count \in 1..MaxBatch
    PROVE  LET b == bucket[s]
               g == Grants(b, count)
               left == After(b, count).parts
           IN  /\ Refill(b) \in Nat /\ Refill(b) <= Capacity * Unit
               /\ g \in Nat /\ left \in Nat /\ left = Refill(b) - Unit * g
               /\ After(b, count) = [parts |-> left, at |-> tick]
               /\ g < count => /\ Wait(b, count) \in Nat
                               /\ Unit <= left + Wait(b, count) * PerTick
<1> DEFINE b == bucket[s]
           level == Refill(b)
           g == Grants(b, count)
<1>1. b \in [parts : Nat, at : Nat] /\ b.at <= tick /\ tick \in Nat
  BY TokenConstants DEF TokenTyped, StoreKept
<1>2. level \in Nat /\ level <= Capacity * Unit
  <2>1. tick + 1 \in Nat
    BY <1>1
  <2> QED
    BY <1>1, <2>1, RefillFacts DEF Refill
<1>3. /\ level \div Unit \in Nat /\ (level \div Unit) * Unit <= level
      /\ level < (level \div Unit) * Unit + Unit
  BY <1>2, TokenConstants, WholeTokens
<1>4. g \in Nat /\ g <= level \div Unit /\ (g < count => g = level \div Unit)
  BY <1>3, TokenConstants DEF Grants, Least
<1>5. g * Unit <= (level \div Unit) * Unit /\ g * Unit \in Nat /\ g * Unit = Unit * g
  BY <1>3, <1>4, TokenConstants, TimesKeepsOrder
<1> DEFINE left == level - g * Unit
<1>6. left \in Nat /\ (g < count => left < Unit)
  BY <1>2, <1>3, <1>4, <1>5, TokenConstants
<1>7. After(b, count) = [parts |-> left, at |-> tick]
  BY DEF After
<1>8. ASSUME g < count
      PROVE  /\ Wait(b, count) \in Nat
             /\ Unit <= left + Wait(b, count) * PerTick
  <2> DEFINE need == Unit - left + PerTick - 1
  <2>1. need \in Nat /\ PerTick \in Nat \ {0}
    BY <1>6, <1>8, TokenConstants
  <2>2. Wait(b, count) = need \div PerTick
    BY <1>7 DEF Wait
  <2>3. /\ need \div PerTick \in Nat
        /\ need < (need \div PerTick) * PerTick + PerTick
    BY <2>1, WholeTokens
  <2>4. PICK w \in Nat : w = (need \div PerTick) * PerTick
    BY <2>1, <2>3, TimesKeepsOrder
  <2> QED
    BY <1>6, <2>1, <2>2, <2>3, <2>4, TokenConstants
<1> QED
  BY <1>2, <1>4, <1>5, <1>6, <1>7, <1>8

\* A span of the clock, and what a store granted in it.
LEMMA SpanFacts ==
    ASSUME TokenTyped, NEW s \in BucketStores, NEW from \in Nat, NEW to \in 0..MaxTicks
    PROVE  /\ IsFiniteSet(from..to) /\ from..to \in SUBSET (0..MaxTicks)
           /\ granted[s] \in [0..MaxTicks -> Int]
           /\ GrantedIn(s, from, to) \in Int
           /\ Unit * GrantedIn(s, from, to) \in Int
<1>1. IsFiniteSet(from..to)
  BY FS_Interval, TokenConstants
<1>2. from..to \in SUBSET (0..MaxTicks)
  BY TokenConstants
<1>3. granted[s] \in [0..MaxTicks -> Int]
  BY DEF TokenTyped
<1>4. SumFunctionOnSet(granted[s], from..to) \in Int
  BY <1>1, <1>2, <1>3, SumType
<1>5. GrantedIn(s, from, to) \in Int
  BY <1>4 DEF GrantedIn
<1> QED
  BY <1>1, <1>2, <1>3, <1>5, TokenConstants

\* The sum over a span, its last tick apart, and when its last tick grows.
LEMMA ClockSum ==
    ASSUME NEW f \in [0..MaxTicks -> Nat], NEW from \in Nat, NEW to \in 0..MaxTicks, from <= to
    PROVE  /\ SumFunctionOnSet(f, from..to) \in Int
           /\ SumFunctionOnSet(f, from..(to - 1)) \in Int
           /\ SumFunctionOnSet(f, from..to) = f[to] + SumFunctionOnSet(f, from..(to - 1))
           /\ from = to => SumFunctionOnSet(f, from..to) = f[to]
<1> DEFINE T == 0..MaxTicks
<1>1. to \in Int /\ from \in Int /\ 0 \in Int
  BY TokenConstants
<1>2. from..to \in SUBSET T
  BY <1>1, TokenConstants
<1>3. f \in [T -> Int]
  OBVIOUS
<1> HIDE DEF T
<1>4. \A a \in Int, b \in Int : a <= b /\ a..b \in SUBSET T =>
         /\ SumFunctionOnSet(f, a..b) \in Int
         /\ SumFunctionOnSet(f, a..(b - 1)) \in Int
         /\ SumFunctionOnSet(f, a..b) = f[b] + SumFunctionOnSet(f, a..(b - 1))
         /\ a = b => SumFunctionOnSet(f, a..b) = f[b]
  BY <1>3, SpanSum
<1> QED
  BY <1>1, <1>2, <1>4, Zenon

\* What is granted now adds to every sum that reaches the present.
LEMMA ClockSumGrows ==
    ASSUME NEW f \in [0..MaxTicks -> Nat], NEW from \in Nat, NEW to \in 0..MaxTicks, from <= to,
           NEW d \in Nat, NEW h, h = [f EXCEPT ![to] = @ + d]
    PROVE  /\ h \in [0..MaxTicks -> Nat]
           /\ SumFunctionOnSet(h, from..to) = SumFunctionOnSet(f, from..to) + d
<1> DEFINE T == 0..MaxTicks
<1>1. to \in Int /\ from \in Int /\ d \in Int
  BY TokenConstants
<1>2. from..to \in SUBSET T
  BY <1>1, TokenConstants
<1>3. f \in [T -> Int] /\ h \in [T -> Int]
  OBVIOUS
<1>4. h[to] = f[to] + d /\ \A y \in T \ {to} : h[y] = f[y]
  OBVIOUS
<1> HIDE DEF T
<1>5. SumFunctionOnSet(h, from..to) = SumFunctionOnSet(f, from..to) + (h[to] - f[to])
  <2>1. \A a \in Int, b \in Int :
           a <= b /\ a..b \in SUBSET T /\ DiffersAt(f, h, T, b) =>
              SumFunctionOnSet(h, a..b) = SumFunctionOnSet(f, a..b) + (h[b] - f[b])
    BY ONLY <1>3, SpanSumChanges
  <2> QED
    BY <1>1, <1>2, <1>4, <2>1, Zenon DEF DiffersAt
<1>6. h[to] - f[to] = d
  BY <1>4 DEF T
<1>7. h \in [0..MaxTicks -> Nat]
  OBVIOUS
<1> QED
  BY <1>5, <1>6, <1>7

\* A store nothing touched, with the clock standing, keeps what it kept.
LEMMA UntouchedStore ==
    ASSUME NEW s \in BucketStores, StoreKept(s), tick' = tick, bucket'[s] = bucket[s],
           granted'[s] = granted[s],
           promised'[s] = promised[s] \/ promised'[s] = NoPromise
    PROVE  StoreKept(s)'
<1>1. Refill(bucket[s])' = Refill(bucket[s])
  BY DEF Refill
<1>2. \A from \in 0..tick : GrantedIn(s, from, tick)' = GrantedIn(s, from, tick)
  BY DEF GrantedIn
<1>3. (bucket[s].at <= tick /\ bucket[s].parts <= Capacity * Unit)'
  BY DEF StoreKept
<1>4. (\A t \in 0..MaxTicks : t > tick => granted[s][t] = 0)'
  BY DEF StoreKept
<1>5. (\A from \in 0..tick :
          Unit * GrantedIn(s, from, tick) + Refill(bucket[s])
             <= Capacity * Unit + (tick - from) * PerTick)'
  BY <1>1, <1>2 DEF StoreKept
<1>6. (promised[s] # NoPromise =>
          /\ bucket[s].at <= promised[s]
          /\ Unit <= bucket[s].parts + (promised[s] - bucket[s].at) * PerTick)'
  BY DEF StoreKept
<1> QED
  BY <1>3, <1>4, <1>5, <1>6 DEF StoreKept

\* What a bucket just taken from holds.
LEMMA RefillAfter ==
    ASSUME NEW left \in Nat, left <= Capacity * Unit, tick \in Nat
    PROVE  Refill([parts |-> left, at |-> tick]) = left
<1>1. (tick - tick) * PerTick = 0
  BY TokenConstants
<1>2. Capacity * Unit \in Nat
  BY TokenConstants
<1>3. PICK full \in Nat : full = Capacity * Unit
  BY <1>2
<1>4. Least(full, left + 0) = left
  BY <1>3 DEF Least
<1> QED
  BY <1>1, <1>3, <1>4 DEF Refill

\* A bucket some tokens were taken from: what is left, and what the promise of
\* the take rests on.
LEMMA TakenStore ==
    ASSUME TokenTyped, TokenTyped', NEW s \in BucketStores, NEW count \in 1..MaxBatch,
           StoreKept(s), tick' = tick, bucket'[s] = After(bucket[s], count),
           NEW g \in Nat, g = 0 \/ g = Grants(bucket[s], count),
           granted'[s] = [granted[s] EXCEPT ![tick] = @ + g],
           \/ promised'[s] = NoPromise
           \/ /\ Grants(bucket[s], count) < count
              /\ promised'[s] = tick + Wait(bucket[s], count)
    PROVE  StoreKept(s)'
<1> DEFINE left == After(bucket[s], count).parts
           level == Refill(bucket[s])
           all == Grants(bucket[s], count)
<1>1. /\ level \in Nat /\ level <= Capacity * Unit
      /\ all \in Nat /\ left \in Nat /\ left = level - Unit * all
      /\ After(bucket[s], count) = [parts |-> left, at |-> tick]
      /\ all < count => /\ Wait(bucket[s], count) \in Nat
                        /\ Unit <= left + Wait(bucket[s], count) * PerTick
  BY TakeFacts
<1>2. tick \in Nat /\ tick \in 0..MaxTicks
  BY TokenConstants DEF TokenTyped
<1>3. Unit * all \in Nat /\ Unit * g \in Nat /\ Unit * g <= Unit * all
  BY <1>1, TokenConstants
<1>4. left <= level - Unit * g /\ left <= Capacity * Unit
  <2>1. PICK full \in Nat : full = Capacity * Unit
    BY TokenConstants
  <2> QED
    BY <1>1, <1>3, <2>1
<1>5. Refill(bucket[s])' = left
  <2>1. Refill([parts |-> left, at |-> tick]) = left
    BY <1>1, <1>2, <1>4, RefillAfter
  <2>2. Refill(bucket[s])' = Refill([parts |-> left, at |-> tick])
    BY <1>1 DEF Refill
  <2> QED
    BY <2>1, <2>2
<1>6. bucket'[s] = [parts |-> left, at |-> tick]
  BY <1>1
<1>7. (bucket[s].at <= tick /\ bucket[s].parts <= Capacity * Unit)'
  BY <1>2, <1>4, <1>6
<1>8. (\A t \in 0..MaxTicks : t > tick => granted[s][t] = 0)'
  <2> SUFFICES ASSUME NEW t \in 0..MaxTicks, t > tick
               PROVE  granted'[s][t] = 0
    BY Zenon
  <2>1. granted[s][t] = 0
    BY DEF StoreKept
  <2>2. granted[s] \in [0..MaxTicks -> Nat] /\ t # tick
    BY <1>2, TokenConstants DEF TokenTyped
  <2> QED
    BY <2>1, <2>2
<1>9. ASSUME NEW from \in 0..tick
      PROVE  GrantedIn(s, from, tick)' = GrantedIn(s, from, tick) + g
  <2>1. granted[s] \in [0..MaxTicks -> Nat]
    BY DEF TokenTyped
  <2>2. from \in Nat /\ from <= tick
    BY <1>2
  <2>3. SumFunctionOnSet(granted'[s], from..tick) = SumFunctionOnSet(granted[s], from..tick) + g
    BY <1>2, <2>1, <2>2, ClockSumGrows
  <2> QED
    BY <2>3 DEF GrantedIn
<1>10. (\A from \in 0..tick :
          Unit * GrantedIn(s, from, tick) + Refill(bucket[s])
             <= Capacity * Unit + (tick - from) * PerTick)'
  <2> SUFFICES ASSUME NEW from \in 0..tick
               PROVE  Unit * GrantedIn(s, from, tick)' + left
                        <= Capacity * Unit + (tick - from) * PerTick
    BY <1>5
  <2>1. PICK sum \in Int : sum = GrantedIn(s, from, tick)
    BY <1>2, SpanFacts
  <2>2. Unit * (sum + g) = Unit * sum + Unit * g
    BY <2>1, TimesSpreads, TokenConstants
  <2>3. PICK bound \in Int : bound = Capacity * Unit + (tick - from) * PerTick
    BY <1>2, TokenConstants
  <2>4. PICK before \in Int : before = Unit * sum
    BY TokenConstants
  <2>5. before + level <= bound
    BY <2>1, <2>3, <2>4 DEF StoreKept
  <2> QED
    BY <1>1, <1>3, <1>4, <1>9, <2>1, <2>2, <2>3, <2>4, <2>5
<1>11. (promised[s] # NoPromise =>
          /\ bucket[s].at <= promised[s]
          /\ Unit <= bucket[s].parts + (promised[s] - bucket[s].at) * PerTick)'
  <2> SUFFICES ASSUME promised'[s] # NoPromise
               PROVE  /\ tick <= promised'[s]
                      /\ Unit <= left + (promised'[s] - tick) * PerTick
    BY <1>6
  <2>1. all < count /\ promised'[s] = tick + Wait(bucket[s], count)
    OBVIOUS
  <2>2. PICK w \in Nat : w = Wait(bucket[s], count) /\ Unit <= left + w * PerTick
    BY <1>1, <2>1
  <2>3. promised'[s] - tick = w /\ tick <= promised'[s]
    BY <1>2, <2>1, <2>2
  <2> QED
    BY <2>2, <2>3
<1> QED
  BY <1>7, <1>8, <1>10, <1>11 DEF StoreKept

\* The clock ticks: one more tick of refill at most, and nothing granted yet.
LEMMA TickedStore ==
    ASSUME TokenTyped, TokenTyped', NEW s \in BucketStores, StoreKept(s), BucketTick
    PROVE  StoreKept(s)'
<1> DEFINE full == Capacity * Unit
           b == bucket[s]
           level == Refill(b)
           later == Refill(b)'
<1>1. /\ tick \in Nat /\ tick \in 0..MaxTicks /\ tick' = tick + 1 /\ tick' \in 0..MaxTicks
      /\ UNCHANGED <<bucket, promised, granted>>
  BY TokenConstants DEF TokenTyped, BucketTick
<1>2. b \in [parts : Nat, at : Nat] /\ b.at <= tick /\ b.parts <= full
  BY DEF TokenTyped, StoreKept
<1>3. /\ full \in Nat /\ level \in Nat /\ level <= full
      /\ later \in Nat /\ later <= full /\ later <= level + PerTick
  <2>1. level = Least(full, b.parts + (tick - b.at) * PerTick)
    BY DEF Refill
  <2>2. later = Least(full, b.parts + (tick' - b.at) * PerTick)
    <3>1. later = Least(full, bucket'[s].parts + (tick' - bucket'[s].at) * PerTick)
      BY DEF Refill
    <3>2. bucket'[s] = b
      BY <1>1
    <3> QED
      BY <3>1, <3>2
  <2>3. PICK p \in Nat : p = b.parts
    BY <1>2
  <2>4. PICK at \in Nat : at = b.at /\ at <= tick
    BY <1>2
  <2>5. PICK next \in Nat : next = tick + 1 /\ next = tick'
    BY <1>1
  <2>6. later = Least(full, p + (next - at) * PerTick)
    BY <2>2, <2>3, <2>4, <2>5, Zenon
  <2>7. level = Least(full, p + (tick - at) * PerTick)
    BY <2>1, <2>3, <2>4, Zenon
  <2>8. /\ full \in Nat /\ Least(full, p + (tick - at) * PerTick) \in Nat
        /\ Least(full, p + (tick - at) * PerTick) <= full
        /\ Least(full, p + (next - at) * PerTick) \in Nat
        /\ Least(full, p + (next - at) * PerTick) <= full
        /\ Least(full, p + (next - at) * PerTick) <= Least(full, p + (tick - at) * PerTick) + PerTick
    BY <1>1, <2>4, <2>5, RefillFacts
  <2> QED
    BY <2>6, <2>7, <2>8, Zenon
<1>4. (bucket[s].at <= tick /\ bucket[s].parts <= Capacity * Unit)'
  BY <1>1, <1>2
<1>5. (\A t \in 0..MaxTicks : t > tick => granted[s][t] = 0)'
  BY <1>1, TokenConstants DEF StoreKept
<1>6. ASSUME NEW from \in 0..tick
      PROVE  GrantedIn(s, from, tick)' = GrantedIn(s, from, tick)
  <2>1. PICK f \in [0..MaxTicks -> Nat] : f = granted[s] /\ f[tick + 1] = 0
    <3>1. granted[s][tick + 1] = 0
      BY <1>1 DEF StoreKept
    <3> QED
      BY <3>1 DEF TokenTyped
  <2>2. PICK next \in 0..MaxTicks : next = tick + 1
    BY <1>1
  <2>3. from \in Nat /\ from <= next /\ next - 1 = tick
    BY <1>1, <2>2
  <2>4. /\ SumFunctionOnSet(f, from..(next - 1)) \in Int
        /\ SumFunctionOnSet(f, from..next) = f[next] + SumFunctionOnSet(f, from..(next - 1))
    BY <2>3, ClockSum
  <2>5. PICK sum \in Int : sum = SumFunctionOnSet(f, from..tick)
    BY <2>3, <2>4
  <2>6. SumFunctionOnSet(f, from..next) = sum
    BY <2>1, <2>2, <2>3, <2>4, <2>5
  <2> QED
    BY <1>1, <2>1, <2>2, <2>5, <2>6, Zenon DEF GrantedIn
<1>7. SumFunctionOnSet(granted[s], (tick + 1)..(tick + 1)) = 0
  <2>1. granted[s] \in [0..MaxTicks -> Nat]
    BY DEF TokenTyped
  <2>2. tick + 1 \in Nat /\ tick + 1 \in 0..MaxTicks /\ tick + 1 <= tick + 1
    BY <1>1
  <2>3. granted[s][tick + 1] = 0
    BY <1>1, <2>2 DEF StoreKept
  <2> QED
    BY <2>1, <2>2, <2>3, ClockSum
<1>8. (\A from \in 0..tick :
          Unit * GrantedIn(s, from, tick) + Refill(bucket[s])
             <= Capacity * Unit + (tick - from) * PerTick)'
  <2> SUFFICES ASSUME NEW from \in 0..(tick + 1)
               PROVE  Unit * GrantedIn(s, from, tick)' + later
                        <= full + (tick + 1 - from) * PerTick
    BY <1>1
  <2>1. CASE from \in 0..tick
    <3>1. PICK sum \in Int : sum = Unit * GrantedIn(s, from, tick)
      BY <1>1, SpanFacts
    <3>2. sum + level <= full + (tick - from) * PerTick
      BY <2>1, <3>1 DEF StoreKept
    <3>3. ((tick - from) + 1) * PerTick = (tick - from) * PerTick + 1 * PerTick
      BY <1>1, <2>1, TimesSpreads, TokenConstants
    <3>4. (tick - from) + 1 = tick + 1 - from
      BY <1>1
    <3>5. PICK x \in Int : x = (tick - from) * PerTick
      BY <1>1, TokenConstants
    <3>6. (tick + 1 - from) * PerTick = x + PerTick /\ PerTick \in Nat
      BY <3>3, <3>4, <3>5, TokenConstants
    <3>7. Unit * GrantedIn(s, from, tick)' = sum
      BY <1>6, <2>1, <3>1
    <3>8. PICK f \in Nat : f = full
      BY <1>3
    <3>9. PICK l \in Nat : l = later
      BY <1>3
    <3>10. PICK lv \in Nat : lv = level
      BY <1>3
    <3> HIDE DEF full, later, level
    <3> QED
      BY <1>3, <3>2, <3>5, <3>6, <3>7, <3>8, <3>9, <3>10
  <2>2. CASE from = tick + 1
    <3>1. Unit * GrantedIn(s, from, tick)' = 0
      <4>1. GrantedIn(s, from, tick)' = 0
        BY <1>1, <1>7, <2>2 DEF GrantedIn
      <4> QED
        BY <4>1, TokenConstants
    <3>2. (tick + 1 - from) * PerTick = 0
      BY <1>1, <2>2, TokenConstants
    <3> HIDE DEF full, later
    <3> QED
      BY <1>3, <3>1, <3>2
  <2> QED
    BY <1>1, <2>1, <2>2
<1>9. (promised[s] # NoPromise =>
          /\ bucket[s].at <= promised[s]
          /\ Unit <= bucket[s].parts + (promised[s] - bucket[s].at) * PerTick)'
  BY <1>1 DEF StoreKept
<1> QED
  BY <1>4, <1>5, <1>8, <1>9 DEF StoreKept

\* A span that ends now is within the rate, and one that ended is as it was.
LEMMA SpansKept ==
    ASSUME TokenTyped, TokenTyped', RateHolds, \A s \in BucketStores : StoreKept(s)',
           tick' \in tick..(tick + 1),
           \A s \in BucketStores, t \in 0..MaxTicks : t < tick' => granted'[s][t] = granted[s][t]
    PROVE  RateHolds'
<1> SUFFICES ASSUME NEW s \in BucketStores, NEW from \in 0..tick', NEW to \in from..tick'
             PROVE  Unit * SumFunctionOnSet(granted'[s], from..to)
                      <= Capacity * Unit + (to - from) * PerTick
  BY DEF RateHolds
<1>1. tick \in Nat /\ tick' \in Nat /\ tick \in 0..MaxTicks /\ tick' \in 0..MaxTicks
  BY TokenConstants DEF TokenTyped
<1>2. CASE to = tick'
  <2>1. Unit * GrantedIn(s, from, tick)' + Refill(bucket[s])'
             <= Capacity * Unit + (tick' - from) * PerTick
    BY DEF StoreKept
  <2>2. (TokenTyped /\ StoreKept(s))' => Refill(bucket[s])' \in Nat
    <3>1. Refill(bucket[s])' = Least(Capacity * Unit, bucket'[s].parts + (tick' - bucket'[s].at) * PerTick)
      BY DEF Refill
    <3>2. /\ bucket'[s] \in [parts : Nat, at : Nat] /\ bucket'[s].at <= tick'
      BY DEF TokenTyped, StoreKept
    <3>3. bucket'[s].parts \in Nat /\ bucket'[s].at \in Nat
      BY <3>2
    <3> QED
      <4>1. PICK now \in Nat : now = tick'
        BY <1>1
      <4>2. PICK next \in Nat : next = now + 1
        OBVIOUS
      <4> QED
        BY <3>1, <3>2, <3>3, <4>1, <4>2, RefillFacts
  <2>3. PICK r \in Nat : r = Refill(bucket[s])'
    BY <2>2
  <2>4. SumFunctionOnSet(granted'[s], from..to) \in Int
    <3>1. IsFiniteSet(from..to)
      BY <1>1, FS_Interval
    <3>2. from..to \in SUBSET (0..MaxTicks) /\ granted'[s] \in [0..MaxTicks -> Int]
      BY <1>1, TokenConstants DEF TokenTyped
    <3> QED
      BY <3>1, <3>2, SumType
  <2>5. PICK x \in Int : x = Unit * SumFunctionOnSet(granted'[s], from..to)
    BY <2>4, TokenConstants
  <2>6. PICK y \in Int : y = Capacity * Unit + (to - from) * PerTick
    BY <1>1, TokenConstants
  <2>7. x + r <= y
    BY <1>2, <2>1, <2>3, <2>5, <2>6 DEF GrantedIn
  <2> QED
    BY <2>5, <2>6, <2>7
<1>3. CASE to # tick'
  <2>1. from \in 0..tick /\ to \in from..tick /\ to < tick'
    BY <1>1, <1>3
  <2>2. IsFiniteSet(from..to)
    BY <1>1, FS_Interval
  <2>3. \A x \in from..to : granted'[s][x] = granted[s][x]
    BY <1>1, <2>1, TokenConstants
  <2>4. SumFunctionOnSet(granted'[s], from..to) = SumFunctionOnSet(granted[s], from..to)
    BY <2>2, <2>3, SumSame
  <2> QED
    BY <2>1, <2>4 DEF RateHolds
<1> QED
  BY <1>2, <1>3

\* Taking tokens from a bucket, or being refused, keeps the budget.
LEMMA TakingKeepsBudget ==
    ASSUME BudgetKept, NEW s \in BucketStores, NEW count \in 1..MaxBatch, tick' = tick,
           bucket' = [bucket EXCEPT ![s] = After(@, count)],
           \/ TakeFrom(s, count)
           \/ granted' = granted /\ promised' = [promised EXCEPT ![s] = NoPromise]
    PROVE  BudgetKept'
<1> DEFINE all == Grants(bucket[s], count)
<1>1. TokenTyped /\ StoreKept(s)
  BY DEF BudgetKept
<1>2. /\ all \in Nat /\ After(bucket[s], count).parts \in Nat
      /\ After(bucket[s], count) = [parts |-> After(bucket[s], count).parts, at |-> tick]
      /\ all < count => Wait(bucket[s], count) \in Nat
  BY <1>1, TakeFacts
<1>3. tick \in Nat /\ tick \in 0..MaxTicks
  BY <1>1, TokenConstants DEF TokenTyped
<1>4. PICK g \in Nat : /\ g = 0 \/ g = all
                       /\ granted' = [granted EXCEPT ![s][tick] = @ + g]
  <2>1. CASE TakeFrom(s, count)
    BY <1>2, <2>1 DEF TakeFrom
  <2>2. CASE granted' = granted
    <3>1. granted[s][tick] + 0 = granted[s][tick]
      <4>1. granted[s][tick] \in Nat
        BY <1>1, <1>3 DEF TokenTyped
      <4> QED
        BY <4>1
    <3>2. granted = [granted EXCEPT ![s][tick] = @ + 0]
      BY <1>1, <1>3, <3>1 DEF TokenTyped
    <3> QED
      BY <2>2, <3>2
  <2> QED
    BY <2>1, <2>2
<1>5. \E p \in Int : /\ \/ p = NoPromise
                        \/ all < count /\ p = tick + Wait(bucket[s], count)
                     /\ promised' = [promised EXCEPT ![s] = p]
  <2> DEFINE back == tick + Wait(bucket[s], count)
  <2>1. NoPromise \in Int
    BY DEF NoPromise
  <2>2. all < count => back \in Int
    BY <1>2, <1>3
  <2>3. \/ promised' = [promised EXCEPT ![s] = NoPromise]
        \/ all < count /\ promised' = [promised EXCEPT ![s] = back]
    BY DEF TakeFrom
  <2> HIDE DEF back, all
  <2>4. CASE promised' = [promised EXCEPT ![s] = NoPromise]
    BY <2>1, <2>4, Zenon
  <2>5. CASE all < count /\ promised' = [promised EXCEPT ![s] = back]
    BY <2>2, <2>5, Zenon DEF back
  <2> QED
    BY <2>3, <2>4, <2>5
<1>6. PICK p \in Int : /\ \/ p = NoPromise
                          \/ all < count /\ p = tick + Wait(bucket[s], count)
                       /\ promised' = [promised EXCEPT ![s] = p]
  BY <1>5, Zenon
<1>7. TokenTyped'
  <2>1. After(bucket[s], count) \in [parts : Nat, at : Nat]
    BY <1>2, <1>3
  <2>2. bucket' \in [BucketStores -> [parts : Nat, at : Nat]]
    BY <1>1, <2>1 DEF TokenTyped
  <2>3. promised' \in [BucketStores -> Int]
    BY <1>1, <1>6 DEF TokenTyped
  <2>4. granted' \in [BucketStores -> [0..MaxTicks -> Nat]]
    <3>1. granted \in [BucketStores -> [0..MaxTicks -> Nat]]
      BY <1>1 DEF TokenTyped
    <3>2. granted[s] \in [0..MaxTicks -> Nat]
      BY <3>1
    <3>3. PICK h : h = [granted[s] EXCEPT ![tick] = @ + g]
      OBVIOUS
    <3>4. g \in Nat /\ tick <= tick
      BY <1>3
    <3>5. h \in [0..MaxTicks -> Nat]
      BY ONLY <1>3, <3>2, <3>3, <3>4, ClockSumGrows
    <3> QED
      BY <1>4, <3>1, <3>3, <3>5
  <2> QED
    BY <1>3, <2>2, <2>3, <2>4 DEF TokenTyped
<1>8. StoreKept(s)'
  <2>1. bucket'[s] = After(bucket[s], count)
    BY <1>1 DEF TokenTyped
  <2>2. granted'[s] = [granted[s] EXCEPT ![tick] = @ + g]
    BY <1>1, <1>4 DEF TokenTyped
  <2>3. promised'[s] = p
    BY <1>1, <1>6 DEF TokenTyped
  <2> QED
    BY <1>1, <1>4, <1>6, <1>7, <2>1, <2>2, <2>3, TakenStore
<1>9. ASSUME NEW q \in BucketStores, q # s
      PROVE  StoreKept(q)'
  <2>1. bucket'[q] = bucket[q]
    BY <1>1, <1>9 DEF TokenTyped
  <2>2. granted'[q] = granted[q]
    BY <1>1, <1>4, <1>9 DEF TokenTyped
  <2>3. promised'[q] = promised[q]
    BY <1>1, <1>5, <1>9 DEF TokenTyped
  <2>4. StoreKept(q)
    BY DEF BudgetKept
  <2> QED
    BY <2>1, <2>2, <2>3, <2>4, UntouchedStore
<1>10. \A q \in BucketStores : StoreKept(q)'
  BY <1>8, <1>9
<1>11. RateHolds'
  <2>1. \A q \in BucketStores, t \in 0..MaxTicks : t < tick' => granted'[q][t] = granted[q][t]
    BY <1>1, <1>3, <1>4 DEF TokenTyped
  <2>2. tick' \in tick..(tick + 1)
    BY <1>3
  <2> QED
    BY <1>1, <1>7, <1>10, <2>1, <2>2, SpansKept DEF BudgetKept
<1> QED
  BY <1>7, <1>10, <1>11 DEF BudgetKept

\* Full buckets that granted nothing keep the budget.
LEMMA TokenInitKept == TokenInit => BudgetKept
<1> SUFFICES ASSUME TokenInit
             PROVE  BudgetKept
  OBVIOUS
<1> DEFINE full == Capacity * Unit
<1>1. full \in Nat
  BY TokenConstants
<1>2. 0 \in 0..MaxTicks /\ NoPromise \in Int /\ tick = 0
  BY TokenConstants DEF NoPromise, TokenInit
<1>3. TokenTyped
  <2>1. [parts |-> full, at |-> 0] \in [parts : Nat, at : Nat]
    BY <1>1
  <2>2. bucket \in [BucketStores -> [parts : Nat, at : Nat]]
    BY <2>1 DEF TokenInit
  <2> QED
    BY <1>2, <2>2 DEF TokenInit, TokenTyped
<1>4. ASSUME NEW s \in BucketStores
      PROVE  StoreKept(s) /\ SumFunctionOnSet(granted[s], 0..0) = 0
  <2>1. bucket[s] = [parts |-> full, at |-> 0] /\ promised[s] = NoPromise
    BY DEF TokenInit
  <2>2. \A t \in 0..MaxTicks : granted[s][t] = 0
    BY DEF TokenInit
  <2>3. SumFunctionOnSet(granted[s], 0..0) = 0
    <3>1. granted[s] \in [0..MaxTicks -> Nat] /\ 0 \in Nat /\ 0 <= 0
      BY <1>3 DEF TokenTyped
    <3> QED
      BY <1>2, <2>2, <3>1, ClockSum
  <2>4. Refill(bucket[s]) = full
    <3>1. (0 - 0) * PerTick = 0
      BY TokenConstants
    <3>2. Least(full, full + 0) = full
      BY <1>1 DEF Least
    <3> QED
      BY <1>2, <2>1, <3>1, <3>2 DEF Refill
  <2>5. \A from \in 0..tick :
          Unit * GrantedIn(s, from, tick) + Refill(bucket[s])
             <= Capacity * Unit + (tick - from) * PerTick
    <3>1. Unit * 0 = 0 /\ (0 - 0) * PerTick = 0
      BY TokenConstants
    <3>2. GrantedIn(s, 0, 0) = 0
      BY <2>3 DEF GrantedIn
    <3>3. Unit * GrantedIn(s, 0, 0) + full <= full + (0 - 0) * PerTick
      BY <1>1, <3>1, <3>2
    <3>4. \A from \in 0..tick : from = 0
      BY <1>2
    <3> QED
      BY <1>2, <2>4, <3>3, <3>4
  <2>6. bucket[s].at <= tick /\ bucket[s].parts <= full
    BY <1>1, <1>2, <2>1
  <2> QED
    BY <2>1, <2>2, <2>3, <2>5, <2>6 DEF StoreKept
<1>5. RateHolds
  <2> SUFFICES ASSUME NEW s \in BucketStores
               PROVE  Unit * SumFunctionOnSet(granted[s], 0..0) <= full + (0 - 0) * PerTick
    <3>1. \A from \in 0..tick : from = 0 /\ \A to \in from..tick : to = 0
      BY <1>2
    <3> QED
      BY <3>1 DEF RateHolds
  <2>1. Unit * 0 = 0 /\ (0 - 0) * PerTick = 0
    BY TokenConstants
  <2> QED
    BY <1>1, <1>4, <2>1
<1> QED
  BY <1>3, <1>4, <1>5 DEF BudgetKept

\* Every step of the buckets keeps the budget.
LEMMA TokenStepsKept == BudgetKept /\ [TokenNext]_tokenVars => BudgetKept'
<1> SUFFICES ASSUME BudgetKept, [TokenNext]_tokenVars
             PROVE  BudgetKept'
  OBVIOUS
<1>1. "redis" \in BucketStores /\ Senders \in SUBSET BucketStores
  BY DEF BucketStores
<1>2. ASSUME NEW count \in 1..MaxBatch, TakeShared(count)
      PROVE  BudgetKept'
  <2>1. /\ tick' = tick /\ TakeFrom("redis", count)
        /\ bucket' = [bucket EXCEPT !["redis"] = After(@, count)]
    BY <1>2 DEF TakeShared
  <2> QED
    BY <1>1, <2>1, TakingKeepsBudget
<1>3. ASSUME NEW count \in 1..MaxBatch, TakeUnanswered(count)
      PROVE  BudgetKept'
  <2>1. /\ tick' = tick /\ granted' = granted
        /\ promised' = [promised EXCEPT !["redis"] = NoPromise]
        /\ bucket' = [bucket EXCEPT !["redis"] = After(@, count)]
    BY <1>3 DEF TakeUnanswered
  <2> QED
    BY <1>1, <2>1, TakingKeepsBudget
<1>4. ASSUME NEW count \in 1..MaxBatch, NEW r \in Senders, TakeLocal(r, count)
      PROVE  BudgetKept'
  <2>1. /\ tick' = tick /\ TakeFrom(r, count)
        /\ bucket' = [bucket EXCEPT ![r] = After(@, count)]
    BY <1>4 DEF TakeLocal
  <2> QED
    BY <1>1, <2>1, TakingKeepsBudget
<1>5. CASE BucketTick
  <2>1. TokenTyped /\ tick \in Nat
    BY TokenConstants DEF BudgetKept, TokenTyped
  <2>2. /\ tick' = tick + 1 /\ tick < MaxTicks
        /\ UNCHANGED <<bucket, promised, granted>>
    BY <1>5 DEF BucketTick
  <2>3. TokenTyped'
    <3>1. tick' \in 0..MaxTicks
      BY <2>1, <2>2, TokenConstants
    <3> QED
      BY <2>1, <2>2, <3>1 DEF TokenTyped
  <2>4. \A s \in BucketStores : StoreKept(s)'
    BY <1>5, <2>1, <2>3, TickedStore DEF BudgetKept
  <2>5. tick' \in tick..(tick + 1)
    BY <2>1, <2>2
  <2>6. RateHolds'
    BY <2>1, <2>2, <2>3, <2>4, <2>5, SpansKept DEF BudgetKept
  <2> QED
    BY <2>3, <2>4, <2>6 DEF BudgetKept
<1>6. CASE UNCHANGED tokenVars
  <2>1. UNCHANGED <<tick, bucket, promised, granted>>
    BY <1>6 DEF tokenVars
  <2>2. TokenTyped' /\ RateHolds'
    BY <2>1 DEF BudgetKept, TokenTyped, RateHolds
  <2>3. \A s \in BucketStores : StoreKept(s)'
    BY <2>1, UntouchedStore DEF BudgetKept
  <2> QED
    BY <2>2, <2>3 DEF BudgetKept
<1> QED
  BY <1>2, <1>3, <1>4, <1>5, <1>6 DEF TokenNext

\* A wait that is over finds a whole token.
LEMMA PromisesAreKept == BudgetKept => BudgetIsKept
<1> SUFFICES ASSUME BudgetKept, NEW s \in BucketStores,
                    promised[s] # NoPromise, tick >= promised[s]
             PROVE  Refill(bucket[s]) >= Unit
  BY DEF BudgetKept, BudgetIsKept, WaitIsEnough
<1> DEFINE b == bucket[s]
<1>1. /\ b \in [parts : Nat, at : Nat] /\ promised[s] \in Int /\ tick \in Nat
      /\ b.at <= promised[s] /\ Unit <= b.parts + (promised[s] - b.at) * PerTick
  BY TokenConstants DEF BudgetKept, TokenTyped, StoreKept
<1>2. b.parts \in Nat /\ b.at \in Nat
  BY <1>1
<1>3. (promised[s] - b.at) * PerTick <= (tick - b.at) * PerTick
      /\ (promised[s] - b.at) * PerTick \in Nat /\ (tick - b.at) * PerTick \in Nat
  <2>1. /\ promised[s] - b.at \in Nat /\ tick - b.at \in Nat
        /\ promised[s] - b.at <= tick - b.at
    BY <1>1, <1>2
  <2> QED
    BY <2>1, TimesKeepsOrder, TokenConstants
<1>4. Unit <= Capacity * Unit /\ Capacity * Unit \in Nat
  <2>1. 1 * Unit <= Capacity * Unit
    BY TokenConstants, TimesKeepsOrder
  <2> QED
    BY <2>1, TokenConstants
<1>5. PICK x \in Nat : x = (tick - b.at) * PerTick
  BY <1>3
<1>6. PICK y \in Nat : y = (promised[s] - b.at) * PerTick
  BY <1>3
<1>7. PICK full \in Nat : full = Capacity * Unit
  BY <1>4
<1>8. Unit <= b.parts + x
  BY <1>1, <1>2, <1>3, <1>5, <1>6, TokenConstants
<1>9. Refill(b) = Least(full, b.parts + x)
  BY <1>5, <1>7 DEF Refill
<1>10. PICK parts \in Nat : parts = b.parts
  BY <1>2
<1>11. Least(full, parts + x) >= Unit
  <2> HIDE DEF b
  <2> QED
    BY <1>4, <1>7, <1>8, <1>10, TokenConstants DEF Least
<1> QED
  BY <1>9, <1>10, <1>11

\* Whatever the capacity, the rate, the number of replicas and however often
\* Redis fails them, no store grants more in any span than its capacity and the
\* refill of that span, and a delivery told to wait finds a token when it comes
\* back (takeNow and waitMs of shared-tokens.ts, the script of redis-tokens.ts).
THEOREM BudgetStaysKept == TokenSpec => []BudgetIsKept
<1>1. TokenInit => BudgetKept
  BY TokenInitKept
<1>2. BudgetKept /\ [TokenNext]_tokenVars => BudgetKept'
  BY TokenStepsKept
<1>3. BudgetKept => BudgetIsKept
  BY PromisesAreKept
<1> QED
  BY <1>1, <1>2, <1>3, PTL DEF TokenSpec

-----------------------------------------------------------------------------
(* The TLS report job.                                                     *)

TlsRows == [wait : {"none", "due", "lease", "backoff"}, from : Nat, attempts : Nat,
            done : SUBSET Ruas]
TlsWorkers == [at : {"idle", "lookup", "next", "sending"}, report : Reports \cup {NoReport},
               rua : Ruas \cup {"none"}, on : TlsDays \cup {0}, met : Nat,
               done : SUBSET Ruas, failures : Nat, waiting : Nat, sent : SUBSET Ruas]
TlsRunRecords == [at : {"idle", "started", "delivering", "capping"},
                  halted : BOOLEAN, capped : BOOLEAN, late : BOOLEAN]

GoneFor == {"no", "dropped", "no record", "served", "expired"}

TlsTyped ==
    /\ today \in TlsDays
    /\ tlsRow \in [Reports -> TlsRows]
    /\ run \in [Jobs -> TlsRunRecords]
    /\ worker \in [JobWorkers -> TlsWorkers]
    /\ got \in [Reports \X Ruas -> Nat]
    /\ settled \in [Reports \X Ruas -> BOOLEAN]
    /\ tries \in [Reports -> Nat] /\ lost \in [Reports -> Nat]
    /\ gone \in [Reports -> GoneFor]

\* The slots of each day and destination.
SlotsTyped ==
    /\ daySends \in [TlsDays -> Nat]
    /\ destSends \in [TlsDays \X Destinations -> Nat]
    /\ taken \in [TlsDays \X Destinations -> Int]
    /\ strays \in [TlsDays \X Destinations -> Int]

\* The counters are within the caps, and every slot taken is counted or was
\* given back to another day.
DayKept(d) ==
    /\ daySends[d] <= PerDay
    /\ SlotsOn(taken, d) <= daySends[d] + SlotsOn(strays, d)
    /\ \A x \in Destinations :
          /\ destSends[<<d, x>>] <= PerDestination
          /\ taken[<<d, x>>] <= destSends[<<d, x>>] + strays[<<d, x>>]

\* What a worker sends from has a day and a listed address.
SendingKept(w) ==
    worker[w].at = "sending" => /\ worker[w].report \in Reports
                                /\ worker[w].rua \in Listed(worker[w].report)
                                /\ worker[w].on \in TlsDays

\* An address was served: it got the report or needs none.
ServedTo(r, u) == got[<<r, u>>] > 0 \/ settled[<<r, u>>]

\* What a worker has in hand.
HandKept(w) ==
    LET me == worker[w]
        r == me.report
    IN  /\ r = NoReport <=> me.at = "idle"
        /\ r # NoReport =>
             /\ tlsRow[r].wait \in {"lease", "none"}
             /\ me.sent \subseteq me.done /\ me.done \subseteq Listed(r)
             /\ \A u \in me.done : ServedTo(r, u)
             /\ \A u \in Listed(r) : got[<<r, u>>] <= lost[r] + One(u \in me.done)
             /\ me.at = "sending" => me.rua \notin me.done /\ me.rua = RuaOf[r][me.met]
             /\ me.failures = 0 /\ me.waiting = 0 =>
                  \A i \in 1..Len(RuaOf[r]) :
                      i <= me.met => \/ RuaOf[r][i] \in me.done
                                     \/ me.at = "sending" /\ i = me.met

\* u was sent the report by the worker that has it.
SentNow(r, u) == \E w \in JobWorkers : worker[w].report = r /\ u \in worker[w].sent

RowKept(r) ==
    /\ tlsRow[r].done \subseteq Listed(r)
    /\ \A u \in tlsRow[r].done : ServedTo(r, u)
    /\ ReportExists(r) =>
         /\ \A u \in Listed(r) : got[<<r, u>>] <= lost[r] + One(u \in tlsRow[r].done \/ SentNow(r, u))
         /\ tlsRow[r].attempts = tries[r] + One(Held(r))
    /\ \A u \in Listed(r) : got[<<r, u>>] <= 1 + lost[r]
    /\ gone[r] = "dropped" => tries[r] >= MaxTlsAttempts
    /\ gone[r] = "served" => \A u \in Listed(r) : ServedTo(r, u)

\* A report is in one worker's hands.
OneHand ==
    \A w \in JobWorkers, v \in JobWorkers :
        worker[w].report = worker[v].report /\ worker[w].report # NoReport => w = v

ReportsKept ==
    /\ TlsTyped
    /\ OneHand
    /\ \A w \in JobWorkers : SendingKept(w) /\ HandKept(w)
    /\ \A r \in Reports : RowKept(r)

CapsKept ==
    /\ SlotsTyped
    /\ \A d \in TlsDays : DayKept(d)

-----------------------------------------------------------------------------
\* The addresses a report lists are addresses.
LEMMA ListedAreRuas == \A r \in Reports : Listed(r) \subseteq Ruas
  BY DEF Ruas

\* A worker that has a report has it alone.
LEMMA HasItAlone ==
    ASSUME ReportsKept, NEW w \in JobWorkers, worker[w].report \in Reports
    PROVE  \A v \in JobWorkers \ {w} : worker[v].report # worker[w].report
  BY TlsConstants DEF ReportsKept, OneHand

\* Records, field by field.
LEMMA WorkerFields ==
    ASSUME NEW me \in TlsWorkers
    PROVE  /\ me.at \in {"idle", "lookup", "next", "sending"}
           /\ me.report \in Reports \cup {NoReport} /\ me.rua \in Ruas \cup {"none"}
           /\ me.on \in TlsDays \cup {0} /\ me.met \in Nat /\ me.done \in SUBSET Ruas
           /\ me.failures \in Nat /\ me.waiting \in Nat /\ me.sent \in SUBSET Ruas
  BY DEF TlsWorkers

\* The fields of a report's row.
LEMMA RowFields ==
    ASSUME NEW rec \in TlsRows
    PROVE  /\ rec.wait \in {"none", "due", "lease", "backoff"} /\ rec.from \in Nat
           /\ rec.attempts \in Nat /\ rec.done \in SUBSET Ruas
  BY DEF TlsRows

\* An idle worker holds no report.
LEMMA IdleFields ==
    /\ IdleWorker \in TlsWorkers
    /\ IdleWorker.at = "idle" /\ IdleWorker.report = NoReport /\ IdleWorker.sent = {}
  BY DEF IdleWorker, TlsWorkers

\* A worker whose report nobody touched.
LEMMA OtherHand ==
    ASSUME NEW v \in JobWorkers, SendingKept(v), HandKept(v), worker'[v] = worker[v],
           worker[v].report \in Reports \cup {NoReport},
           \A q \in Reports : q = worker[v].report =>
               /\ tlsRow'[q] = tlsRow[q] /\ lost'[q] = lost[q]
               /\ \A u \in Ruas : got'[<<q, u>>] = got[<<q, u>>] /\ settled'[<<q, u>>] = settled[<<q, u>>]
    PROVE  SendingKept(v)' /\ HandKept(v)'
<1>1. SendingKept(v)'
  BY DEF SendingKept
<1>2. CASE worker[v].report = NoReport
  <2>1. worker[v].at = "idle"
    BY <1>2 DEF HandKept
  <2> QED
    BY <1>1, <1>2, <2>1 DEF HandKept
<1>3. CASE worker[v].report # NoReport
  <2> DEFINE me == worker[v]
             r == me.report
  <2>1. r \in Reports /\ r # NoReport
    BY <1>3
  <2>2. /\ tlsRow'[r] = tlsRow[r] /\ lost'[r] = lost[r] /\ worker'[v] = me
        /\ \A u \in Listed(r) : got'[<<r, u>>] = got[<<r, u>>] /\ settled'[<<r, u>>] = settled[<<r, u>>]
    BY <2>1, ListedAreRuas
  <2>3. /\ me.at # "idle"
        /\ tlsRow[r].wait \in {"lease", "none"}
        /\ me.sent \subseteq me.done /\ me.done \subseteq Listed(r)
        /\ \A u \in me.done : ServedTo(r, u)
        /\ \A u \in Listed(r) : got[<<r, u>>] <= lost[r] + One(u \in me.done)
        /\ me.at = "sending" => me.rua \notin me.done /\ me.rua = RuaOf[r][me.met]
        /\ me.failures = 0 /\ me.waiting = 0 =>
             \A i \in 1..Len(RuaOf[r]) :
                 i <= me.met => \/ RuaOf[r][i] \in me.done
                                \/ me.at = "sending" /\ i = me.met
    BY <2>1 DEF HandKept
  <2>4. \A u \in me.done : ServedTo(r, u)'
    BY <2>2, <2>3 DEF ServedTo
  <2> HIDE DEF me
  <2> QED
    BY <1>1, <2>1, <2>2, <2>3, <2>4 DEF HandKept, me
<1> QED
  BY <1>2, <1>3

\* A report nobody touched.
LEMMA OtherRow ==
    ASSUME NEW q \in Reports, RowKept(q), tlsRow'[q] = tlsRow[q], lost'[q] = lost[q],
           tries'[q] = tries[q], gone'[q] = gone[q],
           \A u \in Ruas : got'[<<q, u>>] = got[<<q, u>>] /\ settled'[<<q, u>>] = settled[<<q, u>>],
           Held(q)' <=> Held(q), \A u \in Ruas : SentNow(q, u)' <=> SentNow(q, u)
    PROVE  RowKept(q)'
<1>1. \A u \in Listed(q) : /\ u \in Ruas /\ got'[<<q, u>>] = got[<<q, u>>]
                           /\ settled'[<<q, u>>] = settled[<<q, u>>]
                           /\ SentNow(q, u)' <=> SentNow(q, u)
                           /\ ServedTo(q, u)' <=> ServedTo(q, u)
  BY ListedAreRuas DEF ServedTo
<1>2. One(Held(q))' = One(Held(q))
  BY DEF One
<1>3. \A u \in Listed(q) : One(u \in tlsRow[q].done \/ SentNow(q, u))'
                             = One(u \in tlsRow[q].done \/ SentNow(q, u))
  BY <1>1 DEF One
<1>4. ReportExists(q)' <=> ReportExists(q)
  BY DEF ReportExists
<1>5. tlsRow[q].done \subseteq Listed(q)
  BY DEF RowKept
<1>6. \A u \in tlsRow[q].done : ServedTo(q, u)'
  BY <1>1, <1>5 DEF RowKept
<1>7. (ReportExists(q) =>
         /\ \A u \in Listed(q) : got[<<q, u>>] <= lost[q] + One(u \in tlsRow[q].done \/ SentNow(q, u))
         /\ tlsRow[q].attempts = tries[q] + One(Held(q)))'
  BY <1>1, <1>2, <1>3, <1>4 DEF RowKept
<1>8. (\A u \in Listed(q) : got[<<q, u>>] <= 1 + lost[q])'
  BY <1>1 DEF RowKept
<1>9. (gone[q] = "dropped" => tries[q] >= MaxTlsAttempts)'
  BY DEF RowKept
<1>10. (gone[q] = "served" => \A u \in Listed(q) : ServedTo(q, u))'
  BY <1>1 DEF RowKept
<1> QED
  BY <1>5, <1>6, <1>7, <1>8, <1>9, <1>10 DEF RowKept

\* A step of one worker on one report.
LEMMA TouchesOne ==
    ASSUME ReportsKept, TlsTyped', NEW w \in JobWorkers, NEW r \in Reports,
           \A v \in JobWorkers \ {w} : worker'[v] = worker[v] /\ worker[v].report # r,
           worker[w].report \in {r, NoReport}, worker'[w].report \in {r, NoReport},
           \A q \in Reports \ {r} :
               /\ tlsRow'[q] = tlsRow[q] /\ lost'[q] = lost[q]
               /\ tries'[q] = tries[q] /\ gone'[q] = gone[q]
               /\ \A u \in Ruas : got'[<<q, u>>] = got[<<q, u>>] /\ settled'[<<q, u>>] = settled[<<q, u>>],
           SendingKept(w)', HandKept(w)', RowKept(r)'
    PROVE  ReportsKept'
<1>1. \A v \in JobWorkers : worker[v].report \in Reports \cup {NoReport}
  BY WorkerFields DEF ReportsKept, TlsTyped
<1>2. ASSUME NEW v \in JobWorkers \ {w}
      PROVE  SendingKept(v)' /\ HandKept(v)'
  BY <1>1, OtherHand DEF ReportsKept
<1>3. ASSUME NEW q \in Reports \ {r}
      PROVE  RowKept(q)'
  <2>1. q # r /\ q # NoReport /\ q \in Reports
    BY TlsConstants
  <2>2. \A v \in JobWorkers : worker'[v].report = q <=> worker[v].report = q
    BY <2>1
  <2>3. \A v \in JobWorkers : worker[v].report = q => worker'[v] = worker[v]
    BY <2>1
  <2>4. Held(q)' <=> Held(q)
    BY <2>2 DEF Held
  <2>5. \A u \in Ruas : SentNow(q, u)' <=> SentNow(q, u)
    BY <2>2, <2>3 DEF SentNow
  <2>6. RowKept(q)
    BY DEF ReportsKept
  <2> QED
    BY <2>1, <2>4, <2>5, <2>6, OtherRow
<1>4. OneHand'
  <2> SUFFICES ASSUME NEW a \in JobWorkers, NEW b \in JobWorkers,
                      worker'[a].report = worker'[b].report, worker'[a].report # NoReport
               PROVE  a = b
    BY DEF OneHand
  <2> QED
    BY DEF ReportsKept, OneHand
<1> QED
  BY <1>2, <1>3, <1>4 DEF ReportsKept

\* The worker goes on with its report: its row stays, deliveries only add up.
LEMMA GoesOn ==
    ASSUME ReportsKept, TlsTyped', NEW w \in JobWorkers, NEW r \in Reports,
           worker[w].report = r, worker'[w].report = r,
           \A v \in JobWorkers \ {w} : worker'[v] = worker[v],
           UNCHANGED <<tlsRow, lost, tries, gone>>,
           \A q \in Reports \ {r}, u \in Ruas : got'[<<q, u>>] = got[<<q, u>>] /\ settled'[<<q, u>>] = settled[<<q, u>>],
           SendingKept(w)', HandKept(w)', worker[w].sent \subseteq worker'[w].sent,
           \A u \in Ruas : /\ got'[<<r, u>>] = got[<<r, u>>] \/ u \in worker'[w].sent
                           /\ ServedTo(r, u) => ServedTo(r, u)'
    PROVE  ReportsKept'
<1>1. \A v \in JobWorkers \ {w} : worker[v].report # r
  BY HasItAlone
<1>2. RowKept(r)
  BY DEF ReportsKept
<1>3. /\ lost[r] \in Nat /\ r # NoReport
      /\ \A u \in Listed(r) : u \in Ruas /\ got[<<r, u>>] \in Nat /\ got'[<<r, u>>] \in Nat
  BY ListedAreRuas, TlsConstants DEF ReportsKept, TlsTyped
<1>4. /\ worker'[w].sent \subseteq worker'[w].done
      /\ \A u \in Listed(r) : got'[<<r, u>>] <= lost[r] + One(u \in worker'[w].done)
  BY <1>3 DEF HandKept
<1>5. \A u \in Listed(r) : got'[<<r, u>>] <= 1 + lost[r]
  BY <1>3, <1>4 DEF One
<1>6. Held(r)' /\ Held(r)
  BY DEF Held
<1>7. \A u \in Listed(r) : /\ SentNow(r, u) <=> u \in worker[w].sent
                           /\ SentNow(r, u)' <=> u \in worker'[w].sent
  BY <1>1 DEF SentNow
<1>8. ReportExists(r) => \A u \in Listed(r) :
         got'[<<r, u>>] <= lost[r] + One(u \in tlsRow[r].done \/ SentNow(r, u)')
  <2> SUFFICES ASSUME ReportExists(r), NEW u \in Listed(r)
               PROVE  got'[<<r, u>>] <= lost[r] + One(u \in tlsRow[r].done \/ SentNow(r, u)')
    OBVIOUS
  <2>1. CASE u \in worker'[w].sent
    <3>1. One(u \in tlsRow[r].done \/ SentNow(r, u)') = 1
      BY <1>7, <2>1 DEF One
    <3> QED
      BY <1>3, <1>5, <3>1
  <2>2. CASE u \notin worker'[w].sent
    <3>1. got'[<<r, u>>] = got[<<r, u>>]
      BY <1>3, <2>2
    <3>2. One(u \in tlsRow[r].done \/ SentNow(r, u)') = One(u \in tlsRow[r].done \/ SentNow(r, u))
      BY <1>7, <2>2 DEF One
    <3>3. got[<<r, u>>] <= lost[r] + One(u \in tlsRow[r].done \/ SentNow(r, u))
      BY <1>2 DEF RowKept
    <3> QED
      BY <3>1, <3>2, <3>3
  <2> QED
    BY <2>1, <2>2
<1>9. RowKept(r)'
  <2>1. tlsRow[r].done \subseteq Listed(r) /\ \A u \in tlsRow[r].done : ServedTo(r, u)'
    BY <1>2, <1>3 DEF RowKept
  <2>2. (ReportExists(r) =>
         /\ \A u \in Listed(r) : got[<<r, u>>] <= lost[r] + One(u \in tlsRow[r].done \/ SentNow(r, u))
         /\ tlsRow[r].attempts = tries[r] + One(Held(r)))'
    <3>1. One(Held(r)) = 1 /\ One(Held(r))' = 1
      BY <1>6 DEF One
    <3>2. ReportExists(r)' <=> ReportExists(r)
      BY DEF ReportExists
    <3>3. \A u \in Listed(r) : One(u \in tlsRow[r].done \/ SentNow(r, u))'
                                 = One(u \in tlsRow[r].done \/ SentNow(r, u)')
      BY DEF One
    <3> QED
      BY <1>2, <1>8, <3>1, <3>2, <3>3 DEF RowKept
  <2>3. (gone[r] = "dropped" => tries[r] >= MaxTlsAttempts)'
    BY <1>2 DEF RowKept
  <2>4. (gone[r] = "served" => \A u \in Listed(r) : ServedTo(r, u))'
    BY <1>2, <1>3 DEF RowKept
  <2> QED
    BY <1>5, <2>1, <2>2, <2>3, <2>4 DEF RowKept
<1> QED
  BY <1>1, <1>9, TouchesOne

\* The worker lets its report go: what its row is left with.
LEMMA LetsGo ==
    ASSUME ReportsKept, TlsTyped', NEW w \in JobWorkers, NEW r \in Reports,
           worker[w].report = r, LetGo(w), UNCHANGED <<got, settled>>,
           \A q \in Reports \ {r} : /\ tlsRow'[q] = tlsRow[q] /\ lost'[q] = lost[q]
                                    /\ tries'[q] = tries[q] /\ gone'[q] = gone[q],
           lost'[r] >= lost[r], tries'[r] >= tries[r],
           tlsRow'[r].done \subseteq worker[w].done \cup tlsRow[r].done,
           ReportExists(r)' =>
               /\ \A u \in Listed(r) : got[<<r, u>>] <= lost'[r] + One(u \in tlsRow'[r].done)
               /\ tlsRow'[r].attempts = tries'[r],
           gone'[r] = "dropped" => gone[r] = "dropped" \/ tries'[r] >= MaxTlsAttempts,
           gone'[r] = "served" => gone[r] = "served" \/ \A u \in Listed(r) : ServedTo(r, u)
    PROVE  ReportsKept'
<1>1. \A v \in JobWorkers \ {w} : worker[v].report # r
  BY HasItAlone
<1>2. RowKept(r) /\ HandKept(w)
  BY DEF ReportsKept
<1>3. /\ lost[r] \in Nat /\ lost'[r] \in Nat /\ tries[r] \in Nat /\ tries'[r] \in Nat
      /\ r # NoReport
      /\ \A u \in Listed(r) : u \in Ruas /\ got[<<r, u>>] \in Nat
  BY ListedAreRuas, TlsConstants DEF ReportsKept, TlsTyped
<1>4. worker'[w] = IdleWorker /\ \A v \in JobWorkers \ {w} : worker'[v] = worker[v]
  BY DEF LetGo, ReportsKept, TlsTyped
<1>5. SendingKept(w)' /\ HandKept(w)'
  BY <1>4, IdleFields DEF SendingKept, HandKept
<1>6. \A v \in JobWorkers : worker'[v].report # r
  BY <1>1, <1>3, <1>4, IdleFields
<1>7. ~Held(r)' /\ \A u \in Ruas : ~SentNow(r, u)'
  BY <1>6 DEF Held, SentNow
<1>8. \A u \in Listed(r) : ServedTo(r, u)' <=> ServedTo(r, u)
  BY DEF ServedTo
<1>9. RowKept(r)'
  <2>1. tlsRow'[r].done \subseteq Listed(r) /\ \A u \in tlsRow'[r].done : ServedTo(r, u)'
    BY <1>2, <1>3, <1>8 DEF RowKept, HandKept
  <2>2. (ReportExists(r) =>
         /\ \A u \in Listed(r) : got[<<r, u>>] <= lost[r] + One(u \in tlsRow[r].done \/ SentNow(r, u))
         /\ tlsRow[r].attempts = tries[r] + One(Held(r)))'
    <3>1. One(Held(r))' = 0 /\ tries'[r] + 0 = tries'[r]
      BY <1>3, <1>7 DEF One
    <3>2. \A u \in Listed(r) : One(u \in tlsRow[r].done \/ SentNow(r, u))'
                                 = One(u \in tlsRow'[r].done)
      BY <1>3, <1>7 DEF One
    <3> QED
      BY <3>1, <3>2
  <2>3. \A u \in Listed(r) : got'[<<r, u>>] <= 1 + lost'[r]
    BY <1>2, <1>3 DEF RowKept
  <2>4. gone'[r] = "dropped" => tries'[r] >= MaxTlsAttempts
    BY <1>2, <1>3, TlsConstants DEF RowKept
  <2>5. gone'[r] = "served" => \A u \in Listed(r) : ServedTo(r, u)'
    BY <1>2, <1>8 DEF RowKept
  <2> QED
    BY <2>1, <2>2, <2>3, <2>4, <2>5 DEF RowKept
<1> QED
  BY <1>1, <1>3, <1>4, <1>5, <1>9, IdleFields, TouchesOne

\* What holds of the worker and the row when a step begins.
LEMMA InHand ==
    ASSUME ReportsKept, NEW w \in JobWorkers, worker[w].at # "idle"
    PROVE  LET me == worker[w]
               r == me.report
           IN  /\ me \in TlsWorkers /\ r \in Reports /\ tlsRow[r] \in TlsRows
               /\ Held(r) /\ tries[r] \in Nat /\ lost[r] \in Nat
               /\ \A u \in Listed(r) : u \in Ruas /\ got[<<r, u>>] \in Nat
               /\ me.sent \subseteq me.done /\ me.done \subseteq Listed(r)
               /\ \A u \in me.done : ServedTo(r, u)
               /\ \A u \in Listed(r) : got[<<r, u>>] <= lost[r] + One(u \in me.done)
               /\ tlsRow[r].wait \in {"lease", "none"}
               /\ ReportExists(r) => tlsRow[r].attempts = tries[r] + 1
<1> DEFINE me == worker[w]
           r == me.report
<1>1. me \in TlsWorkers /\ HandKept(w)
  BY DEF ReportsKept, TlsTyped
<1>2. r \in Reports /\ r # NoReport
  BY <1>1, WorkerFields, TlsConstants DEF HandKept
<1>3. RowKept(r) /\ tlsRow[r] \in TlsRows /\ tries[r] \in Nat /\ lost[r] \in Nat
  BY <1>2 DEF ReportsKept, TlsTyped
<1>4. Held(r)
  BY DEF Held
<1>5. \A u \in Listed(r) : u \in Ruas /\ got[<<r, u>>] \in Nat
  BY <1>2, ListedAreRuas DEF ReportsKept, TlsTyped
<1>6. ReportExists(r) => tlsRow[r].attempts = tries[r] + 1
  BY <1>3, <1>4 DEF RowKept, One
<1>7. /\ me.sent \subseteq me.done /\ me.done \subseteq Listed(r)
      /\ \A u \in me.done : ServedTo(r, u)
      /\ \A u \in Listed(r) : got[<<r, u>>] <= lost[r] + One(u \in me.done)
      /\ tlsRow[r].wait \in {"lease", "none"}
  BY <1>1, <1>2 DEF HandKept
<1> QED
  BY <1>1, <1>2, <1>3, <1>4, <1>5, <1>6, <1>7

\* The rows that workers leave are rows.
LEMMA LeftRows ==
    ASSUME NEW old \in TlsRows, NEW done \in SUBSET Ruas, NEW day \in Nat
    PROVE  /\ GivenBack(old, "due", day, done) \in TlsRows
           /\ GivenBack(old, "due", day, done).wait = "due"
           /\ GivenBack(old, "due", day, done).done = done
           /\ old.attempts > 0 => GivenBack(old, "due", day, done).attempts = old.attempts - 1
           /\ Rescheduled(old, done) \in TlsRows
           /\ Rescheduled(old, done).wait = "backoff"
           /\ Rescheduled(old, done).done = done
           /\ Rescheduled(old, done).attempts = old.attempts
           /\ NoTlsReport \in TlsRows /\ NoTlsReport.wait = "none" /\ NoTlsReport.done = {}
           /\ old.attempts \in Nat
<1>1. old.attempts \in Nat
  BY DEF TlsRows
<1>2. Lower(old.attempts) \in Nat
      /\ (old.attempts > 0 => Lower(old.attempts) = old.attempts - 1)
  BY <1>1 DEF Lower
<1>3. /\ GivenBack(old, "due", day, done) \in TlsRows
      /\ GivenBack(old, "due", day, done).wait = "due"
      /\ GivenBack(old, "due", day, done).done = done
      /\ GivenBack(old, "due", day, done).attempts = Lower(old.attempts)
  BY <1>2 DEF GivenBack, TlsRows
<1>4. /\ Rescheduled(old, done) \in TlsRows
      /\ Rescheduled(old, done).wait = "backoff"
      /\ Rescheduled(old, done).done = done
      /\ Rescheduled(old, done).attempts = old.attempts
  BY DEF Rescheduled, TlsRows
<1>5. NoTlsReport \in TlsRows /\ NoTlsReport.wait = "none" /\ NoTlsReport.done = {}
  BY DEF NoTlsReport, TlsRows
<1> QED
  BY <1>1, <1>2, <1>3, <1>4, <1>5

\* deferReport, releaseReport: the row is due again with what was done.
LEMMA HandsBack ==
    ASSUME ReportsKept, NEW w \in JobWorkers, worker[w].at # "idle", NEW r, r = worker[w].report, NEW day \in Nat,
           Update(r, GivenBack(tlsRow[r], "due", day, worker[w].done)),
           LetGo(w), run' \in [Jobs -> TlsRunRecords], UNCHANGED <<today, ledger>>
    PROVE  ReportsKept'
<1> DEFINE me == worker[w]
           new == GivenBack(tlsRow[r], "due", day, me.done)
<1>1. /\ me \in TlsWorkers /\ r \in Reports /\ tlsRow[r] \in TlsRows
      /\ tries[r] \in Nat /\ lost[r] \in Nat
      /\ \A u \in Listed(r) : got[<<r, u>>] <= lost[r] + One(u \in me.done)
      /\ ReportExists(r) => tlsRow[r].attempts = tries[r] + 1
  BY InHand
<1>2. UNCHANGED <<got, settled, tries, lost, gone>>
  BY DEF ledger
<1>3. /\ new \in TlsRows /\ new.wait = "due" /\ new.done = me.done
      /\ tlsRow[r].attempts > 0 => new.attempts = tlsRow[r].attempts - 1
  <2>1. me.done \in SUBSET Ruas
    BY <1>1, WorkerFields
  <2>2. PICK old \in TlsRows : old = tlsRow[r]
    BY <1>1
  <2>3. PICK done \in SUBSET Ruas : done = me.done
    BY <2>1
  <2>4. /\ GivenBack(old, "due", day, done) \in TlsRows
        /\ GivenBack(old, "due", day, done).wait = "due"
        /\ GivenBack(old, "due", day, done).done = done
        /\ old.attempts > 0 => GivenBack(old, "due", day, done).attempts = old.attempts - 1
    BY LeftRows
  <2> QED
    BY <2>2, <2>3, <2>4
<1> HIDE DEF new
<1>4. /\ tlsRow' = IF ReportExists(r) THEN [tlsRow EXCEPT ![r] = new] ELSE tlsRow
      /\ worker' = [worker EXCEPT ![w] = IdleWorker]
  BY DEF Update, LetGo, new
<1>5. /\ tlsRow \in [Reports -> TlsRows] /\ worker \in [JobWorkers -> TlsWorkers]
  BY DEF ReportsKept, TlsTyped
<1>6. TlsTyped'
  <2>1. tlsRow' \in [Reports -> TlsRows]
    BY <1>1, <1>3, <1>4, <1>5
  <2>2. worker' \in [JobWorkers -> TlsWorkers]
    BY <1>4, <1>5, IdleFields
  <2> QED
    BY <1>2, <2>1, <2>2 DEF ReportsKept, TlsTyped
<1>7. \A q \in Reports \ {r} : tlsRow'[q] = tlsRow[q]
  BY <1>4, <1>5
<1>8. tlsRow'[r] = IF ReportExists(r) THEN new ELSE tlsRow[r]
  BY <1>1, <1>4, <1>5
<1>9. ReportExists(r)' => ReportExists(r)
  BY <1>8 DEF ReportExists
<1>10. ReportExists(r)' =>
         /\ \A u \in Listed(r) : got[<<r, u>>] <= lost'[r] + One(u \in tlsRow'[r].done)
         /\ tlsRow'[r].attempts = tries'[r]
  <2> SUFFICES ASSUME ReportExists(r)'
               PROVE  /\ \A u \in Listed(r) : got[<<r, u>>] <= lost[r] + One(u \in new.done)
                      /\ new.attempts = tries[r]
    BY <1>2, <1>8, <1>9
  <2>1. tlsRow[r].attempts = tries[r] + 1
    BY <1>1, <1>9
  <2> QED
    BY <1>1, <1>3, <2>1
<1>11. tlsRow'[r].done \subseteq me.done \cup tlsRow[r].done
  BY <1>3, <1>8
<1>12. lost'[r] >= lost[r] /\ tries'[r] >= tries[r] /\ gone'[r] = gone[r]
  BY <1>1, <1>2
<1> QED
  BY <1>1, <1>2, <1>6, <1>7, <1>10, <1>11, <1>12, LetsGo

\* removeReport: the row is deleted for a reason that is true of it.
LEMMA RemovesReport ==
    ASSUME ReportsKept, NEW w \in JobWorkers, worker[w].at # "idle",
           NEW r, r = worker[w].report, NEW why \in GoneFor,
           Remove(r, why), LetGo(w),
           tries' = tries \/ tries' = [tries EXCEPT ![r] = @ + 1],
           why = "dropped" /\ ReportExists(r)
             => tries'[r] >= MaxTlsAttempts,
           why = "served"
             => \A u \in Listed(r) : ServedTo(r, u),
           UNCHANGED <<today, run, got, settled, lost>>
    PROVE  ReportsKept'
<1> DEFINE me == worker[w]
<1>1. r \in Reports /\ tries[r] \in Nat /\ lost[r] \in Nat /\ tlsRow[r] \in TlsRows
  BY InHand
<1>2. /\ tlsRow \in [Reports -> TlsRows] /\ worker \in [JobWorkers -> TlsWorkers]
      /\ tries \in [Reports -> Nat] /\ gone \in [Reports -> GoneFor]
  BY DEF ReportsKept, TlsTyped
<1>3. NoTlsReport \in TlsRows /\ NoTlsReport.wait = "none" /\ NoTlsReport.done = {}
  BY <1>1, LeftRows DEF NoTlsReport, TlsRows
<1>4. /\ tlsRow' = [tlsRow EXCEPT ![r] = NoTlsReport]
      /\ gone' = IF ReportExists(r) THEN [gone EXCEPT ![r] = why] ELSE gone
      /\ worker' = [worker EXCEPT ![w] = IdleWorker]
  BY DEF Remove, LetGo
<1>5. TlsTyped'
  <2>1. tlsRow' \in [Reports -> TlsRows] /\ worker' \in [JobWorkers -> TlsWorkers]
    BY <1>2, <1>3, <1>4, IdleFields
  <2>2. tries' \in [Reports -> Nat]
    BY <1>1, <1>2
  <2>3. gone' \in [Reports -> GoneFor]
    BY <1>2, <1>4
  <2> QED
    BY <2>1, <2>2, <2>3 DEF ReportsKept, TlsTyped
<1>6. tlsRow'[r] = NoTlsReport /\ tries'[r] >= tries[r]
  BY <1>1, <1>2, <1>4
<1>7. ~ReportExists(r)'
  BY <1>3, <1>6 DEF ReportExists
<1>8. \A q \in Reports \ {r} : /\ tlsRow'[q] = tlsRow[q] /\ lost'[q] = lost[q]
                               /\ tries'[q] = tries[q] /\ gone'[q] = gone[q]
  BY <1>2, <1>4
<1>9. \/ gone'[r] = gone[r]
      \/ ReportExists(r) /\ gone'[r] = why
  BY <1>1, <1>2, <1>4
<1>10. tlsRow'[r].done \subseteq me.done \cup tlsRow[r].done /\ lost'[r] >= lost[r]
  BY <1>1, <1>3, <1>6
<1>11. /\ gone'[r] = "dropped" => gone[r] = "dropped" \/ tries'[r] >= MaxTlsAttempts
       /\ gone'[r] = "served" => gone[r] = "served" \/ \A u \in Listed(r) : ServedTo(r, u)
  BY <1>9
<1> QED
  BY <1>1, <1>5, <1>6, <1>7, <1>8, <1>10, <1>11, LetsGo

\* retryOrDrop: the attempt counts, and the last one drops the report.
LEMMA RetriesOrDrops ==
    ASSUME ReportsKept, NEW w \in JobWorkers, worker[w].at # "idle", NEW r, r = worker[w].report,
           RetryOrDrop(r, worker[w].done), LetGo(w), UNCHANGED <<today, run, got, settled, lost>>
    PROVE  ReportsKept'
<1> DEFINE me == worker[w]
           new == Rescheduled(tlsRow[r], me.done)
<1>1. /\ me \in TlsWorkers /\ r \in Reports /\ tlsRow[r] \in TlsRows
      /\ tries[r] \in Nat /\ lost[r] \in Nat
      /\ \A u \in Listed(r) : got[<<r, u>>] <= lost[r] + One(u \in me.done)
      /\ ReportExists(r) => tlsRow[r].attempts = tries[r] + 1
  BY InHand
<1>2. /\ tlsRow \in [Reports -> TlsRows] /\ worker \in [JobWorkers -> TlsWorkers]
      /\ tries \in [Reports -> Nat]
  BY DEF ReportsKept, TlsTyped
<1>3. tries' = [tries EXCEPT ![r] = @ + 1] /\ tries'[r] = tries[r] + 1
  BY <1>1, <1>2 DEF RetryOrDrop
<1>4. CASE tlsRow[r].attempts >= MaxTlsAttempts
  <2>1. Remove(r, "dropped") /\ "dropped" \in GoneFor
    BY <1>4 DEF RetryOrDrop, GoneFor
  <2>2. ReportExists(r) => tries'[r] >= MaxTlsAttempts
    BY <1>1, <1>3, <1>4
  <2> QED
    BY <1>3, <2>1, <2>2, RemovesReport
<1>5. CASE ~(tlsRow[r].attempts >= MaxTlsAttempts)
  <2>1. /\ tlsRow' = IF ReportExists(r) THEN [tlsRow EXCEPT ![r] = new] ELSE tlsRow
        /\ gone' = gone /\ worker' = [worker EXCEPT ![w] = IdleWorker]
    BY <1>5 DEF RetryOrDrop, Update, LetGo
  <2>2. /\ new \in TlsRows /\ new.wait = "backoff" /\ new.done = me.done
        /\ new.attempts = tlsRow[r].attempts
    <3>1. PICK old \in TlsRows : old = tlsRow[r]
      BY <1>1
    <3>2. PICK done \in SUBSET Ruas : done = me.done
      BY <1>1, WorkerFields
    <3>3. /\ Rescheduled(old, done) \in TlsRows
          /\ Rescheduled(old, done).wait = "backoff"
          /\ Rescheduled(old, done).done = done
          /\ Rescheduled(old, done).attempts = old.attempts
      BY LeftRows
    <3> QED
      BY <3>1, <3>2, <3>3
  <2> HIDE DEF new
  <2>3. TlsTyped'
    <3>1. tlsRow' \in [Reports -> TlsRows]
      BY <1>1, <1>2, <2>1, <2>2
    <3>2. worker' \in [JobWorkers -> TlsWorkers]
      BY <1>2, <2>1, IdleFields
    <3>3. tries' \in [Reports -> Nat]
      BY <1>1, <1>2, <1>3
    <3> QED
      BY <2>1, <3>1, <3>2, <3>3 DEF ReportsKept, TlsTyped
  <2>4. \A q \in Reports \ {r} : /\ tlsRow'[q] = tlsRow[q] /\ lost'[q] = lost[q]
                                 /\ tries'[q] = tries[q] /\ gone'[q] = gone[q]
    BY <1>2, <1>3, <2>1
  <2>5. tlsRow'[r] = IF ReportExists(r) THEN new ELSE tlsRow[r]
    BY <1>1, <1>2, <2>1
  <2>6. ReportExists(r)' => ReportExists(r)
    BY <2>5 DEF ReportExists
  <2>7. ReportExists(r)' =>
         /\ \A u \in Listed(r) : got[<<r, u>>] <= lost'[r] + One(u \in tlsRow'[r].done)
         /\ tlsRow'[r].attempts = tries'[r]
    BY <1>1, <1>3, <2>2, <2>5, <2>6
  <2>8. tlsRow'[r].done \subseteq me.done \cup tlsRow[r].done
    BY <2>2, <2>5
  <2>9. lost'[r] >= lost[r] /\ tries'[r] >= tries[r] /\ gone'[r] = gone[r]
    BY <1>1, <1>3, <2>1
  <2> QED
    BY <1>1, <2>3, <2>4, <2>7, <2>8, <2>9, LetsGo
<1> QED
  BY <1>4, <1>5

\* The address a worker comes to next.
LEMMA NextAddress ==
    ASSUME ReportsKept, NEW w \in JobWorkers, worker[w].at # "idle", RuasAhead(w) # {},
           NEW r, r = worker[w].report
    PROVE  LET i == Min(RuasAhead(w))
           IN  /\ i \in 1..Len(RuaOf[r]) /\ i \in Nat /\ Len(RuaOf[r]) \in Nat
               /\ NextRua(w) = RuaOf[r][i]
               /\ RuaOf[r][i] \notin worker[w].done /\ RuaOf[r][i] \in Listed(r)
               /\ \A j \in 1..Len(RuaOf[r]) :
                     worker[w].met < j /\ j < i => RuaOf[r][j] \in worker[w].done
<1> DEFINE i == Min(RuasAhead(w))
<1>1. worker[w] \in TlsWorkers /\ r \in Reports
  BY InHand
<1>2. RuaOf[r] \in Seq(Listed(r)) /\ worker[w].met \in Nat
  BY <1>1, TlsConstants, WorkerFields
<1>3. Len(RuaOf[r]) \in Nat
  BY <1>2
<1>4. RuasAhead(w) \in SUBSET Nat
  BY <1>3 DEF RuasAhead
<1>5. \E x \in RuasAhead(w) : \A y \in RuasAhead(w) : x <= y
  BY <1>4, LeastNatural
<1>6. i \in RuasAhead(w) /\ \A y \in RuasAhead(w) : i <= y
  BY <1>5 DEF Min
<1> HIDE DEF i
<1>7. i \in 1..Len(RuaOf[r]) /\ RuaOf[r][i] \notin worker[w].done
  BY <1>6 DEF RuasAhead
<1>8. RuaOf[r][i] \in Listed(r)
  BY <1>7 DEF Listed
<1>9. i \in Nat
  BY <1>4, <1>6
<1>10. ASSUME NEW j \in 1..Len(RuaOf[r]), worker[w].met < j, j < i
       PROVE  RuaOf[r][j] \in worker[w].done
  <2>1. j \notin RuasAhead(w)
    BY <1>3, <1>6, <1>9, <1>10
  <2> QED
    BY <1>2, <1>3, <1>10, <2>1 DEF RuasAhead
<1> QED
  BY <1>3, <1>7, <1>8, <1>9, <1>10 DEF i, NextRua

\* What the worker met so far, all of it done unless something failed or waits.
LEMMA MetSoFar ==
    ASSUME ReportsKept, NEW w \in JobWorkers, worker[w].at # "idle", NEW r, r = worker[w].report,
           worker[w].failures = 0, worker[w].waiting = 0
    PROVE  \A i \in 1..Len(RuaOf[r]) :
              i <= worker[w].met => \/ RuaOf[r][i] \in worker[w].done
                                    \/ worker[w].at = "sending" /\ i = worker[w].met
<1>1. HandKept(w) /\ r # NoReport
  BY InHand, TlsConstants DEF ReportsKept
<1> QED
  BY <1>1 DEF HandKept

\* Every address was met and none failed or waits: all were served.
LEMMA AllServed ==
    ASSUME ReportsKept, NEW w \in JobWorkers, worker[w].at = "next", NEW r, r = worker[w].report,
           RuasAhead(w) = {}, worker[w].failures = 0, worker[w].waiting = 0
    PROVE  \A u \in Listed(r) : ServedTo(r, u)
<1> SUFFICES ASSUME NEW u \in Listed(r)
             PROVE  ServedTo(r, u)
  OBVIOUS
<1>1. worker[w] \in TlsWorkers /\ r \in Reports /\ \A x \in worker[w].done : ServedTo(r, x)
  BY InHand
<1>2. PICK i \in 1..Len(RuaOf[r]) : u = RuaOf[r][i]
  BY DEF Listed
<1>3. RuaOf[r] \in Seq(Listed(r)) /\ worker[w].met \in Nat
  BY <1>1, TlsConstants, WorkerFields
<1>4. i \in Nat
  BY <1>2, <1>3
<1>5. CASE i <= worker[w].met
  BY <1>1, <1>2, <1>5, MetSoFar
<1>6. CASE ~(i <= worker[w].met)
  <2>1. i > worker[w].met
    BY <1>3, <1>4, <1>6
  <2>2. RuaOf[r][i] \in worker[w].done
    BY <2>1 DEF RuasAhead
  <2> QED
    BY <1>1, <1>2, <2>2
<1> QED
  BY <1>5, <1>6

-----------------------------------------------------------------------------
\* Looking up a domain's TLSRPT record keeps the reports accounted for.
LEMMA LookupKeeps ==
    ASSUME ReportsKept, NEW w \in JobWorkers, LookupRecord(w)
    PROVE  ReportsKept'
<1>1. PICK r : r = worker[w].report
  OBVIOUS
<1>2. worker[w].at = "lookup" /\ UNCHANGED <<today, run, got, settled, lost>>
  BY DEF LookupRecord
<1>3. worker[w] \in TlsWorkers /\ r \in Reports
  BY <1>1, <1>2, InHand
<1>4. CASE Remove(r, "no record") /\ LetGo(w) /\ UNCHANGED tries
  BY <1>1, <1>2, <1>4, RemovesReport DEF GoneFor
<1>5. CASE RetryOrDrop(r, worker[w].done) /\ LetGo(w)
  BY <1>1, <1>2, <1>5, RetriesOrDrops
<1>6. CASE /\ worker' = [worker EXCEPT ![w].at = "next"]
           /\ UNCHANGED <<tlsRow, gone, tries>>
  <2>1. worker \in [JobWorkers -> TlsWorkers]
    BY DEF ReportsKept, TlsTyped
  <2>2. PICK me \in TlsWorkers : me = worker[w]
    BY <1>3
  <2>3. worker'[w] = [me EXCEPT !.at = "next"] /\ \A v \in JobWorkers \ {w} : worker'[v] = worker[v]
    BY <1>6, <2>1, <2>2
  <2>4. /\ worker'[w] \in TlsWorkers /\ worker'[w].at = "next" /\ worker'[w].report = me.report
        /\ worker'[w].done = me.done /\ worker'[w].sent = me.sent /\ worker'[w].met = me.met
        /\ worker'[w].failures = me.failures /\ worker'[w].waiting = me.waiting
    BY <2>3 DEF TlsWorkers
  <2>5. worker' \in [JobWorkers -> TlsWorkers]
    BY <1>6, <2>1, <2>3, <2>4
  <2>6. TlsTyped'
    BY <1>2, <1>6, <2>5 DEF ReportsKept, TlsTyped
  <2>7. SendingKept(w)' /\ HandKept(w)'
    <3>1. SendingKept(w)'
      BY <2>4 DEF SendingKept
    <3>2. HandKept(w) /\ r # NoReport
      BY <1>3, TlsConstants DEF ReportsKept
    <3>3. \A u : ServedTo(r, u)' <=> ServedTo(r, u)
      BY <1>2 DEF ServedTo
    <3> QED
      BY <1>1, <1>2, <1>6, <2>2, <2>4, <3>1, <3>2, <3>3 DEF HandKept
  <2>8. \A u : ServedTo(r, u)' <=> ServedTo(r, u)
    BY <1>2 DEF ServedTo
  <2> QED
    BY <1>1, <1>2, <1>3, <1>6, <2>2, <2>3, <2>4, <2>6, <2>7, <2>8, GoesOn
<1> QED
  BY <1>1, <1>4, <1>5, <1>6 DEF LookupRecord

\* Releasing a claimed report keeps the reports accounted for.
LEMMA ReleaseKeeps ==
    ASSUME ReportsKept, NEW w \in JobWorkers, ReleaseReport(w)
    PROVE  ReportsKept'
<1>1. PICK r : r = worker[w].report
  OBVIOUS
<1>2. /\ worker[w].at = "next" /\ LetGo(w)
      /\ Update(r, GivenBack(tlsRow[r], "due", 1, worker[w].done))
      /\ run' = [run EXCEPT ![JobOf[w]].halted = TRUE]
      /\ UNCHANGED <<today, ledger>>
  BY <1>1 DEF ReleaseReport
<1>3. run' \in [Jobs -> TlsRunRecords]
  BY <1>2, TlsConstants DEF ReportsKept, TlsTyped, TlsRunRecords
<1> QED
  BY <1>1, <1>2, <1>3, HandsBack

\* The next address is settled, waits for a slot, or is sent to.
Passes(w, me, r) ==
    \/ /\ me.at = "next" /\ me.done = worker[w].done \cup {NextRua(w)}
       /\ settled' = [settled EXCEPT ![<<r, NextRua(w)>>] = TRUE]
       /\ me.failures = worker[w].failures /\ me.waiting = worker[w].waiting
    \/ /\ me.at = "next" /\ me.done = worker[w].done /\ me.waiting = worker[w].waiting + 1
       /\ settled' = settled
    \/ /\ me.at = "sending" /\ me.done = worker[w].done /\ me.rua = NextRua(w)
       /\ me.on \in TlsDays /\ settled' = settled
       /\ me.failures = worker[w].failures /\ me.waiting = worker[w].waiting

\* The worker goes on to a next address without an answer to wait for.
LEMMA PassesKeep ==
    ASSUME ReportsKept, NEW w \in JobWorkers, NEW r, r = worker[w].report,
           worker[w].at = "next", RuasAhead(w) # {}, TlsTyped',
           NEW me, me = worker'[w], me \in TlsWorkers, me.report = r, me.met = Min(RuasAhead(w)),
           me.sent = worker[w].sent,
           Passes(w, me, r),
           \A v \in JobWorkers \ {w} : worker'[v] = worker[v],
           UNCHANGED <<tlsRow, got, tries, lost, gone>>
    PROVE  ReportsKept'
<1> USE DEF Passes
<1>1. PICK i \in Nat :
         /\ i = me.met /\ i \in 1..Len(RuaOf[r]) /\ Len(RuaOf[r]) \in Nat
         /\ NextRua(w) = RuaOf[r][i]
         /\ RuaOf[r][i] \notin worker[w].done /\ RuaOf[r][i] \in Listed(r)
         /\ \A j \in 1..Len(RuaOf[r]) :
               worker[w].met < j /\ j < i => RuaOf[r][j] \in worker[w].done
  BY NextAddress
<1>2. /\ worker[w] \in TlsWorkers /\ r \in Reports /\ lost[r] \in Nat
      /\ \A u \in Listed(r) : u \in Ruas /\ got[<<r, u>>] \in Nat
      /\ worker[w].sent \subseteq worker[w].done /\ worker[w].done \subseteq Listed(r)
      /\ \A u \in worker[w].done : ServedTo(r, u)
      /\ \A u \in Listed(r) : got[<<r, u>>] <= lost[r] + One(u \in worker[w].done)
      /\ tlsRow[r].wait \in {"lease", "none"}
  BY InHand
<1>3. PICK x : x = RuaOf[r][i]
  OBVIOUS
<1>4. settled \in [Reports \X Ruas -> BOOLEAN] /\ x \in Ruas /\ x \in Listed(r)
  BY <1>1, <1>2, <1>3 DEF ReportsKept, TlsTyped
<1>5. \A q \in Reports, u \in Ruas : q # r => settled'[<<q, u>>] = settled[<<q, u>>]
  BY <1>1, <1>2, <1>3, <1>4
<1>6. \A u \in Ruas : ServedTo(r, u) => ServedTo(r, u)'
  BY <1>1, <1>2, <1>3, <1>4 DEF ServedTo
<1>7. me.done = worker[w].done \cup {x} => ServedTo(r, x)'
  <2>1. CASE settled' = [settled EXCEPT ![<<r, NextRua(w)>>] = TRUE]
    BY <1>1, <1>2, <1>3, <1>4, <2>1 DEF ServedTo
  <2>2. CASE me.done = worker[w].done
    BY <1>1, <1>3, <2>2
  <2> QED
    BY <2>1, <2>2
<1>8. /\ \/ me.done = worker[w].done \/ me.done = worker[w].done \cup {x}
      /\ me.at \in {"next", "sending"}
      /\ me.at = "sending" => me.done = worker[w].done /\ me.rua = x /\ me.on \in TlsDays
  BY <1>1, <1>3
<1>9. SendingKept(w)'
  BY <1>2, <1>4, <1>8 DEF SendingKept
<1>10. \A j \in 1..Len(RuaOf[r]) : j \in Nat
  BY <1>1
<1>11. ASSUME me.failures = 0, me.waiting = 0, NEW j \in 1..Len(RuaOf[r]), j <= i
       PROVE  \/ RuaOf[r][j] \in me.done
              \/ me.at = "sending" /\ j = i
  <2>1. worker[w].met \in Nat /\ worker[w].waiting \in Nat /\ worker[w].failures \in Nat
    BY <1>2, WorkerFields
  <2>2. me.waiting # worker[w].waiting + 1
    BY <1>11, <2>1
  <2>3. /\ worker[w].failures = 0 /\ worker[w].waiting = 0
        /\ me.at = "sending" \/ me.done = worker[w].done \cup {x}
    BY <1>1, <1>3, <1>11, <2>2
  <2>4. CASE j = i
    BY <1>3, <2>3, <2>4
  <2>5. CASE j # i
    <3>1. RuaOf[r][j] \in worker[w].done
      BY <1>1, <1>10, <1>11, <2>1, <2>3, <2>5, MetSoFar
    <3> QED
      BY <1>8, <3>1
  <2> QED
    BY <2>4, <2>5
<1>12. HandKept(w)'
  <2>1. r # NoReport /\ me.at # "idle" /\ tlsRow'[r].wait \in {"lease", "none"}
    BY <1>2, <1>8, TlsConstants
  <2>2. me.sent \subseteq me.done /\ me.done \subseteq Listed(r)
    BY <1>2, <1>4, <1>8
  <2>3. \A u \in me.done : ServedTo(r, u)'
    BY <1>2, <1>6, <1>7, <1>8
  <2>4. \A u \in Listed(r) : got'[<<r, u>>] <= lost'[r] + One(u \in me.done)
    BY <1>2, <1>8 DEF One
  <2>5. me.at = "sending" => me.rua \notin me.done /\ me.rua = RuaOf[r][me.met]
    BY <1>1, <1>3, <1>8
  <2>6. me.failures = 0 /\ me.waiting = 0 =>
           \A j \in 1..Len(RuaOf[r]) :
               j <= me.met => \/ RuaOf[r][j] \in me.done
                              \/ me.at = "sending" /\ j = me.met
    BY <1>1, <1>11
  <2> QED
    BY <2>1, <2>2, <2>3, <2>4, <2>5, <2>6 DEF HandKept
<1> QED
  BY <1>2, <1>5, <1>6, <1>9, <1>12, GoesOn

\* One worker's record changes.
LEMMA SuppressedKeeps ==
    ASSUME ReportsKept, NEW w \in JobWorkers, SkipSuppressed(w)
    PROVE  ReportsKept'
<1>1. PICK r : r = worker[w].report
  OBVIOUS
<1>2. /\ worker[w].at = "next" /\ RuasAhead(w) # {}
      /\ worker' = [worker EXCEPT ![w].met = Min(RuasAhead(w)), ![w].done = @ \cup {NextRua(w)}]
      /\ settled' = [settled EXCEPT ![<<r, NextRua(w)>>] = TRUE]
      /\ UNCHANGED <<today, tlsRow, run, got, tries, lost, gone>>
  BY <1>1 DEF SkipSuppressed
<1>3. PICK old \in TlsWorkers : old = worker[w] /\ r \in Reports
  BY <1>1, <1>2, InHand
<1>4. PICK i \in Nat : i = Min(RuasAhead(w)) /\ NextRua(w) = RuaOf[r][i] /\ RuaOf[r][i] \in Listed(r)
  BY <1>1, <1>2, NextAddress
<1>5. PICK x \in Ruas : x = NextRua(w)
  BY <1>3, <1>4, ListedAreRuas
<1>6. worker \in [JobWorkers -> TlsWorkers] /\ settled \in [Reports \X Ruas -> BOOLEAN]
  BY DEF ReportsKept, TlsTyped
<1>65. PICK dn \in SUBSET Ruas : dn = old.done \cup {x}
  BY WorkerFields
<1>7. /\ worker'[w] = [old EXCEPT !.met = i, !.done = dn]
      /\ \A v \in JobWorkers \ {w} : worker'[v] = worker[v]
  BY <1>2, <1>3, <1>4, <1>5, <1>6, <1>65
<1>8. PICK me : me = worker'[w]
  OBVIOUS
<1>9. /\ me \in TlsWorkers /\ me.report = old.report /\ me.met = i /\ me.done = dn
      /\ me.sent = old.sent /\ me.at = old.at
      /\ me.failures = old.failures /\ me.waiting = old.waiting
  BY <1>7, <1>8 DEF TlsWorkers
<1>10. TlsTyped'
  <2>1. worker' \in [JobWorkers -> TlsWorkers]
    BY <1>2, <1>6, <1>7, <1>8, <1>9
  <2>2. settled' \in [Reports \X Ruas -> BOOLEAN]
    BY <1>2, <1>6
  <2> QED
    BY <1>2, <2>1, <2>2 DEF ReportsKept, TlsTyped
<1>11. Passes(w, me, r)
  BY <1>2, <1>3, <1>5, <1>65, <1>9 DEF Passes
<1>12. me.met = Min(RuasAhead(w)) /\ me.sent = worker[w].sent /\ me.report = r
  BY <1>1, <1>3, <1>4, <1>9
<1> QED
  BY <1>1, <1>2, <1>7, <1>8, <1>9, <1>10, <1>11, <1>12, PassesKeep

\* Reserving a slot for an address keeps the reports accounted for.
LEMMA ReserveKeeps ==
    ASSUME ReportsKept, NEW w \in JobWorkers, Reserve(w)
    PROVE  ReportsKept'
<1>1. PICK r : r = worker[w].report
  OBVIOUS
<1>2. /\ worker[w].at = "next" /\ RuasAhead(w) # {} /\ UNCHANGED <<today, ledger>>
  BY DEF Reserve
<1>3. UNCHANGED <<got, settled, tries, lost, gone>>
  BY <1>2 DEF ledger
<1>4. PICK old \in TlsWorkers : old = worker[w] /\ r \in Reports
  BY <1>1, <1>2, InHand
<1>5. PICK i \in Nat : i = Min(RuasAhead(w)) /\ NextRua(w) = RuaOf[r][i] /\ RuaOf[r][i] \in Listed(r)
  BY <1>1, <1>2, NextAddress
<1>6. PICK x \in Ruas : x = NextRua(w)
  BY <1>4, <1>5, ListedAreRuas
<1>7. worker \in [JobWorkers -> TlsWorkers] /\ today \in TlsDays /\ today \in Nat
  BY TlsConstants DEF ReportsKept, TlsTyped
<1>8. PICK me : me = worker'[w]
  OBVIOUS
<1>9. CASE /\ worker' = [worker EXCEPT ![w].at = "sending", ![w].rua = NextRua(w), ![w].on = today,
                                       ![w].met = Min(RuasAhead(w))]
           /\ UNCHANGED <<tlsRow, run>>
  <2>1. /\ me = [old EXCEPT !.at = "sending", !.rua = x, !.on = today, !.met = i]
        /\ \A v \in JobWorkers \ {w} : worker'[v] = worker[v]
    BY <1>4, <1>5, <1>6, <1>7, <1>8, <1>9
  <2>2. /\ me \in TlsWorkers /\ me.report = old.report /\ me.met = i /\ me.done = old.done
        /\ me.sent = old.sent /\ me.at = "sending" /\ me.rua = x /\ me.on = today
        /\ me.failures = old.failures /\ me.waiting = old.waiting
    BY <1>7, <2>1 DEF TlsWorkers
  <2>3. worker' \in [JobWorkers -> TlsWorkers]
    BY <1>7, <1>8, <1>9, <2>1, <2>2
  <2>4. TlsTyped'
    BY <1>2, <1>3, <1>9, <2>3 DEF ReportsKept, TlsTyped
  <2>5. Passes(w, me, r)
    BY <1>3, <1>4, <1>6, <1>7, <2>2 DEF Passes
  <2>6. me.met = Min(RuasAhead(w)) /\ me.sent = worker[w].sent /\ me.report = r
    BY <1>1, <1>4, <1>5, <2>2
  <2> QED
    BY <1>1, <1>2, <1>3, <1>8, <1>9, <2>1, <2>2, <2>4, <2>5, <2>6, PassesKeep
<1>10. CASE AwaitSlot(w) /\ UNCHANGED <<tlsRow, run>>
  <2>1. worker' = [worker EXCEPT ![w].met = Min(RuasAhead(w)), ![w].waiting = @ + 1]
    BY <1>10 DEF AwaitSlot
  <2>15. PICK n \in Nat : n = old.waiting + 1
    BY WorkerFields
  <2>2. /\ me = [old EXCEPT !.met = i, !.waiting = n]
        /\ \A v \in JobWorkers \ {w} : worker'[v] = worker[v]
    BY <1>4, <1>5, <1>6, <1>7, <1>8, <2>1, <2>15
  <2>3. /\ me \in TlsWorkers /\ me.report = old.report /\ me.met = i /\ me.done = old.done
        /\ me.sent = old.sent /\ me.at = old.at /\ me.waiting = n
    BY <1>7, <2>2 DEF TlsWorkers
  <2>4. worker' \in [JobWorkers -> TlsWorkers]
    BY <1>7, <1>8, <2>1, <2>2, <2>3
  <2>5. TlsTyped'
    BY <1>2, <1>3, <1>10, <2>4 DEF ReportsKept, TlsTyped
  <2>6. Passes(w, me, r)
    BY <1>2, <1>3, <1>4, <1>6, <2>15, <2>3 DEF Passes
  <2>7. me.met = Min(RuasAhead(w)) /\ me.sent = worker[w].sent /\ me.report = r
    BY <1>1, <1>4, <1>5, <2>3
  <2> QED
    BY <1>1, <1>2, <1>3, <1>8, <1>10, <2>2, <2>3, <2>5, <2>6, <2>7, PassesKeep
<1>11. CASE /\ Update(r, GivenBack(tlsRow[r], "due", today + 1, worker[w].done))
            /\ LetGo(w)
            /\ run' = [run EXCEPT ![JobOf[w]].halted = TRUE, ![JobOf[w]].capped = TRUE]
  <2>1. run' \in [Jobs -> TlsRunRecords]
    BY <1>11, TlsConstants DEF ReportsKept, TlsTyped, TlsRunRecords
  <2>2. today + 1 \in Nat
    BY <1>7
  <2> QED
    BY <1>1, <1>2, <1>11, <2>1, <2>2, HandsBack
<1> QED
  BY <1>1, <1>9, <1>10, <1>11 DEF Reserve

\* An answer: the address is done, or the attempt has a failure.
Answers(me, old, r) ==
    \/ /\ me.failures = old.failures + 1 /\ me.done = old.done /\ me.sent = old.sent
       /\ UNCHANGED <<got, settled>>
    \/ /\ me.failures = old.failures /\ me.done = old.done \cup {old.rua}
       /\ \/ /\ me.sent = old.sent \cup {old.rua}
             /\ got' = [got EXCEPT ![<<r, old.rua>>] = @ + 1] /\ settled' = settled
          \/ /\ me.sent = old.sent /\ got' = got
             /\ settled' = [settled EXCEPT ![<<r, old.rua>>] = TRUE]

\* An answer for one address moves it from the worker's hand to its row.
LEMMA AnswerKeeps ==
    ASSUME ReportsKept, TlsTyped', NEW w \in JobWorkers, NEW r, r = worker[w].report,
           NEW old \in TlsWorkers, old = worker[w], old.at = "sending",
           NEW me \in TlsWorkers, me = worker'[w], me.report = r, me.at = "next",
           me.met = old.met, me.waiting = old.waiting,
           Answers(me, old, r),
           \A v \in JobWorkers \ {w} : worker'[v] = worker[v],
           UNCHANGED <<tlsRow, tries, lost, gone>>
    PROVE  ReportsKept'
<1> USE DEF Answers
<1>1. /\ r \in Reports /\ lost[r] \in Nat
      /\ \A u \in Listed(r) : u \in Ruas /\ got[<<r, u>>] \in Nat
      /\ old.sent \subseteq old.done /\ old.done \subseteq Listed(r)
      /\ \A u \in old.done : ServedTo(r, u)
      /\ \A u \in Listed(r) : got[<<r, u>>] <= lost[r] + One(u \in old.done)
      /\ tlsRow[r].wait \in {"lease", "none"}
  BY InHand
<1>2. PICK x : x = old.rua /\ x \in Listed(r) /\ x \notin old.done /\ x = RuaOf[r][old.met]
  BY <1>1, TlsConstants DEF ReportsKept, SendingKept, HandKept
<1>3. /\ settled \in [Reports \X Ruas -> BOOLEAN] /\ got \in [Reports \X Ruas -> Nat] /\ x \in Ruas
      /\ <<r, x>> \in Reports \X Ruas
  BY <1>1, <1>2 DEF ReportsKept, TlsTyped
<1>4. \A q \in Reports, u \in Ruas : <<q, u>> # <<r, x>> =>
          settled'[<<q, u>>] = settled[<<q, u>>] /\ got'[<<q, u>>] = got[<<q, u>>]
  BY <1>2, <1>3
<1>5. /\ \/ settled'[<<r, x>>] = settled[<<r, x>>] \/ settled'[<<r, x>>] = TRUE
      /\ \/ got'[<<r, x>>] = got[<<r, x>>]
         \/ got'[<<r, x>>] = got[<<r, x>>] + 1 /\ x \in me.sent /\ x \in me.done
      /\ x \in me.done => got'[<<r, x>>] > 0 \/ settled'[<<r, x>>]
  <2>1. got[<<r, x>>] \in Nat
    BY <1>3
  <2>2. CASE /\ me.done = old.done
             /\ UNCHANGED <<got, settled>>
    BY <1>2, <2>2
  <2>3. CASE /\ me.sent = old.sent \cup {old.rua} /\ me.done = old.done \cup {old.rua}
             /\ got' = [got EXCEPT ![<<r, old.rua>>] = @ + 1] /\ settled' = settled
    <3>1. got' = [got EXCEPT ![<<r, x>>] = @ + 1] /\ settled'[<<r, x>>] = settled[<<r, x>>]
      BY <1>2, <2>3
    <3>2. got'[<<r, x>>] = got[<<r, x>>] + 1
      BY <1>3, <3>1
    <3>3. x \in me.sent /\ x \in me.done
      BY <1>2, <2>3
    <3>4. got'[<<r, x>>] > 0
      BY <2>1, <3>2
    <3> QED
      BY <3>1, <3>2, <3>3, <3>4
  <2>4. CASE /\ got' = got
             /\ settled' = [settled EXCEPT ![<<r, old.rua>>] = TRUE]
    BY <1>2, <1>3, <2>4
  <2> QED
    BY <2>2, <2>3, <2>4
<1>6. \A u \in Ruas : ServedTo(r, u) => ServedTo(r, u)'
  <2> SUFFICES ASSUME NEW u \in Ruas, ServedTo(r, u)
               PROVE  ServedTo(r, u)'
    OBVIOUS
  <2>1. CASE u # x
    <3>1. settled'[<<r, u>>] = settled[<<r, u>>] /\ got'[<<r, u>>] = got[<<r, u>>]
      BY <1>1, <1>4, <2>1
    <3> QED
      BY <3>1 DEF ServedTo
  <2>2. CASE u = x
    <3>1. got[<<r, x>>] \in Nat
      BY <1>3
    <3> QED
      BY <1>5, <2>2, <3>1 DEF ServedTo
  <2> QED
    BY <2>1, <2>2
<1>7. \/ me.done = old.done
      \/ me.done = old.done \cup {x}
  BY <1>2
<1>8. me.sent \subseteq me.done /\ me.done \subseteq Listed(r) /\ old.sent \subseteq me.sent
  BY <1>1, <1>2
<1>9. \A u \in me.done : ServedTo(r, u)'
  <2> SUFFICES ASSUME NEW u \in me.done
               PROVE  ServedTo(r, u)'
    OBVIOUS
  <2>1. CASE u = x
    BY <1>5, <2>1 DEF ServedTo
  <2>2. CASE u # x
    <3>1. u \in old.done /\ u \in Ruas
      BY <1>1, <1>7, <2>2
    <3> QED
      BY <1>1, <1>6, <3>1
  <2> QED
    BY <2>1, <2>2
<1>10. \A u \in Listed(r) : got'[<<r, u>>] <= lost[r] + One(u \in me.done)
  <2> SUFFICES ASSUME NEW u \in Listed(r)
               PROVE  got'[<<r, u>>] <= lost[r] + One(u \in me.done)
    OBVIOUS
  <2>1. got[<<r, u>>] \in Nat /\ got[<<r, u>>] <= lost[r] + One(u \in old.done)
    BY <1>1
  <2>2. CASE u = x
    <3>1. One(u \in old.done) = 0 /\ (u \in me.done => One(u \in me.done) = 1)
          /\ One(u \in me.done) \in Nat
      BY <1>2, <2>2 DEF One
    <3> QED
      BY <1>1, <1>5, <2>1, <2>2, <3>1
  <2>3. CASE u # x
    <3>1. got'[<<r, u>>] = got[<<r, u>>]
      BY <1>1, <1>4, <2>3
    <3>2. One(u \in me.done) = One(u \in old.done)
      BY <1>7, <2>3 DEF One
    <3> QED
      BY <2>1, <3>1, <3>2
  <2> QED
    BY <2>2, <2>3
<1>11. ASSUME me.failures = 0, me.waiting = 0, NEW j \in 1..Len(RuaOf[r]), j <= me.met
       PROVE  RuaOf[r][j] \in me.done
  <2>1. old.failures \in Nat
    BY WorkerFields
  <2>2. /\ old.failures = 0 /\ old.waiting = 0 /\ me.done = old.done \cup {x}
    BY <1>2, <1>11, <2>1
  <2>3. \/ RuaOf[r][j] \in old.done
        \/ j = old.met
    BY <1>11, <2>2, MetSoFar
  <2> QED
    BY <1>2, <2>2, <2>3
<1>12. HandKept(w)'
  <2>1. r # NoReport /\ me.at # "idle" /\ tlsRow'[r].wait \in {"lease", "none"} /\ lost'[r] = lost[r]
    BY <1>1, TlsConstants
  <2> QED
    BY <1>8, <1>9, <1>10, <1>11, <2>1 DEF HandKept
<1>13. SendingKept(w)'
  BY DEF SendingKept
<1>14. \A u \in Ruas : got'[<<r, u>>] = got[<<r, u>>] \/ u \in me.sent
  BY <1>1, <1>4, <1>5
<1>15. \A q \in Reports \ {r}, u \in Ruas :
          got'[<<q, u>>] = got[<<q, u>>] /\ settled'[<<q, u>>] = settled[<<q, u>>]
  BY <1>4
<1> QED
  BY <1>1, <1>6, <1>8, <1>12, <1>13, <1>14, <1>15, GoesOn

\* Delivered, not delivered or skipped: the reports stay accounted for.
LEMMA AnswersKeep ==
    ASSUME ReportsKept, NEW w \in JobWorkers, Delivered(w) \/ NotDelivered(w) \/ Skipped(w)
    PROVE  ReportsKept'
<1>1. PICK r : r = worker[w].report
  OBVIOUS
<1>2. worker[w].at = "sending" /\ UNCHANGED <<today, tlsRow, run, tries, lost, gone>>
  BY DEF Delivered, NotDelivered, Skipped, ledger
<1>3. PICK old \in TlsWorkers : old = worker[w] /\ r \in Reports
  BY <1>1, <1>2, InHand
<1>4. old.rua \in Listed(r) /\ old.rua \in Ruas
  BY <1>1, <1>2, <1>3, ListedAreRuas DEF ReportsKept, SendingKept
<1>5. /\ worker \in [JobWorkers -> TlsWorkers] /\ got \in [Reports \X Ruas -> Nat]
      /\ settled \in [Reports \X Ruas -> BOOLEAN]
  BY DEF ReportsKept, TlsTyped
<1>6. PICK dn \in SUBSET Ruas : dn = old.done \cup {old.rua}
  BY <1>4, WorkerFields
<1>7. PICK sn \in SUBSET Ruas : sn = old.sent \cup {old.rua}
  BY <1>4, WorkerFields
<1>8. PICK n \in Nat : n = old.failures + 1
  BY WorkerFields
<1>9. PICK me : me = worker'[w]
  OBVIOUS
<1>10. CASE Delivered(w)
  <2>1. /\ worker' = [worker EXCEPT ![w].at = "next", ![w].done = @ \cup {old.rua},
                                    ![w].sent = @ \cup {old.rua}]
        /\ got' = [got EXCEPT ![<<r, old.rua>>] = @ + 1] /\ settled' = settled
    BY <1>1, <1>3, <1>10 DEF Delivered
  <2>2. /\ me = [old EXCEPT !.at = "next", !.done = dn, !.sent = sn]
        /\ \A v \in JobWorkers \ {w} : worker'[v] = worker[v]
    BY <1>3, <1>5, <1>6, <1>7, <1>9, <2>1
  <2>3. /\ me \in TlsWorkers /\ me.report = old.report /\ me.met = old.met /\ me.done = dn
        /\ me.sent = sn /\ me.at = "next"
        /\ me.failures = old.failures /\ me.waiting = old.waiting
    BY <2>2 DEF TlsWorkers
  <2>4. TlsTyped'
    <3>1. worker' \in [JobWorkers -> TlsWorkers]
      BY <1>5, <1>9, <2>1, <2>2, <2>3
    <3>2. got' \in [Reports \X Ruas -> Nat]
      <4>1. <<r, old.rua>> \in Reports \X Ruas
        BY <1>3, <1>4
      <4> QED
        BY <1>5, <2>1, <4>1
    <3> QED
      BY <1>2, <2>1, <3>1, <3>2 DEF ReportsKept, TlsTyped
  <2>5. Answers(me, old, r)
    BY <1>6, <1>7, <2>1, <2>3 DEF Answers
  <2>6. me.report = r /\ old.at = "sending"
    BY <1>1, <1>2, <1>3, <2>3
  <2> QED
    BY <1>1, <1>2, <1>3, <1>9, <2>2, <2>3, <2>4, <2>5, <2>6, AnswerKeeps
<1>11. CASE NotDelivered(w)
  <2>1. /\ worker' = [worker EXCEPT ![w].at = "next", ![w].failures = @ + 1]
        /\ UNCHANGED <<got, settled>>
    BY <1>11 DEF NotDelivered, ledger
  <2>2. /\ me = [old EXCEPT !.at = "next", !.failures = n]
        /\ \A v \in JobWorkers \ {w} : worker'[v] = worker[v]
    BY <1>3, <1>5, <1>8, <1>9, <2>1
  <2>3. /\ me \in TlsWorkers /\ me.report = old.report /\ me.met = old.met /\ me.done = old.done
        /\ me.sent = old.sent /\ me.at = "next"
        /\ me.failures = n /\ me.waiting = old.waiting
    BY <2>2 DEF TlsWorkers
  <2>4. TlsTyped'
    <3>1. worker' \in [JobWorkers -> TlsWorkers]
      BY <1>5, <1>9, <2>1, <2>2, <2>3
    <3> QED
      BY <1>2, <2>1, <3>1 DEF ReportsKept, TlsTyped
  <2>5. Answers(me, old, r)
    BY <1>8, <2>1, <2>3 DEF Answers
  <2>6. me.report = r /\ old.at = "sending"
    BY <1>1, <1>2, <1>3, <2>3
  <2> QED
    BY <1>1, <1>2, <1>3, <1>9, <2>2, <2>3, <2>4, <2>5, <2>6, AnswerKeeps
<1>12. CASE Skipped(w)
  <2>1. /\ worker' = [worker EXCEPT ![w].at = "next", ![w].done = @ \cup {old.rua}]
        /\ settled' = [settled EXCEPT ![<<r, old.rua>>] = TRUE] /\ got' = got
    BY <1>1, <1>3, <1>12 DEF Skipped
  <2>2. /\ me = [old EXCEPT !.at = "next", !.done = dn]
        /\ \A v \in JobWorkers \ {w} : worker'[v] = worker[v]
    BY <1>3, <1>5, <1>6, <1>9, <2>1
  <2>3. /\ me \in TlsWorkers /\ me.report = old.report /\ me.met = old.met /\ me.done = dn
        /\ me.sent = old.sent /\ me.at = "next"
        /\ me.failures = old.failures /\ me.waiting = old.waiting
    BY <2>2 DEF TlsWorkers
  <2>4. TlsTyped'
    <3>1. worker' \in [JobWorkers -> TlsWorkers]
      BY <1>5, <1>9, <2>1, <2>2, <2>3
    <3>2. settled' \in [Reports \X Ruas -> BOOLEAN]
      BY <1>5, <2>1
    <3> QED
      BY <1>2, <2>1, <3>1, <3>2 DEF ReportsKept, TlsTyped
  <2>5. Answers(me, old, r)
    BY <1>6, <2>1, <2>3 DEF Answers
  <2>6. me.report = r /\ old.at = "sending"
    BY <1>1, <1>2, <1>3, <2>3
  <2> QED
    BY <1>1, <1>2, <1>3, <1>9, <2>2, <2>3, <2>4, <2>5, <2>6, AnswerKeeps
<1> QED
  BY <1>10, <1>11, <1>12

\* Finishing a report keeps the reports accounted for.
LEMMA FinishKeeps ==
    ASSUME ReportsKept, NEW w \in JobWorkers, FinishReport(w)
    PROVE  ReportsKept'
<1>1. PICK r : r = worker[w].report
  OBVIOUS
<1>2. /\ worker[w].at = "next" /\ RuasAhead(w) = {} /\ LetGo(w)
      /\ UNCHANGED <<today, run, got, settled, lost>>
  BY DEF FinishReport
<1>3. CASE RetryOrDrop(r, worker[w].done)
  BY <1>1, <1>2, <1>3, RetriesOrDrops
<1>4. CASE /\ Update(r, GivenBack(tlsRow[r], "due", today + 1, worker[w].done))
           /\ UNCHANGED <<tries, gone>>
  <2>1. today + 1 \in Nat /\ run' \in [Jobs -> TlsRunRecords]
    BY <1>2, TlsConstants DEF ReportsKept, TlsTyped
  <2>2. UNCHANGED <<today, ledger>>
    BY <1>2, <1>4 DEF ledger
  <2> QED
    BY <1>1, <1>2, <1>4, <2>1, <2>2, HandsBack
<1>5. CASE /\ worker[w].failures = 0 /\ worker[w].waiting = 0
           /\ Remove(r, "served") /\ UNCHANGED tries
  <2>1. \A u \in Listed(r) : ServedTo(r, u)
    BY <1>1, <1>2, <1>5, AllServed
  <2>2. "served" \in GoneFor
    BY DEF GoneFor
  <2> QED
    BY <1>1, <1>2, <1>5, <2>1, <2>2, RemovesReport
<1> QED
  BY <1>1, <1>3, <1>4, <1>5 DEF FinishReport

\* A failure while handling a report keeps the reports accounted for.
LEMMA FailureKeeps ==
    ASSUME ReportsKept, NEW w \in JobWorkers, HandlingFails(w)
    PROVE  ReportsKept'
<1>1. PICK r : r = worker[w].report
  OBVIOUS
<1>2. /\ r # NoReport /\ LetGo(w) /\ tries' = [tries EXCEPT ![r] = @ + 1]
      /\ lost' = IF worker[w].sent = {} THEN lost ELSE [lost EXCEPT ![r] = @ + 1]
      /\ UNCHANGED <<today, tlsRow, run, got, settled, gone>>
  BY <1>1 DEF HandlingFails
<1>3. worker[w].at # "idle"
  BY <1>1, <1>2 DEF ReportsKept, HandKept
<1>4. /\ r \in Reports /\ tries[r] \in Nat /\ lost[r] \in Nat
      /\ \A u \in Listed(r) : u \in Ruas /\ got[<<r, u>>] \in Nat
      /\ \A u \in Listed(r) : got[<<r, u>>] <= lost[r] + One(u \in worker[w].done)
      /\ ReportExists(r) => tlsRow[r].attempts = tries[r] + 1
  BY <1>1, <1>3, InHand
<1>5. /\ tries \in [Reports -> Nat] /\ lost \in [Reports -> Nat]
      /\ worker \in [JobWorkers -> TlsWorkers]
  BY DEF ReportsKept, TlsTyped
<1>6. tries'[r] = tries[r] + 1 /\ \A q \in Reports \ {r} : tries'[q] = tries[q]
  BY <1>2, <1>4, <1>5
<1>7. /\ lost'[r] = IF worker[w].sent = {} THEN lost[r] ELSE lost[r] + 1
      /\ \A q \in Reports \ {r} : lost'[q] = lost[q]
  BY <1>2, <1>4, <1>5
<1>8. TlsTyped'
  <2>1. tries' \in [Reports -> Nat] /\ lost' \in [Reports -> Nat]
    BY <1>2, <1>4, <1>5
  <2>2. worker' \in [JobWorkers -> TlsWorkers]
    BY <1>2, <1>5, IdleFields DEF LetGo
  <2> QED
    BY <1>2, <2>1, <2>2 DEF ReportsKept, TlsTyped
<1>9. ReportExists(r) => \A u \in Listed(r) : got[<<r, u>>] <= lost'[r] + One(u \in tlsRow[r].done)
  <2> SUFFICES ASSUME ReportExists(r), NEW u \in Listed(r)
               PROVE  got[<<r, u>>] <= lost'[r] + One(u \in tlsRow[r].done)
    OBVIOUS
  <2>1. got[<<r, u>>] \in Nat
    BY <1>4
  <2>2. CASE worker[w].sent = {}
    <3>1. \A v \in JobWorkers : worker[v].report = r => v = w
      BY <1>1, <1>4, HasItAlone
    <3>2. ~SentNow(r, u)
      BY <2>2, <3>1 DEF SentNow
    <3>3. got[<<r, u>>] <= lost[r] + One(u \in tlsRow[r].done \/ SentNow(r, u))
      BY <1>4 DEF ReportsKept, RowKept
    <3>4. One(u \in tlsRow[r].done \/ SentNow(r, u)) = One(u \in tlsRow[r].done)
      BY <3>2 DEF One
    <3> QED
      BY <1>7, <2>2, <3>3, <3>4
  <2>3. CASE worker[w].sent # {}
    <3>1. One(u \in worker[w].done) \in {0, 1} /\ One(u \in tlsRow[r].done) \in {0, 1}
      BY DEF One
    <3> QED
      BY <1>4, <1>7, <2>1, <2>3, <3>1
  <2> QED
    BY <2>2, <2>3
<1>10. /\ lost'[r] >= lost[r] /\ tries'[r] >= tries[r] /\ gone'[r] = gone[r]
       /\ tlsRow'[r] = tlsRow[r] /\ (ReportExists(r)' <=> ReportExists(r))
  BY <1>2, <1>4, <1>6, <1>7 DEF ReportExists
<1>11. ReportExists(r)' =>
         /\ \A u \in Listed(r) : got[<<r, u>>] <= lost'[r] + One(u \in tlsRow'[r].done)
         /\ tlsRow'[r].attempts = tries'[r]
  BY <1>4, <1>6, <1>9, <1>10
<1> QED
  BY <1>1, <1>2, <1>4, <1>6, <1>7, <1>8, <1>10, <1>11, LetsGo

\* Claiming a report keeps the reports accounted for.
LEMMA ClaimKeeps ==
    ASSUME ReportsKept, NEW w \in JobWorkers, NEW r \in Reports, ClaimOne(w, r)
    PROVE  ReportsKept'
<1>1. /\ worker[w] = IdleWorker /\ tlsRow[r].wait = "due"
      /\ tlsRow' = [tlsRow EXCEPT ![r].wait = "lease", ![r].attempts = @ + 1]
      /\ worker' = [worker EXCEPT ![w] = [IdleWorker EXCEPT !.at = "lookup", !.report = r,
                                                            !.done = tlsRow[r].done]]
      /\ UNCHANGED <<today, run, got, settled, tries, lost, gone>>
  BY DEF ClaimOne, ledger
<1>2. /\ tlsRow \in [Reports -> TlsRows] /\ worker \in [JobWorkers -> TlsWorkers]
      /\ RowKept(r) /\ r # NoReport
  BY TlsConstants DEF ReportsKept, TlsTyped
<1>3. PICK old \in TlsRows : old = tlsRow[r]
  BY <1>2
<1>4. PICK n \in Nat : n = old.attempts + 1
  BY RowFields
<1>5. PICK rec : rec = tlsRow'[r]
  OBVIOUS
<1>6. rec = [old EXCEPT !.wait = "lease", !.attempts = n] /\ \A q \in Reports \ {r} : tlsRow'[q] = tlsRow[q]
  BY <1>1, <1>2, <1>3, <1>4, <1>5
<1>7. rec \in TlsRows /\ rec.wait = "lease" /\ rec.attempts = n /\ rec.done = old.done
  BY <1>6 DEF TlsRows
<1>8. PICK me : me = worker'[w]
  OBVIOUS
<1>9. /\ me = [IdleWorker EXCEPT !.at = "lookup", !.report = r, !.done = old.done]
      /\ \A v \in JobWorkers \ {w} : worker'[v] = worker[v]
  BY <1>1, <1>2, <1>3, <1>8
<1>10. old.done \in SUBSET Ruas
  BY RowFields
<1>11. /\ me \in TlsWorkers /\ me.at = "lookup" /\ me.report = r /\ me.done = old.done
       /\ me.sent = {} /\ me.met = 0
  BY <1>9, <1>10 DEF IdleWorker, TlsWorkers
<1>12. TlsTyped'
  <2>1. tlsRow' \in [Reports -> TlsRows]
    BY <1>1, <1>2, <1>5, <1>6, <1>7
  <2>2. worker' \in [JobWorkers -> TlsWorkers]
    BY <1>1, <1>2, <1>8, <1>9, <1>11
  <2> QED
    BY <1>1, <2>1, <2>2 DEF ReportsKept, TlsTyped
<1>13. \A v \in JobWorkers : worker[v].report # r
  <2> SUFFICES ASSUME NEW v \in JobWorkers, worker[v].report = r
               PROVE  FALSE
    OBVIOUS
  <2>1. HandKept(v)
    BY DEF ReportsKept
  <2>2. tlsRow[r].wait \in {"lease", "none"}
    BY <1>2, <2>1 DEF HandKept
  <2> QED
    BY <1>1, <2>2
<1>14. ~Held(r) /\ \A u \in Ruas : ~SentNow(r, u)
  BY <1>13 DEF Held, SentNow
<1>15. Held(r)'
  BY <1>8, <1>11 DEF Held
<1>16. ReportExists(r) /\ tries[r] \in Nat /\ lost[r] \in Nat
  BY <1>1 DEF ReportExists, ReportsKept, TlsTyped
<1>17. \A u \in Listed(r) : /\ u \in Ruas /\ got[<<r, u>>] \in Nat
                            /\ got[<<r, u>>] <= lost[r] + One(u \in old.done)
  <2> SUFFICES ASSUME NEW u \in Listed(r)
               PROVE  /\ u \in Ruas /\ got[<<r, u>>] \in Nat
                      /\ got[<<r, u>>] <= lost[r] + One(u \in old.done)
    OBVIOUS
  <2>1. u \in Ruas /\ got[<<r, u>>] \in Nat
    BY ListedAreRuas DEF ReportsKept, TlsTyped
  <2>2. got[<<r, u>>] <= lost[r] + One(u \in tlsRow[r].done \/ SentNow(r, u))
    BY <1>2, <1>16 DEF RowKept
  <2>3. One(u \in tlsRow[r].done \/ SentNow(r, u)) = One(u \in old.done)
    BY <1>3, <1>14, <2>1 DEF One
  <2> QED
    BY <2>1, <2>2, <2>3
<1>18. \A u : ServedTo(r, u)' <=> ServedTo(r, u)
  BY <1>1 DEF ServedTo
<1>19. HandKept(w)'
  <2>1. old.done \subseteq Listed(r) /\ \A u \in old.done : ServedTo(r, u)'
    BY <1>2, <1>3, <1>18 DEF RowKept
  <2>2. \A i \in 1..Len(RuaOf[r]) : ~(i <= 0)
    OBVIOUS
  <2> QED
    BY <1>1, <1>2, <1>5, <1>7, <1>8, <1>11, <1>17, <2>1, <2>2 DEF HandKept
<1>20. SendingKept(w)'
  BY <1>8, <1>11 DEF SendingKept
<1>21. RowKept(r)'
  <2>1. rec.done \subseteq Listed(r) /\ \A u \in rec.done : ServedTo(r, u)'
    BY <1>2, <1>3, <1>7, <1>18 DEF RowKept
  <2>2. \A u \in Listed(r) : One(u \in tlsRow[r].done \/ SentNow(r, u))' \in {One(u \in old.done), 1}
    BY <1>5, <1>7 DEF One
  <2>3. \A u \in Listed(r) :
           got'[<<r, u>>] <= lost'[r] + One(u \in tlsRow[r].done \/ SentNow(r, u))'
    <3> SUFFICES ASSUME NEW u \in Listed(r)
                 PROVE  got[<<r, u>>] <= lost[r] + One(u \in tlsRow[r].done \/ SentNow(r, u))'
      BY <1>1
    <3>1. One(u \in old.done) \in {0, 1}
      BY DEF One
    <3> QED
      BY <1>16, <1>17, <2>2, <3>1
  <2>4. rec.attempts = tries[r] + One(Held(r))'
    <3>1. One(Held(r))' = 1 /\ One(Held(r)) = 0
      BY <1>14, <1>15 DEF One
    <3>2. old.attempts = tries[r] + One(Held(r))
      BY <1>2, <1>3, <1>16 DEF RowKept
    <3> QED
      BY <1>4, <1>7, <1>16, <3>1, <3>2
  <2>5. (\A u \in Listed(r) : got[<<r, u>>] <= 1 + lost[r])'
    BY <1>1, <1>2 DEF RowKept
  <2>6. (gone[r] = "dropped" => tries[r] >= MaxTlsAttempts)'
    BY <1>1, <1>2 DEF RowKept
  <2>7. (gone[r] = "served" => \A u \in Listed(r) : ServedTo(r, u))'
    BY <1>1, <1>2, <1>18 DEF RowKept
  <2> QED
    BY <1>1, <1>5, <2>1, <2>3, <2>4, <2>5, <2>6, <2>7 DEF RowKept
<1>22. worker[w].report = NoReport
  BY <1>1, IdleFields
<1> QED
  BY <1>1, <1>6, <1>8, <1>9, <1>11, <1>12, <1>13, <1>19, <1>20, <1>21, <1>22, TouchesOne

\* Steps that touch rows and no worker: a row that is not in hand may become
\* due, one in hand stays leased, and any may be deleted as expired.
LEMMA RowsKeep ==
    ASSUME ReportsKept, TlsTyped', UNCHANGED <<worker, got, settled, tries, lost>>,
           \A r \in Reports :
               \/ /\ tlsRow'[r].done = tlsRow[r].done /\ tlsRow'[r].attempts = tlsRow[r].attempts
                  /\ gone'[r] = gone[r] /\ ReportExists(r)' = ReportExists(r)
                  /\ Held(r) => tlsRow'[r].wait \in {"lease", "none"}
               \/ /\ tlsRow'[r] = NoTlsReport /\ gone'[r] \in {gone[r], "expired"}
    PROVE  ReportsKept'
<1>1. \A r \in Reports : Held(r)' = Held(r) /\ \A u : /\ SentNow(r, u)' = SentNow(r, u)
                                                      /\ ServedTo(r, u)' = ServedTo(r, u)
  BY DEF Held, SentNow, ServedTo
<1>2. OneHand'
  BY DEF ReportsKept, OneHand
<1>3. ASSUME NEW w \in JobWorkers
      PROVE  SendingKept(w)' /\ HandKept(w)'
  <2>1. SendingKept(w) /\ HandKept(w) /\ worker[w] \in TlsWorkers
    BY DEF ReportsKept, TlsTyped
  <2>2. SendingKept(w)'
    BY <2>1 DEF SendingKept
  <2>3. PICK r : r = worker[w].report
    OBVIOUS
  <2>4. r # NoReport => tlsRow'[r].wait \in {"lease", "none"}
    <3> SUFFICES ASSUME r # NoReport
                 PROVE  tlsRow'[r].wait \in {"lease", "none"}
      OBVIOUS
    <3>1. r \in Reports /\ Held(r)
      BY <2>1, <2>3, WorkerFields DEF Held
    <3>2. NoTlsReport.wait = "none"
      BY DEF NoTlsReport
    <3> QED
      BY <3>1, <3>2
  <2>5. \A u : ServedTo(r, u)' <=> ServedTo(r, u)
    BY DEF ServedTo
  <2>6. HandKept(w)'
    BY <2>1, <2>3, <2>4, <2>5 DEF HandKept
  <2> QED
    BY <2>2, <2>6
<1>4. ASSUME NEW r \in Reports
      PROVE  RowKept(r)'
  <2>1. RowKept(r) /\ tries[r] \in Nat
    BY DEF ReportsKept, TlsTyped
  <2>2. CASE /\ tlsRow'[r].done = tlsRow[r].done /\ tlsRow'[r].attempts = tlsRow[r].attempts
             /\ gone'[r] = gone[r] /\ ReportExists(r)' = ReportExists(r)
    <3>1. One(Held(r))' = One(Held(r)) /\ \A u : ServedTo(r, u)' <=> ServedTo(r, u)
      BY <1>1 DEF One
    <3>2. \A u \in Listed(r) : One(u \in tlsRow[r].done \/ SentNow(r, u))'
                                 = One(u \in tlsRow[r].done \/ SentNow(r, u))
      BY <1>1, <2>2 DEF One
    <3> QED
      BY <2>1, <2>2, <3>1, <3>2 DEF RowKept
  <2>3. CASE tlsRow'[r] = NoTlsReport /\ gone'[r] \in {gone[r], "expired"}
    <3>1. tlsRow'[r].wait = "none" /\ tlsRow'[r].done = {}
      BY <2>3 DEF NoTlsReport
    <3>2. ~ReportExists(r)'
      BY <3>1 DEF ReportExists
    <3>3. \A u : ServedTo(r, u)' <=> ServedTo(r, u)
      BY <1>1
    <3> QED
      BY <2>1, <2>3, <3>1, <3>2, <3>3 DEF RowKept
  <2> QED
    BY <2>2, <2>3
<1> QED
  BY <1>2, <1>3, <1>4 DEF ReportsKept

\* Runs, typed.
LEMMA RunRecords ==
    ASSUME NEW p \in Jobs, run \in [Jobs -> TlsRunRecords]
    PROVE  /\ NoRun \in TlsRunRecords
           /\ \A a \in {"idle", "started", "delivering", "capping"} :
                 [run EXCEPT ![p].at = a] \in [Jobs -> TlsRunRecords]
           /\ [run EXCEPT ![p].late = TRUE] \in [Jobs -> TlsRunRecords]
           /\ [run EXCEPT ![p].halted = TRUE] \in [Jobs -> TlsRunRecords]
           /\ [run EXCEPT ![p] = NoRun] \in [Jobs -> TlsRunRecords]
           /\ [run EXCEPT ![p] = [run[p] EXCEPT !.at = "capping"]] \in [Jobs -> TlsRunRecords]
  BY DEF TlsRunRecords, NoRun

\* Only runs, days and counters change.
LEMMA NothingTouched ==
    ASSUME ReportsKept, UNCHANGED <<worker, tlsRow, got, settled, tries, lost, gone>>,
           today' \in TlsDays, run' \in [Jobs -> TlsRunRecords]
    PROVE  ReportsKept'
<1>1. TlsTyped'
  BY DEF ReportsKept, TlsTyped
<1>2. ASSUME NEW r \in Reports, Held(r)
      PROVE  tlsRow[r].wait \in {"lease", "none"}
  <2>1. PICK w \in JobWorkers : worker[w].report = r
    BY <1>2 DEF Held
  <2>2. r # NoReport
    BY TlsConstants
  <2> QED
    BY <2>1, <2>2 DEF ReportsKept, HandKept
<1>3. \A r \in Reports : ReportExists(r)' = ReportExists(r)
  BY DEF ReportExists
<1> QED
  BY <1>1, <1>2, <1>3, RowsKeep

\* Starting a run keeps the reports accounted for.
LEMMA StartRunKeeps ==
    ASSUME ReportsKept, NEW p \in Jobs, StartRun(p)
    PROVE  ReportsKept'
<1> DEFINE expired == {r \in Reports : ReportExists(r) /\ 0 < today - Retention}
<1>1. /\ run' = [run EXCEPT ![p].at = "started"]
      /\ tlsRow' = [r \in Reports |-> IF r \in expired THEN NoTlsReport ELSE tlsRow[r]]
      /\ gone' = [r \in Reports |-> IF r \in expired THEN "expired" ELSE gone[r]]
      /\ UNCHANGED <<today, worker, got, settled, tries, lost>>
  BY DEF StartRun
<1> HIDE DEF expired
<1>2. TlsTyped'
  <2>1. NoTlsReport \in TlsRows
    BY DEF NoTlsReport, TlsRows
  <2>2. tlsRow' \in [Reports -> TlsRows]
    BY <1>1, <2>1 DEF ReportsKept, TlsTyped
  <2>3. gone' \in [Reports -> GoneFor]
    BY <1>1 DEF ReportsKept, TlsTyped, GoneFor
  <2>4. run' \in [Jobs -> TlsRunRecords]
    BY <1>1, RunRecords DEF ReportsKept, TlsTyped
  <2> QED
    BY <1>1, <2>2, <2>3, <2>4 DEF ReportsKept, TlsTyped
<1>3. ASSUME NEW r \in Reports, Held(r)
      PROVE  tlsRow[r].wait \in {"lease", "none"}
  <2>1. PICK w \in JobWorkers : worker[w].report = r
    BY <1>3 DEF Held
  <2>2. r # NoReport
    BY TlsConstants
  <2> QED
    BY <2>1, <2>2 DEF ReportsKept, HandKept
<1>4. \A r \in Reports \ expired : /\ tlsRow'[r] = tlsRow[r] /\ gone'[r] = gone[r]
                                   /\ ReportExists(r)' = ReportExists(r)
  BY <1>1 DEF ReportExists
<1>5. \A r \in Reports : r \in expired => tlsRow'[r] = NoTlsReport /\ gone'[r] = "expired"
  BY <1>1
<1> QED
  BY <1>1, <1>2, <1>3, <1>4, <1>5, RowsKeep

\* Deferring what a run leaves unsent keeps the reports accounted for.
LEMMA DeferKeeps ==
    ASSUME ReportsKept, NEW p \in Jobs, DeferUnsentReports(p)
    PROVE  ReportsKept'
<1>1. /\ run' = [run EXCEPT ![p] = NoRun]
      /\ UNCHANGED <<today, worker, got, settled, tries, lost, gone>>
  BY DEF DeferUnsentReports, ledger
<1>2. PICK deferred \in SUBSET {r \in Reports : tlsRow[r].wait \in {"lease", "backoff"}} :
         tlsRow' = [r \in Reports |->
                    IF tlsRow[r].wait = "due" /\ tlsRow[r].from <= today
                    THEN [tlsRow[r] EXCEPT !.from = today + 1]
                    ELSE IF r \in deferred
                    THEN [tlsRow[r] EXCEPT !.from = today + 1,
                                        !.wait = IF Held(r) THEN "lease" ELSE "due"]
                    ELSE tlsRow[r]]
  BY DEF DeferUnsentReports
<1>3. tlsRow \in [Reports -> TlsRows] /\ today + 1 \in Nat
  BY TlsConstants DEF ReportsKept, TlsTyped
<1>4. ASSUME NEW r \in Reports, Held(r)
      PROVE  tlsRow[r].wait \in {"lease", "none"}
  <2>1. PICK w \in JobWorkers : worker[w].report = r
    BY <1>4 DEF Held
  <2>2. r # NoReport
    BY TlsConstants
  <2> QED
    BY <2>1, <2>2 DEF ReportsKept, HandKept
<1>5. ASSUME NEW r \in Reports
      PROVE  /\ tlsRow'[r] \in TlsRows
             /\ tlsRow'[r].done = tlsRow[r].done /\ tlsRow'[r].attempts = tlsRow[r].attempts
             /\ tlsRow'[r].wait = "none" <=> tlsRow[r].wait = "none"
             /\ Held(r) => tlsRow'[r].wait \in {"lease", "none"}
  <2>1. PICK old \in TlsRows : old = tlsRow[r]
    BY <1>3
  <2>2. PICK day \in Nat : day = today + 1
    BY <1>3
  <2>3. PICK new : new = tlsRow'[r]
    OBVIOUS
  <2>4. CASE old.wait = "due" /\ old.from <= today
    <3>1. new = [old EXCEPT !.from = day]
      BY <1>2, <2>1, <2>2, <2>3, <2>4
    <3>2. new \in TlsRows /\ new.done = old.done /\ new.attempts = old.attempts /\ new.wait = old.wait
      BY <3>1 DEF TlsRows
    <3> QED
      BY <1>4, <2>1, <2>3, <2>4, <3>2
  <2>5. CASE ~(old.wait = "due" /\ old.from <= today) /\ r \in deferred
    <3>1. PICK wt \in {"lease", "due"} : wt = IF Held(r) THEN "lease" ELSE "due"
      OBVIOUS
    <3>2. new = [old EXCEPT !.from = day, !.wait = wt]
      BY <1>2, <2>1, <2>2, <2>3, <2>5, <3>1
    <3>3. new \in TlsRows /\ new.done = old.done /\ new.attempts = old.attempts /\ new.wait = wt
      BY <3>2 DEF TlsRows
    <3>4. old.wait # "none"
      BY <1>2, <2>1, <2>5
    <3>5. Held(r) => wt = "lease"
      BY <3>1
    <3> QED
      BY <2>1, <2>3, <3>3, <3>4, <3>5
  <2>6. CASE ~(old.wait = "due" /\ old.from <= today) /\ r \notin deferred
    <3>1. new = old
      BY <1>2, <2>1, <2>3, <2>6
    <3> QED
      BY <1>4, <2>1, <2>3, <3>1
  <2> QED
    BY <2>4, <2>5, <2>6
<1>6. TlsTyped'
  <2>1. tlsRow' \in [Reports -> TlsRows]
    <3>1. DOMAIN tlsRow' = Reports /\ tlsRow' = [r \in Reports |-> tlsRow'[r]]
      BY <1>2
    <3> QED
      BY <1>5, <3>1
  <2>2. run' \in [Jobs -> TlsRunRecords]
    BY <1>1, RunRecords DEF ReportsKept, TlsTyped
  <2> QED
    BY <1>1, <2>1, <2>2 DEF ReportsKept, TlsTyped
<1>7. \A r \in Reports : ReportExists(r)' = ReportExists(r)
  BY <1>5 DEF ReportExists
<1> QED
  BY <1>1, <1>5, <1>6, <1>7, RowsKeep

\* A lease or a back-off that ends keeps the reports accounted for.
LEMMA WaitOverKeeps ==
    ASSUME ReportsKept, NEW r \in Reports, WaitOver(r)
    PROVE  ReportsKept'
<1>1. /\ tlsRow[r].wait \in {"lease", "backoff"} /\ ~Held(r)
      /\ tlsRow' = [tlsRow EXCEPT ![r].wait = "due"]
      /\ UNCHANGED <<today, run, worker, got, settled, tries, lost, gone>>
  BY DEF WaitOver, ledger
<1>2. tlsRow \in [Reports -> TlsRows]
  BY DEF ReportsKept, TlsTyped
<1>3. PICK old \in TlsRows : old = tlsRow[r]
  BY <1>2
<1>4. PICK new : new = tlsRow'[r]
  OBVIOUS
<1>5. new = [old EXCEPT !.wait = "due"] /\ \A q \in Reports \ {r} : tlsRow'[q] = tlsRow[q]
  BY <1>1, <1>2, <1>3, <1>4
<1>6. new \in TlsRows /\ new.wait = "due" /\ new.done = old.done /\ new.attempts = old.attempts
  BY <1>5 DEF TlsRows
<1>7. TlsTyped'
  <2>1. tlsRow' \in [Reports -> TlsRows]
    BY <1>1, <1>2, <1>4, <1>5, <1>6
  <2> QED
    BY <1>1, <2>1 DEF ReportsKept, TlsTyped
<1>8. ASSUME NEW q \in Reports, Held(q)
      PROVE  tlsRow[q].wait \in {"lease", "none"}
  <2>1. PICK w \in JobWorkers : worker[w].report = q
    BY <1>8 DEF Held
  <2>2. q # NoReport
    BY TlsConstants
  <2> QED
    BY <2>1, <2>2 DEF ReportsKept, HandKept
<1>9. \A q \in Reports : ReportExists(q)' = ReportExists(q)
  BY <1>1, <1>3, <1>4, <1>5, <1>6 DEF ReportExists
<1> QED
  BY <1>1, <1>3, <1>4, <1>5, <1>6, <1>7, <1>8, <1>9, RowsKeep

\* Every step of a run keeps the reports accounted for.
LEMMA RunStepsKeep ==
    ASSUME ReportsKept, NEW p \in Jobs, RunStep(p)
    PROVE  ReportsKept'
<1>1. /\ run \in [Jobs -> TlsRunRecords] /\ today \in TlsDays
      /\ run[p] \in TlsRunRecords
  BY DEF ReportsKept, TlsTyped
<1>2. CASE CheckCap(p) \/ BudgetEnds(p) \/ ClaimNone(p) \/ RunEnds(p)
  <2>1. UNCHANGED <<today, worker, tlsRow, got, settled, tries, lost, gone>>
    BY <1>2 DEF CheckCap, BudgetEnds, ClaimNone, RunEnds, ledger
  <2>2. CASE CheckCap(p)
    <3>1. PICK a \in {"capping", "delivering"} : run' = [run EXCEPT ![p].at = a]
      BY <2>2 DEF CheckCap
    <3>2. run' \in [Jobs -> TlsRunRecords]
      BY <1>1, <3>1, RunRecords
    <3> QED
      BY <1>1, <2>1, <3>2, NothingTouched
  <2>3. CASE BudgetEnds(p)
    <3>1. run' \in [Jobs -> TlsRunRecords]
      BY <1>1, <2>3, RunRecords DEF BudgetEnds
    <3> QED
      BY <1>1, <2>1, <3>1, NothingTouched
  <2>4. CASE ClaimNone(p)
    <3>1. run' \in [Jobs -> TlsRunRecords]
      BY <1>1, <2>4, RunRecords DEF ClaimNone
    <3> QED
      BY <1>1, <2>1, <3>1, NothingTouched
  <2>5. CASE RunEnds(p)
    <3>1. PICK new : /\ run' = [run EXCEPT ![p] = new]
                     /\ new \in {[run[p] EXCEPT !.at = "capping"], NoRun}
      BY <2>5 DEF RunEnds
    <3>2. run' \in [Jobs -> TlsRunRecords]
      BY <1>1, <3>1, RunRecords
    <3> QED
      BY <1>1, <2>1, <3>2, NothingTouched
  <2> QED
    BY <1>2, <2>2, <2>3, <2>4, <2>5
<1> QED
  BY <1>2, StartRunKeeps, DeferKeeps DEF RunStep

\* Every step of a worker keeps the reports accounted for.
LEMMA WorkerStepsKeep ==
    ASSUME ReportsKept, NEW w \in JobWorkers, WorkerStep(w)
    PROVE  ReportsKept'
  BY ClaimKeeps, LookupKeeps, ReleaseKeeps, SuppressedKeeps, ReserveKeeps, AnswersKeep,
     FinishKeeps, FailureKeeps DEF WorkerStep

\* Every step keeps the reports accounted for.
LEMMA NextKeepsReports ==
    ASSUME ReportsKept, [TlsNext]_tlsVars
    PROVE  ReportsKept'
<1>1. CASE NextDay
  <2>1. /\ today' \in TlsDays
        /\ UNCHANGED <<worker, tlsRow, run, got, settled, tries, lost, gone>>
    BY <1>1 DEF NextDay, ledger
  <2>2. run' \in [Jobs -> TlsRunRecords]
    BY <2>1 DEF ReportsKept, TlsTyped
  <2> QED
    BY <2>1, <2>2, NothingTouched
<1>2. CASE UNCHANGED tlsVars
  <2>1. UNCHANGED <<today, worker, tlsRow, run, got, settled, tries, lost, gone>>
    BY <1>2 DEF tlsVars
  <2>2. run' \in [Jobs -> TlsRunRecords] /\ today' \in TlsDays
    BY <2>1 DEF ReportsKept, TlsTyped
  <2> QED
    BY <2>1, <2>2, NothingTouched
<1> QED
  BY <1>1, <1>2, RunStepsKeep, WorkerStepsKeep, WaitOverKeeps DEF TlsNext

\* The first state accounts for its reports.
LEMMA InitKeepsReports == TlsInit => ReportsKept
<1> SUFFICES ASSUME TlsInit
             PROVE  ReportsKept
  OBVIOUS
<1>1. /\ tlsRow = [r \in Reports |-> FreshRow] /\ worker = [w \in JobWorkers |-> IdleWorker]
      /\ run = [p \in Jobs |-> NoRun] /\ today = 1
      /\ got = [x \in Reports \X Ruas |-> 0] /\ settled = [x \in Reports \X Ruas |-> FALSE]
      /\ tries = [r \in Reports |-> 0] /\ lost = [r \in Reports |-> 0]
      /\ gone = [r \in Reports |-> "no"]
  BY DEF TlsInit
<1>2. /\ FreshRow \in TlsRows /\ FreshRow.wait = "due" /\ FreshRow.done = {} /\ FreshRow.attempts = 0
  BY DEF FreshRow, TlsRows
<1>3. TlsTyped
  <2>1. NoRun \in TlsRunRecords /\ "no" \in GoneFor
    BY DEF NoRun, TlsRunRecords, GoneFor
  <2> QED
    BY <1>1, <1>2, <2>1, IdleFields, TlsConstants DEF TlsTyped
<1>4. \A w \in JobWorkers : worker[w] = IdleWorker
  BY <1>1
<1>5. OneHand
  BY <1>4, IdleFields DEF OneHand
<1>6. ASSUME NEW w \in JobWorkers
      PROVE  SendingKept(w) /\ HandKept(w)
  BY <1>4, IdleFields DEF SendingKept, HandKept
<1>7. ASSUME NEW r \in Reports
      PROVE  RowKept(r)
  <2>1. ~Held(r)
    BY <1>4, IdleFields, TlsConstants DEF Held
  <2>2. \A u \in Listed(r) : got[<<r, u>>] = 0
    BY <1>1, ListedAreRuas
  <2>3. One(Held(r)) = 0 /\ \A u : One(u \in tlsRow[r].done \/ SentNow(r, u)) \in {0, 1}
    BY <2>1 DEF One
  <2>4. /\ tlsRow[r] = FreshRow /\ gone[r] = "no" /\ tries[r] = 0 /\ lost[r] = 0
    BY <1>1
  <2> QED
    BY <1>2, <2>2, <2>3, <2>4 DEF RowKept
<1> QED
  BY <1>3, <1>5, <1>6, <1>7 DEF ReportsKept

\* The invariant says what ReportsAreAccounted says.
LEMMA KeptIsAccounted == ReportsKept => ReportsAreAccounted
<1> SUFFICES ASSUME ReportsKept
             PROVE  ReportsAreAccounted
  OBVIOUS
<1>1. TlsTypeOK
  <2>1. ASSUME NEW r \in Reports
        PROVE  /\ tlsRow[r].wait \in {"none", "due", "lease", "backoff"}
               /\ tlsRow[r].done \subseteq Listed(r)
    BY RowFields DEF ReportsKept, TlsTyped, RowKept
  <2>2. ASSUME NEW r \in Reports
        PROVE  Cardinality({w \in JobWorkers : worker[w].report = r}) <= 1
    <3> DEFINE hands == {w \in JobWorkers : worker[w].report = r}
    <3>1. r # NoReport
      BY TlsConstants
    <3>2. \A v \in hands, w \in hands : v = w
      BY <3>1 DEF ReportsKept, OneHand
    <3> HIDE DEF hands
    <3>3. CASE hands = {}
      BY <3>3, FS_EmptySet DEF hands
    <3>4. CASE hands # {}
      <4>1. PICK w : hands = {w}
        BY <3>2, <3>4
      <4>2. Cardinality(hands) = 1
        BY <4>1, FS_Singleton
      <4> QED
        BY <4>2 DEF hands
    <3> QED
      BY <3>3, <3>4
  <2>3. \A w \in JobWorkers : worker[w].at \in {"idle", "lookup", "next", "sending"}
    BY WorkerFields DEF ReportsKept, TlsTyped
  <2>4. \A p \in Jobs : run[p].at \in {"idle", "started", "delivering", "capping"}
    <3>1. \A n \in TlsRunRecords : n.at \in {"idle", "started", "delivering", "capping"}
      BY DEF TlsRunRecords
    <3> QED
      BY <3>1 DEF ReportsKept, TlsTyped
  <2>5. today \in TlsDays
    BY DEF ReportsKept, TlsTyped
  <2> QED
    BY <2>1, <2>2, <2>3, <2>4, <2>5 DEF TlsTypeOK
<1>2. NotTwice
  BY DEF NotTwice, ReportsKept, RowKept
<1>3. AttemptsAreTries
  BY DEF AttemptsAreTries, ReportsKept, RowKept, One
<1>4. ServedIsServed
  BY DEF ServedIsServed, ReportsKept, RowKept, ServedTo
<1> QED
  BY <1>1, <1>2, <1>3, <1>4 DEF ReportsAreAccounted

\* For any reports, addresses, replicas and workers: an address gets a report at
\* most once and once more per worker that died before it recorded a delivery,
\* a report's attempts are the tries that failed, and a report deleted as served
\* has reached all its addresses (deliverReport of tls-rpt-deliver.service.ts
\* and the claims, deferrals and retries of tls-rpt-store.service.ts).
THEOREM ReportsStayAccounted == TlsSpec => []ReportsAreAccounted
<1>1. TlsInit => ReportsKept
  BY InitKeepsReports
<1>2. ReportsKept /\ [TlsNext]_tlsVars => ReportsKept'
  BY NextKeepsReports
<1>3. ReportsKept => ReportsAreAccounted
  BY KeptIsAccounted
<1> QED
  BY <1>1, <1>2, <1>3, PTL DEF TlsSpec

-----------------------------------------------------------------------------
\* The image of a finite set is finite.
LEMMA ImageIsFinite ==
    ASSUME NEW S, IsFiniteSet(S), NEW f
    PROVE  IsFiniteSet({f[x] : x \in S})
<1> DEFINE T == {f[x] : x \in S}
           g == [x \in S |-> f[x]]
<1>1. g \in Surjection(S, T)
  BY DEF Surjection
<1> HIDE DEF g
<1> QED
  BY <1>1, FS_Surjection

\* Finitely many reports publish finitely many addresses.
LEMMA DestinationsAreFew == IsFiniteSet(Destinations)
<1>1. ASSUME NEW r \in Reports
      PROVE  IsFiniteSet(Listed(r))
  <2>1. Len(RuaOf[r]) \in Nat
    BY TlsConstants
  <2>2. IsFiniteSet(1..Len(RuaOf[r]))
    BY <2>1, FS_Interval
  <2> QED
    BY <2>2, ImageIsFinite DEF Listed
<1> DEFINE lists == {Listed(r) : r \in Reports}
           f == [r \in Reports |-> Listed(r)]
<1>2. lists = {f[r] : r \in Reports}
  OBVIOUS
<1>3. \A L \in lists : IsFiniteSet(L)
  BY <1>1
<1>4. Ruas = UNION lists
  BY DEF Ruas
<1> HIDE DEF lists, f
<1>5. IsFiniteSet(lists)
  BY <1>2, TlsConstants, ImageIsFinite
<1>6. IsFiniteSet(Ruas)
  BY <1>3, <1>4, <1>5, FS_UNION
<1> QED
  BY <1>6, ImageIsFinite DEF Destinations

\* A sum of zeros.
LEMMA SumOfZeros ==
    ASSUME NEW S, IsFiniteSet(S)
    PROVE  SumFunctionOnSet([x \in S |-> 0], S) = 0
<1> DEFINE f == [x \in S |-> 0]
           N == {n \in Nat : \A s \in SUBSET S : Cardinality(s) <= n => SumFunctionOnSet(f, s) = 0}
<1>0. \A x \in S : f[x] = 0
  OBVIOUS
<1> HIDE DEF f
<1>1. \A s \in SUBSET S : IsFiniteSet(s)
  BY FS_Subset
<1>2. 0 \in N
  <2> SUFFICES ASSUME NEW s \in SUBSET S, Cardinality(s) <= 0
               PROVE  SumFunctionOnSet(f, s) = 0
    OBVIOUS
  <2>1. s = {}
    BY RestIsLess
  <2> QED
    BY <1>1, <2>1, SumUnfolds
<1>3. ASSUME NEW n \in N
      PROVE  n + 1 \in N
  <2> SUFFICES ASSUME NEW s \in SUBSET S, Cardinality(s) <= n + 1
               PROVE  SumFunctionOnSet(f, s) = 0
    OBVIOUS
  <2>1. CASE s = {}
    BY <1>1, <2>1, SumUnfolds
  <2>2. CASE s # {}
    <3>1. First(s) \in S /\ Rest(s) \in SUBSET S /\ Cardinality(Rest(s)) <= n
      BY <2>2, RestIsLess
    <3>2. SumFunctionOnSet(f, Rest(s)) = 0
      BY <1>3, <3>1
    <3>3. SumFunctionOnSet(f, s) = f[First(s)] + SumFunctionOnSet(f, Rest(s))
      BY <1>1, <2>2, SumUnfolds
    <3>4. f[First(s)] = 0
      BY <1>0, <3>1
    <3> QED
      BY <3>2, <3>3, <3>4
  <2> QED
    BY <2>1, <2>2
<1>4. N = Nat
  <2> HIDE DEF N
  <2>1. N \in SUBSET Nat
    BY DEF N
  <2> QED
    BY <1>2, <1>3, <2>1, NaturalsBySteps
<1>5. Cardinality(S) \in Nat
  BY FS_CardinalityType
<1>6. SumFunctionOnSet(f, S) = 0
  BY <1>4, <1>5
<1> QED
  BY <1>6 DEF f

\* The slots of a day are a number ...
LEMMA SlotsType ==
    ASSUME NEW slots \in [TlsDays \X Destinations -> Int], NEW d \in TlsDays
    PROVE  SlotsOn(slots, d) \in Int
<1> DEFINE f == [x \in Destinations |-> slots[<<d, x>>]]
<1>1. f \in [Destinations -> Int]
  OBVIOUS
<1>2. SlotsOn(slots, d) = SumFunctionOnSet(f, Destinations)
  BY DEF SlotsOn
<1> HIDE DEF f
<1> QED
  BY <1>1, <1>2, DestinationsAreFew, SumType

\* ... that a change at one destination changes by as much.
Adds(slots, new, t, z, n) == new = [slots EXCEPT ![<<t, z>>] = @ + n]
AddedUp(slots, new, t, z, n) ==
    /\ new \in [TlsDays \X Destinations -> Int]
    /\ \A d \in TlsDays : SlotsOn(new, d) = SlotsOn(slots, d) + (IF d = t THEN n ELSE 0)
    /\ \A d \in TlsDays, x \in Destinations :
          new[<<d, x>>] = slots[<<d, x>>] + (IF d = t /\ x = z THEN n ELSE 0)

\* A slot more for a destination is a slot more in the sums it is part of.
LEMMA SlotsChange ==
    ASSUME NEW slots \in [TlsDays \X Destinations -> Int], NEW t \in TlsDays, NEW z \in Destinations,
           NEW n \in Int, NEW new, Adds(slots, new, t, z, n)
    PROVE  AddedUp(slots, new, t, z, n)
<1> USE DEF Adds
<1>1. <<t, z>> \in TlsDays \X Destinations /\ slots[<<t, z>>] + n \in Int
  OBVIOUS
<1>2. new \in [TlsDays \X Destinations -> Int]
  BY <1>1
<1>3. \A d \in TlsDays, x \in Destinations :
         new[<<d, x>>] = slots[<<d, x>>] + (IF d = t /\ x = z THEN n ELSE 0)
  BY <1>1
<1>4. ASSUME NEW d \in TlsDays
      PROVE  SlotsOn(new, d) = SlotsOn(slots, d) + (IF d = t THEN n ELSE 0)
  <2> DEFINE f == [x \in Destinations |-> slots[<<d, x>>]]
             h == [x \in Destinations |-> new[<<d, x>>]]
  <2>1. f \in [Destinations -> Int] /\ h \in [Destinations -> Int]
    BY <1>2
  <2>2. \A x \in Destinations : h[x] = f[x] + (IF d = t /\ x = z THEN n ELSE 0) /\ f[x] \in Int
    BY <1>3
  <2>3. SlotsOn(slots, d) = SumFunctionOnSet(f, Destinations) /\ SlotsOn(new, d) = SumFunctionOnSet(h, Destinations)
    BY DEF SlotsOn
  <2> HIDE DEF f, h
  <2>4. SumFunctionOnSet(f, Destinations) \in Int
    BY <2>1, DestinationsAreFew, SumType
  <2>5. DiffersAt(f, h, Destinations, z) /\ h[z] - f[z] = (IF d = t THEN n ELSE 0)
    BY <2>2 DEF DiffersAt
  <2>6. SumFunctionOnSet(h, Destinations) = SumFunctionOnSet(f, Destinations) + (h[z] - f[z])
    BY <2>1, <2>5, DestinationsAreFew, SumChangesAt
  <2> QED
    BY <2>3, <2>5, <2>6
<1> QED
  BY <1>2, <1>3, <1>4 DEF AddedUp

\* Counters that no step touches.
LEMMA CountersStay ==
    ASSUME CapsKept, UNCHANGED counters
    PROVE  CapsKept'
  BY DEF CapsKept, SlotsTyped, DayKept, SlotsOn, counters

\* A reserved slot fits both caps.
LEMMA ReservedKeeps ==
    ASSUME CapsKept, NEW t \in TlsDays, NEW z \in Destinations, t = today,
           ReserveSend(z) = "reserved",
           daySends' = [daySends EXCEPT ![t] = @ + 1],
           destSends' = [destSends EXCEPT ![<<t, z>>] = @ + 1],
           taken' = [taken EXCEPT ![<<t, z>>] = @ + 1],
           strays' = strays
    PROVE  CapsKept'
<1>1. /\ daySends \in [TlsDays -> Nat] /\ destSends \in [TlsDays \X Destinations -> Nat]
      /\ taken \in [TlsDays \X Destinations -> Int] /\ strays \in [TlsDays \X Destinations -> Int]
      /\ PerDay \in Nat /\ PerDestination \in Nat
  BY TlsConstants DEF CapsKept, SlotsTyped
<1>2. daySends[t] < PerDay /\ destSends[<<t, z>>] < PerDestination
  <2>1. daySends[t] \in Nat /\ destSends[<<t, z>>] \in Nat
    BY <1>1
  <2> QED
    BY <1>1, <2>1 DEF ReserveSend, DailySendCapReached
<1>3. PICK old \in [TlsDays \X Destinations -> Int] : old = taken
  BY <1>1
<1>4. PICK new : new = taken'
  OBVIOUS
<1>5. Adds(old, new, t, z, 1)
  BY <1>3, <1>4 DEF Adds
<1>6. /\ new \in [TlsDays \X Destinations -> Int]
      /\ \A d \in TlsDays : SlotsOn(new, d) = SlotsOn(old, d) + (IF d = t THEN 1 ELSE 0)
      /\ \A d \in TlsDays, x \in Destinations :
            new[<<d, x>>] = old[<<d, x>>] + (IF d = t /\ x = z THEN 1 ELSE 0)
  <2>1. AddedUp(old, new, t, z, 1)
    <3>1. /\ old \in [TlsDays \X Destinations -> Int] /\ t \in TlsDays /\ z \in Destinations
          /\ 1 \in Int
      OBVIOUS
    <3> QED
      BY ONLY <1>5, <3>1, SlotsChange
  <2> QED
    BY <2>1 DEF AddedUp
<1>7. /\ daySends' \in [TlsDays -> Nat] /\ destSends' \in [TlsDays \X Destinations -> Nat]
      /\ \A d \in TlsDays : daySends'[d] = daySends[d] + (IF d = t THEN 1 ELSE 0)
      /\ \A d \in TlsDays, x \in Destinations :
            destSends'[<<d, x>>] = destSends[<<d, x>>] + (IF d = t /\ x = z THEN 1 ELSE 0)
  BY <1>1
<1>8. ASSUME NEW d \in TlsDays
      PROVE  DayKept(d)'
  <2>1. /\ daySends[d] \in Nat /\ SlotsOn(taken, d) \in Int /\ SlotsOn(strays, d) \in Int
        /\ SlotsOn(taken, d) = SlotsOn(old, d) /\ SlotsOn(taken, d)' = SlotsOn(new, d)
        /\ SlotsOn(strays, d)' = SlotsOn(strays, d)
    BY <1>1, <1>3, <1>4, SlotsType DEF SlotsOn
  <2>2. DayKept(d)
    BY DEF CapsKept
  <2>3. (daySends[d] <= PerDay)'
    BY <1>1, <1>2, <1>7, <2>1, <2>2 DEF DayKept
  <2>4. (SlotsOn(taken, d) <= daySends[d] + SlotsOn(strays, d))'
    BY <1>6, <1>7, <2>1, <2>2 DEF DayKept
  <2>5. ASSUME NEW x \in Destinations
        PROVE  (/\ destSends[<<d, x>>] <= PerDestination
                /\ taken[<<d, x>>] <= destSends[<<d, x>>] + strays[<<d, x>>])'
    <3>1. destSends[<<d, x>>] \in Nat /\ taken[<<d, x>>] \in Int /\ strays[<<d, x>>] \in Int
      BY <1>1
    <3>2. destSends[<<d, x>>] <= PerDestination /\ taken[<<d, x>>] <= destSends[<<d, x>>] + strays[<<d, x>>]
      BY <2>2 DEF DayKept
    <3> QED
      BY <1>1, <1>2, <1>6, <1>7, <1>3, <1>4, <3>1, <3>2
  <2> QED
    BY <2>3, <2>4, <2>5 DEF DayKept
<1> QED
  BY <1>1, <1>6, <1>7, <1>8, <1>4 DEF CapsKept, SlotsTyped

\* A counter lowered by one stays natural.
LEMMA LowerFacts ==
    ASSUME NEW n \in Nat
    PROVE  Lower(n) \in Nat /\ Lower(n) <= n /\ n - 1 <= Lower(n)
  BY DEF Lower

\* A slot given back, on its day or a later one, keeps the caps.
LEMMA ReleasedKeeps ==
    ASSUME CapsKept, NEW z \in Destinations, NEW on \in TlsDays, today \in TlsDays,
           ReleaseSend(z, on)
    PROVE  CapsKept'
<1>1. /\ daySends \in [TlsDays -> Nat] /\ destSends \in [TlsDays \X Destinations -> Nat]
      /\ taken \in [TlsDays \X Destinations -> Int] /\ strays \in [TlsDays \X Destinations -> Int]
      /\ PerDay \in Nat /\ PerDestination \in Nat
  BY TlsConstants DEF CapsKept, SlotsTyped
<1>2. PICK t \in TlsDays : t = today
  OBVIOUS
<1>3. /\ daySends' = [daySends EXCEPT ![t] = Lower(@)]
      /\ destSends' = [destSends EXCEPT ![<<t, z>>] = Lower(@)]
      /\ taken' = [taken EXCEPT ![<<on, z>>] = @ + (-1)]
      /\ strays' = IF on = t THEN strays ELSE [strays EXCEPT ![<<t, z>>] = @ + 1]
  <2>1. taken[<<on, z>>] - 1 = taken[<<on, z>>] + (-1)
    BY <1>1
  <2> QED
    BY <1>2, <2>1 DEF ReleaseSend
<1>4. PICK old \in [TlsDays \X Destinations -> Int], back \in [TlsDays \X Destinations -> Int] :
         old = taken /\ back = strays
  BY <1>1
<1>5. PICK new, later : new = taken' /\ later = strays'
  OBVIOUS
<1>6. /\ new = [old EXCEPT ![<<on, z>>] = @ + (-1)]
      /\ later = IF on = t THEN back ELSE [back EXCEPT ![<<t, z>>] = @ + 1]
  BY <1>3, <1>4, <1>5
<1>7. /\ new \in [TlsDays \X Destinations -> Int]
      /\ \A d \in TlsDays : SlotsOn(new, d) = SlotsOn(old, d) + (IF d = on THEN -1 ELSE 0)
      /\ \A d \in TlsDays, x \in Destinations :
            new[<<d, x>>] = old[<<d, x>>] + (IF d = on /\ x = z THEN -1 ELSE 0)
  <2>1. Adds(old, new, on, z, -1)
    BY <1>6 DEF Adds
  <2>2. AddedUp(old, new, on, z, -1)
    BY <2>1, SlotsChange
  <2> QED
    BY <2>2 DEF AddedUp
<1>8. /\ later \in [TlsDays \X Destinations -> Int]
      /\ \A d \in TlsDays : SlotsOn(later, d) = SlotsOn(back, d) + (IF on # t /\ d = t THEN 1 ELSE 0)
      /\ \A d \in TlsDays, x \in Destinations :
            later[<<d, x>>] = back[<<d, x>>] + (IF on # t /\ d = t /\ x = z THEN 1 ELSE 0)
  <2>1. CASE on = t
    <3>1. later = back
      BY <1>6, <2>1
    <3>2. \A d \in TlsDays : SlotsOn(back, d) \in Int
      BY SlotsType
    <3> QED
      BY <2>1, <3>1, <3>2
  <2>2. CASE on # t
    <3>1. Adds(back, later, t, z, 1)
      BY <1>6, <2>2 DEF Adds
    <3>2. /\ later \in [TlsDays \X Destinations -> Int]
          /\ \A d \in TlsDays : SlotsOn(later, d) = SlotsOn(back, d) + (IF d = t THEN 1 ELSE 0)
          /\ \A d \in TlsDays, x \in Destinations :
                later[<<d, x>>] = back[<<d, x>>] + (IF d = t /\ x = z THEN 1 ELSE 0)
      <4>1. AddedUp(back, later, t, z, 1)
        BY <3>1, SlotsChange
      <4> QED
        BY <4>1 DEF AddedUp
    <3> QED
      BY <2>2, <3>2
  <2> QED
    BY <2>1, <2>2
<1>9. /\ daySends' \in [TlsDays -> Nat] /\ destSends' \in [TlsDays \X Destinations -> Nat]
      /\ \A d \in TlsDays : daySends'[d] = IF d = t THEN Lower(daySends[d]) ELSE daySends[d]
      /\ \A d \in TlsDays, x \in Destinations :
            destSends'[<<d, x>>] = IF d = t /\ x = z THEN Lower(destSends[<<d, x>>]) ELSE destSends[<<d, x>>]
  <2>1. Lower(daySends[t]) \in Nat /\ Lower(destSends[<<t, z>>]) \in Nat
    BY <1>1, LowerFacts
  <2> QED
    BY <1>1, <1>3, <2>1
<1>10. ASSUME NEW d \in TlsDays
      PROVE  DayKept(d)'
  <2>1. /\ daySends[d] \in Nat /\ SlotsOn(taken, d) \in Int /\ SlotsOn(strays, d) \in Int
        /\ SlotsOn(taken, d) = SlotsOn(old, d) /\ SlotsOn(taken, d)' = SlotsOn(new, d)
        /\ SlotsOn(strays, d) = SlotsOn(back, d) /\ SlotsOn(strays, d)' = SlotsOn(later, d)
    BY <1>1, <1>4, <1>5, SlotsType DEF SlotsOn
  <2>2. DayKept(d)
    BY DEF CapsKept
  <2>3. Lower(daySends[d]) \in Nat /\ Lower(daySends[d]) <= daySends[d] /\ daySends[d] - 1 <= Lower(daySends[d])
    BY <2>1, LowerFacts
  <2>4. (daySends[d] <= PerDay)'
    BY <1>1, <1>9, <2>1, <2>2, <2>3 DEF DayKept
  <2>5. (SlotsOn(taken, d) <= daySends[d] + SlotsOn(strays, d))'
    BY <1>7, <1>8, <1>9, <2>1, <2>2, <2>3 DEF DayKept
  <2>6. ASSUME NEW x \in Destinations
        PROVE  (/\ destSends[<<d, x>>] <= PerDestination
                /\ taken[<<d, x>>] <= destSends[<<d, x>>] + strays[<<d, x>>])'
    <3>1. destSends[<<d, x>>] \in Nat /\ taken[<<d, x>>] \in Int /\ strays[<<d, x>>] \in Int
      BY <1>1
    <3>2. destSends[<<d, x>>] <= PerDestination /\ taken[<<d, x>>] <= destSends[<<d, x>>] + strays[<<d, x>>]
      BY <2>2 DEF DayKept
    <3>3. /\ Lower(destSends[<<d, x>>]) \in Nat /\ Lower(destSends[<<d, x>>]) <= destSends[<<d, x>>]
          /\ destSends[<<d, x>>] - 1 <= Lower(destSends[<<d, x>>])
      BY <3>1, LowerFacts
    <3> QED
      BY <1>1, <1>4, <1>5, <1>7, <1>8, <1>9, <3>1, <3>2, <3>3
  <2> QED
    BY <2>4, <2>5, <2>6 DEF DayKept
<1> QED
  BY <1>5, <1>7, <1>8, <1>9, <1>10 DEF CapsKept, SlotsTyped

\* Every step keeps the caps.
LEMMA NextKeepsCaps ==
    ASSUME ReportsKept, CapsKept, [TlsNext]_tlsVars
    PROVE  CapsKept'
<1>1. today \in TlsDays
  BY DEF ReportsKept, TlsTyped
<1>2. ASSUME NEW u \in Ruas
      PROVE  DestinationOf[u] \in Destinations
  BY DEF Destinations
<1>3. ASSUME NEW w \in JobWorkers, Reserve(w)
      PROVE  CapsKept'
  <2>1. PICK u, z : u = NextRua(w) /\ z = DestinationOf[u]
    OBVIOUS
  <2>2. worker[w].at = "next" /\ RuasAhead(w) # {}
    BY <1>3 DEF Reserve
  <2>3. u \in Ruas
    <3>1. PICK r : r = worker[w].report
      OBVIOUS
    <3>2. r \in Reports
      BY <2>2, <3>1, InHand
    <3>3. worker[w].at # "idle"
      BY <2>2
    <3>4. PICK i : NextRua(w) = RuaOf[r][i] /\ RuaOf[r][i] \in Listed(r)
      BY <2>2, <3>1, <3>3, NextAddress
    <3> QED
      BY <2>1, <3>2, <3>4, ListedAreRuas
  <2>4. z \in Destinations
    BY <1>2, <2>1, <2>3
  <2>5. \/ UNCHANGED counters
        \/ /\ ReserveSend(z) = "reserved"
           /\ daySends' = [daySends EXCEPT ![today] = @ + 1]
           /\ destSends' = [destSends EXCEPT ![<<today, z>>] = @ + 1]
           /\ taken' = [taken EXCEPT ![<<today, z>>] = @ + 1]
           /\ strays' = strays
    BY <1>3, <2>1 DEF Reserve
  <2> QED
    BY <1>1, <2>4, <2>5, CountersStay, ReservedKeeps
<1>4. ASSUME NEW w \in JobWorkers, Skipped(w)
      PROVE  CapsKept'
  <2>1. worker[w].at = "sending" /\ ReleaseSend(DestinationOf[worker[w].rua], worker[w].on)
    BY <1>4 DEF Skipped
  <2>2. worker[w].rua \in Ruas /\ worker[w].on \in TlsDays
    BY <2>1, ListedAreRuas DEF ReportsKept, SendingKept
  <2> QED
    BY <1>1, <1>2, <2>1, <2>2, ReleasedKeeps
<1>5. ASSUME NEW w \in JobWorkers, WorkerStep(w), ~Reserve(w), ~Skipped(w)
      PROVE  UNCHANGED counters
  BY <1>5 DEF WorkerStep, ClaimOne, LookupRecord, ReleaseReport, SkipSuppressed, Delivered,
              NotDelivered, FinishReport, HandlingFails
<1>6. ASSUME NEW p \in Jobs, RunStep(p)
      PROVE  UNCHANGED counters
  BY <1>6 DEF RunStep, StartRun, CheckCap, BudgetEnds, ClaimNone, RunEnds, DeferUnsentReports
<1>7. ASSUME NEW r \in Reports, WaitOver(r)
      PROVE  UNCHANGED counters
  BY <1>7 DEF WaitOver
<1>8. NextDay => UNCHANGED counters
  BY DEF NextDay
<1>9. UNCHANGED tlsVars => UNCHANGED counters
  BY DEF tlsVars, counters
<1> QED
  BY <1>3, <1>4, <1>5, <1>6, <1>7, <1>8, <1>9, CountersStay DEF TlsNext

\* The first state has given out no slot.
LEMMA InitKeepsCaps == TlsInit => CapsKept
<1> SUFFICES ASSUME TlsInit
             PROVE  CapsKept
  OBVIOUS
<1>1. /\ daySends = [d \in TlsDays |-> 0]
      /\ destSends = [x \in TlsDays \X Destinations |-> 0]
      /\ taken = [x \in TlsDays \X Destinations |-> 0]
      /\ strays = [x \in TlsDays \X Destinations |-> 0]
  BY DEF TlsInit
<1>2. PerDay \in Nat /\ PerDestination \in Nat
  BY TlsConstants
<1>3. ASSUME NEW d \in TlsDays
      PROVE  SlotsOn(taken, d) = 0 /\ SlotsOn(strays, d) = 0
  <2>1. /\ [x \in Destinations |-> taken[<<d, x>>]] = [x \in Destinations |-> 0]
        /\ [x \in Destinations |-> strays[<<d, x>>]] = [x \in Destinations |-> 0]
    BY <1>1
  <2> QED
    BY <2>1, DestinationsAreFew, SumOfZeros DEF SlotsOn
<1> QED
  BY <1>1, <1>2, <1>3 DEF CapsKept, SlotsTyped, DayKept

\* The invariant says what CapsHold says.
LEMMA KeptAreCaps == CapsKept => CapsHold
<1> SUFFICES ASSUME CapsKept, NEW d \in TlsDays
             PROVE  /\ SlotsOn(taken, d) <= PerDay + SlotsOn(strays, d)
                    /\ \A x \in Destinations : taken[<<d, x>>] <= PerDestination + strays[<<d, x>>]
  BY DEF CapsHold
<1>1. /\ daySends[d] \in Nat /\ SlotsOn(taken, d) \in Int /\ SlotsOn(strays, d) \in Int
      /\ PerDay \in Nat /\ PerDestination \in Nat
      /\ \A x \in Destinations : /\ destSends[<<d, x>>] \in Nat /\ taken[<<d, x>>] \in Int
                                 /\ strays[<<d, x>>] \in Int
  BY SlotsType, TlsConstants DEF CapsKept, SlotsTyped
<1> QED
  BY <1>1 DEF CapsKept, DayKept

\* However many workers of however many replicas reserve and release slots, a
\* day and a destination never give out more than their caps, but for slots
\* taken before midnight and given back after it (reserveSend and releaseSend of
\* tls-rpt-store.service.ts).
THEOREM CapsStayKept == TlsSpec => []CapsHold
<1>1. TlsInit => ReportsKept /\ CapsKept
  BY InitKeepsReports, InitKeepsCaps
<1>2. ReportsKept /\ CapsKept /\ [TlsNext]_tlsVars => (ReportsKept /\ CapsKept)'
  BY NextKeepsReports, NextKeepsCaps
<1>3. CapsKept => CapsHold
  BY KeptAreCaps
<1> QED
  BY <1>1, <1>2, <1>3, PTL DEF TlsSpec

-----------------------------------------------------------------------------
(* One email's delivery.                                                   *)

MxHosts == DOMAIN BucketOf
MailKeys == MailDomains \X Nat
EntryRecords == [to : SUBSET Recipients, status : {"retry", "sent", "failed"}, attempts : Nat]
Outcomes == [kind : {"deferred", "hard", "soft", "taken"},
             hard : SUBSET Recipients, soft : SUBSET Recipients]
OutcomeMaps == UNION {[D -> Outcomes] : D \in SUBSET MailKeys}
PlanRecords == [hosts : Seq(MxHosts), keys : SUBSET MailKeys, verified : BOOLEAN,
                todo : SUBSET MailKeys, in : BOOLEAN, spent : BOOLEAN,
                charged : SUBSET (MailKeys \X {BucketOf[h] : h \in MxHosts}), done : OutcomeMaps]

StsTyped ==
    /\ found \in [MailDomains -> AnyPolicy \cup {Unknown}]
    /\ published \in [MailDomains -> AnyPolicy] /\ cached \in [MailDomains -> AnyPolicy]
    /\ lookups \in [MailDomains -> [at : {"idle", "fetching"}, id : 0..MaxPolicies]]
    /\ policies \in 0..MaxPolicies

MailTyped ==
    /\ DOMAIN entries \subseteq MailKeys
    /\ \A k \in DOMAIN entries : entries[k] \in EntryRecords
    /\ sending \in {"idle", "discover", "sessions"} /\ sends \in Nat
    /\ plan \in PlanRecords /\ plans \subseteq PlanRecords
    /\ copies \in [Recipients -> Nat] /\ unanswered \in [Recipients -> Nat]
    /\ spared \in [Recipients -> Nat]

\* An entry is of its key's recipients: a domain's, or the one of that number.
EntryKept(k) ==
    /\ entries[k].to # {}
    /\ \A r \in entries[k].to : DomainOf[r] = k[1] /\ (k[2] # 0 => IndexOf[r] = k[2])

\* Every recipient is in one entry.
InOne ==
    \A r \in Recipients :
        \E k \in DOMAIN entries : /\ r \in entries[k].to
                                  /\ \A l \in DOMAIN entries : r \in entries[l].to => l = k

\* A plan is of entries still to be sent, and keeps the policy of each.
Retries(k) == k \in DOMAIN entries /\ entries[k].status = "retry"
Secured(p, k) == found[k[1]].mode = "enforce" => p.verified /\ p.hosts \in Seq(StsHosts)
PlanRight(p) == \A k \in p.keys : Retries(k) /\ Secured(p, k)
FreshPlan(p) == p.todo = {} /\ DOMAIN p.done = {} /\ ~p.in

\* No entry is in two plans.
Apart ==
    \A p \in plans : /\ p.keys \cap plan.keys = {}
                     /\ \A q \in plans : p # q => p.keys \cap q.keys = {}

OutcomeRight(k, o) ==
    /\ o.kind = "taken" => /\ o.hard \cup o.soft \subseteq entries[k].to
                           /\ entries[k].to \ (o.hard \cup o.soft) # {}
    /\ o.kind # "taken" => o.hard = {} /\ o.soft = {}
    /\ o.kind = "hard" => entries[k].to \subseteq refusedFor
    /\ o.hard \subseteq refusedFor

\* The plan in progress.
SessionKept ==
    /\ plan.todo \subseteq plan.keys /\ plan.todo \cap DOMAIN plan.done = {}
    /\ DOMAIN plan.done \subseteq plan.keys
    /\ plan.in => plan.hosts # <<>>
    /\ ~plan.in => plan.todo = {}
    /\ \A k \in DOMAIN plan.done : OutcomeRight(k, plan.done[k])

PlansKept ==
    /\ \A p \in plans : PlanRight(p) /\ FreshPlan(p)
    /\ PlanRight(plan)
    /\ Apart
    /\ sending # "sessions" => plan = NoPlan /\ plans = {}

\* An MX took the message for r in this attempt, and it is not recorded yet.
TakenNow(k, r) ==
    /\ k \in DOMAIN plan.done /\ plan.done[k].kind = "taken"
    /\ r \notin plan.done[k].hard \cup plan.done[k].soft

CopiesTold(k, r) ==
    /\ copies[r] <= 1 + unanswered[r]
    /\ entries[k].status = "sent" => copies[r] > 0
    /\ entries[k].status = "failed" => r \in refusedFor
    /\ entries[k].status = "retry" =>
          IF TakenNow(k, r) THEN copies[r] > 0 ELSE copies[r] <= unanswered[r]

\* The attempt has yet to record an outcome for k.
Pending(k) == sending = "discover" \/ \E p \in plans \cup {plan} : k \in p.keys
TriesTold(k, r) ==
    entries[k].status = "retry" => entries[k].attempts + spared[r] + One(Pending(k)) = sends

EntriesKept == /\ \A k \in DOMAIN entries : EntryKept(k)
               /\ InOne
AllTold ==
    \A k \in DOMAIN entries : \A r \in entries[k].to : CopiesTold(k, r) /\ TriesTold(k, r)

\* The inductive invariant.
MailKept ==
    /\ StsTyped /\ MailTyped
    /\ EntriesKept /\ PlansKept /\ SessionKept
    /\ AllTold
    /\ exposed = {}

-----------------------------------------------------------------------------
\* The fields of an MTA-STS policy, and of having none.
LEMMA PolicyFields ==
    /\ NoPolicy \in AnyPolicy /\ NoPolicy.mode = "none" /\ NoPolicy.id = 0
    /\ Unknown.mode = "unknown" /\ Unknown \notin AnyPolicy
    /\ \A p \in AnyPolicy : p.id \in 0..MaxPolicies /\ p.mode \in {"none", "testing", "enforce"}
    /\ NoLookup \in [at : {"idle", "fetching"}, id : 0..MaxPolicies]
  BY MailConstants DEF NoPolicy, AnyPolicy, Unknown, NoLookup

\* The fields of a ledger entry.
LEMMA EntryFields ==
    ASSUME NEW e \in EntryRecords
    PROVE  /\ e.to \in SUBSET Recipients /\ e.status \in {"retry", "sent", "failed"}
           /\ e.attempts \in Nat
  BY DEF EntryRecords

\* The fields of an outcome.
LEMMA OutcomeFields ==
    ASSUME NEW o \in Outcomes
    PROVE  /\ o.kind \in {"deferred", "hard", "soft", "taken"}
           /\ o.hard \in SUBSET Recipients /\ o.soft \in SUBSET Recipients
  BY DEF Outcomes

\* What a plan has settled: entries and their outcomes.
LEMMA MapFields ==
    ASSUME NEW f \in OutcomeMaps
    PROVE  DOMAIN f \in SUBSET MailKeys /\ \A k \in DOMAIN f : f[k] \in Outcomes
  BY DEF OutcomeMaps

\* A function from entries to outcomes is such a map.
LEMMA MapMade ==
    ASSUME NEW D \in SUBSET MailKeys, NEW f \in [D -> Outcomes]
    PROVE  f \in OutcomeMaps
  BY DEF OutcomeMaps

\* Nothing settled yet.
LEMMA NoOutcomesMap == NoOutcomes \in OutcomeMaps /\ DOMAIN NoOutcomes = {}
<1>1. {} \in SUBSET MailKeys /\ NoOutcomes \in [{} -> Outcomes] /\ DOMAIN NoOutcomes = {}
  BY DEF NoOutcomes
<1> QED
  BY <1>1, MapMade

\* The fields of a plan.
LEMMA PlanFields ==
    ASSUME NEW p \in PlanRecords
    PROVE  /\ p.hosts \in Seq(MxHosts) /\ p.keys \in SUBSET MailKeys /\ p.verified \in BOOLEAN
           /\ p.todo \in SUBSET MailKeys /\ p.in \in BOOLEAN /\ p.spent \in BOOLEAN
           /\ p.charged \in SUBSET (MailKeys \X {BucketOf[h] : h \in MxHosts})
           /\ p.done \in OutcomeMaps
  BY DEF PlanRecords

\* Having no plan is a plan without entries.
LEMMA NoPlanFields ==
    /\ NoPlan \in PlanRecords /\ NoPlan.hosts = <<>> /\ NoPlan.keys = {} /\ NoPlan.todo = {}
    /\ NoPlan.in = FALSE /\ NoPlan.done = NoOutcomes /\ DOMAIN NoPlan.done = {}
<1>1. /\ NoPlan.hosts = <<>> /\ NoPlan.keys = {} /\ NoPlan.todo = {} /\ NoPlan.charged = {}
      /\ NoPlan.in = FALSE /\ NoPlan.done = NoOutcomes /\ NoPlan.verified = FALSE /\ NoPlan.spent = FALSE
  BY DEF NoPlan
<1>2. <<>> \in Seq(MxHosts)
  OBVIOUS
<1>3. NoPlan \in PlanRecords
  BY <1>2, NoOutcomesMap DEF NoPlan, PlanRecords
<1> QED
  BY <1>1, <1>3, NoOutcomesMap

\* The hosts a policy lists are hosts, and it lists them.
LEMMA MatchingHosts ==
    ASSUME NEW hosts \in Seq(MxHosts)
    PROVE  MatchingMxHosts(hosts) \in Seq(MxHosts) /\ MatchingMxHosts(hosts) \in Seq(StsHosts)
<1> DEFINE L == Len(hosts)
           Step(h) == [n \in 0..L |-> IF n = 0 THEN <<>>
                                      ELSE IF hosts[n] \in StsHosts THEN Append(h[n - 1], hosts[n])
                                      ELSE h[n - 1]]
           G == CHOOSE g : g = Step(g)
           Upto(h, m) == \A n \in 0..L : n <= m => h[n] = Step(h)[n]
           N == {m \in Nat : \E h : Upto(h, m)}
<1>1. MatchingMxHosts(hosts) = G[L]
  BY DEF MatchingMxHosts
<1>2. L \in Nat
  OBVIOUS
<1>3. 0 \in N
  <2>1. Upto([n \in 0..L |-> <<>>], 0)
    OBVIOUS
  <2> QED
    BY <2>1
<1>4. ASSUME NEW m \in N
      PROVE  m + 1 \in N
  <2>1. PICK h : Upto(h, m)
    BY <1>4
  <2>2. Upto(Step(h), m + 1)
    <3> SUFFICES ASSUME NEW n \in 0..L, n <= m + 1, n # 0
                 PROVE  h[n - 1] = Step(h)[n - 1]
      OBVIOUS
    <3>1. n - 1 \in 0..L /\ n - 1 <= m
      OBVIOUS
    <3> QED
      BY <2>1, <3>1
  <2> HIDE DEF Step, Upto
  <2>3. m + 1 \in Nat /\ \E g : Upto(g, m + 1)
    BY <2>2
  <2> QED
    BY <2>3
<1>5. N = Nat
  <2> HIDE DEF N
  <2>1. N \in SUBSET Nat
    BY DEF N
  <2> QED
    BY <1>3, <1>4, <2>1, NaturalsBySteps
<1>6. PICK h : Upto(h, L)
  BY <1>2, <1>5
<1> DEFINE w == [n \in 0..L |-> h[n]]
<1>7. w = Step(w)
  BY <1>2, <1>6
<1> HIDE DEF w
<1>8. G = Step(G)
  BY <1>7
<1> HIDE DEF G
<1>9. \A n \in 0..L : G[n] = IF n = 0 THEN <<>>
                             ELSE IF hosts[n] \in StsHosts THEN Append(G[n - 1], hosts[n])
                             ELSE G[n - 1]
  BY <1>8
<1> HIDE DEF Step, Upto, N
<1> DEFINE M == {m \in Nat : m <= L => G[m] \in Seq(MxHosts) /\ G[m] \in Seq(StsHosts)}
<1>10. 0 \in M
  <2>1. 0 \in 0..L /\ <<>> \in Seq(MxHosts) /\ <<>> \in Seq(StsHosts)
    BY <1>2
  <2>2. G[0] = <<>>
    BY <1>9, <2>1
  <2> QED
    BY <2>1, <2>2
<1>11. ASSUME NEW m \in M
       PROVE  m + 1 \in M
  <2> SUFFICES ASSUME m + 1 <= L
               PROVE  G[m + 1] \in Seq(MxHosts) /\ G[m + 1] \in Seq(StsHosts)
    OBVIOUS
  <2>1. m + 1 \in 0..L /\ m + 1 # 0 /\ (m + 1) - 1 = m /\ m <= L /\ hosts[m + 1] \in MxHosts
    BY <1>2
  <2>2. G[m] \in Seq(MxHosts) /\ G[m] \in Seq(StsHosts)
    BY <1>11, <2>1
  <2>3. G[m + 1] = IF hosts[m + 1] \in StsHosts THEN Append(G[m], hosts[m + 1]) ELSE G[m]
    BY <1>9, <2>1
  <2> QED
    BY <2>1, <2>2, <2>3
<1>12. M = Nat
  <2> HIDE DEF M
  <2>1. M \in SUBSET Nat
    BY DEF M
  <2> QED
    BY <1>10, <1>11, <2>1, NaturalsBySteps
<1> QED
  BY <1>1, <1>2, <1>12

-----------------------------------------------------------------------------
\* Steps of the policy discovery leave the email's state alone.
LEMMA StsFrame ==
    ASSUME MailKept, StsTyped', sending = "discover" \/ found' = found,
           UNCHANGED <<entries, sending, plans, plan, sends, copyVars, spared>>
    PROVE  MailKept'
<1>0. UNCHANGED <<copies, unanswered, refusedFor, exposed>>
  BY DEF copyVars
<1>1. MailTyped' /\ SessionKept' /\ EntriesKept' /\ exposed' = {}
  BY <1>0 DEF MailKept, MailTyped, SessionKept, EntriesKept, EntryKept, InOne, OutcomeRight
<1>2. AllTold'
  <2>1. \A k : Pending(k)' = Pending(k) /\ \A r : TakenNow(k, r)' = TakenNow(k, r)
    BY DEF Pending, TakenNow
  <2>2. \A k : One(Pending(k))' = One(Pending(k))
    BY <2>1 DEF One
  <2> QED
    BY <1>0, <2>1, <2>2 DEF MailKept, AllTold, CopiesTold, TriesTold
<1>3. PlansKept'
  <2>1. ASSUME NEW p \in plans \cup {plan}
        PROVE  PlanRight(p)'
    <3>1. CASE sending = "discover"
      <4>1. p.keys = {}
        BY <3>1, NoPlanFields DEF MailKept, PlansKept
      <4> QED
        BY <4>1 DEF PlanRight
    <3>2. CASE found' = found
      <4>1. PlanRight(p)
        BY DEF MailKept, PlansKept
      <4> QED
        BY <3>2, <4>1 DEF PlanRight, Retries, Secured
    <3> QED
      BY <3>1, <3>2
  <2>2. PlanRight(plan)' /\ \A p \in plans' : PlanRight(p)' /\ FreshPlan(p)'
    BY <2>1 DEF MailKept, PlansKept, FreshPlan
  <2> QED
    BY <2>2 DEF MailKept, PlansKept, Apart
<1> QED
  BY <1>1, <1>2, <1>3 DEF MailKept

\* A discovery ends: the policy it found is the cached one, or a new one.
LEMMA DiscoveredTyped ==
    ASSUME StsTyped, NEW d \in MailDomains, NEW p \in AnyPolicy, Discovered(d, p)
    PROVE  /\ found' \in [MailDomains -> AnyPolicy \cup {Unknown}]
           /\ lookups' \in [MailDomains -> [at : {"idle", "fetching"}, id : 0..MaxPolicies]]
           /\ sending = "discover" \/ found' = found
           /\ \A e \in MailDomains : found'[e] = found[e] \/ (e = d /\ found'[e] = p)
  BY PolicyFields DEF StsTyped, Discovered, Asks

\* A step of a domain's policy cache keeps the deliveries true.
LEMMA StsKeeps ==
    ASSUME MailKept, NEW d \in MailDomains, StsStep(d)
    PROVE  MailKept'
<1>1. StsTyped
  BY DEF MailKept
<1>2. cached[d] \in AnyPolicy /\ published[d] \in AnyPolicy
  BY <1>1 DEF StsTyped
<1>3. ASSUME NEW txt, LookupTxt(d, txt)
      PROVE  MailKept'
  <2>1. /\ UNCHANGED <<entries, sending, plans, plan, sends, copyVars, spared>>
        /\ UNCHANGED <<published, cached, policies>>
    BY <1>3 DEF LookupTxt
  <2>2. CASE Discovered(d, Kept(d, txt))
    <3>1. Discovered(d, cached[d])
      BY <2>2 DEF Kept
    <3>2. StsTyped' /\ (sending = "discover" \/ found' = found)
      BY <1>1, <1>2, <2>1, <3>1, DiscoveredTyped DEF StsTyped
    <3> QED
      BY <2>1, <3>2, StsFrame
  <2>3. CASE /\ lookups' = [lookups EXCEPT ![d] = [at |-> "fetching", id |-> published[d].id]]
             /\ UNCHANGED found
    <3>1. published[d].id \in 0..MaxPolicies
      BY <1>2, PolicyFields
    <3>2. StsTyped'
      BY <1>1, <2>1, <2>3, <3>1 DEF StsTyped
    <3> QED
      BY <2>1, <2>3, <3>2, StsFrame
  <2> QED
    BY <1>3, <2>2, <2>3 DEF LookupTxt
<1>4. CASE FetchMtaStsPolicy(d)
  <2>1. PICK p : p = [published[d] EXCEPT !.id = lookups[d].id]
    OBVIOUS
  <2>2. /\ cached' = [cached EXCEPT ![d] = p] /\ Discovered(d, p)
        /\ UNCHANGED <<entries, sending, plans, plan, sends, copyVars, spared>>
        /\ UNCHANGED <<published, policies>>
    BY <1>4, <2>1 DEF FetchMtaStsPolicy
  <2>3. p \in AnyPolicy
    <3>1. lookups[d].id \in 0..MaxPolicies
      BY <1>1 DEF StsTyped
    <3> QED
      BY <1>2, <2>1, <3>1 DEF AnyPolicy
  <2>4. StsTyped' /\ (sending = "discover" \/ found' = found)
    BY <1>1, <2>2, <2>3, DiscoveredTyped DEF StsTyped
  <2> QED
    BY <2>2, <2>4, StsFrame
<1>5. CASE FetchFails(d)
  <2>1. /\ Discovered(d, cached[d])
        /\ UNCHANGED <<entries, sending, plans, plan, sends, copyVars, spared>>
        /\ UNCHANGED <<published, cached, policies>>
    BY <1>5 DEF FetchFails
  <2>2. StsTyped' /\ (sending = "discover" \/ found' = found)
    BY <1>1, <1>2, <2>1, DiscoveredTyped DEF StsTyped
  <2> QED
    BY <2>1, <2>2, StsFrame
<1>6. CASE OtherDiscovers(d)
  <2>1. /\ cached' = [cached EXCEPT ![d] = published[d]]
        /\ UNCHANGED <<entries, sending, plans, plan, sends, copyVars, spared>>
        /\ UNCHANGED <<found, published, lookups, policies>>
    BY <1>6 DEF OtherDiscovers
  <2>2. StsTyped'
    BY <1>1, <1>2, <2>1 DEF StsTyped
  <2> QED
    BY <2>1, <2>2, StsFrame
<1>7. CASE PolicyExpires(d)
  <2>1. /\ cached' = [cached EXCEPT ![d] = NoPolicy]
        /\ UNCHANGED <<entries, sending, plans, plan, sends, copyVars, spared>>
        /\ UNCHANGED <<found, published, lookups, policies>>
    BY <1>7 DEF PolicyExpires
  <2>2. StsTyped'
    BY <1>1, <2>1, PolicyFields DEF StsTyped
  <2> QED
    BY <2>1, <2>2, StsFrame
<1>8. ASSUME NEW mode \in StsModes[d], PublishPolicy(d, mode)
      PROVE  MailKept'
  <2>1. PICK p : p = [id |-> policies + 1, mode |-> mode]
    OBVIOUS
  <2>2. /\ policies < MaxPolicies /\ policies' = policies + 1
        /\ published' = [published EXCEPT ![d] = p]
        /\ UNCHANGED <<entries, sending, plans, plan, sends, copyVars, spared>>
        /\ UNCHANGED <<found, cached, lookups>>
    BY <1>8, <2>1 DEF PublishPolicy
  <2>3. policies + 1 \in 0..MaxPolicies /\ mode \in {"none", "testing", "enforce"}
    BY <1>1, <1>8, <2>2, MailConstants DEF StsTyped
  <2>4. p \in AnyPolicy
    BY <2>1, <2>3 DEF AnyPolicy
  <2>5. StsTyped'
    BY <1>1, <2>2, <2>3, <2>4 DEF StsTyped
  <2> QED
    BY <2>2, <2>5, StsFrame
<1> QED
  BY <1>3, <1>4, <1>5, <1>6, <1>7, <1>8 DEF StsStep

-----------------------------------------------------------------------------
\* A recipient is in one entry.
LEMMA OwnEntry ==
    ASSUME MailKept, NEW k \in DOMAIN entries, NEW r \in entries[k].to
    PROVE  r \in Recipients /\ \A l \in DOMAIN entries : r \in entries[l].to => l = k
<1>1. r \in Recipients
  BY EntryFields DEF MailKept, MailTyped
<1> QED
  BY <1>1 DEF MailKept, EntriesKept, InOne

\* A step of the plan in progress: its entries and its policy stay.
LEMMA SessionFrame ==
    ASSUME MailKept, sending = "sessions",
           UNCHANGED <<entries, sending, found, plans, sends, spared, stsVars>>,
           NEW p \in PlanRecords, p = plan', p.keys = plan.keys, p.verified = plan.verified,
           p.hosts = plan.hosts \/ (plan.hosts # <<>> /\ p.hosts = Tail(plan.hosts)),
           copies' \in [Recipients -> Nat], unanswered' \in [Recipients -> Nat],
           exposed' = {}, SessionKept',
           \A k \in DOMAIN entries : \A r \in entries[k].to : CopiesTold(k, r)'
    PROVE  MailKept'
<1>1. StsTyped' /\ EntriesKept'
  BY DEF MailKept, StsTyped, EntriesKept, EntryKept, InOne, stsVars
<1>2. MailTyped'
  BY DEF MailKept, MailTyped
<1>3. PlansKept'
  <2>1. PlanRight(plan)'
    <3> SUFFICES ASSUME NEW k \in plan.keys
                 PROVE  Retries(k)' /\ Secured(plan, k)'
      BY DEF PlanRight
    <3>1. Retries(k) /\ Secured(plan, k)
      BY DEF MailKept, PlansKept, PlanRight
    <3>2. plan.hosts \in Seq(StsHosts) => p.hosts \in Seq(StsHosts)
      <4>1. ASSUME NEW s \in Seq(StsHosts), s # <<>>
            PROVE  Tail(s) \in Seq(StsHosts)
        BY <4>1
      <4> QED
        BY <4>1
    <3> QED
      BY <3>1, <3>2 DEF Retries, Secured
  <2>2. \A q \in plans : PlanRight(q)' /\ FreshPlan(q)'
    BY DEF MailKept, PlansKept, PlanRight, FreshPlan, Retries, Secured
  <2>3. Apart'
    BY DEF MailKept, PlansKept, Apart
  <2> QED
    BY <2>1, <2>2, <2>3 DEF PlansKept
<1>4. AllTold'
  <2>1. \A k : Pending(k)' <=> Pending(k)
    BY DEF Pending
  <2>2. \A k : One(Pending(k))' = One(Pending(k))
    BY <2>1 DEF One
  <2> QED
    BY <2>2 DEF MailKept, AllTold, TriesTold
<1> QED
  BY <1>1, <1>2, <1>3, <1>4 DEF MailKept

\* The outcomes and the copies stay.
LEMMA MovesAlong ==
    ASSUME MailKept, sending = "sessions",
           UNCHANGED <<entries, sending, found, plans, sends, spared, stsVars>>,
           UNCHANGED <<copies, unanswered, refusedFor, exposed>>,
           NEW p \in PlanRecords, p = plan', p.keys = plan.keys, p.verified = plan.verified,
           p.hosts = plan.hosts \/ (plan.hosts # <<>> /\ p.hosts = Tail(plan.hosts)),
           p.done = plan.done, p.todo \subseteq plan.todo,
           p.in => plan.in /\ p.hosts = plan.hosts, ~p.in => p.todo = {}
    PROVE  MailKept'
<1>1. SessionKept'
  BY DEF MailKept, SessionKept, OutcomeRight
<1>2. \A k \in DOMAIN entries : \A r \in entries[k].to : CopiesTold(k, r)'
  <2>1. \A k, r : TakenNow(k, r)' <=> TakenNow(k, r)
    BY DEF TakenNow
  <2> QED
    BY <2>1 DEF MailKept, AllTold, CopiesTold
<1>3. copies' \in [Recipients -> Nat] /\ unanswered' \in [Recipients -> Nat] /\ exposed' = {}
  BY DEF MailKept, MailTyped
<1> QED
  BY <1>1, <1>2, <1>3, SessionFrame

\* Going on to the next host keeps the deliveries true.
LEMMA NextHostKeeps ==
    ASSUME MailKept, SkipHost \/ SessionEnds
    PROVE  MailKept'
<1>1. /\ sending = "sessions" /\ plan' = NextHost(plan)
      /\ UNCHANGED <<entries, sending, found, plans, sends, spared, stsVars>>
      /\ UNCHANGED <<copies, unanswered, refusedFor, exposed>>
  BY DEF SkipHost, SessionEnds, copyVars
<1>2. plan.hosts # <<>>
  BY DEF SkipHost, SessionEnds, MailKept, SessionKept
<1>3. PICK old \in PlanRecords : old = plan
  BY DEF MailKept, MailTyped
<1>4. PICK tl : tl = Tail(old.hosts)
  OBVIOUS
<1>5. tl \in Seq(MxHosts)
  BY <1>2, <1>3, <1>4, PlanFields
<1>6. PICK p : p = plan'
  OBVIOUS
<1>7. p = [old EXCEPT !.hosts = tl, !.in = FALSE, !.todo = {}]
  BY <1>1, <1>3, <1>4, <1>6 DEF NextHost
<1>8. /\ p \in PlanRecords /\ p.keys = old.keys /\ p.verified = old.verified /\ p.hosts = tl
      /\ p.done = old.done /\ p.todo = {} /\ p.in = FALSE
  BY <1>5, <1>7 DEF PlanRecords
<1> QED
  BY <1>1, <1>2, <1>3, <1>4, <1>6, <1>8, MovesAlong

\* A spent budget keeps the deliveries true.
LEMMA SpentKeeps ==
    ASSUME MailKept, BudgetSpent
    PROVE  MailKept'
<1>1. /\ sending = "sessions" /\ plan' = [plan EXCEPT !.spent = TRUE, !.todo = {}]
      /\ UNCHANGED <<entries, sending, found, plans, sends, spared, stsVars>>
      /\ UNCHANGED <<copies, unanswered, refusedFor, exposed>>
  BY DEF BudgetSpent, copyVars
<1>2. PICK old \in PlanRecords : old = plan
  BY DEF MailKept, MailTyped
<1>3. PICK p : p = plan'
  OBVIOUS
<1>4. p = [old EXCEPT !.spent = TRUE, !.todo = {}]
  BY <1>1, <1>2, <1>3
<1>5. /\ p \in PlanRecords /\ p.keys = old.keys /\ p.verified = old.verified /\ p.hosts = old.hosts
      /\ p.done = old.done /\ p.todo = {} /\ p.in = old.in
  BY <1>4 DEF PlanRecords
<1> QED
  BY <1>1, <1>2, <1>3, <1>5, MovesAlong

\* A transaction over, without an answer that counts.
LEMMA MovesOnFields ==
    ASSUME MailKept, NEW k \in plan.todo, plan.in, MovesOn(k), NEW p, p = plan'
    PROVE  /\ p \in PlanRecords /\ p.keys = plan.keys /\ p.verified = plan.verified
           /\ p.hosts = plan.hosts /\ p.done = plan.done /\ p.in
           /\ p.todo = plan.todo \ {k}
<1>1. PICK old \in PlanRecords : old = plan
  BY DEF MailKept, MailTyped
<1>2. PICK left : left = old.todo \ {k}
  OBVIOUS
<1>3. p = [old EXCEPT !.todo = left] /\ left \in SUBSET MailKeys
  BY <1>1, <1>2, PlanFields DEF MovesOn
<1>4. /\ p \in PlanRecords /\ p.keys = old.keys /\ p.verified = old.verified
      /\ p.hosts = old.hosts /\ p.done = old.done /\ p.in = old.in /\ p.todo = left
  BY <1>3 DEF PlanRecords
<1> QED
  BY <1>1, <1>2, <1>4

\* An entry without verified TLS under an enforced policy is deferred.
LEMMA NoTlsKeeps ==
    ASSUME MailKept, NEW k, NoVerifiedTls(k)
    PROVE  MailKept'
<1>1. /\ sending = "sessions" /\ plan.in /\ k \in plan.todo /\ MovesOn(k)
      /\ UNCHANGED <<entries, sending, found, plans, sends, spared, stsVars>>
      /\ UNCHANGED <<copies, unanswered, refusedFor, exposed>>
  BY DEF NoVerifiedTls, EnforcedTlsFailure, Transacting, copyVars
<1>2. PICK p : p = plan'
  OBVIOUS
<1>3. /\ p \in PlanRecords /\ p.keys = plan.keys /\ p.verified = plan.verified
      /\ p.hosts = plan.hosts /\ p.done = plan.done /\ p.in /\ p.todo \subseteq plan.todo
  BY <1>1, <1>2, MovesOnFields
<1> QED
  BY <1>1, <1>2, <1>3, MovesAlong

\* An outcome that names no recipients.
LEMMA OutcomeMade ==
    ASSUME NEW kind \in {"deferred", "hard", "soft"}
    PROVE  /\ Outcome(kind) \in Outcomes /\ Outcome(kind).kind = kind
           /\ Outcome(kind).hard = {} /\ Outcome(kind).soft = {}
  BY DEF Outcome, Outcomes

\* Opening a session keeps the deliveries true.
LEMMA OpenKeeps ==
    ASSUME MailKept, OpenSession
    PROVE  MailKept'
<1>1. PICK b : b = BucketOf[Head(plan.hosts)]
  OBVIOUS
<1>2. /\ sending = "sessions" /\ plan.hosts # <<>>
      /\ UNCHANGED <<entries, sending, found, plans, sends, spared, stsVars>>
      /\ UNCHANGED <<copies, unanswered, refusedFor, exposed>>
  BY DEF OpenSession, copyVars
<1>3. PICK old \in PlanRecords : old = plan
  BY DEF MailKept, MailTyped
<1>4. PICK deferred \in SUBSET Uncharged(old, b) : plan' = Admitted(old, b, deferred)
  BY <1>1, <1>3 DEF OpenSession
<1>5. PICK td, ch, dn, p :
         /\ td = Left(old) \ deferred
         /\ ch = old.charged \cup {<<k, b>> : k \in Uncharged(old, b) \ deferred}
         /\ dn = [k \in DOMAIN old.done \cup deferred |->
                    IF k \in deferred THEN Outcome("deferred") ELSE old.done[k]]
         /\ p = plan'
  OBVIOUS
<1>6. p = [old EXCEPT !.in = TRUE, !.todo = td, !.charged = ch, !.done = dn]
  BY <1>4, <1>5 DEF Admitted
<1>7. /\ old.keys \in SUBSET MailKeys /\ old.done \in OutcomeMaps /\ old.hosts \in Seq(MxHosts)
      /\ old.charged \in SUBSET (MailKeys \X {BucketOf[h] : h \in MxHosts})
      /\ DOMAIN old.done \in SUBSET MailKeys /\ \A k \in DOMAIN old.done : old.done[k] \in Outcomes
  BY PlanFields, MapFields
<1>8. deferred \subseteq old.keys \ DOMAIN old.done
  BY <1>4 DEF Uncharged, Left
<1>9. td \in SUBSET MailKeys /\ td \subseteq old.keys /\ td \cap DOMAIN dn = {}
  BY <1>5, <1>7 DEF Left
<1>10. dn \in OutcomeMaps
  <2>1. DOMAIN old.done \cup deferred \in SUBSET MailKeys
    BY <1>7, <1>8
  <2>2. dn \in [DOMAIN old.done \cup deferred -> Outcomes]
    BY <1>5, <1>7, OutcomeMade
  <2> QED
    BY <2>1, <2>2, MapMade
<1>11. ch \in SUBSET (MailKeys \X {BucketOf[h] : h \in MxHosts})
  <2>1. Head(old.hosts) \in MxHosts
    BY <1>2, <1>3, <1>7
  <2>2. b \in {BucketOf[h] : h \in MxHosts}
    BY <1>1, <1>3, <2>1
  <2>3. Uncharged(old, b) \subseteq MailKeys
    BY <1>7 DEF Uncharged, Left
  <2> QED
    BY <1>5, <1>7, <2>2, <2>3
<1>12. /\ p \in PlanRecords /\ p.keys = old.keys /\ p.verified = old.verified /\ p.hosts = old.hosts
       /\ p.done = dn /\ p.todo = td /\ p.in = TRUE
  BY <1>6, <1>9, <1>10, <1>11 DEF PlanRecords
<1>13. /\ DOMAIN dn = DOMAIN old.done \cup deferred
       /\ \A k \in deferred : dn[k] = Outcome("deferred")
       /\ \A k \in DOMAIN old.done : dn[k] = old.done[k] /\ k \notin deferred
  BY <1>5, <1>8
<1>14. SessionKept'
  <2>1. ASSUME NEW k \in DOMAIN dn
        PROVE  OutcomeRight(k, dn[k])'
    <3>1. CASE k \in deferred
      <4>1. dn[k].kind = "deferred" /\ dn[k].hard = {} /\ dn[k].soft = {}
        BY <1>13, <3>1, OutcomeMade
      <4> QED
        BY <4>1 DEF OutcomeRight
    <3>2. CASE k \in DOMAIN old.done
      <4>1. OutcomeRight(k, old.done[k])
        BY <1>3, <3>2 DEF MailKept, SessionKept
      <4> QED
        BY <1>2, <1>13, <3>2, <4>1 DEF OutcomeRight
    <3> QED
      BY <1>13, <3>1, <3>2
  <2>2. DOMAIN dn \subseteq old.keys
    BY <1>3, <1>8, <1>13 DEF MailKept, SessionKept
  <2>3. plan' = p
    BY <1>5
  <2> QED
    BY <1>2, <1>3, <1>9, <1>12, <2>1, <2>2, <2>3 DEF SessionKept
<1>15. \A k \in DOMAIN entries : \A r \in entries[k].to : CopiesTold(k, r)'
  <2>1. \A k, r : TakenNow(k, r)' <=> TakenNow(k, r)
    <3> SUFFICES ASSUME NEW k, NEW r
                 PROVE  TakenNow(k, r)' <=> TakenNow(k, r)
      OBVIOUS
    <3>1. plan' = p
      BY <1>5
    <3>2. CASE k \in deferred
      <4>1. k \notin DOMAIN old.done /\ dn[k].kind = "deferred"
        BY <1>8, <1>13, <3>2, OutcomeMade
      <4> QED
        BY <1>3, <1>12, <3>1, <4>1 DEF TakenNow
    <3>3. CASE k \notin deferred
      <4>1. (k \in DOMAIN dn <=> k \in DOMAIN old.done) /\ (k \in DOMAIN dn => dn[k] = old.done[k])
        BY <1>13, <3>3
      <4> QED
        BY <1>3, <1>12, <3>1, <4>1 DEF TakenNow
    <3> QED
      BY <3>2, <3>3
  <2> QED
    BY <1>2, <2>1 DEF MailKept, AllTold, CopiesTold
<1>16. copies' \in [Recipients -> Nat] /\ unanswered' \in [Recipients -> Nat] /\ exposed' = {}
  BY <1>2 DEF MailKept, MailTyped
<1> QED
  BY <1>2, <1>3, <1>5, <1>12, <1>14, <1>15, <1>16, SessionFrame

\* The plan in progress keeps the policy of the entry it sends.
LEMMA Transacts ==
    ASSUME MailKept, NEW k, Transacting(k), Speaks
    PROVE  /\ sending = "sessions" /\ plan.in /\ k \in plan.todo /\ k \in plan.keys
           /\ k \in MailKeys /\ k \notin DOMAIN plan.done
           /\ k \in DOMAIN entries /\ entries[k].status = "retry"
           /\ entries[k] \in EntryRecords /\ entries[k].to \in SUBSET Recipients
           /\ Exposes(k) = {}
           /\ \A r \in entries[k].to : /\ r \in Recipients /\ copies[r] \in Nat /\ unanswered[r] \in Nat
                                       /\ copies[r] <= unanswered[r]
<1>1. /\ sending = "sessions" /\ plan.in /\ k \in plan.todo /\ k \in plan.keys
      /\ k \notin DOMAIN plan.done
  BY DEF Transacting, MailKept, SessionKept
<1>2. Retries(k) /\ Secured(plan, k)
  BY <1>1 DEF MailKept, PlansKept, PlanRight
<1>3. /\ k \in DOMAIN entries /\ entries[k].status = "retry" /\ k \in MailKeys
      /\ entries[k] \in EntryRecords
  BY <1>2 DEF Retries, MailKept, MailTyped
<1>4. entries[k].to \in SUBSET Recipients
  BY <1>3, EntryFields
<1>5. Exposes(k) = {}
  <2>1. found[k[1]].mode = "enforce" => plan.verified /\ MailHost \in SecureHosts \cap StsHosts
    <3> SUFFICES ASSUME found[k[1]].mode = "enforce"
                 PROVE  plan.verified /\ MailHost \in SecureHosts \cap StsHosts
      OBVIOUS
    <3>1. plan.verified /\ plan.hosts \in Seq(StsHosts) /\ plan.hosts # <<>>
      BY <1>1, <1>2 DEF Secured, MailKept, SessionKept
    <3>2. MailHost \in StsHosts
      BY <3>1 DEF MailHost
    <3> QED
      BY <3>1, <3>2 DEF Speaks
  <2> QED
    BY <2>1 DEF Exposes
<1>6. ASSUME NEW r \in entries[k].to
      PROVE  /\ r \in Recipients /\ copies[r] \in Nat /\ unanswered[r] \in Nat
             /\ copies[r] <= unanswered[r]
  <2>1. r \in Recipients /\ copies[r] \in Nat /\ unanswered[r] \in Nat
    BY <1>4 DEF MailKept, MailTyped
  <2>2. CopiesTold(k, r) /\ ~TakenNow(k, r)
    BY <1>1, <1>3 DEF MailKept, AllTold, TakenNow
  <2> QED
    BY <1>3, <2>1, <2>2 DEF CopiesTold
<1> QED
  BY <1>1, <1>3, <1>4, <1>5, <1>6

\* A host that does not answer may have taken the message, and is told so.
LEMMA NoAnswerKeeps ==
    ASSUME MailKept, NEW k, NEW took \in BOOLEAN, NoAnswer(k, took)
    PROVE  MailKept'
<1>1. /\ Transacting(k) /\ Speaks /\ MovesOn(k)
      /\ UNCHANGED <<entries, sending, found, plans, sends, spared, stsVars>> /\ refusedFor' = refusedFor
  BY DEF NoAnswer
<1>2. /\ sending = "sessions" /\ plan.in /\ k \in plan.todo /\ k \in DOMAIN entries
      /\ Exposes(k) = {} /\ entries[k].to \in SUBSET Recipients
  BY <1>1, Transacts
<1>3. PICK p : p = plan'
  OBVIOUS
<1>4. /\ p \in PlanRecords /\ p.keys = plan.keys /\ p.verified = plan.verified
      /\ p.hosts = plan.hosts /\ p.done = plan.done /\ p.in /\ p.todo \subseteq plan.todo
  BY <1>1, <1>2, <1>3, MovesOnFields
<1>5. CASE ~took
  <2>1. UNCHANGED <<copies, unanswered, refusedFor, exposed>>
    BY <1>1, <1>5 DEF NoAnswer
  <2> QED
    BY <1>1, <1>2, <1>3, <1>4, <2>1, MovesAlong
<1>6. CASE took
  <2>1. /\ copies' = [r \in Recipients |-> IF r \in entries[k].to THEN copies[r] + 1 ELSE copies[r]]
        /\ unanswered' = [r \in Recipients |->
                            IF r \in entries[k].to THEN unanswered[r] + 1 ELSE unanswered[r]]
        /\ exposed' = exposed
    BY <1>2, <1>6 DEF NoAnswer, Copied, To
  <2>2. /\ copies \in [Recipients -> Nat] /\ unanswered \in [Recipients -> Nat] /\ exposed = {}
    BY DEF MailKept, MailTyped
  <2>3. copies' \in [Recipients -> Nat] /\ unanswered' \in [Recipients -> Nat] /\ exposed' = {}
    BY <2>1, <2>2
  <2>4. SessionKept'
    BY <1>1, <1>2, <1>3, <1>4 DEF MailKept, SessionKept, OutcomeRight
  <2>5. ASSUME NEW l \in DOMAIN entries, NEW r \in entries[l].to
        PROVE  CopiesTold(l, r)'
    <3>1. CopiesTold(l, r) /\ r \in Recipients
      BY OwnEntry DEF MailKept, AllTold
    <3>2. TakenNow(l, r)' <=> TakenNow(l, r)
      BY <1>3, <1>4 DEF TakenNow
    <3>3. copies[r] \in Nat /\ unanswered[r] \in Nat
      BY <2>2, <3>1
    <3>4. \/ copies'[r] = copies[r] /\ unanswered'[r] = unanswered[r]
          \/ copies'[r] = copies[r] + 1 /\ unanswered'[r] = unanswered[r] + 1
      BY <2>1, <3>1
    <3> QED
      BY <1>1, <3>1, <3>2, <3>3, <3>4 DEF CopiesTold
  <2> QED
    BY <1>1, <1>2, <1>3, <1>4, <2>3, <2>4, <2>5, SessionFrame
<1> QED
  BY <1>5, <1>6

\* A transaction with an outcome.
LEMMA SettledFields ==
    ASSUME MailKept, NEW k \in plan.todo, NEW o \in Outcomes, plan.in, Settled(k, o), NEW p, p = plan'
    PROVE  /\ p \in PlanRecords /\ p.keys = plan.keys /\ p.verified = plan.verified
           /\ p.hosts = plan.hosts /\ p.in /\ p.todo = plan.todo \ {k}
           /\ DOMAIN p.done = DOMAIN plan.done \cup {k} /\ p.done[k] = o
           /\ \A l \in DOMAIN plan.done : l # k => p.done[l] = plan.done[l]
<1>1. PICK old \in PlanRecords : old = plan
  BY DEF MailKept, MailTyped
<1>2. PICK left, dn : left = old.todo \ {k} /\ dn = With(old.done, k, o)
  OBVIOUS
<1>3. p = [old EXCEPT !.todo = left, !.done = dn]
  BY <1>1, <1>2 DEF Settled
<1>4. /\ left \in SUBSET MailKeys /\ k \in MailKeys
      /\ DOMAIN old.done \in SUBSET MailKeys /\ \A l \in DOMAIN old.done : old.done[l] \in Outcomes
  BY <1>1, <1>2, PlanFields, MapFields
<1>5. /\ dn \in [DOMAIN old.done \cup {k} -> Outcomes] /\ DOMAIN dn = DOMAIN old.done \cup {k}
      /\ dn[k] = o /\ \A l \in DOMAIN old.done : l # k => dn[l] = old.done[l]
  BY <1>2, <1>4 DEF With
<1>6. dn \in OutcomeMaps
  <2>1. DOMAIN old.done \cup {k} \in SUBSET MailKeys
    BY <1>4
  <2> QED
    BY <1>5, <2>1, MapMade
<1>7. /\ p \in PlanRecords /\ p.keys = old.keys /\ p.verified = old.verified
      /\ p.hosts = old.hosts /\ p.done = dn /\ p.in = old.in /\ p.todo = left
  BY <1>3, <1>4, <1>6 DEF PlanRecords
<1> QED
  BY <1>1, <1>2, <1>5, <1>7

\* An answer settles one entry, by what the host took and refused.
LEMMA SettledKeeps ==
    ASSUME MailKept, NEW k, Transacting(k), Speaks, NEW o \in Outcomes, o.kind # "deferred",
           Settled(k, o), OutcomeRight(k, o)', NEW rs, rs \subseteq entries[k].to,
           o.kind = "taken" => rs = entries[k].to \ (o.hard \cup o.soft),
           o.kind # "taken" => rs = {},
           copies' = [r \in Recipients |-> IF r \in rs THEN copies[r] + 1 ELSE copies[r]],
           refusedFor \subseteq refusedFor', exposed' = exposed \cup Exposes(k),
           UNCHANGED <<entries, sending, found, plans, sends, spared, stsVars, unanswered>>
    PROVE  MailKept'
<1>1. /\ sending = "sessions" /\ plan.in /\ k \in plan.todo /\ k \in DOMAIN entries
      /\ k \notin DOMAIN plan.done /\ k \in plan.keys /\ entries[k].status = "retry"
      /\ Exposes(k) = {} /\ entries[k].to \in SUBSET Recipients
      /\ \A r \in entries[k].to : copies[r] <= unanswered[r]
  BY Transacts
<1>2. PICK p : p = plan'
  OBVIOUS
<1>3. /\ p \in PlanRecords /\ p.keys = plan.keys /\ p.verified = plan.verified
      /\ p.hosts = plan.hosts /\ p.in /\ p.todo = plan.todo \ {k}
      /\ DOMAIN p.done = DOMAIN plan.done \cup {k} /\ p.done[k] = o
      /\ \A l \in DOMAIN plan.done : l # k => p.done[l] = plan.done[l]
  BY <1>1, <1>2, SettledFields
<1>4. /\ copies \in [Recipients -> Nat] /\ unanswered \in [Recipients -> Nat] /\ exposed = {}
  BY DEF MailKept, MailTyped
<1>5. copies' \in [Recipients -> Nat] /\ unanswered' \in [Recipients -> Nat] /\ exposed' = {}
  BY <1>1, <1>4
<1>6. SessionKept'
  <2>1. ASSUME NEW l \in DOMAIN p.done
        PROVE  OutcomeRight(l, p.done[l])'
    <3>1. CASE l = k
      BY <1>3, <3>1
    <3>2. CASE l # k
      <4>1. l \in DOMAIN plan.done /\ p.done[l] = plan.done[l]
        BY <1>3, <3>2
      <4>2. OutcomeRight(l, plan.done[l])
        BY <4>1 DEF MailKept, SessionKept
      <4> QED
        BY <4>1, <4>2 DEF OutcomeRight
    <3> QED
      BY <3>1, <3>2
  <2>2. /\ plan.todo \subseteq plan.keys /\ plan.todo \cap DOMAIN plan.done = {}
        /\ DOMAIN plan.done \subseteq plan.keys /\ plan.hosts # <<>>
    BY <1>1 DEF MailKept, SessionKept
  <2>3. /\ p.todo \subseteq p.keys /\ p.todo \cap DOMAIN p.done = {} /\ DOMAIN p.done \subseteq p.keys
        /\ p.hosts # <<>>
    BY <1>1, <1>3, <2>2
  <2> QED
    BY <1>2, <1>3, <2>1, <2>3 DEF SessionKept
<1>7. ASSUME NEW l \in DOMAIN entries, NEW r \in entries[l].to
      PROVE  CopiesTold(l, r)'
  <2>1. CopiesTold(l, r) /\ r \in Recipients
    BY OwnEntry DEF MailKept, AllTold
  <2>2. copies[r] \in Nat /\ unanswered[r] \in Nat
    BY <1>4, <2>1
  <2>3. CASE l = k
    <3>1. copies[r] <= unanswered[r] /\ entries[l].status = "retry"
      BY <1>1, <2>3
    <3>2. TakenNow(k, r)' <=> r \in rs
      <4>1. TakenNow(k, r)' <=> o.kind = "taken" /\ r \notin o.hard \cup o.soft
        BY <1>2, <1>3 DEF TakenNow
      <4> QED
        BY <2>3, <4>1
    <3>3. copies'[r] = IF r \in rs THEN copies[r] + 1 ELSE copies[r]
      BY <2>1
    <3> QED
      BY <2>2, <2>3, <3>1, <3>2, <3>3 DEF CopiesTold
  <2>4. CASE l # k
    <3>1. r \notin rs
      BY <1>1, <2>4, OwnEntry
    <3>2. copies'[r] = copies[r]
      BY <2>1, <3>1
    <3>3. TakenNow(l, r)' <=> TakenNow(l, r)
      BY <1>2, <1>3, <2>4 DEF TakenNow
    <3> QED
      BY <2>1, <3>2, <3>3 DEF CopiesTold
  <2> QED
    BY <2>3, <2>4
<1> QED
  BY <1>1, <1>2, <1>3, <1>5, <1>6, <1>7, SessionFrame

\* A refusal settles an entry.
LEMMA RefusedKeeps ==
    ASSUME MailKept, NEW k, NEW kind \in {"hard", "soft"}, Refused(k, kind)
    PROVE  MailKept'
<1>1. PICK o : o = Outcome(kind)
  OBVIOUS
<1>2. o \in Outcomes /\ o.kind = kind /\ o.hard = {} /\ o.soft = {}
  BY <1>1, OutcomeMade
<1>3. /\ Transacting(k) /\ Speaks /\ Settled(k, o) /\ exposed' = exposed \cup Exposes(k)
      /\ UNCHANGED <<entries, sending, found, plans, sends, spared, stsVars, unanswered, copies>>
      /\ refusedFor' = IF kind = "hard" THEN refusedFor \cup entries[k].to ELSE refusedFor
  BY <1>1 DEF Refused, To
<1>4. OutcomeRight(k, o)' /\ refusedFor \subseteq refusedFor'
  BY <1>2, <1>3 DEF OutcomeRight
<1>5. copies' = [r \in Recipients |-> IF r \in {} THEN copies[r] + 1 ELSE copies[r]]
  BY <1>3 DEF MailKept, MailTyped
<1>6. /\ o.kind # "deferred" /\ o.kind # "taken" /\ {} \subseteq entries[k].to
      /\ UNCHANGED <<entries, sending, found, plans, sends, spared, stsVars, unanswered>>
  BY <1>2, <1>3
<1> QED
  BY <1>2, <1>3, <1>4, <1>5, <1>6, SettledKeeps

\* An acceptance, of some recipients or all, settles an entry.
LEMMA AcceptedKeeps ==
    ASSUME MailKept, NEW k, NEW hard \in SUBSET To(k), NEW soft \in SUBSET To(k),
           Accepted(k, hard, soft)
    PROVE  MailKept'
<1>1. PICK o, rs : o = [kind |-> "taken", hard |-> hard, soft |-> soft]
                   /\ rs = entries[k].to \ (hard \cup soft)
  OBVIOUS
<1>2. /\ Transacting(k) /\ Speaks /\ Settled(k, o) /\ exposed' = exposed \cup Exposes(k)
      /\ UNCHANGED <<entries, sending, found, plans, sends, spared, stsVars, unanswered>>
      /\ refusedFor' = refusedFor \cup hard /\ rs # {}
      /\ copies' = [r \in Recipients |-> IF r \in rs THEN copies[r] + 1 ELSE copies[r]]
  BY <1>1 DEF Accepted, To, Copied
<1>3. hard \subseteq entries[k].to /\ soft \subseteq entries[k].to /\ entries[k].to \in SUBSET Recipients
  BY <1>2, Transacts DEF To
<1>4. o \in Outcomes /\ o.kind = "taken" /\ o.hard = hard /\ o.soft = soft
  BY <1>1, <1>3 DEF Outcomes
<1>5. OutcomeRight(k, o)' /\ refusedFor \subseteq refusedFor'
  BY <1>1, <1>2, <1>3, <1>4 DEF OutcomeRight
<1>6. rs \subseteq entries[k].to /\ rs = entries[k].to \ (o.hard \cup o.soft)
  BY <1>1, <1>4
<1> QED
  BY <1>2, <1>4, <1>5, <1>6, SettledKeeps

\* The next plan.
LEMMA StartKeeps ==
    ASSUME MailKept, NEW p \in plans, StartPlan(p)
    PROVE  MailKept'
<1>1. /\ sending = "sessions" /\ plan = NoPlan /\ plan' = p /\ plans' = plans \ {p}
      /\ UNCHANGED <<entries, sending, found, sends, spared, stsVars>>
      /\ UNCHANGED <<copies, unanswered, refusedFor, exposed>>
  BY DEF StartPlan, copyVars
<1>2. StsTyped' /\ EntriesKept'
  BY <1>1 DEF MailKept, StsTyped, EntriesKept, EntryKept, InOne, stsVars
<1>3. MailTyped'
  BY <1>1 DEF MailKept, MailTyped
<1>4. \A q \in plans : PlanRight(q) /\ FreshPlan(q)
  BY DEF MailKept, PlansKept
<1>5. PlansKept'
  <2>1. \A q \in plans : PlanRight(q)' /\ FreshPlan(q)'
    BY <1>1, <1>4 DEF PlanRight, FreshPlan, Retries, Secured
  <2>2. PlanRight(plan)'
    BY <1>1, <2>1 DEF PlanRight, Retries, Secured
  <2>3. Apart'
    BY <1>1 DEF MailKept, PlansKept, Apart
  <2> QED
    BY <1>1, <2>1, <2>2, <2>3 DEF PlansKept
<1>6. SessionKept'
  BY <1>1, <1>4 DEF SessionKept, FreshPlan
<1>7. AllTold'
  <2>1. \A k : Pending(k)' <=> Pending(k)
    <3>1. plan.keys = {}
      BY <1>1, NoPlanFields
    <3> QED
      BY <1>1, <3>1 DEF Pending
  <2>2. \A k : One(Pending(k))' = One(Pending(k))
    BY <2>1 DEF One
  <2>3. \A k, r : ~TakenNow(k, r) /\ ~TakenNow(k, r)'
    <3>1. DOMAIN plan.done = {} /\ DOMAIN p.done = {}
      BY <1>1, <1>4, NoPlanFields DEF FreshPlan
    <3> QED
      BY <1>1, <3>1 DEF TakenNow
  <2> QED
    BY <1>1, <2>2, <2>3 DEF MailKept, AllTold, CopiesTold, TriesTold
<1> QED
  BY <1>1, <1>2, <1>3, <1>5, <1>6, <1>7 DEF MailKept

\* The mailer's return keeps the deliveries true.
LEMMA ReturnsKeeps ==
    ASSUME MailKept, SendMailReturns
    PROVE  MailKept'
<1>1. /\ sending = "sessions" /\ plan = NoPlan /\ plans = {} /\ sending' = "idle"
      /\ UNCHANGED <<entries, found, plans, plan, sends, spared, stsVars>>
      /\ UNCHANGED <<copies, unanswered, refusedFor, exposed>>
  BY DEF SendMailReturns, copyVars
<1>2. StsTyped' /\ EntriesKept' /\ MailTyped'
  BY <1>1 DEF MailKept, StsTyped, MailTyped, EntriesKept, EntryKept, InOne, stsVars
<1>3. PlansKept' /\ SessionKept'
  BY <1>1, NoPlanFields DEF MailKept, PlansKept, SessionKept, PlanRight, Apart, Retries, Secured,
     OutcomeRight
<1>4. AllTold'
  <2>1. \A k : Pending(k)' <=> Pending(k)
    BY <1>1 DEF Pending
  <2>2. \A k : One(Pending(k))' = One(Pending(k))
    BY <2>1 DEF One
  <2>3. \A k, r : TakenNow(k, r)' <=> TakenNow(k, r)
    BY <1>1 DEF TakenNow
  <2> QED
    BY <1>1, <2>2, <2>3 DEF MailKept, AllTold, CopiesTold, TriesTold
<1> QED
  BY <1>1, <1>2, <1>3, <1>4 DEF MailKept

-----------------------------------------------------------------------------
\* An entry recorded as not sent.
LEMMA RecordedFields ==
    ASSUME NEW k, entries[k] \in EntryRecords, NEW s \in {"retry", "failed"}, NEW e,
           e = RecordUnsent(k, s)
    PROVE  /\ e \in EntryRecords /\ e.to = entries[k].to /\ e.status = s
           /\ e.attempts = entries[k].attempts + 1
<1>1. PICK old \in EntryRecords : old = entries[k]
  OBVIOUS
<1>2. PICK n \in Nat : n = old.attempts + 1
  BY EntryFields
<1>3. e = [old EXCEPT !.status = s, !.attempts = n]
  BY <1>1, <1>2 DEF RecordUnsent
<1>4. e \in EntryRecords /\ e.to = old.to /\ e.status = s /\ e.attempts = n
  BY <1>3 DEF EntryRecords
<1> QED
  BY <1>1, <1>2, <1>4

\* Entries that keep their recipients.
LEMMA SameRecipients ==
    ASSUME MailKept, NEW e, e = entries', DOMAIN e = DOMAIN entries,
           \A k \in DOMAIN entries : e[k] \in EntryRecords /\ e[k].to = entries[k].to
    PROVE  EntriesKept'
  BY DEF MailKept, EntriesKept, EntryKept, InOne

\* No session is in progress.
LEMMA NothingTaken ==
    ASSUME plan = NoPlan
    PROVE  plan.keys = {} /\ \A k, r : ~TakenNow(k, r)
  BY NoPlanFields DEF TakenNow

\* The entries' copies and tries, when the session's outcomes are recorded.
Tells(e, l, k, r) ==
    /\ e.status = "sent" => copies[r] > 0
    /\ e.status = "failed" => r \in refusedFor'
    /\ e.status = "retry" => copies[r] <= unanswered[r]
    /\ e.status = "retry" => e.attempts + spared'[r] + One(Pending(l)') = sends'

\* A recipient's new entry tells what the old one and the plan told.
LEMMA TellsTold ==
    ASSUME MailKept, UNCHANGED <<copies, unanswered>>, plan' = NoPlan,
           NEW l \in DOMAIN entries', NEW r \in entries'[l].to, NEW k \in DOMAIN entries,
           r \in entries[k].to, Tells(entries'[l], l, k, r)
    PROVE  CopiesTold(l, r)' /\ TriesTold(l, r)'
<1>1. ~TakenNow(l, r)'
  BY NoPlanFields DEF TakenNow
<1>2. copies[r] <= 1 + unanswered[r]
  BY DEF MailKept, AllTold, CopiesTold
<1>3. CopiesTold(l, r)'
  BY <1>1, <1>2 DEF CopiesTold, Tells
<1>4. TriesTold(l, r)'
  BY DEF TriesTold, Tells
<1> QED
  BY <1>3, <1>4

\* A message that cannot be composed keeps the deliveries true.
LEMMA UncomposableKeeps ==
    ASSUME MailKept, Uncomposable
    PROVE  MailKept'
<1>1. PICK keys, e : keys = UNION {p.keys : p \in plans} /\ e = entries'
  OBVIOUS
<1>2. /\ sending = "sessions" /\ plan = NoPlan /\ plans' = {}
      /\ UNCHANGED <<sending, found, plan, sends, spared, stsVars>>
      /\ UNCHANGED <<copies, unanswered, refusedFor, exposed>>
      /\ e = [k \in DOMAIN entries |-> IF k \in keys THEN RecordUnsent(k, "retry") ELSE entries[k]]
  BY <1>1 DEF Uncomposable, copyVars
<1>3. \A k \in DOMAIN entries : entries[k] \in EntryRecords
  BY DEF MailKept, MailTyped
<1>4. ASSUME NEW k \in DOMAIN entries
      PROVE  /\ e[k] \in EntryRecords /\ e[k].to = entries[k].to
             /\ k \notin keys => e[k] = entries[k]
             /\ k \in keys => e[k].status = "retry" /\ e[k].attempts = entries[k].attempts + 1
  BY <1>2, <1>3, RecordedFields
<1>5. EntriesKept'
  BY <1>1, <1>2, <1>4, SameRecipients
<1>6. StsTyped' /\ MailTyped' /\ exposed' = {}
  BY <1>1, <1>2, <1>4 DEF MailKept, StsTyped, MailTyped, stsVars
<1>7. PlansKept' /\ SessionKept'
  BY <1>2, NoPlanFields DEF PlansKept, SessionKept, PlanRight, Apart
<1>8. AllTold'
  <2> SUFFICES ASSUME NEW k \in DOMAIN entries, NEW r \in entries[k].to
               PROVE  CopiesTold(k, r)' /\ TriesTold(k, r)'
    BY <1>1, <1>2, <1>4 DEF AllTold
  <2>1. CopiesTold(k, r) /\ TriesTold(k, r) /\ ~TakenNow(k, r)
    BY <1>2, NothingTaken DEF MailKept, AllTold
  <2>2. Pending(k) <=> k \in keys
    BY <1>1, <1>2, NothingTaken DEF Pending
  <2>3. ~Pending(k)'
    BY <1>2, NothingTaken DEF Pending
  <2>4. One(Pending(k)') = 0 /\ One(Pending(k)) = IF k \in keys THEN 1 ELSE 0
    BY <2>2, <2>3 DEF One
  <2>5. /\ r \in Recipients /\ spared[r] \in Nat /\ entries[k].attempts \in Nat
        /\ entries[k].status \in {"retry", "sent", "failed"}
    BY <1>3, OwnEntry, EntryFields DEF MailKept, MailTyped
  <2>6. k \in keys => entries[k].status = "retry"
    BY <1>1 DEF MailKept, PlansKept, PlanRight, Retries
  <2>7. Tells(e[k], k, k, r)
    <3>1. CASE k \in keys
      <4>1. entries[k].attempts + spared[r] + 1 = sends /\ copies[r] <= unanswered[r]
        BY <2>1, <2>4, <2>6, <3>1 DEF TriesTold, CopiesTold
      <4> QED
        BY <1>2, <1>4, <2>4, <2>5, <3>1, <4>1 DEF Tells
    <3>2. CASE k \notin keys
      BY <1>2, <1>4, <2>1, <2>4, <3>2 DEF Tells, TriesTold, CopiesTold
    <3> QED
      BY <3>1, <3>2
  <2> QED
    BY <1>1, <1>2, <1>4, <2>7, TellsTold
<1> QED
  BY <1>5, <1>6, <1>7, <1>8 DEF MailKept

\* The plan of the domains that share hosts and TLS.
LEMMA PlanForFields ==
    ASSUME MailKept, NEW routed \in SUBSET MailDomains, NEW c \in routed, NEW p,
           p = PlanFor(routed, PlanKey(c))
    PROVE  /\ p \in PlanRecords /\ FreshPlan(p)
           /\ \A k : k \in p.keys <=> k \in KeysIn("retry") /\ k[1] \in routed /\ PlanKey(k[1]) = PlanKey(c)
           /\ \A k \in p.keys : Secured(p, k)
<1>1. PICK first \in routed : first = CHOOSE d \in routed : PlanKey(d) = PlanKey(c)
  OBVIOUS
<1>2. PlanKey(first) = PlanKey(c)
  BY <1>1
<1>3. PICK hosts, tls, keys :
         /\ hosts = PolicyHosts(first) /\ tls = (found[first].mode = "enforce")
         /\ keys = UNION {PendingKeys(d) : d \in {e \in routed : PlanKey(e) = PlanKey(c)}}
  OBVIOUS
<1>4. p = [NoPlan EXCEPT !.hosts = hosts, !.verified = tls, !.keys = keys]
  BY <1>1, <1>3 DEF PlanFor
<1>5. hosts \in Seq(MxHosts)
  <2>1. MxOf[first] \in Seq(MxHosts)
    BY MailConstants DEF MxHosts
  <2> QED
    BY <1>3, <2>1, MatchingHosts DEF PolicyHosts
<1>6. keys \in SUBSET MailKeys
  BY <1>3 DEF PendingKeys, KeysIn, MailKept, MailTyped
<1>7. tls \in BOOLEAN
  BY <1>3
<1>8. PICK none \in PlanRecords : none = NoPlan
  BY NoPlanFields
<1>9. /\ p \in PlanRecords /\ p.hosts = hosts /\ p.verified = tls /\ p.keys = keys
      /\ p.todo = none.todo /\ p.done = none.done /\ p.in = none.in
  BY <1>4, <1>5, <1>6, <1>7, <1>8 DEF PlanRecords
<1>10. FreshPlan(p)
  BY <1>8, <1>9, NoPlanFields DEF FreshPlan
<1>11. \A k : k \in keys <=> k \in KeysIn("retry") /\ k[1] \in routed /\ PlanKey(k[1]) = PlanKey(c)
  BY <1>3 DEF PendingKeys
<1>12. ASSUME NEW k \in keys
       PROVE  Secured(p, k)
  <2>1. k[1] \in routed /\ PlanKey(k[1]) = PlanKey(first)
    BY <1>2, <1>11
  <2>2. PolicyHosts(k[1]) = hosts /\ (found[k[1]].mode = "enforce") = tls
    BY <1>3, <2>1 DEF PlanKey
  <2>3. MxOf[k[1]] \in Seq(MxHosts)
    BY <2>1, MailConstants DEF MxHosts
  <2>4. found[k[1]].mode = "enforce" => hosts \in Seq(StsHosts)
    BY <2>2, <2>3, MatchingHosts DEF PolicyHosts
  <2> QED
    BY <1>9, <2>2, <2>4 DEF Secured
<1> QED
  BY <1>9, <1>10, <1>11, <1>12

\* Planning the sessions of a pass keeps the deliveries true.
LEMMA PlanSessionsKeeps ==
    ASSUME MailKept, PlanSessions
    PROVE  MailKept'
<1>1. PICK route \in [Owed -> {"hosts", "failed", "retry"}] :
         LET routed == {d \in Owed : route[d] = "hosts" /\ PolicyHosts(d) # <<>>}
             unsent == {k \in KeysIn("retry") : k[1] \notin routed}
             refused == {k \in unsent : route[k[1]] = "failed"}
         IN  /\ entries' = [k \in DOMAIN entries |->
                              IF k \in refused THEN RecordUnsent(k, "failed")
                              ELSE IF k \in unsent THEN RecordUnsent(k, "retry")
                              ELSE entries[k]]
             /\ refusedFor' = refusedFor \cup UNION {entries[k].to : k \in refused}
             /\ plans' = {PlanFor(routed, id) : id \in {PlanKey(d) : d \in routed}}
  BY DEF PlanSessions
<1>2. PICK routed, unsent, refused, e :
         /\ routed = {d \in Owed : route[d] = "hosts" /\ PolicyHosts(d) # <<>>}
         /\ unsent = {k \in KeysIn("retry") : k[1] \notin routed}
         /\ refused = {k \in unsent : route[k[1]] = "failed"}
         /\ e = entries'
  OBVIOUS
<1>3. /\ e = [k \in DOMAIN entries |->
                IF k \in refused THEN RecordUnsent(k, "failed")
                ELSE IF k \in unsent THEN RecordUnsent(k, "retry")
                ELSE entries[k]]
      /\ refusedFor' = refusedFor \cup UNION {entries[k].to : k \in refused}
      /\ plans' = {PlanFor(routed, PlanKey(d)) : d \in routed}
  BY <1>1, <1>2
<1>4. /\ sending = "discover" /\ sending' = "sessions"
      /\ UNCHANGED <<found, plan, sends, spared, stsVars>>
      /\ UNCHANGED <<copies, unanswered, exposed>>
  BY DEF PlanSessions
<1>5. plan = NoPlan /\ plans = {} /\ plan' = NoPlan
  BY <1>4 DEF MailKept, PlansKept
<1>6. \A k \in DOMAIN entries : entries[k] \in EntryRecords /\ k \in MailKeys /\ k[1] \in MailDomains
  BY DEF MailKept, MailTyped, MailKeys
<1>7. routed \in SUBSET MailDomains
  BY <1>2, <1>6 DEF Owed, KeysIn
<1>8. /\ \A k \in unsent : k \in DOMAIN entries /\ entries[k].status = "retry"
      /\ refused \subseteq unsent
      /\ \A k \in DOMAIN entries : entries[k].status = "retry" => (k \in unsent <=> k[1] \notin routed)
      /\ \A k : k \in KeysIn("retry") <=> k \in DOMAIN entries /\ entries[k].status = "retry"
  BY <1>2 DEF KeysIn
<1>9. ASSUME NEW k \in DOMAIN entries
      PROVE  /\ e[k] \in EntryRecords /\ e[k].to = entries[k].to
             /\ k \notin unsent => e[k] = entries[k]
             /\ k \in unsent => /\ e[k].attempts = entries[k].attempts + 1
                                /\ e[k].status = IF k \in refused THEN "failed" ELSE "retry"
  BY <1>3, <1>6, <1>8, RecordedFields
<1>10. DOMAIN e = DOMAIN entries
  BY <1>3
<1>11. EntriesKept'
  BY <1>2, <1>9, <1>10, SameRecipients
<1>12. ASSUME NEW p \in plans'
       PROVE  \E c \in routed : p = PlanFor(routed, PlanKey(c))
  BY <1>3
<1>13. ASSUME NEW p \in plans'
       PROVE  p \in PlanRecords /\ PlanRight(p)' /\ FreshPlan(p)'
  <2>1. PICK c \in routed : p = PlanFor(routed, PlanKey(c))
    BY <1>12
  <2>2. /\ p \in PlanRecords /\ FreshPlan(p)
        /\ \A k \in p.keys : k \in KeysIn("retry") /\ k[1] \in routed /\ Secured(p, k)
    BY <1>7, <2>1, PlanForFields
  <2>3. ASSUME NEW k \in p.keys
        PROVE  Retries(k)' /\ Secured(p, k)'
    <3>1. k \in DOMAIN entries /\ entries[k].status = "retry" /\ e[k] = entries[k]
      BY <1>8, <1>9, <2>2
    <3> QED
      BY <1>2, <1>4, <1>10, <2>2, <3>1 DEF Retries, Secured
  <2> QED
    BY <2>2, <2>3 DEF PlanRight, FreshPlan
<1>14. Apart'
  <2>1. ASSUME NEW p \in plans', NEW q \in plans', p # q
        PROVE  p.keys \cap q.keys = {}
    <3>1. PICK c \in routed : p = PlanFor(routed, PlanKey(c))
      BY <1>12
    <3>2. PICK d \in routed : q = PlanFor(routed, PlanKey(d))
      BY <1>12
    <3>3. \A k \in p.keys : PlanKey(k[1]) = PlanKey(c)
      BY <1>7, <3>1, PlanForFields
    <3>4. \A k \in q.keys : PlanKey(k[1]) = PlanKey(d)
      BY <1>7, <3>2, PlanForFields
    <3>5. PlanKey(c) # PlanKey(d)
      BY <2>1, <3>1, <3>2
    <3> QED
      BY <3>3, <3>4, <3>5
  <2> QED
    BY <1>5, <2>1, NoPlanFields DEF Apart
<1>15. PlansKept' /\ SessionKept'
  BY <1>4, <1>5, <1>13, <1>14, NoPlanFields DEF PlansKept, SessionKept, PlanRight
<1>16. StsTyped' /\ MailTyped' /\ exposed' = {}
  BY <1>2, <1>4, <1>6, <1>9, <1>10, <1>13 DEF MailKept, StsTyped, MailTyped, stsVars
<1>17. \A k \in KeysIn("retry") : Pending(k)' <=> k \notin unsent
  <2> SUFFICES ASSUME NEW k \in KeysIn("retry")
               PROVE  Pending(k)' <=> k \notin unsent
    OBVIOUS
  <2>1. Pending(k)' <=> \E p \in plans' : k \in p.keys
    BY <1>4, <1>5, NoPlanFields DEF Pending
  <2>2. k \in unsent <=> k[1] \notin routed
    BY <1>8
  <2>3. ASSUME NEW p \in plans', k \in p.keys
        PROVE  k[1] \in routed
    <3>1. PICK c \in routed : p = PlanFor(routed, PlanKey(c))
      BY <1>12
    <3> QED
      BY <1>7, <2>3, <3>1, PlanForFields
  <2>4. ASSUME k[1] \in routed
        PROVE  \E p \in plans' : k \in p.keys
    <3>1. PICK p : p = PlanFor(routed, PlanKey(k[1]))
      OBVIOUS
    <3>2. k \in p.keys
      BY <1>7, <2>4, <3>1, PlanForFields
    <3>3. p \in plans'
      BY <1>3, <2>4, <3>1
    <3> QED
      BY <3>2, <3>3
  <2> QED
    BY <2>1, <2>2, <2>3, <2>4
<1>18. AllTold'
  <2> SUFFICES ASSUME NEW k \in DOMAIN entries, NEW r \in entries[k].to
               PROVE  CopiesTold(k, r)' /\ TriesTold(k, r)'
    BY <1>2, <1>9, <1>10 DEF AllTold
  <2>1. CopiesTold(k, r) /\ TriesTold(k, r) /\ ~TakenNow(k, r)
    BY <1>5, NothingTaken DEF MailKept, AllTold
  <2>2. Pending(k)
    BY <1>4 DEF Pending
  <2>3. One(Pending(k)) = 1 /\ (entries[k].status = "retry" =>
                                  One(Pending(k)') = IF k \in unsent THEN 0 ELSE 1)
    BY <1>8, <1>17, <2>2 DEF One
  <2>4. /\ r \in Recipients /\ spared[r] \in Nat /\ entries[k].attempts \in Nat
        /\ entries[k].status \in {"retry", "sent", "failed"}
    BY <1>6, OwnEntry, EntryFields DEF MailKept, MailTyped
  <2>5. Tells(e[k], k, k, r)
    <3>1. CASE k \in unsent
      <4>1. /\ entries[k].status = "retry"
            /\ entries[k].attempts + spared[r] + 1 = sends /\ copies[r] <= unanswered[r]
        BY <1>8, <2>1, <2>3, <3>1 DEF TriesTold, CopiesTold
      <4>2. k \in refused => r \in refusedFor'
        BY <1>3
      <4> QED
        BY <1>4, <1>9, <2>3, <2>4, <3>1, <4>1, <4>2 DEF Tells
    <3>2. CASE k \notin unsent
      <4>1. entries[k].status = "failed" => r \in refusedFor'
        BY <1>3, <2>1 DEF CopiesTold
      <4> QED
        BY <1>4, <1>9, <2>1, <2>3, <3>2, <4>1 DEF Tells, TriesTold, CopiesTold
    <3> QED
      BY <3>1, <3>2
  <2> QED
    BY <1>2, <1>4, <1>5, <1>9, <1>10, <2>5, TellsTold
<1> QED
  BY <1>11, <1>15, <1>16, <1>18 DEF MailKept

-----------------------------------------------------------------------------
\* An entry of one number is of one recipient, and a recipient that leaves its
\* domain's group gets a key no entry has.
LEMMA OneOfANumber ==
    ASSUME MailKept, NEW k \in DOMAIN entries, k[2] # 0, NEW r \in entries[k].to, NEW s \in entries[k].to
    PROVE  r = s
<1>1. IndexOf[r] = k[2] /\ IndexOf[s] = k[2]
  BY DEF MailKept, EntriesKept, EntryKept
<1>2. r \in Recipients /\ s \in Recipients
  BY OwnEntry
<1> QED
  BY <1>1, <1>2, MailConstants

\* A recipient's own entry is not there before the split.
LEMMA OwnKeyIsNew ==
    ASSUME MailKept, NEW k \in DOMAIN entries, k[2] = 0, NEW r \in entries[k].to, NEW x,
           x = <<k[1], IndexOf[r]>>
    PROVE  /\ x \in MailKeys /\ x \notin DOMAIN entries /\ x[1] = k[1] /\ x[2] = IndexOf[r]
           /\ x[2] # 0 /\ DomainOf[r] = k[1]
<1>1. r \in Recipients /\ k \in MailKeys
  BY OwnEntry DEF MailKept, MailTyped
<1>2. IndexOf[r] \in Nat /\ IndexOf[r] # 0
  BY <1>1, MailConstants
<1>3. x \in MailKeys /\ x[1] = k[1] /\ x[2] = IndexOf[r]
  BY <1>1, <1>2 DEF MailKeys
<1>4. ASSUME x \in DOMAIN entries
      PROVE  FALSE
  <2>1. PICK s \in entries[x].to : IndexOf[s] = x[2]
    BY <1>2, <1>3, <1>4 DEF MailKept, EntriesKept, EntryKept
  <2>2. s \in Recipients
    BY <1>4, OwnEntry
  <2>3. s = r
    BY <1>1, <1>3, <2>1, <2>2, MailConstants
  <2>4. x = k
    BY <1>4, <2>1, <2>3, OwnEntry
  <2> QED
    BY <1>2, <1>3, <2>4
<1> QED
  BY <1>2, <1>3, <1>4 DEF MailKept, EntriesKept, EntryKept

\* Two recipients have different keys, and each comes from one group.
LEMMA OwnKeysDiffer ==
    ASSUME MailKept, NEW k \in DOMAIN entries, NEW r \in entries[k].to,
           NEW l \in DOMAIN entries, NEW s \in entries[l].to,
           <<k[1], IndexOf[r]>> = <<l[1], IndexOf[s]>>
    PROVE  k = l /\ r = s
<1>1. r \in Recipients /\ s \in Recipients
  BY OwnEntry
<1>2. r = s
  BY <1>1, MailConstants
<1> QED
  BY <1>2, OwnEntry

\* The entry of what a host took.
LEMMA SentFields ==
    ASSUME NEW k, entries[k] \in EntryRecords, NEW o, NEW e, e = SentEntry(k, o)
    PROVE  /\ e \in EntryRecords /\ e.to = entries[k].to \ (o.hard \cup o.soft) /\ e.status = "sent"
<1>1. PICK old \in EntryRecords : old = entries[k]
  OBVIOUS
<1>2. PICK n \in Nat : n = old.attempts + 1
  BY EntryFields
<1>3. PICK rs : rs = old.to \ (o.hard \cup o.soft)
  OBVIOUS
<1>4. rs \in SUBSET Recipients
  BY <1>3, EntryFields
<1>5. e = [old EXCEPT !.to = rs, !.status = "sent", !.attempts = n]
  BY <1>1, <1>2, <1>3 DEF SentEntry
<1>6. e \in EntryRecords /\ e.to = rs /\ e.status = "sent"
  BY <1>4, <1>5 DEF EntryRecords
<1> QED
  BY <1>1, <1>3, <1>6

\* What recordOutcome makes of an entry of the plan.
Refuses(k, r) == k \in DOMAIN plan.done /\ r \in plan.done[k].hard \cup plan.done[k].soft
Spared(k) == k \in DOMAIN plan.done /\ plan.done[k].kind = "deferred"

\* What recording an outcome makes of an entry.
LEMMA OutcomeRecorded ==
    ASSUME MailKept, NEW k \in plan.keys, NEW e, e = RecordOutcome(k)
    PROVE  /\ k \in DOMAIN entries /\ entries[k].status = "retry"
           /\ e \in EntryRecords /\ e.to # {}
           /\ \A r : r \in e.to <=> r \in entries[k].to /\ ~Refuses(k, r)
           /\ e.status = "failed" => entries[k].to \subseteq refusedFor
           /\ e.status = "sent" => \A r \in e.to : TakenNow(k, r)
           /\ e.status = "retry" => /\ \A r : ~TakenNow(k, r)
                                    /\ e.attempts = entries[k].attempts + (IF Spared(k) THEN 0 ELSE 1)
<1>1. k \in DOMAIN entries /\ entries[k].status = "retry" /\ entries[k] \in EntryRecords
  BY DEF MailKept, PlansKept, PlanRight, Retries, MailTyped
<1>2. entries[k].to # {} /\ entries[k].attempts \in Nat
  BY <1>1, EntryFields DEF MailKept, EntriesKept, EntryKept
<1>3. CASE k \notin DOMAIN plan.done
  <2>1. e = RecordUnsent(k, "retry")
    BY <1>3 DEF RecordOutcome
  <2>2. e \in EntryRecords /\ e.to = entries[k].to /\ e.status = "retry" /\ e.attempts = entries[k].attempts + 1
    BY <1>1, <2>1, RecordedFields
  <2> QED
    BY <1>1, <1>2, <1>3, <2>2 DEF Refuses, Spared, TakenNow
<1>4. CASE k \in DOMAIN plan.done
  <2>1. PICK o : o = plan.done[k]
    OBVIOUS
  <2>2. o \in Outcomes /\ OutcomeRight(k, o)
    <3>1. plan.done \in OutcomeMaps
      BY PlanFields DEF MailKept, MailTyped
    <3> QED
      BY <1>4, <2>1, <3>1, MapFields DEF MailKept, SessionKept
  <2>3. /\ e = CASE o.kind = "deferred" -> entries[k]
                 [] o.kind = "hard" -> RecordUnsent(k, "failed")
                 [] o.kind = "soft" -> RecordUnsent(k, "retry")
                 [] o.kind = "taken" -> SentEntry(k, o)
        /\ \A r : Refuses(k, r) <=> r \in o.hard \cup o.soft
        /\ Spared(k) <=> o.kind = "deferred"
        /\ \A r : TakenNow(k, r) <=> o.kind = "taken" /\ r \notin o.hard \cup o.soft
    BY <1>4, <2>1 DEF RecordOutcome, RecordDeferred, Refuses, Spared, TakenNow
  <2>4. CASE o.kind = "deferred"
    BY <1>1, <1>2, <2>2, <2>3, <2>4 DEF OutcomeRight
  <2>5. CASE o.kind = "hard"
    <3>1. e = RecordUnsent(k, "failed")
      BY <2>3, <2>5
    <3>2. e \in EntryRecords /\ e.to = entries[k].to /\ e.status = "failed"
      BY <1>1, <3>1, RecordedFields
    <3> QED
      BY <1>1, <1>2, <2>2, <2>3, <2>5, <3>2 DEF OutcomeRight
  <2>6. CASE o.kind = "soft"
    <3>1. e = RecordUnsent(k, "retry")
      BY <2>3, <2>6
    <3>2. e \in EntryRecords /\ e.to = entries[k].to /\ e.status = "retry" /\ e.attempts = entries[k].attempts + 1
      BY <1>1, <3>1, RecordedFields
    <3> QED
      BY <1>1, <1>2, <2>2, <2>3, <2>6, <3>2 DEF OutcomeRight
  <2>7. CASE o.kind = "taken"
    <3>1. e = SentEntry(k, o)
      BY <2>3, <2>7
    <3>2. e \in EntryRecords /\ e.to = entries[k].to \ (o.hard \cup o.soft) /\ e.status = "sent"
      BY <1>1, <3>1, SentFields
    <3> QED
      BY <1>1, <1>2, <2>2, <2>3, <2>7, <3>2 DEF OutcomeRight
  <2> QED
    BY <2>2, <2>4, <2>5, <2>6, <2>7, OutcomeFields
<1> QED
  BY <1>3, <1>4

\* A recipient refused alone was one of a domain's group, which the MX took
\* for others.
LEMMA RefusedInPart ==
    ASSUME MailKept, NEW k, NEW r, Refuses(k, r)
    PROVE  /\ k \in plan.keys /\ k \in DOMAIN entries /\ k[2] = 0 /\ r \in entries[k].to
           /\ entries[k].status = "retry" /\ plan.done[k].kind = "taken"
           /\ ~TakenNow(k, r) /\ (r \in plan.done[k].hard => r \in refusedFor)
<1>1. k \in plan.keys /\ OutcomeRight(k, plan.done[k])
  BY DEF Refuses, MailKept, SessionKept
<1>2. k \in DOMAIN entries /\ entries[k].status = "retry"
  BY <1>1 DEF MailKept, PlansKept, PlanRight, Retries
<1>3. plan.done[k].kind = "taken" /\ r \in entries[k].to
      /\ (r \in plan.done[k].hard => r \in refusedFor)
  BY <1>1 DEF Refuses, OutcomeRight
<1>4. PICK s \in entries[k].to : s # r
  BY <1>1, <1>3 DEF Refuses, OutcomeRight
<1>5. k[2] = 0
  BY <1>2, <1>3, <1>4, OneOfANumber
<1> QED
  BY <1>1, <1>2, <1>3, <1>5 DEF Refuses, TakenNow

\* The entry a recipient that was refused alone gets.
LEMMA RefusedFields ==
    ASSUME MailKept, NEW k, NEW r, Refuses(k, r), NEW x, x = RefusedKey(k, r), NEW e,
           e = RefusedEntry(k, plan.done[k], r)
    PROVE  /\ x \in MailKeys /\ x \notin DOMAIN entries /\ x[1] = DomainOf[r] /\ x[2] = IndexOf[r]
           /\ r \in Recipients /\ e \in EntryRecords /\ e.to = {r}
           /\ e.status = IF r \in plan.done[k].hard THEN "failed" ELSE "retry"
           /\ e.attempts = entries[k].attempts + 1
<1>1. k \in DOMAIN entries /\ k[2] = 0 /\ r \in entries[k].to
  BY RefusedInPart
<1>2. /\ x \in MailKeys /\ x \notin DOMAIN entries /\ x[1] = DomainOf[r] /\ x[2] = IndexOf[r]
  BY <1>1, OwnKeyIsNew DEF RefusedKey
<1>3. r \in Recipients /\ entries[k].attempts \in Nat
  BY <1>1, OwnEntry, EntryFields DEF MailKept, MailTyped
<1> QED
  BY <1>2, <1>3 DEF RefusedEntry, EntryRecords

\* Recording the plan's outcomes keeps the deliveries true.
LEMMA FinishPlanKeeps ==
    ASSUME MailKept, FinishPlan
    PROVE  MailKept'
<1>1. PICK split, new, e : split = RefusedAlone /\ new = NewKeys /\ e = entries'
  OBVIOUS
<1>2. e = [k \in DOMAIN entries \cup new |->
             IF k \in new
             THEN LET x == CHOOSE y \in split : RefusedKey(y[1], y[2]) = k IN
                  RefusedEntry(x[1], plan.done[x[1]], x[2])
             ELSE IF k \in plan.keys THEN RecordOutcome(k)
             ELSE entries[k]]
  BY <1>1 DEF FinishPlan
<1>2a. spared' = [r \in Recipients |->
                      IF \E k \in DOMAIN plan.done : plan.done[k].kind = "deferred" /\ r \in entries[k].to
                      THEN spared[r] + 1 ELSE spared[r]]
  BY DEF FinishPlan, To
<1>3. /\ sending = "sessions" /\ plan' = NoPlan
      /\ UNCHANGED <<sending, found, plans, sends, stsVars>>
      /\ UNCHANGED <<copies, unanswered, refusedFor, exposed>>
  BY DEF FinishPlan, copyVars
<1>4. \A x \in split : Refuses(x[1], x[2])
  BY <1>1 DEF RefusedAlone, Refuses
<1>5. ASSUME NEW k, NEW r, Refuses(k, r)
      PROVE  RefusedKey(k, r) \in new
  <2>1. r \in Recipients /\ k \in DOMAIN plan.done
    BY <1>5, RefusedFields DEF Refuses
  <2>2. <<k, r>> \in split
    BY <1>1, <1>5, <2>1 DEF RefusedAlone, Refuses
  <2> QED
    BY <1>1, <2>2 DEF NewKeys
<1>6. ASSUME NEW n \in new
      PROVE  \E k, r : /\ Refuses(k, r) /\ n = RefusedKey(k, r)
                       /\ e[n] = RefusedEntry(k, plan.done[k], r)
  <2>1. PICK x : x = CHOOSE y \in split : RefusedKey(y[1], y[2]) = n
    OBVIOUS
  <2>2. \E y \in split : RefusedKey(y[1], y[2]) = n
    BY <1>1 DEF NewKeys
  <2>3. x \in split /\ RefusedKey(x[1], x[2]) = n
    BY <2>1, <2>2
  <2>4. e[n] = RefusedEntry(x[1], plan.done[x[1]], x[2])
    BY <1>2, <2>1
  <2> QED
    BY <1>4, <2>3, <2>4
<1>7. \A n \in new : n \in MailKeys /\ n \notin DOMAIN entries
  BY <1>6, RefusedFields
<1>8. /\ DOMAIN e = DOMAIN entries \cup new
      /\ \A k \in DOMAIN entries : e[k] = IF k \in plan.keys THEN RecordOutcome(k) ELSE entries[k]
  BY <1>2, <1>7
<1>9. \A k \in DOMAIN entries : entries[k] \in EntryRecords /\ k \in MailKeys
  BY DEF MailKept, MailTyped
<1>10. DOMAIN plan.done \subseteq plan.keys
  BY DEF MailKept, SessionKept
<1>11. ASSUME NEW k \in DOMAIN entries
       PROVE  /\ e[k] \in EntryRecords /\ e[k].to # {}
              /\ \A r : r \in e[k].to <=> r \in entries[k].to /\ ~Refuses(k, r)
  <2>1. CASE k \in plan.keys
    BY <1>8, <2>1, OutcomeRecorded
  <2>2. CASE k \notin plan.keys
    BY <1>8, <1>9, <1>10, <2>2 DEF MailKept, EntriesKept, EntryKept, Refuses
  <2> QED
    BY <2>1, <2>2
<1>12. MailTyped'
  <2>1. \A k \in DOMAIN e : e[k] \in EntryRecords /\ k \in MailKeys
    BY <1>6, <1>7, <1>8, <1>9, <1>11, RefusedFields
  <2>2. spared' \in [Recipients -> Nat]
    BY <1>2a DEF MailKept, MailTyped
  <2> QED
    BY <1>1, <1>3, <2>1, <2>2, NoPlanFields DEF MailKept, MailTyped
<1>13. StsTyped' /\ SessionKept' /\ exposed' = {}
  BY <1>3, NoPlanFields DEF MailKept, StsTyped, SessionKept, stsVars
<1>14. \A k \in DOMAIN e : EntryKept(k)'
  <2>1. ASSUME NEW k \in DOMAIN entries
        PROVE  EntryKept(k)'
    <3>1. EntryKept(k)
      BY DEF MailKept, EntriesKept
    <3> QED
      BY <1>1, <1>11, <3>1 DEF EntryKept
  <2>2. ASSUME NEW n \in new
        PROVE  EntryKept(n)'
    <3>1. PICK k, r : Refuses(k, r) /\ n = RefusedKey(k, r) /\ e[n] = RefusedEntry(k, plan.done[k], r)
      BY <1>6
    <3>2. e[n].to = {r} /\ n[1] = DomainOf[r] /\ n[2] = IndexOf[r]
      BY <3>1, RefusedFields
    <3> QED
      BY <1>1, <3>2 DEF EntryKept
  <2> QED
    BY <1>8, <2>1, <2>2
\* Where a recipient of an entry was before.
<1>15. ASSUME NEW l \in DOMAIN e, NEW r \in e[l].to
       PROVE  \/ l \in DOMAIN entries /\ r \in entries[l].to /\ ~Refuses(l, r)
              \/ \E k \in DOMAIN entries : /\ Refuses(k, r) /\ l = RefusedKey(k, r) /\ r \in entries[k].to
                                           /\ e[l] = RefusedEntry(k, plan.done[k], r)
  <2>1. CASE l \in DOMAIN entries
    BY <1>11, <2>1
  <2>2. CASE l \in new
    <3>1. PICK k, s : Refuses(k, s) /\ l = RefusedKey(k, s) /\ e[l] = RefusedEntry(k, plan.done[k], s)
      BY <1>6, <2>2
    <3>2. e[l].to = {s} /\ k \in DOMAIN entries /\ s \in entries[k].to
      BY <3>1, RefusedFields, RefusedInPart
    <3> QED
      BY <3>1, <3>2
  <2> QED
    BY <1>8, <2>1, <2>2
<1>16. InOne'
  <2> SUFFICES ASSUME NEW r \in Recipients
               PROVE  \E k \in DOMAIN e : r \in e[k].to /\ \A l \in DOMAIN e : r \in e[l].to => l = k
    BY <1>1 DEF InOne
  <2>1. PICK k \in DOMAIN entries : r \in entries[k].to
    BY DEF MailKept, EntriesKept, InOne
  <2>2. \A l \in DOMAIN entries : r \in entries[l].to => l = k
    BY <2>1, OwnEntry
  <2>3. CASE Refuses(k, r)
    <3>1. PICK x : x = RefusedKey(k, r)
      OBVIOUS
    <3>2. x \in new
      BY <1>5, <2>3, <3>1
    <3>3. r \in e[x].to
      <4>1. PICK l, s : Refuses(l, s) /\ x = RefusedKey(l, s) /\ e[x] = RefusedEntry(l, plan.done[l], s)
        BY <1>6, <3>2
      <4>2. l \in DOMAIN entries /\ s \in entries[l].to /\ e[x].to = {s}
        BY <4>1, RefusedInPart, RefusedFields
      <4>3. s = r
        BY <2>1, <3>1, <4>1, <4>2, OwnKeysDiffer DEF RefusedKey
      <4> QED
        BY <4>2, <4>3
    <3>4. ASSUME NEW l \in DOMAIN e, r \in e[l].to
          PROVE  l = x
      BY <1>15, <2>2, <2>3, <3>1, <3>4
    <3> QED
      BY <1>8, <3>2, <3>3, <3>4
  <2>4. CASE ~Refuses(k, r)
    <3>1. k \in DOMAIN e /\ r \in e[k].to
      BY <1>8, <1>11, <2>1, <2>4
    <3>2. ASSUME NEW l \in DOMAIN e, r \in e[l].to
          PROVE  l = k
      BY <1>15, <2>2, <2>4, <3>2
    <3> QED
      BY <3>1, <3>2
  <2> QED
    BY <2>3, <2>4
<1>17. PlansKept'
  <2>1. ASSUME NEW p \in plans
        PROVE  PlanRight(p)' /\ FreshPlan(p)'
    <3>1. PlanRight(p) /\ FreshPlan(p) /\ p.keys \cap plan.keys = {}
      BY DEF MailKept, PlansKept, Apart
    <3>2. ASSUME NEW k \in p.keys
          PROVE  Retries(k)' /\ Secured(p, k)'
      <4>1. Retries(k) /\ Secured(p, k) /\ k \notin plan.keys
        BY <3>1, <3>2 DEF PlanRight
      <4>2. k \in DOMAIN entries /\ k \in DOMAIN e /\ e[k] = entries[k]
        BY <1>8, <4>1 DEF Retries
      <4> QED
        BY <1>1, <1>3, <4>1, <4>2 DEF Retries, Secured
    <3> QED
      BY <3>1, <3>2 DEF PlanRight, FreshPlan
  <2>2. Apart'
    BY <1>3, NoPlanFields DEF MailKept, PlansKept, Apart
  <2> QED
    BY <1>3, <2>1, <2>2, NoPlanFields DEF PlansKept, PlanRight
<1>18. AllTold'
  <2> SUFFICES ASSUME NEW l \in DOMAIN e, NEW r \in e[l].to
               PROVE  CopiesTold(l, r)' /\ TriesTold(l, r)'
    BY <1>1 DEF AllTold
  <2>1. ASSUME NEW k \in DOMAIN entries, r \in entries[k].to
        PROVE  /\ CopiesTold(k, r) /\ TriesTold(k, r) /\ r \in Recipients
               /\ spared[r] \in Nat /\ entries[k].attempts \in Nat
               /\ entries[k].status \in {"retry", "sent", "failed"}
               /\ spared'[r] = IF Spared(k) THEN spared[r] + 1 ELSE spared[r]
    <3>1. CopiesTold(k, r) /\ TriesTold(k, r) /\ r \in Recipients
      BY <2>1, OwnEntry DEF MailKept, AllTold
    <3>2. \A x \in DOMAIN plan.done : x \in DOMAIN entries
      BY <1>10 DEF MailKept, PlansKept, PlanRight, Retries
    <3>3. (\E x \in DOMAIN plan.done : plan.done[x].kind = "deferred" /\ r \in entries[x].to) <=> Spared(k)
      BY <2>1, <3>2, OwnEntry DEF Spared
    <3> QED
      BY <1>2a, <1>9, <3>1, <3>3, EntryFields DEF MailKept, MailTyped
  <2>2. Pending(l)' <=> \E p \in plans : l \in p.keys
    BY <1>3, NoPlanFields DEF Pending
  <2>3. \A p \in plans : p.keys \subseteq DOMAIN entries /\ p.keys \cap plan.keys = {}
    BY DEF MailKept, PlansKept, PlanRight, Retries, Apart
  <2>4. CASE l \in DOMAIN entries /\ r \in entries[l].to /\ ~Refuses(l, r)
    <3>1. CASE l \in plan.keys
      <4>1. One(Pending(l)') = 0 /\ One(Pending(l)) = 1
        BY <2>2, <2>3, <3>1 DEF Pending, One
      <4>2. e[l] = RecordOutcome(l) /\ entries[l].status = "retry"
        BY <1>8, <2>4, <3>1, OutcomeRecorded
      <4>3. /\ e[l].status = "failed" => r \in refusedFor
            /\ e[l].status = "sent" => TakenNow(l, r)
            /\ e[l].status = "retry" => /\ ~TakenNow(l, r)
                                        /\ e[l].attempts = entries[l].attempts + (IF Spared(l) THEN 0 ELSE 1)
        BY <2>4, <3>1, <4>2, OutcomeRecorded
      <4>4. /\ entries[l].attempts + spared[r] + 1 = sends
            /\ IF TakenNow(l, r) THEN copies[r] > 0 ELSE copies[r] <= unanswered[r]
        BY <2>1, <2>4, <4>1, <4>2 DEF TriesTold, CopiesTold
      <4>5. e[l].status = "retry" => e[l].attempts + spared'[r] + One(Pending(l)') = sends'
        BY <1>3, <2>1, <2>4, <4>1, <4>3, <4>4
      <4>6. Tells(e[l], l, l, r)
        BY <1>3, <4>3, <4>4, <4>5 DEF Tells
      <4> QED
        BY <1>1, <1>3, <2>4, <4>6, TellsTold
    <3>2. CASE l \notin plan.keys
      <4>1. One(Pending(l)') = One(Pending(l))
        BY <1>3, <2>2, <3>2 DEF Pending, One
      <4>2. e[l] = entries[l] /\ ~TakenNow(l, r) /\ ~Spared(l)
        BY <1>8, <1>10, <2>4, <3>2 DEF TakenNow, Spared
      <4>3. Tells(e[l], l, l, r)
        BY <1>3, <2>1, <2>4, <4>1, <4>2 DEF Tells, TriesTold, CopiesTold
      <4> QED
        BY <1>1, <1>3, <2>4, <4>3, TellsTold
    <3> QED
      BY <3>1, <3>2
  <2>5. ASSUME NEW k \in DOMAIN entries, Refuses(k, r), l = RefusedKey(k, r), r \in entries[k].to,
               e[l] = RefusedEntry(k, plan.done[k], r)
        PROVE  CopiesTold(l, r)' /\ TriesTold(l, r)'
    <3>1. /\ l \notin DOMAIN entries /\ e[l].attempts = entries[k].attempts + 1
          /\ e[l].status = IF r \in plan.done[k].hard THEN "failed" ELSE "retry"
      BY <2>5, RefusedFields
    <3>2. /\ k \in plan.keys /\ entries[k].status = "retry" /\ ~Spared(k) /\ ~TakenNow(k, r)
          /\ r \in plan.done[k].hard => r \in refusedFor
      BY <2>5, RefusedInPart DEF Spared
    <3>3. One(Pending(l)') = 0 /\ One(Pending(k)) = 1
      BY <2>2, <2>3, <3>1, <3>2 DEF Pending, One
    <3>4. entries[k].attempts + spared[r] + 1 = sends /\ copies[r] <= unanswered[r]
      BY <2>1, <2>5, <3>2, <3>3 DEF TriesTold, CopiesTold
    <3>5. e[l].attempts + spared'[r] + One(Pending(l)') = sends'
      BY <1>3, <2>1, <2>5, <3>1, <3>2, <3>3, <3>4
    <3>6. Tells(e[l], l, k, r)
      BY <1>3, <3>1, <3>2, <3>4, <3>5 DEF Tells
    <3> QED
      BY <1>1, <1>3, <2>5, <3>6, TellsTold
  <2> QED
    BY <1>15, <2>4, <2>5
<1>19. EntriesKept'
  BY <1>1, <1>14, <1>16 DEF EntriesKept
<1> QED
  BY <1>12, <1>13, <1>17, <1>18, <1>19 DEF MailKept

-----------------------------------------------------------------------------
\* Only a domain's group is split, and every recipient of it gets its own key.
LEMMA SplitsGroups ==
    ASSUME MailKept, NEW k \in SplitKeys
    PROVE  k \in DOMAIN entries /\ entries[k].status = "retry" /\ k[2] = 0
<1>1. k \in DOMAIN entries /\ entries[k].status = "retry" /\ Cardinality(entries[k].to) > 1
  BY DEF SplitKeys, KeysIn
<1>2. PICK r \in entries[k].to : TRUE
  BY <1>1 DEF MailKept, EntriesKept, EntryKept
<1>3. ASSUME k[2] # 0
      PROVE  FALSE
  <2>1. entries[k].to = {r}
    BY <1>1, <1>2, <1>3, OneOfANumber
  <2>2. Cardinality({r}) = 1
    BY FS_Singleton
  <2> QED
    BY <1>1, <2>1, <2>2
<1> QED
  BY <1>1, <1>3

\* The entries that a split makes.
LEMMA SplitFields ==
    ASSUME MailKept, NEW k \in SplitKeys, NEW r \in entries[k].to, NEW x, x = <<k[1], IndexOf[r]>>
    PROVE  /\ x \in MailKeys /\ x \notin DOMAIN entries /\ x[1] = DomainOf[r] /\ x[2] = IndexOf[r]
           /\ SplitFrom(x) = {k}
           /\ SplitEntry(k, x) \in EntryRecords /\ SplitEntry(k, x).to = {r}
           /\ SplitEntry(k, x).status = "retry"
           /\ SplitEntry(k, x).attempts = entries[k].attempts
<1>1. k \in DOMAIN entries /\ entries[k].status = "retry" /\ k[2] = 0
  BY SplitsGroups
<1>2. /\ x \in MailKeys /\ x \notin DOMAIN entries /\ x[1] = DomainOf[r] /\ x[2] = IndexOf[r]
  BY <1>1, OwnKeyIsNew
<1>3. SplitFrom(x) = {k}
  <2>1. k \in SplitFrom(x)
    BY DEF SplitFrom, OwnKeys
  <2>2. ASSUME NEW l \in SplitFrom(x)
        PROVE  l = k
    <3>1. PICK s \in entries[l].to : l \in SplitKeys /\ x = <<l[1], IndexOf[s]>>
      BY <2>2 DEF SplitFrom, OwnKeys
    <3>2. l \in DOMAIN entries
      BY <3>1, SplitsGroups
    <3> QED
      BY <1>1, <3>1, <3>2, OwnKeysDiffer
  <2> QED
    BY <2>1, <2>2
<1>4. PICK old \in EntryRecords : old = entries[k]
  BY <1>1 DEF MailKept, MailTyped
<1>5. {s \in entries[k].to : IndexOf[s] = x[2]} = {r}
  <2>1. \A s \in entries[k].to : s \in Recipients
    BY <1>1, OwnEntry
  <2> QED
    BY <1>2, <2>1, MailConstants
<1>6. SplitEntry(k, x) = [old EXCEPT !.to = {r}]
  BY <1>4, <1>5 DEF SplitEntry
<1>7. {r} \in SUBSET Recipients
  BY <1>1, OwnEntry
<1>8. PICK e : e = [old EXCEPT !.to = {r}]
  OBVIOUS
<1>9. e \in EntryRecords /\ e.to = {r} /\ e.status = old.status /\ e.attempts = old.attempts
  BY <1>7, <1>8 DEF EntryRecords
<1> QED
  BY <1>1, <1>2, <1>3, <1>4, <1>6, <1>8, <1>9

\* The state sendMail starts from: every recipient is in one entry as before,
\* alone or not, with what was recorded for it.
Carries(e) ==
    /\ \A l \in DOMAIN e : l \in MailKeys /\ e[l] \in EntryRecords
    /\ \A l \in DOMAIN e : \A r \in e[l].to :
          \E k \in DOMAIN entries : /\ r \in entries[k].to /\ e[l].status = entries[k].status
                                    /\ e[l].attempts = entries[k].attempts

\* A split loses no recipient and repeats none.
LEMMA SplitCarries ==
    ASSUME MailKept, SendMail, returnPath
    PROVE  Carries(entries') /\ EntriesKept'
<1>1. PICK e : e = entries'
  OBVIOUS
<1>2. e = [x \in (DOMAIN entries \ SplitKeys) \cup UNION {OwnKeys(k) : k \in SplitKeys} |->
             IF SplitFrom(x) = {} THEN entries[x]
             ELSE SplitEntry(CHOOSE k \in SplitFrom(x) : TRUE, x)]
  BY <1>1 DEF SendMail, SplitPerRecipient
<1>3. ASSUME NEW x \in DOMAIN entries \ SplitKeys
      PROVE  x \in DOMAIN e /\ e[x] = entries[x]
  <2>1. ASSUME NEW k \in SplitFrom(x)
        PROVE  FALSE
    <3>1. PICK r \in entries[k].to : k \in SplitKeys /\ x = <<k[1], IndexOf[r]>>
      BY <2>1 DEF SplitFrom, OwnKeys
    <3> QED
      BY <3>1, SplitFields
  <2> QED
    BY <1>2, <2>1
<1>4. ASSUME NEW k \in SplitKeys, NEW r \in entries[k].to
      PROVE  <<k[1], IndexOf[r]>> \in DOMAIN e
             /\ e[<<k[1], IndexOf[r]>>] = SplitEntry(k, <<k[1], IndexOf[r]>>)
  <2>1. PICK x : x = <<k[1], IndexOf[r]>>
    OBVIOUS
  <2>2. SplitFrom(x) = {k}
    BY <2>1, SplitFields
  <2>3. x \in UNION {OwnKeys(l) : l \in SplitKeys}
    BY <2>1 DEF OwnKeys
  <2> QED
    BY <1>2, <2>1, <2>2, <2>3
<1>5. ASSUME NEW l \in DOMAIN e
      PROVE  \/ l \in DOMAIN entries \ SplitKeys /\ e[l] = entries[l]
             \/ \E k \in SplitKeys : \E r \in entries[k].to :
                   l = <<k[1], IndexOf[r]>> /\ e[l] = SplitEntry(k, l)
  <2>1. CASE l \in DOMAIN entries \ SplitKeys
    BY <1>3, <2>1
  <2>2. CASE l \in UNION {OwnKeys(k) : k \in SplitKeys}
    <3>1. PICK k \in SplitKeys : \E r \in entries[k].to : l = <<k[1], IndexOf[r]>>
      BY <2>2 DEF OwnKeys
    <3> QED
      BY <1>4, <3>1
  <2> QED
    BY <1>2, <2>1, <2>2
<1>6. \A k \in SplitKeys : k \in DOMAIN entries /\ entries[k].status = "retry"
  BY SplitsGroups
<1>7. ASSUME NEW l \in DOMAIN e
      PROVE  /\ l \in MailKeys /\ e[l] \in EntryRecords /\ e[l].to # {}
             /\ \A r \in e[l].to : DomainOf[r] = l[1] /\ (l[2] # 0 => IndexOf[r] = l[2])
             /\ \A r \in e[l].to :
                   \E k \in DOMAIN entries : /\ r \in entries[k].to /\ e[l].status = entries[k].status
                                             /\ e[l].attempts = entries[k].attempts
  <2>1. CASE l \in DOMAIN entries \ SplitKeys /\ e[l] = entries[l]
    BY <2>1 DEF MailKept, MailTyped, EntriesKept, EntryKept
  <2>2. ASSUME NEW k \in SplitKeys, NEW r \in entries[k].to, l = <<k[1], IndexOf[r]>>, e[l] = SplitEntry(k, l)
        PROVE  /\ l \in MailKeys /\ e[l] \in EntryRecords /\ e[l].to = {r}
               /\ l[1] = DomainOf[r] /\ l[2] = IndexOf[r]
               /\ e[l].status = entries[k].status /\ e[l].attempts = entries[k].attempts
    BY <1>6, <2>2, SplitFields
  <2> QED
    BY <1>5, <1>6, <2>1, <2>2
<1>8. ASSUME NEW r \in Recipients
      PROVE  \E k \in DOMAIN e : r \in e[k].to /\ \A l \in DOMAIN e : r \in e[l].to => l = k
  <2>1. PICK k \in DOMAIN entries : r \in entries[k].to
    BY DEF MailKept, EntriesKept, InOne
  <2>2. \A l \in DOMAIN entries : r \in entries[l].to => l = k
    BY <2>1, OwnEntry
  <2>3. ASSUME NEW l \in DOMAIN e, r \in e[l].to
        PROVE  \/ l = k /\ k \notin SplitKeys
               \/ k \in SplitKeys /\ l = <<k[1], IndexOf[r]>>
    <3>1. CASE l \in DOMAIN entries \ SplitKeys /\ e[l] = entries[l]
      BY <2>2, <2>3, <3>1
    <3>2. ASSUME NEW m \in SplitKeys, NEW s \in entries[m].to, l = <<m[1], IndexOf[s]>>, e[l] = SplitEntry(m, l)
          PROVE  k \in SplitKeys /\ l = <<k[1], IndexOf[r]>>
      <4>1. s = r
        BY <2>3, <3>2, SplitFields
      <4> QED
        BY <1>6, <2>2, <3>2, <4>1
    <3> QED
      BY <1>5, <3>1, <3>2
  <2>4. CASE k \in SplitKeys
    <3>1. PICK x : x = <<k[1], IndexOf[r]>>
      OBVIOUS
    <3>2. x \in DOMAIN e /\ r \in e[x].to
      BY <1>4, <2>1, <2>4, <3>1, SplitFields
    <3> QED
      BY <2>3, <2>4, <3>1, <3>2
  <2>5. CASE k \notin SplitKeys
    BY <1>3, <2>1, <2>3, <2>5
  <2> QED
    BY <2>4, <2>5
<1>9. Carries(e)
  BY <1>7 DEF Carries
<1>10. EntriesKept'
  BY <1>1, <1>7, <1>8 DEF EntriesKept, EntryKept, InOne
<1> QED
  BY <1>1, <1>9, <1>10

\* The start of a pass, with its split, keeps the deliveries true.
LEMMA SendMailKeeps ==
    ASSUME MailKept, SendMail
    PROVE  MailKept'
<1>1. PICK e : e = entries'
  OBVIOUS
<1>2. /\ sending = "idle" /\ sends' = sends + 1 /\ sending' = "discover"
      /\ found' = [d \in MailDomains |-> Unknown]
      /\ UNCHANGED <<plans, plan, spared, stsVars>>
      /\ UNCHANGED <<copies, unanswered, refusedFor, exposed>>
      /\ ~returnPath => e = entries
  BY <1>1 DEF SendMail, copyVars
<1>3. plan = NoPlan /\ plans = {}
  BY <1>2 DEF MailKept, PlansKept
<1>4. Carries(e) /\ EntriesKept'
  <2>1. CASE returnPath
    BY <1>1, <2>1, SplitCarries
  <2>2. CASE ~returnPath
    <3>1. Carries(entries)
      BY DEF Carries, MailKept, MailTyped
    <3>2. EntriesKept'
      BY <1>1, <1>2, <2>2 DEF MailKept, EntriesKept, EntryKept, InOne
    <3> QED
      BY <1>2, <2>2, <3>1, <3>2
  <2> QED
    BY <2>1, <2>2
<1>5. StsTyped' /\ exposed' = {}
  BY <1>2 DEF MailKept, StsTyped, stsVars
<1>6. MailTyped'
  BY <1>1, <1>2, <1>4 DEF MailKept, MailTyped, Carries
<1>7. PlansKept' /\ SessionKept'
  BY <1>2, <1>3, NoPlanFields DEF PlansKept, SessionKept, PlanRight, Apart
<1>8. AllTold'
  <2> SUFFICES ASSUME NEW l \in DOMAIN e, NEW r \in e[l].to
               PROVE  CopiesTold(l, r)' /\ TriesTold(l, r)'
    BY <1>1 DEF AllTold
  <2>1. PICK k \in DOMAIN entries : /\ r \in entries[k].to /\ e[l].status = entries[k].status
                                    /\ e[l].attempts = entries[k].attempts
    BY <1>4 DEF Carries
  <2>2. CopiesTold(k, r) /\ TriesTold(k, r) /\ ~TakenNow(k, r)
    BY <1>3, <2>1, NothingTaken DEF MailKept, AllTold
  <2>3. One(Pending(k)) = 0 /\ One(Pending(l)') = 1
    <3>1. ~Pending(k) /\ Pending(l)'
      BY <1>2, <1>3, NothingTaken DEF Pending
    <3> QED
      BY <3>1 DEF One
  <2>4. r \in Recipients /\ spared[r] \in Nat /\ entries[k].attempts \in Nat /\ sends \in Nat
    BY <2>1, OwnEntry, EntryFields DEF MailKept, MailTyped
  <2>5. e[l].status = "retry" => e[l].attempts + spared'[r] + One(Pending(l)') = sends'
    BY <1>2, <2>1, <2>2, <2>3, <2>4 DEF TriesTold
  <2>6. Tells(e[l], l, k, r)
    BY <1>2, <2>1, <2>2, <2>5 DEF Tells, CopiesTold
  <2> QED
    BY <1>1, <1>2, <1>3, <2>1, <2>6, TellsTold
<1> QED
  BY <1>4, <1>5, <1>6, <1>7, <1>8 DEF MailKept

-----------------------------------------------------------------------------
\* The first state's deliveries are true.
LEMMA MailInitKept ==
    ASSUME MailInit
    PROVE  MailKept
<1>1. /\ entries = BuildInitialState /\ sending = "idle" /\ plans = {} /\ plan = NoPlan
      /\ found = [d \in MailDomains |-> Unknown] /\ sends = 0 /\ exposed = {}
      /\ copies = [r \in Recipients |-> 0] /\ unanswered = [r \in Recipients |-> 0]
      /\ spared = [r \in Recipients |-> 0]
  BY DEF MailInit
<1>2. DOMAIN entries = {<<d, 0>> : d \in MailDomains}
  BY <1>1 DEF BuildInitialState, GroupKey
<1>3. ASSUME NEW k \in DOMAIN entries
      PROVE  /\ k \in MailKeys /\ k[1] \in MailDomains /\ k = <<k[1], 0>> /\ k[2] = 0
             /\ entries[k] \in EntryRecords
             /\ entries[k].to = {r \in Recipients : DomainOf[r] = k[1]}
             /\ entries[k].status = "retry" /\ entries[k].attempts = 0
  <2>1. k \in MailKeys /\ k[1] \in MailDomains /\ k = <<k[1], 0>> /\ k[2] = 0
    BY <1>2, <1>3 DEF MailKeys
  <2>2. entries[k] = [to |-> {r \in Recipients : DomainOf[r] = k[1]}, status |-> "retry", attempts |-> 0]
    BY <1>1, <1>2, <1>3 DEF BuildInitialState, GroupKey
  <2> QED
    BY <2>1, <2>2 DEF EntryRecords
<1>4. EntriesKept
  <2>1. \A k \in DOMAIN entries : EntryKept(k)
    BY <1>3 DEF EntryKept, MailDomains
  <2>2. ASSUME NEW r \in Recipients
        PROVE  \E k \in DOMAIN entries : /\ r \in entries[k].to
                                         /\ \A l \in DOMAIN entries : r \in entries[l].to => l = k
    <3>1. PICK k : k = <<DomainOf[r], 0>>
      OBVIOUS
    <3>2. k \in DOMAIN entries
      BY <1>2, <3>1 DEF MailDomains
    <3>3. r \in entries[k].to
      BY <1>3, <3>1, <3>2
    <3>4. \A l \in DOMAIN entries : r \in entries[l].to => l = k
      BY <1>3, <3>1
    <3> QED
      BY <3>2, <3>3, <3>4
  <2> QED
    BY <2>1, <2>2 DEF EntriesKept, InOne
<1>5. StsTyped
  BY <1>1, PolicyFields, MailConstants DEF MailInit, StsTyped
<1>6. MailTyped
  BY <1>1, <1>3, NoPlanFields DEF MailTyped
<1>7. PlansKept /\ SessionKept
  BY <1>1, NoPlanFields DEF PlansKept, SessionKept, PlanRight, Apart
<1>8. AllTold
  <2> SUFFICES ASSUME NEW k \in DOMAIN entries, NEW r \in entries[k].to
               PROVE  CopiesTold(k, r) /\ TriesTold(k, r)
    BY DEF AllTold
  <2>1. /\ entries[k].status = "retry" /\ entries[k].attempts = 0 /\ r \in Recipients
        /\ copies[r] = 0 /\ unanswered[r] = 0 /\ spared[r] = 0
    BY <1>1, <1>3
  <2>2. ~TakenNow(k, r) /\ ~Pending(k)
    BY <1>1, NothingTaken DEF Pending
  <2>3. One(Pending(k)) = 0
    BY <2>2 DEF One
  <2> QED
    BY <1>1, <2>1, <2>2, <2>3 DEF CopiesTold, TriesTold
<1> QED
  BY <1>1, <1>4, <1>5, <1>6, <1>7, <1>8 DEF MailKept

\* Nothing happens.
LEMMA MailStutters ==
    ASSUME MailKept, UNCHANGED mailVars
    PROVE  MailKept'
<1>1. StsTyped' /\ found' = found /\ UNCHANGED <<entries, sending, plans, plan, sends, copyVars, spared>>
  BY DEF mailVars, copyVars, MailKept, StsTyped
<1> QED
  BY <1>1, StsFrame

\* Every step keeps the deliveries true.
LEMMA MailStepKeeps ==
    ASSUME MailKept, MailNext
    PROVE  MailKept'
<1>1. CASE SendMail
  BY <1>1, SendMailKeeps
<1>2. CASE PlanSessions
  BY <1>2, PlanSessionsKeeps
<1>3. CASE Uncomposable
  BY <1>3, UncomposableKeeps
<1>4. CASE SendMailReturns
  BY <1>4, ReturnsKeeps
<1>5. CASE \E d \in MailDomains : StsStep(d)
  BY <1>5, StsKeeps
<1>6. CASE \E p \in plans : StartPlan(p)
  BY <1>6, StartKeeps
<1>7. CASE SkipHost \/ SessionEnds
  BY <1>7, NextHostKeeps
<1>8. CASE OpenSession
  BY <1>8, OpenKeeps
<1>9. CASE BudgetSpent
  BY <1>9, SpentKeeps
<1>10. CASE FinishPlan
  BY <1>10, FinishPlanKeeps
<1>11. ASSUME NEW k \in plan.todo, TransactionStep(k)
       PROVE  MailKept'
  BY <1>11, AcceptedKeeps, RefusedKeeps, NoAnswerKeeps, NoTlsKeeps DEF TransactionStep
<1> QED
  BY <1>1, <1>2, <1>3, <1>4, <1>5, <1>6, <1>7, <1>8, <1>9, <1>10, <1>11 DEF MailNext

\* The invariant holds in every behaviour.
LEMMA MailStaysKept == MailSpec => []MailKept
<1>1. MailInit => MailKept
  BY MailInitKept
<1>2. MailKept /\ [MailNext]_mailVars => MailKept'
  BY MailStepKeeps, MailStutters
<1> QED
  BY <1>1, <1>2, PTL DEF MailSpec

\* The invariant says what DeliveriesAreTrue says.
LEMMA KeptIsTrue ==
    ASSUME MailKept
    PROVE  DeliveriesAreTrue
<1>1. ASSUME NEW r \in Recipients
      PROVE  /\ Cardinality({k \in DOMAIN entries : r \in entries[k].to}) = 1
             /\ \E k \in DOMAIN entries : r \in entries[k].to /\ EntryOf(r) = entries[k]
  <2>1. PICK k \in DOMAIN entries : /\ r \in entries[k].to
                                    /\ \A l \in DOMAIN entries : r \in entries[l].to => l = k
    BY DEF MailKept, EntriesKept, InOne
  <2>2. {l \in DOMAIN entries : r \in entries[l].to} = {k}
    BY <2>1
  <2>3. Cardinality({k}) = 1
    BY FS_Singleton
  <2>4. k = CHOOSE l \in DOMAIN entries : r \in entries[l].to
    BY <2>1
  <2> QED
    BY <2>1, <2>2, <2>3, <2>4 DEF EntryOf
<1>2. MailTypeOK
  <2>1. ASSUME NEW k \in DOMAIN entries
        PROVE  entries[k].status \in {"retry", "sent", "failed"} /\ entries[k].to # {}
    BY EntryFields DEF MailKept, MailTyped, EntriesKept, EntryKept
  <2> QED
    BY <1>1, <2>1 DEF MailTypeOK, MailKept, StsTyped
<1>3. DeliveredOnce
  BY <1>1 DEF DeliveredOnce, MailKept, AllTold, CopiesTold
<1>4. AttemptsAreCounted
  <2> SUFFICES ASSUME sending = "idle", NEW r \in Recipients, EntryOf(r).status = "retry"
               PROVE  EntryOf(r).attempts = sends - spared[r]
    BY DEF AttemptsAreCounted
  <2>1. PICK k \in DOMAIN entries : r \in entries[k].to /\ EntryOf(r) = entries[k]
    BY <1>1
  <2>2. plan = NoPlan /\ plans = {}
    BY DEF MailKept, PlansKept
  <2>3. ~Pending(k)
    BY <2>2, NothingTaken DEF Pending
  <2>4. entries[k].attempts + spared[r] + 0 = sends
    BY <2>1, <2>3 DEF MailKept, AllTold, TriesTold, One
  <2>5. entries[k].attempts \in Nat /\ spared[r] \in Nat /\ sends \in Nat
    BY <2>1, EntryFields DEF MailKept, MailTyped
  <2> QED
    BY <2>1, <2>4, <2>5
<1> QED
  BY <1>2, <1>3, <1>4 DEF DeliveriesAreTrue, EnforcedIsVerified, MailKept

\* Whatever the hosts answer, lose or refuse, and however the attempts split
\* and retry an email, every recipient stays in exactly one entry of the
\* delivery state, which says sent only of an email an MX took and failed only
\* of one refused for good; a recipient gets one copy more than the answers
\* that were lost at most, counts every attempt that was not deferred, and is
\* never sent to without the TLS its domain's policy enforces (sendMail,
\* sendToMxHosts and recordOutcome in mailer.service.ts and mx-route.ts).
THEOREM DeliveriesStayTrue == MailSpec => []DeliveriesAreTrue
<1>1. MailKept => DeliveriesAreTrue
  BY KeptIsTrue
<1> QED
  BY <1>1, MailStaysKept, PTL

\* A domain's policy is found once an attempt, and then it is the one in the
\* cache.
LEMMA FoundIsCached ==
    ASSUME StsTyped, MailNext, NEW d \in MailDomains, found[d] = Unknown, found'[d] # Unknown
    PROVE  found'[d] = cached'[d]
<1>1. found' # found
  OBVIOUS
<1>2. CASE SendMail
  <2>1. found'[d] = Unknown
    BY <1>2 DEF SendMail
  <2> QED
    BY <2>1
<1>3. ASSUME NEW c \in MailDomains, StsStep(c)
      PROVE  found'[d] = cached'[d]
  <2>1. cached[c] \in AnyPolicy /\ cached \in [MailDomains -> AnyPolicy]
    BY DEF StsTyped
  <2>2. ASSUME NEW p \in AnyPolicy, Discovered(c, p), cached'[c] = p
        PROVE  found'[d] = cached'[d]
    <3>1. found'[d] = found[d] \/ (d = c /\ found'[d] = p)
      BY <2>2, DiscoveredTyped
    <3> QED
      BY <2>2, <3>1
  <2>3. ASSUME NEW txt, LookupTxt(c, txt)
        PROVE  found'[d] = cached'[d]
    <3>1. cached' = cached /\ (Discovered(c, cached[c]) \/ found' = found)
      BY <2>3 DEF LookupTxt, Kept
    <3> QED
      BY <1>1, <2>1, <2>2, <3>1
  <2>4. CASE FetchMtaStsPolicy(c)
    <3>1. PICK p : p = [published[c] EXCEPT !.id = lookups[c].id]
      OBVIOUS
    <3>2. cached' = [cached EXCEPT ![c] = p] /\ Discovered(c, p)
      BY <2>4, <3>1 DEF FetchMtaStsPolicy
    <3>3. p \in AnyPolicy
      <4>1. lookups[c].id \in 0..MaxPolicies /\ published[c] \in AnyPolicy
        BY DEF StsTyped
      <4> QED
        BY <3>1, <4>1 DEF AnyPolicy
    <3>4. cached'[c] = p
      BY <2>1, <3>2
    <3> QED
      BY <2>2, <3>2, <3>3, <3>4
  <2>5. CASE FetchFails(c)
    <3>1. cached' = cached /\ Discovered(c, cached[c])
      BY <2>5 DEF FetchFails
    <3> QED
      BY <2>1, <2>2, <3>1
  <2>6. CASE OtherDiscovers(c) \/ PolicyExpires(c) \/ \E mode \in StsModes[c] : PublishPolicy(c, mode)
    BY <1>1, <2>6 DEF OtherDiscovers, PolicyExpires, PublishPolicy
  <2> QED
    BY <1>3, <2>3, <2>4, <2>5, <2>6 DEF StsStep
<1>4. CASE \/ PlanSessions \/ Uncomposable \/ SendMailReturns
           \/ \E p \in plans : StartPlan(p)
           \/ SkipHost \/ OpenSession \/ SessionEnds \/ BudgetSpent \/ FinishPlan
  BY <1>1, <1>4 DEF PlanSessions, Uncomposable, SendMailReturns, StartPlan, SkipHost, OpenSession,
     SessionEnds, BudgetSpent, FinishPlan
<1>5. ASSUME NEW k \in plan.todo, TransactionStep(k)
      PROVE  found'[d] = cached'[d]
  BY <1>1, <1>5 DEF TransactionStep, Accepted, Refused, NoAnswer, NoVerifiedTls
<1> QED
  BY <1>2, <1>3, <1>4, <1>5 DEF MailNext

\* The policy an attempt works by is the cached one at the moment it is found:
\* no TXT record that is missing or unreadable, and no fetch that fails, takes
\* a policy out of the cache for it (discoverMtaSts in mta-sts.service.ts).
THEOREM PolicyStaysKept == MailSpec => PolicyIsKept
<1>1. MailKept /\ [MailNext]_mailVars =>
        [\A d \in MailDomains :
            found[d] = Unknown /\ found'[d] # Unknown => found'[d] = cached'[d]]_mailVars
  <2> SUFFICES ASSUME MailKept, MailNext
               PROVE  \A d \in MailDomains :
                        found[d] = Unknown /\ found'[d] # Unknown => found'[d] = cached'[d]
    OBVIOUS
  <2> QED
    BY FoundIsCached DEF MailKept
<1> QED
  BY <1>1, MailStaysKept, PTL DEF MailSpec, PolicyIsKept

-----------------------------------------------------------------------------
(* The fixed-window limits.                                                *)

WindowRecords == [count : Nat, id : Nat, marked : BOOLEAN]
Tickets == [store : Stores \cup {"none"}, id : Nat]
AttemptStates ==
    {"new", "limited", "refused", "checking", "failed", "succeeding", "succeeded"}

RateTyped ==
    /\ window \in [Stores -> [Buckets -> WindowRecords]]
    /\ DOMAIN attempt \subseteq Attempts /\ attempt \in [DOMAIN attempt -> AttemptStates]
    /\ ticket \in [DOMAIN ticket -> [Buckets -> Tickets]]
    /\ \A a \in DOMAIN attempt : a \in DOMAIN ticket <=> attempt[a] # "new"
    /\ DOMAIN ticket \subseteq DOMAIN attempt
    /\ nextWindow = Cardinality(DOMAIN ticket) + 1

\* Ids are of windows begun so far, and only a key's refusal is audited.
IdsKept ==
    /\ \A s \in Stores, k \in Buckets : window[s][k].id < nextWindow
    /\ \A a \in DOMAIN ticket, k \in Buckets : ticket[a][k].id < nextWindow
    /\ \A s \in Stores, k \in Buckets : window[s][k] # NoWindow => window[s][k].id # 0
    /\ \A a \in DOMAIN attempt : attempt[a] = "limited" => LimitOf[a].keys # {}

\* A window counts what it let through.
Counted(s, k) ==
    /\ \A i \in Nat \ {0} : SpentWeight(s, k, i) <= MaxCount
    /\ \A i \in Nat : window[s][k] # NoWindow /\ window[s][k].id = i =>
                      SpentWeight(s, k, i) <= window[s][k].count

\* A window that was audited is marked.
Audited ==
    /\ \A x \in DOMAIN audits : audits[x] = 1
    /\ \A s \in Stores, k \in Buckets, i \in Nat : <<s, k, i>> \in DOMAIN audits =>
          /\ i < nextWindow
          /\ window[s][k] # NoWindow /\ window[s][k].id = i => window[s][k].marked

RateKept == RateTyped /\ IdsKept /\ Audited /\ \A s \in Stores, k \in Buckets : Counted(s, k)

-----------------------------------------------------------------------------
\* The fields of a limit.
LEMMA LimitFields ==
    ASSUME NEW a \in Attempts
    PROVE  /\ LimitOf[a].memory \in Windows /\ LimitOf[a].keys \in SUBSET Buckets
           /\ LimitOf[a].weight \in Nat /\ LimitOf[a].weight >= 1 /\ LimitOf[a].refused \in {0, 1}
  BY WindowConstants DEF LimitKinds

\* The fields of windows and tickets, and of having none.
LEMMA WindowFields ==
    /\ NoWindow \in WindowRecords /\ NoWindow.count = 0 /\ NoWindow.id = 0 /\ NoWindow.marked = FALSE
    /\ NoTicket \in Tickets /\ NoTicket.id = 0
    /\ \A w \in WindowRecords : w.count \in Nat /\ w.id \in Nat /\ w.marked \in BOOLEAN
    /\ \A t \in Tickets : t.id \in Nat
  BY DEF NoWindow, WindowRecords, NoTicket, Tickets

\* A take's answer is of a store that ran it.
LEMMA AnswerFields ==
    ASSUME NEW a \in Attempts, NEW o \in StoreAnswers(a)
    PROVE  o.store \in Stores /\ o.store \in o.ran
  BY LimitFields DEF StoreAnswers, Stores

\* What attempts weigh together.
Weights == [a \in Attempts |-> LimitOf[a].weight]

\* Weights are positive.
LEMMA WeightsType ==
    Weights \in [Attempts -> Int] /\ \A a \in Attempts : Weights[a] = LimitOf[a].weight /\ Weights[a] >= 1
  BY LimitFields DEF Weights

\* Fewer attempts weigh no more, and less when one of them goes.
LEMMA WeightLess ==
    ASSUME NEW S \in SUBSET Attempts, NEW a, NEW T, T = S \/ T = S \ {a}
    PROVE  /\ SumFunctionOnSet(Weights, S) \in Int /\ SumFunctionOnSet(Weights, T) \in Int
           /\ SumFunctionOnSet(Weights, T) <= SumFunctionOnSet(Weights, S)
           /\ a \in S /\ T = S \ {a} =>
                SumFunctionOnSet(Weights, T) <= SumFunctionOnSet(Weights, S) - 1
<1>1. IsFiniteSet(S) /\ IsFiniteSet(T) /\ T \in SUBSET Attempts
  BY WindowConstants, FS_Subset
<1>2. SumFunctionOnSet(Weights, S) \in Int /\ SumFunctionOnSet(Weights, T) \in Int
  BY <1>1, WeightsType, SumType
<1>3. CASE a \in S /\ T = S \ {a}
  <2>1. SumFunctionOnSet(Weights, S) = Weights[a] + SumFunctionOnSet(Weights, S \ {a})
    BY <1>1, <1>3, WeightsType, SumTakes
  <2>2. Weights[a] \in Int /\ Weights[a] >= 1
    BY <1>3, WeightsType
  <2> QED
    BY <1>2, <1>3, <2>1, <2>2
<1>4. CASE ~(a \in S /\ T = S \ {a})
  <2>1. T = S
    BY <1>4
  <2> QED
    BY <1>2, <1>4, <2>1
<1> QED
  BY <1>3, <1>4

\* One attempt more weighs as much more.
LEMMA WeightMore ==
    ASSUME NEW S \in SUBSET Attempts, NEW a \in Attempts, a \notin S
    PROVE  SumFunctionOnSet(Weights, S \cup {a}) = SumFunctionOnSet(Weights, S) + LimitOf[a].weight
<1>1. PICK T : T = S \cup {a}
  OBVIOUS
<1>2. T \in SUBSET Attempts /\ IsFiniteSet(T) /\ IsFiniteSet(S) /\ T \ {a} = S /\ a \in T
  BY <1>1, WindowConstants, FS_Subset
<1>3. SumFunctionOnSet(Weights, T) = Weights[a] + SumFunctionOnSet(Weights, T \ {a})
  BY <1>2, WeightsType, SumTakes
<1>4. PICK n, w : n = SumFunctionOnSet(Weights, S) /\ w = LimitOf[a].weight
  OBVIOUS
<1>5. n \in Int /\ w \in Int /\ Weights[a] = w
  BY <1>2, <1>4, WeightsType, SumType
<1>6. SumFunctionOnSet(Weights, T) = w + n
  BY <1>2, <1>3, <1>4, <1>5
<1>7. w + n = n + w
  BY <1>5
<1> QED
  BY <1>1, <1>4, <1>6, <1>7

\* What a window let through is a sum over attempts.
LEMMA SpentIsOfAttempts ==
    ASSUME RateTyped, NEW s, NEW k, NEW i
    PROVE  /\ Spent(s, k, i) \in SUBSET Attempts
           /\ SpentWeight(s, k, i) = SumFunctionOnSet(Weights, Spent(s, k, i))
           /\ SpentWeight(s, k, i) \in Int
<1>1. Spent(s, k, i) \in SUBSET Attempts
  BY DEF RateTyped, Spent
<1>2. SpentWeight(s, k, i) = SumFunctionOnSet(Weights, Spent(s, k, i))
  BY DEF SpentWeight, Weights
<1>3. SumFunctionOnSet(Weights, Spent(s, k, i)) \in Int
  BY <1>1, WeightLess
<1> QED
  BY <1>1, <1>2, <1>3

\* A window that let nothing through has spent nothing.
LEMMA NothingSpent ==
    ASSUME NEW s, NEW k, NEW i, Spent(s, k, i) = {}
    PROVE  SpentWeight(s, k, i) = 0
<1>1. SumFunctionOnSet(Weights, {}) = 0
  BY FS_EmptySet, SumUnfolds
<1> QED
  BY <1>1 DEF SpentWeight, Weights

\* A window begun now has let nothing through yet.
LEMMA FreshWindow ==
    ASSUME RateKept, NEW s, NEW k \in Buckets
    PROVE  SpentWeight(s, k, nextWindow) = 0
<1>1. ASSUME NEW a \in Spent(s, k, nextWindow)
      PROVE  FALSE
  <2>1. a \in DOMAIN ticket /\ ticket[a][k] = [store |-> s, id |-> nextWindow]
    BY <1>1 DEF Spent
  <2>2. ticket[a][k].id = nextWindow
    BY <2>1
  <2>3. ticket[a][k].id < nextWindow /\ ticket[a][k].id \in Nat
    BY <2>1, WindowFields DEF RateKept, IdsKept, RateTyped
  <2> QED
    BY <2>2, <2>3
<1> QED
  BY <1>1, NothingSpent

\* The next window's id.
LEMMA NextIsNatural ==
    ASSUME RateKept
    PROVE  nextWindow \in Nat /\ nextWindow # 0
<1>1. IsFiniteSet(DOMAIN ticket)
  BY WindowConstants, FS_Subset DEF RateKept, RateTyped
<1>2. Cardinality(DOMAIN ticket) \in Nat
  BY <1>1, FS_CardinalityType
<1> QED
  BY <1>2 DEF RateKept, RateTyped

\* Attempts only leave: the windows' limits stay, and so does a count.
LEMMA LessIsSpent ==
    ASSUME RateTyped, RateTyped', NEW a, NEW s, NEW k, NEW i,
           Spent(s, k, i)' = Spent(s, k, i) \/ Spent(s, k, i)' = Spent(s, k, i) \ {a}
    PROVE  /\ SpentWeight(s, k, i)' <= SpentWeight(s, k, i)
           /\ SpentWeight(s, k, i) \in Int /\ SpentWeight(s, k, i)' \in Int
           /\ a \in Spent(s, k, i) /\ Spent(s, k, i)' = Spent(s, k, i) \ {a} =>
                SpentWeight(s, k, i)' <= SpentWeight(s, k, i) - 1
<1>1. PICK S, T : S = Spent(s, k, i) /\ T = Spent(s, k, i)'
  OBVIOUS
<1>2. S \in SUBSET Attempts /\ SpentWeight(s, k, i) = SumFunctionOnSet(Weights, S)
  BY <1>1, SpentIsOfAttempts
<1>3. SpentWeight(s, k, i)' = SumFunctionOnSet(Weights, T)
  BY <1>1 DEF SpentWeight, Weights
<1> QED
  BY <1>1, <1>2, <1>3, WeightLess

-----------------------------------------------------------------------------
\* A window that goes on has its id and its mark, and counts one less at most
\* when an attempt it had counted is given back.
WindowGoesOn(s, k, a) ==
    LET w == window[s][k]  v == window'[s][k] IN
    /\ w # NoWindow /\ v.id = w.id /\ (w.marked => v.marked)
    /\ \/ v.count >= w.count
       \/ /\ v.count >= w.count - 1 /\ a \in Spent(s, k, w.id)
          /\ Spent(s, k, w.id)' = Spent(s, k, w.id) \ {a}

\* Counts cover what was let through while windows only end, grow or take a refund.
LEMMA CountsStay ==
    ASSUME RateKept, RateTyped', UNCHANGED <<ticket, nextWindow>>, NEW a,
           \A s \in Stores, k \in Buckets, i \in Nat :
              Spent(s, k, i)' = Spent(s, k, i) \/ Spent(s, k, i)' = Spent(s, k, i) \ {a},
           \A s \in Stores, k \in Buckets : window'[s][k] = NoWindow \/ WindowGoesOn(s, k, a),
           \A x \in DOMAIN attempt' : attempt'[x] = "limited" => LimitOf[x].keys # {}
    PROVE  IdsKept' /\ \A s \in Stores, k \in Buckets : Counted(s, k)'
<1>1. RateTyped /\ nextWindow \in Nat /\ nextWindow # 0
  BY NextIsNatural DEF RateKept
<1>2. ASSUME NEW s \in Stores, NEW k \in Buckets
      PROVE  /\ window[s][k] \in WindowRecords /\ window'[s][k] \in WindowRecords
             /\ Counted(s, k) /\ window[s][k].id < nextWindow
             /\ window[s][k] # NoWindow => window[s][k].id # 0
  BY DEF RateKept, RateTyped, IdsKept
<1>3. IdsKept'
  <2>1. ASSUME NEW s \in Stores, NEW k \in Buckets
        PROVE  window'[s][k].id < nextWindow /\ (window'[s][k] # NoWindow => window'[s][k].id # 0)
    <3>1. CASE window'[s][k] = NoWindow
      BY <1>1, <3>1, WindowFields
    <3>2. CASE WindowGoesOn(s, k, a)
      BY <1>2, <3>2 DEF WindowGoesOn
    <3> QED
      BY <3>1, <3>2
  <2>2. \A x \in DOMAIN ticket, k \in Buckets : ticket[x][k].id < nextWindow
    BY DEF RateKept, IdsKept
  <2> QED
    BY <2>1, <2>2 DEF IdsKept
<1>4. ASSUME NEW s \in Stores, NEW k \in Buckets
      PROVE  Counted(s, k)'
  <2>1. ASSUME NEW i \in Nat
        PROVE  /\ SpentWeight(s, k, i)' <= SpentWeight(s, k, i)
               /\ SpentWeight(s, k, i) \in Int /\ SpentWeight(s, k, i)' \in Int
               /\ a \in Spent(s, k, i) /\ Spent(s, k, i)' = Spent(s, k, i) \ {a} =>
                    SpentWeight(s, k, i)' <= SpentWeight(s, k, i) - 1
    BY <1>1, LessIsSpent
  <2>2. \A i \in Nat \ {0} : SpentWeight(s, k, i)' <= MaxCount
    <3> SUFFICES ASSUME NEW i \in Nat \ {0}
                 PROVE  SpentWeight(s, k, i)' <= MaxCount
      OBVIOUS
    <3>1. SpentWeight(s, k, i) <= MaxCount /\ MaxCount \in Int
      BY <1>2, WindowConstants DEF Counted
    <3> QED
      BY <2>1, <3>1
  <2>3. \A i \in Nat : window'[s][k] # NoWindow /\ window'[s][k].id = i =>
                         SpentWeight(s, k, i)' <= window'[s][k].count
    <3> SUFFICES ASSUME NEW i \in Nat, window'[s][k].id = i, WindowGoesOn(s, k, a)
                 PROVE  SpentWeight(s, k, i)' <= window'[s][k].count
      OBVIOUS
    <3>1. i = window[s][k].id
      BY DEF WindowGoesOn
    <3>2. SpentWeight(s, k, i) <= window[s][k].count
      BY <1>2, <3>1 DEF Counted, WindowGoesOn
    <3>3. window[s][k].count \in Int /\ window'[s][k].count \in Int
      BY <1>2, WindowFields
    <3>4. \/ window'[s][k].count >= window[s][k].count
          \/ /\ window'[s][k].count >= window[s][k].count - 1 /\ a \in Spent(s, k, i)
             /\ Spent(s, k, i)' = Spent(s, k, i) \ {a}
      BY <3>1 DEF WindowGoesOn
    <3> QED
      BY <2>1, <3>2, <3>3, <3>4
  <2> QED
    BY <2>2, <2>3 DEF Counted
<1> QED
  BY <1>3, <1>4

\* An audited window stays marked until it ends.
LEMMA AuditsStay ==
    ASSUME RateKept, UNCHANGED <<audits, nextWindow>>, NEW a,
           \A s \in Stores, k \in Buckets : window'[s][k] = NoWindow \/ WindowGoesOn(s, k, a)
    PROVE  Audited'
  BY DEF RateKept, Audited, WindowGoesOn

\* Nobody's count changes.
LEMMA SameSpent ==
    ASSUME UNCHANGED ticket, NEW a \in DOMAIN attempt, NEW st, attempt' = [attempt EXCEPT ![a] = st],
           \/ attempt[a] \in {"checking", "failed", "succeeding"} /\ st \in {"checking", "failed", "succeeding"}
           \/ attempt[a] \in {"limited", "refused"} /\ st \in {"limited", "refused"}
    PROVE  \A s, k, i : Spent(s, k, i)' = Spent(s, k, i)
<1>1. ASSUME NEW s, NEW k, NEW i
      PROVE  Spent(s, k, i)' = Spent(s, k, i)
  <2>1. ASSUME NEW x \in DOMAIN ticket
        PROVE  (\/ attempt'[x] \in {"checking", "failed", "succeeding"}
                \/ attempt'[x] = "succeeded" /\ LimitOf[x].success[k] = "keep")
               <=> (\/ attempt[x] \in {"checking", "failed", "succeeding"}
                    \/ attempt[x] = "succeeded" /\ LimitOf[x].success[k] = "keep")
    <3>1. CASE x = a
      BY <3>1
    <3>2. CASE x # a
      <4>1. attempt'[x] = attempt[x]
        BY <3>2
      <4> QED
        BY <4>1
    <3> QED
      BY <3>1, <3>2
  <2> QED
    BY <2>1 DEF Spent
<1> QED
  BY <1>1

\* An attempt's new state is typed.
LEMMA TypedStays ==
    ASSUME RateTyped, UNCHANGED <<ticket, nextWindow>>, NEW a \in DOMAIN attempt, attempt[a] # "new",
           NEW st \in AttemptStates, st # "new", attempt' = [attempt EXCEPT ![a] = st],
           window' \in [Stores -> [Buckets -> WindowRecords]]
    PROVE  RateTyped'
<1>1. /\ attempt \in [DOMAIN attempt -> AttemptStates] /\ DOMAIN attempt \subseteq Attempts
      /\ \A x \in DOMAIN attempt : x \in DOMAIN ticket <=> attempt[x] # "new"
      /\ DOMAIN ticket \subseteq DOMAIN attempt
  BY DEF RateTyped
<1>2. /\ DOMAIN attempt' = DOMAIN attempt /\ attempt' \in [DOMAIN attempt -> AttemptStates]
      /\ \A x \in DOMAIN attempt : attempt'[x] # "new" <=> attempt[x] # "new"
  BY <1>1
<1> QED
  BY <1>1, <1>2 DEF RateTyped

\* Only an attempt with keys is limited.
LEMMA LimitedStays ==
    ASSUME RateKept, NEW a \in DOMAIN attempt, NEW st, st # "limited", attempt' = [attempt EXCEPT ![a] = st]
    PROVE  \A x \in DOMAIN attempt' : attempt'[x] = "limited" => LimitOf[x].keys # {}
  BY DEF RateKept, IdsKept, RateTyped

\* Windows that do not change go on.
LEMMA WindowsGoOn ==
    ASSUME RateKept, UNCHANGED window, NEW a
    PROVE  /\ window' \in [Stores -> [Buckets -> WindowRecords]]
           /\ \A s \in Stores, k \in Buckets : window'[s][k] = NoWindow \/ WindowGoesOn(s, k, a)
  BY WindowFields DEF RateKept, RateTyped, WindowGoesOn

\* A failed attempt keeps the limits.
LEMMA AttemptFailsKeeps ==
    ASSUME RateKept, NEW a \in DOMAIN attempt, AttemptFails(a)
    PROVE  RateKept'
<1>1. /\ attempt[a] = "checking" /\ attempt' = [attempt EXCEPT ![a] = "failed"]
      /\ UNCHANGED <<window, ticket, nextWindow, audits>>
  BY DEF AttemptFails
<1>2. RateTyped'
  BY <1>1, TypedStays, WindowsGoOn DEF RateKept, AttemptStates
<1>3. \A s, k, i : Spent(s, k, i)' = Spent(s, k, i)
  BY <1>1, SameSpent
<1>4. \A s \in Stores, k \in Buckets : window'[s][k] = NoWindow \/ WindowGoesOn(s, k, a)
  BY <1>1, WindowsGoOn
<1>5. \A x \in DOMAIN attempt' : attempt'[x] = "limited" => LimitOf[x].keys # {}
  BY <1>1, LimitedStays
<1>6. IdsKept' /\ \A s \in Stores, k \in Buckets : Counted(s, k)'
  BY <1>1, <1>2, <1>3, <1>4, <1>5, CountsStay
<1>7. Audited'
  BY <1>1, <1>4, AuditsStay
<1> QED
  BY <1>2, <1>6, <1>7 DEF RateKept

\* Clearing a bucket after a success keeps the limits.
LEMMA ClearAttemptsKeeps ==
    ASSUME RateKept, NEW a \in DOMAIN attempt, ClearAttempts(a)
    PROVE  RateKept'
<1>1. /\ attempt[a] = "checking" /\ attempt' = [attempt EXCEPT ![a] = "succeeding"]
      /\ UNCHANGED <<ticket, nextWindow, audits>>
  BY DEF ClearAttempts
<1>2. window \in [Stores -> [Buckets -> WindowRecords]]
  BY DEF RateKept, RateTyped
<1>3. /\ window' \in [Stores -> [Buckets -> WindowRecords]]
      /\ \A s \in Stores, k \in Buckets : window'[s][k] = NoWindow \/ WindowGoesOn(s, k, a)
  <2>1. PICK own : own = {k \in LimitOf[a].keys : LimitOf[a].success[k] = "clear"}
    OBVIOUS
  <2>2. CASE UNCHANGED window
    BY <2>2, WindowsGoOn
  <2>3. ASSUME NEW o \in StoreAnswers(a),
               window' = [s \in Stores |-> IF s \in o.ran THEN Forget(window[s], own) ELSE window[s]]
        PROVE  /\ window' \in [Stores -> [Buckets -> WindowRecords]]
               /\ \A s \in Stores, k \in Buckets : window'[s][k] = NoWindow \/ window'[s][k] = window[s][k]
    BY <1>2, <2>3, WindowFields DEF Forget
  <2>4. ASSUME NEW s \in Stores, NEW k \in Buckets, window'[s][k] = window[s][k]
        PROVE  window'[s][k] = NoWindow \/ WindowGoesOn(s, k, a)
    BY <1>2, <2>4, WindowFields DEF WindowGoesOn
  <2> QED
    BY <2>1, <2>2, <2>3, <2>4 DEF ClearAttempts
<1>4. RateTyped'
  BY <1>1, <1>3, TypedStays DEF RateKept, AttemptStates
<1>5. \A s, k, i : Spent(s, k, i)' = Spent(s, k, i)
  BY <1>1, SameSpent
<1>6. \A x \in DOMAIN attempt' : attempt'[x] = "limited" => LimitOf[x].keys # {}
  BY <1>1, LimitedStays
<1>7. IdsKept' /\ \A s \in Stores, k \in Buckets : Counted(s, k)'
  BY <1>1, <1>3, <1>4, <1>5, <1>6, CountsStay
<1>8. Audited'
  BY <1>1, <1>3, AuditsStay
<1> QED
  BY <1>4, <1>7, <1>8 DEF RateKept

\* Marking a window changes only its mark.
LEMMA MarkFields ==
    ASSUME NEW w \in [Buckets -> WindowRecords], NEW k \in Buckets, NEW v, v = MarkOnce(w, k)
    PROVE  /\ v \in [Buckets -> WindowRecords]
           /\ \A x \in Buckets : /\ v[x].id = w[x].id /\ v[x].count = w[x].count
                                 /\ w[x].marked => v[x].marked
                                 /\ w[x] = NoWindow => v[x] = NoWindow
           /\ w[k] # NoWindow => v[k].marked
<1>1. CASE w[k] = NoWindow
  <2>1. v = w
    BY <1>1 DEF MarkOnce
  <2> QED
    BY <1>1, <2>1
<1>2. CASE w[k] # NoWindow
  <2>1. PICK old \in WindowRecords : old = w[k]
    OBVIOUS
  <2>2. PICK new : new = [old EXCEPT !.marked = TRUE]
    OBVIOUS
  <2>3. new \in WindowRecords /\ new.id = old.id /\ new.count = old.count /\ new.marked
    BY <2>2 DEF WindowRecords
  <2>4. v = [w EXCEPT ![k] = new]
    BY <1>2, <2>1, <2>2 DEF MarkOnce
  <2> QED
    BY <1>2, <2>1, <2>3, <2>4
<1> QED
  BY <1>1, <1>2

\* Auditing a lockout keeps the limits, and one audit per window.
LEMMA AuditKeeps ==
    ASSUME RateKept, NEW a \in DOMAIN attempt, AuditLockout(a)
    PROVE  RateKept'
<1>1. PICK k : k = CHOOSE x \in LimitOf[a].keys : TRUE
  OBVIOUS
<1>2. PICK o \in StoreAnswers(a) :
         /\ window' = [s \in Stores |-> IF s \in o.ran THEN MarkOnce(window[s], k) ELSE window[s]]
         /\ audits' = IF Marks(window[o.store], k)
                      THEN Record(audits, <<o.store, k, window[o.store][k].id>>) ELSE audits
  BY <1>1 DEF AuditLockout
<1>3. /\ attempt[a] = "limited" /\ attempt' = [attempt EXCEPT ![a] = "refused"]
      /\ UNCHANGED <<ticket, nextWindow>>
  BY DEF AuditLockout
<1>4. a \in Attempts /\ window \in [Stores -> [Buckets -> WindowRecords]]
  BY DEF RateKept, RateTyped
<1>5. k \in Buckets /\ o.store \in Stores /\ o.store \in o.ran
  <2>1. LimitOf[a].keys # {}
    BY <1>3 DEF RateKept, IdsKept
  <2> QED
    BY <1>1, <1>2, <1>4, <2>1, LimitFields, AnswerFields
<1>6. ASSUME NEW s \in Stores
      PROVE  /\ window'[s] \in [Buckets -> WindowRecords]
             /\ \A x \in Buckets : /\ window'[s][x].id = window[s][x].id
                                   /\ window'[s][x].count = window[s][x].count
                                   /\ window[s][x].marked => window'[s][x].marked
                                   /\ window[s][x] = NoWindow => window'[s][x] = NoWindow
             /\ s \in o.ran /\ window[s][k] # NoWindow => window'[s][k].marked
  <2>1. CASE s \in o.ran
    <3>1. window'[s] = MarkOnce(window[s], k) /\ window[s] \in [Buckets -> WindowRecords]
      BY <1>2, <1>4, <2>1
    <3> QED
      BY <1>5, <3>1, MarkFields
  <2>2. CASE s \notin o.ran
    BY <1>2, <1>4, <2>2
  <2> QED
    BY <2>1, <2>2
<1>7. window' \in [Stores -> [Buckets -> WindowRecords]]
  BY <1>2, <1>6
<1>8. \A s \in Stores, x \in Buckets : window'[s][x] = NoWindow \/ WindowGoesOn(s, x, a)
  BY <1>4, <1>6, WindowFields DEF WindowGoesOn
<1>9. RateTyped'
  BY <1>3, <1>7, TypedStays DEF RateKept, AttemptStates
<1>10. \A s, x, i : Spent(s, x, i)' = Spent(s, x, i)
  BY <1>3, SameSpent
<1>11. \A x \in DOMAIN attempt' : attempt'[x] = "limited" => LimitOf[x].keys # {}
  BY <1>3, LimitedStays
<1>12. IdsKept' /\ \A s \in Stores, x \in Buckets : Counted(s, x)'
  BY <1>3, <1>8, <1>9, <1>10, <1>11, CountsStay
<1>13. Audited'
  <2>1. CASE ~Marks(window[o.store], k)
    <3>1. audits' = audits
      BY <1>2, <2>1
    <3> QED
      BY <1>3, <1>8, <3>1, AuditsStay
  <2>2. CASE Marks(window[o.store], k)
    <3>1. PICK m, t : m = window[o.store][k].id /\ t = <<o.store, k, m>>
      OBVIOUS
    <3>2. window[o.store][k] # NoWindow /\ ~window[o.store][k].marked /\ m \in Nat /\ m < nextWindow
      BY <1>4, <1>5, <2>2, <3>1, WindowFields DEF Marks, RateKept, IdsKept
    <3>3. t \notin DOMAIN audits
      BY <1>5, <3>1, <3>2 DEF RateKept, Audited
    <3>4. audits' = Record(audits, t)
      BY <1>2, <2>2, <3>1
    <3>5. /\ DOMAIN audits' = DOMAIN audits \cup {t}
          /\ \A x \in DOMAIN audits' : audits'[x] = 1
      BY <3>3, <3>4 DEF Record, RateKept, Audited
    <3>6. ASSUME NEW s \in Stores, NEW x \in Buckets, NEW i \in Nat, <<s, x, i>> \in DOMAIN audits'
          PROVE  /\ i < nextWindow
                 /\ window'[s][x] # NoWindow /\ window'[s][x].id = i => window'[s][x].marked
      <4>1. CASE <<s, x, i>> = t
        <5>1. s = o.store /\ x = k /\ i = m
          BY <3>1, <4>1
        <5> QED
          BY <1>5, <1>6, <3>2, <5>1
      <4>2. CASE <<s, x, i>> \in DOMAIN audits
        BY <1>6, <4>2 DEF RateKept, Audited
      <4> QED
        BY <3>5, <3>6, <4>1, <4>2
    <3> QED
      BY <1>3, <3>5, <3>6 DEF Audited
  <2> QED
    BY <2>1, <2>2
<1> QED
  BY <1>9, <1>12, <1>13 DEF RateKept

\* A refund: the window it was counted in counts one less.
LEMMA RefundFields ==
    ASSUME NEW w \in [Buckets -> WindowRecords], NEW k \in Buckets, NEW id, NEW v, v = Refund(w, k, id)[k]
    PROVE  /\ v \in WindowRecords /\ v.id = w[k].id /\ v.marked = w[k].marked
           /\ v # w[k] => w[k] # NoWindow /\ w[k].id = id /\ v.count >= w[k].count - 1
<1>1. CASE w[k] # NoWindow /\ w[k].id = id
  <2>1. PICK old \in WindowRecords : old = w[k]
    OBVIOUS
  <2>2. PICK new : new = [old EXCEPT !.count = IF @ > 0 THEN @ - 1 ELSE 0]
    OBVIOUS
  <2>3. new \in WindowRecords /\ new.id = old.id /\ new.marked = old.marked /\ new.count >= old.count - 1
    BY <2>2 DEF WindowRecords
  <2>4. Refund(w, k, id) = [w EXCEPT ![k] = new]
    BY <1>1, <2>1, <2>2 DEF Refund
  <2>5. v = new
    BY <2>4
  <2> QED
    BY <1>1, <2>1, <2>3, <2>5
<1>2. CASE ~(w[k] # NoWindow /\ w[k].id = id)
  <2>1. v = w[k]
    BY <1>2 DEF Refund
  <2>2. w[k] \in WindowRecords
    OBVIOUS
  <2> QED
    BY <2>1, <2>2
<1> QED
  BY <1>1, <1>2

\* A success that gives a count back leaves the attempts spent in its window.
LEMMA SuccessLeaves ==
    ASSUME UNCHANGED ticket, NEW a \in DOMAIN attempt, attempt[a] = "succeeding",
           attempt' = [attempt EXCEPT ![a] = "succeeded"]
    PROVE  \A s, k, i :
              /\ Spent(s, k, i)' = Spent(s, k, i) \/ Spent(s, k, i)' = Spent(s, k, i) \ {a}
              /\ a \in DOMAIN ticket /\ ticket[a][k] = [store |-> s, id |-> i]
                 /\ LimitOf[a].success[k] = "refund" =>
                   a \in Spent(s, k, i) /\ Spent(s, k, i)' = Spent(s, k, i) \ {a}
<1> SUFFICES ASSUME NEW s, NEW k, NEW i
             PROVE  /\ Spent(s, k, i)' = Spent(s, k, i) \/ Spent(s, k, i)' = Spent(s, k, i) \ {a}
                    /\ a \in DOMAIN ticket /\ ticket[a][k] = [store |-> s, id |-> i]
                       /\ LimitOf[a].success[k] = "refund" =>
                         a \in Spent(s, k, i) /\ Spent(s, k, i)' = Spent(s, k, i) \ {a}
  OBVIOUS
<1>1. attempt'[a] = "succeeded" /\ \A x \in DOMAIN ticket : x # a => attempt'[x] = attempt[x]
  OBVIOUS
<1>2. \A x : x # a => (x \in Spent(s, k, i)' <=> x \in Spent(s, k, i))
  BY <1>1 DEF Spent
<1>3. a \in Spent(s, k, i)' => a \in Spent(s, k, i) /\ LimitOf[a].success[k] = "keep"
  BY <1>1 DEF Spent
<1>4. a \in DOMAIN ticket /\ ticket[a][k] = [store |-> s, id |-> i] => a \in Spent(s, k, i)
  BY DEF Spent
<1> QED
  BY <1>2, <1>3, <1>4

\* A refund keeps the limits.
LEMMA RefundKeeps ==
    ASSUME RateKept, NEW a \in DOMAIN attempt, RefundAttempt(a)
    PROVE  RateKept'
<1>1. /\ attempt[a] = "succeeding" /\ attempt' = [attempt EXCEPT ![a] = "succeeded"]
      /\ UNCHANGED <<ticket, nextWindow, audits>>
  BY DEF RefundAttempt
<1>2. /\ window \in [Stores -> [Buckets -> WindowRecords]] /\ a \in DOMAIN ticket
      /\ ticket[a] \in [Buckets -> Tickets]
  BY <1>1 DEF RateKept, RateTyped
<1>3. \A s, k, i :
         /\ Spent(s, k, i)' = Spent(s, k, i) \/ Spent(s, k, i)' = Spent(s, k, i) \ {a}
         /\ ticket[a][k] = [store |-> s, id |-> i] /\ LimitOf[a].success[k] = "refund" =>
              a \in Spent(s, k, i) /\ Spent(s, k, i)' = Spent(s, k, i) \ {a}
  BY <1>1, <1>2, SuccessLeaves
<1>6. /\ window' \in [Stores -> [Buckets -> WindowRecords]]
      /\ \A s \in Stores, k \in Buckets : window'[s][k] = NoWindow \/ WindowGoesOn(s, k, a)
  <2>1. CASE UNCHANGED window
    BY <2>1, WindowsGoOn
  <2>2. CASE ~UNCHANGED window
    <3>1. /\ \A s \in Stores : window'[s] = [k \in Buckets |-> window'[s][k]]
          /\ window' = [s \in Stores |-> window'[s]]
          /\ \A s \in Stores, k \in Buckets :
                \/ window'[s][k] = window[s][k]
                \/ /\ LimitOf[a].success[k] = "refund" /\ ticket[a][k].store = s
                   /\ window'[s][k] = Refund(window[s], k, ticket[a][k].id)[k]
      BY <2>2 DEF RefundAttempt
    <3>2. ASSUME NEW s \in Stores, NEW k \in Buckets
          PROVE  window'[s][k] \in WindowRecords /\ (window'[s][k] = NoWindow \/ WindowGoesOn(s, k, a))
      <4>1. window[s] \in [Buckets -> WindowRecords]
        BY <1>2
      <4>2. CASE window'[s][k] = window[s][k]
        BY <4>1, <4>2, WindowFields DEF WindowGoesOn
      <4>3. CASE /\ LimitOf[a].success[k] = "refund" /\ ticket[a][k].store = s
                 /\ window'[s][k] = Refund(window[s], k, ticket[a][k].id)[k]
                 /\ window'[s][k] # window[s][k]
        <5>1. /\ window'[s][k] \in WindowRecords /\ window'[s][k].id = window[s][k].id
              /\ window'[s][k].marked = window[s][k].marked
              /\ window[s][k] # NoWindow /\ window[s][k].id = ticket[a][k].id
              /\ window'[s][k].count >= window[s][k].count - 1
          BY <4>1, <4>3, RefundFields
        <5>2. PICK i : i = window[s][k].id
          OBVIOUS
        <5>3. ticket[a][k] = [store |-> s, id |-> i]
          BY <1>2, <4>3, <5>1, <5>2 DEF Tickets
        <5>4. a \in Spent(s, k, i) /\ Spent(s, k, i)' = Spent(s, k, i) \ {a}
          BY <1>3, <4>3, <5>3
        <5> QED
          BY <5>1, <5>2, <5>4 DEF WindowGoesOn
      <4> QED
        BY <3>1, <4>2, <4>3
    <3> QED
      BY <3>1, <3>2
  <2> QED
    BY <2>1, <2>2
<1>7. RateTyped'
  BY <1>1, <1>6, TypedStays DEF RateKept, AttemptStates
<1>8. \A x \in DOMAIN attempt' : attempt'[x] = "limited" => LimitOf[x].keys # {}
  BY <1>1, LimitedStays
<1>9. IdsKept' /\ \A s \in Stores, k \in Buckets : Counted(s, k)'
  BY <1>1, <1>3, <1>6, <1>7, <1>8, CountsStay
<1>10. Audited'
  BY <1>1, <1>6, AuditsStay
<1> QED
  BY <1>7, <1>9, <1>10 DEF RateKept

\* A window's end keeps the limits.
LEMMA WindowEndsKeeps ==
    ASSUME RateKept, NEW s \in Stores, NEW k \in Buckets, WindowEnds(s, k)
    PROVE  RateKept'
<1>1. /\ window' = [window EXCEPT ![s][k] = NoWindow]
      /\ UNCHANGED <<ticket, attempt, nextWindow, audits>>
  BY DEF WindowEnds
<1>2. window \in [Stores -> [Buckets -> WindowRecords]] /\ RateTyped
  BY DEF RateKept, RateTyped
<1>3. /\ window' \in [Stores -> [Buckets -> WindowRecords]]
      /\ \A r \in Stores, x \in Buckets : window'[r][x] = NoWindow \/ window'[r][x] = window[r][x]
  BY <1>1, <1>2, WindowFields
<1>4. \A r \in Stores, x \in Buckets : window'[r][x] = NoWindow \/ WindowGoesOn(r, x, s)
  BY <1>2, <1>3, WindowFields DEF WindowGoesOn
<1>5. RateTyped'
  BY <1>1, <1>2, <1>3 DEF RateTyped
<1>6. \A r, x, i : Spent(r, x, i)' = Spent(r, x, i)
  BY <1>1 DEF Spent
<1>7. \A x \in DOMAIN attempt' : attempt'[x] = "limited" => LimitOf[x].keys # {}
  BY <1>1 DEF RateKept, IdsKept
<1>8. IdsKept' /\ \A r \in Stores, x \in Buckets : Counted(r, x)'
  BY <1>1, <1>4, <1>5, <1>6, <1>7, CountsStay
<1>9. Audited'
  BY <1>1, <1>4, AuditsStay
<1> QED
  BY <1>5, <1>8, <1>9 DEF RateKept

\* Nothing happens.
LEMMA RateStutters ==
    ASSUME RateKept, UNCHANGED <<window, ticket, attempt, nextWindow, audits>>
    PROVE  RateKept'
<1>1. \A s, k, i : SpentWeight(s, k, i)' = SpentWeight(s, k, i)
  <2> SUFFICES ASSUME NEW s, NEW k, NEW i
               PROVE  SpentWeight(s, k, i)' = SpentWeight(s, k, i)
    OBVIOUS
  <2>1. Spent(s, k, i)' = Spent(s, k, i)
    BY DEF Spent
  <2> QED
    BY <2>1 DEF SpentWeight
<1>2. \A s \in Stores, k \in Buckets : Counted(s, k)'
  BY <1>1 DEF RateKept, Counted
<1>3. RateTyped' /\ IdsKept' /\ Audited'
  BY DEF RateKept, RateTyped, IdsKept, Audited
<1> QED
  BY <1>2, <1>3 DEF RateKept

\* What a take does to one key's window: nothing, a new one, or a higher count;
\* an attempt let through adds its weight, within the limit.
LEMMA TakeFields ==
    ASSUME NEW a \in Attempts, NEW w \in [Buckets -> WindowRecords], NEW id \in Nat,
           NEW v, v = Take(w, LimitOf[a], id)
    PROVE  /\ v \in [Buckets -> WindowRecords]
           /\ \A k \in Buckets :
                 /\ \/ v[k] = w[k]
                    \/ w[k] = NoWindow /\ v[k].id = id
                    \/ /\ w[k] # NoWindow /\ v[k].id = w[k].id /\ v[k].marked = w[k].marked
                       /\ v[k].count >= w[k].count
                 /\ k \in LimitOf[a].keys /\ ~Limited(w, LimitOf[a]) =>
                      /\ v[k].count = w[k].count + LimitOf[a].weight /\ v[k].count <= MaxCount
                      /\ w[k] = NoWindow => v[k].id = id
<1>1. PICK l : l = LimitOf[a]
  OBVIOUS
<1>2. PICK add : add = IF Limited(w, l) THEN l.refused ELSE l.weight
  OBVIOUS
<1>3. l.weight \in Nat /\ l.weight >= 1 /\ add \in Nat /\ MaxCount \in Nat
  BY <1>1, <1>2, LimitFields, WindowConstants
<1>4. v = [k \in Buckets |->
              IF k \notin l.keys \/ add = 0 THEN w[k]
              ELSE IF w[k] = NoWindow THEN [NoWindow EXCEPT !.count = add, !.id = id]
              ELSE [w[k] EXCEPT !.count = @ + add]]
  BY <1>1, <1>2 DEF Take
<1>5. ASSUME NEW k \in Buckets
      PROVE  /\ v[k] \in WindowRecords
             /\ \/ v[k] = w[k]
                \/ w[k] = NoWindow /\ v[k].id = id
                \/ /\ w[k] # NoWindow /\ v[k].id = w[k].id /\ v[k].marked = w[k].marked
                   /\ v[k].count >= w[k].count
             /\ k \in l.keys /\ add # 0 =>
                  /\ v[k].count = w[k].count + add
                  /\ w[k] = NoWindow => v[k].id = id
  <2>1. PICK old \in WindowRecords : old = w[k]
    OBVIOUS
  <2>2. CASE k \notin l.keys \/ add = 0
    BY <1>4, <2>1, <2>2
  <2>3. CASE ~(k \notin l.keys \/ add = 0) /\ old = NoWindow
    <3>1. PICK new : new = [NoWindow EXCEPT !.count = add, !.id = id]
      OBVIOUS
    <3>3. v[k] = new
      BY <1>4, <2>1, <2>3, <3>1
    <3>4. new \in WindowRecords /\ new.id = id /\ new.count = add
      BY <1>3, <3>1 DEF NoWindow, WindowRecords
    <3> QED
      BY <1>3, <2>1, <2>3, <3>3, <3>4, WindowFields
  <2>4. CASE ~(k \notin l.keys \/ add = 0) /\ old # NoWindow
    <3>1. PICK new : new = [old EXCEPT !.count = @ + add]
      OBVIOUS
    <3>2. v[k] = new
      BY <1>4, <2>1, <2>4, <3>1
    <3>3. /\ new \in WindowRecords /\ new.id = old.id /\ new.marked = old.marked
          /\ new.count = old.count + add /\ new.count >= old.count
      BY <1>3, <3>1 DEF WindowRecords
    <3> QED
      BY <2>1, <2>4, <3>2, <3>3
  <2> QED
    BY <2>1, <2>2, <2>3, <2>4
<1>6. ASSUME NEW k \in Buckets, k \in l.keys, ~Limited(w, l)
      PROVE  add = l.weight /\ w[k].count + l.weight <= MaxCount
  <2>1. ~(w[k].count + l.weight > MaxCount) /\ w[k].count \in Nat
    BY <1>6, WindowFields DEF Limited
  <2> QED
    BY <1>2, <1>3, <1>6, <2>1
<1>7. v \in [Buckets -> WindowRecords]
  BY <1>4, <1>5
<1> QED
  BY <1>1, <1>3, <1>5, <1>6, <1>7

\* An attempt gets the ticket t.
GetsTicket(a, t) ==
    /\ a \in Attempts /\ a \notin DOMAIN ticket
    /\ DOMAIN ticket' = DOMAIN ticket \cup {a} /\ ticket'[a] = t
    /\ \A x \in DOMAIN ticket : ticket'[x] = ticket[x] /\ attempt'[x] = attempt[x]
    /\ attempt'[a] \in {"checking", "limited", "refused"}

\* It is added to the window its ticket names, if it may go on, and to no other.
LEMMA TakeAdds ==
    ASSUME RateTyped, NEW a, NEW t, GetsTicket(a, t), NEW s, NEW k, NEW i
    PROVE  /\ SpentWeight(s, k, i) \in Int
           /\ \/ SpentWeight(s, k, i)' = SpentWeight(s, k, i)
              \/ /\ attempt'[a] = "checking" /\ t[k].store = s /\ t[k].id = i
                 /\ SpentWeight(s, k, i)' = SpentWeight(s, k, i) + LimitOf[a].weight
<1>1. PICK S, T : S = Spent(s, k, i) /\ T = Spent(s, k, i)'
  OBVIOUS
<1>2. S \in SUBSET Attempts /\ SpentWeight(s, k, i) = SumFunctionOnSet(Weights, S)
  BY <1>1, SpentIsOfAttempts
<1>3. SpentWeight(s, k, i)' = SumFunctionOnSet(Weights, T)
  BY <1>1 DEF SpentWeight, Weights
<1>4. a \notin S /\ \A x : x # a => (x \in T <=> x \in S)
  BY <1>1 DEF Spent, GetsTicket
<1>5. a \in T => attempt'[a] = "checking" /\ t[k].store = s /\ t[k].id = i
  BY <1>1 DEF Spent, GetsTicket
<1>6. SumFunctionOnSet(Weights, S) \in Int
  BY <1>2, WeightLess
<1>7. CASE a \notin T
  <2>1. T = S
    BY <1>4, <1>7
  <2> QED
    BY <1>2, <1>3, <1>6, <2>1
<1>8. CASE a \in T
  <2>1. T \ {a} = S /\ T \in SUBSET Attempts
    BY <1>2, <1>4, <1>8 DEF GetsTicket
  <2>2. IsFiniteSet(T)
    BY <2>1, WindowConstants, FS_Subset
  <2>3. SumFunctionOnSet(Weights, T) = Weights[a] + SumFunctionOnSet(Weights, T \ {a})
    BY <1>8, <2>1, <2>2, WeightsType, SumTakes
  <2>5. Weights[a] = LimitOf[a].weight /\ Weights[a] \in Int
    BY WeightsType DEF GetsTicket
  <2>6. SumFunctionOnSet(Weights, T \ {a}) = SumFunctionOnSet(Weights, S)
    BY <2>1
  <2>4. SumFunctionOnSet(Weights, T) = SumFunctionOnSet(Weights, S) + LimitOf[a].weight
    BY <1>6, <2>3, <2>5, <2>6
  <2> QED
    BY <1>2, <1>3, <1>5, <1>6, <1>8, <2>4
<1> QED
  BY <1>7, <1>8

\* A take, answered or lost, in Redis or in memory, keeps the limits.
LEMMA TakeKeeps ==
    ASSUME RateKept, NEW a \in DOMAIN attempt, TakeAttempt(a)
    PROVE  RateKept'
<1>1. PICK o \in StoreAnswers(a) :
         /\ window' = [s \in Stores |->
                IF s \in o.ran THEN Take(window[s], LimitOf[a], nextWindow) ELSE window[s]]
         /\ attempt' = [attempt EXCEPT
                          ![a] = IF ~Limited(window[o.store], LimitOf[a]) THEN "checking"
                                 ELSE IF LimitOf[a].audited THEN "limited" ELSE "refused"]
         /\ ticket' = [x \in DOMAIN ticket \cup {a} |->
                IF x = a THEN Ticket(o.store, window'[o.store], LimitOf[a]) ELSE ticket[x]]
  BY DEF TakeAttempt
<1>2. attempt[a] = "new" /\ nextWindow' = nextWindow + 1 /\ UNCHANGED audits
  BY DEF TakeAttempt
<1>3. /\ window \in [Stores -> [Buckets -> WindowRecords]] /\ RateTyped
      /\ a \in Attempts /\ a \notin DOMAIN ticket
      /\ nextWindow \in Nat /\ nextWindow # 0 /\ MaxCount \in Nat
  BY <1>2, NextIsNatural, WindowConstants DEF RateKept, RateTyped
<1>4. o.store \in Stores /\ o.store \in o.ran
  BY <1>1, <1>3, AnswerFields
<1>5. /\ LimitOf[a].keys \in SUBSET Buckets
      /\ LimitOf[a].weight \in Nat /\ LimitOf[a].weight >= 1
  BY <1>3, LimitFields
<1>6. ASSUME NEW s \in Stores, NEW k \in Buckets
      PROVE  /\ window'[s][k] \in WindowRecords
             /\ \/ window'[s][k] = window[s][k]
                \/ window[s][k] = NoWindow /\ window'[s][k].id = nextWindow
                \/ /\ window[s][k] # NoWindow /\ window'[s][k].id = window[s][k].id
                   /\ window'[s][k].marked = window[s][k].marked
                   /\ window'[s][k].count >= window[s][k].count
             /\ s = o.store /\ k \in LimitOf[a].keys /\ ~Limited(window[s], LimitOf[a]) =>
                  /\ window'[s][k].count = window[s][k].count + LimitOf[a].weight
                  /\ window'[s][k].count <= MaxCount
                  /\ window[s][k] = NoWindow => window'[s][k].id = nextWindow
  <2>1. window[s] \in [Buckets -> WindowRecords]
    BY <1>3
  <2>2. CASE s \in o.ran
    <3>1. window'[s] = Take(window[s], LimitOf[a], nextWindow)
      BY <1>1, <2>2
    <3> QED
      BY <1>3, <2>1, <3>1, TakeFields
  <2>3. CASE s \notin o.ran
    BY <1>1, <1>4, <2>1, <2>3
  <2> QED
    BY <2>2, <2>3
<1>7. window' \in [Stores -> [Buckets -> WindowRecords]]
  <2>1. ASSUME NEW s \in Stores
        PROVE  window'[s] \in [Buckets -> WindowRecords]
    <3>1. window[s] \in [Buckets -> WindowRecords]
      BY <1>3
    <3>2. CASE s \in o.ran
      <4>1. Take(window[s], LimitOf[a], nextWindow) \in [Buckets -> WindowRecords]
        BY <1>3, <3>1, TakeFields
      <4> QED
        BY <1>1, <3>2, <4>1
    <3>3. CASE s \notin o.ran
      BY <1>1, <3>1, <3>3
    <3> QED
      BY <3>2, <3>3
  <2> QED
    BY <1>1, <2>1
<1>8. PICK t : t = Ticket(o.store, window'[o.store], LimitOf[a])
  OBVIOUS
<1>9. /\ t \in [Buckets -> Tickets]
      /\ \A k \in Buckets : t[k].id # 0 =>
            /\ k \in LimitOf[a].keys /\ window'[o.store][k] # NoWindow
            /\ t[k] = [store |-> o.store, id |-> window'[o.store][k].id]
  <2>1. t = [k \in Buckets |->
                IF k \in LimitOf[a].keys /\ window'[o.store][k] # NoWindow
                THEN [store |-> o.store, id |-> window'[o.store][k].id] ELSE NoTicket]
    BY <1>8 DEF Ticket
  <2>2. \A k \in Buckets : [store |-> o.store, id |-> window'[o.store][k].id] \in Tickets
    BY <1>4, <1>6, WindowFields DEF Tickets
  <2> QED
    BY <2>1, <2>2, WindowFields
<1>10. /\ DOMAIN ticket' = DOMAIN ticket \cup {a} /\ ticket'[a] = t
       /\ \A x \in DOMAIN ticket : ticket'[x] = ticket[x]
       /\ ticket' \in [DOMAIN ticket \cup {a} -> [Buckets -> Tickets]]
  <2>1. PICK d : d = DOMAIN ticket \cup {a}
    OBVIOUS
  <2>2. ticket' = [x \in d |-> IF x = a THEN t ELSE ticket[x]]
    BY <1>1, <1>8, <2>1
  <2>3. \A x \in DOMAIN ticket : ticket[x] \in [Buckets -> Tickets]
    BY <1>3 DEF RateTyped
  <2> QED
    BY <1>3, <1>9, <2>1, <2>2, <2>3
<1>11. PICK st : /\ attempt' = [attempt EXCEPT ![a] = st] /\ st \in {"checking", "limited", "refused"}
                 /\ st = "checking" <=> ~Limited(window[o.store], LimitOf[a])
  <2>1. PICK st : st = IF ~Limited(window[o.store], LimitOf[a]) THEN "checking"
                       ELSE IF LimitOf[a].audited THEN "limited" ELSE "refused"
    OBVIOUS
  <2>2. attempt' = [attempt EXCEPT ![a] = st]
    BY <1>1, <2>1
  <2>3. /\ st \in {"checking", "limited", "refused"}
        /\ st = "checking" <=> ~Limited(window[o.store], LimitOf[a])
    BY <2>1
  <2> QED
    BY <2>2, <2>3
<1>12. /\ DOMAIN attempt' = DOMAIN attempt /\ attempt'[a] = st
       /\ \A x \in DOMAIN attempt : x # a => attempt'[x] = attempt[x]
  BY <1>11
<1>13. RateTyped'
  <2>1. IsFiniteSet(DOMAIN ticket)
    BY WindowConstants, FS_Subset DEF RateKept, RateTyped
  <2>2. Cardinality(DOMAIN ticket \cup {a}) = Cardinality(DOMAIN ticket) + 1
    BY <1>3, <2>1, FS_AddElement
  <2>3. nextWindow' = Cardinality(DOMAIN ticket') + 1
    BY <1>2, <1>3, <1>10, <2>2 DEF RateTyped
  <2>4. /\ attempt' \in [DOMAIN attempt' -> AttemptStates] /\ DOMAIN attempt' \subseteq Attempts
        /\ \A x \in DOMAIN attempt' : x \in DOMAIN ticket' <=> attempt'[x] # "new"
        /\ DOMAIN ticket' \subseteq DOMAIN attempt'
    BY <1>3, <1>10, <1>11, <1>12 DEF RateTyped, AttemptStates
  <2> QED
    BY <1>7, <1>10, <2>3, <2>4 DEF RateTyped
<1>14. ASSUME NEW s \in Stores, NEW k \in Buckets
       PROVE  /\ window'[s][k].id < nextWindow'
              /\ window'[s][k] # NoWindow => window'[s][k].id # 0
  <2>1. window[s][k].id < nextWindow /\ (window[s][k] # NoWindow => window[s][k].id # 0)
    BY DEF RateKept, IdsKept
  <2>2. window[s][k].id \in Nat /\ window'[s][k].id \in Nat
    BY <1>3, <1>6, WindowFields
  <2> QED
    BY <1>2, <1>3, <1>6, <2>1, <2>2
<1>15. IdsKept'
  <2>1. ASSUME NEW x \in DOMAIN ticket', NEW k \in Buckets
        PROVE  ticket'[x][k].id < nextWindow'
    <3>1. CASE x = a
      <4>1. t[k].id = 0 \/ t[k].id = window'[o.store][k].id
        BY <1>9
      <4> QED
        BY <1>2, <1>3, <1>4, <1>10, <1>14, <3>1, <4>1
    <3>2. CASE x # a
      <4>1. ticket'[x][k] = ticket[x][k] /\ ticket[x][k].id < nextWindow /\ ticket[x][k].id \in Nat
        BY <1>3, <1>10, <3>2, WindowFields DEF RateTyped, RateKept, IdsKept
      <4> QED
        BY <1>2, <1>3, <4>1
    <3> QED
      BY <3>1, <3>2
  <2>2. ASSUME NEW x \in DOMAIN attempt', attempt'[x] = "limited"
        PROVE  LimitOf[x].keys # {}
    <3>1. CASE x = a
      BY <1>11, <1>12, <2>2, <3>1 DEF Limited
    <3>2. CASE x # a
      BY <1>12, <2>2, <3>2 DEF RateKept, IdsKept
    <3> QED
      BY <3>1, <3>2
  <2> QED
    BY <1>14, <2>1, <2>2 DEF IdsKept
<1>16. Audited'
  <2>1. ASSUME NEW s \in Stores, NEW k \in Buckets, NEW i \in Nat, <<s, k, i>> \in DOMAIN audits
        PROVE  /\ i < nextWindow'
               /\ window'[s][k] # NoWindow /\ window'[s][k].id = i => window'[s][k].marked
    <3>1. i < nextWindow /\ (window[s][k] # NoWindow /\ window[s][k].id = i => window[s][k].marked)
      BY <2>1 DEF RateKept, Audited
    <3> QED
      BY <1>2, <1>3, <1>6, <3>1
  <2> QED
    BY <1>2, <2>1 DEF RateKept, Audited
<1>17. ASSUME NEW s \in Stores, NEW k \in Buckets
       PROVE  Counted(s, k)'
  <2>1. ASSUME NEW i \in Nat \ {0}
        PROVE  /\ SpentWeight(s, k, i)' <= MaxCount
               /\ window'[s][k] # NoWindow /\ window'[s][k].id = i =>
                    SpentWeight(s, k, i)' <= window'[s][k].count
    <3>1. /\ SpentWeight(s, k, i) \in Int
          /\ \/ SpentWeight(s, k, i)' = SpentWeight(s, k, i)
             \/ /\ attempt'[a] = "checking" /\ t[k].store = s /\ t[k].id = i
                /\ SpentWeight(s, k, i)' = SpentWeight(s, k, i) + LimitOf[a].weight
      <4>1. GetsTicket(a, t)
        BY <1>3, <1>10, <1>11, <1>12 DEF GetsTicket, RateTyped
      <4> QED
        BY <1>3, <4>1, TakeAdds
    <3>2. /\ SpentWeight(s, k, i) <= MaxCount
          /\ window[s][k] # NoWindow /\ window[s][k].id = i => SpentWeight(s, k, i) <= window[s][k].count
      BY DEF RateKept, Counted
    <3>3. i = nextWindow => SpentWeight(s, k, i) = 0
      BY FreshWindow
    <3>4. /\ window[s][k].count \in Nat /\ window'[s][k].count \in Nat
          /\ window[s][k] = NoWindow => window[s][k].count = 0
      BY <1>3, <1>6, WindowFields
    <3>5. CASE SpentWeight(s, k, i)' = SpentWeight(s, k, i)
      <4>1. ASSUME window'[s][k] # NoWindow, window'[s][k].id = i
            PROVE  SpentWeight(s, k, i) <= window'[s][k].count
        BY <1>6, <3>1, <3>2, <3>3, <3>4, <4>1
      <4> QED
        BY <3>2, <3>5, <4>1
    <3>6. CASE /\ attempt'[a] = "checking" /\ t[k].store = s /\ t[k].id = i
               /\ SpentWeight(s, k, i)' = SpentWeight(s, k, i) + LimitOf[a].weight
      <4>2. /\ s = o.store /\ k \in LimitOf[a].keys /\ window'[s][k].id = i
            /\ ~Limited(window[s], LimitOf[a])
        BY <1>9, <1>11, <1>12, <3>6
      <4>3. /\ window'[s][k].count = window[s][k].count + LimitOf[a].weight
            /\ window'[s][k].count <= MaxCount
        BY <1>6, <4>2
      <4>4. SpentWeight(s, k, i) <= window[s][k].count
        <5>1. CASE window[s][k] = NoWindow
          BY <1>6, <3>3, <3>4, <4>2, <5>1
        <5>2. CASE window[s][k] # NoWindow
          <6>1. window[s][k].id = i
            BY <1>6, <4>2, <5>2
          <6> QED
            BY <3>2, <5>2, <6>1
        <5> QED
          BY <5>1, <5>2
      <4>5. SpentWeight(s, k, i)' <= window'[s][k].count
        BY <1>5, <3>1, <3>4, <3>6, <4>3, <4>4
      <4>6. SpentWeight(s, k, i)' \in Int
        BY <1>5, <3>1, <3>6
      <4> QED
        BY <1>3, <3>4, <4>3, <4>5, <4>6
    <3> QED
      BY <3>1, <3>5, <3>6
  <2>2. window'[s][k] # NoWindow => window'[s][k].id # 0
    BY <1>14
  <2> QED
    BY <2>1, <2>2 DEF Counted
<1> QED
  BY <1>13, <1>15, <1>16, <1>17 DEF RateKept

\* The first state has no window.
LEMMA RateStarts == WindowInit => RateKept
<1> SUFFICES ASSUME WindowInit
             PROVE  RateKept
  OBVIOUS
<1>1. PICK going \in AttemptSets : attempt = [a \in going |-> "new"]
  BY DEF WindowInit
<1>2. going \subseteq Attempts
  BY WindowConstants
<1>3. /\ window = [s \in Stores |-> [k \in Buckets |-> NoWindow]]
      /\ DOMAIN ticket = {} /\ ticket = [a \in {} |-> NoTicket] /\ nextWindow = 1
      /\ DOMAIN audits = {}
  BY DEF WindowInit
<1>4. RateTyped
  <2>1. nextWindow = Cardinality(DOMAIN ticket) + 1
    BY <1>3, FS_EmptySet
  <2>2. window \in [Stores -> [Buckets -> WindowRecords]]
    BY <1>3, WindowFields
  <2>3. ticket \in [DOMAIN ticket -> [Buckets -> Tickets]]
    BY <1>3
  <2> QED
    BY <1>1, <1>2, <1>3, <2>1, <2>2, <2>3 DEF RateTyped, AttemptStates
<1>5. IdsKept
  BY <1>1, <1>3, WindowFields DEF IdsKept
<1>6. Audited
  BY <1>3 DEF Audited
<1>7. ASSUME NEW s \in Stores, NEW k \in Buckets
      PROVE  Counted(s, k)
  <2>1. \A i : Spent(s, k, i) = {}
    BY <1>3 DEF Spent
  <2>2. \A i : SpentWeight(s, k, i) = 0
    BY <2>1, NothingSpent
  <2> QED
    BY <1>3, <2>2, WindowConstants DEF Counted
<1> QED
  BY <1>4, <1>5, <1>6, <1>7 DEF RateKept

\* Every step keeps the limits.
LEMMA RateStays ==
    ASSUME RateKept, [WindowNext]_windowVars
    PROVE  RateKept'
<1>1. CASE UNCHANGED windowVars
  BY <1>1, RateStutters DEF windowVars
<1>2. ASSUME NEW m \in Windows, CloseBackend(m)
      PROVE  RateKept'
  BY <1>2, RateStutters DEF CloseBackend
<1> QED
  BY <1>1, <1>2, TakeKeeps, AuditKeeps, AttemptFailsKeeps, ClearAttemptsKeeps, RefundKeeps,
     WindowEndsKeeps DEF WindowNext

\* The invariant says what LimitsHold says.
LEMMA LimitsFollow ==
    ASSUME RateKept
    PROVE  LimitsHold
<1>1. nextWindow \in Nat /\ nextWindow # 0 /\ window \in [Stores -> [Buckets -> WindowRecords]]
  BY NextIsNatural DEF RateKept, RateTyped
<1>2. nextWindow <= MaxId + 1 /\ MaxId \in Nat
  <2>1. DOMAIN ticket \subseteq Attempts /\ nextWindow = Cardinality(DOMAIN ticket) + 1
    BY DEF RateKept, RateTyped
  <2>2. /\ Cardinality(DOMAIN ticket) <= Cardinality(Attempts)
        /\ Cardinality(DOMAIN ticket) \in Nat /\ Cardinality(Attempts) \in Nat
    BY <2>1, WindowConstants, FS_Subset, FS_CardinalityType
  <2> QED
    BY <2>1, <2>2 DEF MaxId
<1>3. ASSUME NEW s \in Stores, NEW k \in Buckets
      PROVE  window[s][k].count \in Nat /\ window[s][k].id \in 0..MaxId
  <2>1. window[s][k].count \in Nat /\ window[s][k].id \in Nat /\ window[s][k].id < nextWindow
    BY <1>1, WindowFields DEF RateKept, IdsKept
  <2> QED
    BY <1>1, <1>2, <2>1
<1>4. WindowTypeOK
  BY <1>3 DEF WindowTypeOK, RateKept, RateTyped, AttemptStates, Audited
<1>5. ASSUME NEW s \in Stores, NEW k \in Buckets
      PROVE  /\ \A i \in 1..(nextWindow - 1) : SpentWeight(s, k, i) <= MaxCount
             /\ window[s][k] # NoWindow =>
                   window[s][k].count >= SpentWeight(s, k, window[s][k].id)
  <2>1. Counted(s, k) /\ window[s][k].id \in Nat
    BY <1>3 DEF RateKept
  <2>2. \A i \in 1..(nextWindow - 1) : i \in Nat \ {0}
    BY <1>1
  <2>3. PICK i : i = window[s][k].id
    OBVIOUS
  <2>4. window[s][k] # NoWindow => SpentWeight(s, k, i) <= window[s][k].count
    BY <2>1, <2>3 DEF Counted
  <2>5. SpentWeight(s, k, i) \in Int /\ window[s][k].count \in Int
    BY <1>3, SpentIsOfAttempts, WeightLess DEF RateKept
  <2> QED
    BY <2>1, <2>2, <2>3, <2>4, <2>5 DEF Counted
<1>6. WindowHolds
  BY <1>5 DEF WindowHolds
<1> QED
  BY <1>4, <1>6 DEF LimitsHold

\* For any keys, attempts, weights, limit, replicas and lost answers: a window
\* lets no more weight through than its limit, whether its counts are in Redis,
\* in a replica's memory or move between them, its count covers what it let
\* through, and a lockout is recorded once per window (take, refund, delete and
\* markOnce of redis-store.ts and shared-store.ts, and their users).
THEOREM LimitsStayHeld == WindowSpec => []LimitsHold
<1>1. WindowInit => RateKept
  BY RateStarts
<1>2. RateKept /\ [WindowNext]_windowVars => RateKept'
  BY RateStays
<1>3. RateKept => LimitsHold
  BY LimitsFollow
<1> QED
  BY <1>1, <1>2, <1>3, PTL DEF WindowSpec

=============================================================================
