------------------------- MODULE SharedState_proofs -------------------------
(***************************************************************************)
(* Proofs about the state replicas share: the one-time store, for any      *)
(* number of replicas, secrets, sessions and SSO flows and any cap; the    *)
(* Redis connection under it, for any number of commands; the MX slots,    *)
(* for any number of replicas and deliveries; and the idempotency keys, for*)
(* any number of requests that race on one key, any bodies, any time to    *)
(* live and any bound on how long a transaction is open that fits twice    *)
(* into it.                                                                *)
(***************************************************************************)
EXTENDS OneTimeStore, RedisConnection, MxSlots, Idempotency, FiniteSetTheorems, TLAPS

(***************************************************************************)
(* Lists that lose entries.                                                *)
(***************************************************************************)

\* Every entry of r is one of q, no two of them the same.
Thins(r, q) ==
    \E f \in [1..Len(r) -> 1..Len(q)] :
        /\ \A i, j \in 1..Len(r) : f[i] = f[j] => i = j
        /\ \A i \in 1..Len(r) : r[i] = q[f[i]]

\* Dropping a key keeps every other entry and, when keys are not repeated,
\* none of that key.
LEMMA DropThins ==
    ASSUME NEW T, NEW q \in Seq(T), NEW k
    PROVE  /\ Drop(q, k) \in Seq(T) /\ Thins(Drop(q, k), q)
           /\ (\A i, j \in 1..Len(q) : q[i].key = q[j].key => i = j) => ~HasEntry(Drop(q, k), k)
           /\ \A l : l # k /\ HasEntry(q, l) => HasEntry(Drop(q, k), l)
  <1>1. CASE HasEntry(q, k)
    <2> DEFINE p == Place(q, k)
               r == [i \in 1..(Len(q) - 1) |-> q[IF i < p THEN i ELSE i + 1]]
               f == [i \in 1..(Len(q) - 1) |-> IF i < p THEN i ELSE i + 1]
    <2>1. p \in 1..Len(q) /\ q[p].key = k
      BY <1>1 DEF HasEntry, Place
    <2>2. Len(q) \in Nat /\ Len(q) - 1 \in Nat
      BY <2>1
    <2>3. Drop(q, k) = r
      BY <1>1 DEF Drop
    <2> HIDE DEF p
    <2>4. f \in [1..(Len(q) - 1) -> 1..Len(q)]
      BY <2>1, <2>2
    <2>5. r \in Seq(T) /\ Len(r) = Len(q) - 1
      BY <2>1, <2>2
    <2>6. \A i \in 1..Len(r) : r[i] = q[f[i]]
      BY <2>5
    <2>7. /\ \A i, j \in 1..Len(r) : f[i] = f[j] => i = j
          /\ \A i \in 1..Len(r) : f[i] # p
          /\ \A m \in 1..Len(q) : m # p => \E i \in 1..Len(r) : f[i] = m
      <3>1. \A i \in 1..Len(r) : f[i] = IF i < p THEN i ELSE i + 1
        BY <2>5
      <3>2. \A m \in 1..Len(q) : m # p => \E i \in 1..Len(r) : f[i] = m
        <4> SUFFICES ASSUME NEW m \in 1..Len(q), m # p PROVE \E i \in 1..Len(r) : f[i] = m
          OBVIOUS
        <4>1. CASE m < p
          <5>1. m \in 1..Len(r) /\ f[m] = m
            BY <2>1, <2>2, <2>5, <3>1, <4>1
          <5> QED BY <5>1
        <4>2. CASE ~(m < p)
          <5>1. m - 1 \in 1..Len(r) /\ f[m - 1] = m
            BY <2>1, <2>2, <2>5, <3>1, <4>2
          <5> QED BY <5>1
        <4> QED BY <4>1, <4>2
      <3> HIDE DEF f, r
      <3> QED BY <2>1, <2>2, <2>5, <3>1, <3>2
    <2>8. Thins(r, q)
      <3> HIDE DEF f, r
      <3>1. f \in [1..Len(r) -> 1..Len(q)]
        BY <2>4, <2>5
      <3> QED BY <2>6, <2>7, <3>1 DEF Thins
    <2> HIDE DEF f, r
    <2>9. (\A i, j \in 1..Len(q) : q[i].key = q[j].key => i = j) => ~HasEntry(r, k)
      <3> SUFFICES ASSUME \A i, j \in 1..Len(q) : q[i].key = q[j].key => i = j,
                          NEW i \in 1..Len(r), r[i].key = k
                   PROVE  FALSE
        BY DEF HasEntry
      <3>1. f[i] \in 1..Len(q) /\ q[f[i]].key = k
        BY <2>4, <2>5, <2>6
      <3>2. f[i] = p
        BY <2>1, <3>1
      <3> QED BY <2>7, <3>2
    <2>10. ASSUME NEW l, l # k, HasEntry(q, l) PROVE HasEntry(r, l)
      <3>1. PICK m \in 1..Len(q) : q[m].key = l
        BY <2>10 DEF HasEntry
      <3>2. PICK i \in 1..Len(r) : f[i] = m
        BY <2>1, <2>7, <2>10, <3>1
      <3> QED BY <2>6, <3>1, <3>2 DEF HasEntry
    <2> QED BY <2>3, <2>5, <2>8, <2>9, <2>10
  <1>2. CASE ~HasEntry(q, k)
    <2>1. Drop(q, k) = q
      BY <1>2 DEF Drop
    <2>2. Thins(q, q)
      <3> DEFINE f == [i \in 1..Len(q) |-> i]
      <3>1. /\ f \in [1..Len(q) -> 1..Len(q)]
            /\ \A i, j \in 1..Len(q) : f[i] = f[j] => i = j
            /\ \A i \in 1..Len(q) : q[i] = q[f[i]]
        OBVIOUS
      <3> HIDE DEF f
      <3> QED BY <3>1 DEF Thins
    <2> QED BY <1>2, <2>1, <2>2
  <1> QED BY <1>1, <1>2

\* Putting an entry appends it, after what is left of the others.
LEMMA PutAppends ==
    ASSUME NEW T, NEW q \in Seq(T), NEW e \in T, NEW s
    PROVE  \E r \in Seq(T) :
              /\ PutOnce(s, q, e) = Append(r, e) /\ Thins(r, q)
              /\ (s = "redis" \/ Len(q) < MaxEntries) => r = q
  <1>a. MaxEntries \in Nat \ {0}
    BY OnceConstants
  <1>0. Thins(q, q)
    <2> DEFINE f == [i \in 1..Len(q) |-> i]
    <2>1. /\ f \in [1..Len(q) -> 1..Len(q)]
          /\ \A i, j \in 1..Len(q) : f[i] = f[j] => i = j
          /\ \A i \in 1..Len(q) : q[i] = q[f[i]]
      OBVIOUS
    <2> HIDE DEF f
    <2> QED BY <2>1 DEF Thins
  <1>1. CASE s # "redis" /\ Len(q) >= MaxEntries
    <2> DEFINE r == Tail(q)
               f == [i \in 1..(Len(q) - 1) |-> i + 1]
    <2>1. q # <<>> /\ Len(q) \in Nat /\ Len(q) >= 1
      BY <1>1, <1>a
    <2>2. r \in Seq(T) /\ Len(r) = Len(q) - 1 /\ \A i \in 1..Len(r) : r[i] = q[i + 1]
      BY <2>1
    <2> HIDE DEF r
    <2>3. /\ f \in [1..Len(r) -> 1..Len(q)]
          /\ \A i, j \in 1..Len(r) : f[i] = f[j] => i = j
          /\ \A i \in 1..Len(r) : r[i] = q[f[i]]
      BY <2>1, <2>2
    <2> HIDE DEF f
    <2>4. Thins(r, q)
      BY <2>3 DEF Thins
    <2>5. PutOnce(s, q, e) = Append(r, e)
      BY <1>1 DEF PutOnce, r
    <2>6. ~(s = "redis" \/ Len(q) < MaxEntries)
      BY <1>1, <1>a, <2>1
    <2> QED BY <2>2, <2>4, <2>5, <2>6
  <1>2. CASE ~(s # "redis" /\ Len(q) >= MaxEntries)
    BY <1>0, <1>2 DEF PutOnce
  <1> QED BY <1>1, <1>2

\* A counter that goes up by one.
LEMMA CountUp ==
    ASSUME NEW X, NEW f \in [X -> Nat], NEW x \in X
    PROVE  /\ [f EXCEPT ![x] = @ + 1] \in [X -> Nat]
           /\ \A y \in X : [f EXCEPT ![x] = @ + 1][y] = IF y = x THEN f[y] + 1 ELSE f[y]
  OBVIOUS

(***************************************************************************)
(* The one-time store.                                                     *)
(***************************************************************************)
RevealEntry == [key : Secrets, guard : Viewers]
ClaimEntry == [key : States, guard : {"none"}]

OnceTypeOK ==
    /\ onRedis \in BOOLEAN
    /\ reveals \in [OnceStores -> Seq(RevealEntry)]
    /\ claims \in [OnceStores -> Seq(ClaimEntry)]
    /\ stashed \in [Secrets -> Viewers \cup {"nobody"}]
    /\ shown \in [Secrets \X Viewers -> Nat]
    /\ accepted \in [OnceStores \X States -> Nat]
    /\ openFlows \subseteq States

\* A secret that can still be shown is in one place, under the owner it was
\* stored for, and was shown to nobody.
RevealIsUnused ==
    /\ \A s \in OnceStores : \A i \in 1..Len(reveals[s]) :
          /\ stashed[reveals[s][i].key] = reveals[s][i].guard
          /\ \A o \in Viewers : shown[<<reveals[s][i].key, o>>] = 0
    /\ \A s, t \in OnceStores : \A i \in 1..Len(reveals[s]), j \in 1..Len(reveals[t]) :
          reveals[s][i].key = reveals[t][j].key => s = t /\ i = j

\* A flow that is live and was accepted is remembered.
AcceptedIsClaimed ==
    \A s \in OnceStores, k \in States :
        accepted[<<s, k>>] >= 1 /\ k \in openFlows => HasEntry(claims[s], k)

\* The inductive invariant.
OnceKept == OnceTypeOK /\ RevealIsUnused /\ RevealedOnce /\ AcceptedIsClaimed /\ CallbackOnce

\* Every store is empty at the start.
LEMMA OnceKeptAtFirst == OnceInit => OnceKept
  <1> SUFFICES ASSUME OnceInit PROVE OnceKept
    OBVIOUS
  <1>1. OnceTypeOK
    BY DEF OnceInit, OnceTypeOK
  <1>2. \A s \in OnceStores : Len(reveals[s]) = 0 /\ 1..Len(reveals[s]) = {}
    BY DEF OnceInit
  <1>3. /\ \A x \in Secrets \X Viewers : shown[x] = 0
        /\ \A x \in OnceStores \X States : accepted[x] = 0
        /\ DOMAIN accepted = OnceStores \X States
    BY DEF OnceInit
  <1>4. RevealIsUnused
    BY <1>2 DEF RevealIsUnused
  <1>5. RevealedOnce
    BY <1>3 DEF RevealedOnce
  <1>6. AcceptedIsClaimed
    BY <1>3 DEF AcceptedIsClaimed
  <1>7. CallbackOnce
    BY <1>3 DEF CallbackOnce
  <1> QED BY <1>1, <1>4, <1>5, <1>6, <1>7 DEF OnceKept

\* Reveals that only lose entries keep their part of the invariant.
LEMMA RevealsThin ==
    ASSUME OnceKept, NEW s \in OnceStores, NEW r \in Seq(RevealEntry), Thins(r, reveals[s]),
           reveals' = [reveals EXCEPT ![s] = r], UNCHANGED stashed,
           NEW k \in Secrets, ~HasEntry(r, k) \/ shown' = shown,
           \A l \in Secrets, o \in Viewers : shown'[<<l, o>>] # shown[<<l, o>>] =>
              l = k /\ HasEntry(reveals[s], k)
    PROVE  RevealIsUnused'
  <1>t. /\ reveals \in [OnceStores -> Seq(RevealEntry)]
        /\ \A t \in OnceStores : \A i \in 1..Len(reveals[t]) : reveals[t][i].key \in Secrets
    <2>1. reveals \in [OnceStores -> Seq(RevealEntry)]
      BY DEF OnceKept, OnceTypeOK
    <2>2. ASSUME NEW t \in OnceStores, NEW i \in 1..Len(reveals[t])
          PROVE  reveals[t][i] \in RevealEntry
      <3>1. reveals[t] \in Seq(RevealEntry)
        BY <2>1
      <3> QED BY <3>1
    <2> QED BY <2>1, <2>2 DEF RevealEntry
  <1>1. PICK f \in [1..Len(r) -> 1..Len(reveals[s])] :
          /\ \A i, j \in 1..Len(r) : f[i] = f[j] => i = j
          /\ \A i \in 1..Len(r) : r[i] = reveals[s][f[i]]
    BY DEF Thins
  <1>2. \A t \in OnceStores : reveals'[t] = IF t = s THEN r ELSE reveals[t]
    BY <1>t
  \* The entry an entry was.
  <1> DEFINE g(t, i) == IF t = s THEN f[i] ELSE i
  <1>3. ASSUME NEW t \in OnceStores, NEW i \in 1..Len(reveals'[t])
        PROVE  /\ g(t, i) \in 1..Len(reveals[t]) /\ reveals'[t][i] = reveals[t][g(t, i)]
               /\ \A j \in 1..Len(reveals'[t]) : g(t, i) = g(t, j) => i = j
    BY <1>1, <1>2
  <1> HIDE DEF g
  <1>4. ASSUME NEW t \in OnceStores, NEW i \in 1..Len(reveals'[t]), NEW o \in Viewers
        PROVE  shown'[<<reveals'[t][i].key, o>>] = shown[<<reveals'[t][i].key, o>>]
    <2> DEFINE l == reveals'[t][i].key
    <2>1. l \in Secrets
      BY <1>t, <1>3
    <2>2. CASE shown' = shown
      BY <2>2
    <2>3. CASE ~HasEntry(r, k)
      <3> SUFFICES ASSUME l = k, HasEntry(reveals[s], k) PROVE FALSE
        BY <2>1
      <3>1. PICK m \in 1..Len(reveals[s]) : reveals[s][m].key = k
        BY DEF HasEntry
      <3>2. g(t, i) \in 1..Len(reveals[t]) /\ reveals[t][g(t, i)].key = k
        BY <1>3
      <3>3. t = s
        <4>1. \A u, v \in OnceStores : \A a \in 1..Len(reveals[u]), b \in 1..Len(reveals[v]) :
                 reveals[u][a].key = reveals[v][b].key => u = v
          BY DEF OnceKept, RevealIsUnused
        <4> QED BY <3>1, <3>2, <4>1
      <3> QED BY <1>2, <2>3, <3>3 DEF HasEntry
    <2> QED BY <2>2, <2>3
  <1>5. ASSUME NEW t \in OnceStores, NEW i \in 1..Len(reveals'[t])
        PROVE  /\ stashed'[reveals'[t][i].key] = reveals'[t][i].guard
               /\ \A o \in Viewers : shown'[<<reveals'[t][i].key, o>>] = 0
    <2>1. /\ stashed[reveals[t][g(t, i)].key] = reveals[t][g(t, i)].guard
          /\ \A o \in Viewers : shown[<<reveals[t][g(t, i)].key, o>>] = 0
      BY <1>3 DEF OnceKept, RevealIsUnused
    <2>2. reveals'[t][i] = reveals[t][g(t, i)]
      BY <1>3
    <2>3. \A o \in Viewers : shown'[<<reveals'[t][i].key, o>>] = shown[<<reveals'[t][i].key, o>>]
      BY <1>4
    <2>4. stashed'[reveals'[t][i].key] = reveals'[t][i].guard
      BY <2>1, <2>2
    <2>5. \A o \in Viewers : shown'[<<reveals'[t][i].key, o>>] = 0
      BY <2>1, <2>2, <2>3
    <2> QED BY <2>4, <2>5
  <1>6. ASSUME NEW t \in OnceStores, NEW u \in OnceStores,
               NEW i \in 1..Len(reveals'[t]), NEW j \in 1..Len(reveals'[u]),
               reveals'[t][i].key = reveals'[u][j].key
        PROVE  t = u /\ i = j
    <2>1. t = u /\ g(t, i) = g(u, j)
      <3>1. /\ g(t, i) \in 1..Len(reveals[t]) /\ g(u, j) \in 1..Len(reveals[u])
            /\ reveals[t][g(t, i)].key = reveals[u][g(u, j)].key
        BY <1>3, <1>6
      <3> QED BY <3>1 DEF OnceKept, RevealIsUnused
    <2> QED BY <1>3, <2>1
  <1> QED BY <1>5, <1>6 DEF RevealIsUnused

\* The store a process uses is one of the stores.
LEMMA OnceStoreType == \A p \in Processes : OnceStore(p) \in OnceStores
  BY DEF OnceStore, OnceStores

\* What the entries of the reveal lists are.
LEMMA RevealEntries ==
    ASSUME OnceTypeOK, NEW s \in OnceStores
    PROVE  /\ reveals[s] \in Seq(RevealEntry)
           /\ \A i \in 1..Len(reveals[s]) : reveals[s][i].key \in Secrets /\ reveals[s][i].guard \in Viewers
  <1>1. reveals[s] \in Seq(RevealEntry)
    BY DEF OnceTypeOK
  <1>2. \A i \in 1..Len(reveals[s]) : reveals[s][i] \in RevealEntry
    BY <1>1
  <1> QED BY <1>1, <1>2 DEF RevealEntry

\* Storing a secret puts it in one place.
LEMMA StashKept ==
    ASSUME OnceKept, NEW p \in Processes, NEW k \in Secrets, NEW owner \in Viewers,
           StashRevealSecret(p, k, owner)
    PROVE  OnceKept'
  <1> DEFINE s == OnceStore(p)
             e == [key |-> k, guard |-> owner]
             put == PutOnce(s, reveals[s], e)
  <1>t. OnceTypeOK /\ s \in OnceStores /\ e \in RevealEntry /\ e.key = k /\ e.guard = owner
    BY OnceStoreType DEF OnceKept, RevealEntry
  <1>n. "nobody" \notin Viewers
    BY OnceConstants
  <1>1. /\ stashed[k] = "nobody" /\ stashed' = [stashed EXCEPT ![k] = owner]
        /\ reveals' = reveals \/ reveals' = [reveals EXCEPT ![s] = put]
        /\ UNCHANGED <<onRedis, claims, shown, accepted, openFlows>>
    BY DEF StashRevealSecret
  <1>2. PICK r \in Seq(RevealEntry) : put = Append(r, e) /\ Thins(r, reveals[s])
    BY <1>t, RevealEntries, PutAppends
  <1> HIDE DEF s, put, e
  <1>3. Append(r, e) \in Seq(RevealEntry) /\ Len(Append(r, e)) = Len(r) + 1 /\ Len(r) \in Nat
        /\ Append(r, e)[Len(r) + 1] = e /\ \A i \in 1..Len(r) : Append(r, e)[i] = r[i]
    BY <1>t
  <1>4. \A l \in Secrets : stashed'[l] = IF l = k THEN owner ELSE stashed[l]
    BY <1>t, <1>1 DEF OnceTypeOK
  <1>5. \A o \in Viewers : shown[<<k, o>>] = 0
    <2> SUFFICES ASSUME NEW o \in Viewers PROVE shown[<<k, o>>] = 0
      OBVIOUS
    <2>1. shown[<<k, o>>] \in Nat /\ shown[<<k, o>>] <= 1 /\ (shown[<<k, o>>] = 1 => stashed[k] = o)
      <3>1. <<k, o>> \in Secrets \X Viewers /\ <<k, o>>[1] = k /\ <<k, o>>[2] = o
        OBVIOUS
      <3> QED BY <3>1 DEF OnceKept, OnceTypeOK, RevealedOnce
    <2> QED BY <1>1, <1>n, <2>1
  <1>6. \A t \in OnceStores : \A i \in 1..Len(reveals[t]) : reveals[t][i].key # k
    <2> SUFFICES ASSUME NEW t \in OnceStores, NEW i \in 1..Len(reveals[t]), reveals[t][i].key = k
                 PROVE  FALSE
      OBVIOUS
    <2>1. reveals[t][i].guard \in Viewers
      BY <1>t, RevealEntries
    <2>2. stashed[reveals[t][i].key] = reveals[t][i].guard
      BY DEF OnceKept, RevealIsUnused
    <2> QED BY <1>1, <1>n, <2>1, <2>2
  <1>7. PICK f \in [1..Len(r) -> 1..Len(reveals[s])] :
          /\ \A i, j \in 1..Len(r) : f[i] = f[j] => i = j
          /\ \A i \in 1..Len(r) : r[i] = reveals[s][f[i]]
    BY <1>2 DEF Thins
  <1> DEFINE fresh(t, i) == reveals' # reveals /\ t = s /\ i = Len(r) + 1
             g(t, i) == IF reveals' # reveals /\ t = s THEN f[i] ELSE i
  <1>8. ASSUME NEW t \in OnceStores, NEW i \in 1..Len(reveals'[t]), ~fresh(t, i)
        PROVE  /\ g(t, i) \in 1..Len(reveals[t]) /\ reveals'[t][i] = reveals[t][g(t, i)]
               /\ \A j \in 1..Len(reveals'[t]) : ~fresh(t, j) /\ g(t, i) = g(t, j) => i = j
    <2>1. CASE reveals' = reveals
      BY <2>1
    <2>2. CASE reveals' # reveals /\ t # s
      <3>1. reveals'[t] = reveals[t]
        BY <1>1, <1>t, <2>2 DEF OnceTypeOK
      <3> QED BY <2>2, <3>1
    <2>3. CASE reveals' # reveals /\ t = s
      <3>1. reveals'[t] = Append(r, e)
        BY <1>1, <1>2, <1>t, <2>3 DEF OnceTypeOK
      <3>2. \A j \in 1..Len(reveals'[t]) : ~fresh(t, j) => j \in 1..Len(r)
        BY <1>3, <2>3, <3>1
      <3>3. i \in 1..Len(r)
        BY <1>8, <3>2
      <3> QED BY <1>3, <1>7, <2>3, <3>1, <3>2, <3>3
    <2> QED BY <2>1, <2>2, <2>3
  <1>9. ASSUME NEW t \in OnceStores, NEW i \in 1..Len(reveals'[t]), fresh(t, i)
        PROVE  reveals'[t][i] = e
    <2>1. reveals'[t] = Append(r, e)
      BY <1>1, <1>2, <1>9, <1>t DEF OnceTypeOK
    <2> QED BY <1>3, <1>9, <2>1
  <1>10. \A t, u, i, j : fresh(t, i) /\ fresh(u, j) => t = u /\ i = j
    OBVIOUS
  <1> HIDE DEF fresh, g
  <1>11. ASSUME NEW t \in OnceStores, NEW i \in 1..Len(reveals'[t]), ~fresh(t, i)
         PROVE  /\ reveals'[t][i].key \in Secrets /\ reveals'[t][i].key # k
                /\ stashed[reveals'[t][i].key] = reveals'[t][i].guard
                /\ \A o \in Viewers : shown[<<reveals'[t][i].key, o>>] = 0
    <2>1. g(t, i) \in 1..Len(reveals[t]) /\ reveals'[t][i] = reveals[t][g(t, i)]
      BY <1>8, <1>11
    <2>2. reveals[t][g(t, i)].key \in Secrets /\ reveals[t][g(t, i)].key # k
      BY <1>6, <1>t, <2>1, RevealEntries
    <2>3. /\ stashed[reveals[t][g(t, i)].key] = reveals[t][g(t, i)].guard
          /\ \A o \in Viewers : shown[<<reveals[t][g(t, i)].key, o>>] = 0
      BY <2>1 DEF OnceKept, RevealIsUnused
    <2> QED BY <2>1, <2>2, <2>3
  <1>12. RevealIsUnused'
    <2>1. ASSUME NEW t \in OnceStores, NEW i \in 1..Len(reveals'[t])
          PROVE  /\ stashed'[reveals'[t][i].key] = reveals'[t][i].guard
                 /\ \A o \in Viewers : shown'[<<reveals'[t][i].key, o>>] = 0
      <3>1. CASE fresh(t, i)
        BY <1>1, <1>4, <1>5, <1>9, <1>t, <3>1
      <3>2. CASE ~fresh(t, i)
        BY <1>1, <1>4, <1>11, <3>2
      <3> QED BY <3>1, <3>2
    <2>2. ASSUME NEW t \in OnceStores, NEW u \in OnceStores,
                 NEW i \in 1..Len(reveals'[t]), NEW j \in 1..Len(reveals'[u]),
                 reveals'[t][i].key = reveals'[u][j].key
          PROVE  t = u /\ i = j
      <3>1. fresh(t, i) <=> fresh(u, j)
        BY <1>9, <1>11, <1>t, <2>2
      <3>2. CASE fresh(t, i)
        BY <1>10, <3>1, <3>2
      <3>3. CASE ~fresh(t, i)
        <4>1. /\ g(t, i) \in 1..Len(reveals[t]) /\ g(u, j) \in 1..Len(reveals[u])
              /\ reveals[t][g(t, i)].key = reveals[u][g(u, j)].key
          BY <1>8, <2>2, <3>1, <3>3
        <4>2. t = u /\ g(t, i) = g(u, j)
          BY <4>1 DEF OnceKept, RevealIsUnused
        <4> QED BY <1>8, <3>1, <3>3, <4>2
      <3> QED BY <3>2, <3>3
    <2> QED BY <2>1, <2>2 DEF RevealIsUnused
  <1>13. OnceTypeOK'
    <2>1. reveals' \in [OnceStores -> Seq(RevealEntry)]
      BY <1>1, <1>2, <1>3, <1>t DEF OnceTypeOK
    <2>2. stashed' \in [Secrets -> Viewers \cup {"nobody"}]
      BY <1>1, <1>t DEF OnceTypeOK
    <2> QED BY <1>1, <1>t, <2>1, <2>2 DEF OnceTypeOK
  <1>14. RevealedOnce'
    <2> SUFFICES ASSUME NEW x \in Secrets \X Viewers
                 PROVE  shown'[x] <= 1 /\ (shown'[x] = 1 => stashed'[x[1]] = x[2])
      BY DEF RevealedOnce
    <2>1. x = <<x[1], x[2]>> /\ x[1] \in Secrets /\ x[2] \in Viewers
      OBVIOUS
    <2>2. shown[x] <= 1 /\ (shown[x] = 1 => stashed[x[1]] = x[2])
      BY DEF OnceKept, RevealedOnce
    <2>3. x[1] = k => shown[x] = 0
      BY <1>5, <2>1
    <2> QED BY <1>1, <1>4, <2>1, <2>2, <2>3
  <1>15. AcceptedIsClaimed' /\ CallbackOnce'
    BY <1>1 DEF OnceKept, AcceptedIsClaimed, CallbackOnce, HasEntry
  <1> QED BY <1>12, <1>13, <1>14, <1>15 DEF OnceKept

\* Dropping a secret, shown to its owner by the take or to nobody.
LEMMA TakeKept ==
    ASSUME OnceKept, NEW s \in OnceStores, NEW k \in Secrets, HasEntry(reveals[s], k),
           reveals' = [reveals EXCEPT ![s] = Drop(@, k)],
           \/ shown' = shown
           \/ /\ Entry(reveals[s], k).guard \in Viewers
              /\ shown' = [shown EXCEPT ![<<k, Entry(reveals[s], k).guard>>] = @ + 1],
           UNCHANGED <<onRedis, claims, stashed, accepted, openFlows>>
    PROVE  OnceKept'
  <1> DEFINE r == Drop(reveals[s], k)
             owner == Entry(reveals[s], k).guard
  <1>t. OnceTypeOK /\ reveals[s] \in Seq(RevealEntry)
    BY RevealEntries DEF OnceKept
  <1>1. r \in Seq(RevealEntry) /\ Thins(r, reveals[s]) /\ ~HasEntry(r, k)
    <2>1. \A i, j \in 1..Len(reveals[s]) : reveals[s][i].key = reveals[s][j].key => i = j
      BY DEF OnceKept, RevealIsUnused
    <2> QED BY <1>t, <2>1, DropThins
  <1>2. stashed[k] = owner /\ \A o \in Viewers : shown[<<k, o>>] = 0
    <2>1. /\ Place(reveals[s], k) \in 1..Len(reveals[s])
          /\ reveals[s][Place(reveals[s], k)].key = k
      BY DEF HasEntry, Place
    <2> QED BY <2>1 DEF OnceKept, RevealIsUnused, Entry
  <1> HIDE DEF r, owner
  <1>3. reveals' = [reveals EXCEPT ![s] = r]
    BY DEF r
  <1>4. \/ shown' = shown
        \/ owner \in Viewers /\ shown' = [shown EXCEPT ![<<k, owner>>] = @ + 1]
    BY DEF owner
  <1>5. \A x \in Secrets \X Viewers :
          shown'[x] = shown[x] \/ (x = <<k, owner>> /\ shown[x] = 0 /\ shown'[x] = 1)
    <2>1. CASE shown' = shown
      BY <2>1
    <2>2. CASE owner \in Viewers /\ shown' = [shown EXCEPT ![<<k, owner>>] = @ + 1]
      <3>1. <<k, owner>> \in Secrets \X Viewers /\ shown[<<k, owner>>] = 0
        BY <1>2, <2>2
      <3>2. shown \in [Secrets \X Viewers -> Nat]
        BY <1>t DEF OnceTypeOK
      <3>3. \A x \in Secrets \X Viewers :
              shown'[x] = IF x = <<k, owner>> THEN shown[x] + 1 ELSE shown[x]
        BY <2>2, <3>1, <3>2, CountUp
      <3> QED BY <3>1, <3>3
    <2> QED BY <1>4, <2>1, <2>2
  <1>6. RevealIsUnused'
    <2>1. \A l \in Secrets, o \in Viewers : shown'[<<l, o>>] # shown[<<l, o>>] =>
             l = k /\ HasEntry(reveals[s], k)
      BY <1>5
    <2> QED BY <1>1, <1>3, <2>1, RevealsThin
  <1>7. OnceTypeOK'
    <2>1. reveals' \in [OnceStores -> Seq(RevealEntry)]
      BY <1>1, <1>3, <1>t DEF OnceTypeOK
    <2>2. shown' \in [Secrets \X Viewers -> Nat]
      <3>1. shown \in [Secrets \X Viewers -> Nat]
        BY <1>t DEF OnceTypeOK
      <3>2. owner \in Viewers => <<k, owner>> \in Secrets \X Viewers
        OBVIOUS
      <3>3. CASE shown' = shown
        BY <3>1, <3>3
      <3>4. CASE owner \in Viewers /\ shown' = [shown EXCEPT ![<<k, owner>>] = @ + 1]
        BY <3>1, <3>2, <3>4, CountUp
      <3> QED BY <1>4, <3>3, <3>4
    <2> QED BY <1>t, <2>1, <2>2 DEF OnceTypeOK
  <1>8. RevealedOnce'
    <2> SUFFICES ASSUME NEW x \in Secrets \X Viewers
                 PROVE  shown'[x] <= 1 /\ (shown'[x] = 1 => stashed'[x[1]] = x[2])
      BY DEF RevealedOnce
    <2>1. shown[x] <= 1 /\ (shown[x] = 1 => stashed[x[1]] = x[2])
      BY DEF OnceKept, RevealedOnce
    <2>2. CASE shown'[x] = shown[x]
      BY <2>1, <2>2
    <2>3. CASE x = <<k, owner>> /\ shown'[x] = 1
      BY <1>2, <2>3
    <2> QED BY <1>5, <2>2, <2>3
  <1>9. AcceptedIsClaimed' /\ CallbackOnce'
    BY DEF OnceKept, AcceptedIsClaimed, CallbackOnce, HasEntry
  <1> QED BY <1>6, <1>7, <1>8, <1>9 DEF OnceKept

\* A callback is let through only where it is then remembered.
LEMMA ClaimKept ==
    ASSUME OnceKept, NEW p \in Processes, NEW k \in States, ClaimState(p, k)
    PROVE  OnceKept'
  <1> DEFINE s == OnceStore(p)
             e == [key |-> k, guard |-> "none"]
             c == ClaimOnce(s, claims[s], k)
  <1>t. OnceTypeOK /\ s \in OnceStores /\ e \in ClaimEntry /\ e.key = k /\ claims[s] \in Seq(ClaimEntry)
    BY OnceStoreType DEF OnceKept, ClaimEntry, OnceTypeOK
  <1>1. /\ k \in openFlows /\ ~HasEntry(claims[s], k)
        /\ s = "redis" \/ Len(claims[s]) < MaxEntries
        /\ claims' = [claims EXCEPT ![s] = c]
        /\ accepted' = accepted \/ accepted' = [accepted EXCEPT ![<<s, k>>] = @ + 1]
        /\ UNCHANGED <<onRedis, reveals, stashed, shown, openFlows>>
    BY DEF ClaimState, Claimable
  <1>2. c = Append(claims[s], e)
    <2>1. PICK r \in Seq(ClaimEntry) : PutOnce(s, claims[s], e) = Append(r, e) /\ r = claims[s]
      BY <1>t, <1>1, PutAppends
    <2> QED BY <2>1 DEF ClaimOnce
  <1> HIDE DEF s, e, c
  <1>3. /\ c \in Seq(ClaimEntry) /\ HasEntry(c, k)
        /\ \A l : HasEntry(claims[s], l) => HasEntry(c, l)
    <2>1. /\ c \in Seq(ClaimEntry) /\ Len(c) = Len(claims[s]) + 1 /\ Len(claims[s]) \in Nat
          /\ c[Len(c)] = e /\ \A i \in 1..Len(claims[s]) : c[i] = claims[s][i]
      BY <1>t, <1>2
    <2>2. HasEntry(c, k)
      BY <1>t, <2>1 DEF HasEntry
    <2>3. ASSUME NEW l, HasEntry(claims[s], l) PROVE HasEntry(c, l)
      <3>1. PICK i \in 1..Len(claims[s]) : claims[s][i].key = l
        BY <2>3 DEF HasEntry
      <3>2. i \in 1..Len(c) /\ c[i].key = l
        BY <2>1, <3>1
      <3> QED BY <3>2 DEF HasEntry
    <2> QED BY <2>1, <2>2, <2>3
  <1>4. \A t \in OnceStores : claims'[t] = IF t = s THEN c ELSE claims[t]
    BY <1>1, <1>t DEF OnceTypeOK
  <1>5. \A x \in OnceStores \X States :
          /\ accepted[x] \in Nat /\ accepted[x] <= 1
          /\ accepted'[x] = accepted[x] \/ (x = <<s, k>> /\ accepted'[x] = accepted[x] + 1)
    BY <1>1, <1>t DEF OnceKept, OnceTypeOK, CallbackOnce
  <1>6. accepted[<<s, k>>] = 0
    <2>1. ~(accepted[<<s, k>>] >= 1)
      BY <1>1, <1>t DEF OnceKept, AcceptedIsClaimed
    <2>2. accepted[<<s, k>>] \in Nat
      BY <1>5, <1>t
    <2> QED BY <2>1, <2>2
  <1>7. OnceTypeOK'
    <2>1. claims' \in [OnceStores -> Seq(ClaimEntry)]
      BY <1>1, <1>3, <1>t DEF OnceTypeOK
    <2>2. accepted' \in [OnceStores \X States -> Nat]
      <3>1. accepted \in [OnceStores \X States -> Nat] /\ <<s, k>> \in OnceStores \X States
        BY <1>t DEF OnceTypeOK
      <3>2. [accepted EXCEPT ![<<s, k>>] = @ + 1] \in [OnceStores \X States -> Nat]
        BY <3>1, CountUp
      <3> QED BY <1>1, <3>1, <3>2
    <2> QED BY <1>1, <1>t, <2>1, <2>2 DEF OnceTypeOK
  <1>8. AcceptedIsClaimed'
    <2> SUFFICES ASSUME NEW t \in OnceStores, NEW l \in States,
                        accepted'[<<t, l>>] >= 1, l \in openFlows
                 PROVE  HasEntry(claims'[t], l)
      BY <1>1 DEF AcceptedIsClaimed, HasEntry
    <2>1. CASE <<t, l>> = <<s, k>>
      BY <1>3, <1>4, <2>1
    <2>2. CASE <<t, l>> # <<s, k>>
      <3>1. accepted'[<<t, l>>] = accepted[<<t, l>>]
        BY <1>5, <2>2
      <3>2. HasEntry(claims[t], l)
        BY <3>1 DEF OnceKept, AcceptedIsClaimed
      <3> QED BY <1>3, <1>4, <3>2
    <2> QED BY <2>1, <2>2
  <1>9. CallbackOnce'
    <2>1. DOMAIN accepted' = OnceStores \X States
      BY <1>7 DEF OnceTypeOK
    <2> QED BY <1>5, <1>6, <2>1 DEF CallbackOnce
  <1>10. RevealIsUnused' /\ RevealedOnce'
    BY <1>1 DEF OnceKept, RevealIsUnused, RevealedOnce
  <1> QED BY <1>7, <1>8, <1>9, <1>10 DEF OnceKept

\* That a flow ends changes nothing else.
LEMMA FlowsEndKept ==
    ASSUME OnceKept, UNCHANGED <<onRedis, reveals, claims, stashed, shown, accepted>>,
           openFlows' \subseteq openFlows
    PROVE  OnceKept'
  <1>1. OnceTypeOK'
    BY DEF OnceKept, OnceTypeOK
  <1>2. RevealIsUnused' /\ RevealedOnce'
    BY DEF OnceKept, RevealIsUnused, RevealedOnce
  <1>3. AcceptedIsClaimed'
    BY DEF OnceKept, AcceptedIsClaimed, HasEntry
  <1>4. CallbackOnce'
    BY DEF OnceKept, CallbackOnce
  <1> QED BY <1>1, <1>2, <1>3, <1>4 DEF OnceKept

\* Every step of the store keeps the invariant.
LEMMA NextOnceKept == OnceKept /\ [OnceNext]_onceVars => OnceKept'
  <1> SUFFICES ASSUME OnceKept, [OnceNext]_onceVars PROVE OnceKept'
    OBVIOUS
  <1>1. ASSUME NEW p \in Processes, NEW k \in Secrets, NEW o \in Viewers,
               ConsumeRevealSecret(p, k, o)
        PROVE  OnceKept'
    <2>1. OnceStore(p) \in OnceStores
      BY OnceStoreType
    <2>2. /\ HasEntry(reveals[OnceStore(p)], k) /\ Entry(reveals[OnceStore(p)], k).guard = o
          /\ reveals' = [reveals EXCEPT ![OnceStore(p)] = Drop(@, k)]
          /\ shown' = shown \/ shown' = [shown EXCEPT ![<<k, o>>] = @ + 1]
          /\ UNCHANGED <<onRedis, claims, stashed, accepted, openFlows>>
      BY <1>1 DEF ConsumeRevealSecret, Takes, TakeOnce
    <2> QED BY <2>1, <2>2, TakeKept
  <1>2. ASSUME NEW s \in OnceStores, NEW k \in Secrets, RevealEnds(s, k)
        PROVE  OnceKept'
    BY <1>2, TakeKept DEF RevealEnds
  <1>3. ASSUME NEW s \in OnceStores, NEW k \in States, ClaimEnds(s, k)
        PROVE  OnceKept'
    <2> DEFINE c == Drop(claims[s], k)
    <2>1. /\ k \notin openFlows /\ claims' = [claims EXCEPT ![s] = c]
          /\ UNCHANGED <<onRedis, reveals, stashed, shown, accepted, openFlows>>
      BY <1>3 DEF ClaimEnds
    <2>2. c \in Seq(ClaimEntry) /\ \A l : l # k /\ HasEntry(claims[s], l) => HasEntry(c, l)
      <3>1. claims[s] \in Seq(ClaimEntry)
        BY DEF OnceKept, OnceTypeOK
      <3> QED BY <3>1, DropThins
    <2> HIDE DEF c
    <2>3. \A t \in OnceStores : claims'[t] = IF t = s THEN c ELSE claims[t]
      BY <2>1 DEF OnceKept, OnceTypeOK
    <2>4. OnceTypeOK'
      BY <2>1, <2>2 DEF OnceKept, OnceTypeOK
    <2>5. AcceptedIsClaimed'
      <3> SUFFICES ASSUME NEW t \in OnceStores, NEW l \in States,
                          accepted[<<t, l>>] >= 1, l \in openFlows
                   PROVE  HasEntry(claims'[t], l)
        BY <2>1 DEF AcceptedIsClaimed, HasEntry
      <3>1. HasEntry(claims[t], l)
        BY DEF OnceKept, AcceptedIsClaimed
      <3> QED BY <2>1, <2>2, <2>3, <3>1
    <2> QED BY <2>1, <2>4, <2>5 DEF OnceKept, RevealIsUnused, RevealedOnce, CallbackOnce
  <1>4. ASSUME NEW k \in States, FlowEnds(k)
        PROVE  OnceKept'
    <2>1. /\ UNCHANGED <<onRedis, reveals, claims, stashed, shown, accepted>>
          /\ openFlows' \subseteq openFlows
      BY <1>4 DEF FlowEnds
    <2> QED BY <2>1, FlowsEndKept
  <1>5. CASE UNCHANGED onceVars
    <2>1. /\ UNCHANGED <<onRedis, reveals, claims, stashed, shown, accepted>>
          /\ openFlows' \subseteq openFlows
      BY <1>5 DEF onceVars
    <2> QED BY <2>1, FlowsEndKept
  <1> QED BY <1>1, <1>2, <1>3, <1>4, <1>5, StashKept, ClaimKept DEF OnceNext

\* A secret is shown once, to the session it was stored for, and an SSO flow's
\* callback passes once per store: whatever commands are lost, applied or not,
\* whatever the cap evicts, on however many replicas.
THEOREM OnceIsOnce == OnceSpec => []UsedOnce
  <1>1. OnceKept => UsedOnce
    BY DEF OnceKept, UsedOnce
  <1> QED BY OnceKeptAtFirst, NextOnceKept, <1>1, PTL DEF OnceSpec

(***************************************************************************)
(* The Redis connection.                                                   *)
(***************************************************************************)

\* The inductive invariant: no client but those opened so far is open.
ConnectionKept ==
    /\ client \in Nat \ {0} /\ live \subseteq 1..client
    /\ command \in [Commands -> [at : {"idle", "waiting", "sent", "done", "failed"}, on : Nat]]
    /\ WaitersHaveConnect

\* What a step does to the commands that wait.
LEMMA SettleWaiters ==
    ASSUME NEW cs \in SUBSET Commands, NEW to \in {"waiting", "done", "failed"}, Settle(cs, to),
           command \in [Commands -> [at : {"idle", "waiting", "sent", "done", "failed"}, on : Nat]]
    PROVE  /\ command' \in [Commands -> [at : {"idle", "waiting", "sent", "done", "failed"}, on : Nat]]
           /\ to # "waiting" => AwaitConnect' = AwaitConnect \ cs
  BY DEF Settle, AwaitConnect

\* Every step keeps it, and drops no client that is open and answers.
LEMMA RedisStepKept ==
    ASSUME ConnectionKept, RedisNext
    PROVE  ConnectionKept' /\ HealthyClientStays
  <1> DEFINE Command == [at : {"idle", "waiting", "sent", "done", "failed"}, on : Nat]
  <1>t. /\ client \in Nat /\ live \subseteq 1..client /\ command \in [Commands -> Command]
        /\ client + 1 \notin live
        /\ AwaitConnect # {} => connecting
        /\ connecting => client \notin live
        /\ AwaitConnect \subseteq Commands
    BY DEF ConnectionKept, WaitersHaveConnect, AwaitConnect
  <1>1. CASE Connected
    <2>1. command' \in [Commands -> Command] /\ AwaitConnect' = {}
      BY <1>1, <1>t DEF Connected, AwaitConnect
    <2>2. client' = client /\ live' = live \cup {client} /\ ~connecting'
      BY <1>1 DEF Connected
    <2>3. live' \subseteq 1..client' /\ client' \in Nat
      <3>1. client # 0
        BY <1>1 DEF Connected, ConnectionKept
      <3> QED BY <1>t, <2>2, <3>1
    <2> QED BY <2>1, <2>2, <2>3 DEF ConnectionKept, WaitersHaveConnect, HealthyClientStays
  <1>2. CASE ConnectFails
    <2>1. command' \in [Commands -> Command] /\ AwaitConnect' = {}
      BY <1>2, <1>t, SettleWaiters DEF ConnectFails
    <2>2. client' = client + 1 /\ live' = live /\ ~connecting' /\ connecting
      BY <1>2 DEF ConnectFails
    <2> QED BY <1>t, <2>1, <2>2 DEF ConnectionKept, WaitersHaveConnect, HealthyClientStays
  <1>3. CASE RetryDue \/ Hang
    <2>1. UNCHANGED <<client, live, connecting, command>>
      BY <1>3 DEF RetryDue, Hang
    <2> QED BY <2>1 DEF ConnectionKept, WaitersHaveConnect, AwaitConnect, HealthyClientStays
  <1>4. CASE Closed
    <2>1. command' \in [Commands -> Command] /\ AwaitConnect' \subseteq AwaitConnect
      BY <1>4, <1>t, SettleWaiters DEF Closed, SentOn
    <2>2. client' = client /\ live' = live \ {client} /\ connecting' = connecting
      BY <1>4 DEF Closed
    <2> QED BY <1>t, <2>1, <2>2 DEF ConnectionKept, WaitersHaveConnect, HealthyClientStays
  <1>5. ASSUME NEW c \in Commands, Send(c)
        PROVE  ConnectionKept' /\ HealthyClientStays
    <2>1. client' = client /\ live' = live
      BY <1>5 DEF Send
    <2>2. command' \in [Commands -> Command]
      BY <1>5, <1>t, SettleWaiters DEF Send
    <2>3. CASE client \in live
      <3>1. connecting' = connecting /\ AwaitConnect' \subseteq AwaitConnect
        BY <1>5, <1>t, <2>3 DEF Send, AwaitConnect
      <3> QED BY <1>t, <2>1, <2>2, <3>1 DEF ConnectionKept, WaitersHaveConnect, HealthyClientStays
    <2>4. CASE client \notin live /\ (connecting \/ ~retryAt)
      <3>1. connecting'
        BY <1>5, <2>4 DEF Send
      <3> QED BY <1>t, <2>1, <2>2, <2>4, <3>1 DEF ConnectionKept, WaitersHaveConnect, HealthyClientStays
    <2>5. CASE client \notin live /\ ~(connecting \/ ~retryAt)
      <3>1. connecting' = connecting /\ AwaitConnect' \subseteq AwaitConnect
        BY <1>5, <1>t, <2>5, SettleWaiters DEF Send
      <3> QED BY <1>t, <2>1, <2>2, <3>1 DEF ConnectionKept, WaitersHaveConnect, HealthyClientStays
    <2> QED BY <2>3, <2>4, <2>5
  <1>6. ASSUME NEW c \in Commands, Reply(c)
        PROVE  ConnectionKept' /\ HealthyClientStays
    <2>1. command' \in [Commands -> Command] /\ AwaitConnect' \subseteq AwaitConnect
      BY <1>6, <1>t, SettleWaiters DEF Reply
    <2>2. client' = client /\ live' = live /\ connecting' = connecting
      BY <1>6 DEF Reply
    <2> QED BY <1>t, <2>1, <2>2 DEF ConnectionKept, WaitersHaveConnect, HealthyClientStays
  <1>7. ASSUME NEW c \in Commands, TimedOut(c)
        PROVE  ConnectionKept' /\ HealthyClientStays
    <2>1. command' \in [Commands -> Command] /\ AwaitConnect' \subseteq AwaitConnect
      BY <1>7, <1>t, SettleWaiters DEF TimedOut
    <2>2. /\ connecting' = connecting /\ hung' = hung
          /\ \/ client' = client /\ live' = live
             \/ client \in hung /\ client' = client + 1 /\ live' = live \ {client}
      BY <1>7 DEF TimedOut
    <2>3. HealthyClientStays
      BY <2>2 DEF HealthyClientStays
    <2>4. /\ client' \in Nat \ {0} /\ live' \subseteq 1..client'
          /\ connecting' => client' \notin live'
      <3>1. CASE client' = client /\ live' = live
        BY <1>t, <2>2, <3>1 DEF ConnectionKept
      <3>2. CASE client' = client + 1 /\ live' = live \ {client}
        BY <1>t, <3>2
      <3> QED BY <2>2, <3>1, <3>2
    <2> QED BY <1>t, <2>1, <2>2, <2>3, <2>4 DEF ConnectionKept, WaitersHaveConnect
  <1> QED BY <1>1, <1>2, <1>3, <1>4, <1>5, <1>6, <1>7 DEF RedisNext

\* No command waits for a connect that nobody runs, and no client that is open
\* and answers is replaced, in whatever order connects fail, commands time out
\* and the server closes or hangs (ensureConnected, send).
THEOREM ConnectionStaysSound == RedisSpec => ConnectionIsSound
  <1>1. RedisInit => ConnectionKept
    BY DEF RedisInit, ConnectionKept, WaitersHaveConnect, AwaitConnect, IdleCommand
  <1>2. ConnectionKept /\ [RedisNext]_redisVars => ConnectionKept'
    <2>1. ConnectionKept /\ UNCHANGED redisVars => ConnectionKept'
      BY DEF redisVars, ConnectionKept, WaitersHaveConnect, AwaitConnect
    <2> QED BY <2>1, RedisStepKept
  <1>3. ConnectionKept /\ [RedisNext]_redisVars =>
          [WaitersHaveConnect' /\ HealthyClientStays]_redisVars
    BY RedisStepKept DEF ConnectionKept
  <1> QED BY <1>1, <1>2, <1>3, PTL DEF RedisSpec, ConnectionIsSound

(***************************************************************************)
(* The MX slots.                                                           *)
(***************************************************************************)

\* Who waits in a lock is queued there, and nobody twice.
QueueStands(r) ==
    /\ NoRepeats(lock[r].queue)
    /\ \A i \in 1..Len(lock[r].queue) :
          LET d == lock[r].queue[i] IN slotAt[d] = "queued" /\ ReplicaOf[d] = r

\* A lock counts who is past it, up to the limit, and keeps nobody waiting
\* while it has room.
LockStands(r) ==
    /\ IsFiniteSet(Occupants(r))
    /\ lock[r].active = Cardinality(Occupants(r))
    /\ lock[r].active <= MaxSlots
    /\ lock[r].queue # <<>> => lock[r].active = MaxSlots

\* A semaphore has no more holders than slots and nobody twice in its line.
StoreStands(s) ==
    /\ IsFiniteSet(s.holders) /\ Cardinality(s.holders) <= MaxSlots
    /\ NoRepeats(s.line)

SlotStores == [holders : SUBSET SlotCalls, line : Seq(SlotCalls)]

\* The state's shape.
SlotsTyped ==
    /\ slotAt \in [SlotCalls -> Places]
    /\ lock \in [Replicas -> [active : Nat, queue : Seq(SlotCalls)]]
    /\ semaphore \in [Semaphores -> SlotStores]
    /\ grant \in [SlotCalls -> Semaphores \cup {"none"}]
    /\ overrun \subseteq At("running")
    /\ installed \subseteq Replicas
    /\ slotFaults \in 0..MaxSlotFaults

\* A grant is of a session that runs; a shared one is still held unless its
\* lease was lost; and while nothing failed, Redis is everybody's store or
\* nobody's and each session runs on its grant.
GrantStands(d) ==
    /\ grant[d] # "none" => slotAt[d] = "running"
    /\ grant[d] = "redis" /\ d \notin overrun => d \in semaphore["redis"].holders
    /\ slotFaults = 0 /\ installed # {} /\ slotAt[d] = "running" =>
          grant[d] = "redis" /\ d \notin overrun

\* The inductive invariant.
SlotsKept ==
    /\ SlotsTyped
    /\ slotFaults = 0 => installed \in {{}, Replicas}
    /\ \A r \in Replicas : QueueStands(r) /\ LockStands(r)
    /\ \A s \in Semaphores : StoreStands(semaphore[s])
    /\ \A d \in SlotCalls : GrantStands(d)

\* Taking a call out of a line leaves the others once each.
LEMMA WithoutThins ==
    ASSUME NEW q \in Seq(SlotCalls), NoRepeats(q), NEW d \in SlotCalls
    PROVE  Without(q, d) \in Seq(SlotCalls) /\ NoRepeats(Without(q, d))
  <1>1. CASE Listed(q, d)
    <2> DEFINE p == Position(q, d)
               r == [i \in 1..(Len(q) - 1) |-> q[IF i < p THEN i ELSE i + 1]]
    <2>1. p \in 1..Len(q)
      BY <1>1 DEF Listed, Position
    <2>2. Len(q) \in Nat /\ Len(q) - 1 \in Nat
      BY <2>1
    <2>3. Without(q, d) = r
      BY <1>1 DEF Without
    <2> HIDE DEF p
    <2>4. r \in Seq(SlotCalls) /\ Len(r) = Len(q) - 1
      BY <2>1, <2>2
    <2>5. ASSUME NEW i \in 1..Len(r), NEW j \in 1..Len(r), r[i] = r[j]
          PROVE  i = j
      <3> DEFINE a == IF i < p THEN i ELSE i + 1
                 b == IF j < p THEN j ELSE j + 1
      <3>1. a \in 1..Len(q) /\ b \in 1..Len(q) /\ (a = b => i = j)
        BY <2>1, <2>2, <2>4
      <3>2. q[a] = q[b]
        BY <2>4, <2>5
      <3> HIDE DEF a, b
      <3> QED BY <3>1, <3>2 DEF NoRepeats
    <2> HIDE DEF r
    <2> QED BY <2>3, <2>4, <2>5 DEF NoRepeats
  <1>2. CASE ~Listed(q, d)
    BY <1>2 DEF Without
  <1> QED BY <1>1, <1>2

\* Joining the end of a line one is not in.
LEMMA AppendOnce ==
    ASSUME NEW q \in Seq(SlotCalls), NoRepeats(q), NEW d \in SlotCalls, ~Listed(q, d)
    PROVE  /\ Append(q, d) \in Seq(SlotCalls) /\ NoRepeats(Append(q, d))
           /\ Append(q, d) # <<>>
           /\ \A i \in 1..Len(Append(q, d)) : Append(q, d)[i] = d \/
                 \E j \in 1..Len(q) : Append(q, d)[i] = q[j]
  <1> DEFINE r == Append(q, d)
  <1>1. /\ r \in Seq(SlotCalls) /\ Len(q) \in Nat /\ Len(r) = Len(q) + 1
        /\ r[Len(q) + 1] = d /\ \A i \in 1..Len(q) : r[i] = q[i]
    OBVIOUS
  <1> HIDE DEF r
  <1>2. \A i \in 1..Len(r) : i \in 1..Len(q) \/ i = Len(q) + 1
    BY <1>1
  <1>3. NoRepeats(r)
    BY <1>1, <1>2 DEF NoRepeats, Listed
  <1>4. r # <<>>
    BY <1>1
  <1>5. \A i \in 1..Len(r) : r[i] = d \/ \E j \in 1..Len(q) : r[i] = q[j]
    BY <1>1, <1>2
  <1> QED BY <1>1, <1>3, <1>4, <1>5 DEF r

\* What the store's commands and the clock do to it: the limit holds, and
\* nobody else loses a slot.
LEMMA StoreMoves ==
    ASSUME NEW s \in SlotStores, StoreStands(s), NEW d \in SlotCalls,
           NEW t \in {Acquire(s, d), Release(s, d), [s EXCEPT !.holders = @ \ {d}],
                      [s EXCEPT !.line = Without(@, d)]}
    PROVE  /\ t \in SlotStores /\ StoreStands(t)
           /\ \A e \in SlotCalls : e # d /\ e \in s.holders => e \in t.holders
           /\ t = Acquire(s, d) /\ Granted(s, d) => d \in t.holders
  <1>m. MaxSlots \in Nat \ {0}
    BY MxConstants
  <1>0. /\ s.holders \subseteq SlotCalls /\ s.line \in Seq(SlotCalls) /\ NoRepeats(s.line)
        /\ IsFiniteSet(s.holders) /\ Cardinality(s.holders) <= MaxSlots
        /\ s = [holders |-> s.holders, line |-> s.line]
    BY DEF SlotStores, StoreStands
  <1>1. Cardinality(s.holders) \in Nat
    BY <1>0, FS_CardinalityType
  <1>2. Without(s.line, d) \in Seq(SlotCalls) /\ NoRepeats(Without(s.line, d))
    BY <1>0, WithoutThins
  <1>3. IsFiniteSet(s.holders \ {d}) /\ Cardinality(s.holders \ {d}) <= MaxSlots
    <2>1. /\ IsFiniteSet(s.holders \ {d})
          /\ Cardinality(s.holders \ {d}) =
                IF d \in s.holders THEN Cardinality(s.holders) - 1 ELSE Cardinality(s.holders)
      BY <1>0, FS_RemoveElement, Zenon
    <2> QED BY <1>0, <1>1, <1>m, <2>1
  <1>4. CASE t = Acquire(s, d) /\ Granted(s, d)
    <2>1. t = [holders |-> s.holders \cup {d}, line |-> Without(s.line, d)]
      BY <1>4 DEF Acquire
    <2>2. d \in s.holders \/ MaxSlots - Cardinality(s.holders) > 0
      BY <1>4 DEF Granted
    <2>3. IsFiniteSet(s.holders \cup {d}) /\ Cardinality(s.holders \cup {d}) <= MaxSlots
      <3>1. /\ IsFiniteSet(s.holders \cup {d})
            /\ Cardinality(s.holders \cup {d}) =
                  IF d \in s.holders THEN Cardinality(s.holders) ELSE Cardinality(s.holders) + 1
        BY <1>0, FS_AddElement, Zenon
      <3> QED BY <1>0, <1>1, <1>m, <2>2, <3>1
    <2> QED BY <1>0, <1>2, <2>1, <2>3 DEF SlotStores, StoreStands
  <1>5. CASE t = Acquire(s, d) /\ ~Granted(s, d)
    <2>1. t.holders = s.holders /\ t.line = IF Listed(s.line, d) THEN s.line ELSE Append(s.line, d)
      BY <1>0, <1>5 DEF Acquire
    <2>2. t = [holders |-> t.holders, line |-> t.line]
      BY <1>0, <1>5 DEF Acquire
    <2>3. t.line \in Seq(SlotCalls) /\ NoRepeats(t.line)
      BY <1>0, <2>1, AppendOnce
    <2> QED BY <1>0, <1>5, <2>1, <2>2, <2>3 DEF SlotStores, StoreStands
  <1>6. CASE t = Release(s, d) /\ t # Acquire(s, d)
    BY <1>0, <1>2, <1>3, <1>6 DEF Release, SlotStores, StoreStands
  <1>7. CASE t = [s EXCEPT !.holders = @ \ {d}] /\ t # Acquire(s, d)
    <2>1. t = [holders |-> s.holders \ {d}, line |-> s.line]
      BY <1>0, <1>7
    <2> QED BY <1>0, <1>3, <1>7, <2>1 DEF SlotStores, StoreStands
  <1>8. CASE t = [s EXCEPT !.line = Without(@, d)] /\ t # Acquire(s, d)
    <2>1. t = [holders |-> s.holders, line |-> Without(s.line, d)]
      BY <1>0, <1>8
    <2> QED BY <1>0, <1>2, <1>8, <2>1 DEF SlotStores, StoreStands
  <1> QED BY <1>4, <1>5, <1>6, <1>7, <1>8

\* A step that moves no call past a lock or out of one leaves the locks sound.
LEMMA LocksUntouched ==
    ASSUME SlotsKept, lock' = lock, slotAt' \in [SlotCalls -> Places],
           \A d \in SlotCalls :
              /\ slotAt'[d] \in {"polling", "running"} <=> slotAt[d] \in {"polling", "running"}
              /\ slotAt[d] = "queued" => slotAt'[d] = "queued"
    PROVE  \A r \in Replicas : QueueStands(r)' /\ LockStands(r)'
  <1> SUFFICES ASSUME NEW r \in Replicas PROVE QueueStands(r)' /\ LockStands(r)'
    OBVIOUS
  <1>1. QueueStands(r) /\ LockStands(r) /\ lock[r].queue \in Seq(SlotCalls)
    BY DEF SlotsKept, SlotsTyped
  <1>2. Occupants(r)' = Occupants(r)
    BY DEF Occupants, At
  <1>3. QueueStands(r)'
    BY <1>1 DEF QueueStands
  <1> QED BY <1>1, <1>2, <1>3 DEF LockStands

\* withMxLock's finally: the place goes to the first waiter, or back; either
\* way the lock still counts who is past it.
LEMMA UnlockStands ==
    ASSUME SlotsKept, NEW d \in SlotCalls, slotAt[d] = "running", Unlock(d)
    PROVE  /\ slotAt' \in [SlotCalls -> Places]
           /\ lock' \in [Replicas -> [active : Nat, queue : Seq(SlotCalls)]]
           /\ slotAt'[d] = "done"
           /\ \A e \in SlotCalls : e # d =>
                 \/ slotAt'[e] = slotAt[e]
                 \/ slotAt[e] = "queued" /\ slotAt'[e] = PastLock(ReplicaOf[e])
           /\ \A r \in Replicas : QueueStands(r)' /\ LockStands(r)'
  <1> DEFINE r == ReplicaOf[d]
             q == lock[r].queue
             Locks == [active : Nat, queue : Seq(SlotCalls)]
  <1>0. /\ r \in Replicas /\ ReplicaOf \in [SlotCalls -> Replicas] /\ MaxSlots \in Nat \ {0}
        /\ slotAt \in [SlotCalls -> Places] /\ lock \in [Replicas -> Locks]
        /\ lock[r] \in Locks /\ q \in Seq(SlotCalls)
        /\ QueueStands(r) /\ LockStands(r)
    BY MxConstants DEF SlotsKept, SlotsTyped
  <1>1. d \in Occupants(r) /\ IsFiniteSet(Occupants(r))
    BY <1>0 DEF Occupants, At, LockStands
  <1>2. PastLock(r) \in {"polling", "running"}
    BY DEF PastLock
  <1>u. lock' = [lock EXCEPT ![r] =
                  [active |-> IF q # <<>> THEN lock[r].active ELSE lock[r].active - 1,
                   queue  |-> IF q # <<>> THEN Tail(q) ELSE q]]
    BY DEF Unlock
  <1>3. \A s \in Replicas : s # r => lock'[s] = lock[s]
    BY <1>0, <1>u
  <1>4. CASE q # <<>>
    <2> DEFINE h == Head(q)
    <2>1. /\ h \in SlotCalls /\ h = q[1] /\ 1 \in 1..Len(q)
          /\ Tail(q) \in Seq(SlotCalls) /\ Len(q) \in Nat /\ Len(Tail(q)) = Len(q) - 1
          /\ \A i \in 1..Len(Tail(q)) : i + 1 \in 1..Len(q) /\ Tail(q)[i] = q[i + 1]
      BY <1>0, <1>4
    <2>2. slotAt[h] = "queued" /\ ReplicaOf[h] = r
      BY <1>0, <2>1 DEF QueueStands
    <2>3. lock'[r] = [active |-> lock[r].active, queue |-> Tail(q)]
      BY <1>0, <1>4, <1>u
    <2>4. lock'[r].active = lock[r].active /\ lock'[r].queue = Tail(q) /\ lock'[r] \in Locks
      BY <1>0, <2>1, <2>3
    <2>5. slotAt' = [e \in SlotCalls |-> IF e = d THEN "done"
                        ELSE IF e = h THEN PastLock(r) ELSE slotAt[e]]
      BY <1>4 DEF Unlock
    <2> HIDE DEF h
    <2>6. slotAt' \in [SlotCalls -> Places] /\ h # d
      BY <1>0, <1>2, <2>2, <2>5 DEF Places
    <2>7. lock' \in [Replicas -> Locks]
      BY <1>0, <1>3, <2>4 DEF Unlock
    <2>8. Occupants(r)' = (Occupants(r) \ {d}) \cup {h} /\ h \notin Occupants(r)
      BY <1>0, <1>2, <2>1, <2>2, <2>5, <2>6 DEF Occupants, At
    <2>9. LockStands(r)'
      <3> DEFINE O == Occupants(r) \ {d}
      <3>1. IsFiniteSet(O) /\ Cardinality(O) = Cardinality(Occupants(r)) - 1
        BY <1>1, FS_RemoveElement
      <3>2. IsFiniteSet(O \cup {h}) /\ Cardinality(O \cup {h}) = Cardinality(O) + 1
        <4>1. h \notin O
          BY <2>8
        <4> HIDE DEF O
        <4> QED BY <3>1, <4>1, FS_AddElement
      <3>3. Cardinality(Occupants(r)) \in Nat
        BY <1>1, FS_CardinalityType
      <3>4. Cardinality(Occupants(r)') = Cardinality(Occupants(r)) /\ IsFiniteSet(Occupants(r)')
        <4> HIDE DEF O
        <4>1. Occupants(r)' = O \cup {h}
          BY <2>8 DEF O
        <4> QED BY <3>1, <3>2, <3>3, <4>1
      <3> QED BY <1>0, <1>4, <2>4, <3>4 DEF LockStands
    <2>10. QueueStands(r)'
      <3>1. NoRepeats(Tail(q))
        <4> SUFFICES ASSUME NEW i \in 1..Len(Tail(q)), NEW j \in 1..Len(Tail(q)),
                            Tail(q)[i] = Tail(q)[j]
                     PROVE  i = j
          BY DEF NoRepeats
        <4>1. i + 1 = j + 1
          BY <1>0, <2>1 DEF QueueStands, NoRepeats
        <4> QED BY <2>1, <4>1
      <3>2. ASSUME NEW i \in 1..Len(Tail(q))
            PROVE  slotAt'[Tail(q)[i]] = "queued" /\ ReplicaOf[Tail(q)[i]] = r
        <4>1. /\ i + 1 \in 1..Len(q) /\ Tail(q)[i] = q[i + 1] /\ i + 1 # 1
              /\ q[i + 1] \in SlotCalls
          BY <1>0, <2>1
        <4>2. slotAt[q[i + 1]] = "queued" /\ ReplicaOf[q[i + 1]] = r /\ q[i + 1] # h
          BY <1>0, <2>1, <4>1 DEF QueueStands, NoRepeats
        <4> QED BY <2>5, <4>1, <4>2
      <3> QED BY <2>4, <3>1, <3>2 DEF QueueStands
    <2>11. ASSUME NEW s \in Replicas, s # r PROVE QueueStands(s)' /\ LockStands(s)'
      <3>1. QueueStands(s) /\ LockStands(s) /\ lock'[s] = lock[s] /\ lock[s].queue \in Seq(SlotCalls)
        BY <1>0, <1>3, <2>11 DEF SlotsKept
      <3>2. \A e \in SlotCalls : ReplicaOf[e] = s => slotAt'[e] = slotAt[e]
        BY <2>2, <2>5, <2>11
      <3>3. Occupants(s)' = Occupants(s)
        BY <3>2 DEF Occupants, At
      <3>4. QueueStands(s)'
        BY <3>1, <3>2 DEF QueueStands
      <3> QED BY <3>1, <3>3, <3>4 DEF LockStands
    <2>12. \A e \in SlotCalls : e # d =>
              \/ slotAt'[e] = slotAt[e]
              \/ slotAt[e] = "queued" /\ slotAt'[e] = PastLock(ReplicaOf[e])
      BY <2>2, <2>5
    <2> QED BY <2>5, <2>6, <2>7, <2>9, <2>10, <2>11, <2>12
  <1>5. CASE q = <<>>
    <2>3. lock'[r] = [active |-> lock[r].active - 1, queue |-> q]
      BY <1>0, <1>5, <1>u
    <2>5. slotAt' = [slotAt EXCEPT ![d] = "done"]
      BY <1>0, <1>5 DEF Unlock
    <2>8. Occupants(r)' = Occupants(r) \ {d}
      BY <1>0, <2>5 DEF Occupants, At
    <2>9. /\ IsFiniteSet(Occupants(r)') /\ Cardinality(Occupants(r)') = Cardinality(Occupants(r)) - 1
          /\ Cardinality(Occupants(r)') \in Nat /\ Cardinality(Occupants(r)) \in Nat
      BY <1>1, <2>8, FS_RemoveElement, FS_CardinalityType
    <2>10. /\ lock'[r].active = Cardinality(Occupants(r)') /\ lock'[r].queue = <<>>
           /\ lock'[r] \in Locks /\ lock'[r].active <= MaxSlots
      BY <1>0, <1>5, <2>3, <2>9 DEF LockStands
    <2>11. lock' \in [Replicas -> Locks] /\ slotAt' \in [SlotCalls -> Places]
      BY <1>0, <1>3, <2>5, <2>10 DEF Unlock, Places
    <2>12. QueueStands(r)' /\ LockStands(r)'
      BY <2>9, <2>10 DEF QueueStands, LockStands, NoRepeats
    <2>13. ASSUME NEW s \in Replicas, s # r PROVE QueueStands(s)' /\ LockStands(s)'
      <3>1. QueueStands(s) /\ LockStands(s) /\ lock'[s] = lock[s] /\ lock[s].queue \in Seq(SlotCalls)
        BY <1>0, <1>3, <2>13 DEF SlotsKept
      <3>2. \A e \in SlotCalls : ReplicaOf[e] = s => slotAt'[e] = slotAt[e]
        BY <1>0, <2>5, <2>13
      <3>3. Occupants(s)' = Occupants(s)
        BY <3>2 DEF Occupants, At
      <3>4. QueueStands(s)'
        BY <3>1, <3>2 DEF QueueStands
      <3> QED BY <3>1, <3>3, <3>4 DEF LockStands
    <2> QED BY <1>0, <2>5, <2>11, <2>12, <2>13
  <1> QED BY <1>4, <1>5

\* The invariant in the form the steps use.
LEMMA SlotFacts ==
    ASSUME SlotsKept
    PROVE  /\ slotAt \in [SlotCalls -> Places]
           /\ lock \in [Replicas -> [active : Nat, queue : Seq(SlotCalls)]]
           /\ semaphore \in [Semaphores -> SlotStores]
           /\ grant \in [SlotCalls -> Semaphores \cup {"none"}]
           /\ overrun \subseteq SlotCalls /\ \A e \in overrun : slotAt[e] = "running"
           /\ installed \subseteq Replicas
           /\ slotFaults \in Nat /\ slotFaults <= MaxSlotFaults
           /\ ReplicaOf \in [SlotCalls -> Replicas] /\ MaxSlots \in Nat \ {0} /\ MaxSlotFaults \in Nat
           /\ Replicas \subseteq Semaphores /\ "redis" \in Semaphores /\ "redis" \notin Replicas
           /\ \A s \in Semaphores : semaphore[s] \in SlotStores /\ StoreStands(semaphore[s])
           /\ \A e \in SlotCalls : GrantStands(e)
  BY MxConstants DEF SlotsKept, SlotsTyped, At, Semaphores

\* A call takes a place of the lock or joins its queue.
LEMMA WithMxLockKept ==
    ASSUME SlotsKept, NEW d \in SlotCalls, WithMxLock(d)
    PROVE  SlotsKept'
  <1> DEFINE r == ReplicaOf[d]
             q == lock[r].queue
             Locks == [active : Nat, queue : Seq(SlotCalls)]
  <1>0. /\ r \in Replicas /\ lock \in [Replicas -> Locks] /\ lock[r] \in Locks
        /\ q \in Seq(SlotCalls) /\ lock[r].active \in Nat /\ MaxSlots \in Nat
        /\ QueueStands(r) /\ LockStands(r) /\ slotAt[d] = "new"
        /\ UNCHANGED <<semaphore, grant, overrun, installed, slotFaults>>
    BY SlotFacts DEF SlotsKept, WithMxLock
  <1>1. PastLock(r) \in {"polling", "running"} /\ (r \in installed => PastLock(r) = "polling")
    BY DEF PastLock
  <1>2. d \notin Occupants(r) /\ IsFiniteSet(Occupants(r)) /\ ~Listed(q, d)
    BY <1>0 DEF Occupants, At, LockStands, QueueStands, Listed
  <1>3. /\ slotAt' \in [SlotCalls -> Places] /\ slotAt'[d] \in {"polling", "running", "queued"}
        /\ \A e \in SlotCalls : e # d => slotAt'[e] = slotAt[e]
        /\ r \in installed => slotAt'[d] # "running"
        /\ \A s \in Replicas : s # r => lock'[s] = lock[s]
    BY <1>0, <1>1, SlotFacts DEF WithMxLock, Places
  <1>4. lock'[r] \in Locks /\ QueueStands(r)' /\ LockStands(r)'
    <2>1. CASE lock[r].active < MaxSlots
      <3>1. lock'[r] = [active |-> lock[r].active + 1, queue |-> q] /\ slotAt'[d] = PastLock(r)
        BY <1>0, <2>1, SlotFacts DEF WithMxLock
      <3>2. Occupants(r)' = Occupants(r) \cup {d}
        BY <1>1, <1>3, <3>1 DEF Occupants, At
      <3>3. /\ IsFiniteSet(Occupants(r)')
            /\ Cardinality(Occupants(r)') = Cardinality(Occupants(r)) + 1
        BY <1>2, <3>2, FS_AddElement
      <3>4. q = <<>>
        BY <1>0, <2>1 DEF LockStands
      <3>5. LockStands(r)'
        BY <1>0, <2>1, <3>1, <3>3, <3>4 DEF LockStands
      <3>6. QueueStands(r)'
        BY <3>1, <3>4 DEF QueueStands, NoRepeats
      <3> QED BY <1>0, <3>1, <3>5, <3>6
    <2>2. CASE ~(lock[r].active < MaxSlots)
      <3>1. lock'[r] = [active |-> lock[r].active, queue |-> Append(q, d)] /\ slotAt'[d] = "queued"
        BY <1>0, <2>2, SlotFacts DEF WithMxLock
      <3>2. Occupants(r)' = Occupants(r)
        BY <1>0, <1>3, <3>1 DEF Occupants, At
      <3>3. /\ Append(q, d) \in Seq(SlotCalls) /\ NoRepeats(Append(q, d))
            /\ \A i \in 1..Len(Append(q, d)) : Append(q, d)[i] = d \/
                  \E j \in 1..Len(q) : Append(q, d)[i] = q[j]
        BY <1>0, <1>2, AppendOnce DEF QueueStands
      <3>4. LockStands(r)'
        BY <1>0, <2>2, <3>1, <3>2 DEF LockStands
      <3>5. ASSUME NEW j \in 1..Len(q) PROVE slotAt'[q[j]] = "queued" /\ ReplicaOf[q[j]] = r
        <4>1. q[j] \in SlotCalls
          BY <1>0
        <4>2. slotAt[q[j]] = "queued" /\ ReplicaOf[q[j]] = r
          BY <1>0 DEF QueueStands
        <4> QED BY <1>0, <1>3, <4>1, <4>2
      <3>6. QueueStands(r)'
        <4> DEFINE a == Append(q, d)
        <4>1. lock'[r].queue = a /\ NoRepeats(a) /\ ReplicaOf[d] = r
          BY <3>1, <3>3
        <4>2. \A i \in 1..Len(a) : slotAt'[a[i]] = "queued" /\ ReplicaOf[a[i]] = r
          <5> HIDE DEF q
          <5>1. \A i \in 1..Len(a) : a[i] = d \/ \E j \in 1..Len(q) : a[i] = q[j]
            BY <3>3
          <5> HIDE DEF a
          <5> QED BY <3>1, <3>5, <4>1, <5>1
        <4> HIDE DEF a
        <4> QED BY <4>1, <4>2 DEF QueueStands
      <3> QED BY <1>0, <3>1, <3>3, <3>4, <3>6
    <2> QED BY <2>1, <2>2
  <1>5. ASSUME NEW s \in Replicas, s # r PROVE QueueStands(s)' /\ LockStands(s)'
    <2>1. QueueStands(s) /\ LockStands(s) /\ lock'[s] = lock[s] /\ lock[s].queue \in Seq(SlotCalls)
      BY <1>0, <1>3, <1>5 DEF SlotsKept
    <2>2. \A e \in SlotCalls : ReplicaOf[e] = s => slotAt'[e] = slotAt[e]
      BY <1>3, <1>5
    <2>3. Occupants(s)' = Occupants(s)
      BY <2>2 DEF Occupants, At
    <2>4. QueueStands(s)'
      BY <2>1, <2>2 DEF QueueStands
    <2> QED BY <2>1, <2>3, <2>4 DEF LockStands
  <1>6. lock' \in [Replicas -> Locks]
    BY <1>0, <1>3, <1>4 DEF WithMxLock
  <1>7. ASSUME NEW e \in SlotCalls PROVE GrantStands(e)'
    <2>1. GrantStands(e)
      BY SlotFacts
    <2>2. e = d /\ slotFaults = 0 /\ installed # {} => slotAt'[e] # "running"
      BY <1>0, <1>3 DEF SlotsKept
    <2> QED BY <1>0, <1>3, <2>1, <2>2 DEF GrantStands
  <1>8. SlotsTyped'
    BY <1>0, <1>3, <1>6, SlotFacts DEF SlotsTyped, SlotsKept, At
  <1> QED BY <1>0, <1>4, <1>5, <1>7, <1>8, SlotFacts DEF SlotsKept

\* A poll: by Redis's answer, or by this replica's memory.
LEMMA PollKept ==
    ASSUME SlotsKept, NEW d \in SlotCalls, Poll(d) \/ PollUnanswered(d)
    PROVE  SlotsKept'
  <1> DEFINE r == ReplicaOf[d]
  <1>0. /\ r \in Replicas /\ slotAt[d] = "polling" /\ UNCHANGED <<lock, overrun, installed>>
        /\ slotFaults' = slotFaults \/ (slotFaults < MaxSlotFaults /\ slotFaults' = slotFaults + 1)
    BY SlotFacts DEF Poll, PollUnanswered
  <1>1. grant[d] = "none" /\ d \notin overrun
    BY <1>0, SlotFacts DEF GrantStands
  <1>2. PICK s \in Semaphores :
          /\ Polled(s, d)
          /\ semaphore'[s] = Acquire(semaphore[s], d)
          /\ \A u \in Semaphores : u # s =>
                semaphore'[u] \in {semaphore[u], Acquire(semaphore[u], d), Release(semaphore[u], d)}
          /\ slotFaults' = 0 /\ installed # {} => s = "redis"
          /\ semaphore' \in [Semaphores -> {semaphore'[u] : u \in Semaphores}]
    <2>1. CASE Poll(d)
      <3> DEFINE s == IF r \in installed THEN "redis" ELSE r
      <3>1. /\ s \in Semaphores /\ Polled(s, d) /\ slotFaults' = slotFaults
            /\ semaphore' = [semaphore EXCEPT ![s] = Acquire(semaphore[s], d)]
        BY <1>0, <2>1, SlotFacts DEF Poll
      <3>2. slotFaults' = 0 /\ installed # {} => s = "redis"
        BY <1>0, <3>1 DEF SlotsKept
      <3> HIDE DEF s
      <3> QED BY <3>1, <3>2, SlotFacts
    <2>2. CASE PollUnanswered(d)
      <3>1. slotFaults' = slotFaults + 1 /\ Polled(r, d) /\ r \in Semaphores /\ r # "redis"
        BY <1>0, <2>2, SlotFacts DEF PollUnanswered
      <3>2. PICK t \in {semaphore["redis"], Acquire(semaphore["redis"], d),
                        Release(semaphore["redis"], d)} :
               semaphore' = [semaphore EXCEPT !["redis"] = t, ![r] = Acquire(@, d)]
        BY <2>2 DEF PollUnanswered
      <3>3. /\ semaphore'[r] = Acquire(semaphore[r], d) /\ semaphore'["redis"] = t
            /\ \A u \in Semaphores : u # r /\ u # "redis" => semaphore'[u] = semaphore[u]
            /\ semaphore' \in [Semaphores -> {semaphore'[u] : u \in Semaphores}]
        BY <3>1, <3>2, SlotFacts
      <3>4. slotFaults' # 0
        BY <3>1, SlotFacts
      <3> QED BY <3>1, <3>3, <3>4
    <2> QED BY <2>1, <2>2
  <1>3. ASSUME NEW u \in Semaphores
        PROVE  /\ semaphore'[u] \in SlotStores /\ StoreStands(semaphore'[u])
               /\ \A e \in SlotCalls : e # d /\ e \in semaphore[u].holders => e \in semaphore'[u].holders
               /\ u = s /\ Granted(semaphore[s], d) => d \in semaphore'[u].holders
    <2>1. semaphore[u] \in SlotStores /\ StoreStands(semaphore[u])
      BY SlotFacts
    <2>2. CASE u = s
      BY <1>2, <2>1, <2>2, StoreMoves
    <2>3. CASE u # s /\ semaphore'[u] = semaphore[u]
      BY <2>1, <2>3
    <2>4. CASE u # s /\ semaphore'[u] # semaphore[u]
      <3>1. semaphore'[u] \in {Acquire(semaphore[u], d), Release(semaphore[u], d)}
        BY <1>2, <2>4
      <3> QED BY <2>1, <2>4, <3>1, StoreMoves
    <2> QED BY <2>2, <2>3, <2>4
  <1>4. semaphore' \in [Semaphores -> SlotStores]
    BY <1>2, <1>3
  <1>5. /\ slotAt' \in [SlotCalls -> Places] /\ grant' \in [SlotCalls -> Semaphores \cup {"none"}]
        /\ \A e \in SlotCalls : e # d => slotAt'[e] = slotAt[e] /\ grant'[e] = grant[e]
        /\ \/ Granted(semaphore[s], d) /\ slotAt'[d] = "running" /\ grant'[d] = s
           \/ slotAt'[d] = "polling" /\ grant'[d] = "none"
    BY <1>0, <1>1, <1>2, SlotFacts DEF Polled, Places
  <1>6. \A u \in Replicas : QueueStands(u)' /\ LockStands(u)'
    <2>1. \A e \in SlotCalls :
              /\ slotAt'[e] \in {"polling", "running"} <=> slotAt[e] \in {"polling", "running"}
              /\ slotAt[e] = "queued" => slotAt'[e] = "queued"
      BY <1>0, <1>5
    <2> QED BY <1>0, <1>5, <2>1, LocksUntouched
  <1>7. ASSUME NEW e \in SlotCalls PROVE GrantStands(e)'
    <2>1. GrantStands(e) /\ slotFaults \in Nat /\ (slotFaults' = 0 => slotFaults = 0)
      BY <1>0, SlotFacts
    <2>2. CASE e # d
      BY <1>0, <1>3, <1>5, <2>1, <2>2, SlotFacts DEF GrantStands
    <2>3. CASE e = d
      BY <1>0, <1>1, <1>2, <1>3, <1>5, <2>3, SlotFacts DEF GrantStands
    <2> QED BY <2>2, <2>3
  <1>8. SlotsTyped'
    <2>1. overrun' \subseteq At("running")'
      BY <1>0, <1>1, <1>5, SlotFacts DEF At
    <2>2. slotFaults' \in 0..MaxSlotFaults
      BY <1>0, SlotFacts
    <2> QED BY <1>0, <1>4, <1>5, <2>1, <2>2, SlotFacts DEF SlotsTyped
  <1>9. slotFaults' = 0 => installed' \in {{}, Replicas}
    BY <1>0, SlotFacts DEF SlotsKept
  <1> QED BY <1>3, <1>6, <1>7, <1>8, <1>9 DEF SlotsKept

\* A session ends: its slot is released where it can be, then the lock.
LEMMA FinishKept ==
    ASSUME SlotsKept, NEW d \in SlotCalls, Finish(d) \/ FinishUnreleased(d)
    PROVE  SlotsKept'
  <1>0. /\ slotAt[d] = "running" /\ Unlock(d) /\ grant' = [grant EXCEPT ![d] = "none"]
        /\ overrun' = overrun \ {d} /\ installed' = installed
        /\ slotFaults' = slotFaults \/ (slotFaults < MaxSlotFaults /\ slotFaults' = slotFaults + 1)
    BY DEF Finish, FinishUnreleased
  <1>1. /\ slotAt' \in [SlotCalls -> Places]
        /\ lock' \in [Replicas -> [active : Nat, queue : Seq(SlotCalls)]]
        /\ slotAt'[d] = "done"
        /\ \A e \in SlotCalls : e # d =>
              \/ slotAt'[e] = slotAt[e]
              \/ slotAt[e] = "queued" /\ slotAt'[e] = PastLock(ReplicaOf[e])
        /\ \A r \in Replicas : QueueStands(r)' /\ LockStands(r)'
    BY <1>0, UnlockStands
  <1>2. /\ semaphore' \in [Semaphores -> {semaphore'[u] : u \in Semaphores}]
        /\ \A u \in Semaphores : semaphore'[u] \in {semaphore[u], Release(semaphore[u], d)}
    BY SlotFacts DEF Finish, FinishUnreleased
  <1>3. ASSUME NEW u \in Semaphores
        PROVE  /\ semaphore'[u] \in SlotStores /\ StoreStands(semaphore'[u])
               /\ \A e \in SlotCalls : e # d /\ e \in semaphore[u].holders => e \in semaphore'[u].holders
    <2>1. semaphore[u] \in SlotStores /\ StoreStands(semaphore[u])
      BY SlotFacts
    <2>2. CASE semaphore'[u] = semaphore[u]
      BY <2>1, <2>2
    <2>3. CASE semaphore'[u] = Release(semaphore[u], d)
      BY <2>1, <2>3, StoreMoves
    <2> QED BY <1>2, <2>2, <2>3
  <1>4. semaphore' \in [Semaphores -> SlotStores]
    BY <1>2, <1>3
  <1>5. ASSUME NEW e \in SlotCalls PROVE GrantStands(e)'
    <2>1. /\ GrantStands(e) /\ (slotFaults' = 0 => slotFaults = 0)
          /\ grant'[e] = IF e = d THEN "none" ELSE grant[e]
          /\ "redis" \in Semaphores
      BY <1>0, SlotFacts
    <2>2. CASE e = d
      BY <1>1, <2>1, <2>2 DEF GrantStands
    <2>3. CASE e # d /\ slotAt'[e] = slotAt[e]
      BY <1>0, <1>3, <2>1, <2>3 DEF GrantStands
    <2>4. CASE e # d /\ slotAt[e] = "queued" /\ slotAt'[e] = PastLock(ReplicaOf[e])
      <3>1. slotFaults' = 0 /\ installed' # {} => slotAt'[e] = "polling"
        BY <1>0, <2>1, <2>4, SlotFacts DEF SlotsKept, PastLock
      <3> QED BY <2>1, <2>4, <3>1 DEF GrantStands
    <2> QED BY <1>1, <2>2, <2>3, <2>4
  <1>6. SlotsTyped'
    <2>1. overrun' \subseteq At("running")'
      BY <1>0, <1>1, SlotFacts DEF At
    <2>2. slotFaults' \in 0..MaxSlotFaults /\ grant' \in [SlotCalls -> Semaphores \cup {"none"}]
      BY <1>0, SlotFacts
    <2> QED BY <1>0, <1>1, <1>4, <2>1, <2>2, SlotFacts DEF SlotsTyped
  <1>7. slotFaults' = 0 => installed' \in {{}, Replicas}
    BY <1>0, SlotFacts DEF SlotsKept
  <1> QED BY <1>1, <1>3, <1>5, <1>6, <1>7 DEF SlotsKept

\* Leases and places in line run out, or Redis forgets one.
LEMMA LapseKept ==
    ASSUME SlotsKept, NEW d \in SlotCalls, NEW s \in Semaphores,
           LeaseEnds(s, d) \/ WaitEnds(s, d) \/ (s = "redis" /\ LeaseLost(d))
    PROVE  SlotsKept'
  <1>0. /\ UNCHANGED <<slotAt, lock, grant, installed>>
        /\ slotFaults' = slotFaults \/ (slotFaults < MaxSlotFaults /\ slotFaults' = slotFaults + 1)
    BY DEF LeaseEnds, WaitEnds, LeaseLost
  <1>1. PICK t \in {[semaphore[s] EXCEPT !.holders = @ \ {d}],
                    [semaphore[s] EXCEPT !.line = Without(@, d)]} :
           semaphore' = [semaphore EXCEPT ![s] = t]
    <2>1. CASE LeaseEnds(s, d) \/ (s = "redis" /\ LeaseLost(d))
      BY <2>1 DEF LeaseEnds, LeaseLost
    <2>2. CASE WaitEnds(s, d)
      BY <2>2 DEF WaitEnds
    <2> QED BY <2>1, <2>2
  <1>2. ASSUME NEW u \in Semaphores
        PROVE  /\ semaphore'[u] \in SlotStores /\ StoreStands(semaphore'[u])
               /\ \A e \in SlotCalls : e # d /\ e \in semaphore[u].holders => e \in semaphore'[u].holders
    <2>1. semaphore[u] \in SlotStores /\ StoreStands(semaphore[u]) /\ semaphore \in [Semaphores -> SlotStores]
      BY SlotFacts
    <2>2. CASE u # s
      BY <1>1, <2>1, <2>2
    <2>3. CASE u = s
      <3>1. semaphore'[u] = t
        BY <1>1, <2>1, <2>3
      <3>2. t \in {Acquire(semaphore[u], d), Release(semaphore[u], d),
                   [semaphore[u] EXCEPT !.holders = @ \ {d}], [semaphore[u] EXCEPT !.line = Without(@, d)]}
        BY <1>1, <2>3
      <3>3. /\ t \in SlotStores /\ StoreStands(t)
            /\ \A e \in SlotCalls : e # d /\ e \in semaphore[u].holders => e \in t.holders
        BY <2>1, <3>2, StoreMoves
      <3> QED BY <3>1, <3>3
    <2> QED BY <2>2, <2>3
  <1>3. semaphore' \in [Semaphores -> SlotStores]
    BY <1>1, <1>2, SlotFacts
  <1>4. \A r \in Replicas : QueueStands(r)' /\ LockStands(r)'
    BY <1>0, SlotFacts, LocksUntouched
  <1>5. /\ overrun' \subseteq overrun \cup {d} /\ overrun \subseteq overrun'
        /\ d \in overrun' \ overrun => slotAt[d] = "running"
    BY DEF LeaseEnds, WaitEnds, LeaseLost, Renewed
  <1>6. ASSUME NEW e \in SlotCalls PROVE GrantStands(e)'
    <2>1. GrantStands(e) /\ (slotFaults' = 0 => slotFaults = 0) /\ "redis" \in Semaphores
      BY <1>0, SlotFacts
    <2>2. CASE e # d
      BY <1>0, <1>2, <1>5, <2>1, <2>2 DEF GrantStands
    <2>3. CASE e = d
      <3>1. CASE LeaseEnds(s, d)
        <4>1. grant[d] = s /\ slotAt[d] = "running" => d \in overrun'
          BY <3>1 DEF LeaseEnds
        <4>2. s # "redis" /\ d \in semaphore["redis"].holders => d \in semaphore'["redis"].holders
          BY <1>1, SlotFacts
        <4>3. slotFaults' = 0 /\ installed' # {} /\ slotAt[d] = "running" => d \notin overrun'
          <5> SUFFICES ASSUME slotFaults' = 0, installed' # {}, slotAt[d] = "running"
                       PROVE  d \notin overrun'
            OBVIOUS
          <5>1. installed = Replicas /\ grant[d] = "redis" /\ d \notin overrun
            BY <1>0, <2>1, <2>3 DEF SlotsKept, GrantStands
          <5>2. StoreOf(d) = "redis"
            BY <5>1, SlotFacts DEF StoreOf
          <5>3. s # "redis"
            BY <3>1, <5>2 DEF LeaseEnds, Renewed
          <5> QED BY <3>1, <5>1, <5>3 DEF LeaseEnds
        <4> QED BY <1>0, <1>5, <2>1, <2>3, <4>1, <4>2, <4>3 DEF GrantStands
      <3>2. CASE WaitEnds(s, d)
        <4>1. semaphore'["redis"].holders = semaphore["redis"].holders /\ overrun' = overrun
          <5>1. semaphore' = [semaphore EXCEPT ![s] = [semaphore[s] EXCEPT !.line = Without(@, d)]]
            BY <3>2 DEF WaitEnds
          <5>2. [semaphore[s] EXCEPT !.line = Without(@, d)].holders = semaphore[s].holders
            BY SlotFacts DEF SlotStores
          <5> QED BY <3>2, <5>1, <5>2, SlotFacts DEF WaitEnds
        <4> QED BY <1>0, <2>1, <2>3, <4>1 DEF GrantStands
      <3>3. CASE LeaseLost(d)
        <4>1. d \in overrun' /\ slotFaults' # 0
          BY <3>3, SlotFacts DEF LeaseLost
        <4> QED BY <1>0, <2>1, <2>3, <4>1 DEF GrantStands
      <3> QED BY <3>1, <3>2, <3>3
    <2> QED BY <2>2, <2>3
  <1>7. SlotsTyped'
    <2>1. overrun' \subseteq At("running")'
      BY <1>0, <1>5, SlotFacts DEF At
    <2>2. slotFaults' \in 0..MaxSlotFaults
      BY <1>0, SlotFacts
    <2> QED BY <1>0, <1>3, <2>1, <2>2, SlotFacts DEF SlotsTyped
  <1>8. slotFaults' = 0 => installed' \in {{}, Replicas}
    BY <1>0, SlotFacts DEF SlotsKept
  <1> QED BY <1>2, <1>4, <1>6, <1>7, <1>8 DEF SlotsKept

\* A process dies with its lock and its memory, or loses its shared backend.
LEMMA ReplicaKept ==
    ASSUME SlotsKept, NEW r \in Replicas, CrashReplica(r) \/ CloseSharedStore(r)
    PROVE  SlotsKept'
  <1>1. CASE CrashReplica(r)
    <2> DEFINE Locks == [active : Nat, queue : Seq(SlotCalls)]
               Fresh == [active |-> 0, queue |-> <<>>]
    <2>1. /\ slotFaults' = slotFaults + 1 /\ slotFaults < MaxSlotFaults /\ installed' = installed
          /\ slotAt' = [d \in SlotCalls |-> IF ReplicaOf[d] = r /\ slotAt[d] # "done" THEN "gone"
                                            ELSE slotAt[d]]
          /\ lock' = [lock EXCEPT ![r] = Fresh]
          /\ semaphore' = [semaphore EXCEPT ![r] = Empty]
          /\ grant' = [d \in SlotCalls |-> IF ReplicaOf[d] = r THEN "none" ELSE grant[d]]
          /\ overrun' = {d \in overrun : ReplicaOf[d] # r}
      BY <1>1 DEF CrashReplica
    <2>2. slotFaults' # 0 /\ slotFaults' \in 0..MaxSlotFaults
      BY <2>1, SlotFacts
    <2>3. Empty \in SlotStores /\ StoreStands(Empty)
      <3>1. Empty \in SlotStores /\ NoRepeats(Empty.line) /\ Empty.holders = {}
        BY DEF Empty, SlotStores, NoRepeats
      <3>2. IsFiniteSet({}) /\ Cardinality({}) = 0
        BY FS_EmptySet
      <3> QED BY <3>1, <3>2, SlotFacts DEF StoreStands
    <2>4. ASSUME NEW u \in Semaphores
          PROVE  semaphore'[u] \in SlotStores /\ StoreStands(semaphore'[u])
      BY <2>1, <2>3, SlotFacts
    <2>5. /\ semaphore'["redis"] = semaphore["redis"] /\ semaphore' \in [Semaphores -> SlotStores]
      BY <2>1, <2>3, SlotFacts
    <2>6. slotAt' \in [SlotCalls -> Places] /\ Fresh \in Locks /\ lock' \in [Replicas -> Locks]
      <3>1. Fresh \in Locks
        OBVIOUS
      <3> QED BY <2>1, <3>1, SlotFacts DEF Places
    <2>7. QueueStands(r)' /\ LockStands(r)'
      <3>1. lock'[r] = Fresh
        BY <2>1, SlotFacts
      <3>2. lock'[r].active = 0 /\ lock'[r].queue = <<>>
        BY <3>1
      <3>3. Occupants(r)' = {}
        BY <2>1 DEF Occupants, At
      <3>4. IsFiniteSet({}) /\ Cardinality({}) = 0
        BY FS_EmptySet
      <3> QED BY <3>2, <3>3, <3>4, SlotFacts DEF QueueStands, LockStands, NoRepeats
    <2>8. ASSUME NEW u \in Replicas, u # r PROVE QueueStands(u)' /\ LockStands(u)'
      <3>1. QueueStands(u) /\ LockStands(u) /\ lock'[u] = lock[u] /\ lock[u].queue \in Seq(SlotCalls)
        BY <2>1, <2>8, SlotFacts DEF SlotsKept
      <3>2. \A e \in SlotCalls : ReplicaOf[e] = u => slotAt'[e] = slotAt[e]
        BY <2>1, <2>8
      <3>3. Occupants(u)' = Occupants(u)
        BY <3>2 DEF Occupants, At
      <3>4. QueueStands(u)'
        BY <3>1, <3>2 DEF QueueStands
      <3> QED BY <3>1, <3>3, <3>4 DEF LockStands
    <2>9. ASSUME NEW e \in SlotCalls PROVE GrantStands(e)'
      <3>1. GrantStands(e)
        BY SlotFacts
      <3> QED BY <2>1, <2>2, <2>5, <3>1 DEF GrantStands
    <2>10. SlotsTyped'
      <3>1. overrun' \subseteq At("running")' /\ grant' \in [SlotCalls -> Semaphores \cup {"none"}]
        BY <2>1, SlotFacts DEF At
      <3> QED BY <2>1, <2>2, <2>5, <2>6, <3>1, SlotFacts DEF SlotsTyped
    <2> QED BY <2>2, <2>4, <2>7, <2>8, <2>9, <2>10 DEF SlotsKept
  <1>2. CASE CloseSharedStore(r)
    <2>1. /\ slotFaults' = slotFaults + 1 /\ slotFaults < MaxSlotFaults
          /\ installed' = installed \ {r} /\ UNCHANGED <<slotAt, lock, semaphore, grant, overrun>>
      BY <1>2 DEF CloseSharedStore
    <2>2. slotFaults' # 0 /\ slotFaults' \in 0..MaxSlotFaults
      BY <2>1, SlotFacts
    <2>3. \A u \in Replicas : QueueStands(u)' /\ LockStands(u)'
      BY <2>1, SlotFacts, LocksUntouched
    <2>4. \A e \in SlotCalls : GrantStands(e)'
      BY <2>1, <2>2, SlotFacts DEF GrantStands
    <2>5. SlotsTyped'
      BY <2>1, <2>2, SlotFacts DEF SlotsTyped, SlotsKept, At
    <2> QED BY <2>1, <2>2, <2>3, <2>4, <2>5, SlotFacts DEF SlotsKept
  <1> QED BY <1>1, <1>2

\* The lock of every replica counts the sessions past it, up to the limit and
\* with no room left while somebody waits, and sessions on a live shared slot
\* never exceed the limit: for any number of replicas, calls, crashes,
\* shutdowns, lost leases and commands without an answer (withMxLock,
\* waitForSlot, the slot scripts).
THEOREM SlotsStayCounted == SlotSpec => []SlotsAreCounted
  <1>1. SlotInit => SlotsKept
    <2> SUFFICES ASSUME SlotInit PROVE SlotsKept
      OBVIOUS
    <2>0. IsFiniteSet({}) /\ Cardinality({}) = 0 /\ MaxSlots \in Nat /\ MaxSlotFaults \in Nat
      BY FS_EmptySet, MxConstants
    <2>1. SlotsTyped
      BY <2>0 DEF SlotInit, SlotsTyped, Places, Empty, SlotStores, At
    <2>2. ASSUME NEW r \in Replicas PROVE QueueStands(r) /\ LockStands(r)
      <3>1. lock[r].active = 0 /\ lock[r].queue = <<>>
        BY DEF SlotInit
      <3>2. Occupants(r) = {}
        BY DEF SlotInit, Occupants, At
      <3> QED BY <2>0, <3>1, <3>2 DEF QueueStands, LockStands, NoRepeats
    <2>3. \A s \in Semaphores : StoreStands(semaphore[s])
      <3>1. Empty.holders = {} /\ NoRepeats(Empty.line)
        BY DEF Empty, NoRepeats
      <3>2. \A s \in Semaphores : semaphore[s] = Empty
        BY DEF SlotInit
      <3> QED BY <2>0, <3>1, <3>2 DEF StoreStands
    <2>4. \A d \in SlotCalls : GrantStands(d)
      BY DEF SlotInit, GrantStands
    <2> QED BY <2>1, <2>2, <2>3, <2>4 DEF SlotsKept, SlotInit
  <1>2. SlotsKept /\ [SlotNext]_slotVars => SlotsKept'
    <2> SUFFICES ASSUME SlotsKept, [SlotNext]_slotVars PROVE SlotsKept'
      OBVIOUS
    <2>1. ASSUME NEW d \in SlotCalls, DeliveryStep(d) PROVE SlotsKept'
      <3>1. CASE WithMxLock(d)
        BY <3>1, WithMxLockKept
      <3>2. CASE Poll(d) \/ PollUnanswered(d)
        BY <3>2, PollKept
      <3>3. CASE Finish(d) \/ FinishUnreleased(d)
        BY <3>3, FinishKept
      <3>4. CASE LeaseLost(d)
        <4>1. "redis" \in Semaphores
          BY DEF Semaphores
        <4> QED BY <3>4, <4>1, LapseKept
      <3>5. ASSUME NEW s \in Semaphores, LeaseEnds(s, d) \/ WaitEnds(s, d) PROVE SlotsKept'
        BY <3>5, LapseKept
      <3> QED BY <2>1, <3>1, <3>2, <3>3, <3>4, <3>5 DEF DeliveryStep
    <2>2. CASE UNCHANGED slotVars
      <3>0. UNCHANGED <<slotAt, lock, semaphore, grant, overrun, installed, slotFaults>>
        BY <2>2 DEF slotVars
      <3>1. \A r \in Replicas : QueueStands(r)' /\ LockStands(r)'
        BY <3>0, SlotFacts, LocksUntouched
      <3>2. \A d \in SlotCalls : GrantStands(d)'
        BY <3>0, SlotFacts DEF GrantStands
      <3>3. SlotsTyped'
        BY <3>0 DEF SlotsKept, SlotsTyped, At
      <3> QED BY <3>0, <3>1, <3>2, <3>3 DEF SlotsKept
    <2> QED BY <2>1, <2>2, ReplicaKept DEF SlotNext
  <1>3. SlotsKept => SlotsAreCounted
    <2> SUFFICES ASSUME SlotsKept PROVE SlotsAreCounted
      OBVIOUS
    <2>1. SlotTypeOK
      <3>1. \A r \in Replicas : lock[r].active \in Nat /\ lock[r].queue \in Seq(SlotCalls)
        BY DEF SlotsKept, SlotsTyped
      <3>2. \A s \in Semaphores :
               /\ semaphore[s].holders \subseteq SlotCalls /\ semaphore[s].line \in Seq(SlotCalls)
               /\ NoRepeats(semaphore[s].line)
        BY DEF SlotsKept, SlotsTyped, SlotStores, StoreStands
      <3> QED BY <3>1, <3>2 DEF SlotTypeOK, SlotsKept, SlotsTyped, QueueStands
    <2>2. LockCountsSessions
      BY DEF SlotsKept, LockStands, LockCountsSessions
    <2>3. SharedLimit
      <3> DEFINE shared == {d \in At("running") : grant[d] = "redis"} \ overrun
                 held == semaphore["redis"].holders
      <3>1. shared \subseteq held
        BY SlotFacts DEF GrantStands, At
      <3>2. IsFiniteSet(held) /\ Cardinality(held) <= MaxSlots /\ MaxSlots \in Nat
        BY SlotFacts DEF StoreStands
      <3>3. Cardinality(shared) <= MaxSlots
        <4> HIDE DEF shared, held
        <4>1. Cardinality(shared) <= Cardinality(held) /\ IsFiniteSet(shared)
          BY <3>1, <3>2, FS_Subset
        <4>2. Cardinality(shared) \in Nat /\ Cardinality(held) \in Nat
          BY <3>2, <4>1, FS_CardinalityType
        <4> QED BY <3>2, <4>1, <4>2
      <3>4. slotFaults = 0 /\ installed # {} => At("running") = shared
        BY SlotFacts DEF GrantStands, At
      <3> QED BY <3>3, <3>4 DEF SharedLimit
    <2> QED BY <2>1, <2>2, <2>3 DEF SlotsAreCounted
  <1> QED BY <1>1, <1>2, <1>3, PTL DEF SlotSpec

(***************************************************************************)
(* Idempotency keys.                                                       *)
(***************************************************************************)

\* One transaction holds the key, and an open one began not long ago.
OneClaims ==
    /\ \A q, r \in KeyedRequests : keyed[q].pc = "claimed" /\ keyed[r].pc = "claimed" => q = r
    /\ \A r \in KeyedRequests : keyed[r].pc \in InTransaction =>
          keyed[r].start <= clock /\ clock < keyed[r].start + MaxOpen

\* An email whose key still lives is the one the row tells of, and nobody who
\* holds the key finds one.
LiveIsRecorded ==
    /\ \A f \in emails : \/ f.start + Ttl <= clock
                         \/ RecordExists(rec) /\ rec.expires = f.start + Ttl
    /\ \A r \in KeyedRequests : keyed[r].pc = "claimed" =>
          \A f \in emails : f.start + Ttl <= clock

\* The row tells of a committed email and of its body.
RecordIsTrue ==
    RecordExists(rec) =>
        \E e \in emails : rec.by = {e.by} /\ rec.body = {keyed[e.by].body}

\* A row that a request in its second round can see outlives its transaction:
\* it was committed after that transaction began.
SecondRoundSettles ==
    \A r \in KeyedRequests :
        /\ keyed[r].pc \in {"new", "checked"} => keyed[r].round = 0
        /\ keyed[r].pc \in InTransaction /\ keyed[r].round = 1 /\ RecordExists(rec) =>
              rec.expires >= keyed[r].start + MaxOpen
        /\ keyed[r].pc = "lost" /\ keyed[r].round = 1 => RecordExists(rec)

\* The inductive invariant.
KeyKept ==
    /\ KeyedTypeOK /\ OneClaims /\ LiveIsRecorded /\ RecordIsTrue /\ SecondRoundSettles
    /\ OneEmailPerKey /\ AnswerIsCommitted /\ AlwaysClaimed

KeyedRecord == [pc : Pc, body : Bodies, start : Nat, round : 0..1, email : SUBSET KeyedRequests]

\* Nothing is stored at the start.
LEMMA KeyKeptAtFirst == KeyedInit => KeyKept
  <1> SUFFICES ASSUME KeyedInit PROVE KeyKept
    OBVIOUS
  <1>1. PICK body \in [KeyedRequests -> Bodies] :
          keyed = [r \in KeyedRequests |-> [pc |-> "new", body |-> body[r], start |-> 0,
                                            round |-> 0, email |-> {}]]
    BY DEF KeyedInit
  <1>2. /\ \A r \in KeyedRequests : keyed[r].pc = "new" /\ keyed[r].round = 0
        /\ emails = {} /\ ~RecordExists(rec)
    BY <1>1 DEF KeyedInit, RecordExists, NoRecord
  <1>3. KeyedTypeOK
    BY <1>1 DEF KeyedTypeOK, KeyedInit, NoRecord, Pc
  <1> QED BY <1>2, <1>3 DEF KeyKept, OneClaims, LiveIsRecorded, RecordIsTrue, SecondRoundSettles,
             OneEmailPerKey, AnswerIsCommitted, AlwaysClaimed, InTransaction

\* A step that only moves one request keeps the invariant, if the request may
\* be where it goes.
LEMMA MoveKept ==
    ASSUME KeyKept, NEW r \in KeyedRequests, NEW x \in KeyedRecord,
           keyed' = [keyed EXCEPT ![r] = x], UNCHANGED <<rec, emails, clock>>,
           x.body = keyed[r].body,
           x.pc = "claimed" => ~Locked /\ \A f \in emails : f.start + Ttl <= clock,
           x.pc \in InTransaction => x.start <= clock /\ clock < x.start + MaxOpen,
           x.pc \in {"new", "checked"} => x.round = 0,
           x.pc \in InTransaction /\ x.round = 1 /\ RecordExists(rec) =>
              rec.expires >= x.start + MaxOpen,
           x.pc = "lost" /\ x.round = 1 => RecordExists(rec),
           x.pc \in {"created", "replayed"} =>
              \E e \in emails : x.email = {e.by} /\ keyed[e.by].body = x.body,
           x.pc # "unclaimed"
    PROVE  KeyKept'
  <1>t. /\ keyed \in [KeyedRequests -> KeyedRecord]
        /\ emails \subseteq [by : KeyedRequests, start : Nat, at : Nat]
        /\ \A e \in emails : e.by \in KeyedRequests
    BY DEF KeyKept, KeyedTypeOK, KeyedRecord
  <1>1. /\ \A q \in KeyedRequests : keyed'[q] = IF q = r THEN x ELSE keyed[q]
        /\ \A q \in KeyedRequests : keyed'[q].body = keyed[q].body
        /\ rec' = rec /\ emails' = emails /\ clock' = clock
    BY <1>t
  <1>2. KeyedTypeOK'
    BY <1>t, <1>1 DEF KeyKept, KeyedTypeOK, KeyedRecord
  <1>3. OneClaims'
    BY <1>1 DEF KeyKept, OneClaims, Locked
  <1>4. LiveIsRecorded'
    BY <1>1 DEF KeyKept, LiveIsRecorded, RecordExists
  <1>5. RecordIsTrue'
    BY <1>t, <1>1 DEF KeyKept, RecordIsTrue, RecordExists
  <1>6. SecondRoundSettles'
    BY <1>1 DEF KeyKept, SecondRoundSettles, RecordExists
  <1>7. OneEmailPerKey'
    BY <1>1 DEF KeyKept, OneEmailPerKey
  <1>8. AnswerIsCommitted'
    BY <1>t, <1>1 DEF KeyKept, AnswerIsCommitted
  <1>9. AlwaysClaimed'
    BY <1>1 DEF KeyKept, AlwaysClaimed
  <1> QED BY <1>2, <1>3, <1>4, <1>5, <1>6, <1>7, <1>8, <1>9 DEF KeyKept

\* What replayIdempotentSend answers from a row is true.
LEMMA ReplayIsTrue ==
    ASSUME KeyKept, NEW r \in KeyedRequests, RecordExists(rec)
    PROVE  /\ Replay(r) \in KeyedRecord /\ Replay(r).body = keyed[r].body
           /\ Replay(r).pc \in {"replayed", "reused"}
           /\ Replay(r).pc = "replayed" =>
                \E e \in emails : Replay(r).email = {e.by} /\ keyed[e.by].body = keyed[r].body
  <1>1. keyed[r] \in KeyedRecord /\ rec.by \in SUBSET KeyedRequests
    BY DEF KeyKept, KeyedTypeOK, KeyedRecord
  <1>2. PICK e \in emails : rec.by = {e.by} /\ rec.body = {keyed[e.by].body}
    BY DEF KeyKept, RecordIsTrue
  <1>3. CASE rec.body = {keyed[r].body}
    <2>1. Replay(r) = [keyed[r] EXCEPT !.pc = "replayed", !.email = rec.by]
      BY <1>3 DEF Replay
    <2>2. Replay(r) \in KeyedRecord /\ Replay(r).body = keyed[r].body
          /\ Replay(r).pc = "replayed" /\ Replay(r).email = rec.by
      BY <1>1, <2>1 DEF KeyedRecord, Pc, Answers
    <2>3. keyed[e.by].body = keyed[r].body
      BY <1>2, <1>3
    <2> QED BY <1>2, <2>2, <2>3
  <1>4. CASE rec.body # {keyed[r].body}
    <2>1. Replay(r) = [keyed[r] EXCEPT !.pc = "reused"]
      BY <1>4 DEF Replay
    <2> QED BY <1>1, <2>1 DEF KeyedRecord, Pc, Answers
  <1> QED BY <1>3, <1>4

\* Every step of a request keeps the invariant.
LEMMA StepKept ==
    ASSUME KeyKept, NEW r \in KeyedRequests, KeyedStep(r)
    PROVE  KeyKept'
  <1>a. /\ Ttl \in Nat /\ MaxOpen \in Nat \ {0} /\ 2 * MaxOpen <= Ttl
    BY TtlAssumption
  <1>t. /\ keyed \in [KeyedRequests -> KeyedRecord] /\ clock \in Nat
        /\ emails \subseteq [by : KeyedRequests, start : Nat, at : Nat]
        /\ rec \in [by : SUBSET KeyedRequests, body : SUBSET Bodies, expires : Nat]
    BY DEF KeyKept, KeyedTypeOK, KeyedRecord
  <1>u. keyed[r] \in KeyedRecord /\ keyed[r].start \in Nat
    BY <1>t DEF KeyedRecord
  <1>pc. ASSUME NEW s \in Pc
         PROVE  /\ [keyed[r] EXCEPT !.pc = s] \in KeyedRecord
                /\ [keyed[r] EXCEPT !.pc = s].pc = s
                /\ [keyed[r] EXCEPT !.pc = s].body = keyed[r].body
                /\ [keyed[r] EXCEPT !.pc = s].start = keyed[r].start
                /\ [keyed[r] EXCEPT !.pc = s].round = keyed[r].round
    BY <1>u DEF KeyedRecord
  <1>s. {"new", "checked", "begun", "lost", "claimed", "invalid", "error"} \subseteq Pc
    BY DEF Pc, InTransaction, Answers
  <1>1. CASE FindLive(r)
    <2>1. CASE RecordExists(rec) /\ rec.expires > clock
      <3>1. keyed' = [keyed EXCEPT ![r] = Replay(r)] /\ UNCHANGED <<rec, emails, clock>>
        BY <1>1, <2>1 DEF FindLive
      <3> QED BY <2>1, <3>1, ReplayIsTrue, MoveKept DEF InTransaction
    <2>2. CASE ~(RecordExists(rec) /\ rec.expires > clock)
      <3> DEFINE x == [keyed[r] EXCEPT !.pc = "checked"]
      <3>1. keyed' = [keyed EXCEPT ![r] = x] /\ UNCHANGED <<rec, emails, clock>>
        BY <1>1, <2>2 DEF FindLive
      <3>2. x \in KeyedRecord /\ x.pc = "checked" /\ x.body = keyed[r].body /\ x.round = 0
        BY <1>1, <1>pc, <1>s DEF FindLive, KeyKept, SecondRoundSettles
      <3> HIDE DEF x
      <3> QED BY <3>1, <3>2, MoveKept DEF InTransaction
    <2> QED BY <2>1, <2>2
  <1>2. CASE PrepareRefused(r)
    <2> DEFINE x == [keyed[r] EXCEPT !.pc = "invalid"]
    <2>1. keyed' = [keyed EXCEPT ![r] = x] /\ UNCHANGED <<rec, emails, clock>>
      BY <1>2 DEF PrepareRefused
    <2>2. x \in KeyedRecord /\ x.pc = "invalid" /\ x.body = keyed[r].body
      BY <1>pc, <1>s
    <2> HIDE DEF x
    <2> QED BY <2>1, <2>2, MoveKept DEF InTransaction
  <1>3. CASE BeginKeyed(r)
    <2> DEFINE x == [keyed[r] EXCEPT !.pc = "begun", !.start = clock]
    <2>1. /\ keyed' = [keyed EXCEPT ![r] = x] /\ UNCHANGED <<rec, emails, clock>>
          /\ keyed[r].pc = "checked"
      BY <1>3, <1>t DEF BeginKeyed
    <2>2. /\ x \in KeyedRecord /\ x.pc = "begun" /\ x.body = keyed[r].body
          /\ x.start = clock /\ x.round = 0
      BY <1>t, <1>u, <1>s, <2>1 DEF KeyedRecord, KeyKept, SecondRoundSettles
    <2> HIDE DEF x
    <2>3. x.start <= clock /\ clock < x.start + MaxOpen
      BY <1>a, <1>t, <2>2
    <2>4. ~(x.round = 1) /\ x.pc \notin {"new", "checked", "lost", "claimed", "created", "replayed", "unclaimed"}
      BY <2>2
    <2> QED BY <2>1, <2>2, <2>3, <2>4, MoveKept
  <1>4. CASE ClaimIdempotencyKey(r)
    <2>0. keyed[r].pc = "begun" /\ ~Locked
      BY <1>4 DEF ClaimIdempotencyKey
    <2>o. keyed[r].start <= clock /\ clock < keyed[r].start + MaxOpen
      BY <2>0 DEF KeyKept, OneClaims, InTransaction
    <2>r. keyed[r].round = 1 /\ RecordExists(rec) => rec.expires >= keyed[r].start + MaxOpen
      BY <2>0 DEF KeyKept, SecondRoundSettles, InTransaction
    <2>1. CASE RecordExists(rec) /\ rec.expires > keyed[r].start
      <3> DEFINE x == [keyed[r] EXCEPT !.pc = "lost"]
      <3>1. keyed' = [keyed EXCEPT ![r] = x] /\ UNCHANGED <<rec, emails, clock>>
        BY <1>4, <2>1 DEF ClaimIdempotencyKey
      <3>2. /\ x \in KeyedRecord /\ x.pc = "lost" /\ x.body = keyed[r].body
            /\ x.start = keyed[r].start /\ x.round = keyed[r].round
        BY <1>pc, <1>s
      <3> HIDE DEF x
      <3> QED BY <2>1, <2>o, <2>r, <3>1, <3>2, MoveKept
    <2>2. CASE ~(RecordExists(rec) /\ rec.expires > keyed[r].start)
      <3> DEFINE x == [keyed[r] EXCEPT !.pc = "claimed"]
      <3>1. keyed' = [keyed EXCEPT ![r] = x] /\ UNCHANGED <<rec, emails, clock>>
        BY <1>4, <2>2 DEF ClaimIdempotencyKey
      <3>2. /\ x \in KeyedRecord /\ x.pc = "claimed" /\ x.body = keyed[r].body
            /\ x.start = keyed[r].start /\ x.round = keyed[r].round
        BY <1>pc, <1>s
      <3> HIDE DEF x
      <3>3. \A f \in emails : f.start + Ttl <= clock
        <4> SUFFICES ASSUME NEW f \in emails PROVE f.start + Ttl <= clock
          OBVIOUS
        <4>1. f.start + Ttl <= clock \/ (RecordExists(rec) /\ rec.expires = f.start + Ttl)
          BY DEF KeyKept, LiveIsRecorded
        <4>2. f.start \in Nat
          BY <1>t
        <4> QED BY <1>a, <1>t, <1>u, <2>2, <2>o, <4>1, <4>2
      <3> QED BY <2>0, <2>o, <2>r, <3>1, <3>2, <3>3, MoveKept
    <2> QED BY <2>1, <2>2
  <1>5. CASE ReadWinner(r)
    <2>0. keyed[r].pc = "lost"
      BY <1>5 DEF ReadWinner
    <2>o. keyed[r].start <= clock /\ clock < keyed[r].start + MaxOpen
      BY <2>0 DEF KeyKept, OneClaims, InTransaction
    <2>1. CASE RecordExists(rec)
      <3>1. keyed' = [keyed EXCEPT ![r] = Replay(r)] /\ UNCHANGED <<rec, emails, clock>>
        BY <1>5, <2>1 DEF ReadWinner
      <3> QED BY <2>1, <3>1, ReplayIsTrue, MoveKept DEF InTransaction
    <2>2. CASE ~RecordExists(rec)
      <3> DEFINE x == [keyed[r] EXCEPT !.pc = "begun", !.round = 1]
      <3>1. keyed[r].round = 0
        BY <1>u, <2>0, <2>2 DEF KeyKept, SecondRoundSettles, KeyedRecord
      <3>2. keyed' = [keyed EXCEPT ![r] = x] /\ UNCHANGED <<rec, emails, clock>>
        BY <1>5, <2>2, <3>1 DEF ReadWinner
      <3>3. /\ x \in KeyedRecord /\ x.pc = "begun" /\ x.body = keyed[r].body
            /\ x.start = keyed[r].start
        <4>1. "begun" \in Pc /\ 1 \in 0..1
          BY <1>s
        <4> QED BY <1>u, <4>1 DEF KeyedRecord
      <3> HIDE DEF x
      <3>4. x.start <= clock /\ clock < x.start + MaxOpen
        BY <2>o, <3>3
      <3> QED BY <2>2, <3>2, <3>3, <3>4, MoveKept
    <2> QED BY <2>1, <2>2
  <1>6. CASE CommitEmail(r)
    <2> DEFINE e == [by |-> r, start |-> keyed[r].start, at |-> clock]
               x == [keyed[r] EXCEPT !.pc = "created", !.email = {r}]
    <2>1. /\ keyed[r].pc = "claimed"
          /\ rec' = [by |-> {r}, body |-> {keyed[r].body}, expires |-> keyed[r].start + Ttl]
          /\ emails' = emails \cup {e}
          /\ keyed' = [keyed EXCEPT ![r] = x]
          /\ clock' = clock
      BY <1>6, <1>t DEF CommitEmail
    <2>2. /\ e \in [by : KeyedRequests, start : Nat, at : Nat]
          /\ e.by = r /\ e.start = keyed[r].start /\ e.at = clock
      BY <1>t, <1>u
    <2>3. /\ x \in KeyedRecord /\ x.pc = "created" /\ x.email = {r} /\ x.body = keyed[r].body
      BY <1>u DEF KeyedRecord, Pc, Answers
    <2> HIDE DEF e, x
    <2>4. /\ \A q \in KeyedRequests : keyed'[q] = IF q = r THEN x ELSE keyed[q]
          /\ \A q \in KeyedRequests : keyed'[q].body = keyed[q].body
          /\ RecordExists(rec)' /\ rec'.expires = keyed[r].start + Ttl
          /\ rec'.by = {r} /\ rec'.body = {keyed[r].body}
      BY <1>t, <2>1, <2>3 DEF RecordExists
    <2>5. \A f \in emails : f.start + Ttl <= clock
      BY <2>1 DEF KeyKept, LiveIsRecorded
    <2>6. keyed[r].start <= clock /\ clock < keyed[r].start + MaxOpen
      BY <2>1 DEF KeyKept, OneClaims, InTransaction
    <2>7. \A q \in KeyedRequests : q # r => keyed[q].pc # "claimed"
      BY <2>1 DEF KeyKept, OneClaims
    <2>8. KeyedTypeOK'
      <3>1. rec' \in [by : SUBSET KeyedRequests, body : SUBSET Bodies, expires : Nat]
        BY <1>a, <1>u, <2>1 DEF KeyedRecord
      <3>2. keyed' \in [KeyedRequests -> KeyedRecord]
        BY <1>t, <2>1, <2>3
      <3>3. emails' \subseteq [by : KeyedRequests, start : Nat, at : Nat]
        BY <1>t, <2>1, <2>2
      <3> QED BY <1>t, <2>1, <3>1, <3>2, <3>3 DEF KeyedTypeOK, KeyedRecord
    <2>9. OneClaims'
      BY <2>1, <2>3, <2>4, <2>7 DEF KeyKept, OneClaims, InTransaction
    <2>10. LiveIsRecorded'
      BY <2>1, <2>2, <2>3, <2>4, <2>5, <2>7 DEF LiveIsRecorded
    <2>11. RecordIsTrue'
      BY <2>1, <2>2, <2>4 DEF RecordIsTrue
    <2>12. SecondRoundSettles'
      <3> SUFFICES ASSUME NEW q \in KeyedRequests
                   PROVE  /\ keyed'[q].pc \in {"new", "checked"} => keyed'[q].round = 0
                          /\ keyed'[q].pc \in InTransaction =>
                                rec'.expires >= keyed'[q].start + MaxOpen
        BY <2>4 DEF SecondRoundSettles
      <3>1. CASE q = r
        BY <2>3, <2>4, <3>1 DEF InTransaction
      <3>2. CASE q # r
        <4>1. keyed'[q] = keyed[q] /\ keyed[q].start \in Nat
          BY <1>t, <2>4, <3>2 DEF KeyedRecord
        <4>2. keyed[q].pc \in InTransaction => keyed[q].start <= clock
          BY DEF KeyKept, OneClaims
        <4>3. keyed[q].pc \in {"new", "checked"} => keyed[q].round = 0
          BY DEF KeyKept, SecondRoundSettles
        <4> QED BY <1>a, <1>t, <1>u, <2>4, <2>6, <4>1, <4>2, <4>3
      <3> QED BY <3>1, <3>2
    <2>13. OneEmailPerKey'
      BY <2>1, <2>2, <2>5 DEF KeyKept, OneEmailPerKey
    <2>14. AnswerIsCommitted'
      <3> SUFFICES ASSUME NEW q \in KeyedRequests, keyed'[q].pc \in {"created", "replayed"}
                   PROVE  \E f \in emails' : keyed'[q].email = {f.by}
                                             /\ keyed'[f.by].body = keyed'[q].body
        BY DEF AnswerIsCommitted
      <3>1. CASE q = r
        BY <2>1, <2>2, <2>3, <2>4, <3>1
      <3>2. CASE q # r
        <4>1. keyed'[q] = keyed[q]
          BY <2>4, <3>2
        <4>2. PICK f \in emails : keyed[q].email = {f.by} /\ keyed[f.by].body = keyed[q].body
          BY <4>1 DEF KeyKept, AnswerIsCommitted
        <4>3. f.by \in KeyedRequests /\ f \in emails'
          BY <1>t, <2>1
        <4> QED BY <2>4, <4>1, <4>2, <4>3
      <3> QED BY <3>1, <3>2
    <2>15. AlwaysClaimed'
      BY <2>3, <2>4 DEF KeyKept, AlwaysClaimed
    <2> QED BY <2>8, <2>9, <2>10, <2>11, <2>12, <2>13, <2>14, <2>15 DEF KeyKept
  <1>7. CASE Rollback(r)
    <2> DEFINE x == [keyed[r] EXCEPT !.pc = "error"]
    <2>1. keyed' = [keyed EXCEPT ![r] = x] /\ UNCHANGED <<rec, emails, clock>>
      BY <1>7 DEF Rollback
    <2>2. x \in KeyedRecord /\ x.pc = "error" /\ x.body = keyed[r].body
      BY <1>pc, <1>s
    <2> HIDE DEF x
    <2> QED BY <2>1, <2>2, MoveKept DEF InTransaction
  <1> QED BY <1>1, <1>2, <1>3, <1>4, <1>5, <1>6, <1>7 DEF KeyedStep

\* So do the purge and the clock.
LEMMA NextKeyKept == KeyKept /\ [KeyedNext]_keyedVars => KeyKept'
  <1> SUFFICES ASSUME KeyKept, [KeyedNext]_keyedVars PROVE KeyKept'
    OBVIOUS
  <1>a. /\ Ttl \in Nat /\ MaxOpen \in Nat \ {0} /\ 2 * MaxOpen <= Ttl
    BY TtlAssumption
  <1>t. /\ keyed \in [KeyedRequests -> KeyedRecord] /\ clock \in Nat
        /\ emails \subseteq [by : KeyedRequests, start : Nat, at : Nat]
        /\ rec \in [by : SUBSET KeyedRequests, body : SUBSET Bodies, expires : Nat]
    BY DEF KeyKept, KeyedTypeOK, KeyedRecord
  <1>u. \A q \in KeyedRequests : keyed[q].start \in Nat
    BY <1>t DEF KeyedRecord
  <1>1. CASE PurgeExpiredIdempotencyKeys
    <2>1. /\ RecordExists(rec) /\ rec.expires <= clock /\ ~Locked
          /\ rec' = NoRecord /\ emails' = emails /\ keyed' = keyed /\ clock' = clock
      BY <1>1 DEF PurgeExpiredIdempotencyKeys
    <2>2. ~RecordExists(rec)' /\ \A q \in KeyedRequests : keyed[q].pc # "claimed"
      BY <2>1 DEF RecordExists, NoRecord, Locked
    <2>3. KeyedTypeOK'
      BY <2>1 DEF KeyKept, KeyedTypeOK, NoRecord
    <2>4. LiveIsRecorded'
      <3>1. \A f \in emails : f.start + Ttl <= clock
        BY <2>1 DEF KeyKept, LiveIsRecorded
      <3> QED BY <2>1, <2>2, <3>1 DEF LiveIsRecorded
    <2>5. SecondRoundSettles'
      <3>1. \A q \in KeyedRequests : ~(keyed[q].pc = "lost" /\ keyed[q].round = 1)
        <4> SUFFICES ASSUME NEW q \in KeyedRequests, keyed[q].pc = "lost", keyed[q].round = 1
                     PROVE  FALSE
          OBVIOUS
        <4>1. rec.expires >= keyed[q].start + MaxOpen
          BY <2>1 DEF KeyKept, SecondRoundSettles, InTransaction
        <4>2. clock < keyed[q].start + MaxOpen
          BY DEF KeyKept, OneClaims, InTransaction
        <4> QED BY <1>a, <1>t, <1>u, <2>1, <4>1, <4>2
      <3> QED BY <2>1, <2>2, <3>1 DEF KeyKept, SecondRoundSettles
    <2> QED BY <2>1, <2>2, <2>3, <2>4, <2>5
            DEF KeyKept, OneClaims, RecordIsTrue, OneEmailPerKey, AnswerIsCommitted, AlwaysClaimed
  <1>2. CASE KeyTick
    <2>1. /\ clock' = clock + 1 /\ rec' = rec /\ emails' = emails /\ keyed' = keyed
          /\ \A q \in KeyedRequests : keyed[q].pc \in InTransaction =>
                clock + 1 < keyed[q].start + MaxOpen
      BY <1>2 DEF KeyTick
    <2>2. KeyedTypeOK'
      BY <2>1 DEF KeyKept, KeyedTypeOK
    <2>3. OneClaims'
      <3>1. \A q \in KeyedRequests : keyed[q].pc \in InTransaction => keyed[q].start <= clock
        BY DEF KeyKept, OneClaims
      <3>2. \A q \in KeyedRequests : keyed[q].pc \in InTransaction =>
               keyed[q].start <= clock + 1 /\ clock + 1 < keyed[q].start + MaxOpen
        BY <1>t, <1>u, <2>1, <3>1
      <3> QED BY <2>1, <3>2 DEF KeyKept, OneClaims
    <2>4. LiveIsRecorded'
      <3>1. \A f \in emails : f.start \in Nat
        BY <1>t
      <3>2. \A f \in emails : f.start + Ttl <= clock => f.start + Ttl <= clock + 1
        BY <1>a, <1>t, <3>1
      <3> QED BY <2>1, <3>2 DEF KeyKept, LiveIsRecorded, RecordExists
    <2> QED BY <2>1, <2>2, <2>3, <2>4
            DEF KeyKept, RecordIsTrue, SecondRoundSettles, OneEmailPerKey, AnswerIsCommitted,
                AlwaysClaimed, RecordExists
  <1>3. CASE UNCHANGED keyedVars
    BY <1>3 DEF keyedVars, KeyKept, KeyedTypeOK, OneClaims, LiveIsRecorded, RecordIsTrue,
       SecondRoundSettles, OneEmailPerKey, AnswerIsCommitted, AlwaysClaimed, RecordExists
  <1> QED BY <1>1, <1>2, <1>3, StepKept DEF KeyedNext

\* One key, one email: however many requests race on it and whichever roll
\* back, two emails are a lifetime of the key apart (claimIdempotencyKey).
THEOREM KeyMakesOneEmail == KeyedSpec => []OneEmailPerKey
  <1>1. KeyKept => OneEmailPerKey
    BY DEF KeyKept
  <1> QED BY KeyKeptAtFirst, NextKeyKept, <1>1, PTL DEF KeyedSpec

\* What a request is told is true, and two rounds are enough: none is turned
\* away without a row to answer from (createEmailIdempotent).
THEOREM TwoRoundsAnswer == KeyedSpec => []AnswersAreTrue
  <1>1. KeyKept => AnswersAreTrue
    BY DEF KeyKept, AnswersAreTrue
  <1> QED BY KeyKeptAtFirst, NextKeyKept, <1>1, PTL DEF KeyedSpec
=============================================================================
