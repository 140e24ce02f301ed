--------------------------- MODULE Domains_proofs ---------------------------
(***************************************************************************)
(* Proofs about one sender domain, for any number of requests and job      *)
(* workers at once, any number of keys, days, DNS changes and restarts.    *)
(*                                                                         *)
(* A check or a completion works on the pair of selector and key it read,  *)
(* which may be the row's no longer.  The argument is that a key has one   *)
(* selector for as long as the row knows it, wherever a request or signed  *)
(* mail carries it, and that a key some lookup found stays published while *)
(* the row or its mail needs it: a late answer is about the active pair, or*)
(* harmless.                                                               *)
(***************************************************************************)
EXTENDS Domains, FiniteSetTheorems, TLAPS

\* A request in flight.
RequestRecord ==
    [kind : {"complete", "verify", "job", "send"}, pc : {"dns", "write"}, id : Keys,
     selector : Selectors, key : Keys, result : [DnsCheckNames -> DnsCheckStatus]]

\* The types of all the state.
DomainsTyped ==
    /\ domain \in DomainRow \cup {NoDomain}
    /\ zone \in [Selectors -> Keys \cup {NoKey}]
    /\ policy \in [{"spf", "dmarc"} -> BOOLEAN]
    /\ request \in [Requests -> RequestRecord \cup {NoRequest}]
    /\ refusedUntil \in BOOLEAN
    /\ transit \subseteq Selectors \X Keys
    /\ readable \subseteq Keys
    /\ today \in 1..LastDay
    /\ keysMade \in 0..MaxKeys
    /\ balance \in Int
    /\ seen \subseteq Keys
    /\ allPassed \in BOOLEAN
    /\ dnsChanges \in Nat
    /\ restarts \in Nat

\* No key is known before it is made, and a key of the row has one selector,
\* wherever a request or signed mail carries it.
KeyMade(k) == k <= keysMade
PairKept(s, k) ==
    /\ KeyMade(k)
    /\ Registered =>
          /\ k = domain.key => s = domain.selector
          /\ k = domain.pendingKey => s = domain.pendingSelector
          /\ k = domain.previousKey => s = domain.previousSelector

\* The three keys of the row are different ones under different names, and
\* a key that was seen is still published: the previous one while mail needs it.
RowKept ==
    /\ KeyMade(domain.id) /\ KeyMade(domain.key)
    /\ KeyMade(domain.pendingKey) /\ KeyMade(domain.previousKey)
    /\ domain.key \notin {domain.pendingKey, domain.previousKey}
    /\ domain.selector \notin {domain.pendingSelector, domain.previousSelector}
    /\ domain.pendingKey # NoKey =>
          /\ domain.pendingKey # domain.previousKey
          /\ domain.pendingSelector # domain.previousSelector
    /\ RotationPending <=> domain.pendingKey # NoKey
    /\ domain.key \in seen => zone[domain.selector] = domain.key
    /\ domain.pendingKey \in seen => zone[domain.pendingSelector] = domain.pendingKey
    /\ domain.previousKey \in seen /\ (\E m \in transit : m[2] = domain.previousKey) =>
          zone[domain.previousSelector] = domain.previousKey
    /\ domain.flags["dkim"] => domain.key \in seen
    /\ balance = IF domain.verified THEN 1 ELSE 0
    /\ domain.verified => allPassed

\* A request carries a pair that was made; what it found is remembered.
RequestKept(q) ==
    /\ KeyMade(q.id) /\ PairKept(q.selector, q.key)
    /\ q.kind = "complete" => q.key \in readable
    /\ q.kind = "complete" /\ q.pc = "write" => q.key \in seen
    /\ q.kind # "complete" =>
          /\ Registered /\ q.id = domain.id => q.key = domain.key \/ domain.key \in seen
          /\ q.pc = "write" /\ q.result["dkim"] = "pass" => q.key \in seen
          /\ /\ q.pc = "write" /\ Registered /\ q.id = domain.id
             /\ \A n \in DnsCheckNames : q.result[n] = "pass"
             => allPassed

InlineSend(r) == request[r].kind = "send" /\ request[r].id = domain.id

\* The inductive invariant.
DomainsKept ==
    /\ DomainsTyped
    /\ \A k \in seen \cup readable : KeyMade(k)
    /\ Registered => RowKept
    /\ ~Registered => balance = 0
    /\ \A r \in Requests : request[r] # NoRequest => RequestKept(request[r])
    /\ \A m \in transit : PairKept(m[1], m[2])
    /\ Registered => \A r1, r2 \in Requests : InlineSend(r1) /\ InlineSend(r2) => r1 = r2
-----------------------------------------------------------------------------
\* The row, changed in one of the ways the code changes it.
LEMMA RowDue ==
    ASSUME NEW d \in DomainRow, NEW b \in BOOLEAN
    PROVE  LET e == [d EXCEPT !.due = b] IN
           /\ e \in DomainRow
           /\ e.id = d.id /\ e.selector = d.selector /\ e.key = d.key
           /\ e.pendingSelector = d.pendingSelector /\ e.pendingKey = d.pendingKey
           /\ e.previousSelector = d.previousSelector /\ e.previousKey = d.previousKey
           /\ e.flags = d.flags /\ e.verified = d.verified
  BY DEF DomainRow

-----------------------------------------------------------------------------
\* A pair of the row after a step: none, of a key made in the step, or one of
\* the row before it.
OldPair(s, k) ==
    \/ k = NoKey
    \/ k > keysMade
    \/ /\ Registered
       /\ \/ s = domain.selector /\ k = domain.key
          \/ s = domain.pendingSelector /\ k = domain.pendingKey
          \/ s = domain.previousSelector /\ k = domain.previousKey
RowCarried ==
    Registered' =>
        /\ OldPair(domain'.selector, domain'.key)
        /\ OldPair(domain'.pendingSelector, domain'.pendingKey)
        /\ OldPair(domain'.previousSelector, domain'.previousKey)
        /\ \/ domain'.id > keysMade
           \/ /\ Registered /\ domain'.id = domain.id
              /\ allPassed => allPassed'
              /\ domain'.key = domain.key \/ domain'.key \in seen'

\* The row is there and has its type.
LEMMA RowThere == DomainsKept /\ Registered => domain \in DomainRow /\ RowKept /\ domain.id # NoKey
  BY DomainConstants DEF DomainsKept, DomainsTyped, Registered, DomainRow, Keys, NoKey

\* A request in flight is a request.
LEMMA RequestThere ==
    ASSUME DomainsKept, NEW r \in Requests, request[r].kind # "none"
    PROVE  request[r] \in RequestRecord /\ request[r] # NoRequest /\ RequestKept(request[r])
<1>1. request[r] # NoRequest /\ request[r] \in RequestRecord \cup {NoRequest}
  BY DEF NoRequest, DomainsKept, DomainsTyped
<1> QED
  BY <1>1 DEF DomainsKept

\* A pair known before a step is one the row after it agrees with.
LEMMA PairOnward ==
    ASSUME DomainsKept, DomainsTyped', keysMade <= keysMade', RowCarried,
           NEW s, NEW k \in Keys, PairKept(s, k)
    PROVE  PairKept(s, k)'
<1>1. keysMade \in Nat /\ keysMade' \in Nat /\ k \in Nat /\ k # NoKey
  BY DomainConstants DEF DomainsKept, DomainsTyped, Keys, NoKey
<1>2. KeyMade(k)' /\ ~(k > keysMade)
  BY <1>1 DEF PairKept, KeyMade
<1>3. CASE Registered'
  <2>1. Registered => RowKept
    BY DEF DomainsKept
  <2>2. ASSUME NEW s2, OldPair(s2, k)
        PROVE  s = s2
    BY <1>1, <1>2, <2>1, <2>2 DEF OldPair, PairKept, RowKept
  <2> QED
    BY <1>2, <1>3, <2>2 DEF RowCarried, PairKept
<1> QED
  BY <1>2, <1>3 DEF PairKept

\* A request that goes on has its type.
LEMMA RequestOnward ==
    ASSUME DomainsKept, DomainsTyped', keysMade <= keysMade', RowCarried,
           seen \subseteq seen', readable \subseteq readable',
           NEW q \in RequestRecord, RequestKept(q)
    PROVE  RequestKept(q)'
<1>1. keysMade \in Nat /\ keysMade' \in Nat /\ q.id \in Nat /\ q.key \in Keys
  BY DomainConstants DEF DomainsKept, DomainsTyped, Keys, RequestRecord
<1>2. PairKept(q.selector, q.key)'
  BY <1>1, PairOnward DEF RequestKept
<1>3. KeyMade(q.id)' /\ ~(q.id > keysMade)
  BY <1>1 DEF RequestKept, KeyMade
<1> QED
  BY <1>2, <1>3 DEF RequestKept, RowCarried

\* What a step has to show.
LEMMA DomainsOnward ==
    ASSUME DomainsKept, DomainsTyped', keysMade <= keysMade', RowCarried,
           seen \subseteq seen',
           \A k \in seen' \cup readable' : k <= keysMade',
           Registered' => RowKept',
           ~Registered' => balance' = 0,
           \A r \in Requests :
              \/ request'[r] = request[r] /\ readable \subseteq readable'
              \/ request'[r] = NoRequest
              \/ RequestKept(request[r])',
           \A m \in transit' : m \in transit \/ PairKept(m[1], m[2])',
           Registered' => \A r1, r2 \in Requests : InlineSend(r1)' /\ InlineSend(r2)' => r1 = r2
    PROVE  DomainsKept'
<1>1. \A r \in Requests : request'[r] # NoRequest => RequestKept(request[r])'
  <2> TAKE r \in Requests
  <2>1. CASE request'[r] = request[r] /\ readable \subseteq readable' /\ request[r] # NoRequest
    <3>1. request[r] \in RequestRecord /\ RequestKept(request[r])
      BY <2>1 DEF DomainsKept, DomainsTyped
    <3>2. PICK q \in RequestRecord : q = request[r]
      BY <3>1
    <3>3. RequestKept(q)
      BY <3>1, <3>2
    <3>4. RequestKept(q)'
      BY <2>1, <3>3, RequestOnward
    <3>5. q = request'[r]
      BY <2>1, <3>2
    <3> QED
      BY <3>4, <3>5 DEF RequestKept, PairKept, KeyMade
  <2> QED
    BY <2>1
<1>2. \A m \in transit' : PairKept(m[1], m[2])'
  <2> TAKE m \in transit'
  <2>1. CASE m \in transit
    <3>1. m[2] \in Keys /\ PairKept(m[1], m[2])
      BY <2>1 DEF DomainsKept, DomainsTyped
    <3> QED
      BY <3>1, PairOnward
  <2> QED
    BY <2>1
<1> QED
  BY <1>1, <1>2 DEF DomainsKept, KeyMade

\* The row as it was: its keys, or all of it but when it is due.
LEMMA CarriedAsItWas ==
    ASSUME DomainsKept,
           Registered' => /\ Registered
                          /\ domain'.id = domain.id /\ domain'.selector = domain.selector
                          /\ domain'.key = domain.key
                          /\ domain'.pendingSelector = domain.pendingSelector
                          /\ domain'.pendingKey = domain.pendingKey
                          /\ domain'.previousSelector = domain.previousSelector
                          /\ domain'.previousKey = domain.previousKey
                          /\ (allPassed => allPassed')
    PROVE  RowCarried
  BY DEF RowCarried, OldPair

\* A row that does not change stays true.
LEMMA RowStands ==
    ASSUME DomainsKept, UNCHANGED <<zone, seen, balance, allPassed, keysMade>>,
           transit' \subseteq transit,
           Registered' => /\ Registered
                          /\ domain'.id = domain.id /\ domain'.selector = domain.selector
                          /\ domain'.key = domain.key
                          /\ domain'.pendingSelector = domain.pendingSelector
                          /\ domain'.pendingKey = domain.pendingKey
                          /\ domain'.previousSelector = domain.previousSelector
                          /\ domain'.previousKey = domain.previousKey
                          /\ domain'.flags = domain.flags
                          /\ domain'.verified = domain.verified
    PROVE  Registered' => RowKept'
  BY DEF DomainsKept, RowKept, KeyMade, RotationPending

\* No send starts to look: there is still at most one that does.
LEMMA InlineStands ==
    ASSUME DomainsKept, DomainsTyped', RowCarried,
           \A r \in Requests : request'[r].kind = "send" =>
              request[r].kind = "send" /\ request'[r].id = request[r].id
    PROVE  Registered' => \A r1, r2 \in Requests : InlineSend(r1)' /\ InlineSend(r2)' => r1 = r2
<1> SUFFICES ASSUME Registered', NEW r1 \in Requests, NEW r2 \in Requests,
                    InlineSend(r1)', InlineSend(r2)'
             PROVE  r1 = r2
  OBVIOUS
<1>1. /\ request[r1].kind = "send" /\ request[r1].id = domain'.id
      /\ request[r2].kind = "send" /\ request[r2].id = domain'.id
  BY DEF InlineSend
<1>2. request[r1] \in RequestRecord /\ RequestKept(request[r1])
  BY <1>1, RequestThere
<1>3. ~(domain'.id > keysMade)
  BY <1>1, <1>2, DomainConstants DEF RequestKept, KeyMade, RequestRecord, DomainsKept, DomainsTyped, Keys
<1>4. Registered /\ domain'.id = domain.id
  BY <1>3 DEF RowCarried
<1> QED
  BY <1>1, <1>4 DEF DomainsKept, InlineSend

\* Steps outside the row: time, the remembered failure, the other records,
\* mail that arrives.
LEMMA QuietKept ==
    ASSUME DomainsKept, DomainsTyped',
           UNCHANGED <<domain, zone, seen, balance, allPassed, keysMade, request, readable>>,
           transit' \subseteq transit
    PROVE  DomainsKept'
<1>1. RowCarried
  BY CarriedAsItWas DEF Registered
<1>2. Registered' => RowKept'
  BY RowStands DEF Registered
<1>3. Registered' => \A r1, r2 \in Requests : InlineSend(r1)' /\ InlineSend(r2)' => r1 = r2
  BY <1>1, InlineStands
<1>4. keysMade <= keysMade' /\ \A k \in seen' \cup readable' : k <= keysMade'
  BY DEF DomainsKept, DomainsTyped, KeyMade
<1>5. ~Registered' => balance' = 0
  BY DEF DomainsKept, Registered
<1> QED
  BY <1>1, <1>2, <1>3, <1>4, <1>5, DomainsOnward

\* A step that leaves the row alone keeps the invariant.
LEMMA OutsideRowKept ==
    ASSUME DomainsKept,
           \/ \E n \in {"spf", "dmarc"} : ChangePolicy(n)
           \/ ForgetFailure \/ NextDay
           \/ \E m \in transit : MailArrives(m)
           \/ UNCHANGED domainVars
    PROVE  DomainsKept'
<1>1. UNCHANGED <<domain, zone, seen, balance, allPassed, keysMade, request, readable>>
      /\ transit' \subseteq transit
  BY DEF ChangePolicy, ForgetFailure, NextDay, MailArrives, domainVars
<1>2. DomainsTyped'
  <2>1. CASE \E n \in {"spf", "dmarc"} : ChangePolicy(n)
    BY <2>1 DEF DomainsKept, DomainsTyped, ChangePolicy
  <2>2. CASE ForgetFailure
    BY <2>2 DEF DomainsKept, DomainsTyped, ForgetFailure
  <2>3. CASE NextDay
    BY <2>3, DomainConstants DEF DomainsKept, DomainsTyped, NextDay
  <2>4. CASE \E m \in transit : MailArrives(m)
    BY <2>4 DEF DomainsKept, DomainsTyped, MailArrives
  <2>5. CASE UNCHANGED domainVars
    BY <2>5 DEF DomainsKept, DomainsTyped, domainVars
  <2> QED
    BY <2>1, <2>2, <2>3, <2>4, <2>5
<1> QED
  BY <1>1, <1>2, QuietKept

\* RestartServer keeps the invariant.
LEMMA RestartServerKept ==
    ASSUME DomainsKept, RestartServer
    PROVE  DomainsKept'
<1>1. DomainsTyped'
  <2>1. request' \in [Requests -> RequestRecord \cup {NoRequest}]
    BY DEF RestartServer
  <2>2. readable' \subseteq Keys /\ restarts' \in Nat
    BY DEF RestartServer, DomainsKept, DomainsTyped
  <2>3. refusedUntil' \in BOOLEAN
    BY Zenon DEF RestartServer
  <2> QED
    BY <2>1, <2>2, <2>3 DEF DomainsKept, DomainsTyped, RestartServer
<1>2. RowCarried
  BY CarriedAsItWas DEF Registered, RestartServer
<1>3. Registered' => RowKept'
  BY RowStands DEF Registered, RestartServer
<1>4. \A r \in Requests : request'[r] = NoRequest
  BY DEF RestartServer
<1>5. Registered' => \A r1, r2 \in Requests : InlineSend(r1)' /\ InlineSend(r2)' => r1 = r2
  BY <1>4 DEF InlineSend, NoRequest
<1>6. keysMade <= keysMade' /\ (\A k \in seen' \cup readable' : k <= keysMade')
      /\ seen \subseteq seen' /\ transit' \subseteq transit
  BY DEF DomainsKept, DomainsTyped, KeyMade, RestartServer
<1>7. ~Registered' => balance' = 0
  BY DEF DomainsKept, Registered, RestartServer
<1> QED
  BY <1>1, <1>2, <1>3, <1>4, <1>5, <1>6, <1>7, DomainsOnward

\* BecomesDue keeps the invariant.
LEMMA BecomesDueKept ==
    ASSUME DomainsKept, BecomesDue
    PROVE  DomainsKept'
<1>1. /\ domain' \in DomainRow /\ Registered /\ Registered'
      /\ domain'.id = domain.id /\ domain'.selector = domain.selector
      /\ domain'.key = domain.key
      /\ domain'.pendingSelector = domain.pendingSelector
      /\ domain'.pendingKey = domain.pendingKey
      /\ domain'.previousSelector = domain.previousSelector
      /\ domain'.previousKey = domain.previousKey
      /\ domain'.flags = domain.flags
      /\ domain'.verified = domain.verified
  <2>1. Registered /\ domain \in DomainRow /\ domain.id # NoKey
    BY RowThere DEF BecomesDue
  <2>2. domain' = [domain EXCEPT !.due = TRUE]
    BY DEF BecomesDue
  <2>3. domain'.id = domain.id
    BY <2>1, <2>2, RowDue
  <2>4. Registered'
    BY <2>1, <2>3 DEF Registered, NoDomain
  <2> QED
    BY <2>1, <2>2, <2>4, RowDue
<1>2. UNCHANGED <<zone, policy, request, refusedUntil, transit, readable, today,
                  keysMade, balance, seen, allPassed, dnsChanges, restarts, world>>
  BY DEF BecomesDue
<1>3. DomainsTyped'
  BY <1>1, <1>2 DEF DomainsKept, DomainsTyped
<1>4. RowCarried
  BY <1>1, <1>2, CarriedAsItWas
<1>5. Registered' => RowKept'
  BY <1>1, <1>2, RowStands
<1>6. Registered' => \A r1, r2 \in Requests : InlineSend(r1)' /\ InlineSend(r2)' => r1 = r2
  BY <1>2, <1>3, <1>4, InlineStands
<1>7. keysMade <= keysMade' /\ \A k \in seen' \cup readable' : k <= keysMade'
  BY <1>2 DEF DomainsKept, DomainsTyped, KeyMade
<1> QED
  BY <1>1, <1>2, <1>3, <1>4, <1>5, <1>6, <1>7, DomainsOnward

\* DeleteDomain keeps the invariant.
LEMMA DeleteDomainKept ==
    ASSUME DomainsKept, DeleteDomain
    PROVE  DomainsKept'
<1>1. ~Registered' /\ DomainsTyped' /\ balance' = 0
  <2>1. ~Registered' /\ domain' \in DomainRow \cup {NoDomain} /\ balance' = 0
    BY DEF DeleteDomain, Registered
  <2>2. allPassed' \in BOOLEAN
    BY Zenon DEF DeleteDomain
  <2>3. balance' \in Int
    BY <2>1
  <2> QED
    BY <2>1, <2>2, <2>3 DEF DomainsKept, DomainsTyped, DeleteDomain
<1>2. RowCarried
  BY <1>1 DEF RowCarried
<1>3. keysMade <= keysMade' /\ \A k \in seen' \cup readable' : k <= keysMade'
  BY DEF DomainsKept, DomainsTyped, KeyMade, DeleteDomain
<1> QED
  BY <1>1, <1>2, <1>3, DomainsOnward DEF DeleteDomain

\* CreateDomain keeps the invariant.
LEMMA CreateDomainKept ==
    ASSUME DomainsKept, CreateDomain
    PROVE  DomainsKept'
<1>1. /\ keysMade' = keysMade + 1 /\ keysMade \in Nat /\ keysMade' \in Keys /\ keysMade' \in 0..MaxKeys
  BY DomainConstants DEF CreateDomain, DomainsKept, DomainsTyped, Keys
<1>2. /\ domain' \in DomainRow
      /\ domain'.id = keysMade' /\ domain'.selector = DefaultSelector
      /\ domain'.key = keysMade'
      /\ domain'.pendingSelector = NoSelector /\ domain'.pendingKey = NoKey
      /\ domain'.previousSelector = NoSelector /\ domain'.previousKey = NoKey
      /\ ~domain'.flags["dkim"] /\ domain'.verified = FALSE
  BY <1>1 DEF CreateDomain, DomainRow, Selectors, FlipAfterFailures, DnsCheckNames
<1>3. DomainsTyped'
  BY <1>1, <1>2 DEF DomainsKept, DomainsTyped, CreateDomain
<1>4. RowCarried
  BY <1>1, <1>2 DEF RowCarried, OldPair
<1>5. \A k \in seen \cup readable : k <= keysMade /\ k \in Nat
  BY DomainConstants DEF DomainsKept, DomainsTyped, KeyMade, Keys
<1>6. \A k \in seen' \cup readable' : k <= keysMade'
  BY <1>1, <1>5 DEF CreateDomain
<1>7. RowKept' /\ Registered'
  <2>1. balance' = 0 /\ seen' = seen
    BY DEF DomainsKept, CreateDomain
  <2>2. DefaultSelector # NoSelector /\ keysMade' # NoKey /\ 0 <= keysMade'
    BY <1>1 DEF DefaultSelector, NoSelector, NoKey, Keys
  <2>3. keysMade' \notin seen /\ NoKey \notin seen
    BY <1>1, <1>5, DomainConstants DEF DomainsKept, DomainsTyped, NoKey, Keys
  <2>4. Registered'
    BY <1>2, <2>2 DEF Registered, NoDomain
  <2> QED
    BY <1>1, <1>2, <2>1, <2>2, <2>3, <2>4 DEF RowKept, KeyMade, RotationPending, NoKey
<1>8. Registered' => \A r1, r2 \in Requests : InlineSend(r1)' /\ InlineSend(r2)' => r1 = r2
  BY <1>3, <1>4, InlineStands DEF CreateDomain
<1> QED
  BY <1>1, <1>3, <1>4, <1>6, <1>7, <1>8, DomainsOnward DEF CreateDomain

\* datedDkimSelector: with two names taken, one of three is free.
LEMMA SelectorIsFree ==
    ASSUME NEW d \in 1..LastDay, NEW a, NEW b
    PROVE  /\ DatedDkimSelector(d, {a, b}) \in Selectors
           /\ DatedDkimSelector(d, {a, b}) \notin {a, b, NoSelector}
<1> DEFINE Free(n) == /\ <<d, n>> \notin {a, b}
                      /\ \A k \in 1..(n - 1) : <<d, k>> \in {a, b}
<1>1. \E n \in 1..3 : Free(n)
  <2>1. CASE <<d, 1>> \notin {a, b}
    <3>1. Free(1)
      BY <2>1
    <3> QED
      BY <3>1
  <2>2. CASE <<d, 1>> \in {a, b} /\ <<d, 2>> \notin {a, b}
    <3>1. \A k \in 1..(2 - 1) : k = 1
      OBVIOUS
    <3>2. Free(2)
      BY <2>2, <3>1
    <3> QED
      BY <3>2
  <2>3. CASE <<d, 1>> \in {a, b} /\ <<d, 2>> \in {a, b}
    <3>1. \A k \in 1..(3 - 1) : k = 1 \/ k = 2
      OBVIOUS
    <3>2. <<d, 3>> # <<d, 1>> /\ <<d, 3>> # <<d, 2>> /\ <<d, 1>> # <<d, 2>>
      OBVIOUS
    <3>3. <<d, 3>> \notin {a, b}
      BY <2>3, <3>2
    <3>4. Free(3)
      BY <2>3, <3>1, <3>3
    <3> QED
      BY <3>4
  <2> QED
    BY <2>1, <2>2, <2>3
<1> DEFINE n0 == CHOOSE n \in 1..3 : Free(n)
<1>2. n0 \in 1..3 /\ Free(n0)
  BY <1>1
<1>3. DatedDkimSelector(d, {a, b}) = <<d, n0>>
  BY DEF DatedDkimSelector
<1> HIDE DEF n0
<1>4. <<d, n0>> \in (1..LastDay) \X (1..3)
  BY <1>2
<1>5. <<d, n0>> # NoSelector
  BY <1>2 DEF NoSelector
<1> QED
  BY <1>2, <1>3, <1>4, <1>5 DEF Selectors

\* A row is known by its id.
LEMMA StaysRegistered ==
    ASSUME DomainsKept, Registered, domain'.id = domain.id
    PROVE  Registered'
  BY RowThere DEF Registered, NoDomain

\* StartDkimRotation keeps the invariant.
LEMMA StartDkimRotationKept ==
    ASSUME DomainsKept, StartDkimRotation
    PROVE  DomainsKept'
<1> DEFINE s == DatedDkimSelector(today, {domain.selector, domain.previousSelector})
<1>1. /\ keysMade' = keysMade + 1 /\ keysMade \in Nat /\ keysMade' \in Keys
      /\ keysMade' \in 0..MaxKeys /\ keysMade' # NoKey
  BY DomainConstants DEF StartDkimRotation, DomainsKept, DomainsTyped, Keys, NoKey
<1>2. Registered /\ domain \in DomainRow /\ RowKept
  BY RowThere DEF StartDkimRotation
<1>3. s \in Selectors /\ s \notin {domain.selector, domain.previousSelector, NoSelector}
  BY SelectorIsFree DEF DomainsKept, DomainsTyped
<1>4. domain' = [domain EXCEPT !.pendingSelector = s, !.pendingKey = keysMade']
  BY DEF StartDkimRotation
<1> HIDE DEF s
<1>5. /\ domain' \in DomainRow
      /\ domain'.id = domain.id /\ domain'.selector = domain.selector /\ domain'.key = domain.key
      /\ domain'.pendingSelector = s /\ domain'.pendingKey = keysMade'
      /\ domain'.previousSelector = domain.previousSelector
      /\ domain'.previousKey = domain.previousKey
      /\ domain'.flags = domain.flags /\ domain'.verified = domain.verified
  BY <1>1, <1>2, <1>3, <1>4 DEF DomainRow
<1>6. DomainsTyped'
  <2>1. /\ UNCHANGED <<zone, policy, request, refusedUntil, transit, today, balance,
                        seen, allPassed, dnsChanges, restarts>>
        /\ readable' = readable \cup {keysMade'}
    BY DEF StartDkimRotation
  <2> QED
    BY <1>1, <1>5, <2>1 DEF DomainsKept, DomainsTyped
<1>7. RowCarried
  BY <1>1, <1>2, <1>5 DEF RowCarried, OldPair, StartDkimRotation
<1>8. \A k \in seen \cup readable : k <= keysMade /\ k \in Nat
  BY DomainConstants DEF DomainsKept, DomainsTyped, KeyMade, Keys
<1>9. \A k \in seen' \cup readable' : k <= keysMade'
  BY <1>1, <1>8 DEF StartDkimRotation
<1>10. RowKept'
  <2>1. /\ domain.key <= keysMade /\ domain.previousKey <= keysMade /\ domain.id <= keysMade
        /\ domain.key \in Nat /\ domain.previousKey \in Nat /\ domain.id \in Nat
    BY <1>2, DomainConstants DEF RowKept, KeyMade, DomainRow, Keys, NoKey
  <2>2. keysMade' \notin seen
    BY <1>1, <1>8
  <2>3. UNCHANGED <<zone, transit, seen, balance, allPassed>>
    BY DEF StartDkimRotation
  <2>4. /\ domain'.id <= keysMade' /\ domain'.key <= keysMade'
        /\ domain'.pendingKey <= keysMade' /\ domain'.previousKey <= keysMade'
        /\ domain'.key # keysMade' /\ domain'.previousKey # keysMade'
    BY <1>1, <1>5, <2>1
  <2> QED
    BY <1>1, <1>2, <1>3, <1>5, <2>2, <2>3, <2>4 DEF RowKept, KeyMade, RotationPending
<1>11. Registered' => \A r1, r2 \in Requests : InlineSend(r1)' /\ InlineSend(r2)' => r1 = r2
  BY <1>6, <1>7, InlineStands DEF StartDkimRotation
<1>12. Registered'
  BY <1>2, <1>5, StaysRegistered
<1>13. /\ keysMade <= keysMade' /\ seen \subseteq seen' /\ readable \subseteq readable'
       /\ request' = request /\ transit' = transit
  BY <1>1 DEF StartDkimRotation
<1> QED
  BY <1>6, <1>7, <1>9, <1>10, <1>11, <1>12, <1>13, DomainsOnward

\* CancelDkimRotation keeps the invariant.
LEMMA CancelDkimRotationKept ==
    ASSUME DomainsKept, CancelDkimRotation
    PROVE  DomainsKept'
<1>1. Registered /\ domain \in DomainRow /\ RowKept
  BY RowThere DEF CancelDkimRotation
<1>2. domain' = [domain EXCEPT !.pendingSelector = NoSelector, !.pendingKey = NoKey]
  BY DEF CancelDkimRotation
<1>3. /\ domain' \in DomainRow
      /\ domain'.id = domain.id /\ domain'.selector = domain.selector /\ domain'.key = domain.key
      /\ domain'.pendingSelector = NoSelector /\ domain'.pendingKey = NoKey
      /\ domain'.previousSelector = domain.previousSelector
      /\ domain'.previousKey = domain.previousKey
      /\ domain'.flags = domain.flags /\ domain'.verified = domain.verified
  BY <1>1, <1>2 DEF DomainRow
<1>4. DomainsTyped'
  <2>1. UNCHANGED <<zone, policy, request, refusedUntil, transit, readable, today,
                    keysMade, balance, seen, allPassed, dnsChanges, restarts>>
    BY DEF CancelDkimRotation
  <2> QED
    BY <1>3, <2>1 DEF DomainsKept, DomainsTyped
<1>5. RowCarried
  BY <1>1, <1>3 DEF RowCarried, OldPair, CancelDkimRotation
<1>6. RowKept'
  <2>1. /\ NoKey \notin seen /\ domain.key # NoKey /\ domain.selector # NoSelector
        /\ NoKey <= keysMade
    BY <1>1, DomainConstants
       DEF DomainsKept, DomainsTyped, Keys, NoKey, DomainRow, Selectors, DefaultSelector, NoSelector
  <2> QED
    BY <1>1, <1>3, <2>1 DEF RowKept, CancelDkimRotation, KeyMade, RotationPending
<1>7. Registered' => \A r1, r2 \in Requests : InlineSend(r1)' /\ InlineSend(r2)' => r1 = r2
  BY <1>4, <1>5, InlineStands DEF CancelDkimRotation
<1>8. Registered'
  BY <1>1, <1>3, StaysRegistered
<1>9. /\ keysMade <= keysMade' /\ seen \subseteq seen' /\ readable \subseteq readable'
      /\ request' = request /\ transit' = transit
      /\ \A k \in seen' \cup readable' : k <= keysMade'
  BY DEF CancelDkimRotation, DomainsKept, DomainsTyped, KeyMade
<1> QED
  BY <1>4, <1>5, <1>6, <1>7, <1>8, <1>9, DomainsOnward

\* A request is begun, moves on from its lookup, and ends.
LEMMA RequestBegins ==
    ASSUME DomainsKept, Registered, NEW r \in Requests,
           NEW kind \in {"complete", "verify", "job", "send"},
           NEW s \in Selectors, NEW k \in Keys, NewRequest(r, kind, s, k)
    PROVE  /\ request' \in [Requests -> RequestRecord \cup {NoRequest}]
           /\ request'[r].kind = kind /\ request'[r].pc = "dns"
           /\ request'[r].id = domain.id /\ request'[r].selector = s
           /\ request'[r].key = k
           /\ \A z \in Requests \ {r} : request'[z] = request[z]
<1> DEFINE q == [kind |-> kind, pc |-> "dns", id |-> domain.id, selector |-> s,
                 key |-> k, result |-> [n \in DnsCheckNames |-> "unknown"]]
<1>1. domain.id \in Keys
  BY RowThere DEF DomainRow
<1>2. [n \in DnsCheckNames |-> "unknown"] \in [DnsCheckNames -> DnsCheckStatus]
  BY DEF DnsCheckStatus
<1>3. q \in RequestRecord
  BY <1>1, <1>2 DEF RequestRecord
<1>4. /\ request' = [request EXCEPT ![r] = q]
      /\ request \in [Requests -> RequestRecord \cup {NoRequest}]
  BY DEF NewRequest, DomainsKept, DomainsTyped
<1> QED
  BY <1>3, <1>4

\* A check takes its next step.
LEMMA CheckMoves ==
    ASSUME DomainsKept, NEW r \in Requests, request[r] \in RequestRecord,
           NEW result \in [DnsCheckNames -> DnsCheckStatus],
           request' = [request EXCEPT ![r].pc = "write", ![r].result = result]
    PROVE  /\ request' \in [Requests -> RequestRecord \cup {NoRequest}]
           /\ request'[r].kind = request[r].kind /\ request'[r].pc = "write"
           /\ request'[r].id = request[r].id /\ request'[r].selector = request[r].selector
           /\ request'[r].key = request[r].key /\ request'[r].result = result
           /\ \A z \in Requests \ {r} : request'[z] = request[z]
<1>1. request \in [Requests -> RequestRecord \cup {NoRequest}]
  BY DEF DomainsKept, DomainsTyped
<1> QED
  BY <1>1 DEF RequestRecord

\* A completion takes its next step.
LEMMA CompletionMoves ==
    ASSUME DomainsKept, NEW r \in Requests, request[r] \in RequestRecord,
           request' = [request EXCEPT ![r].pc = "write"]
    PROVE  /\ request' \in [Requests -> RequestRecord \cup {NoRequest}]
           /\ request'[r].kind = request[r].kind /\ request'[r].pc = "write"
           /\ request'[r].id = request[r].id /\ request'[r].selector = request[r].selector
           /\ request'[r].key = request[r].key
           /\ \A z \in Requests \ {r} : request'[z] = request[z]
<1>1. request \in [Requests -> RequestRecord \cup {NoRequest}]
  BY DEF DomainsKept, DomainsTyped
<1> QED
  BY <1>1 DEF RequestRecord

\* A request that ends keeps the invariant.
LEMMA RequestEnds ==
    ASSUME DomainsKept, NEW r \in Requests, Finish(r)
    PROVE  /\ request' \in [Requests -> RequestRecord \cup {NoRequest}]
           /\ request'[r] = NoRequest
           /\ \A z \in Requests \ {r} : request'[z] = request[z]
  BY DEF DomainsKept, DomainsTyped, Finish

\* The active pair and the pending pair are ones the row agrees with.
LEMMA PairsOfRow ==
    ASSUME DomainsKept, Registered
    PROVE  /\ domain.selector \in Selectors /\ domain.key \in Keys
           /\ PairKept(domain.selector, domain.key)
           /\ domain.pendingKey # NoKey =>
                 /\ domain.pendingSelector \in Selectors /\ domain.pendingKey \in Keys
                 /\ PairKept(domain.pendingSelector, domain.pendingKey)
<1>1. domain \in DomainRow /\ RowKept
  BY RowThere
<1> QED
  BY <1>1, DomainConstants DEF RowKept, PairKept, DomainRow, RotationPending

\* A request begins, on a row that stays but for when it is due.
LEMMA BeginKept ==
    ASSUME DomainsKept, Registered, NEW r \in Requests, request[r] = NoRequest,
           NEW kind \in {"complete", "verify", "job", "send"},
           NEW s \in Selectors, NEW k \in Keys, NewRequest(r, kind, s, k),
           PairKept(s, k),
           kind = "complete" => k \in readable,
           kind # "complete" => k = domain.key,
           kind = "send" => ~InFlight,
           domain' \in DomainRow,
           domain'.id = domain.id, domain'.selector = domain.selector,
           domain'.key = domain.key, domain'.pendingSelector = domain.pendingSelector,
           domain'.pendingKey = domain.pendingKey,
           domain'.previousSelector = domain.previousSelector,
           domain'.previousKey = domain.previousKey,
           domain'.flags = domain.flags, domain'.verified = domain.verified,
           UNCHANGED <<zone, policy, refusedUntil, transit, readable, today, keysMade,
                       balance, seen, allPassed, dnsChanges, restarts, world>>
    PROVE  DomainsKept'
<1>1. /\ request' \in [Requests -> RequestRecord \cup {NoRequest}]
      /\ request'[r].kind = kind /\ request'[r].pc = "dns"
      /\ request'[r].id = domain.id /\ request'[r].selector = s /\ request'[r].key = k
      /\ \A z \in Requests \ {r} : request'[z] = request[z]
  BY RequestBegins
<1>2. DomainsTyped'
  BY <1>1 DEF DomainsKept, DomainsTyped
<1>3. Registered'
  BY StaysRegistered
<1>4. RowCarried
  BY CarriedAsItWas
<1>5. RowKept'
  BY <1>3, RowStands
<1>6. PairKept(s, k)'
  BY <1>2, <1>4, PairOnward DEF DomainsKept, DomainsTyped
<1>7. RequestKept(request[r])'
  <2>1. domain.id <= keysMade
    BY RowThere DEF RowKept, KeyMade
  <2>2. PairKept(request[r].selector, request[r].key)'
    BY <1>1, <1>6 DEF PairKept, KeyMade
  <2> QED
    BY <1>1, <2>1, <2>2 DEF RequestKept, KeyMade
<1>8. \A r1, r2 \in Requests : InlineSend(r1)' /\ InlineSend(r2)' => r1 = r2
  <2> SUFFICES ASSUME NEW r1 \in Requests, NEW r2 \in Requests, InlineSend(r1)', InlineSend(r2)'
               PROVE  r1 = r2
    OBVIOUS
  <2>1. \A z \in Requests \ {r} : InlineSend(z)' => InlineSend(z)
    BY <1>1 DEF InlineSend
  <2>2. CASE kind = "send"
    BY <2>1, <2>2 DEF InFlight, InlineSend
  <2>3. CASE kind # "send"
    <3>1. r1 # r /\ r2 # r
      BY <1>1, <2>3 DEF InlineSend
    <3> QED
      BY <2>1, <3>1 DEF DomainsKept
  <2> QED
    BY <2>2, <2>3
<1>9. /\ keysMade <= keysMade' /\ seen \subseteq seen' /\ readable \subseteq readable'
      /\ \A p \in seen' \cup readable' : p <= keysMade'
  BY DEF DomainsKept, DomainsTyped, KeyMade
<1> QED
  BY <1>1, <1>2, <1>3, <1>4, <1>5, <1>7, <1>8, <1>9, DomainsOnward

\* A request that begins keeps the invariant.
LEMMA BeginsKept ==
    ASSUME DomainsKept, NEW r \in Requests,
           ReadPendingKey(r) \/ VerifyDomain(r) \/ RecheckDomain(r) \/ ClaimDueDomains(r)
    PROVE  DomainsKept'
<1>1. Registered /\ domain \in DomainRow /\ request[r] = NoRequest
  BY RowThere DEF ReadPendingKey, VerifyDomain, RecheckDomain, ClaimDueDomains
<1>2. /\ domain.selector \in Selectors /\ domain.key \in Keys
      /\ PairKept(domain.selector, domain.key)
      /\ domain.pendingKey # NoKey =>
            /\ domain.pendingSelector \in Selectors /\ domain.pendingKey \in Keys
            /\ PairKept(domain.pendingSelector, domain.pendingKey)
  BY <1>1, PairsOfRow
<1>3. CASE ReadPendingKey(r)
  <2>1. domain.pendingKey # NoKey
    BY <1>1, <1>3, RowThere DEF ReadPendingKey, RowKept
  <2> QED
    BY <1>1, <1>2, <1>3, <2>1, BeginKept DEF ReadPendingKey
<1>4. CASE VerifyDomain(r)
  BY <1>1, <1>2, <1>4, BeginKept DEF VerifyDomain
<1>5. CASE RecheckDomain(r)
  BY <1>1, <1>2, <1>5, BeginKept DEF RecheckDomain
<1>6. CASE ClaimDueDomains(r)
  <2>1. domain' = [domain EXCEPT !.due = FALSE]
    BY <1>6 DEF ClaimDueDomains
  <2>2. /\ domain' \in DomainRow
        /\ domain'.id = domain.id /\ domain'.selector = domain.selector
        /\ domain'.key = domain.key /\ domain'.pendingSelector = domain.pendingSelector
        /\ domain'.pendingKey = domain.pendingKey
        /\ domain'.previousSelector = domain.previousSelector
        /\ domain'.previousKey = domain.previousKey
        /\ domain'.flags = domain.flags /\ domain'.verified = domain.verified
    BY <1>1, <2>1, RowDue
  <2>3. /\ NewRequest(r, "job", domain.selector, domain.key)
        /\ UNCHANGED <<zone, policy, refusedUntil, transit, readable, today, keysMade,
                       balance, seen, allPassed, dnsChanges, restarts, world>>
    BY <1>6 DEF ClaimDueDomains
  <2> QED
    BY <1>1, <1>2, <2>2, <2>3, BeginKept
<1> QED
  BY <1>3, <1>4, <1>5, <1>6

\* A lookup that finds a key published, or finds nothing out.
LEMMA RowSeen ==
    ASSUME DomainsKept, NEW s, NEW k \in Keys, PairKept(s, k),
           \/ seen' = seen
           \/ zone[s] = k /\ seen' = seen \cup {k},
           UNCHANGED <<domain, zone, transit, keysMade, balance>>, allPassed => allPassed'
    PROVE  Registered' => RowKept'
<1> SUFFICES ASSUME Registered'
             PROVE  RowKept'
  OBVIOUS
<1>1. Registered /\ RowKept
  BY RowThere DEF Registered
<1>2. \A x \in seen' : x \in seen \/ (x = k /\ zone[s] = k)
  OBVIOUS
<1>3. seen \subseteq seen'
  OBVIOUS
<1>4. /\ domain.key \in seen' => zone[domain.selector] = domain.key
      /\ domain.pendingKey \in seen' => zone[domain.pendingSelector] = domain.pendingKey
      /\ domain.previousKey \in seen' /\ (\E m \in transit : m[2] = domain.previousKey) =>
            zone[domain.previousSelector] = domain.previousKey
  BY <1>1, <1>2 DEF RowKept, PairKept
<1> QED
  BY <1>1, <1>3, <1>4 DEF RowKept, KeyMade, RotationPending

\* A step of a request that asks the DNS.
LEMMA LookupKept ==
    ASSUME DomainsKept, NEW r \in Requests, request[r].kind # "none",
           \/ seen' = seen
           \/ /\ zone[request[r].selector] = request[r].key
              /\ seen' = seen \cup {request[r].key},
           request' \in [Requests -> RequestRecord \cup {NoRequest}],
           \A z \in Requests \ {r} : request'[z] = request[z],
           \/ request'[r] = NoRequest
           \/ /\ request'[r].kind = request[r].kind /\ request'[r].pc = "write"
              /\ request'[r].id = request[r].id /\ request'[r].selector = request[r].selector
              /\ request'[r].key = request[r].key
              /\ request[r].kind = "complete" => request[r].key \in seen'
              /\ request[r].kind # "complete" =>
                    /\ request'[r].result["dkim"] = "pass" => request[r].key \in seen'
                    /\ Registered /\ request[r].id = domain.id
                       /\ (\A n \in DnsCheckNames : request'[r].result[n] = "pass") => allPassed',
           UNCHANGED <<domain, zone, policy, refusedUntil, transit, readable, today,
                       keysMade, balance, dnsChanges, restarts, world>>,
           allPassed => allPassed', allPassed' \in BOOLEAN
    PROVE  DomainsKept'
<1>1. request[r] \in RequestRecord /\ RequestKept(request[r])
  BY RequestThere
<1>2. PICK s \in Selectors, k \in Keys : s = request[r].selector /\ k = request[r].key
  BY <1>1 DEF RequestRecord
<1>3. PairKept(s, k) /\ k <= keysMade
  BY <1>1, <1>2 DEF RequestKept, PairKept, KeyMade
<1>4. DomainsTyped'
  BY <1>2 DEF DomainsKept, DomainsTyped
<1>5. RowCarried
  BY CarriedAsItWas DEF Registered
<1>6. Registered' => RowKept'
  BY <1>2, <1>3, RowSeen
<1>7. /\ keysMade <= keysMade' /\ seen \subseteq seen' /\ readable \subseteq readable'
      /\ \A p \in seen' \cup readable' : p <= keysMade'
  BY <1>2, <1>3 DEF DomainsKept, DomainsTyped, KeyMade
<1>8. PairKept(s, k)'
  BY <1>3, <1>4, <1>5, <1>7, PairOnward
<1>9. request'[r] = NoRequest \/ RequestKept(request[r])'
  <2> SUFFICES ASSUME request'[r] # NoRequest
               PROVE  RequestKept(request[r])'
    OBVIOUS
  <2>1. PairKept(request[r].selector, request[r].key)'
    BY <1>2, <1>8 DEF PairKept, KeyMade
  <2>2. /\ request'[r].kind = request[r].kind /\ request'[r].pc = "write"
        /\ request'[r].id = request[r].id /\ request'[r].key = request[r].key
    OBVIOUS
  <2>3. Registered' <=> Registered
    BY DEF Registered
  <2> QED
    BY <1>1, <1>7, <2>1, <2>2, <2>3 DEF RequestKept, KeyMade
<1>10. Registered' => \A r1, r2 \in Requests : InlineSend(r1)' /\ InlineSend(r2)' => r1 = r2
  <2>1. \A z \in Requests : request'[z].kind = "send" =>
              request[z].kind = "send" /\ request'[z].id = request[z].id
    BY DEF NoRequest
  <2> QED
    BY <1>4, <1>5, <2>1, InlineStands
<1>11. ~Registered' => balance' = 0
  BY DEF DomainsKept, Registered
<1> QED
  BY <1>4, <1>5, <1>6, <1>7, <1>9, <1>10, <1>11, DomainsOnward

\* CheckDkimKeyPublished keeps the invariant.
LEMMA CheckDkimKeyPublishedKept ==
    ASSUME DomainsKept, NEW r \in Requests, CheckDkimKeyPublished(r)
    PROVE  DomainsKept'
<1>1. request[r].kind = "complete" /\ request[r] \in RequestRecord
  BY RequestThere DEF CheckDkimKeyPublished, Running
<1>2. UNCHANGED <<domain, zone, policy, refusedUntil, transit, readable, today,
                  keysMade, balance, allPassed, dnsChanges, restarts, world>>
  BY DEF CheckDkimKeyPublished
<1>3. allPassed' \in BOOLEAN
  BY <1>2 DEF DomainsKept, DomainsTyped
<1>4. PICK a \in VerifyDKIM(request[r].selector, request[r].key) :
          /\ IF a = "pass" THEN request' = [request EXCEPT ![r].pc = "write"] ELSE Finish(r)
          /\ seen' = IF a = "pass" THEN seen \cup {request[r].key} ELSE seen
  BY DEF CheckDkimKeyPublished
<1>5. CASE a = "pass"
  <2>1. zone[request[r].selector] = request[r].key
    BY <1>4, <1>5 DEF VerifyDKIM, DkimRecordsMatchKey
  <2>2. /\ request' \in [Requests -> RequestRecord \cup {NoRequest}]
        /\ request'[r].kind = request[r].kind /\ request'[r].pc = "write"
        /\ request'[r].id = request[r].id /\ request'[r].selector = request[r].selector
        /\ request'[r].key = request[r].key
        /\ \A z \in Requests \ {r} : request'[z] = request[z]
    BY <1>1, <1>4, <1>5, CompletionMoves
  <2>3. seen' = seen \cup {request[r].key}
    BY <1>4, <1>5
  <2> QED
    BY <1>1, <1>2, <1>3, <2>1, <2>2, <2>3, LookupKept
<1>6. CASE a # "pass"
  <2>1. Finish(r) /\ seen' = seen
    BY <1>4, <1>6
  <2>2. /\ request' \in [Requests -> RequestRecord \cup {NoRequest}]
        /\ request'[r] = NoRequest
        /\ \A z \in Requests \ {r} : request'[z] = request[z]
    BY <2>1, RequestEnds
  <2> QED
    BY <1>1, <1>2, <1>3, <2>1, <2>2, LookupKept
<1> QED
  BY <1>5, <1>6

\* LookUp keeps the invariant.
LEMMA LookUpKept ==
    ASSUME DomainsKept, NEW r \in Requests, LookUp(r)
    PROVE  DomainsKept'
<1>1. /\ request[r].kind \in {"verify", "job", "send"} /\ request[r] \in RequestRecord
  BY RequestThere DEF LookUp
<1>2. UNCHANGED <<domain, zone, policy, refusedUntil, transit, readable, today,
                  keysMade, balance, dnsChanges, restarts, world>>
  BY DEF LookUp
<1>3. PICK result \in RunDnsChecks(request[r].selector, request[r].key) :
          /\ request' = [request EXCEPT ![r].pc = "write", ![r].result = result]
          /\ seen' = IF result["dkim"] = "pass" THEN seen \cup {request[r].key} ELSE seen
          /\ allPassed' = (allPassed \/ (Registered /\ domain.id = request[r].id
                                          /\ \A n \in DnsCheckNames : result[n] = "pass"))
  BY DEF LookUp
<1>4. /\ result \in [DnsCheckNames -> DnsCheckStatus]
      /\ result["dkim"] = "pass" => zone[request[r].selector] = request[r].key
  BY <1>3 DEF RunDnsChecks, VerifyDKIM, DkimRecordsMatchKey
<1>5. /\ request' \in [Requests -> RequestRecord \cup {NoRequest}]
      /\ request'[r].kind = request[r].kind /\ request'[r].pc = "write"
      /\ request'[r].id = request[r].id /\ request'[r].selector = request[r].selector
      /\ request'[r].key = request[r].key /\ request'[r].result = result
      /\ \A z \in Requests \ {r} : request'[z] = request[z]
  BY <1>1, <1>3, <1>4, CheckMoves
<1>6. /\ allPassed' \in BOOLEAN /\ (allPassed => allPassed')
      /\ Registered /\ request[r].id = domain.id
           /\ (\A n \in DnsCheckNames : request'[r].result[n] = "pass") => allPassed'
  BY <1>3, <1>5
<1>7. \/ seen' = seen
      \/ zone[request[r].selector] = request[r].key /\ seen' = seen \cup {request[r].key}
  BY <1>3, <1>4
<1>8. request'[r].result["dkim"] = "pass" => request[r].key \in seen'
  BY <1>3, <1>5
<1> QED
  BY <1>1, <1>2, <1>5, <1>6, <1>7, <1>8, LookupKept

\* nextDomainCheckState: only the flags, the verification and its counters
\* move; the DKIM flag goes up only on a DKIM pass, the event says how the
\* verification moved, and it is set only by a check that passed as a whole.
LEMMA CheckState ==
    ASSUME NEW d \in DomainRow, NEW result \in [DnsCheckNames -> DnsCheckStatus]
    PROVE  LET n == NextDomainCheckState(d, result) IN
           /\ n.row \in DomainRow
           /\ n.row.id = d.id /\ n.row.selector = d.selector /\ n.row.key = d.key
           /\ n.row.pendingSelector = d.pendingSelector /\ n.row.pendingKey = d.pendingKey
           /\ n.row.previousSelector = d.previousSelector /\ n.row.previousKey = d.previousKey
           /\ n.row.flags["dkim"] => d.flags["dkim"] \/ result["dkim"] = "pass"
           /\ n.event \in {"verified", "failed", "none"}
           /\ n.event = "verified" => /\ ~d.verified /\ n.row.verified
                                      /\ \A c \in DnsCheckNames : result[c] = "pass"
           /\ n.event = "failed" => d.verified /\ ~n.row.verified
           /\ n.event = "none" => n.row.verified = d.verified
<1> DEFINE outcome == OverallOutcome(result)
           fails == CASE outcome = "pass" -> 0
                      [] outcome = "fail" /\ d.failures < FlipAfterFailures -> d.failures + 1
                      [] OTHER -> d.failures
           settled == outcome = "fail" /\ fails = FlipAfterFailures
           event == CASE outcome = "pass" /\ ~d.verified -> "verified"
                      [] settled /\ d.verified -> "failed"
                      [] OTHER -> "none"
           fl == [c \in DnsCheckNames |-> NextFlag(d.flags[c], result[c], settled)]
           v == event = "verified" \/ (d.verified /\ event # "failed")
           row == [d EXCEPT !.flags = fl, !.verified = v, !.failures = fails, !.due = FALSE]
<1>1. NextDomainCheckState(d, result) = [row |-> row, event |-> event]
  BY DEF NextDomainCheckState
<1>2. outcome = "pass" => \A c \in DnsCheckNames : result[c] = "pass"
  BY DEF OverallOutcome
<1>3. d.verified \in BOOLEAN /\ d.flags \in [DnsCheckNames -> BOOLEAN] /\ d.failures \in 0..FlipAfterFailures
  BY DEF DomainRow
<1>4. fails \in 0..FlipAfterFailures
  BY <1>3 DEF FlipAfterFailures
<1>5. fl \in [DnsCheckNames -> BOOLEAN]
  BY DEF NextFlag
<1>6. fl["dkim"] => d.flags["dkim"] \/ result["dkim"] = "pass"
  BY DEF NextFlag, DnsCheckNames
<1>7. /\ event \in {"verified", "failed", "none"}
      /\ event = "verified" => outcome = "pass" /\ ~d.verified
      /\ event = "failed" => d.verified
  <2>1. CASE outcome = "pass" /\ ~d.verified
    BY <2>1
  <2>2. CASE ~(outcome = "pass" /\ ~d.verified) /\ settled /\ d.verified
    BY <2>2
  <2>3. CASE ~(outcome = "pass" /\ ~d.verified) /\ ~(settled /\ d.verified)
    BY <2>3
  <2> QED
    BY <2>1, <2>2, <2>3
<1> HIDE DEF outcome, fails, settled, event, fl
<1>8. /\ v \in BOOLEAN /\ (event = "verified" => v) /\ (event = "failed" => ~v)
      /\ (event = "none" => v = d.verified)
  BY <1>3, <1>7
<1> HIDE DEF v
<1>9. /\ row \in DomainRow
      /\ row.id = d.id /\ row.selector = d.selector /\ row.key = d.key
      /\ row.pendingSelector = d.pendingSelector /\ row.pendingKey = d.pendingKey
      /\ row.previousSelector = d.previousSelector /\ row.previousKey = d.previousKey
      /\ row.flags = fl /\ row.verified = v
  BY <1>4, <1>5, <1>8 DEF DomainRow
<1> HIDE DEF row
<1> QED
  BY <1>1, <1>2, <1>6, <1>7, <1>8, <1>9

\* ApplyDomainCheck keeps the invariant.
LEMMA ApplyDomainCheckKept ==
    ASSUME DomainsKept, NEW r \in Requests, ApplyDomainCheck(r)
    PROVE  DomainsKept'
<1> DEFINE q == request[r]
<1> DEFINE there == Registered /\ domain.id = q.id
<1> DEFINE next == NextDomainCheckState(domain, q.result)
<1>1. /\ q.kind \in {"verify", "job", "send"} /\ q \in RequestRecord /\ RequestKept(q) /\ q.pc = "write"
  BY RequestThere DEF ApplyDomainCheck
<1>2. /\ UNCHANGED <<zone, policy, transit, readable, today, keysMade, seen,
                     allPassed, dnsChanges, restarts, world>>
      /\ domain' = IF there THEN next.row ELSE domain
      /\ balance' = IF ~there THEN balance
                    ELSE CASE next.event = "verified" -> balance + 1
                           [] next.event = "failed" -> balance - 1
                           [] OTHER -> balance
      /\ Finish(r)
  BY DEF ApplyDomainCheck
<1>3. refusedUntil' \in BOOLEAN
  BY DEF ApplyDomainCheck, DomainsKept, DomainsTyped
<1>4. /\ request' \in [Requests -> RequestRecord \cup {NoRequest}]
      /\ request'[r] = NoRequest
      /\ \A z \in Requests \ {r} : request'[z] = request[z]
  BY <1>2, RequestEnds
<1>5. /\ keysMade <= keysMade' /\ seen \subseteq seen' /\ readable \subseteq readable'
      /\ \A p \in seen' \cup readable' : p <= keysMade'
  BY <1>2 DEF DomainsKept, DomainsTyped, KeyMade
<1>6. \A z \in Requests : request'[z].kind = "send" =>
              request[z].kind = "send" /\ request'[z].id = request[z].id
  BY <1>4 DEF NoRequest
<1>7. CASE ~there
  <2>1. domain' = domain /\ balance' = balance
    BY <1>2, <1>7
  <2>2. DomainsTyped'
    BY <1>2, <1>3, <1>4, <2>1 DEF DomainsKept, DomainsTyped
  <2>3. RowCarried
    BY <1>2, <2>1, CarriedAsItWas DEF Registered
  <2>4. Registered' => RowKept'
    BY <1>2, <2>1, RowStands DEF Registered
  <2>5. ~Registered' => balance' = 0
    BY <2>1 DEF DomainsKept, Registered
  <2>6. Registered' => \A r1, r2 \in Requests : InlineSend(r1)' /\ InlineSend(r2)' => r1 = r2
    BY <1>6, <2>2, <2>3, InlineStands
  <2> QED
    BY <1>2, <1>4, <1>5, <2>2, <2>3, <2>4, <2>5, <2>6, DomainsOnward
<1>8. CASE there
  <2>1. Registered /\ domain.id = q.id /\ domain \in DomainRow /\ RowKept
    BY <1>8, RowThere
  <2>2. q.result \in [DnsCheckNames -> DnsCheckStatus]
    BY <1>1 DEF RequestRecord
  <2>3. PICK row, event : row = next.row /\ event = next.event
    OBVIOUS
  <2>4. /\ row \in DomainRow
        /\ row.id = domain.id /\ row.selector = domain.selector /\ row.key = domain.key
        /\ row.pendingSelector = domain.pendingSelector /\ row.pendingKey = domain.pendingKey
        /\ row.previousSelector = domain.previousSelector /\ row.previousKey = domain.previousKey
        /\ row.flags["dkim"] => domain.flags["dkim"] \/ q.result["dkim"] = "pass"
        /\ event \in {"verified", "failed", "none"}
        /\ event = "verified" => /\ ~domain.verified /\ row.verified
                                 /\ \A c \in DnsCheckNames : q.result[c] = "pass"
        /\ event = "failed" => domain.verified /\ ~row.verified
        /\ event = "none" => row.verified = domain.verified
    BY <2>1, <2>2, <2>3, CheckState
  <2>5. /\ domain' = row
        /\ balance' = CASE event = "verified" -> balance + 1
                        [] event = "failed" -> balance - 1
                        [] OTHER -> balance
    BY <1>2, <1>8, <2>3
  <2>6. Registered'
    BY <2>1, <2>4, <2>5, StaysRegistered
  <2>7. balance \in Int /\ balance = (IF domain.verified THEN 1 ELSE 0) /\ domain.verified \in BOOLEAN
        /\ row.verified \in BOOLEAN
    BY <2>1, <2>4 DEF RowKept, DomainsKept, DomainsTyped, DomainRow
  <2>8. balance' = (IF row.verified THEN 1 ELSE 0) /\ balance' \in Int
    BY <2>4, <2>5, <2>7
  <2>9. DomainsTyped'
    BY <1>2, <1>3, <1>4, <2>4, <2>5, <2>8 DEF DomainsKept, DomainsTyped
  <2>10. RowCarried
    BY <1>2, <2>1, <2>4, <2>5, CarriedAsItWas
  <2>11. row.verified => allPassed
    <3>1. event = "verified" => allPassed
      BY <1>1, <2>1, <2>4 DEF RequestKept
    <3>2. domain.verified => allPassed
      BY <2>1 DEF RowKept
    <3> QED
      BY <2>4, <2>7, <3>1, <3>2
  <2>12. row.flags["dkim"] => domain.key \in seen
    <3>1. domain.flags["dkim"] => domain.key \in seen
      BY <2>1 DEF RowKept
    <3>2. q.result["dkim"] = "pass" => domain.key \in seen
      BY <1>1, <2>1 DEF RequestKept
    <3> QED
      BY <2>4, <3>1, <3>2
  <2>13. RowKept'
    BY <1>2, <2>1, <2>4, <2>5, <2>8, <2>11, <2>12 DEF RowKept, KeyMade, RotationPending
  <2>14. Registered' => \A r1, r2 \in Requests : InlineSend(r1)' /\ InlineSend(r2)' => r1 = r2
    BY <1>6, <2>9, <2>10, InlineStands
  <2> QED
    BY <1>2, <1>4, <1>5, <2>6, <2>9, <2>10, <2>13, <2>14, DomainsOnward
<1> QED
  BY <1>7, <1>8

\* CompleteDkimRotation keeps the invariant.
LEMMA CompleteDkimRotationKept ==
    ASSUME DomainsKept, NEW r \in Requests, CompleteDkimRotation(r)
    PROVE  DomainsKept'
<1> DEFINE q == request[r]
<1>1. q.kind = "complete" /\ q.pc = "write" /\ q \in RequestRecord /\ RequestKept(q)
  BY RequestThere DEF CompleteDkimRotation, Running
<1>2. /\ UNCHANGED <<zone, policy, refusedUntil, transit, readable, today, keysMade,
                     balance, seen, allPassed, dnsChanges, restarts, world>>
      /\ Finish(r)
  BY DEF CompleteDkimRotation
<1>3. /\ request' \in [Requests -> RequestRecord \cup {NoRequest}]
      /\ request'[r] = NoRequest
      /\ \A z \in Requests \ {r} : request'[z] = request[z]
  BY <1>2, RequestEnds
<1>4. /\ keysMade <= keysMade' /\ seen \subseteq seen' /\ readable \subseteq readable'
      /\ \A p \in seen' \cup readable' : p <= keysMade'
  BY <1>2 DEF DomainsKept, DomainsTyped, KeyMade
<1>5. \A z \in Requests : request'[z].kind = "send" =>
              request[z].kind = "send" /\ request'[z].id = request[z].id
  BY <1>3 DEF NoRequest
<1>6. CASE ~StillPending(q)
  <2>1. domain' = domain
    BY <1>6 DEF CompleteDkimRotation
  <2>2. DomainsTyped'
    BY <1>2, <1>3, <2>1 DEF DomainsKept, DomainsTyped
  <2>3. RowCarried
    BY <1>2, <2>1, CarriedAsItWas DEF Registered
  <2>4. Registered' => RowKept'
    BY <1>2, <2>1, RowStands DEF Registered
  <2>5. ~Registered' => balance' = 0
    BY <1>2, <2>1 DEF DomainsKept, Registered
  <2>6. Registered' => \A r1, r2 \in Requests : InlineSend(r1)' /\ InlineSend(r2)' => r1 = r2
    BY <1>5, <2>2, <2>3, InlineStands
  <2> QED
    BY <1>2, <1>3, <1>4, <2>2, <2>3, <2>4, <2>5, <2>6, DomainsOnward
<1>7. CASE StillPending(q)
  <2>1. /\ Registered /\ domain \in DomainRow /\ RowKept
        /\ domain.pendingSelector = q.selector /\ domain.pendingKey = q.key
    BY <1>7, RowThere DEF StillPending
  <2>2. PICK s \in Selectors, k \in Keys : s = q.selector /\ k = q.key
    BY <1>1 DEF RequestRecord
  <2>3. domain' = [domain EXCEPT
                         !.selector = s, !.key = k,
                         !.flags["dkim"] = TRUE,
                         !.previousSelector = domain.selector,
                         !.previousKey = domain.key,
                         !.pendingSelector = NoSelector, !.pendingKey = NoKey]
    BY <1>7, <2>2 DEF CompleteDkimRotation
  <2>4. /\ domain' \in DomainRow
        /\ domain'.id = domain.id /\ domain'.selector = s /\ domain'.key = k
        /\ domain'.pendingSelector = NoSelector /\ domain'.pendingKey = NoKey
        /\ domain'.previousSelector = domain.selector /\ domain'.previousKey = domain.key
        /\ domain'.verified = domain.verified
    BY <2>1, <2>3 DEF DomainRow, DnsCheckNames
  <2>5. k \in seen
    BY <1>1, <2>2 DEF RequestKept
  <2>6. DomainsTyped'
    BY <1>2, <1>3, <2>4 DEF DomainsKept, DomainsTyped
  <2>7. RowCarried
    BY <1>2, <2>1, <2>2, <2>4, <2>5 DEF RowCarried, OldPair
  <2>8. RowKept'
    <3>1. /\ NoKey \notin seen /\ k # NoKey /\ s # NoSelector /\ NoKey <= keysMade
      BY <2>2, DomainConstants
         DEF DomainsKept, DomainsTyped, Keys, NoKey, Selectors, DefaultSelector, NoSelector
    <3> QED
      BY <1>2, <2>1, <2>2, <2>4, <2>5, <3>1 DEF RowKept, KeyMade, RotationPending
  <2>9. Registered'
    BY <2>1, <2>4, StaysRegistered
  <2>10. Registered' => \A r1, r2 \in Requests : InlineSend(r1)' /\ InlineSend(r2)' => r1 = r2
    BY <1>5, <2>6, <2>7, InlineStands
  <2> QED
    BY <1>2, <1>3, <1>4, <2>6, <2>7, <2>8, <2>9, <2>10, DomainsOnward
<1> QED
  BY <1>6, <1>7

\* The row's facts survive a change of the zone or of the mail under way that
\* keeps the records of seen keys.
LEMMA ZoneKept ==
    ASSUME DomainsKept,
           UNCHANGED <<domain, policy, request, refusedUntil, readable, today,
                       keysMade, balance, seen, allPassed, dnsChanges, restarts, world>>,
           zone' \in [Selectors -> Keys \cup {NoKey}],
           transit' \subseteq Selectors \X Keys,
           \A m \in transit' : m \in transit \/ PairKept(m[1], m[2]),
           Registered =>
              /\ domain.key \in seen => zone'[domain.selector] = domain.key
              /\ domain.pendingKey \in seen => zone'[domain.pendingSelector] = domain.pendingKey
              /\ domain.previousKey \in seen /\ (\E m \in transit' : m[2] = domain.previousKey) =>
                    zone'[domain.previousSelector] = domain.previousKey
    PROVE  DomainsKept'
<1>1. DomainsTyped'
  BY DEF DomainsKept, DomainsTyped
<1>2. RowCarried
  BY CarriedAsItWas DEF Registered
<1>3. Registered' => RowKept'
  BY DEF DomainsKept, RowKept, KeyMade, RotationPending, Registered
<1>4. Registered' => \A r1, r2 \in Requests : InlineSend(r1)' /\ InlineSend(r2)' => r1 = r2
  BY <1>1, <1>2, InlineStands
<1>5. /\ keysMade <= keysMade' /\ seen \subseteq seen' /\ readable \subseteq readable'
      /\ \A p \in seen' \cup readable' : p <= keysMade'
  BY DEF DomainsKept, DomainsTyped, KeyMade
<1>6. ~Registered' => balance' = 0
  BY DEF DomainsKept, Registered
<1>7. \A m \in transit' : m \in transit \/ PairKept(m[1], m[2])'
  BY DEF PairKept, KeyMade, Registered
<1> QED
  BY <1>1, <1>2, <1>3, <1>4, <1>5, <1>6, <1>7, DomainsOnward

\* SignMail keeps the invariant.
LEMMA SignMailKept ==
    ASSUME DomainsKept, SignMail
    PROVE  DomainsKept'
<1>1. Registered /\ RowKept /\ domain.selector \in Selectors /\ domain.key \in Keys
      /\ PairKept(domain.selector, domain.key)
  BY RowThere, PairsOfRow DEF SignMail
<1>2. /\ transit' = transit \cup {<<domain.selector, domain.key>>}
      /\ UNCHANGED <<domain, zone, policy, request, refusedUntil, readable, today,
                     keysMade, balance, seen, allPassed, dnsChanges, restarts, world>>
  BY DEF SignMail
<1>3. zone' \in [Selectors -> Keys \cup {NoKey}] /\ transit' \subseteq Selectors \X Keys
  BY <1>1, <1>2 DEF DomainsKept, DomainsTyped
<1>4. \A m \in transit' : m \in transit \/ PairKept(m[1], m[2])
  BY <1>1, <1>2
<1>5. (\E m \in transit' : m[2] = domain.previousKey) => \E m \in transit : m[2] = domain.previousKey
  BY <1>1, <1>2 DEF RowKept
<1>6. /\ domain.key \in seen => zone'[domain.selector] = domain.key
      /\ domain.pendingKey \in seen => zone'[domain.pendingSelector] = domain.pendingKey
      /\ domain.previousKey \in seen /\ (\E m \in transit' : m[2] = domain.previousKey) =>
            zone'[domain.previousSelector] = domain.previousKey
  BY <1>1, <1>2, <1>5 DEF RowKept
<1> QED
  BY <1>2, <1>3, <1>4, <1>6, ZoneKept

\* Publish keeps the invariant.
LEMMA PublishKept ==
    ASSUME DomainsKept, Publish
    PROVE  DomainsKept'
<1>1. /\ Registered /\ RowKept /\ domain.selector \in Selectors /\ domain.key \in Keys
      /\ domain.pendingKey # NoKey => domain.pendingSelector \in Selectors /\ domain.pendingKey \in Keys
  BY RowThere, PairsOfRow DEF Publish
<1>2. /\ UNCHANGED <<domain, policy, request, refusedUntil, transit, readable, today,
                     keysMade, balance, seen, allPassed, dnsChanges, restarts, world>>
      /\ \E p \in {<<domain.selector, domain.key>>,
                   <<domain.pendingSelector, domain.pendingKey>>} :
            p[2] # NoKey /\ zone' = [zone EXCEPT ![p[1]] = p[2]]
  BY DEF Publish
<1>3. zone \in [Selectors -> Keys \cup {NoKey}] /\ transit \subseteq Selectors \X Keys
      /\ NoKey \notin seen
  BY DomainConstants DEF DomainsKept, DomainsTyped, Keys, NoKey
<1>4. \/ zone' = [zone EXCEPT ![domain.selector] = domain.key]
      \/ domain.pendingKey # NoKey /\ zone' = [zone EXCEPT ![domain.pendingSelector] = domain.pendingKey]
  <2>1. ASSUME NEW s, NEW k, k # NoKey, zone' = [zone EXCEPT ![<<s, k>>[1]] = <<s, k>>[2]]
        PROVE  zone' = [zone EXCEPT ![s] = k]
    BY <2>1
  <2>2. PICK p \in {<<domain.selector, domain.key>>,
                    <<domain.pendingSelector, domain.pendingKey>>} :
            p[2] # NoKey /\ zone' = [zone EXCEPT ![p[1]] = p[2]]
    BY <1>2
  <2>3. CASE p = <<domain.selector, domain.key>>
    BY <2>1, <2>2, <2>3
  <2>4. CASE p = <<domain.pendingSelector, domain.pendingKey>>
    BY <2>1, <2>2, <2>4
  <2> QED
    BY <2>2, <2>3, <2>4
<1>5. zone' \in [Selectors -> Keys \cup {NoKey}]
  BY <1>1, <1>3, <1>4
<1>6. /\ domain.key \in seen => zone'[domain.selector] = domain.key
      /\ domain.pendingKey \in seen => zone'[domain.pendingSelector] = domain.pendingKey
  BY <1>1, <1>3, <1>4 DEF RowKept
<1>7. domain.previousKey \in seen /\ (\E m \in transit' : m[2] = domain.previousKey) =>
            zone'[domain.previousSelector] = domain.previousKey
  <2> SUFFICES ASSUME domain.previousKey \in seen, NEW m \in transit', m[2] = domain.previousKey
               PROVE  zone'[domain.previousSelector] = domain.previousKey
    OBVIOUS
  <2>1. zone[domain.previousSelector] = domain.previousKey /\ m \in transit
    BY <1>1, <1>2 DEF RowKept
  <2>2. domain.previousSelector = m[1] /\ m[1] \in Selectors
    BY <1>1, <1>3, <2>1 DEF DomainsKept, PairKept
  <2> QED
    BY <1>1, <1>3, <1>4, <2>1, <2>2 DEF RowKept
<1> QED
  BY <1>2, <1>3, <1>5, <1>6, <1>7, ZoneKept

\* Unpublish keeps the invariant.
LEMMA UnpublishKept ==
    ASSUME DomainsKept, NEW s \in Selectors, Unpublish(s)
    PROVE  DomainsKept'
<1>1. /\ UNCHANGED <<domain, policy, request, refusedUntil, transit, readable, today,
                     keysMade, balance, seen, allPassed, dnsChanges, restarts, world>>
      /\ zone' = [zone EXCEPT ![s] = NoKey]
      /\ Registered => /\ s \notin {domain.selector, domain.pendingSelector}
                       /\ s = domain.previousSelector => \A m \in transit : m[1] # s
  BY DEF Unpublish
<1>2. zone \in [Selectors -> Keys \cup {NoKey}] /\ transit \subseteq Selectors \X Keys
      /\ NoKey \notin seen
  BY DomainConstants DEF DomainsKept, DomainsTyped, Keys, NoKey
<1>3. zone' \in [Selectors -> Keys \cup {NoKey}]
  BY <1>1, <1>2
<1>4. ASSUME Registered
      PROVE  /\ domain.key \in seen => zone'[domain.selector] = domain.key
             /\ domain.pendingKey \in seen => zone'[domain.pendingSelector] = domain.pendingKey
  <2>1. /\ RowKept /\ domain.selector \in Selectors
        /\ domain.pendingKey # NoKey => domain.pendingSelector \in Selectors
    BY <1>4, RowThere, PairsOfRow
  <2> QED
    BY <1>1, <1>2, <1>4, <2>1 DEF RowKept
<1>5. ASSUME Registered, domain.previousKey \in seen, NEW m \in transit, m[2] = domain.previousKey
      PROVE  zone'[domain.previousSelector] = domain.previousKey
  <2>1. zone[domain.previousSelector] = domain.previousKey
    BY <1>5, RowThere DEF RowKept
  <2>2. domain.previousSelector = m[1] /\ m[1] \in Selectors
    BY <1>2, <1>5 DEF DomainsKept, PairKept
  <2> QED
    BY <1>1, <1>2, <1>5, <2>1, <2>2
<1> QED
  BY <1>1, <1>2, <1>3, <1>4, <1>5, ZoneKept

\* The first state has no domain.
LEMMA DomainsStarts == DomainsInit => DomainsKept
<1> SUFFICES ASSUME DomainsInit
             PROVE  DomainsKept
  OBVIOUS
<1>1. zone \in [Selectors -> Keys \cup {NoKey}] /\ request \in [Requests -> RequestRecord \cup {NoRequest}]
  BY DEF DomainsInit
<1>2. policy \in [{"spf", "dmarc"} -> BOOLEAN]
  BY DEF DomainsInit
<1>3. refusedUntil \in BOOLEAN /\ allPassed \in BOOLEAN
  BY Zenon DEF DomainsInit
<1>4. today \in 1..LastDay /\ keysMade \in 0..MaxKeys /\ balance \in Int
      /\ dnsChanges \in Nat /\ restarts \in Nat
  BY DomainConstants DEF DomainsInit
<1>5. /\ domain \in DomainRow \cup {NoDomain} /\ ~Registered /\ transit = {} /\ readable = {}
      /\ seen = {} /\ balance = 0
  BY DEF DomainsInit, Registered
<1>6. \A r \in Requests : request[r] = NoRequest
  BY DEF DomainsInit
<1> QED
  BY <1>1, <1>2, <1>3, <1>4, <1>5, <1>6 DEF DomainsKept, DomainsTyped

\* Every step keeps the invariant.
LEMMA DomainsStep == DomainsKept /\ [DomainsNext]_domainVars => DomainsKept'
<1> SUFFICES ASSUME DomainsKept, [DomainsNext]_domainVars
             PROVE  DomainsKept'
  OBVIOUS
<1>1. ASSUME NEW r \in Requests, DomainApi(r)
      PROVE  DomainsKept'
  BY <1>1, CreateDomainKept, DeleteDomainKept, BeginsKept DEF DomainApi
<1>2. ASSUME NEW r \in Requests, RotationApi(r)
      PROVE  DomainsKept'
  BY <1>2, StartDkimRotationKept, CancelDkimRotationKept, BeginsKept DEF RotationApi
<1>3. ASSUME NEW r \in Requests, Completion(r)
      PROVE  DomainsKept'
  BY <1>3, CheckDkimKeyPublishedKept, CompleteDkimRotationKept DEF Completion
<1>4. ASSUME NEW r \in Requests, Check(r)
      PROVE  DomainsKept'
  BY <1>4, LookUpKept, ApplyDomainCheckKept DEF Check
<1>5. ASSUME NEW r \in Requests, ClaimDueDomains(r) \/ RecheckDomain(r)
      PROVE  DomainsKept'
  BY <1>5, BeginsKept
<1>6. CASE SignMail \/ Publish \/ \E s \in Selectors : Unpublish(s)
  BY <1>6, SignMailKept, PublishKept, UnpublishKept
<1>7. CASE BecomesDue \/ RestartServer
  BY <1>7, BecomesDueKept, RestartServerKept
<1>8. CASE \/ \E n \in {"spf", "dmarc"} : ChangePolicy(n)
           \/ ForgetFailure \/ NextDay
           \/ \E m \in transit : MailArrives(m)
           \/ UNCHANGED domainVars
  BY <1>8, OutsideRowKept
<1> QED
  BY <1>1, <1>2, <1>3, <1>4, <1>5, <1>6, <1>7, <1>8 DEF DomainsNext

\* The invariant holds in every behaviour.
LEMMA DomainsStays == DomainsSpec => []DomainsKept
  BY DomainsStarts, DomainsStep, PTL DEF DomainsSpec

\* At most one send of the row looks.
LEMMA OneInline == DomainsKept => OneInlineCheck
<1> SUFFICES ASSUME DomainsKept, Registered
             PROVE  Cardinality({r \in Requests : InlineSend(r)}) <= 1
  BY DEF OneInlineCheck, InlineSend
<1> DEFINE S == {r \in Requests : InlineSend(r)}
<1>1. \A a, b \in S : a = b
  BY DEF DomainsKept
<1>2. CASE S = {}
  <2>1. Cardinality(S) = 0
    BY <1>2, FS_EmptySet
  <2> QED
    BY <2>1
<1>3. CASE S # {}
  <2>1. PICK a \in S : TRUE
    BY <1>3
  <2>2. S = {a}
    BY <1>1, <2>1
  <2>3. Cardinality({a}) = 1
    BY FS_Singleton
  <2> QED
    BY <2>2, <2>3
<1> QED
  BY <1>2, <1>3

\* Whatever rotations, checks and sends overlap, the row says of the DNS what a
\* lookup found there: the DKIM flag is up only for an active key that was seen,
\* the verification and its events are those of checks that passed as a whole,
\* mail of the active and the previous key can be verified, and one send looks.
THEOREM DomainStaysTrue == DomainsSpec => []DomainIsTrue
<1>1. DomainsKept => DomainIsTrue
  <2> SUFFICES ASSUME DomainsKept
               PROVE  DomainIsTrue
    OBVIOUS
  <2>1. DomainTypeOK
    BY DEF DomainsKept, DomainsTyped, RowKept, DomainTypeOK
  <2>2. DkimFlagEarned /\ VerifiedIsAnnounced
    BY DEF DomainsKept, RowKept, DkimFlagEarned, VerifiedIsAnnounced
  <2>3. RecentMailVerifies
    <3> SUFFICES ASSUME NEW m \in transit, Registered, m[2] \in seen,
                        m[2] = domain.key \/ m[2] = domain.previousKey
                 PROVE  zone[m[1]] = m[2]
      BY DEF RecentMailVerifies
    <3>1. PairKept(m[1], m[2]) /\ RowKept
      BY DEF DomainsKept
    <3> QED
      BY <3>1 DEF PairKept, RowKept
  <2> QED
    BY <2>1, <2>2, <2>3, OneInline DEF DomainIsTrue
<1> QED
  BY <1>1, DomainsStays, PTL

\* completeDkimRotation switches only to a key that is published and decrypts at
\* that moment, though both were looked at before its transaction: nothing else
\* changes the key of a row that stays.
THEOREM SwitchesAreSafe == DomainsSpec => SwitchIsSafe
<1> DEFINE Safe == Registered /\ domain' # NoDomain /\ domain'.id = domain.id
                     /\ domain'.key # domain.key
                   => zone[domain'.selector] = domain'.key /\ domain'.key \in readable
<1>1. DomainsKept /\ [DomainsNext]_domainVars => [Safe]_domainVars
  <2> SUFFICES ASSUME DomainsKept, DomainsNext, Registered, domain' # NoDomain,
                      domain'.id = domain.id, domain'.key # domain.key
               PROVE  zone[domain'.selector] = domain'.key /\ domain'.key \in readable
    OBVIOUS
  <2>1. domain \in DomainRow /\ RowKept
    BY RowThere
  <2>2. ASSUME NEW r \in Requests
        PROVE  ~ApplyDomainCheck(r)
    <3> SUFFICES ASSUME ApplyDomainCheck(r)
                 PROVE  domain'.key = domain.key
      OBVIOUS
    <3>1. request[r].result \in [DnsCheckNames -> DnsCheckStatus]
      BY RequestThere DEF ApplyDomainCheck, RequestRecord
    <3>2. NextDomainCheckState(domain, request[r].result).row.key = domain.key
      BY <2>1, <3>1, CheckState
    <3> QED
      BY <3>2 DEF ApplyDomainCheck
  <2>3. ~BecomesDue /\ ~StartDkimRotation /\ ~CancelDkimRotation
    BY <2>1 DEF BecomesDue, StartDkimRotation, CancelDkimRotation, DomainRow
  <2>4. ~CreateDomain /\ ~DeleteDomain
    BY DEF CreateDomain, DeleteDomain
  <2>5. \A r \in Requests : ~ClaimDueDomains(r)
    BY <2>1 DEF ClaimDueDomains, DomainRow
  <2>6. domain' # domain
    OBVIOUS
  <2>7. PICK r \in Requests : CompleteDkimRotation(r)
    BY <2>2, <2>3, <2>4, <2>5, <2>6
       DEF DomainsNext, DomainApi, RotationApi, Completion, Check, VerifyDomain, ReadPendingKey,
           CheckDkimKeyPublished, LookUp, RecheckDomain, SignMail, MailArrives, Publish,
           Unpublish, ChangePolicy, ForgetFailure, NextDay, RestartServer
  <2> DEFINE q == request[r]
  <2>8. q.kind = "complete" /\ q.pc = "write" /\ q \in RequestRecord /\ RequestKept(q)
    BY <2>7, RequestThere DEF CompleteDkimRotation, Running
  <2>9. StillPending(q)
    BY <2>6, <2>7 DEF CompleteDkimRotation
  <2>10. PICK s \in Selectors, k \in Keys : s = q.selector /\ k = q.key
    BY <2>8 DEF RequestRecord
  <2>11. domain' = [domain EXCEPT
                         !.selector = s, !.key = k,
                         !.flags["dkim"] = TRUE,
                         !.previousSelector = domain.selector,
                         !.previousKey = domain.key,
                         !.pendingSelector = NoSelector, !.pendingKey = NoKey]
    BY <2>7, <2>9, <2>10 DEF CompleteDkimRotation
  <2>12. domain'.selector = s /\ domain'.key = k
    BY <2>1, <2>11 DEF DomainRow
  <2>13. k \in seen /\ k \in readable
    BY <2>8, <2>10 DEF RequestKept
  <2> QED
    BY <2>1, <2>9, <2>10, <2>12, <2>13 DEF RowKept, StillPending
<1>2. SwitchIsSafe <=> [][Safe]_domainVars
  BY DEF SwitchIsSafe
<1> QED
  BY <1>1, <1>2, DomainsStays, PTL DEF DomainsSpec
=============================================================================
