------------------------------ MODULE Domains -------------------------------
(***************************************************************************)
(* One sender domain: its row, its DKIM key rotation, the DNS checks that  *)
(* verify it (by request, by the re-verification job, inline by a send)    *)
(* and the mail signed with its keys.                                      *)
(*                                                                         *)
(* Every check and every completion reads the row, asks the DNS without a  *)
(* lock and writes in a transaction of its own, so each may work on a row  *)
(* that has changed meanwhile.                                             *)
(***************************************************************************)
EXTENDS Integers, FiniteSets

CONSTANTS
    Requests,           \* requests and job workers that may run at once
    RequireVerified,    \* REQUIRE_VERIFIED_DOMAIN
    Worlds,             \* bound: sets of things that happen in one behaviour
    LastDay,            \* bound: days on which rotations start
    MaxKeys,            \* bound: DKIM key pairs generated
    MaxDnsChanges,      \* bound: SPF and DMARC records broken or repaired
    MaxRestarts         \* bound: restarts

ASSUME DomainConstants ==
    /\ RequireVerified \in BOOLEAN
    /\ LastDay \in Nat \ {0} /\ MaxKeys \in Nat \ {0}
    /\ MaxDnsChanges \in Nat /\ MaxRestarts \in Nat

VARIABLES
    domain,         \* the row, or NoDomain
    zone,           \* TXT records at <selector>._domainkey: key, or NoKey
    policy,         \* whether the SPF and the DMARC record are good
    request,        \* requests in flight
    refusedUntil,   \* the sender check remembers a failure (unverifiedUntil)
    transit,        \* signed mail no receiver has verified yet
    readable,       \* keys DKIM_ENCRYPTION_KEY decrypts
    today,          \* the date
    keysMade,       \* keys generated so far
    balance,        \* history: domain.verified minus verification_failed events
    seen,           \* history: keys a lookup found published
    allPassed,      \* history: some check of this domain passed as a whole
    dnsChanges, restarts,
    world           \* what happens in this behaviour

domainVars == <<domain, zone, policy, request, refusedUntil, transit, readable,
                today, keysMade, balance, seen, allPassed, dnsChanges, restarts,
                world>>

-----------------------------------------------------------------------------
NoKey == 0
NoSelector == <<0, 0>>
NoDomain == [id |-> NoKey]
NoRequest == [kind |-> "none"]
DefaultSelector == <<0, 1>>                 \* "bunmail"

\* bm<date>, bm<date>-2, bm<date>-3: two taken names leave one of them free.
Selectors == {DefaultSelector} \cup (1..LastDay) \X (1..3)
Keys == 1..MaxKeys
DnsCheckNames == {"spf", "dkim", "dmarc"}
DnsCheckStatus == {"pass", "fail", "unknown"}
FlipAfterFailures == 2

\* A row is known by the first key it had.  failures saturates: only whether
\* it has reached FlipAfterFailures is ever asked.
DomainRow ==
    [id : Keys, selector : Selectors, key : Keys,
     pendingSelector : Selectors \cup {NoSelector}, pendingKey : Keys \cup {NoKey},
     previousSelector : Selectors \cup {NoSelector}, previousKey : Keys \cup {NoKey},
     flags : [DnsCheckNames -> BOOLEAN], verified : BOOLEAN,
     failures : 0..FlipAfterFailures, due : BOOLEAN]

Registered == domain # NoDomain
RotationPending == domain.pendingSelector # NoSelector

-----------------------------------------------------------------------------
(* Pure parts.                                                             *)

\* Mutant: the first name of the day, taken or not.
FirstSelectorOfDay(day, taken) == <<day, 1>>

\* The selector of a new rotation: the first name of the day not taken.
DatedDkimSelector(day, taken) ==
    <<day, CHOOSE n \in 1..3 : /\ <<day, n>> \notin taken
                               /\ \A k \in 1..(n - 1) : <<day, k>> \in taken>>

\* What the lookup of a DKIM record says about a key.
DkimRecordsMatchKey(selector, key) == zone[selector] = key

\* The DNS answers now; any lookup may also fail for the moment.
VerifyDKIM(selector, key) ==
    {"unknown", IF DkimRecordsMatchKey(selector, key) THEN "pass" ELSE "fail"}
VerifyPolicy(name) == {"unknown", IF policy[name] THEN "pass" ELSE "fail"}
RunDnsChecks(selector, key) ==
    {r \in [DnsCheckNames -> DnsCheckStatus] :
        /\ r["spf"] \in VerifyPolicy("spf")
        /\ r["dkim"] \in VerifyDKIM(selector, key)
        /\ r["dmarc"] \in VerifyPolicy("dmarc")}

OverallOutcome(result) ==
    CASE \E n \in DnsCheckNames : result[n] = "fail" -> "fail"
      [] \A n \in DnsCheckNames : result[n] = "pass" -> "pass"
      [] OTHER -> "unknown"

NextFlag(previous, checked, settled) ==
    checked = "pass" \/ (previous /\ ~(checked = "fail" /\ settled))

\* The row after a check, and the event it raises.
NextDomainCheckState(row, result) ==
    LET outcome == OverallOutcome(result)
        fails == CASE outcome = "pass" -> 0
                   [] outcome = "fail" /\ row.failures < FlipAfterFailures -> row.failures + 1
                   [] OTHER -> row.failures
        settled == outcome = "fail" /\ fails = FlipAfterFailures
        event == CASE outcome = "pass" /\ ~row.verified -> "verified"
                   [] settled /\ row.verified -> "failed"
                   [] OTHER -> "none"
    IN  [row |-> [row EXCEPT
                    !.flags = [n \in DnsCheckNames |-> NextFlag(row.flags[n], result[n], settled)],
                    !.verified = event = "verified" \/ (row.verified /\ event # "failed"),
                    !.failures = fails,
                    !.due = FALSE],
         event |-> event]

-----------------------------------------------------------------------------
DomainsInit ==
    /\ domain = NoDomain
    /\ zone = [s \in Selectors |-> NoKey]
    /\ policy = [n \in {"spf", "dmarc"} |-> TRUE]
    /\ request = [r \in Requests |-> NoRequest]
    /\ refusedUntil = FALSE
    /\ transit = {}
    /\ readable = {}
    /\ today = 1
    /\ keysMade = 0
    /\ balance = 0
    /\ seen = {}
    /\ allPassed = FALSE
    /\ dnsChanges = 0
    /\ restarts = 0
    /\ world \in Worlds

Running(r, kind, pc) == /\ request[r].kind = kind
                        /\ request[r].pc = pc
Finish(r) == request' = [request EXCEPT ![r] = NoRequest]
NewRequest(r, kind, selector, key) ==
    request' = [request EXCEPT ![r] =
        [kind |-> kind, pc |-> "dns", id |-> domain.id, selector |-> selector,
         key |-> key, result |-> [n \in DnsCheckNames |-> "unknown"]]]

\* POST /domains: a key pair; the unique name refuses a second row.
CreateDomain ==
    /\ ~Registered
    /\ keysMade < MaxKeys
    /\ keysMade' = keysMade + 1
    /\ readable' = readable \cup {keysMade'}
    /\ domain' = [id |-> keysMade', selector |-> DefaultSelector, key |-> keysMade',
                  pendingSelector |-> NoSelector, pendingKey |-> NoKey,
                  previousSelector |-> NoSelector, previousKey |-> NoKey,
                  flags |-> [n \in DnsCheckNames |-> FALSE], verified |-> FALSE,
                  failures |-> 0, due |-> TRUE]
    /\ UNCHANGED <<zone, policy, request, refusedUntil, transit, today, balance,
                   seen, allPassed, dnsChanges, restarts, world>>

DeleteDomain ==
    /\ "delete" \in world
    /\ Registered
    /\ domain' = NoDomain
    /\ balance' = 0
    /\ allPassed' = FALSE
    /\ UNCHANGED <<zone, policy, request, refusedUntil, transit, readable, today,
                   keysMade, seen, dnsChanges, restarts, world>>

\* POST /domains/:id/dkim/rotate: a new key beside the active one.
StartDkimRotation ==
    /\ "rotate" \in world
    /\ Registered
    /\ ~RotationPending
    /\ keysMade < MaxKeys
    /\ keysMade' = keysMade + 1
    /\ readable' = readable \cup {keysMade'}
    /\ domain' = [domain EXCEPT
          !.pendingSelector = DatedDkimSelector(today,
                                 {domain.selector, domain.previousSelector}),
          !.pendingKey = keysMade']
    /\ UNCHANGED <<zone, policy, request, refusedUntil, transit, today, balance,
                   seen, allPassed, dnsChanges, restarts, world>>

CancelDkimRotation ==
    /\ Registered
    /\ RotationPending
    /\ domain' = [domain EXCEPT !.pendingSelector = NoSelector, !.pendingKey = NoKey]
    /\ UNCHANGED <<zone, policy, request, refusedUntil, transit, readable, today,
                   keysMade, balance, seen, allPassed, dnsChanges, restarts, world>>

\* POST .../complete, first half: the pending key is read, and must decrypt.
ReadPendingKey(r) ==
    /\ request[r] = NoRequest
    /\ Registered
    /\ RotationPending
    /\ domain.pendingKey \in readable
    /\ NewRequest(r, "complete", domain.pendingSelector, domain.pendingKey)
    /\ UNCHANGED <<domain, zone, policy, refusedUntil, transit, readable, today,
                   keysMade, balance, seen, allPassed, dnsChanges, restarts, world>>

\* The lookup of its record, without a lock.
CheckDkimKeyPublished(r) ==
    LET q == request[r] IN
    /\ Running(r, "complete", "dns")
    /\ \E answer \in VerifyDKIM(q.selector, q.key) :
          /\ IF answer = "pass" THEN request' = [request EXCEPT ![r].pc = "write"]
             ELSE Finish(r)
          /\ seen' = IF answer = "pass" THEN seen \cup {q.key} ELSE seen
    /\ UNCHANGED <<domain, zone, policy, refusedUntil, transit, readable, today,
                   keysMade, balance, allPassed, dnsChanges, restarts, world>>

\* Mutant: only the selector is compared.
SelectorStillPending(q) ==
    Registered /\ domain.id = q.id /\ domain.pendingSelector = q.selector

\* The key that was looked up is still the pending one.
StillPending(q) ==
    /\ Registered
    /\ domain.id = q.id
    /\ domain.pendingSelector = q.selector
    /\ domain.pendingKey = q.key

\* The transaction that makes the pending key the active one.
CompleteDkimRotation(r) ==
    LET q == request[r] IN
    /\ Running(r, "complete", "write")
    /\ domain' = IF StillPending(q)
                 THEN [domain EXCEPT
                         !.selector = q.selector, !.key = q.key,
                         !.flags["dkim"] = TRUE,
                         !.previousSelector = domain.selector,
                         !.previousKey = domain.key,
                         !.pendingSelector = NoSelector, !.pendingKey = NoKey]
                 ELSE domain
    /\ Finish(r)
    /\ UNCHANGED <<zone, policy, refusedUntil, transit, readable, today, keysMade,
                   balance, seen, allPassed, dnsChanges, restarts, world>>

-----------------------------------------------------------------------------
(* Checks.  kind says who asked: "verify", the "job" or a "send".          *)

\* POST /domains/:id/verify, or the dashboard's button.
VerifyDomain(r) ==
    /\ "verify" \in world
    /\ request[r] = NoRequest
    /\ Registered
    /\ NewRequest(r, "verify", domain.selector, domain.key)
    /\ UNCHANGED <<domain, zone, policy, refusedUntil, transit, readable, today,
                   keysMade, balance, seen, allPassed, dnsChanges, restarts, world>>

\* The job takes a domain that is due and leases it for 15 minutes.
ClaimDueDomains(r) ==
    /\ "job" \in world
    /\ request[r] = NoRequest
    /\ Registered
    /\ domain.due
    /\ domain' = [domain EXCEPT !.due = FALSE]
    /\ NewRequest(r, "job", domain.selector, domain.key)
    /\ UNCHANGED <<zone, policy, refusedUntil, transit, readable, today, keysMade,
                   balance, seen, allPassed, dnsChanges, restarts, world>>

\* A check by a send of this domain is under way.
InFlight == \E r \in Requests : request[r].kind = "send" /\ request[r].id = domain.id

\* checkSenderDomain, where it must look: the flag is down, no failure is
\* remembered and no other send is looking (a second one waits for it).
RecheckDomain(r) ==
    /\ "send" \in world
    /\ request[r] = NoRequest
    /\ Registered
    /\ RequireVerified
    /\ ~domain.flags["dkim"]
    /\ ~refusedUntil
    /\ ~InFlight
    /\ NewRequest(r, "send", domain.selector, domain.key)
    /\ UNCHANGED <<domain, zone, policy, refusedUntil, transit, readable, today,
                   keysMade, balance, seen, allPassed, dnsChanges, restarts, world>>

\* runDnsChecks, without a lock, on the selector and key that were read.
LookUp(r) ==
    LET q == request[r] IN
    /\ q.kind \in {"verify", "job", "send"} /\ q.pc = "dns"
    /\ \E result \in RunDnsChecks(q.selector, q.key) :
          /\ request' = [request EXCEPT ![r].pc = "write", ![r].result = result]
          /\ seen' = IF result["dkim"] = "pass" THEN seen \cup {q.key} ELSE seen
          /\ allPassed' = (allPassed \/ (Registered /\ domain.id = q.id
                                          /\ \A n \in DnsCheckNames : result[n] = "pass"))
    /\ UNCHANGED <<domain, zone, policy, refusedUntil, transit, readable, today,
                   keysMade, balance, dnsChanges, restarts, world>>

\* applyDomainCheck: the row is locked and moves on, whatever it is now.
ApplyDomainCheck(r) ==
    LET q == request[r]
        there == Registered /\ domain.id = q.id
        next == NextDomainCheckState(domain, q.result)
    IN  /\ q.kind \in {"verify", "job", "send"} /\ q.pc = "write"
        /\ domain' = IF there THEN next.row ELSE domain
        /\ balance' = IF ~there THEN balance
                      ELSE CASE next.event = "verified" -> balance + 1
                             [] next.event = "failed" -> balance - 1
                             [] OTHER -> balance
        /\ refusedUntil' = IF q.kind = "send" /\ there THEN q.result["dkim"] # "pass"
                           ELSE refusedUntil
        /\ Finish(r)
        /\ UNCHANGED <<zone, policy, transit, readable, today, keysMade, seen,
                       allPassed, dnsChanges, restarts, world>>

-----------------------------------------------------------------------------
(* Mail, the operator's DNS zone, time and restarts.                       *)

\* The queue signs with the active key, when it can read it.
SignMail ==
    /\ "mail" \in world
    /\ Registered
    /\ domain.key \in readable
    /\ transit' = transit \cup {<<domain.selector, domain.key>>}
    /\ UNCHANGED <<domain, zone, policy, request, refusedUntil, readable, today,
                   keysMade, balance, seen, allPassed, dnsChanges, restarts, world>>

\* A receiver has verified the mail, or given up.
MailArrives(m) ==
    /\ m \in transit
    /\ transit' = transit \ {m}
    /\ UNCHANGED <<domain, zone, policy, request, refusedUntil, readable, today,
                   keysMade, balance, seen, allPassed, dnsChanges, restarts, world>>

\* The operator publishes a record the domain page shows.
Publish ==
    /\ Registered
    /\ \E p \in {<<domain.selector, domain.key>>,
                 <<domain.pendingSelector, domain.pendingKey>>} :
          /\ p[2] # NoKey
          /\ zone' = [zone EXCEPT ![p[1]] = p[2]]
    /\ UNCHANGED <<domain, policy, request, refusedUntil, transit, readable, today,
                   keysMade, balance, seen, allPassed, dnsChanges, restarts, world>>

\* The operator removes a record the page no longer asks for; the previous
\* selector's is kept until its mail has arrived (the advised 7 days).
Unpublish(s) ==
    /\ "mail" \in world
    /\ zone[s] # NoKey
    /\ Registered =>
          /\ s \notin {domain.selector, domain.pendingSelector}
          /\ s = domain.previousSelector => \A m \in transit : m[1] # s
    /\ zone' = [zone EXCEPT ![s] = NoKey]
    /\ UNCHANGED <<domain, policy, request, refusedUntil, transit, readable, today,
                   keysMade, balance, seen, allPassed, dnsChanges, restarts, world>>

\* The SPF or the DMARC record breaks or is repaired.
ChangePolicy(n) ==
    /\ "policy" \in world
    /\ dnsChanges < MaxDnsChanges
    /\ dnsChanges' = dnsChanges + 1
    /\ policy' = [policy EXCEPT ![n] = ~@]
    /\ UNCHANGED <<domain, zone, request, refusedUntil, transit, readable, today,
                   keysMade, balance, seen, allPassed, restarts, world>>

\* next_check_at is reached: the interval, the hour after a problem, or the
\* lease of a check that is still running or was lost.
BecomesDue ==
    /\ Registered
    /\ ~domain.due
    /\ domain' = [domain EXCEPT !.due = TRUE]
    /\ UNCHANGED <<zone, policy, request, refusedUntil, transit, readable, today,
                   keysMade, balance, seen, allPassed, dnsChanges, restarts, world>>

\* Five minutes pass: the remembered failure is forgotten.
ForgetFailure ==
    /\ refusedUntil
    /\ refusedUntil' = FALSE
    /\ UNCHANGED <<domain, zone, policy, request, transit, readable, today,
                   keysMade, balance, seen, allPassed, dnsChanges, restarts, world>>

NextDay ==
    /\ "mail" \in world
    /\ today < LastDay
    /\ today' = today + 1
    /\ UNCHANGED <<domain, zone, policy, request, refusedUntil, transit, readable,
                   keysMade, balance, seen, allPassed, dnsChanges, restarts, world>>

\* Requests are lost; a changed DKIM_ENCRYPTION_KEY reads no older key.
RestartServer ==
    /\ "restart" \in world
    /\ restarts < MaxRestarts
    /\ restarts' = restarts + 1
    /\ request' = [r \in Requests |-> NoRequest]
    /\ refusedUntil' = FALSE
    /\ readable' \in {readable, {}}
    /\ UNCHANGED <<domain, zone, policy, transit, today, keysMade, balance, seen,
                   allPassed, dnsChanges, world>>

\* What the REST API offers.
DomainApi(r) == CreateDomain \/ DeleteDomain \/ VerifyDomain(r)
RotationApi(r) == StartDkimRotation \/ CancelDkimRotation \/ ReadPendingKey(r)

\* What a request or a job does next, on its own.
Completion(r) == CheckDkimKeyPublished(r) \/ CompleteDkimRotation(r)
Check(r) == LookUp(r) \/ ApplyDomainCheck(r)

DomainsNext ==
    \/ \E r \in Requests :
          \/ DomainApi(r) \/ RotationApi(r) \/ Completion(r) \/ Check(r)
          \/ ClaimDueDomains(r) \/ RecheckDomain(r)
    \/ SignMail \/ \E m \in transit : MailArrives(m)
    \/ Publish \/ \E s \in Selectors : Unpublish(s)
    \/ \E n \in {"spf", "dmarc"} : ChangePolicy(n)
    \/ BecomesDue \/ ForgetFailure \/ NextDay \/ RestartServer

DomainsSpec == DomainsInit /\ [][DomainsNext]_domainVars

-----------------------------------------------------------------------------
(* Properties.                                                             *)

\* The row is one the table can hold, and a rotation has a selector and a
\* key or neither.
DomainTypeOK ==
    /\ domain \in DomainRow \cup {NoDomain}
    /\ Registered => (RotationPending <=> domain.pendingKey # NoKey)

\* The DKIM flag is up only if a lookup has found the ACTIVE key published,
\* whichever rotation or late check wrote the flag last.
DkimFlagEarned == Registered /\ domain.flags["dkim"] => domain.key \in seen

\* verified_at is set only after one single check passed as a whole, and the
\* events subscribers saw say the same: they alternate, starting with
\* domain.verified.
VerifiedIsAnnounced ==
    Registered =>
        /\ balance = IF domain.verified THEN 1 ELSE 0
        /\ domain.verified => allPassed

\* Mail signed with the active or the previous key, once that key was seen
\* published, can be verified for as long as the operator keeps the records
\* the page asks for: no rotation takes over their names.
RecentMailVerifies ==
    \A m \in transit :
        Registered /\ m[2] \in seen \cap {domain.key, domain.previousKey} =>
            zone[m[1]] = m[2]

\* Sends of one domain share one inline check.
OneInlineCheck ==
    Registered =>
        Cardinality({r \in Requests : request[r].kind = "send" /\ request[r].id = domain.id}) <= 1

\* The key a rotation switches to is published and decrypts at that moment,
\* though both were looked at before the transaction.
SwitchIsSafe ==
    [][Registered /\ domain' # NoDomain /\ domain'.id = domain.id /\ domain'.key # domain.key
         => zone[domain'.selector] = domain'.key /\ domain'.key \in readable]_domainVars

\* The domain's row says of DNS what was seen there: no flag, no verification
\* event and no retired key outruns or outlives the lookups it rests on.
DomainIsTrue ==
    /\ DomainTypeOK /\ DkimFlagEarned /\ VerifiedIsAnnounced
    /\ RecentMailVerifies /\ OneInlineCheck
=============================================================================
