---------------------------- MODULE MailDelivery ----------------------------
(***************************************************************************)
(* sendMail: one email's attempts to reach its recipients' MX hosts.       *)
(* Each attempt signs the message, finds the MTA-STS policy and the MX     *)
(* hosts of every domain still owed mail, plans one session per host list, *)
(* fails over from host to host, and records an outcome per entry of the   *)
(* delivery state (mailer*.service.ts, mx-route.ts, mx-transport.ts,       *)
(* mta-sts*.ts).  Other emails share the policy cache.  What the queue     *)
(* does with the entries is EmailQueue; the bucket's lock and its rate are *)
(* MxSlots and TokenBuckets.  An MX host stands for one of its addresses.  *)
(***************************************************************************)
EXTENDS Integers, Sequences, FiniteSets

CONSTANTS
    Recipients,     \* of the email, numbered in header order by IndexOf
    IndexOf,
    DomainOf,       \* recipient -> domain
    MxOf,           \* domain -> MX hosts, by preference, at most five
    BucketOf,       \* MX host -> provider bucket
    SecureHosts,    \* MX hosts whose TLS certificate verifies
    StsModes,       \* domain -> modes its MTA-STS policy may have
    StsHosts,       \* MX hosts a policy lists
    MaxSends,       \* bound: attempts
    MaxMailFaults,  \* bound: outcomes other than an acceptance
    MaxPolicies     \* bound: policies published, and discoveries of others

MailDomains == {DomainOf[r] : r \in Recipients}
NoPolicy == [id |-> 0, mode |-> "none"]
AnyPolicy == [id : 0..MaxPolicies, mode : {"none", "testing", "enforce"}]

ASSUME MailConstants ==
    /\ \A r \in Recipients : IndexOf[r] \in Nat \ {0}
    /\ \A r, s \in Recipients : IndexOf[r] = IndexOf[s] => r = s
    /\ \A d \in MailDomains : MxOf[d] \in Seq(DOMAIN BucketOf)
    /\ \A d \in MailDomains : StsModes[d] \subseteq {"none", "testing", "enforce"}
    /\ MaxPolicies \in Nat

VARIABLES
    returnPath,     \* the send uses a signed return path per recipient
    entries,        \* delivery state: key -> recipients, status, attempts
    sending,        \* the attempt's phase
    found,          \* domain -> policy found for this attempt, or "unknown"
    plans,          \* sessions still to run
    plan,           \* the plan in progress
    published,      \* domain -> the policy it publishes
    cached,         \* domain -> the policy in the cache
    lookups,        \* domain -> the discovery in progress
    failedFetch,    \* domain -> id whose fetch failed lately
    sends, mailFaults, policies,
    copies,         \* recipient -> copies an MX accepted
    unanswered,     \* recipient -> acceptances whose reply was lost
    refusedFor,     \* recipients an MX, or DNS, refused for good
    exposed,        \* recipients sent to without the TLS their policy enforces
    spared          \* recipient -> attempts its entry was deferred in

mailVars == <<returnPath, entries, sending, found, plans, plan, published, cached,
              lookups, failedFetch, sends, mailFaults, policies, copies,
              unanswered, refusedFor, exposed, spared>>
stsVars == <<published, cached, lookups, failedFetch, policies>>
copyVars == <<copies, unanswered, refusedFor, exposed>>

Unknown == [id |-> 0, mode |-> "unknown"]
NoLookup == [at |-> "idle", id |-> 0]
Outcome(kind) == [kind |-> kind, hard |-> {}, soft |-> {}]
NoOutcomes == [k \in {} |-> Outcome("none")]
NoPlan == [hosts |-> <<>>, keys |-> {}, verified |-> FALSE, todo |-> {},
           in |-> FALSE, spent |-> FALSE, charged |-> {}, done |-> NoOutcomes]
MailFault == mailFaults < MaxMailFaults /\ mailFaults' = mailFaults + 1

\* A key of the state: a domain's group, or one recipient split from it.
GroupKey(d) == <<d, 0>>
With(f, k, v) == [x \in DOMAIN f \cup {k} |-> IF x = k THEN v ELSE f[x]]
KeysIn(status) == {k \in DOMAIN entries : entries[k].status = status}
PendingKeys(d) == {k \in KeysIn("retry") : k[1] = d}
Owed == {k[1] : k \in KeysIn("retry")}

(***************************************************************************)
(* mailer-state: entries of a new email, and one entry per return path.    *)
(***************************************************************************)
BuildInitialState ==
    [k \in {GroupKey(d) : d \in MailDomains} |->
        [to |-> {r \in Recipients : DomainOf[r] = k[1]}, status |-> "retry", attempts |-> 0]]

\* The pending entries of several recipients, and the keys of each alone.
SplitKeys == {k \in KeysIn("retry") : Cardinality(entries[k].to) > 1}
OwnKeys(k) == {<<k[1], IndexOf[r]>> : r \in entries[k].to}
SplitFrom(x) == {k \in SplitKeys : x \in OwnKeys(k)}
SplitEntry(k, x) == [entries[k] EXCEPT !.to = {r \in entries[k].to : IndexOf[r] = x[2]}]

\* splitPerRecipient: a pending entry of several becomes one entry for each.
SplitPerRecipient ==
    [x \in (DOMAIN entries \ SplitKeys) \cup UNION {OwnKeys(k) : k \in SplitKeys} |->
        IF SplitFrom(x) = {} THEN entries[x]
        ELSE SplitEntry(CHOOSE k \in SplitFrom(x) : TRUE, x)]

(***************************************************************************)
(* discoverMtaSts: one discovery per domain at a time; everybody who asks  *)
(* meanwhile shares its answer.                                            *)
(***************************************************************************)
Asks(d) == sending = "discover" /\ d \in Owed /\ found[d] = Unknown

\* The discovery of d ends with policy p.
Discovered(d, p) ==
    /\ found' = IF Asks(d) THEN [found EXCEPT ![d] = p] ELSE found
    /\ lookups' = [lookups EXCEPT ![d] = NoLookup]

\* Mutant: a domain without a TXT record has no policy any more.
KeptUnlessWithdrawn(d, txt) == IF txt = "none" THEN NoPolicy ELSE cached[d]

\* A policy is kept until it expires, whatever the TXT record says or hides.
Kept(d, txt) == cached[d]

\* discover: the TXT record; only a new id that did not fail lately is fetched.
LookupTxt(d, txt) ==
    LET id == published[d].id IN
    /\ lookups[d] = NoLookup
    /\ Asks(d)
    /\ txt = "id" => published[d] # NoPolicy
    /\ IF txt = "none" /\ published[d] = NoPolicy THEN UNCHANGED mailFaults
       ELSE IF txt # "id" THEN MailFault ELSE UNCHANGED mailFaults
    /\ IF txt # "id" \/ id \in {cached[d].id, failedFetch[d]}
       THEN Discovered(d, Kept(d, txt))
       ELSE /\ lookups' = [lookups EXCEPT ![d] = [at |-> "fetching", id |-> id]]
            /\ UNCHANGED found
    /\ UNCHANGED <<returnPath, entries, sending, plans, plan, published, cached,
                   failedFetch, sends, policies, copyVars, spared>>

\* fetchMtaStsPolicy answers with what is published by now, stored under the
\* id of the TXT record; or it fails, and is not tried again for a while.
FetchMtaStsPolicy(d) ==
    LET p == [published[d] EXCEPT !.id = lookups[d].id] IN
    /\ lookups[d].at = "fetching"
    /\ published[d] # NoPolicy
    /\ cached' = [cached EXCEPT ![d] = p]
    /\ failedFetch' = [failedFetch EXCEPT ![d] = 0]
    /\ Discovered(d, p)
    /\ UNCHANGED <<returnPath, entries, sending, plans, plan, published, sends,
                   mailFaults, policies, copyVars, spared>>
FetchFails(d) ==
    /\ lookups[d].at = "fetching"
    /\ MailFault
    /\ failedFetch' = [failedFetch EXCEPT ![d] = lookups[d].id]
    /\ Discovered(d, cached[d])
    /\ UNCHANGED <<returnPath, entries, sending, plans, plan, published, cached, sends,
                   policies, copyVars, spared>>

\* Another email's discovery fetches what is published; a policy or a failure
\* expires; the domain publishes another policy.
OtherDiscovers(d) ==
    /\ lookups[d] = NoLookup
    /\ published[d] # NoPolicy
    /\ cached[d] # published[d]
    /\ cached' = [cached EXCEPT ![d] = published[d]]
    /\ UNCHANGED <<returnPath, entries, sending, found, plans, plan, published, lookups,
                   failedFetch, sends, mailFaults, policies, copyVars, spared>>
PolicyExpires(d) ==
    /\ cached[d] # NoPolicy
    /\ MailFault
    /\ cached' = [cached EXCEPT ![d] = NoPolicy]
    /\ UNCHANGED <<returnPath, entries, sending, found, plans, plan, published, lookups,
                   failedFetch, sends, policies, copyVars, spared>>
PublishPolicy(d, mode) ==
    /\ policies < MaxPolicies
    /\ policies' = policies + 1
    /\ published' = [published EXCEPT ![d] = [id |-> policies + 1, mode |-> mode]]
    /\ UNCHANGED <<returnPath, entries, sending, found, plans, plan, cached, lookups,
                   failedFetch, sends, mailFaults, copyVars, spared>>

(***************************************************************************)
(* The attempt, up to its sessions.                                        *)
(***************************************************************************)

\* sendMail begins: the state is copied and split.
SendMail ==
    /\ sending = "idle"
    /\ sends < MaxSends
    /\ Owed # {}
    /\ sends' = sends + 1
    /\ entries' = IF returnPath THEN SplitPerRecipient ELSE entries
    /\ found' = [d \in MailDomains |-> Unknown]
    /\ sending' = "discover"
    /\ UNCHANGED <<returnPath, plans, plan, mailFaults, stsVars, copyVars, spared>>

\* matchingMxHosts: the hosts a policy lists, in their order.
MatchingMxHosts(hosts) ==
    LET among[n \in 0..Len(hosts)] ==
          IF n = 0 THEN <<>>
          ELSE IF hosts[n] \in StsHosts THEN Append(among[n - 1], hosts[n])
          ELSE among[n - 1]
    IN  among[Len(hosts)]

\* policyHosts: enforce leaves the hosts the policy lists.
PolicyHosts(d) == IF found[d].mode = "enforce" THEN MatchingMxHosts(MxOf[d]) ELSE MxOf[d]

\* recordUnsent: no host to try; for good only when DNS says so.
RecordUnsent(k, status) ==
    [entries[k] EXCEPT !.status = status, !.attempts = @ + 1]

\* Domains share a session when they have the same hosts and the same TLS.
PlanKey(d) == <<PolicyHosts(d), found[d].mode = "enforce">>

\* The plan of the domains routed with hosts and TLS id.
PlanFor(routed, id) ==
    LET first == CHOOSE d \in routed : PlanKey(d) = id IN
    [NoPlan EXCEPT
        !.hosts = PolicyHosts(first),
        !.verified = found[first].mode = "enforce",
        !.keys = UNION {PendingKeys(d) : d \in {e \in routed : PlanKey(e) = id}}]

\* resolveMxRoute for every domain, then the plans.
PlanSessions ==
    /\ sending = "discover"
    /\ \A d \in Owed : found[d] # Unknown
    /\ \E route \in [Owed -> {"hosts", "failed", "retry"}] :
          LET routed == {d \in Owed : route[d] = "hosts" /\ PolicyHosts(d) # <<>>}
              unsent == {k \in KeysIn("retry") : k[1] \notin routed}
              refused == {k \in unsent : route[k[1]] = "failed"}
          IN  /\ mailFaults + Cardinality({d \in Owed : route[d] # "hosts"}) <= MaxMailFaults
              /\ mailFaults' = mailFaults + Cardinality({d \in Owed : route[d] # "hosts"})
              /\ entries' = [k \in DOMAIN entries |->
                               IF k \in refused THEN RecordUnsent(k, "failed")
                               ELSE IF k \in unsent THEN RecordUnsent(k, "retry")
                               ELSE entries[k]]
              /\ refusedFor' = refusedFor \cup UNION {entries[k].to : k \in refused}
              /\ plans' = {PlanFor(routed, id) : id \in {PlanKey(d) : d \in routed}}
    /\ sending' = "sessions"
    /\ UNCHANGED <<returnPath, found, plan, sends, stsVars, copies, unanswered, exposed, spared>>

\* signMessage cannot compose the message: every entry is tried again later.
Uncomposable ==
    /\ sending = "sessions" /\ plan = NoPlan /\ plans # {}
    /\ MailFault
    /\ LET keys == UNION {p.keys : p \in plans} IN
       entries' = [k \in DOMAIN entries |->
                     IF k \in keys THEN RecordUnsent(k, "retry") ELSE entries[k]]
    /\ plans' = {}
    /\ UNCHANGED <<returnPath, sending, found, plan, sends, stsVars, copyVars, spared>>

\* sendToMxHosts, one plan after another.
StartPlan(p) ==
    /\ sending = "sessions" /\ plan = NoPlan
    /\ p \in plans
    /\ plan' = p
    /\ plans' = plans \ {p}
    /\ UNCHANGED <<returnPath, entries, sending, found, sends, mailFaults, stsVars, copyVars, spared>>

(***************************************************************************)
(* deliverWithFailover and runMxSession.                                   *)
(***************************************************************************)
Left(p) == p.keys \ DOMAIN p.done
NextHost(p) == [p EXCEPT !.hosts = Tail(@), !.in = FALSE, !.todo = {}]

\* The host does not resolve, or only to addresses mail must not go to.
SkipHost ==
    /\ sending = "sessions" /\ ~plan.in
    /\ plan.hosts # <<>> /\ Left(plan) # {} /\ ~plan.spent
    /\ MailFault
    /\ plan' = NextHost(plan)
    /\ UNCHANGED <<returnPath, entries, sending, found, plans, sends, stsVars, copyVars, spared>>

\* admitTransactions: a transaction pays a bucket once per attempt.
Uncharged(p, b) == {k \in Left(p) : <<k, b>> \notin p.charged}

\* Those the rate admits go into the session, the others are done, deferred.
Admitted(p, b, deferred) ==
    [p EXCEPT
        !.in = TRUE,
        !.todo = Left(p) \ deferred,
        !.charged = p.charged \cup {<<k, b>> : k \in Uncharged(p, b) \ deferred},
        !.done = [k \in DOMAIN p.done \cup deferred |->
                    IF k \in deferred THEN Outcome("deferred") ELSE p.done[k]]]

\* A session with the next host, under its bucket's lock.
OpenSession ==
    LET b == BucketOf[Head(plan.hosts)] IN
    /\ sending = "sessions" /\ ~plan.in
    /\ plan.hosts # <<>> /\ Left(plan) # {} /\ ~plan.spent
    /\ \E deferred \in SUBSET Uncharged(plan, b) :
          /\ deferred # {} => MailFault
          /\ deferred = {} => UNCHANGED mailFaults
          /\ plan' = Admitted(plan, b, deferred)
    /\ UNCHANGED <<returnPath, entries, sending, found, plans, sends, stsVars, copyVars, spared>>

MailHost == Head(plan.hosts)
To(k) == entries[k].to
Transacting(k) == sending = "sessions" /\ plan.in /\ k \in plan.todo
Settled(k, outcome) ==
    plan' = [plan EXCEPT !.todo = @ \ {k}, !.done = With(@, k, outcome)]
MovesOn(k) == plan' = [plan EXCEPT !.todo = @ \ {k}]
Copied(rs) == copies' = [r \in Recipients |-> IF r \in rs THEN copies[r] + 1 ELSE copies[r]]

\* Recipients whose policy, as found for this attempt, is not kept here.
Exposes(k) ==
    IF found[k[1]].mode = "enforce" /\ ~(plan.verified /\ MailHost \in SecureHosts \cap StsHosts)
    THEN To(k) ELSE {}

\* With verified TLS a host without it gets nothing.
Speaks == plan.verified => MailHost \in SecureHosts

\* The MX takes the message for some recipients and refuses the others.
Accepted(k, hard, soft) ==
    /\ Transacting(k) /\ Speaks
    /\ IF hard \cup soft = {} THEN UNCHANGED mailFaults ELSE MailFault
    /\ hard \cap soft = {} /\ To(k) \ (hard \cup soft) # {}
    /\ Settled(k, [kind |-> "taken", hard |-> hard, soft |-> soft])
    /\ Copied(To(k) \ (hard \cup soft))
    /\ refusedFor' = refusedFor \cup hard
    /\ exposed' = exposed \cup Exposes(k)
    /\ UNCHANGED <<returnPath, entries, sending, found, plans, sends, stsVars, unanswered, spared>>

\* The MX answers with a permanent or a temporary refusal: no other is tried.
Refused(k, kind) ==
    /\ Transacting(k) /\ Speaks
    /\ MailFault
    /\ Settled(k, Outcome(kind))
    /\ refusedFor' = IF kind = "hard" THEN refusedFor \cup To(k) ELSE refusedFor
    /\ exposed' = exposed \cup Exposes(k)
    /\ UNCHANGED <<returnPath, entries, sending, found, plans, sends, stsVars, copies,
                   unanswered, spared>>

\* No answer (a lost connection, a timeout, 421): the next host is tried; the
\* message may have been taken all the same.
NoAnswer(k, took) ==
    /\ Transacting(k) /\ Speaks
    /\ MailFault
    /\ MovesOn(k)
    /\ IF took
       THEN /\ Copied(To(k))
            /\ unanswered' = [r \in Recipients |->
                                IF r \in To(k) THEN unanswered[r] + 1 ELSE unanswered[r]]
            /\ exposed' = exposed \cup Exposes(k)
       ELSE UNCHANGED <<copies, unanswered, exposed>>
    /\ UNCHANGED <<returnPath, entries, sending, found, plans, sends, stsVars, refusedFor, spared>>

\* enforcedTlsFailure: no verified TLS is never a refusal; the next host.
EnforcedTlsFailure(k) == MovesOn(k)

\* The host does not offer the TLS the policy enforces.
NoVerifiedTls(k) ==
    /\ Transacting(k) /\ ~Speaks
    /\ EnforcedTlsFailure(k)
    /\ UNCHANGED <<returnPath, entries, sending, found, plans, sends, mailFaults, stsVars,
                   copyVars, spared>>

\* The session's transactions are over: the next host, for those not done.
SessionEnds ==
    /\ sending = "sessions" /\ plan.in /\ plan.todo = {}
    /\ plan' = NextHost(plan)
    /\ UNCHANGED <<returnPath, entries, sending, found, plans, sends, mailFaults, stsVars,
                   copyVars, spared>>

\* The attempt's time budget is spent: what is left of the session fails.
BudgetSpent ==
    /\ sending = "sessions" /\ plan.in /\ ~plan.spent
    /\ MailFault
    /\ plan' = [plan EXCEPT !.spent = TRUE, !.todo = {}]
    /\ UNCHANGED <<returnPath, entries, sending, found, plans, sends, stsVars, copyVars, spared>>

(***************************************************************************)
(* recordOutcome.                                                          *)
(***************************************************************************)

\* Mutant: a refused recipient stays in the entry that was sent.
SentEntryKeeps(k, o) ==
    [entries[k] EXCEPT !.status = "sent", !.attempts = @ + 1]

\* The entry keeps the recipients that were accepted.
SentEntry(k, o) ==
    [entries[k] EXCEPT !.to = @ \ (o.hard \cup o.soft), !.status = "sent", !.attempts = @ + 1]

\* refusedKey: an entry of its own for every recipient refused.
RefusedKey(k, r) == <<k[1], IndexOf[r]>>
RefusedEntry(k, o, r) ==
    [to |-> {r}, status |-> IF r \in o.hard THEN "failed" ELSE "retry",
     attempts |-> entries[k].attempts + 1]

\* The rate deferred it: its state is left alone.
RecordDeferred(k) == entries[k]

\* failedEntry, for the others: the last failure is always tried again.
RecordOutcome(k) ==
    IF k \notin DOMAIN plan.done THEN RecordUnsent(k, "retry")
    ELSE CASE plan.done[k].kind = "deferred" -> RecordDeferred(k)
           [] plan.done[k].kind = "hard" -> RecordUnsent(k, "failed")
           [] plan.done[k].kind = "soft" -> RecordUnsent(k, "retry")
           [] plan.done[k].kind = "taken" -> SentEntry(k, plan.done[k])

\* The recipients refused while others of their entry were accepted.
RefusedAlone ==
    {x \in (DOMAIN plan.done) \X Recipients :
        x[2] \in plan.done[x[1]].hard \cup plan.done[x[1]].soft}
NewKeys == {RefusedKey(x[1], x[2]) : x \in RefusedAlone}

\* The plan's outcomes go into the state.
FinishPlan ==
    /\ sending = "sessions" /\ plan # NoPlan /\ ~plan.in
    /\ plan.hosts = <<>> \/ Left(plan) = {} \/ plan.spent
    /\ entries' = [k \in DOMAIN entries \cup NewKeys |->
                     IF k \in NewKeys
                     THEN LET x == CHOOSE y \in RefusedAlone : RefusedKey(y[1], y[2]) = k IN
                          RefusedEntry(x[1], plan.done[x[1]], x[2])
                     ELSE IF k \in plan.keys THEN RecordOutcome(k)
                     ELSE entries[k]]
    /\ spared' = [r \in Recipients |->
                    IF \E k \in DOMAIN plan.done :
                          plan.done[k].kind = "deferred" /\ r \in To(k)
                    THEN spared[r] + 1 ELSE spared[r]]
    /\ plan' = NoPlan
    /\ UNCHANGED <<returnPath, sending, found, plans, sends, mailFaults, stsVars, copyVars>>

\* sendMail returns; the queue may send again.
SendMailReturns ==
    /\ sending = "sessions" /\ plan = NoPlan /\ plans = {}
    /\ sending' = "idle"
    /\ UNCHANGED <<returnPath, entries, found, plans, plan, sends, mailFaults, stsVars,
                   copyVars, spared>>

-----------------------------------------------------------------------------
MailInit ==
    /\ returnPath \in BOOLEAN
    /\ entries = BuildInitialState
    /\ sending = "idle"
    /\ found = [d \in MailDomains |-> Unknown]
    /\ plans = {}
    /\ plan = NoPlan
    /\ published = [d \in MailDomains |-> NoPolicy]
    /\ cached = [d \in MailDomains |-> NoPolicy]
    /\ lookups = [d \in MailDomains |-> NoLookup]
    /\ failedFetch = [d \in MailDomains |-> 0]
    /\ sends = 0 /\ mailFaults = 0 /\ policies = 0
    /\ copies = [r \in Recipients |-> 0]
    /\ unanswered = [r \in Recipients |-> 0]
    /\ refusedFor = {}
    /\ exposed = {}
    /\ spared = [r \in Recipients |-> 0]

StsStep(d) ==
    \/ \E txt \in {"id", "none", "error"} : LookupTxt(d, txt)
    \/ FetchMtaStsPolicy(d) \/ FetchFails(d)
    \/ OtherDiscovers(d) \/ PolicyExpires(d)
    \/ \E mode \in StsModes[d] : PublishPolicy(d, mode)

TransactionStep(k) ==
    \/ \E hard, soft \in SUBSET To(k) : Accepted(k, hard, soft)
    \/ \E kind \in {"hard", "soft"} : Refused(k, kind)
    \/ \E took \in BOOLEAN : NoAnswer(k, took)
    \/ NoVerifiedTls(k)

MailNext ==
    \/ SendMail \/ PlanSessions \/ Uncomposable \/ SendMailReturns
    \/ \E d \in MailDomains : StsStep(d)
    \/ \E p \in plans : StartPlan(p)
    \/ SkipHost \/ OpenSession \/ SessionEnds \/ BudgetSpent \/ FinishPlan
    \/ \E k \in plan.todo : TransactionStep(k)

MailSpec == MailInit /\ [][MailNext]_mailVars

-----------------------------------------------------------------------------
\* Types; every recipient is in exactly one entry of the state, however it
\* was split, refused in part and retried: nobody is lost or listed twice.
MailTypeOK ==
    /\ \A k \in DOMAIN entries :
          /\ entries[k].status \in {"retry", "sent", "failed"}
          /\ entries[k].to # {}
    /\ \A r \in Recipients : Cardinality({k \in DOMAIN entries : r \in entries[k].to}) = 1
    /\ cached \in [MailDomains -> AnyPolicy]

EntryOf(r) == entries[CHOOSE k \in DOMAIN entries : r \in entries[k].to]

\* An email is delivered once to a recipient, over hosts and attempts, unless
\* an MX took it and its answer was lost; an entry recorded as sent was taken
\* by an MX, and one that failed was refused for good by an MX or by DNS.
DeliveredOnce ==
    \A r \in Recipients :
        /\ copies[r] <= 1 + unanswered[r]
        /\ EntryOf(r).status = "sent" => copies[r] > 0
        /\ EntryOf(r).status = "failed" => r \in refusedFor

\* Mail for a domain whose enforce policy was in force when the attempt began
\* goes only to hosts of the policy with verified TLS, whatever other domains
\* its session carries, and whatever the TXT record says since.
EnforcedIsVerified == exposed = {}

\* An entry counts every attempt that tried it, and none that deferred it.
AttemptsAreCounted ==
    sending = "idle" =>
        \A r \in Recipients :
            EntryOf(r).status = "retry" => EntryOf(r).attempts = sends - spared[r]

\* A policy in the cache survives a TXT record that is missing or unreadable
\* and a fetch that fails: it applies until it expires or is replaced.
PolicyIsKept ==
    [][\A d \in MailDomains :
          found[d] = Unknown /\ found'[d] # Unknown => found'[d] = cached'[d]]_mailVars

\* The delivery state tells who has the email, over hosts, attempts and lost
\* answers, and nobody's copy went over a connection its policy forbids.
DeliveriesAreTrue ==
    MailTypeOK /\ DeliveredOnce /\ EnforcedIsVerified /\ AttemptsAreCounted
=============================================================================
