----------------------------- MODULE EmailQueue -----------------------------
(***************************************************************************)
(* The outbound send queue: the rows of the emails table, the processes    *)
(* that claim them under a lease, and the send jobs each process has in    *)
(* flight (queue-claim, queue-send, queue-outcome .service.ts).            *)
(*                                                                         *)
(* Time is discrete and relative: a row carries the ticks left on its      *)
(* lease and until its next attempt, and its age up to just past the retry *)
(* window, after which the code no longer tells ages apart.                *)
(*                                                                         *)
(* Workers are process incarnations: WORKER_ID is drawn afresh when a      *)
(* process starts, so a restarted process is another worker.  One that has *)
(* not started yet is one that is up and has not polled yet.               *)
(*                                                                         *)
(* interruptions counts what the code does not control: crashes and        *)
(* shutdowns, leases that lapse under a live process, database writes that *)
(* fail or whose answer is lost, SMTP answers that are lost.               *)
(***************************************************************************)
EXTENDS QueueDecision, FiniteSets

CONSTANTS
    Emails,
    Workers,
    Nobody,              \* locked_by IS NULL
    MaxConcurrentSends,  \* QUEUE_MAX_CONCURRENT_SENDS, per process
    BatchSize,           \* QUEUE_BATCH_SIZE
    LeaseTicks,          \* LEASE_MINUTES
    FullWrites,          \* tries of the outcome write: 3 in the code
    Interruptions,       \* the kinds of interruption that happen
    MaxInterruptions,    \* bound on their number
    Operations,          \* bound: which of "trash", "revoke", "suppress" happen
    DeferralAckLoss      \* may the commit answer of a deferral be lost?

ASSUME WorkerAssumption == Nobody \notin Workers
ASSUME LimitAssumption ==
    /\ MaxConcurrentSends \in Nat \ {0}
    /\ BatchSize \in Nat \ {0}
    /\ LeaseTicks \in Nat \ {0}
    /\ FullWrites \in Nat \ {0}
    /\ MaxInterruptions \in Nat
    /\ Interruptions \subseteq {"crash", "shutdown", "lapse", "database", "smtp"}
ASSUME AckAssumption == DeferralAckLoss \in BOOLEAN

VARIABLES
    row,           \* the emails table
    jobs,          \* sendClaimedEmail calls in flight, over all processes
    proc,          \* life of each process
    keyActive,     \* the sending API key's is_active
    suppressed,    \* recipients (one per group) on the suppression list
    events,        \* webhook events committed to the outbox, per email
    wire,          \* SMTP transactions the receiver accepted (history)
    interruptions

vars == <<row, jobs, proc, keyActive, suppressed, events, wire, interruptions>>

FinalStatuses == {"sent", "failed", "bounced"}
RowStatus == {"queued", "sending", "purged"} \cup FinalStatuses
ProcState == {"up", "draining", "stopping", "dead"}

Row == [status : RowStatus, attempts : Nat, lockedBy : Workers \cup {Nobody},
        lease : Nat, due : Nat, age : Nat, trashed : BOOLEAN,
        bytes : BOOLEAN, delivery : DeliveryState]

Job == [worker : Workers, email : Emails, attempt : Nat \ {0}, age : Nat,
        prior : DeliveryState, state : DeliveryState,
        todo : SUBSET Groups, deferred : SUBSET Groups,
        pc : {"claimed", "sending"}, writes : 0..FullWrites]

Init ==
    /\ row = [e \in Emails |->
                [status |-> "queued", attempts |-> 0, lockedBy |-> Nobody,
                 lease |-> 0, due |-> 0, age |-> 0, trashed |-> FALSE,
                 bytes |-> TRUE, delivery |-> NoState]]
    /\ jobs = {}
    /\ proc = [w \in Workers |-> "up"]
    /\ keyActive = TRUE
    /\ suppressed = {}
    /\ events = [e \in Emails |-> [sent |-> 0, failed |-> 0, dropped |-> 0]]
    /\ wire = [e \in Emails |-> [g \in Groups |-> 0]]
    /\ interruptions = 0

Interrupt(kind) ==
    /\ kind \in Interruptions
    /\ interruptions < MaxInterruptions
    /\ interruptions' = interruptions + 1

-----------------------------------------------------------------------------
(* Claiming.                                                               *)

\* Mutants: an expired lease is not needed to claim a sending row; a sending
\* row is never claimed again.
DueIgnoringLease(e) == /\ ~row[e].trashed
                       /\ \/ row[e].status = "queued" /\ row[e].due = 0
                          \/ row[e].status = "sending"
DueQueuedOnly(e) == ~row[e].trashed /\ row[e].status = "queued" /\ row[e].due = 0

\* A queued row that is due, or a sending row whose lease has expired.
Due(e) == /\ ~row[e].trashed
          /\ \/ row[e].status = "queued" /\ row[e].due = 0
             \/ row[e].status = "sending" /\ row[e].lease = 0

JobsOf(w) == {j \in jobs : j.worker = w}

NewJob(w, e) ==
    [worker |-> w, email |-> e, attempt |-> row[e].attempts + 1,
     age |-> row[e].age, prior |-> row[e].delivery, state |-> row[e].delivery,
     todo |-> {}, deferred |-> {}, pc |-> "claimed", writes |-> 0]

\* The claim statement of one poll: a batch of due rows within the free
\* slots of the process.  Which due rows come first is the fair claim's
\* order, left open here.
Claim(w, S) ==
    /\ S # {}
    /\ \A e \in S : Due(e)
    /\ Cardinality(S) <= BatchSize
    /\ Cardinality(S) + Cardinality(JobsOf(w)) <= MaxConcurrentSends
    /\ row' = [e \in Emails |->
                 IF e \in S
                 THEN [row[e] EXCEPT !.status = "sending", !.attempts = @ + 1,
                                     !.lockedBy = w, !.lease = LeaseTicks]
                 ELSE row[e]]
    /\ jobs' = jobs \cup {NewJob(w, e) : e \in S}
    /\ UNCHANGED <<keyActive, suppressed, events, wire>>

ClaimNextEmails(w, S) ==
    /\ proc[w] = "up"
    /\ Claim(w, S)
    /\ UNCHANGED <<proc, interruptions>>

\* A poll that was in flight when stop() ran still gets its rows, after the
\* process handed its leases back.
LateClaim(w, S) ==
    /\ proc[w] = "draining"
    /\ Interrupt("shutdown")
    /\ Claim(w, S)
    /\ proc' = [proc EXCEPT ![w] = "stopping"]

\* Mutant: the token is the process only.
HeldByProcess(j) == /\ row[j.email].status = "sending"
                    /\ row[j.email].lockedBy = j.worker

\* The claim still holds its row: same process, same attempts, still sending.
HeldBy(j) == /\ row[j.email].status = "sending"
             /\ row[j.email].lockedBy = j.worker
             /\ row[j.email].attempts = j.attempt

RenewLease(j) ==
    /\ HeldBy(j)
    /\ row[j.email].lease < LeaseTicks
    /\ row' = [row EXCEPT ![j.email].lease = LeaseTicks]
    /\ UNCHANGED <<jobs, proc, keyActive, suppressed, events, wire, interruptions>>

-----------------------------------------------------------------------------
(* Releasing a row: every outcome goes through here, and only applies      *)
(* while the claim holds the row.  A final status drops attachment bytes.  *)

Released(r, status, due, attempts, delivery) ==
    [r EXCEPT !.status = status, !.due = due, !.attempts = attempts,
              !.delivery = delivery, !.lockedBy = Nobody, !.lease = 0,
              !.bytes = IF status \in FinalStatuses THEN FALSE ELSE @]

\* Mutant: the outcome is written by id, whoever claimed the row since.
ReleaseRowById(j, status, due, attempts, delivery) ==
    row' = IF row[j.email].status = "purged" THEN row
           ELSE [row EXCEPT ![j.email] = Released(@, status, due, attempts, delivery)]

ReleaseRow(j, status, due, attempts, delivery) ==
    row' = IF HeldBy(j)
           THEN [row EXCEPT ![j.email] =
                   Released(@, status, due, attempts, delivery)]
           ELSE row

\* An outcome that leaves the delivery state alone and takes no new attempt.
ReleaseUnsent(j, status, due) ==
    ReleaseRow(j, status, due, row[j.email].attempts, row[j.email].delivery)

\* A claim whose API key was revoked fails without sending and without event.
FailRevoked(j) ==
    /\ j.pc = "claimed" /\ ~keyActive
    /\ ReleaseUnsent(j, "failed", row[j.email].due)
    /\ jobs' = jobs \ {j}
    /\ UNCHANGED <<proc, keyActive, suppressed, events, wire, interruptions>>

FailWithEvent(j) ==
    /\ ReleaseUnsent(j, "failed", row[j.email].due)
    /\ events' = IF HeldBy(j) THEN [events EXCEPT ![j.email].failed = @ + 1]
                 ELSE events

\* The DKIM key cannot be decrypted or cannot sign: nothing is sent, the row
\* waits on the retry backoff, or fails once the window is over.
HoldForDkimKey(j) ==
    /\ j.pc = "claimed" /\ keyActive
    /\ \/ /\ CanRetry(j.attempt, j.age)
          /\ ReleaseUnsent(j, "queued", RetryDelay(j.attempt))
          /\ UNCHANGED events
       \/ /\ ~CanRetry(j.attempt, j.age)
          /\ FailWithEvent(j)
    /\ jobs' = jobs \ {j}
    /\ UNCHANGED <<proc, keyActive, suppressed, wire, interruptions>>

\* An exception before or inside sendMail (a failed database read included):
\* failed at once, with email.failed.
FailOnError(j) ==
    /\ j.pc = "claimed" /\ keyActive
    /\ Interrupt("database")
    /\ FailWithEvent(j)
    /\ jobs' = jobs \ {j}
    /\ UNCHANGED <<proc, keyActive, suppressed, wire>>

\* The key lookup or the write of an outcome above throws: the job ends and
\* the row is left to its lease.
AbandonClaim(j) ==
    /\ j.pc = "claimed"
    /\ Interrupt("database")
    /\ jobs' = jobs \ {j}
    /\ UNCHANGED <<row, proc, keyActive, suppressed, events, wire>>

-----------------------------------------------------------------------------
(* Sending.                                                                *)

\* On a retry pass, a pending group whose recipient was suppressed in the
\* meantime becomes failed; a first pass has no delivery state to check.
DropSuppressed(delivery) ==
    [g \in Groups |-> IF delivery[g] \in Pending /\ g \in suppressed
                      THEN "failed" ELSE delivery[g]]

\* existingState ?? buildInitialState(...)
StartState(delivery) ==
    [g \in Groups |-> IF delivery[g] = "none" THEN "retry" ELSE delivery[g]]

BeginSend(j) ==
    /\ j.pc = "claimed" /\ keyActive
    /\ LET prior == DropSuppressed(j.prior)
           start == StartState(prior)
       IN jobs' = (jobs \ {j}) \cup
                  {[j EXCEPT !.pc = "sending", !.prior = prior, !.state = start,
                             !.todo = {g \in Groups : start[g] \in Pending}]}
    /\ UNCHANGED <<row, proc, keyActive, suppressed, events, wire, interruptions>>

\* One group's SMTP transaction ends with result res.  The receiver may have
\* accepted a message whose answer never came back: that is a retry.
DeliverGroup(j, g, res, accepted) ==
    /\ j.pc = "sending" /\ g \in j.todo
    /\ accepted = (res = "sent") \/ (accepted /\ res = "retry")
    /\ IF accepted /\ res = "retry" THEN Interrupt("smtp") ELSE UNCHANGED interruptions
    /\ jobs' = (jobs \ {j}) \cup
               {[j EXCEPT !.todo = @ \ {g}, !.state[g] = res]}
    /\ wire' = IF accepted THEN [wire EXCEPT ![j.email][g] = @ + 1] ELSE wire
    /\ UNCHANGED <<row, proc, keyActive, suppressed, events>>

\* The provider's rate budget has no token: the group is left as it was.
DeferGroup(j, g) ==
    /\ j.pc = "sending" /\ g \in j.todo
    /\ jobs' = (jobs \ {j}) \cup
               {[j EXCEPT !.todo = @ \ {g}, !.deferred = @ \cup {g}]}
    /\ UNCHANGED <<row, proc, keyActive, suppressed, events, wire, interruptions>>

-----------------------------------------------------------------------------
(* Recording the outcome.                                                  *)

KindOf(j) == OutcomeKind(j.attempt, j.age, j.prior, j.state, j.deferred)

OutcomeStatus(j) == IF KindOf(j) = "terminal" THEN FinalStatus(j.state) ELSE "queued"
OutcomeDue(j) == IF KindOf(j) = "terminal" THEN row[j.email].due
                 ELSE DelayOf(j.attempt, j.state, j.deferred)
\* Mutant: the deferral gives one attempt too many back.
OutcomeAttemptsTwice(j) == IF KindOf(j) = "deferred" THEN j.attempt - 2 ELSE j.attempt
\* A pure deferral gives the claim's attempt back.
OutcomeAttempts(j) == IF KindOf(j) = "deferred" THEN j.attempt - 1 ELSE j.attempt
OutcomeDelivery(j) == IF KindOf(j) = "terminal" THEN FinalState(j.state) ELSE j.state

\* One commit of the outcome transaction.  The bounce suppressions are
\* written whether or not the claim still holds the row; row and events only
\* if it does.  Past the third failure the events are left out.
Write(j) ==
    LET kind == KindOf(j)
        sent == IF SentEvent(kind, j.prior, j.state) THEN 1 ELSE 0
        failed == IF FailedEvent(kind, j.state) THEN 1 ELSE 0
    IN /\ suppressed' = suppressed \cup HardBounces(j.prior, j.state)
                                   \cup SoftBounces(kind, j.state)
       /\ ReleaseRow(j, OutcomeStatus(j), OutcomeDue(j), OutcomeAttempts(j),
                     OutcomeDelivery(j))
       /\ events' = IF ~HeldBy(j) THEN events
                    ELSE IF j.writes < FullWrites
                    THEN [events EXCEPT ![j.email].sent = @ + sent,
                                        ![j.email].failed = @ + failed]
                    ELSE [events EXCEPT ![j.email].dropped = @ + sent + failed]

ReadyToRecord(j) == j.pc = "sending" /\ j.todo = {}

RecordSendOutcome(j) ==
    /\ ReadyToRecord(j)
    /\ Write(j)
    /\ jobs' = jobs \ {j}
    /\ UNCHANGED <<proc, keyActive, wire, interruptions>>

\* The job after a write that failed, or seemed to: it writes again, or gives
\* up after the degraded write and leaves the row to its lease.
AfterFailedWrite(j) ==
    jobs' = (jobs \ {j}) \cup
            (IF j.writes < FullWrites THEN {[j EXCEPT !.writes = @ + 1]} ELSE {})

RecordRolledBack(j) ==
    /\ ReadyToRecord(j)
    /\ Interrupt("database")
    /\ AfterFailedWrite(j)
    /\ UNCHANGED <<row, proc, keyActive, suppressed, events, wire>>

\* The transaction committed and the connection broke before the answer.
RecordAnswerLost(j) ==
    /\ ReadyToRecord(j)
    /\ KindOf(j) = "deferred" => DeferralAckLoss
    /\ Interrupt("database")
    /\ Write(j)
    /\ AfterFailedWrite(j)
    /\ UNCHANGED <<proc, keyActive, wire>>

-----------------------------------------------------------------------------
(* Processes.                                                              *)

\* releaseOwnLeases: every row this process is sending becomes claimable.
ReleaseOwnLeases(w) ==
    row' = [e \in Emails |->
              IF row[e].status = "sending" /\ row[e].lockedBy = w
              THEN [row[e] EXCEPT !.lease = 0] ELSE row[e]]

\* SIGTERM: stop polling and hand the leases back (best effort).  The sends
\* in flight go on until the process exits; nothing awaits them.
Shutdown(w) ==
    /\ proc[w] = "up"
    /\ Interrupt("shutdown")
    /\ ReleaseOwnLeases(w) \/ UNCHANGED row
    /\ proc' \in {[proc EXCEPT ![w] = s] : s \in {"draining", "stopping"}}
    /\ UNCHANGED <<jobs, keyActive, suppressed, events, wire>>

Exit(w) ==
    /\ proc[w] \in {"draining", "stopping"}
    /\ proc' = [proc EXCEPT ![w] = "dead"]
    /\ jobs' = jobs \ JobsOf(w)
    /\ UNCHANGED <<row, keyActive, suppressed, events, wire, interruptions>>

Crash(w) ==
    /\ proc[w] = "up"
    /\ Interrupt("crash")
    /\ proc' = [proc EXCEPT ![w] = "dead"]
    /\ jobs' = jobs \ JobsOf(w)
    /\ UNCHANGED <<row, keyActive, suppressed, events, wire>>

-----------------------------------------------------------------------------
(* The trash, the API key, the suppression list and the clock.             *)

SetTrashed(e, flag) ==
    /\ "trash" \in Operations
    /\ row[e].status # "purged" /\ row[e].trashed # flag
    /\ row' = [row EXCEPT ![e].trashed = flag]
    /\ UNCHANGED <<jobs, proc, keyActive, suppressed, events, wire, interruptions>>

TrashEmail(e) == SetTrashed(e, TRUE)
RestoreEmail(e) == SetTrashed(e, FALSE)

\* permanentDeleteEmail, emptyEmailsTrash, runTrashPurge: only from the trash,
\* whatever the status.
DeleteEmail(e) ==
    /\ "trash" \in Operations
    /\ row[e].trashed /\ row[e].status # "purged"
    /\ row' = [row EXCEPT ![e] = Released(@, "purged", 0, @.attempts, @.delivery)]
    /\ UNCHANGED <<jobs, proc, keyActive, suppressed, events, wire, interruptions>>

RevokeKey ==
    /\ "revoke" \in Operations
    /\ keyActive
    /\ keyActive' = FALSE
    /\ UNCHANGED <<row, jobs, proc, suppressed, events, wire, interruptions>>

Suppress(g) ==
    /\ "suppress" \in Operations
    /\ g \notin suppressed
    /\ suppressed' = suppressed \cup {g}
    /\ UNCHANGED <<row, jobs, proc, keyActive, events, wire, interruptions>>

Less(n) == IF n = 0 THEN 0 ELSE n - 1

\* A job whose process lives lets its lease run out.
Lapses == \E j \in jobs : HeldBy(j) /\ row[j.email].lease = 1

Aged(r) == [r EXCEPT !.lease = Less(@), !.due = Less(@),
                     !.age = IF @ > RetryMaxAge THEN @ ELSE @ + 1]

\* Renewals are due well within a lease, so letting one lapse while its
\* process lives is an interruption.
Tick ==
    /\ row' = [e \in Emails |-> Aged(row[e])]
    /\ IF Lapses THEN Interrupt("lapse") ELSE UNCHANGED interruptions
    /\ UNCHANGED <<jobs, proc, keyActive, suppressed, events, wire>>

-----------------------------------------------------------------------------

JobStep(j) ==
    \/ RenewLease(j)
    \/ FailRevoked(j)
    \/ HoldForDkimKey(j)
    \/ FailOnError(j)
    \/ AbandonClaim(j)
    \/ BeginSend(j)
    \/ \E g \in Groups, res \in GroupStatus, accepted \in BOOLEAN :
          DeliverGroup(j, g, res, accepted)
    \/ \E g \in Groups : DeferGroup(j, g)
    \/ RecordSendOutcome(j)
    \/ RecordRolledBack(j)
    \/ RecordAnswerLost(j)

ProcStep(w) ==
    \/ \E S \in SUBSET Emails : ClaimNextEmails(w, S) \/ LateClaim(w, S)
    \/ Shutdown(w) \/ Exit(w) \/ Crash(w)

EnvStep ==
    \/ \E e \in Emails : TrashEmail(e) \/ RestoreEmail(e) \/ DeleteEmail(e)
    \/ RevokeKey
    \/ \E g \in Groups : Suppress(g)
    \/ Tick

Next == (\E j \in jobs : JobStep(j)) \/ (\E w \in Workers : ProcStep(w)) \/ EnvStep

Spec == Init /\ [][Next]_vars

\* The steps a process takes on a job by itself, with no interruption: SMTP
\* sessions have a deadline, database calls answer.
Advance(j) ==
    \/ FailRevoked(j)
    \/ HoldForDkimKey(j)
    \/ BeginSend(j)
    \/ \E g \in Groups : \/ \E res \in GroupStatus : DeliverGroup(j, g, res, res = "sent")
                          \/ DeferGroup(j, g)
    \/ RecordSendOutcome(j)

\* Time passes, processes told to stop exit, the poll loop keeps claiming what is
\* due, and every job goes on.  Interruptions are never fair.
Fairness ==
    /\ WF_vars(Tick)
    /\ \A w \in Workers :
         /\ WF_vars(Exit(w))
         /\ \A e \in Emails :
              WF_vars(\E j \in jobs : j.worker = w /\ j.email = e /\ Advance(j))
    /\ \A e \in Emails :
         SF_vars(\E w \in Workers, S \in SUBSET Emails :
                   e \in S /\ ClaimNextEmails(w, S))

FairSpec == Spec /\ Fairness

-----------------------------------------------------------------------------
(* Properties.                                                             *)

Event == [sent : Nat, failed : Nat, dropped : Nat]

\* Every variable keeps its type: rows, claims, processes and counters.
TypeOK ==
    /\ row \in [Emails -> Row]
    /\ jobs \subseteq Job
    /\ proc \in [Workers -> ProcState]
    /\ keyActive \in BOOLEAN
    /\ suppressed \in SUBSET Groups
    /\ events \in [Emails -> Event]
    /\ wire \in [Emails -> [Groups -> Nat]]
    /\ interruptions \in Nat

\* The fencing token of a claim (locked_by and attempts, heldBy in
\* queue-claim.service.ts): of all the claims ever taken on a row and still
\* in flight, crashed over, lapsed or superseded ones included, at most one
\* matches the row, so at most one can write its outcome.
SingleHolder ==
    \A j, k \in jobs : j.email = k.email /\ HeldBy(j) /\ HeldBy(k) => j = k

\* No outcome rests on a stale read: the claim that holds a row was taken
\* from the delivery state the row still has, however long the send took and
\* whoever claimed it in between.
HolderIsFresh ==
    \A j \in jobs : HeldBy(j) =>
        \A g \in Groups : row[j.email].delivery[g] = "sent" <=> j.prior[g] = "sent"

\* The inductive strengthening of the two: a row's attempts never falls below
\* the token of a claim in flight, a deferral's decrement included, and while
\* the row is sending only one claim carries its current value; a claim never
\* touches what it already knew to be delivered.
TokensBounded ==
    \A j \in jobs : j.attempt <= row[j.email].attempts
TokenUnique ==
    \A j, k \in jobs :
        /\ j.email = k.email
        /\ row[j.email].status = "sending"
        /\ j.attempt = row[j.email].attempts
        /\ k.attempt = row[j.email].attempts
        => j = k
KeepsSent ==
    \A j \in jobs : \A g \in Groups :
        j.prior[g] = "sent" => j.state[g] = "sent" /\ g \notin j.todo

\* A delivery, once recorded, is never forgotten: no late or repeated outcome
\* takes a group out of sent, which would send the message again.
RecordedDeliveriesStay ==
    [][\A e \in Emails, g \in Groups :
         row[e].delivery[g] = "sent" => row'[e].delivery[g] = "sent"]_vars

\* Nothing but an interruption makes a recipient get the message again: each
\* extra copy is paid for by one crash, shutdown, lapse or lost answer.
DuplicatesArePaidFor ==
    \A e \in Emails, g \in Groups : wire[e][g] <= 1 + interruptions

\* email.sent is committed with the first recorded delivery and never again:
\* at most once, and exactly once unless the degraded write dropped it.
SentEventOnce ==
    \A e \in Emails :
        /\ events[e].sent <= 1
        /\ events[e].sent = 1 => AnySent(row[e].delivery)
        /\ AnySent(row[e].delivery) => events[e].sent + events[e].dropped >= 1

\* A hard bounce is never recorded without the recipient's suppression: both
\* commit in one transaction, the degraded write included.
HardBounceSuppressed ==
    \A e \in Emails, g \in Groups :
        row[e].delivery[g] = "hard" => g \in suppressed

\* Attachment bytes are there as long as some attempt may still need them,
\* and gone once none will.
BytesUntilFinal ==
    \A e \in Emails : row[e].status # "purged" =>
        (row[e].bytes <=> row[e].status \in {"queued", "sending"})

\* What commits with an outcome stands or falls with it, in the degraded write
\* too: the email.sent event, the suppression of a hard bounce and the release
\* of the attachment bytes.
CommittedTogether == SentEventOnce /\ HardBounceSuppressed /\ BytesUntilFinal

\* An email that is not in the trash reaches a final status, whatever
\* processes die on the way: retries, deferrals and DKIM holds all end with
\* the retry window, and an abandoned row is claimed again.
Finishes ==
    \A e \in Emails :
        row[e].status \in {"queued", "sending"} ~>
            row[e].status \in FinalStatuses \/ row[e].trashed

-----------------------------------------------------------------------------
(* The abstract specification the queue implements.                        *)

\* What a row, and the claims in flight on it, are to the ledger.
StageOf(e) ==
    IF row[e].status = "purged" THEN "deleted"
    ELSE IF row[e].status \in FinalStatuses THEN "done"
    ELSE IF \E j \in jobs : j.email = e /\ HeldBy(j) THEN "held"
    ELSE "waiting"

Ledger == INSTANCE SendLedger WITH
    stage <- [e \in Emails |-> StageOf(e)],
    delivered <- [e \in Emails |-> {g \in Groups : row[e].delivery[g] = "sent"}],
    told <- [e \in Emails |-> events[e].sent]

\* The queue implements the ledger: through leases that lapse, processes that
\* die and outcomes written twice or late, a row changes its stage, its
\* deliveries and its event only as one holding claim settles it, and a row
\* that is done stays done.
ImplementsLedger == Ledger!LedgerSpec
=============================================================================
