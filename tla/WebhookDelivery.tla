-------------------------- MODULE WebhookDelivery --------------------------
(***************************************************************************)
(* The webhook outbox: the rows of webhook_deliveries, and the processes   *)
(* that claim them, POST them and record the result (the                   *)
(* webhook-delivery-*.service.ts files).                                   *)
(*                                                                         *)
(* A claim has no owner and no token: it counts the attempt and pushes     *)
(* next_attempt_at past the expected end of the attempt, and the result is *)
(* written by row id alone.  Time is discrete; a row carries the ticks     *)
(* left until it is due.                                                   *)
(*                                                                         *)
(* A crash loses the attempts in flight and is never counted: a restarted  *)
(* process polls again.  What is counted is a lapse: an attempt that is    *)
(* still in flight when its row becomes due again (the POST is aborted     *)
(* after a third of the lock, the DNS lookup before it and the database    *)
(* write after it have no deadline).                                       *)
(***************************************************************************)
EXTENDS Integers, Sequences, FiniteSets

CONSTANTS
    Deliveries,
    Workers,
    Backoff,         \* RETRY_BACKOFF_MINUTES, in ticks
    LockTicks,       \* ATTEMPT_LOCK_MS, in ticks
    BatchSize,       \* BATCH_SIZE
    ReplayBudget,    \* replays of one delivery: 5 per hour and replica in the code
    MaxLapses,       \* bound on the lapses
    ReplayInFlight   \* may a delivery be replayed while an attempt is in flight?

ASSUME BackoffAssumption == Backoff \in Seq(Nat \ {0})
ASSUME BoundAssumption ==
    /\ LockTicks \in Nat \ {0}
    /\ BatchSize \in Nat \ {0}
    /\ ReplayBudget \in Nat
    /\ MaxLapses \in Nat
    /\ ReplayInFlight \in BOOLEAN

VARIABLES
    row,        \* the webhook_deliveries table
    tasks,      \* attempts in flight, over all processes
    hook,       \* the webhook and its API key: "active", "revoked", "deleted"
    replays,    \* replays done, per delivery
    claims,     \* attempts started since the enqueue or the last replay (history)
    lapses

outboxVars == <<row, tasks, hook, replays, claims, lapses>>

MaxAttempts == Len(Backoff) + 1
Finished == {"delivered", "failed"}

\* "cancelled" is status failed, by a webhook or key that was inactive.
\* "none" is a row that does not exist: not enqueued, purged or cascaded.
Row == [status : {"none", "pending", "cancelled"} \cup Finished,
        attempts : 0..MaxAttempts, due : Nat]
Task == [delivery : Deliveries, worker : Workers, prior : 0..(MaxAttempts - 1),
         result : {"posting", "ok", "error"}]
NoRow == [status |-> "none", attempts |-> 0, due |-> 0]

OutboxInit ==
    /\ row = [d \in Deliveries |-> NoRow]
    /\ tasks = {}
    /\ hook = "active"
    /\ replays = [d \in Deliveries |-> 0]
    /\ claims = [d \in Deliveries |-> 0]
    /\ lapses = 0

TasksOf(w) == {t \in tasks : t.worker = w}
InFlight(d) == {t \in tasks : t.delivery = d}

-----------------------------------------------------------------------------
(* The outbox insert, in the transaction of the state change it reports:   *)
(* one row per active, subscribed webhook.                                 *)

EnqueueEvent(d) ==
    /\ hook = "active"
    /\ row[d].status = "none" /\ claims[d] = 0
    /\ row' = [row EXCEPT ![d].status = "pending"]
    /\ UNCHANGED <<tasks, hook, replays, claims, lapses>>

-----------------------------------------------------------------------------
(* The worker's poll: claim a batch, attempt each row, record each result. *)

\* Mutant: a row that used up its attempts is left alone.
DueBelowLimit(d) ==
    row[d].status = "pending" /\ row[d].due = 0 /\ row[d].attempts < MaxAttempts

Due(d) == row[d].status = "pending" /\ row[d].due = 0

\* Mutant: the attempt is not counted when it is claimed.
ClaimedUncounted(r) == [r EXCEPT !.due = LockTicks]

\* Counts the attempt and hides the row from other claims.
Claimed(r) == [r EXCEPT !.attempts = @ + 1, !.due = LockTicks]

\* The follow-up updates of the claim, in its transaction: a row past the
\* attempt limit fails; so does one whose webhook or key is inactive, and
\* that one gets its attempt back.
AfterClaim(r) ==
    LET c == Claimed(r)
    IN IF c.attempts > MaxAttempts
       THEN [c EXCEPT !.status = "failed", !.attempts = MaxAttempts]
       ELSE IF hook # "active"
       THEN [c EXCEPT !.status = "cancelled", !.attempts = c.attempts - 1]
       ELSE c

\* A process polls again only when its whole last batch has settled.
ClaimDueDeliveries(w, S) ==
    LET live == {d \in S : AfterClaim(row[d]).status = "pending"}
    IN /\ TasksOf(w) = {}
       /\ S # {} /\ Cardinality(S) <= BatchSize
       /\ \A d \in S : Due(d)
       /\ row' = [d \in Deliveries |-> IF d \in S THEN AfterClaim(row[d]) ELSE row[d]]
       /\ tasks' = tasks \cup {[delivery |-> d, worker |-> w, prior |-> row[d].attempts,
                                result |-> "posting"] : d \in live}
       /\ claims' = [d \in Deliveries |-> IF d \in live THEN claims[d] + 1 ELSE claims[d]]
       /\ UNCHANGED <<hook, replays, lapses>>

\* The POST ends: 2xx, or anything else (an unreadable secret and a refused
\* address, where no request is made, included).
PerformHttpAttempt(t, result) ==
    /\ t.result = "posting"
    /\ tasks' = (tasks \ {t}) \cup {[t EXCEPT !.result = result]}
    /\ UNCHANGED <<row, hook, replays, claims, lapses>>

\* Mutant: the last wait is never taken.
RecordedEarly(r, t) ==
    LET n == t.prior + 1
    IN IF t.result = "ok" THEN [r EXCEPT !.status = "delivered", !.attempts = n]
       ELSE IF n >= Len(Backoff) THEN [r EXCEPT !.status = "failed", !.attempts = n]
       ELSE [r EXCEPT !.attempts = n, !.due = Backoff[n]]

\* recordAttempt writes by id, whatever happened to the row since the claim;
\* a retry leaves the status alone.
Recorded(r, t) ==
    LET n == t.prior + 1
    IN IF t.result = "ok" THEN [r EXCEPT !.status = "delivered", !.attempts = n]
       ELSE IF n > Len(Backoff) THEN [r EXCEPT !.status = "failed", !.attempts = n]
       ELSE [r EXCEPT !.attempts = n, !.due = Backoff[n]]

RecordAttempt(t) ==
    /\ t.result # "posting"
    /\ row' = IF row[t.delivery].status = "none" THEN row
              ELSE [row EXCEPT ![t.delivery] = Recorded(@, t)]
    /\ tasks' = tasks \ {t}
    /\ UNCHANGED <<hook, replays, claims, lapses>>

\* The write of the result fails: logged, and the row is left to its lock.
RecordAttemptFails(t) ==
    /\ t.result # "posting"
    /\ tasks' = tasks \ {t}
    /\ UNCHANGED <<row, hook, replays, claims, lapses>>

\* The process dies, or exits without waiting for its batch.
Crash(w) ==
    /\ TasksOf(w) # {}
    /\ tasks' = tasks \ TasksOf(w)
    /\ UNCHANGED <<row, hook, replays, claims, lapses>>

-----------------------------------------------------------------------------
(* Operators, retention and the clock.                                     *)

\* Any row may be replayed, whatever its status.
ReplayDelivery(d) ==
    /\ hook # "deleted" /\ row[d].status # "none"
    /\ replays[d] < ReplayBudget
    /\ InFlight(d) # {} => ReplayInFlight
    /\ row' = [row EXCEPT ![d] = [status |-> "pending", attempts |-> 0, due |-> 0]]
    /\ replays' = [replays EXCEPT ![d] = @ + 1]
    /\ claims' = [claims EXCEPT ![d] = 0]
    /\ UNCHANGED <<tasks, hook, lapses>>

\* Old finished rows, however long ago.
PurgeOldDeliveries ==
    \E S \in SUBSET {d \in Deliveries : row[d].status \in Finished \cup {"cancelled"}} :
        /\ S # {}
        /\ row' = [d \in Deliveries |-> IF d \in S THEN NoRow ELSE row[d]]
        /\ UNCHANGED <<tasks, hook, replays, claims, lapses>>

RevokeKey ==
    /\ hook = "active"
    /\ hook' = "revoked"
    /\ UNCHANGED <<row, tasks, replays, claims, lapses>>

\* The deliveries go with their webhook (ON DELETE CASCADE).
DeleteWebhook ==
    /\ hook # "deleted"
    /\ hook' = "deleted"
    /\ row' = [d \in Deliveries |-> NoRow]
    /\ UNCHANGED <<tasks, replays, claims, lapses>>

Less(n) == IF n = 0 THEN 0 ELSE n - 1

Lapses == \E t \in tasks : row[t.delivery].status = "pending" /\ row[t.delivery].due = 1

OutboxTick ==
    /\ \E d \in Deliveries : row[d].due > 0
    /\ Lapses => lapses < MaxLapses
    /\ lapses' = IF Lapses THEN lapses + 1 ELSE lapses
    /\ row' = [d \in Deliveries |-> [row[d] EXCEPT !.due = Less(@)]]
    /\ UNCHANGED <<tasks, hook, replays, claims>>

-----------------------------------------------------------------------------

TaskStep(t) ==
    \/ \E result \in {"ok", "error"} : PerformHttpAttempt(t, result)
    \/ RecordAttempt(t)
    \/ RecordAttemptFails(t)

OutboxNext ==
    \/ \E d \in Deliveries : EnqueueEvent(d) \/ ReplayDelivery(d)
    \/ \E w \in Workers : \/ \E S \in SUBSET Deliveries : ClaimDueDeliveries(w, S)
                          \/ Crash(w)
    \/ \E t \in tasks : TaskStep(t)
    \/ PurgeOldDeliveries \/ RevokeKey \/ DeleteWebhook \/ OutboxTick

OutboxSpec == OutboxInit /\ [][OutboxNext]_outboxVars

\* Time passes, every attempt ends in some way (the POST has a timeout; a crash
\* or a failed write is an end too), and the poll loop comes round to every row
\* that is due.
OutboxFairness ==
    /\ WF_outboxVars(OutboxTick)
    /\ \A d \in Deliveries, w \in Workers :
         WF_outboxVars(\E t \in tasks : t.delivery = d /\ t.worker = w /\ (TaskStep(t) \/ Crash(w)))
    /\ \A d \in Deliveries :
         SF_outboxVars(\E w \in Workers, S \in SUBSET Deliveries :
                   d \in S /\ ClaimDueDeliveries(w, S))

FairOutboxSpec == OutboxSpec /\ OutboxFairness

-----------------------------------------------------------------------------
(* Properties.                                                             *)

\* Rows and attempts keep their types; in particular attempts never passes the
\* limit, though every claim adds one before the limit is looked at.
OutboxTypeOK ==
    /\ row \in [Deliveries -> Row]
    /\ tasks \subseteq Task
    /\ hook \in {"active", "revoked", "deleted"}
    /\ replays \in [Deliveries -> Nat]
    /\ claims \in [Deliveries -> Nat]
    /\ lapses \in Nat

\* "Two concurrent workers will never see the same row": only a lapse puts a
\* second attempt of a delivery in flight.
OneAttemptAtATime ==
    \A d \in Deliveries : Cardinality(InFlight(d)) <= 1 + lapses

\* A retry cycle makes at most five attempts, crashes and lost results counted:
\* only a lapse, whose late result turns the counter back, adds one.
AttemptLimit ==
    \A d \in Deliveries : claims[d] <= MaxAttempts + lapses

\* Attempts are bounded in number and never overlap, but for lapses: crashed
\* processes and lost results are counted by the claim itself.
AttemptsAreBounded == OutboxTypeOK /\ OneAttemptAtATime /\ AttemptLimit

\* "2xx response: delivered (terminal)": only a replay, the retention or the
\* deletion of the webhook takes a delivery out of delivered, unless an attempt
\* lapsed: its late result is written over the newer one.
DeliveredIsTerminal ==
    lapses' = 0 =>
        \A d \in Deliveries :
            row[d].status = "delivered" =>
               \/ row'[d].status \in {"delivered", "none"}
               \/ replays'[d] > replays[d]

\* "The operator is starting a fresh retry cycle, not continuing the old one":
\* a delivery fails only after the five attempts of its current cycle, unless
\* the late result of a lapsed attempt moved its counter.
FullCycleBeforeFailed ==
    lapses = 0 =>
        \A d \in Deliveries : row[d].status = "failed" => claims[d] >= MaxAttempts

\* Without a lapse a retry cycle is run to its end and ends for good.
CycleIsKept == [][FullCycleBeforeFailed' /\ DeliveredIsTerminal]_outboxVars

\* Every delivery ends, even if every attempt kills its process: delivered,
\* failed, cancelled or deleted.
Settles ==
    \A d \in Deliveries : row[d].status = "pending" ~> row[d].status # "pending"
=============================================================================
