--------------------------- MODULE QueueDecision ---------------------------
(***************************************************************************)
(* What the send queue decides after one attempt: the row's next status,   *)
(* the delay before the next attempt and the webhook events it raises      *)
(* (queue-decision.service.ts, retry-schedule.ts).                         *)
(*                                                                         *)
(* A delivery state maps every group of the email (one recipient domain)   *)
(* to its status.  The status and the failure kind the code stores beside  *)
(* it are folded into one value:                                           *)
(*   "none"    delivery_state is still null (no attempt recorded yet)      *)
(*   "retry"   status retry, any transient failure but a full mailbox      *)
(*   "full"    status retry, failureCode 4.2.2 (mailbox full)              *)
(*   "sent"    status sent                                                 *)
(*   "hard"    status failed, failureKind hard (a 5xx on the recipient)    *)
(*   "failed"  status failed otherwise: policy block, unroutable domain,   *)
(*             suppressed before the retry, retry window over              *)
(***************************************************************************)
EXTENDS Integers, Sequences

CONSTANTS
    Groups,         \* the recipient groups of an email
    RetrySchedule,  \* RETRY_SCHEDULE_MINUTES, in ticks
    RetryMaxAge,    \* MAIL_RETRY_MAX_AGE_HOURS, in ticks
    DeferDelay      \* the wait of a rate-budget deferral, in ticks

ASSUME ScheduleAssumption ==
    /\ RetrySchedule \in Seq(Nat \ {0})
    /\ RetrySchedule # << >>
ASSUME WindowAssumption == RetryMaxAge \in Nat
ASSUME DeferAssumption == DeferDelay \in Nat \ {0}

Pending == {"retry", "full"}
GroupStatus == Pending \cup {"sent", "hard", "failed"}
DeliveryState == [Groups -> GroupStatus \cup {"none"}]
NoState == [g \in Groups |-> "none"]

\* The status column of a group, without the failure kind folded into it.
StatusOf(s) == CASE s \in Pending -> "retry"
                 [] s = "hard"    -> "failed"
                 [] OTHER         -> s

RetryDelay(attempt) ==
    LET i == IF attempt < 1 THEN 1
             ELSE IF attempt > Len(RetrySchedule) THEN Len(RetrySchedule)
             ELSE attempt
    IN RetrySchedule[i]

\* nextRetryDelayMs(attempt, age, max) # null
CanRetry(attempt, age) == age + RetryDelay(attempt) <= RetryMaxAge

AnyRetry(state) == \E g \in Groups : state[g] \in Pending
AnySent(state) == \E g \in Groups : state[g] = "sent"
RealRetry(state, deferred) == \E g \in Groups \ deferred : state[g] \in Pending

Attempted(prior, state, deferred) ==
    \/ RealRetry(state, deferred)
    \/ \E g \in Groups : /\ StatusOf(state[g]) \in {"sent", "failed"}
                         /\ StatusOf(prior[g]) # StatusOf(state[g])

Later(a, b) == IF a > b THEN a ELSE b

\* Math.max(backoffMs ?? 0, deferMs ?? 0)
DelayOf(attempt, state, deferred) ==
    Later(IF RealRetry(state, deferred) THEN RetryDelay(attempt) ELSE 0,
          IF deferred # {} THEN DeferDelay ELSE 0)

\* retryDelayMs # null
WillRetry(attempt, age, state, deferred) ==
    /\ AnyRetry(state)
    /\ RealRetry(state, deferred) \/ deferred # {}
    /\ RealRetry(state, deferred) => CanRetry(attempt, age)
    /\ age + DelayOf(attempt, state, deferred) <= RetryMaxAge

OutcomeKind(attempt, age, prior, state, deferred) ==
    IF ~WillRetry(attempt, age, state, deferred) THEN "terminal"
    ELSE IF Attempted(prior, state, deferred) THEN "retry"
    ELSE "deferred"

\* A terminal outcome fails what was still pending.
FinalState(state) ==
    [g \in Groups |-> IF state[g] \in Pending THEN "failed" ELSE state[g]]

FinalStatus(state) ==
    IF AnySent(state) THEN "sent"
    ELSE IF \E g \in Groups : state[g] = "hard" THEN "bounced"
    ELSE "failed"

\* Mutant: no look at what an earlier attempt had already delivered.
SentEventEachTime(kind, prior, state) == kind # "deferred" /\ AnySent(state)

SentEvent(kind, prior, state) ==
    kind # "deferred" /\ AnySent(state) /\ ~AnySent(prior)

FailedEvent(kind, state) == kind = "terminal" /\ FinalStatus(state) = "failed"

\* The groups whose recipients get an inline bounce: newly failed by a hard
\* 5xx, or a full mailbox that outlasted the retry window.
HardBounces(prior, state) ==
    {g \in Groups : state[g] = "hard" /\ StatusOf(prior[g]) # "failed"}
SoftBounces(kind, state) ==
    IF kind = "terminal" THEN {g \in Groups : state[g] = "full"} ELSE {}
=============================================================================
