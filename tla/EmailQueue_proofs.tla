------------------------- MODULE EmailQueue_proofs -------------------------
(***************************************************************************)
(* Proofs about the send queue, for any emails, groups, processes, limits, *)
(* schedule and number of interruptions.                                   *)
(***************************************************************************)
EXTENDS EmailQueue, FiniteSetTheorems, TLAPS

-----------------------------------------------------------------------------
(* What the decision operators return.                                     *)

\* A backoff is a positive number of ticks, whatever the attempt.
LEMMA RetryDelayType ==
    ASSUME NEW a \in Nat
    PROVE  RetryDelay(a) \in Nat \ {0}
  <1> DEFINE n == Len(RetrySchedule)
  <1>1. n \in Nat /\ n >= 1 /\ \A i \in 1..n : RetrySchedule[i] \in Nat \ {0}
    BY ScheduleAssumption
  <1>2. CASE a < 1
    BY <1>1, <1>2 DEF RetryDelay
  <1>3. CASE a > n
    BY <1>1, <1>3 DEF RetryDelay
  <1>4. CASE a >= 1 /\ a <= n
    BY <1>1, <1>4 DEF RetryDelay
  <1> QED BY <1>1, <1>2, <1>3, <1>4

\* The delay of a requeued row is a natural number of ticks.
LEMMA DelayType ==
    ASSUME NEW a \in Nat, NEW s, NEW d
    PROVE  DelayOf(a, s, d) \in Nat
  BY RetryDelayType, DeferAssumption DEF DelayOf, Later

\* A delivery state stays one under the suppression re-check, the first
\* attempt's initial state and the terminal outcome.
LEMMA DeliveryTypes ==
    ASSUME NEW d \in DeliveryState
    PROVE  /\ DropSuppressed(d) \in DeliveryState
           /\ StartState(d) \in DeliveryState
           /\ FinalState(d) \in DeliveryState
  BY DEF DeliveryState, GroupStatus, Pending, DropSuppressed, StartState, FinalState

-----------------------------------------------------------------------------
(* Type correctness.                                                       *)

\* The empty queue of a fresh database is well typed.
LEMMA InitType == Init => TypeOK
  BY WorkerAssumption
  DEF Init, TypeOK, Row, RowStatus, FinalStatuses, DeliveryState, NoState,
      GroupStatus, ProcState, Event

\* A released row is a row.
LEMMA ReleasedType ==
    ASSUME NEW r \in Row, NEW s \in RowStatus, NEW n \in Nat, NEW a \in Nat,
           NEW d \in DeliveryState
    PROVE  Released(r, s, n, a, d) \in Row
  BY DEF Row, Released

\* So is a claimed row.
LEMMA ClaimedType ==
    ASSUME NEW r \in Row, NEW w \in Workers
    PROVE  [r EXCEPT !.status = "sending", !.attempts = @ + 1,
                     !.lockedBy = w, !.lease = LeaseTicks] \in Row
  <1> DEFINE n == r.attempts + 1
  <1>1. LeaseTicks \in Nat /\ n \in Nat /\ w \in Workers \cup {Nobody}
    BY LimitAssumption DEF Row
  <1>2. "sending" \in RowStatus
    BY DEF RowStatus
  <1> HIDE DEF n
  <1>3. [r EXCEPT !.status = "sending", !.attempts = n,
                  !.lockedBy = w, !.lease = LeaseTicks] \in Row
    BY <1>1, <1>2 DEF Row
  <1> QED BY <1>3 DEF n

\* So is a row that was renewed, handed back, trashed or aged.
LEMMA RowUpdates ==
    ASSUME NEW r \in Row, NEW flag \in BOOLEAN
    PROVE  /\ [r EXCEPT !.lease = LeaseTicks] \in Row
           /\ [r EXCEPT !.lease = 0] \in Row
           /\ [r EXCEPT !.trashed = flag] \in Row
           /\ Aged(r) \in Row
  <1>1. LeaseTicks \in Nat
    BY LimitAssumption
  <1>3. [r EXCEPT !.lease = LeaseTicks] \in Row /\ [r EXCEPT !.lease = 0] \in Row
    BY <1>1 DEF Row
  <1>4. [r EXCEPT !.trashed = flag] \in Row
    BY DEF Row
  <1> DEFINE l == Less(r.lease)
             d == Less(r.due)
             a == IF r.age > RetryMaxAge THEN r.age ELSE r.age + 1
  <1>5. l \in Nat /\ d \in Nat /\ a \in Nat
    BY WindowAssumption DEF Row, Less
  <1>6. Aged(r) = [r EXCEPT !.lease = l, !.due = d, !.age = a]
    BY DEF Aged
  <1> HIDE DEF l, d, a
  <1>7. Aged(r) \in Row
    BY <1>5, <1>6 DEF Row
  <1> QED BY <1>3, <1>4, <1>7

\* Counting events keeps the outbox well typed.
LEMMA EventsType ==
    ASSUME events \in [Emails -> Event], NEW e \in Emails, NEW m \in Nat, NEW n \in Nat
    PROVE  /\ [events EXCEPT ![e].failed = @ + n] \in [Emails -> Event]
           /\ [events EXCEPT ![e].sent = @ + m, ![e].failed = @ + n] \in [Emails -> Event]
           /\ [events EXCEPT ![e].dropped = @ + m + n] \in [Emails -> Event]
  <1>1. [events EXCEPT ![e].failed = @ + n] \in [Emails -> Event]
    BY DEF Event
  <1>2. [events EXCEPT ![e].dropped = @ + m + n] \in [Emails -> Event]
    BY DEF Event
  <1> DEFINE ev == [events EXCEPT ![e].sent = @ + m]
  <1>3. ev \in [Emails -> Event]
    BY DEF Event
  <1> HIDE DEF ev
  <1>4. [ev EXCEPT ![e].failed = @ + n] \in [Emails -> Event]
    BY <1>3 DEF Event
  <1> QED BY <1>1, <1>2, <1>4 DEF ev

\* Releasing a row with well-typed values keeps the table well typed.
LEMMA ReleaseType ==
    ASSUME TypeOK, NEW j \in jobs, NEW s \in RowStatus, NEW n \in Nat,
           NEW a \in Nat, NEW d \in DeliveryState,
           ReleaseRow(j, s, n, a, d)
    PROVE  row' \in [Emails -> Row]
  <1>1. j.email \in Emails
    BY DEF TypeOK, Job
  <1>2. Released(row[j.email], s, n, a, d) \in Row
    BY <1>1, ReleasedType DEF TypeOK
  <1> QED BY <1>1, <1>2 DEF TypeOK, ReleaseRow

\* The same for an outcome that leaves attempts and delivery state alone.
LEMMA ReleaseUnsentType ==
    ASSUME TypeOK, NEW j \in jobs, NEW s \in RowStatus, NEW n \in Nat,
           ReleaseUnsent(j, s, n)
    PROVE  row' \in [Emails -> Row]
  <1>1. row[j.email].attempts \in Nat /\ row[j.email].delivery \in DeliveryState
    BY DEF TypeOK, Job, Row
  <1> QED BY <1>1, ReleaseType DEF ReleaseUnsent

\* A failed claim keeps rows and events well typed.
LEMMA FailType ==
    ASSUME TypeOK, NEW j \in jobs, FailWithEvent(j)
    PROVE  row' \in [Emails -> Row] /\ events' \in [Emails -> Event]
  <1>1. j.email \in Emails /\ row[j.email].due \in Nat
    BY DEF TypeOK, Job, Row
  <1>2. row' \in [Emails -> Row]
    BY <1>1, ReleaseUnsentType DEF FailWithEvent, RowStatus, FinalStatuses
  <1>3. events' \in [Emails -> Event]
    BY <1>1, EventsType DEF TypeOK, FailWithEvent
  <1> QED BY <1>2, <1>3

\* A commit of the outcome transaction keeps rows, suppressions and events
\* well typed.
LEMMA WriteType ==
    ASSUME TypeOK, NEW j \in jobs, Write(j)
    PROVE  /\ row' \in [Emails -> Row]
           /\ suppressed' \in SUBSET Groups
           /\ events' \in [Emails -> Event]
  <1>1. /\ j.email \in Emails /\ j.attempt \in Nat \ {0}
        /\ j.state \in DeliveryState
        /\ row[j.email].due \in Nat
    BY DEF TypeOK, Job, Row
  <1>2. OutcomeStatus(j) \in RowStatus
    BY DEF OutcomeStatus, FinalStatus, RowStatus, FinalStatuses
  <1>3. OutcomeDue(j) \in Nat
    BY <1>1, DelayType DEF OutcomeDue
  <1>4. OutcomeAttempts(j) \in Nat
    BY <1>1 DEF OutcomeAttempts
  <1>5. OutcomeDelivery(j) \in DeliveryState
    BY <1>1, DeliveryTypes DEF OutcomeDelivery
  <1>6. row' \in [Emails -> Row]
    BY <1>2, <1>3, <1>4, <1>5, ReleaseType DEF Write
  <1>7. suppressed' \in SUBSET Groups
    BY DEF Write, TypeOK, HardBounces, SoftBounces
  <1>8. events' \in [Emails -> Event]
    BY <1>1, EventsType DEF Write, TypeOK
  <1> QED BY <1>6, <1>7, <1>8

\* Every step of the queue keeps every variable in its type.
LEMMA NextType == TypeOK /\ [Next]_vars => TypeOK'
  <1> SUFFICES ASSUME TypeOK, [Next]_vars
               PROVE  TypeOK'
    OBVIOUS
  <1>1. ASSUME NEW j \in jobs, JobStep(j)
        PROVE  TypeOK'
    <2>0. /\ j \in Job /\ j.email \in Emails /\ j.attempt \in Nat \ {0}
          /\ j.prior \in DeliveryState /\ j.state \in DeliveryState
          /\ row[j.email].due \in Nat
      BY DEF TypeOK, Job, Row
    <2>1. CASE RenewLease(j)
      <3>1. [row[j.email] EXCEPT !.lease = LeaseTicks] \in Row
        BY <2>0, RowUpdates DEF TypeOK, Job
      <3> QED BY <2>0, <2>1, <3>1 DEF TypeOK, RenewLease
    <2>2. CASE FailRevoked(j)
      <3>1. row' \in [Emails -> Row]
        BY <2>0, <2>2, ReleaseUnsentType DEF FailRevoked, RowStatus, FinalStatuses
      <3> QED BY <2>2, <3>1 DEF TypeOK, FailRevoked
    <2>3. CASE HoldForDkimKey(j)
      <3>1. CASE CanRetry(j.attempt, j.age)
        <4>1. row' \in [Emails -> Row] /\ events' = events
          BY <2>0, <2>3, <3>1, ReleaseUnsentType, RetryDelayType
          DEF HoldForDkimKey, RowStatus
        <4> QED BY <2>3, <4>1 DEF TypeOK, HoldForDkimKey
      <3>2. CASE ~CanRetry(j.attempt, j.age)
        <4>1. row' \in [Emails -> Row] /\ events' \in [Emails -> Event]
          BY <2>3, <3>2, FailType DEF HoldForDkimKey
        <4> QED BY <2>3, <4>1 DEF TypeOK, HoldForDkimKey
      <3> QED BY <3>1, <3>2
    <2>4. CASE FailOnError(j)
      <3>1. row' \in [Emails -> Row] /\ events' \in [Emails -> Event]
        BY <2>4, FailType DEF FailOnError
      <3> QED BY <2>4, <3>1 DEF TypeOK, FailOnError, Interrupt
    <2>5. CASE AbandonClaim(j)
      BY <2>5 DEF TypeOK, AbandonClaim, Interrupt
    <2>6. CASE BeginSend(j)
      <3> DEFINE prior == DropSuppressed(j.prior)
                 start == StartState(prior)
                 todo == {g \in Groups : start[g] \in Pending}
      <3>1. prior \in DeliveryState /\ start \in DeliveryState
        BY <2>0, DeliveryTypes
      <3>2. todo \in SUBSET Groups
        OBVIOUS
      <3>3. jobs' = (jobs \ {j}) \cup
                    {[j EXCEPT !.pc = "sending", !.prior = prior, !.state = start,
                               !.todo = todo]}
        BY <2>6 DEF BeginSend
      <3> HIDE DEF prior, start, todo
      <3>4. [j EXCEPT !.pc = "sending", !.prior = prior, !.state = start,
                      !.todo = todo] \in Job
        BY <2>0, <3>1, <3>2 DEF Job
      <3> QED BY <2>6, <3>3, <3>4 DEF TypeOK, BeginSend
    <2>7. ASSUME NEW g \in Groups, NEW res \in GroupStatus, NEW accepted \in BOOLEAN,
                 DeliverGroup(j, g, res, accepted)
          PROVE  TypeOK'
      <3>1. [j.state EXCEPT ![g] = res] \in DeliveryState
        BY <2>0 DEF DeliveryState
      <3>2. [j EXCEPT !.todo = @ \ {g}, !.state[g] = res] \in Job
        BY <2>0, <3>1 DEF Job
      <3>3. wire' \in [Emails -> [Groups -> Nat]]
        BY <2>0, <2>7 DEF TypeOK, DeliverGroup
      <3>4. interruptions' \in Nat
        BY <2>7 DEF TypeOK, DeliverGroup, Interrupt
      <3>5. jobs' \subseteq Job
        BY <2>7, <3>2 DEF TypeOK, DeliverGroup
      <3> QED BY <2>7, <3>3, <3>4, <3>5 DEF TypeOK, DeliverGroup
    <2>8. ASSUME NEW g \in Groups, DeferGroup(j, g)
          PROVE  TypeOK'
      <3>1. [j EXCEPT !.todo = @ \ {g}, !.deferred = @ \cup {g}] \in Job
        BY <2>0 DEF Job
      <3> QED BY <2>8, <3>1 DEF TypeOK, DeferGroup
    <2>9. CASE RecordSendOutcome(j)
      <3>1. /\ row' \in [Emails -> Row]
            /\ suppressed' \in SUBSET Groups
            /\ events' \in [Emails -> Event]
        BY <2>9, WriteType DEF RecordSendOutcome
      <3> QED BY <2>9, <3>1 DEF TypeOK, RecordSendOutcome
    <2>10. ASSUME AfterFailedWrite(j)
           PROVE  jobs' \subseteq Job
      <3>1. j.writes < FullWrites => [j EXCEPT !.writes = @ + 1] \in Job
        BY <2>0, LimitAssumption DEF Job
      <3> QED BY <2>10, <3>1 DEF TypeOK, AfterFailedWrite
    <2>11. CASE RecordRolledBack(j)
      BY <2>10, <2>11 DEF TypeOK, RecordRolledBack, Interrupt
    <2>12. CASE RecordAnswerLost(j)
      <3>1. /\ row' \in [Emails -> Row]
            /\ suppressed' \in SUBSET Groups
            /\ events' \in [Emails -> Event]
        BY <2>12, WriteType DEF RecordAnswerLost
      <3> QED BY <2>10, <2>12, <3>1 DEF TypeOK, RecordAnswerLost, Interrupt
    <2> QED BY <1>1, <2>1, <2>2, <2>3, <2>4, <2>5, <2>6, <2>7, <2>8, <2>9, <2>11, <2>12
        DEF JobStep
  <1>2. ASSUME NEW w \in Workers, ProcStep(w)
        PROVE  TypeOK'
    <2>1. ASSUME NEW S \in SUBSET Emails, Claim(w, S)
          PROVE  row' \in [Emails -> Row] /\ jobs' \subseteq Job
      <3>1. ASSUME NEW e \in Emails
            PROVE  [row[e] EXCEPT !.status = "sending", !.attempts = @ + 1,
                                  !.lockedBy = w, !.lease = LeaseTicks] \in Row
        BY ClaimedType DEF TypeOK
      <3>2. ASSUME NEW e \in Emails
            PROVE  NewJob(w, e) \in Job
        <4>1. row[e] \in Row
          BY DEF TypeOK
        <4>2. 0 \in 0..FullWrites
          BY LimitAssumption
        <4> QED BY <4>1, <4>2 DEF Row, Job, NewJob
      <3>3. row' \in [Emails -> Row]
        BY <2>1, <3>1 DEF Claim, TypeOK
      <3>4. jobs' \subseteq Job
        BY <2>1, <3>2 DEF Claim, TypeOK
      <3> QED BY <3>3, <3>4
    <2>2. ASSUME NEW S \in SUBSET Emails, ClaimNextEmails(w, S)
          PROVE  TypeOK'
      BY <2>1, <2>2 DEF TypeOK, ClaimNextEmails, Claim
    <2>3. ASSUME NEW S \in SUBSET Emails, LateClaim(w, S)
          PROVE  TypeOK'
      <3>1. proc' \in [Workers -> ProcState] /\ interruptions' \in Nat
        BY <2>3 DEF TypeOK, LateClaim, Interrupt, ProcState
      <3>2. row' \in [Emails -> Row] /\ jobs' \subseteq Job
        BY <2>1, <2>3 DEF LateClaim
      <3>3. UNCHANGED <<keyActive, suppressed, events, wire>>
        BY <2>3 DEF LateClaim, Claim
      <3> QED BY <3>1, <3>2, <3>3 DEF TypeOK
    <2>4. CASE Shutdown(w)
      <3>1. ASSUME NEW e \in Emails
            PROVE  [row[e] EXCEPT !.lease = 0] \in Row
        BY RowUpdates DEF TypeOK
      <3>2. row' \in [Emails -> Row]
        BY <2>4, <3>1 DEF TypeOK, Shutdown, ReleaseOwnLeases
      <3>3. proc' \in [Workers -> ProcState]
        BY <2>4 DEF TypeOK, Shutdown, ProcState
      <3> QED BY <2>4, <3>2, <3>3 DEF TypeOK, Shutdown, Interrupt
    <2>5. CASE Exit(w)
      BY <2>5 DEF TypeOK, Exit, ProcState
    <2>6. CASE Crash(w)
      BY <2>6 DEF TypeOK, Crash, ProcState, Interrupt
    <2> QED BY <1>2, <2>2, <2>3, <2>4, <2>5, <2>6 DEF ProcStep
  <1>3. CASE EnvStep
    <2>1. ASSUME NEW e \in Emails, NEW flag \in BOOLEAN, SetTrashed(e, flag)
          PROVE  TypeOK'
      <3>1. [row[e] EXCEPT !.trashed = flag] \in Row
        BY DEF TypeOK, Row
      <3> QED BY <2>1, <3>1 DEF TypeOK, SetTrashed
    <2>2. ASSUME NEW e \in Emails, DeleteEmail(e)
          PROVE  TypeOK'
      <3>1. row[e] \in Row /\ row[e].attempts \in Nat /\ row[e].delivery \in DeliveryState
        BY DEF TypeOK, Row
      <3>2. Released(row[e], "purged", 0, row[e].attempts, row[e].delivery) \in Row
        BY <3>1, ReleasedType DEF RowStatus
      <3> QED BY <2>2, <3>2 DEF TypeOK, DeleteEmail
    <2>3. CASE RevokeKey
      BY <2>3 DEF TypeOK, RevokeKey
    <2>4. ASSUME NEW g \in Groups, Suppress(g)
          PROVE  TypeOK'
      BY <2>4 DEF TypeOK, Suppress
    <2>5. CASE Tick
      <3>1. ASSUME NEW e \in Emails
            PROVE  Aged(row[e]) \in Row
        BY RowUpdates DEF TypeOK
      <3>2. row' \in [Emails -> Row]
        BY <2>5, <3>1 DEF Tick
      <3>3. interruptions' \in Nat
        BY <2>5 DEF TypeOK, Tick, Interrupt
      <3> QED BY <2>5, <3>2, <3>3 DEF TypeOK, Tick
    <2> QED BY <1>3, <2>1, <2>2, <2>3, <2>4, <2>5 DEF EnvStep, TrashEmail, RestoreEmail
  <1>4. CASE UNCHANGED vars
    BY <1>4 DEF TypeOK, vars
  <1> QED BY <1>1, <1>2, <1>3, <1>4 DEF Next

\* Type correctness of the send queue: rows, claims in flight, processes and
\* history counters keep their types in every behaviour.
THEOREM TypeCorrect == Spec => []TypeOK
  BY InitType, NextType, PTL DEF Spec

-----------------------------------------------------------------------------
(* Fencing.  The argument: a claim raises attempts above every token in    *)
(* flight, so it is the only one to carry the new value; releases leave    *)
(* attempts alone, except a deferral, which lowers it by one.  Only the    *)
(* holder can write that, it is the only job at the current value, and it  *)
(* ends with the write, so no token is left above the lowered value.  The  *)
(* last step needs the assumption that a committed deferral is seen as     *)
(* committed: otherwise the job lives on with a token that the next claim  *)
(* draws again.                                                            *)

\* The inductive invariant behind SingleHolder.
Fenced == TypeOK /\ TokensBounded /\ TokenUnique

\* What a release does to status and attempts.
LEMMA ReleaseFields ==
    ASSUME TypeOK, NEW j \in jobs, NEW s, NEW n, NEW a, NEW d,
           ReleaseRow(j, s, n, a, d)
    PROVE  /\ HeldBy(j) => /\ row'[j.email].attempts = a
                           /\ row'[j.email].status = s
                           /\ row'[j.email].delivery = d
           /\ ~HeldBy(j) => row' = row
           /\ \A e \in Emails : e # j.email => row'[e] = row[e]
  BY DEF TypeOK, Job, Row, ReleaseRow, Released

\* A release that keeps attempts and ends the job keeps the fence.
LEMMA UnsentFenced ==
    ASSUME Fenced, NEW j \in jobs, NEW s \in RowStatus \ {"sending"}, NEW n,
           ReleaseUnsent(j, s, n), jobs' = jobs \ {j}
    PROVE  TokensBounded' /\ TokenUnique'
  <1>1. /\ HeldBy(j) => /\ row'[j.email].attempts = row[j.email].attempts
                        /\ row'[j.email].status = s
        /\ ~HeldBy(j) => row' = row
        /\ \A e \in Emails : e # j.email => row'[e] = row[e]
    BY ReleaseFields DEF Fenced, ReleaseUnsent
  <1>2. \A k \in jobs : k.email \in Emails
    BY DEF Fenced, TypeOK, Job
  <1>3. \A e \in Emails : row'[e].attempts = row[e].attempts
    BY <1>1
  <1>4. \A e \in Emails : row'[e].status = "sending" => row[e].status = "sending"
    BY <1>1
  <1>5. TokensBounded'
    BY <1>2, <1>3 DEF Fenced, TokensBounded
  <1>6. TokenUnique'
    BY <1>2, <1>3, <1>4 DEF Fenced, TokenUnique
  <1> QED BY <1>5, <1>6

\* Replacing a job by a later stage of itself keeps the fence.
LEMMA ReplaceFenced ==
    ASSUME Fenced, NEW j \in jobs, NEW k,
           k.email = j.email, k.attempt = j.attempt,
           UNCHANGED row, jobs' \subseteq (jobs \ {j}) \cup {k}
    PROVE  TokensBounded' /\ TokenUnique'
  BY DEF Fenced, TokensBounded, TokenUnique

\* A commit of the outcome transaction keeps the fence, whether the job ends
\* or (unless it deferred) writes again.
LEMMA WriteFenced ==
    ASSUME Fenced, NEW j \in jobs, Write(j), NEW k,
           k.email = j.email, k.attempt = j.attempt,
           jobs' = jobs \ {j} \/ (jobs' \subseteq (jobs \ {j}) \cup {k} /\ KindOf(j) # "deferred")
    PROVE  TokensBounded' /\ TokenUnique'
  <1>1. /\ HeldBy(j) => /\ row'[j.email].attempts = OutcomeAttempts(j)
                        /\ row'[j.email].status = OutcomeStatus(j)
        /\ ~HeldBy(j) => row' = row
        /\ \A e \in Emails : e # j.email => row'[e] = row[e]
    BY ReleaseFields DEF Fenced, Write
  <1>2. OutcomeStatus(j) # "sending"
    BY DEF OutcomeStatus, FinalStatus
  <1>3. /\ \A i \in jobs : i.email \in Emails /\ i.attempt \in Nat
        /\ \A e \in Emails : row[e].attempts \in Nat
    BY DEF Fenced, TypeOK, Job, Row
  <1>4. CASE ~HeldBy(j)
    BY <1>1, <1>4 DEF Fenced, TokensBounded, TokenUnique
  <1>5. CASE HeldBy(j)
    <2>1. row[j.email].status = "sending" /\ row[j.email].attempts = j.attempt
      BY <1>5 DEF HeldBy
    <2>2. \A i \in jobs \ {j} : i.email = j.email => i.attempt <= j.attempt - 1
      BY <1>3, <2>1 DEF Fenced, TokensBounded, TokenUnique
    <2>3. OutcomeAttempts(j) \in {j.attempt, j.attempt - 1}
          /\ (KindOf(j) # "deferred" => OutcomeAttempts(j) = j.attempt)
      BY DEF OutcomeAttempts
    <2>4. TokensBounded'
      BY <1>1, <1>3, <1>5, <2>2, <2>3 DEF Fenced, TokensBounded
    <2>5. TokenUnique'
      BY <1>1, <1>2, <1>3, <1>5 DEF Fenced, TokenUnique
    <2> QED BY <2>4, <2>5
  <1> QED BY <1>4, <1>5

\* A claim raises attempts above every token in flight.
LEMMA ClaimFenced ==
    ASSUME Fenced, NEW w \in Workers, NEW S \in SUBSET Emails, Claim(w, S)
    PROVE  TokensBounded' /\ TokenUnique'
  <1>1. \A e \in Emails :
          /\ e \in S => row'[e].attempts = row[e].attempts + 1
          /\ e \notin S => row'[e] = row[e]
    BY DEF Fenced, TypeOK, Row, Claim
  <1>2. /\ \A i \in jobs : i.email \in Emails /\ i.attempt \in Nat
        /\ \A e \in Emails : row[e].attempts \in Nat
    BY DEF Fenced, TypeOK, Job, Row
  <1>3. \A e \in S : NewJob(w, e).email = e /\ NewJob(w, e).attempt = row[e].attempts + 1
    BY DEF NewJob
  <1>4. jobs' = jobs \cup {NewJob(w, e) : e \in S}
    BY DEF Claim
  <1>5. \A i \in jobs : i.attempt <= row[i.email].attempts
    BY DEF Fenced, TokensBounded
  <1>6. TokensBounded'
    BY <1>1, <1>2, <1>3, <1>4, <1>5 DEF TokensBounded
  <1>7. ASSUME NEW i \in jobs', NEW k \in jobs', i.email = k.email,
               row'[i.email].status = "sending",
               i.attempt = row'[i.email].attempts,
               k.attempt = row'[i.email].attempts
        PROVE  i = k
    <2>1. i.email \in Emails
      BY <1>2, <1>3, <1>4
    <2>2. CASE i.email \in S
      <3>1. i \notin jobs /\ k \notin jobs
        BY <1>1, <1>2, <1>5, <1>7, <2>1, <2>2
      <3>2. i = NewJob(w, i.email) /\ k = NewJob(w, i.email)
        BY <1>3, <1>4, <1>7, <3>1
      <3> QED BY <3>2
    <2>3. CASE i.email \notin S
      <3>1. i \in jobs /\ k \in jobs
        BY <1>3, <1>4, <1>7, <2>3
      <3> QED BY <1>1, <1>7, <2>1, <2>3, <3>1 DEF Fenced, TokenUnique
    <2> QED BY <2>2, <2>3
  <1>8. TokenUnique'
    BY <1>7 DEF TokenUnique
  <1> QED BY <1>6, <1>8

\* So does any step that starts no job, keeps attempts and sends no row.
LEMMA QuietFenced ==
    ASSUME Fenced, jobs' \subseteq jobs,
           \A e \in Emails : /\ row'[e].attempts = row[e].attempts
                             /\ row'[e].status = "sending" => row[e].status = "sending"
    PROVE  TokensBounded' /\ TokenUnique'
  <1>1. \A k \in jobs : k.email \in Emails
    BY DEF Fenced, TypeOK, Job
  <1> QED BY <1>1 DEF Fenced, TokensBounded, TokenUnique

\* Every step keeps the fence, when no committed deferral is repeated.
LEMMA NextFenced ==
    ASSUME ~DeferralAckLoss, Fenced, [Next]_vars
    PROVE  Fenced'
  <1>0. TypeOK'
    BY NextType DEF Fenced
  <1>t. TypeOK
    BY DEF Fenced
  <1>1. ASSUME NEW j \in jobs, JobStep(j)
        PROVE  TokensBounded' /\ TokenUnique'
    <2>0. j \in Job
      BY <1>t DEF TypeOK
    <2>1. CASE RenewLease(j)
      <3>1. \A e \in Emails : row'[e].attempts = row[e].attempts /\ row'[e].status = row[e].status
        BY <1>t, <2>0, <2>1 DEF TypeOK, Row, Job, RenewLease
      <3> QED BY <2>1, <3>1, QuietFenced DEF RenewLease
    <2>2. CASE FailRevoked(j)
      BY <2>2, UnsentFenced DEF FailRevoked, RowStatus, FinalStatuses
    <2>3. CASE HoldForDkimKey(j)
      BY <2>3, UnsentFenced DEF HoldForDkimKey, FailWithEvent, RowStatus, FinalStatuses
    <2>4. CASE FailOnError(j)
      BY <2>4, UnsentFenced DEF FailOnError, FailWithEvent, RowStatus, FinalStatuses
    <2>5. CASE AbandonClaim(j)
      BY <2>5, QuietFenced DEF AbandonClaim
    <2>6. CASE BeginSend(j)
      <3> DEFINE prior == DropSuppressed(j.prior)
                 start == StartState(prior)
                 k == [j EXCEPT !.pc = "sending", !.prior = prior, !.state = start,
                                !.todo = {g \in Groups : start[g] \in Pending}]
      <3>1. jobs' = (jobs \ {j}) \cup {k}
        BY <2>6 DEF BeginSend
      <3>2. k.email = j.email /\ k.attempt = j.attempt
        BY <2>0 DEF Job
      <3> HIDE DEF k
      <3> QED BY <2>6, <3>1, <3>2, ReplaceFenced DEF BeginSend
    <2>7. ASSUME NEW g \in Groups, NEW res \in GroupStatus, NEW accepted \in BOOLEAN,
                 DeliverGroup(j, g, res, accepted)
          PROVE  TokensBounded' /\ TokenUnique'
      <3> DEFINE k == [j EXCEPT !.todo = @ \ {g}, !.state[g] = res]
      <3>1. jobs' = (jobs \ {j}) \cup {k}
        BY <2>7 DEF DeliverGroup
      <3>2. k.email = j.email /\ k.attempt = j.attempt
        BY <2>0 DEF Job
      <3> HIDE DEF k
      <3> QED BY <2>7, <3>1, <3>2, ReplaceFenced DEF DeliverGroup
    <2>8. ASSUME NEW g \in Groups, DeferGroup(j, g)
          PROVE  TokensBounded' /\ TokenUnique'
      <3> DEFINE k == [j EXCEPT !.todo = @ \ {g}, !.deferred = @ \cup {g}]
      <3>1. jobs' = (jobs \ {j}) \cup {k}
        BY <2>8 DEF DeferGroup
      <3>2. k.email = j.email /\ k.attempt = j.attempt
        BY <2>0 DEF Job
      <3> HIDE DEF k
      <3> QED BY <2>8, <3>1, <3>2, ReplaceFenced DEF DeferGroup
    <2>9. CASE RecordSendOutcome(j)
      BY <2>9, WriteFenced DEF RecordSendOutcome
    <2>10. ASSUME AfterFailedWrite(j)
           PROVE  \E k : /\ jobs' \subseteq (jobs \ {j}) \cup {k}
                         /\ k.email = j.email /\ k.attempt = j.attempt
      <3> WITNESS [j EXCEPT !.writes = @ + 1]
      <3> QED BY <2>0, <2>10 DEF AfterFailedWrite, Job
    <2>11. CASE RecordRolledBack(j)
      BY <2>10, <2>11, ReplaceFenced DEF RecordRolledBack
    <2>12. CASE RecordAnswerLost(j)
      BY <2>10, <2>12, WriteFenced DEF RecordAnswerLost
    <2> QED BY <1>1, <2>1, <2>2, <2>3, <2>4, <2>5, <2>6, <2>7, <2>8, <2>9, <2>11, <2>12
        DEF JobStep
  <1>2. ASSUME NEW w \in Workers, ProcStep(w)
        PROVE  TokensBounded' /\ TokenUnique'
    <2>1. ASSUME NEW S \in SUBSET Emails, ClaimNextEmails(w, S) \/ LateClaim(w, S)
          PROVE  TokensBounded' /\ TokenUnique'
      BY <2>1, ClaimFenced DEF ClaimNextEmails, LateClaim
    <2>2. CASE Shutdown(w)
      <3>1. \A e \in Emails : row'[e].attempts = row[e].attempts /\ row'[e].status = row[e].status
        BY <1>t, <2>2 DEF TypeOK, Row, Shutdown, ReleaseOwnLeases
      <3> QED BY <2>2, <3>1, QuietFenced DEF Shutdown
    <2>3. CASE Exit(w)
      BY <2>3, QuietFenced DEF Exit
    <2>4. CASE Crash(w)
      BY <2>4, QuietFenced DEF Crash
    <2> QED BY <1>2, <2>1, <2>2, <2>3, <2>4 DEF ProcStep
  <1>3. ASSUME EnvStep
        PROVE  TokensBounded' /\ TokenUnique'
    <2>1. ASSUME NEW e \in Emails, NEW flag \in BOOLEAN, SetTrashed(e, flag)
          PROVE  TokensBounded' /\ TokenUnique'
      <3>1. \A x \in Emails : row'[x].attempts = row[x].attempts /\ row'[x].status = row[x].status
        BY <1>t, <2>1 DEF TypeOK, Row, SetTrashed
      <3> QED BY <2>1, <3>1, QuietFenced DEF SetTrashed
    <2>2. ASSUME NEW e \in Emails, DeleteEmail(e)
          PROVE  TokensBounded' /\ TokenUnique'
      <3>1. \A x \in Emails : /\ row'[x].attempts = row[x].attempts
                              /\ row'[x].status = "sending" => row[x].status = "sending"
        BY <1>t, <2>2 DEF TypeOK, Row, DeleteEmail, Released
      <3> QED BY <2>2, <3>1, QuietFenced DEF DeleteEmail
    <2>3. CASE RevokeKey
      BY <2>3, QuietFenced DEF RevokeKey
    <2>4. ASSUME NEW g \in Groups, Suppress(g)
          PROVE  TokensBounded' /\ TokenUnique'
      BY <2>4, QuietFenced DEF Suppress
    <2>5. CASE Tick
      <3>1. \A e \in Emails : row'[e].attempts = row[e].attempts /\ row'[e].status = row[e].status
        BY <1>t, <2>5 DEF TypeOK, Row, Tick, Aged
      <3> QED BY <2>5, <3>1, QuietFenced DEF Tick
    <2> QED BY <1>3, <2>1, <2>2, <2>3, <2>4, <2>5 DEF EnvStep, TrashEmail, RestoreEmail
  <1>4. ASSUME UNCHANGED vars
        PROVE  TokensBounded' /\ TokenUnique'
    BY <1>4, QuietFenced DEF vars
  <1> QED BY <1>0, <1>1, <1>2, <1>3, <1>4 DEF Next, Fenced

\* The fencing token works: for any number of processes, lapses, crashes and
\* repeated writes, at most one claim in flight matches a row, provided a
\* committed deferral is always seen as committed.
THEOREM Fencing == ASSUME ~DeferralAckLoss PROVE Spec => []SingleHolder
  <1>1. Init => Fenced
    BY InitType DEF Init, Fenced, TokensBounded, TokenUnique
  <1>2. Fenced /\ [Next]_vars => Fenced'
    BY NextFenced
  <1>3. Fenced => SingleHolder
    BY DEF Fenced, TokenUnique, SingleHolder, HeldBy
  <1> QED BY <1>1, <1>2, <1>3, PTL DEF Spec

-----------------------------------------------------------------------------
(* Recorded deliveries.  The holder's snapshot agrees with the row on what *)
(* is delivered: a claim reads it in the same statement, only a holder     *)
(* changes it, and after that nobody holds the row.  A job never touches a *)
(* group its snapshot says is sent, so the state it writes keeps them.     *)

\* The inductive invariant behind HolderIsFresh and RecordedDeliveriesStay.
Recorded == Fenced /\ HolderIsFresh /\ KeepsSent

\* A job that goes on is the same claim with the same view of what is sent.
SameClaim(j, k) ==
    /\ k.email = j.email /\ k.worker = j.worker /\ k.attempt = j.attempt
    /\ \A g \in Groups : k.prior[g] = "sent" <=> j.prior[g] = "sent"

\* A row that is still sending is the same claim's, unchanged by the step.
SameHold(e) ==
    row'[e].status = "sending" =>
        /\ row[e].status = "sending"
        /\ row'[e].lockedBy = row[e].lockedBy
        /\ row'[e].attempts = row[e].attempts
        /\ row'[e].delivery = row[e].delivery

\* Steps that only continue claims keep the holder fresh.
LEMMA FreshKept ==
    ASSUME TypeOK, HolderIsFresh,
           \A k \in jobs' : \E j \in jobs : SameClaim(j, k),
           \A e \in Emails : SameHold(e)
    PROVE  HolderIsFresh'
  <1> SUFFICES ASSUME NEW k \in jobs', HeldBy(k)', NEW g \in Groups
               PROVE  row'[k.email].delivery[g] = "sent" <=> k.prior[g] = "sent"
    BY DEF HolderIsFresh
  <1>1. PICK j \in jobs : SameClaim(j, k)
    OBVIOUS
  <1>2. j.email \in Emails /\ k.email = j.email
    BY <1>1 DEF TypeOK, Job, SameClaim
  <1>3. HeldBy(j) /\ row'[k.email].delivery = row[k.email].delivery
    BY <1>1, <1>2 DEF SameClaim, SameHold, HeldBy
  <1> QED BY <1>1, <1>2, <1>3 DEF HolderIsFresh, SameClaim

\* After a release the row is not sending, or nothing changed.
LEMMA ReleaseHold ==
    ASSUME TypeOK, NEW j \in jobs, NEW s, NEW n, NEW a, NEW d,
           ReleaseRow(j, s, n, a, d), s # "sending"
    PROVE  \A e \in Emails : SameHold(e)
  <1>1. /\ HeldBy(j) => row'[j.email].status = s
        /\ ~HeldBy(j) => row' = row
        /\ \A e \in Emails : e # j.email => row'[e] = row[e]
    BY ReleaseFields
  <1> QED BY <1>1 DEF SameHold

\* Continuing or ending jobs keeps what each knows to be sent.
LEMMA StagesKeepSent ==
    ASSUME TypeOK, NEW j \in jobs
    PROVE  /\ SameClaim(j, j)
           /\ j.writes < FullWrites => SameClaim(j, [j EXCEPT !.writes = @ + 1])
  BY DEF TypeOK, Job, SameClaim

\* A claim reads the delivery state in the statement that takes the row, and
\* supersedes every earlier token.
LEMMA ClaimFresh ==
    ASSUME Recorded, NEW w \in Workers, NEW S \in SUBSET Emails, Claim(w, S)
    PROVE  HolderIsFresh' /\ KeepsSent'
  <1>1. \A e \in Emails :
          /\ e \in S => /\ row'[e].attempts = row[e].attempts + 1
                        /\ row'[e].delivery = row[e].delivery
          /\ e \notin S => row'[e] = row[e]
    BY DEF Recorded, Fenced, TypeOK, Row, Claim
  <1>2. /\ \A i \in jobs : i.email \in Emails /\ i.attempt \in Nat
        /\ \A e \in Emails : row[e].attempts \in Nat
        /\ \A i \in jobs : i.attempt <= row[i.email].attempts
    BY DEF Recorded, Fenced, TypeOK, Job, Row, TokensBounded
  <1>3. \A e \in S : /\ NewJob(w, e).email = e
                      /\ NewJob(w, e).prior = row[e].delivery
                      /\ NewJob(w, e).state = row[e].delivery
                      /\ NewJob(w, e).todo = {}
    BY DEF NewJob
  <1>4. jobs' = jobs \cup {NewJob(w, e) : e \in S}
    BY DEF Claim
  <1>5. HolderIsFresh'
    <2> SUFFICES ASSUME NEW k \in jobs', HeldBy(k)', NEW g \in Groups
                 PROVE  row'[k.email].delivery[g] = "sent" <=> k.prior[g] = "sent"
      BY DEF HolderIsFresh
    <2>1. CASE k \in jobs
      <3>1. k.email \notin S
        BY <1>1, <1>2, <2>1 DEF HeldBy
      <3>2. HeldBy(k)
        BY <1>1, <1>2, <2>1, <3>1 DEF HeldBy
      <3> QED BY <1>1, <1>2, <2>1, <3>1, <3>2 DEF Recorded, HolderIsFresh
    <2>2. CASE k \notin jobs
      BY <1>1, <1>3, <1>4, <2>2
    <2> QED BY <2>1, <2>2
  <1>6. KeepsSent'
    BY <1>3, <1>4 DEF Recorded, KeepsSent
  <1> QED BY <1>5, <1>6

\* A step that keeps every hold and only drops jobs keeps both parts.
LEMMA DropRecorded ==
    ASSUME Recorded, jobs' \subseteq jobs, \A e \in Emails : SameHold(e)
    PROVE  HolderIsFresh' /\ KeepsSent'
  <1>1. \A k \in jobs' : \E j \in jobs : SameClaim(j, k)
    BY StagesKeepSent DEF Recorded, Fenced
  <1>2. HolderIsFresh'
    BY <1>1, FreshKept DEF Recorded, Fenced
  <1>3. KeepsSent'
    BY DEF Recorded, KeepsSent
  <1> QED BY <1>2, <1>3

\* So does one that moves a job to its next stage.
LEMMA MoveRecorded ==
    ASSUME Recorded, \A e \in Emails : SameHold(e),
           NEW j \in jobs, NEW k, SameClaim(j, k),
           \A g \in Groups : k.prior[g] = "sent" => k.state[g] = "sent" /\ g \notin k.todo,
           jobs' \subseteq (jobs \ {j}) \cup {k}
    PROVE  HolderIsFresh' /\ KeepsSent'
  <1>1. \A i \in jobs' : \E x \in jobs : SameClaim(x, i)
    BY StagesKeepSent DEF Recorded, Fenced
  <1>2. HolderIsFresh'
    BY <1>1, FreshKept DEF Recorded, Fenced
  <1>3. KeepsSent'
    BY DEF Recorded, KeepsSent
  <1> QED BY <1>2, <1>3

\* Every step keeps the inductive invariant: claims draw a fresh view, holders
\* release what they held, everything else leaves the claim alone.
LEMMA NextRecorded ==
    ASSUME ~DeferralAckLoss, Recorded, [Next]_vars
    PROVE  Recorded'
  <1>t. TypeOK
    BY DEF Recorded, Fenced
  <1>f. Fenced'
    BY NextFenced DEF Recorded
  <1>u. UNCHANGED row => \A e \in Emails : SameHold(e)
    BY DEF SameHold
  <1>1. ASSUME NEW j \in jobs, JobStep(j)
        PROVE  HolderIsFresh' /\ KeepsSent'
    <2>0. j \in Job /\ \A g \in Groups : j.prior[g] = "sent" => j.state[g] = "sent" /\ g \notin j.todo
      BY <1>t DEF TypeOK, Recorded, KeepsSent
    <2>1. CASE RenewLease(j)
      <3>1. \A e \in Emails : SameHold(e)
        BY <1>t, <2>0, <2>1 DEF TypeOK, Row, Job, RenewLease, SameHold
      <3> QED BY <2>1, <3>1, DropRecorded DEF RenewLease
    <2>2. CASE FailRevoked(j)
      <3>1. \A e \in Emails : SameHold(e)
        BY <1>t, <2>2, ReleaseHold DEF FailRevoked, ReleaseUnsent
      <3> QED BY <2>2, <3>1, DropRecorded DEF FailRevoked
    <2>3. CASE HoldForDkimKey(j)
      <3>1. \A e \in Emails : SameHold(e)
        BY <1>t, <2>3, ReleaseHold DEF HoldForDkimKey, FailWithEvent, ReleaseUnsent
      <3> QED BY <2>3, <3>1, DropRecorded DEF HoldForDkimKey
    <2>4. CASE FailOnError(j)
      <3>1. \A e \in Emails : SameHold(e)
        BY <1>t, <2>4, ReleaseHold DEF FailOnError, FailWithEvent, ReleaseUnsent
      <3> QED BY <2>4, <3>1, DropRecorded DEF FailOnError
    <2>5. CASE AbandonClaim(j)
      BY <1>u, <2>5, DropRecorded DEF AbandonClaim
    <2>6. CASE BeginSend(j)
      <3> DEFINE prior == DropSuppressed(j.prior)
                 start == StartState(prior)
                 todo == {g \in Groups : start[g] \in Pending}
                 k == [j EXCEPT !.pc = "sending", !.prior = prior, !.state = start,
                                !.todo = todo]
      <3>1. jobs' = (jobs \ {j}) \cup {k}
        BY <2>6 DEF BeginSend
      <3>2. \A g \in Groups : /\ prior[g] = "sent" <=> j.prior[g] = "sent"
                              /\ prior[g] = "sent" => start[g] = "sent" /\ g \notin todo
        BY DEF DropSuppressed, StartState, Pending
      <3> HIDE DEF prior, start, todo
      <3>3. /\ k.email = j.email /\ k.worker = j.worker /\ k.attempt = j.attempt
            /\ k.prior = prior /\ k.state = start /\ k.todo = todo
        BY <2>0 DEF Job
      <3> HIDE DEF k
      <3>4. SameClaim(j, k)
        BY <3>2, <3>3 DEF SameClaim
      <3> QED BY <1>u, <2>6, <3>1, <3>2, <3>3, <3>4, MoveRecorded DEF BeginSend
    <2>7. ASSUME NEW g \in Groups, NEW res \in GroupStatus, NEW accepted \in BOOLEAN,
                 DeliverGroup(j, g, res, accepted)
          PROVE  HolderIsFresh' /\ KeepsSent'
      <3> DEFINE k == [j EXCEPT !.todo = @ \ {g}, !.state[g] = res]
      <3>1. jobs' = (jobs \ {j}) \cup {k} /\ g \in j.todo
        BY <2>7 DEF DeliverGroup
      <3>2. /\ k.email = j.email /\ k.worker = j.worker /\ k.attempt = j.attempt
            /\ k.prior = j.prior /\ k.todo = j.todo \ {g}
            /\ k.state = [j.state EXCEPT ![g] = res]
        BY <2>0 DEF Job
      <3> HIDE DEF k
      <3>3. SameClaim(j, k)
        BY <3>2 DEF SameClaim
      <3>4. \A x \in Groups : k.prior[x] = "sent" => k.state[x] = "sent" /\ x \notin k.todo
        BY <2>0, <3>1, <3>2 DEF Job, DeliveryState
      <3> QED BY <1>u, <2>7, <3>1, <3>3, <3>4, MoveRecorded DEF DeliverGroup
    <2>8. ASSUME NEW g \in Groups, DeferGroup(j, g)
          PROVE  HolderIsFresh' /\ KeepsSent'
      <3> DEFINE k == [j EXCEPT !.todo = @ \ {g}, !.deferred = @ \cup {g}]
      <3>1. jobs' = (jobs \ {j}) \cup {k}
        BY <2>8 DEF DeferGroup
      <3>2. /\ k.email = j.email /\ k.worker = j.worker /\ k.attempt = j.attempt
            /\ k.prior = j.prior /\ k.todo = j.todo \ {g} /\ k.state = j.state
        BY <2>0 DEF Job
      <3> HIDE DEF k
      <3>3. SameClaim(j, k)
        BY <3>2 DEF SameClaim
      <3>4. \A x \in Groups : k.prior[x] = "sent" => k.state[x] = "sent" /\ x \notin k.todo
        BY <2>0, <3>2
      <3> QED BY <1>u, <2>8, <3>1, <3>3, <3>4, MoveRecorded DEF DeferGroup
    <2>9. ASSUME Write(j)
          PROVE  \A e \in Emails : SameHold(e)
      <3>1. OutcomeStatus(j) # "sending"
        BY DEF OutcomeStatus, FinalStatus
      <3> QED BY <1>t, <2>9, <3>1, ReleaseHold DEF Write
    <2>10. CASE RecordSendOutcome(j)
      BY <2>9, <2>10, DropRecorded DEF RecordSendOutcome
    <2>11. ASSUME AfterFailedWrite(j), \A e \in Emails : SameHold(e)
           PROVE  HolderIsFresh' /\ KeepsSent'
      <3> DEFINE k == [j EXCEPT !.writes = @ + 1]
      <3>1. jobs' \subseteq (jobs \ {j}) \cup {k}
        BY <2>11 DEF AfterFailedWrite
      <3>2. /\ k.email = j.email /\ k.worker = j.worker /\ k.attempt = j.attempt
            /\ k.prior = j.prior /\ k.todo = j.todo /\ k.state = j.state
        BY <2>0 DEF Job
      <3> HIDE DEF k
      <3>3. SameClaim(j, k)
        BY <3>2 DEF SameClaim
      <3> QED BY <2>0, <2>11, <3>1, <3>2, <3>3, MoveRecorded
    <2>12. CASE RecordRolledBack(j)
      BY <1>u, <2>11, <2>12 DEF RecordRolledBack
    <2>13. CASE RecordAnswerLost(j)
      BY <2>9, <2>11, <2>13 DEF RecordAnswerLost
    <2> QED BY <1>1, <2>1, <2>2, <2>3, <2>4, <2>5, <2>6, <2>7, <2>8, <2>10, <2>12, <2>13
        DEF JobStep
  <1>2. ASSUME NEW w \in Workers, ProcStep(w)
        PROVE  HolderIsFresh' /\ KeepsSent'
    <2>1. ASSUME NEW S \in SUBSET Emails, ClaimNextEmails(w, S) \/ LateClaim(w, S)
          PROVE  HolderIsFresh' /\ KeepsSent'
      BY <2>1, ClaimFresh DEF ClaimNextEmails, LateClaim
    <2>2. CASE Shutdown(w)
      <3>1. \A e \in Emails : SameHold(e)
        BY <1>t, <2>2 DEF TypeOK, Row, Shutdown, ReleaseOwnLeases, SameHold
      <3> QED BY <2>2, <3>1, DropRecorded DEF Shutdown
    <2>3. CASE Exit(w)
      BY <1>u, <2>3, DropRecorded DEF Exit
    <2>4. CASE Crash(w)
      BY <1>u, <2>4, DropRecorded DEF Crash
    <2> QED BY <1>2, <2>1, <2>2, <2>3, <2>4 DEF ProcStep
  <1>3. ASSUME EnvStep
        PROVE  HolderIsFresh' /\ KeepsSent'
    <2>1. ASSUME NEW e \in Emails, NEW flag \in BOOLEAN, SetTrashed(e, flag)
          PROVE  HolderIsFresh' /\ KeepsSent'
      <3>1. \A x \in Emails : SameHold(x)
        BY <1>t, <2>1 DEF TypeOK, Row, SetTrashed, SameHold
      <3> QED BY <2>1, <3>1, DropRecorded DEF SetTrashed
    <2>2. ASSUME NEW e \in Emails, DeleteEmail(e)
          PROVE  HolderIsFresh' /\ KeepsSent'
      <3>1. \A x \in Emails : SameHold(x)
        BY <1>t, <2>2 DEF TypeOK, Row, DeleteEmail, Released, SameHold
      <3> QED BY <2>2, <3>1, DropRecorded DEF DeleteEmail
    <2>3. CASE RevokeKey
      BY <1>u, <2>3, DropRecorded DEF RevokeKey
    <2>4. ASSUME NEW g \in Groups, Suppress(g)
          PROVE  HolderIsFresh' /\ KeepsSent'
      BY <1>u, <2>4, DropRecorded DEF Suppress
    <2>5. CASE Tick
      <3>1. \A e \in Emails : SameHold(e)
        BY <1>t, <2>5 DEF TypeOK, Row, Tick, Aged, SameHold
      <3> QED BY <2>5, <3>1, DropRecorded DEF Tick
    <2> QED BY <1>3, <2>1, <2>2, <2>3, <2>4, <2>5 DEF EnvStep, TrashEmail, RestoreEmail
  <1>4. ASSUME UNCHANGED vars
        PROVE  HolderIsFresh' /\ KeepsSent'
    BY <1>4, <1>u, DropRecorded DEF vars
  <1> QED BY <1>f, <1>1, <1>2, <1>3, <1>4 DEF Next, Recorded

\* No claim is in flight at the start, so the invariant holds trivially.
LEMMA InitRecorded == Init => Recorded
  BY InitType DEF Init, Recorded, Fenced, TokensBounded, TokenUnique, HolderIsFresh, KeepsSent

\* The claim that holds a row has an up-to-date view of what is delivered.
THEOREM FreshHolder == ASSUME ~DeferralAckLoss PROVE Spec => []HolderIsFresh
  <1>1. Recorded /\ [Next]_vars => Recorded'
    BY NextRecorded
  <1>2. Recorded => HolderIsFresh
    BY DEF Recorded
  <1> QED BY <1>1, <1>2, InitRecorded, PTL DEF Spec

\* The claim that records an outcome keeps every delivery the row had.
LEMMA WriteKeepsSent ==
    ASSUME Recorded, NEW j \in jobs, Write(j), NEW e \in Emails, NEW g \in Groups,
           row[e].delivery[g] = "sent"
    PROVE  row'[e].delivery[g] = "sent"
  <1>1. /\ HeldBy(j) => row'[j.email].delivery = OutcomeDelivery(j)
        /\ ~HeldBy(j) => row' = row
        /\ e # j.email => row'[e] = row[e]
    BY ReleaseFields DEF Recorded, Fenced, Write
  <1>2. ASSUME HeldBy(j), e = j.email
        PROVE  OutcomeDelivery(j)[g] = "sent"
    <2>1. j.prior[g] = "sent"
      BY <1>2 DEF Recorded, HolderIsFresh
    <2>2. j.state[g] = "sent"
      BY <2>1 DEF Recorded, KeepsSent
    <2> QED BY <2>2 DEF OutcomeDelivery, FinalState, Pending
  <1> QED BY <1>1, <1>2

\* No step takes a group out of sent: only the outcome write and the releases
\* before a send touch a row's delivery state.
LEMMA NextKeepsSent ==
    ASSUME Recorded, [Next]_vars, NEW e \in Emails, NEW g \in Groups,
           row[e].delivery[g] = "sent"
    PROVE  row'[e].delivery[g] = "sent"
  <1>t. TypeOK
    BY DEF Recorded, Fenced
  <1>1. ASSUME NEW j \in jobs, JobStep(j)
        PROVE  row'[e].delivery[g] = "sent"
    <2>1. ASSUME NEW s, NEW n, ReleaseUnsent(j, s, n)
          PROVE  row'[e].delivery = row[e].delivery
      <3>1. /\ HeldBy(j) => row'[j.email].delivery = row[j.email].delivery
            /\ ~HeldBy(j) => row' = row
            /\ e # j.email => row'[e] = row[e]
        BY <1>t, <2>1, ReleaseFields DEF ReleaseUnsent
      <3> QED BY <3>1
    <2>2. CASE RenewLease(j)
      BY <1>t, <2>2 DEF TypeOK, Row, Job, RenewLease
    <2>3. CASE FailRevoked(j) \/ HoldForDkimKey(j) \/ FailOnError(j)
      BY <2>1, <2>3 DEF FailRevoked, HoldForDkimKey, FailOnError, FailWithEvent
    <2>4. CASE RecordSendOutcome(j) \/ RecordAnswerLost(j)
      BY <2>4, WriteKeepsSent DEF RecordSendOutcome, RecordAnswerLost
    <2>5. CASE UNCHANGED row
      BY <2>5
    <2>6. \/ RenewLease(j) \/ FailRevoked(j) \/ HoldForDkimKey(j) \/ FailOnError(j)
          \/ RecordSendOutcome(j) \/ RecordAnswerLost(j) \/ UNCHANGED row
      BY <1>1 DEF JobStep, AbandonClaim, BeginSend, DeliverGroup, DeferGroup,
                  RecordRolledBack
    <2> QED BY <2>2, <2>3, <2>4, <2>5, <2>6
  <1>2. ASSUME NEW w \in Workers, ProcStep(w)
        PROVE  row'[e].delivery[g] = "sent"
    <2>1. ASSUME NEW S \in SUBSET Emails, Claim(w, S)
          PROVE  row'[e].delivery = row[e].delivery
      BY <1>t, <2>1 DEF TypeOK, Row, Claim
    <2>2. CASE Shutdown(w)
      BY <1>t, <2>2 DEF TypeOK, Row, Shutdown, ReleaseOwnLeases
    <2>3. CASE Exit(w) \/ Crash(w)
      BY <2>3 DEF Exit, Crash
    <2> QED BY <1>2, <2>1, <2>2, <2>3 DEF ProcStep, ClaimNextEmails, LateClaim
  <1>3. ASSUME EnvStep
        PROVE  row'[e].delivery[g] = "sent"
    <2>1. ASSUME NEW x \in Emails, NEW flag \in BOOLEAN, SetTrashed(x, flag)
          PROVE  row'[e].delivery[g] = "sent"
      BY <1>t, <2>1 DEF TypeOK, Row, SetTrashed
    <2>2. ASSUME NEW x \in Emails, DeleteEmail(x)
          PROVE  row'[e].delivery[g] = "sent"
      BY <1>t, <2>2 DEF TypeOK, Row, DeleteEmail, Released
    <2>3. CASE Tick
      BY <1>t, <2>3 DEF TypeOK, Row, Tick, Aged
    <2> QED BY <1>3, <2>1, <2>2, <2>3
        DEF EnvStep, TrashEmail, RestoreEmail, RevokeKey, Suppress
  <1> QED BY <1>1, <1>2, <1>3 DEF Next, vars

\* A recorded delivery is never forgotten, whatever late, repeated or
\* superseded outcome writes arrive: a group once sent stays sent, so no
\* attempt sends to it again.
THEOREM DeliveriesStay == ASSUME ~DeferralAckLoss PROVE Spec => RecordedDeliveriesStay
  <1>1. Recorded /\ [Next]_vars => Recorded'
    BY NextRecorded
  <1>2. Recorded /\ [Next]_vars =>
          [\A e \in Emails, g \in Groups :
             row[e].delivery[g] = "sent" => row'[e].delivery[g] = "sent"]_vars
    BY NextKeepsSent
  <1> QED BY <1>1, <1>2, InitRecorded, PTL DEF Spec, RecordedDeliveriesStay

-----------------------------------------------------------------------------
(* How a job goes on.                                                      *)

\* The statuses of a group that some attempt still owes an answer.
Owing == Pending \cup {"none"}

\* The job starts to send: its snapshot checked against the suppressions, and
\* every group still pending to be tried.
Begun(j, k) ==
    /\ j.pc = "claimed" /\ k.pc = "sending"
    /\ k.prior = DropSuppressed(j.prior)
    /\ k.state = StartState(k.prior)
    /\ k.todo = {g \in Groups : k.state[g] \in Pending}

\* The job is through with one more group.
Tried(j, k, g) ==
    /\ j.pc = "sending" /\ k.pc = "sending"
    /\ g \in j.todo /\ k.todo = j.todo \ {g}
    /\ k.prior = j.prior
    /\ \A x \in Groups \ {g} : k.state[x] = j.state[x]

\* The job only counts a write that failed.
Unmoved(j, k) ==
    k.pc = j.pc /\ k.prior = j.prior /\ k.state = j.state /\ k.todo = j.todo

\* The same claim one stage on.
Successor(j, k) ==
    /\ k \in Job
    /\ k.worker = j.worker /\ k.email = j.email /\ k.attempt = j.attempt
    /\ \/ Begun(j, k)
       \/ \E g \in Groups : Tried(j, k, g)
       \/ Unmoved(j, k)

\* A job that begins to send.
LEMMA BeginStage ==
    ASSUME TypeOK, NEW j \in jobs, BeginSend(j)
    PROVE  \E k : jobs' = (jobs \ {j}) \cup {k} /\ Successor(j, k) /\ Begun(j, k)
  <1> DEFINE prior == DropSuppressed(j.prior)
             start == StartState(prior)
             todo == {g \in Groups : start[g] \in Pending}
             k == [j EXCEPT !.pc = "sending", !.prior = prior, !.state = start,
                            !.todo = todo]
  <1>1. j \in Job /\ j.prior \in DeliveryState
    BY DEF TypeOK, Job
  <1>2. prior \in DeliveryState /\ start \in DeliveryState /\ todo \in SUBSET Groups
    BY <1>1, DeliveryTypes
  <1>3. jobs' = (jobs \ {j}) \cup {k}
    BY Zenon DEF BeginSend
  <1>c. j.pc = "claimed"
    BY Zenon DEF BeginSend
  <1> HIDE DEF prior, start, todo
  <1>4. /\ k.email = j.email /\ k.worker = j.worker /\ k.attempt = j.attempt
        /\ k.prior = prior /\ k.state = start /\ k.todo = todo /\ k.pc = "sending"
        /\ k \in Job
    BY <1>1, <1>2 DEF Job
  <1> HIDE DEF k
  <1>5. Begun(j, k)
    BY <1>c, <1>4 DEF Begun, prior, start, todo
  <1> QED BY <1>3, <1>4, <1>5 DEF Successor

\* A job that got a group's answer.
LEMMA DeliverStage ==
    ASSUME TypeOK, NEW j \in jobs, NEW g \in Groups, NEW res \in GroupStatus,
           NEW accepted \in BOOLEAN, DeliverGroup(j, g, res, accepted)
    PROVE  \E k : /\ jobs' = (jobs \ {j}) \cup {k}
                  /\ Successor(j, k) /\ Tried(j, k, g) /\ k.state[g] = res
  <1> DEFINE state == [j.state EXCEPT ![g] = res]
             k == [j EXCEPT !.todo = @ \ {g}, !.state[g] = res]
  <1>1. j \in Job /\ j.state \in DeliveryState /\ j.pc = "sending" /\ g \in j.todo
    BY DEF TypeOK, Job, DeliverGroup
  <1>2. jobs' = (jobs \ {j}) \cup {k}
    BY DEF DeliverGroup
  <1>3. state \in DeliveryState /\ state[g] = res /\ \A x \in Groups \ {g} : state[x] = j.state[x]
    BY <1>1 DEF DeliveryState
  <1>4. /\ k.email = j.email /\ k.worker = j.worker /\ k.attempt = j.attempt
        /\ k.prior = j.prior /\ k.state = state /\ k.todo = j.todo \ {g} /\ k.pc = j.pc
    BY <1>1 DEF Job
  <1>5. k \in Job
    BY <1>1, <1>3 DEF Job
  <1> HIDE DEF k, state
  <1>6. Tried(j, k, g)
    BY <1>1, <1>3, <1>4 DEF Tried
  <1> QED BY <1>2, <1>3, <1>4, <1>5, <1>6 DEF Successor

\* A job that put a group off.
LEMMA DeferStage ==
    ASSUME TypeOK, NEW j \in jobs, NEW g \in Groups, DeferGroup(j, g)
    PROVE  \E k : /\ jobs' = (jobs \ {j}) \cup {k}
                  /\ Successor(j, k) /\ Tried(j, k, g) /\ k.state = j.state
  <1> DEFINE k == [j EXCEPT !.todo = @ \ {g}, !.deferred = @ \cup {g}]
  <1>1. j \in Job /\ j.pc = "sending" /\ g \in j.todo
    BY DEF TypeOK, DeferGroup
  <1>2. jobs' = (jobs \ {j}) \cup {k}
    BY DEF DeferGroup
  <1>3. /\ k.email = j.email /\ k.worker = j.worker /\ k.attempt = j.attempt
        /\ k.prior = j.prior /\ k.state = j.state /\ k.todo = j.todo \ {g} /\ k.pc = j.pc
        /\ k \in Job
    BY <1>1 DEF Job
  <1> HIDE DEF k
  <1>4. Tried(j, k, g)
    BY <1>1, <1>3 DEF Tried
  <1> QED BY <1>2, <1>3, <1>4 DEF Successor

\* A job whose write failed goes on or ends.
LEMMA FailedWriteStage ==
    ASSUME TypeOK, NEW j \in jobs, AfterFailedWrite(j)
    PROVE  \/ jobs' = jobs \ {j}
           \/ \E k : jobs' = (jobs \ {j}) \cup {k} /\ Successor(j, k) /\ Unmoved(j, k)
  <1> DEFINE k == [j EXCEPT !.writes = @ + 1]
  <1>1. j \in Job
    BY DEF TypeOK
  <1>2. CASE j.writes < FullWrites
    <2>1. jobs' = (jobs \ {j}) \cup {k}
      BY <1>2 DEF AfterFailedWrite
    <2>2. k \in Job
      BY <1>1, <1>2, LimitAssumption DEF Job
    <2>3. /\ k.email = j.email /\ k.worker = j.worker /\ k.attempt = j.attempt
          /\ k.prior = j.prior /\ k.state = j.state /\ k.todo = j.todo /\ k.pc = j.pc
      BY <1>1 DEF Job
    <2> HIDE DEF k
    <2> QED BY <2>1, <2>2, <2>3 DEF Successor, Unmoved
  <1>3. CASE ~(j.writes < FullWrites)
    BY <1>3 DEF AfterFailedWrite
  <1> QED BY <1>2, <1>3

\* A job's step renews its lease, ends it or takes it one stage on.
LEMMA JobGoesOn ==
    ASSUME TypeOK, NEW j \in jobs, JobStep(j)
    PROVE  \/ jobs' = jobs
           \/ jobs' = jobs \ {j}
           \/ \E k : jobs' = (jobs \ {j}) \cup {k} /\ Successor(j, k)
  <1>1. CASE BeginSend(j)
    BY <1>1, BeginStage
  <1>2. ASSUME NEW g \in Groups, NEW res \in GroupStatus, NEW accepted \in BOOLEAN,
               DeliverGroup(j, g, res, accepted)
        PROVE  \E k : jobs' = (jobs \ {j}) \cup {k} /\ Successor(j, k)
    BY <1>2, DeliverStage
  <1>3. ASSUME NEW g \in Groups, DeferGroup(j, g)
        PROVE  \E k : jobs' = (jobs \ {j}) \cup {k} /\ Successor(j, k)
    BY <1>3, DeferStage
  <1>4. CASE RecordRolledBack(j) \/ RecordAnswerLost(j)
    BY <1>4, FailedWriteStage DEF RecordRolledBack, RecordAnswerLost
  <1>5. CASE RenewLease(j) \/ FailRevoked(j) \/ HoldForDkimKey(j) \/ FailOnError(j)
             \/ AbandonClaim(j) \/ RecordSendOutcome(j)
    BY <1>5 DEF RenewLease, FailRevoked, HoldForDkimKey, FailOnError, AbandonClaim,
                RecordSendOutcome
  <1> QED BY <1>1, <1>2, <1>3, <1>4, <1>5 DEF JobStep

-----------------------------------------------------------------------------
(* What commits together.  A job never touches a group whose status its    *)
(* snapshot had settled, and the hard bounces of the snapshot are already  *)
(* suppressed; so a hard bounce the write records is new, and suppressed   *)
(* by the same write, or old.  A holder's snapshot agrees with the row on  *)
(* what is sent, so the event goes with the first delivery recorded.       *)

\* A job leaves alone what its snapshot had settled.
Keeps(j) ==
    \A g \in Groups : j.prior[g] \notin Owing => j.state[g] = j.prior[g] /\ g \notin j.todo
KeepsSettled == \A j \in jobs : Keeps(j)

\* A hard bounce in a job's snapshot is on the suppression list.
HardKnown == \A j \in jobs, g \in Groups : j.prior[g] = "hard" => g \in suppressed

\* The inductive invariant behind CommittedTogether.
Committed == Recorded /\ KeepsSettled /\ HardKnown /\ CommittedTogether

\* The next stage of a job keeps what the snapshot had settled, and its hard
\* bounces are those of the stage before.
LEMMA SuccessorKeeps ==
    ASSUME TypeOK, NEW j \in jobs, Keeps(j), NEW k, Successor(j, k)
    PROVE  /\ Keeps(k)
           /\ \A g \in Groups : k.prior[g] = "hard" => j.prior[g] = "hard"
  <1>1. CASE Begun(j, k)
    BY <1>1 DEF Begun, Keeps, DropSuppressed, StartState, Owing, Pending
  <1>2. ASSUME NEW x \in Groups, Tried(j, k, x)
        PROVE  /\ Keeps(k)
               /\ \A g \in Groups : k.prior[g] = "hard" => j.prior[g] = "hard"
    BY <1>2 DEF Tried, Keeps
  <1>3. CASE Unmoved(j, k)
    BY <1>3 DEF Unmoved, Keeps
  <1> QED BY <1>1, <1>2, <1>3 DEF Successor

\* The suppression list never loses an entry.
LEMMA SuppressionsGrow ==
    ASSUME [Next]_vars
    PROVE  suppressed \subseteq suppressed'
  <1>1. ASSUME NEW j \in jobs, JobStep(j)
        PROVE  suppressed \subseteq suppressed'
    BY <1>1 DEF JobStep, RenewLease, FailRevoked, HoldForDkimKey, FailOnError,
                AbandonClaim, BeginSend, DeliverGroup, DeferGroup,
                RecordSendOutcome, RecordRolledBack, RecordAnswerLost, Write
  <1>2. ASSUME NEW w \in Workers, ProcStep(w)
        PROVE  suppressed \subseteq suppressed'
    BY <1>2 DEF ProcStep, ClaimNextEmails, LateClaim, Claim, Shutdown, Exit, Crash
  <1>3. CASE EnvStep
    BY <1>3 DEF EnvStep, TrashEmail, RestoreEmail, SetTrashed, DeleteEmail, RevokeKey,
                Suppress, Tick
  <1> QED BY <1>1, <1>2, <1>3 DEF Next, vars

\* A claim copies the row's delivery state, so its snapshot is as settled and
\* as suppressed as the row is.
LEMMA ClaimSettled ==
    ASSUME KeepsSettled, HardKnown, HardBounceSuppressed, NEW w, NEW S \in SUBSET Emails,
           Claim(w, S)
    PROVE  KeepsSettled' /\ HardKnown'
  <1>1. \A e \in S : /\ NewJob(w, e).prior = row[e].delivery
                     /\ NewJob(w, e).state = row[e].delivery
                     /\ NewJob(w, e).todo = {}
    BY DEF NewJob
  <1>2. jobs' = jobs \cup {NewJob(w, e) : e \in S} /\ suppressed' = suppressed
    BY DEF Claim
  <1>3. \A e \in S : Keeps(NewJob(w, e))
    BY <1>1 DEF Keeps
  <1>4. KeepsSettled'
    BY <1>2, <1>3 DEF KeepsSettled
  <1>5. HardKnown'
    BY <1>1, <1>2 DEF HardKnown, HardBounceSuppressed
  <1> QED BY <1>4, <1>5

\* Every step keeps what the jobs know.
LEMMA NextSettled ==
    ASSUME TypeOK, KeepsSettled, HardKnown, HardBounceSuppressed, [Next]_vars
    PROVE  KeepsSettled' /\ HardKnown'
  <1>s. suppressed \subseteq suppressed'
    BY SuppressionsGrow
  <1>d. ASSUME jobs' \subseteq jobs
        PROVE  KeepsSettled' /\ HardKnown'
    BY <1>s, <1>d DEF KeepsSettled, HardKnown
  <1>1. ASSUME NEW j \in jobs, JobStep(j)
        PROVE  KeepsSettled' /\ HardKnown'
    <2>1. ASSUME NEW k, jobs' = (jobs \ {j}) \cup {k}, Successor(j, k)
          PROVE  KeepsSettled' /\ HardKnown'
      <3>1. Keeps(k) /\ \A g \in Groups : k.prior[g] = "hard" => j.prior[g] = "hard"
        BY <2>1, SuccessorKeeps DEF KeepsSettled
      <3> QED BY <1>s, <2>1, <3>1 DEF KeepsSettled, HardKnown
    <2> QED BY <1>1, <1>d, <2>1, JobGoesOn
  <1>2. ASSUME NEW w \in Workers, ProcStep(w)
        PROVE  KeepsSettled' /\ HardKnown'
    <2>1. ASSUME NEW S \in SUBSET Emails, ClaimNextEmails(w, S) \/ LateClaim(w, S)
          PROVE  KeepsSettled' /\ HardKnown'
      BY <2>1, ClaimSettled DEF ClaimNextEmails, LateClaim
    <2>2. CASE Shutdown(w) \/ Exit(w) \/ Crash(w)
      BY <1>d, <2>2 DEF Shutdown, Exit, Crash
    <2> QED BY <1>2, <2>1, <2>2 DEF ProcStep
  <1>3. CASE EnvStep
    BY <1>d, <1>3 DEF EnvStep, TrashEmail, RestoreEmail, SetTrashed, DeleteEmail, RevokeKey,
                      Suppress, Tick
  <1>4. CASE UNCHANGED vars
    BY <1>d, <1>4 DEF vars
  <1> QED BY <1>1, <1>2, <1>3, <1>4 DEF Next

\* Only the outcome write touches delivery states and the counts of email.sent.
Undelivering ==
    \A e \in Emails : /\ row'[e].delivery = row[e].delivery
                      /\ events'[e].sent = events[e].sent
                      /\ events'[e].dropped = events[e].dropped

\* A release before the send touches neither.
LEMMA UnsentDelivers ==
    ASSUME TypeOK, NEW j \in jobs, NEW s, NEW n, ReleaseUnsent(j, s, n)
    PROVE  \A e \in Emails : row'[e].delivery = row[e].delivery
  <1>1. /\ HeldBy(j) => row'[j.email].delivery = row[j.email].delivery
        /\ ~HeldBy(j) => row' = row
        /\ \A e \in Emails : e # j.email => row'[e] = row[e]
    BY ReleaseFields DEF ReleaseUnsent
  <1> QED BY <1>1

\* Every step is an outcome write or leaves deliveries and email.sent alone.
LEMMA OnlyWritesDeliver ==
    ASSUME TypeOK, [Next]_vars
    PROVE  Undelivering \/ \E j \in jobs : Write(j)
  <1>1. ASSUME NEW j \in jobs, JobStep(j), ~Write(j)
        PROVE  Undelivering
    <2>0. j.email \in Emails
      BY DEF TypeOK, Job
    <2>1. CASE RenewLease(j)
      <3>1. \A e \in Emails : row'[e].delivery = row[e].delivery
        BY <2>0, <2>1 DEF TypeOK, Row, RenewLease
      <3> QED BY <2>1, <3>1 DEF Undelivering, RenewLease
    <2>2. CASE FailRevoked(j)
      BY <2>2, UnsentDelivers DEF FailRevoked, Undelivering
    <2>3. ASSUME FailWithEvent(j)
          PROVE  Undelivering
      <3>1. \A e \in Emails : row'[e].delivery = row[e].delivery
        BY <2>3, UnsentDelivers DEF FailWithEvent
      <3>2. \A e \in Emails : events'[e].sent = events[e].sent /\ events'[e].dropped = events[e].dropped
        BY <2>0, <2>3 DEF FailWithEvent, TypeOK, Event
      <3> QED BY <3>1, <3>2 DEF Undelivering
    <2>4. CASE HoldForDkimKey(j)
      BY <2>3, <2>4, UnsentDelivers DEF HoldForDkimKey, Undelivering
    <2>5. CASE FailOnError(j)
      BY <2>3, <2>5 DEF FailOnError
    <2>6. CASE UNCHANGED <<row, events>>
      BY <2>6 DEF Undelivering
    <2>7. \/ RenewLease(j) \/ FailRevoked(j) \/ HoldForDkimKey(j) \/ FailOnError(j)
          \/ UNCHANGED <<row, events>>
      BY <1>1 DEF JobStep, AbandonClaim, BeginSend, DeliverGroup, DeferGroup,
                  RecordSendOutcome, RecordRolledBack, RecordAnswerLost
    <2> QED BY <2>1, <2>2, <2>4, <2>5, <2>6, <2>7
  <1>2. ASSUME NEW w \in Workers, ProcStep(w)
        PROVE  Undelivering
    <2>1. ASSUME NEW S \in SUBSET Emails, Claim(w, S)
          PROVE  Undelivering
      BY <2>1 DEF TypeOK, Row, Claim, Undelivering
    <2>2. CASE Shutdown(w)
      BY <2>2 DEF TypeOK, Row, Shutdown, ReleaseOwnLeases, Undelivering
    <2>3. CASE Exit(w) \/ Crash(w)
      BY <2>3 DEF Exit, Crash, Undelivering
    <2> QED BY <1>2, <2>1, <2>2, <2>3 DEF ProcStep, ClaimNextEmails, LateClaim
  <1>3. CASE EnvStep
    <2>1. ASSUME NEW x \in Emails, NEW flag \in BOOLEAN, SetTrashed(x, flag)
          PROVE  Undelivering
      BY <2>1 DEF TypeOK, Row, SetTrashed, Undelivering
    <2>2. ASSUME NEW x \in Emails, DeleteEmail(x)
          PROVE  Undelivering
      BY <2>2 DEF TypeOK, Row, DeleteEmail, Released, Undelivering
    <2>3. CASE Tick
      BY <2>3 DEF TypeOK, Row, Tick, Aged, Undelivering
    <2> QED BY <1>3, <2>1, <2>2, <2>3
        DEF EnvStep, TrashEmail, RestoreEmail, RevokeKey, Suppress, Undelivering
  <1>4. CASE UNCHANGED vars
    BY <1>4 DEF vars, Undelivering
  <1> QED BY <1>1, <1>2, <1>3, <1>4 DEF Next

\* What the write does to the counts of email.sent, sent and dropped.
LEMMA WriteCounts ==
    ASSUME TypeOK, NEW j \in jobs, Write(j)
    PROVE  LET sent == SentEvent(KindOf(j), j.prior, j.state)
           IN  /\ \A e \in Emails : ~(HeldBy(j) /\ sent /\ e = j.email) =>
                    /\ events'[e].sent = events[e].sent
                    /\ events'[e].dropped >= events[e].dropped
               /\ HeldBy(j) /\ sent =>
                    \/ /\ events'[j.email].sent = events[j.email].sent + 1
                       /\ events'[j.email].dropped = events[j.email].dropped
                    \/ /\ events'[j.email].sent = events[j.email].sent
                       /\ events'[j.email].dropped >= events[j.email].dropped + 1
  <1>0. j.email \in Emails /\ \A e \in Emails : events[e] \in Event
    BY DEF TypeOK, Job
  <1>1. PICK m \in {0, 1}, n \in {0, 1} :
          /\ m = 1 <=> SentEvent(KindOf(j), j.prior, j.state)
          /\ events' = IF ~HeldBy(j) THEN events
                       ELSE IF j.writes < FullWrites
                       THEN [events EXCEPT ![j.email].sent = @ + m,
                                           ![j.email].failed = @ + n]
                       ELSE [events EXCEPT ![j.email].dropped = @ + m + n]
    <2> DEFINE m == IF SentEvent(KindOf(j), j.prior, j.state) THEN 1 ELSE 0
               n == IF FailedEvent(KindOf(j), j.state) THEN 1 ELSE 0
    <2>1. m \in {0, 1} /\ n \in {0, 1} /\ (m = 1 <=> SentEvent(KindOf(j), j.prior, j.state))
      OBVIOUS
    <2>2. events' = IF ~HeldBy(j) THEN events
                    ELSE IF j.writes < FullWrites
                    THEN [events EXCEPT ![j.email].sent = @ + m,
                                        ![j.email].failed = @ + n]
                    ELSE [events EXCEPT ![j.email].dropped = @ + m + n]
      BY DEF Write
    <2> HIDE DEF m, n
    <2> QED BY <2>1, <2>2
  <1>m. m \in {0, 1} /\ n \in {0, 1} /\ (m = 1 <=> SentEvent(KindOf(j), j.prior, j.state))
    BY <1>1
  <1>c. \A e \in Emails : events[e].sent \in Nat /\ events[e].dropped \in Nat
    BY <1>0 DEF Event
  <1>2. CASE ~HeldBy(j)
    BY <1>c, <1>1, <1>2
  <1>3. CASE HeldBy(j) /\ j.writes < FullWrites
    <2>1. events' = [events EXCEPT ![j.email].sent = @ + m, ![j.email].failed = @ + n]
      BY <1>1, <1>3
    <2>2. /\ events'[j.email].sent = events[j.email].sent + m
          /\ events'[j.email].dropped = events[j.email].dropped
          /\ \A e \in Emails : e # j.email => events'[e] = events[e]
      BY <1>0, <2>1 DEF TypeOK, Event
    <2> QED BY <1>0, <1>c, <1>m, <1>3, <2>2
  <1>4. CASE HeldBy(j) /\ ~(j.writes < FullWrites)
    <2>1. events' = [events EXCEPT ![j.email].dropped = @ + m + n]
      BY <1>1, <1>4
    <2>2. /\ events'[j.email].sent = events[j.email].sent
          /\ events'[j.email].dropped = events[j.email].dropped + m + n
          /\ \A e \in Emails : e # j.email => events'[e] = events[e]
      BY <1>0, <2>1 DEF TypeOK, Event
    <2> QED BY <1>0, <1>c, <1>m, <1>4, <2>2
  <1> QED BY <1>2, <1>3, <1>4

\* What the write of a holder leaves in the row: sent is what the job says is
\* sent, and what it says is hard.
LEMMA OutcomeGroups ==
    ASSUME NEW j
    PROVE  \A g \in Groups : /\ OutcomeDelivery(j)[g] = "sent" <=> j.state[g] = "sent"
                             /\ OutcomeDelivery(j)[g] = "hard" <=> j.state[g] = "hard"
  BY DEF OutcomeDelivery, FinalState, Pending

\* A pure deferral delivered nothing new.
LEMMA DeferralDelivers ==
    ASSUME NEW j \in Job, KindOf(j) = "deferred", NEW g \in Groups, j.state[g] = "sent"
    PROVE  j.prior[g] = "sent"
  <1>1. ~Attempted(j.prior, j.state, j.deferred)
    BY DEF KindOf, OutcomeKind
  <1>2. StatusOf(j.prior[g]) = StatusOf(j.state[g]) \/ StatusOf(j.state[g]) \notin {"sent", "failed"}
    BY <1>1 DEF Attempted
  <1>3. StatusOf(j.state[g]) = "sent"
    BY DEF StatusOf, Pending
  <1>4. StatusOf(j.prior[g]) = "sent"
    BY <1>2, <1>3
  <1>5. j.prior[g] \in GroupStatus \cup {"none"}
    BY DEF Job, DeliveryState
  <1> QED BY <1>4, <1>5 DEF StatusOf, Pending, GroupStatus

\* The write keeps email.sent with the first recorded delivery.
LEMMA WriteSentOnce ==
    ASSUME Committed, NEW j \in jobs, Write(j)
    PROVE  SentEventOnce'
  <1>t. TypeOK /\ j \in Job /\ j.email \in Emails
    BY DEF Committed, Recorded, Fenced, TypeOK, Job
  <1>e. \A x \in Emails : events[x].sent \in Nat /\ events[x].dropped \in Nat
    BY <1>t DEF TypeOK, Event
  <1>d. \A x \in Emails : events'[x].dropped \in Nat
    BY <1>t, WriteType DEF Event
  <1> DEFINE sent == SentEvent(KindOf(j), j.prior, j.state)
  <1>1. /\ HeldBy(j) => row'[j.email].delivery = OutcomeDelivery(j)
        /\ ~HeldBy(j) => row' = row
        /\ \A x \in Emails : x # j.email => row'[x] = row[x]
    BY <1>t, ReleaseFields DEF Write
  <1>2. \A x \in Emails : AnySent(row[x].delivery) => AnySent(row'[x].delivery)
    BY WriteKeepsSent DEF Committed, AnySent
  <1>3. ASSUME HeldBy(j)
        PROVE  /\ AnySent(row[j.email].delivery) <=> AnySent(j.prior)
               /\ AnySent(row'[j.email].delivery) <=> AnySent(j.state)
    <2>1. AnySent(row[j.email].delivery) <=> AnySent(j.prior)
      BY <1>3 DEF Committed, Recorded, HolderIsFresh, AnySent
    <2>2. AnySent(row'[j.email].delivery) <=> AnySent(j.state)
      BY <1>1, <1>3, OutcomeGroups DEF AnySent
    <2> QED BY <2>1, <2>2
  <1>4. KindOf(j) = "deferred" /\ AnySent(j.state) => AnySent(j.prior)
    BY <1>t, DeferralDelivers DEF AnySent
  <1>5. sent <=> KindOf(j) # "deferred" /\ AnySent(j.state) /\ ~AnySent(j.prior)
    BY DEF SentEvent
  <1>6. /\ \A x \in Emails : ~(HeldBy(j) /\ sent /\ x = j.email) =>
             /\ events'[x].sent = events[x].sent
             /\ events'[x].dropped >= events[x].dropped
        /\ HeldBy(j) /\ sent =>
             \/ /\ events'[j.email].sent = events[j.email].sent + 1
                /\ events'[j.email].dropped = events[j.email].dropped
             \/ /\ events'[j.email].sent = events[j.email].sent
                /\ events'[j.email].dropped >= events[j.email].dropped + 1
    BY <1>t, WriteCounts
  <1>7. \A x \in Emails :
          /\ events[x].sent <= 1
          /\ events[x].sent = 1 => AnySent(row[x].delivery)
          /\ AnySent(row[x].delivery) => events[x].sent + events[x].dropped >= 1
    BY DEF Committed, CommittedTogether, SentEventOnce
  <1> HIDE DEF sent
  <1> SUFFICES ASSUME NEW x \in Emails
               PROVE  /\ events'[x].sent <= 1
                      /\ events'[x].sent = 1 => AnySent(row'[x].delivery)
                      /\ AnySent(row'[x].delivery) => events'[x].sent + events'[x].dropped >= 1
    BY DEF SentEventOnce, AnySent
  <1>8. CASE HeldBy(j) /\ sent /\ x = j.email
    <2>1. ~AnySent(row[x].delivery) /\ AnySent(row'[x].delivery) /\ events[x].sent = 0
      BY <1>e, <1>3, <1>5, <1>7, <1>8
    <2> QED BY <1>d, <1>e, <1>6, <1>8, <2>1
  <1>9. CASE ~(HeldBy(j) /\ sent /\ x = j.email)
    <2>1. AnySent(row'[x].delivery) => AnySent(row[x].delivery)
      BY <1>1, <1>3, <1>4, <1>5, <1>9
    <2> QED BY <1>d, <1>e, <1>2, <1>6, <1>7, <1>9, <2>1
  <1> QED BY <1>8, <1>9

\* The write suppresses the hard bounces it records.
LEMMA WriteSuppresses ==
    ASSUME Committed, NEW j \in jobs, Write(j)
    PROVE  HardBounceSuppressed'
  <1>t. TypeOK /\ j.email \in Emails /\ j \in Job
    BY DEF Committed, Recorded, Fenced, TypeOK, Job
  <1>1. /\ HeldBy(j) => row'[j.email].delivery = OutcomeDelivery(j)
        /\ ~HeldBy(j) => row' = row
        /\ \A x \in Emails : x # j.email => row'[x] = row[x]
    BY <1>t, ReleaseFields DEF Write
  <1>2. suppressed \subseteq suppressed' /\ HardBounces(j.prior, j.state) \subseteq suppressed'
    BY DEF Write
  <1>3. ASSUME NEW g \in Groups, j.state[g] = "hard"
        PROVE  g \in suppressed'
    <2>1. CASE g \in HardBounces(j.prior, j.state)
      BY <1>2, <2>1
    <2>2. CASE StatusOf(j.prior[g]) = "failed"
      <3>1. j.prior[g] \in GroupStatus \cup {"none"}
        BY <1>t DEF Job, DeliveryState
      <3>2. j.prior[g] \in {"hard", "failed"}
        BY <2>2, <3>1 DEF StatusOf, GroupStatus, Pending
      <3>3. j.state[g] = j.prior[g]
        BY <3>2 DEF Committed, KeepsSettled, Keeps, Owing, Pending
      <3> QED BY <1>2, <1>3, <3>3 DEF Committed, HardKnown
    <2> QED BY <1>3, <2>1, <2>2 DEF HardBounces
  <1>4. \A x \in Emails, g \in Groups : row[x].delivery[g] = "hard" => g \in suppressed
    BY DEF Committed, CommittedTogether, HardBounceSuppressed
  <1>5. ASSUME HeldBy(j), NEW g \in Groups, row'[j.email].delivery[g] = "hard"
        PROVE  g \in suppressed'
    BY <1>1, <1>3, <1>5, OutcomeGroups
  <1> QED BY <1>1, <1>2, <1>4, <1>5 DEF HardBounceSuppressed

\* A release drops the attachment bytes exactly when the new status is final.
LEMMA ReleaseBytes ==
    ASSUME TypeOK, BytesUntilFinal, NEW j \in jobs, NEW s \in FinalStatuses \cup {"queued"},
           NEW n, NEW a, NEW d, ReleaseRow(j, s, n, a, d)
    PROVE  BytesUntilFinal'
  <1>0. j.email \in Emails
    BY DEF TypeOK, Job
  <1>1. CASE ~HeldBy(j)
    BY <1>1 DEF BytesUntilFinal, ReleaseRow
  <1>2. CASE HeldBy(j)
    <2>1. /\ row'[j.email].status = s
          /\ row'[j.email].bytes = IF s \in FinalStatuses THEN FALSE ELSE row[j.email].bytes
          /\ \A e \in Emails : e # j.email => row'[e] = row[e]
      BY <1>0, <1>2 DEF TypeOK, Row, ReleaseRow, Released
    <2>2. row[j.email].bytes
      BY <1>0, <1>2 DEF BytesUntilFinal, HeldBy
    <2> QED BY <2>1, <2>2 DEF BytesUntilFinal, FinalStatuses
  <1> QED BY <1>1, <1>2

\* A step that leaves bytes alone and changes no status but from one that
\* needs them to another keeps the bytes as they should be.
LEMMA BytesKept ==
    ASSUME BytesUntilFinal,
           \A e \in Emails :
             \/ row'[e].status = "purged"
             \/ /\ row'[e].bytes = row[e].bytes
                /\ \/ row'[e].status = row[e].status
                   \/ {row[e].status, row'[e].status} \subseteq {"queued", "sending"}
    PROVE  BytesUntilFinal'
  BY DEF BytesUntilFinal

\* Every step keeps the attachment bytes until the status is final.
LEMMA NextBytes ==
    ASSUME TypeOK, BytesUntilFinal, [Next]_vars
    PROVE  BytesUntilFinal'
  <1>1. ASSUME NEW j \in jobs, JobStep(j)
        PROVE  BytesUntilFinal'
    <2>0. j.email \in Emails
      BY DEF TypeOK, Job
    <2>1. CASE RenewLease(j)
      <3>1. \A e \in Emails : row'[e].bytes = row[e].bytes /\ row'[e].status = row[e].status
        BY <2>0, <2>1 DEF TypeOK, Row, RenewLease
      <3> QED BY <3>1, BytesKept
    <2>2. CASE FailRevoked(j) \/ HoldForDkimKey(j) \/ FailOnError(j)
      BY <2>2, ReleaseBytes
      DEF FailRevoked, HoldForDkimKey, FailOnError, FailWithEvent, ReleaseUnsent, FinalStatuses
    <2>3. CASE Write(j)
      <3>1. OutcomeStatus(j) \in FinalStatuses \cup {"queued"}
        BY DEF OutcomeStatus, FinalStatus, FinalStatuses
      <3> QED BY <2>3, <3>1, ReleaseBytes DEF Write
    <2>4. CASE UNCHANGED row
      BY <2>4 DEF BytesUntilFinal
    <2>5. \/ RenewLease(j) \/ FailRevoked(j) \/ HoldForDkimKey(j) \/ FailOnError(j)
          \/ Write(j) \/ UNCHANGED row
      BY <1>1 DEF JobStep, AbandonClaim, BeginSend, DeliverGroup, DeferGroup,
                  RecordSendOutcome, RecordRolledBack, RecordAnswerLost
    <2> QED BY <2>1, <2>2, <2>3, <2>4, <2>5
  <1>2. ASSUME NEW w \in Workers, ProcStep(w)
        PROVE  BytesUntilFinal'
    <2>1. ASSUME NEW S \in SUBSET Emails, Claim(w, S)
          PROVE  BytesUntilFinal'
      <3>1. ASSUME NEW e \in Emails
            PROVE  /\ row'[e].bytes = row[e].bytes
                   /\ \/ row'[e].status = row[e].status
                      \/ {row[e].status, row'[e].status} \subseteq {"queued", "sending"}
        BY <2>1 DEF TypeOK, Row, Claim, Due
      <3> QED BY <3>1, BytesKept
    <2>2. CASE Shutdown(w)
      <3>1. \A e \in Emails : row'[e].bytes = row[e].bytes /\ row'[e].status = row[e].status
        BY <2>2 DEF TypeOK, Row, Shutdown, ReleaseOwnLeases
      <3> QED BY <3>1, BytesKept
    <2>3. CASE Exit(w) \/ Crash(w)
      BY <2>3 DEF Exit, Crash, BytesUntilFinal
    <2> QED BY <1>2, <2>1, <2>2, <2>3 DEF ProcStep, ClaimNextEmails, LateClaim
  <1>3. CASE EnvStep
    <2>1. ASSUME NEW x \in Emails, NEW flag \in BOOLEAN, SetTrashed(x, flag)
          PROVE  BytesUntilFinal'
      <3>1. \A e \in Emails : row'[e].bytes = row[e].bytes /\ row'[e].status = row[e].status
        BY <2>1 DEF TypeOK, Row, SetTrashed
      <3> QED BY <3>1, BytesKept
    <2>2. ASSUME NEW x \in Emails, DeleteEmail(x)
          PROVE  BytesUntilFinal'
      <3>1. row'[x].status = "purged" /\ \A e \in Emails : e # x => row'[e] = row[e]
        BY <2>2 DEF TypeOK, Row, DeleteEmail, Released
      <3> QED BY <3>1, BytesKept
    <2>3. CASE Tick
      <3>1. \A e \in Emails : row'[e].bytes = row[e].bytes /\ row'[e].status = row[e].status
        BY <2>3 DEF TypeOK, Row, Tick, Aged
      <3> QED BY <3>1, BytesKept
    <2> QED BY <1>3, <2>1, <2>2, <2>3
        DEF EnvStep, TrashEmail, RestoreEmail, RevokeKey, Suppress, BytesUntilFinal
  <1>4. CASE UNCHANGED vars
    BY <1>4 DEF vars, BytesUntilFinal
  <1> QED BY <1>1, <1>2, <1>3, <1>4 DEF Next

\* Every step keeps the inductive invariant.
LEMMA NextCommitted ==
    ASSUME ~DeferralAckLoss, Committed, [Next]_vars
    PROVE  Committed'
  <1>t. TypeOK
    BY DEF Committed, Recorded, Fenced
  <1>1. Recorded'
    BY NextRecorded DEF Committed
  <1>2. KeepsSettled' /\ HardKnown'
    BY <1>t, NextSettled DEF Committed, CommittedTogether
  <1>3. BytesUntilFinal'
    BY <1>t, NextBytes DEF Committed, CommittedTogether
  <1>4. CASE Undelivering
    <2>1. SentEventOnce'
      BY <1>4 DEF Committed, CommittedTogether, SentEventOnce, Undelivering, AnySent
    <2>2. HardBounceSuppressed'
      BY <1>4, SuppressionsGrow DEF Committed, CommittedTogether, HardBounceSuppressed, Undelivering
    <2> QED BY <1>1, <1>2, <1>3, <2>1, <2>2 DEF Committed, CommittedTogether
  <1>5. ASSUME NEW j \in jobs, Write(j)
        PROVE  SentEventOnce' /\ HardBounceSuppressed'
    BY <1>5, WriteSentOnce, WriteSuppresses
  <1> QED BY <1>t, <1>1, <1>2, <1>3, <1>4, <1>5, OnlyWritesDeliver
      DEF Committed, CommittedTogether

\* Nothing is delivered, bounced or dropped at the start.
LEMMA InitCommitted == Init => Committed
  <1> SUFFICES ASSUME Init
               PROVE  Committed
    OBVIOUS
  <1>1. Recorded /\ KeepsSettled /\ HardKnown
    BY InitRecorded DEF Init, KeepsSettled, HardKnown
  <1>2. CommittedTogether
    BY DEF Init, CommittedTogether, SentEventOnce, HardBounceSuppressed, BytesUntilFinal,
           AnySent, NoState
  <1> QED BY <1>1, <1>2 DEF Committed

\* What commits with an outcome stands or falls with it, for any number of
\* recipients, processes, interruptions and repeated writes: email.sent at most
\* once and with the first delivery, a hard bounce never without its
\* suppression, the attachment bytes gone exactly when the status is final.
THEOREM OutcomesCommitTogether == ASSUME ~DeferralAckLoss PROVE Spec => []CommittedTogether
  <1>1. Committed /\ [Next]_vars => Committed'
    BY NextCommitted
  <1>2. Committed => CommittedTogether
    BY DEF Committed
  <1> QED BY <1>1, <1>2, InitCommitted, PTL DEF Spec

-----------------------------------------------------------------------------
(* The queue implements the ledger.  A step that keeps every row's token   *)
(* and starts no claim lets holds go, or does nothing the ledger sees; a   *)
(* claim holds its batch; what a holder writes settles its email, once,    *)
(* since after it the row is not sending; a deletion is for good.          *)

\* Some claim in flight holds the row.
Held(e) == \E j \in jobs : j.email = e /\ HeldBy(j)

\* The groups the row records as delivered.
Recordeds(e) == {g \in Groups : row[e].delivery[g] = "sent"}

\* The step leaves the row's token alone.
SameToken(e) ==
    /\ row'[e].status = row[e].status
    /\ row'[e].lockedBy = row[e].lockedBy
    /\ row'[e].attempts = row[e].attempts

\* The claims in flight on the other emails stay as they are.
OthersStay(e) ==
    \A x \in Emails \ {e} : {k \in jobs' : k.email = x} = {k \in jobs : k.email = x}

\* The stages of the ledger, from status and hold.
LEMMA StageFacts ==
    ASSUME NEW e \in Emails
    PROVE  /\ row[e].status = "purged" => StageOf(e) = "deleted"
           /\ row[e].status \in FinalStatuses => StageOf(e) = "done"
           /\ row[e].status \in {"queued", "sending"} =>
                StageOf(e) = IF Held(e) THEN "held" ELSE "waiting"
           /\ Held(e) => row[e].status = "sending"
  BY DEF StageOf, FinalStatuses, Held, HeldBy

\* The same after the step.
LEMMA StageFactsPrimed ==
    ASSUME NEW e \in Emails
    PROVE  /\ row'[e].status = "purged" => StageOf(e)' = "deleted"
           /\ row'[e].status \in FinalStatuses => StageOf(e)' = "done"
           /\ row'[e].status \in {"queued", "sending"} =>
                StageOf(e)' = IF Held(e)' THEN "held" ELSE "waiting"
           /\ Held(e)' => row'[e].status = "sending"
  BY DEF StageOf, FinalStatuses, Held, HeldBy

\* A hold on an email that the step leaves alone stays.
LEMMA StageStays ==
    ASSUME TypeOK, TypeOK', NEW e \in Emails, row'[e] = row[e],
           {k \in jobs' : k.email = e} = {k \in jobs : k.email = e}
    PROVE  StageOf(e)' = StageOf(e)
  <1>1. Held(e)' <=> Held(e)
    BY DEF Held, HeldBy
  <1>2. row[e].status \in RowStatus
    BY DEF TypeOK, Row
  <1> QED BY <1>1, <1>2, StageFacts, StageFactsPrimed DEF RowStatus

\* A batch that becomes held is the ledger's Hold.
LEMMA LedgerHold ==
    ASSUME NEW S \in SUBSET Emails,
           \A e \in S : StageOf(e) \in {"waiting", "held"} /\ StageOf(e)' = "held",
           \A e \in Emails \ S : StageOf(e)' = StageOf(e),
           Undelivering
    PROVE  Ledger!LedgerNext
  <1>1. [e \in Emails |-> StageOf(e)]' =
          [e \in Emails |-> IF e \in S THEN "held" ELSE [x \in Emails |-> StageOf(x)][e]]
    OBVIOUS
  <1>2. Ledger!Hold(S)
    BY <1>1 DEF Ledger!Hold, Undelivering
  <1> QED BY <1>2 DEF Ledger!LedgerNext

\* Holds that end with nothing written are its LetHoldsGo.
LEMMA LedgerLetGo ==
    ASSUME NEW S \in SUBSET Emails,
           \A e \in S : StageOf(e) = "held" /\ StageOf(e)' = "waiting",
           \A e \in Emails \ S : StageOf(e)' = StageOf(e),
           Undelivering
    PROVE  Ledger!LedgerNext
  <1>1. [e \in Emails |-> StageOf(e)]' =
          [e \in Emails |-> IF e \in S THEN "waiting" ELSE [x \in Emails |-> StageOf(x)][e]]
    OBVIOUS
  <1>2. Ledger!LetHoldsGo(S)
    BY <1>1 DEF Ledger!LetHoldsGo, Undelivering
  <1> QED BY <1>2 DEF Ledger!LedgerNext

\* A held email that takes on deliveries, and the event only with the first of
\* them, is its Settle.
LEMMA LedgerSettle ==
    ASSUME NEW e \in Emails, NEW next \in {"waiting", "done"},
           StageOf(e) = "held", StageOf(e)' = next,
           \A x \in Emails \ {e} : /\ StageOf(x)' = StageOf(x)
                                   /\ row'[x] = row[x]
                                   /\ events'[x].sent = events[x].sent,
           Recordeds(e) \subseteq Recordeds(e)',
           \/ events'[e].sent = events[e].sent
           \/ /\ Recordeds(e) = {} /\ Recordeds(e)' # {}
              /\ events'[e].sent = events[e].sent + 1
    PROVE  Ledger!LedgerNext
  <1>n. PICK new : new = Recordeds(e)'
    OBVIOUS
  <1> DEFINE stage == [x \in Emails |-> StageOf(x)]
             delivered == [x \in Emails |-> Recordeds(x)]
             told == [x \in Emails |-> events[x].sent]
  <1>0. new \in SUBSET Groups
    BY <1>n DEF Recordeds
  <1>1. stage' = [stage EXCEPT ![e] = next] /\ stage[e] = "held"
    OBVIOUS
  <1>2. delivered' = [delivered EXCEPT ![e] = @ \cup new]
    <2>1. \A x \in Emails \ {e} : Recordeds(x)' = Recordeds(x)
      BY DEF Recordeds
    <2> QED BY <1>n, <2>1
  <1>3. \/ told' = told
        \/ /\ delivered[e] = {} /\ new # {}
           /\ told' = [told EXCEPT ![e] = @ + 1]
    BY <1>n
  <1>4. Ledger!Settle(e, new)
    BY <1>1, <1>2, <1>3 DEF Ledger!Settle, Recordeds
  <1> QED BY <1>0, <1>4 DEF Ledger!LedgerNext

\* A deleted row is its DeleteForGood.
LEMMA LedgerDelete ==
    ASSUME NEW e \in Emails, StageOf(e)' = "deleted",
           \A x \in Emails \ {e} : StageOf(x)' = StageOf(x),
           Undelivering
    PROVE  Ledger!LedgerNext
  <1>1. [x \in Emails |-> StageOf(x)]' = [[x \in Emails |-> StageOf(x)] EXCEPT ![e] = "deleted"]
    OBVIOUS
  <1>2. Ledger!DeleteForGood(e)
    BY <1>1 DEF Ledger!DeleteForGood, Undelivering
  <1> QED BY <1>2 DEF Ledger!LedgerNext

\* A step that keeps the tokens and takes no claim can only let holds go.
LEMMA LettingGo ==
    ASSUME TypeOK, TypeOK', Undelivering,
           \A e \in Emails : SameToken(e),
           \A k \in jobs' : \E j \in jobs : /\ k.email = j.email /\ k.worker = j.worker
                                            /\ k.attempt = j.attempt
    PROVE  Ledger!LedgerNext
  <1> DEFINE S == {e \in Emails : StageOf(e) = "held" /\ StageOf(e)' # "held"}
  <1>1. \A e \in Emails : Held(e)' => Held(e)
    BY DEF Held, HeldBy, SameToken
  <1>2. \A e \in Emails : row[e].status \in RowStatus /\ row'[e].status = row[e].status
    BY DEF TypeOK, Row, SameToken
  <1>3. ASSUME NEW e \in S
        PROVE  StageOf(e) = "held" /\ StageOf(e)' = "waiting"
    BY <1>2, StageFacts, StageFactsPrimed DEF RowStatus
  <1>4. ASSUME NEW e \in Emails \ S
        PROVE  StageOf(e)' = StageOf(e)
    BY <1>1, <1>2, StageFacts, StageFactsPrimed DEF RowStatus
  <1> HIDE DEF S
  <1>5. S \in SUBSET Emails
    BY DEF S
  <1> QED BY <1>3, <1>4, <1>5, LedgerLetGo

\* What the holder's release is to the ledger: other emails keep their stage,
\* and the email is held no longer.
LEMMA ReleaseStage ==
    ASSUME TypeOK, TypeOK', NEW j \in jobs, HeldBy(j),
           NEW s \in FinalStatuses \cup {"queued"}, NEW n, NEW a, NEW d,
           ReleaseRow(j, s, n, a, d), OthersStay(j.email)
    PROVE  /\ StageOf(j.email) = "held"
           /\ StageOf(j.email)' \in {"waiting", "done"}
           /\ \A x \in Emails \ {j.email} : StageOf(x)' = StageOf(x) /\ row'[x] = row[x]
  <1>0. j.email \in Emails
    BY DEF TypeOK, Job
  <1>1. /\ row'[j.email].status = s
        /\ \A x \in Emails : x # j.email => row'[x] = row[x]
    BY ReleaseFields
  <1>2. StageOf(j.email) = "held"
    BY <1>0, StageFacts DEF Held, HeldBy
  <1>3. StageOf(j.email)' \in {"waiting", "done"}
    BY <1>0, <1>1, StageFactsPrimed DEF FinalStatuses
  <1>4. \A x \in Emails \ {j.email} : StageOf(x)' = StageOf(x)
    BY <1>1, StageStays DEF OthersStay
  <1> QED BY <1>1, <1>2, <1>3, <1>4

\* Ending a job, or taking it one stage on, touches no other email's claims and
\* adds no token.
LEMMA JobsStay ==
    ASSUME TypeOK, NEW j \in jobs,
           \/ jobs' = jobs
           \/ jobs' = jobs \ {j}
           \/ \E k : jobs' = (jobs \ {j}) \cup {k} /\ Successor(j, k)
    PROVE  /\ OthersStay(j.email)
           /\ \A k \in jobs' : \E i \in jobs : /\ k.email = i.email /\ k.worker = i.worker
                                               /\ k.attempt = i.attempt
  BY DEF OthersStay, Successor

\* A release before the send settles the email with nothing new delivered, or
\* comes from a claim that holds nothing.
LEMMA UnsentLedger ==
    ASSUME TypeOK, TypeOK', Undelivering, NEW j \in jobs,
           NEW s \in FinalStatuses \cup {"queued"}, NEW n,
           ReleaseUnsent(j, s, n), jobs' = jobs \ {j}
    PROVE  Ledger!LedgerNext
  <1>0. j.email \in Emails
    BY DEF TypeOK, Job
  <1>1. OthersStay(j.email)
    BY JobsStay
  <1>2. CASE HeldBy(j)
    <2>1. PICK next : next = StageOf(j.email)'
      OBVIOUS
    <2>2. /\ StageOf(j.email) = "held" /\ next \in {"waiting", "done"}
          /\ \A x \in Emails \ {j.email} : StageOf(x)' = StageOf(x) /\ row'[x] = row[x]
      BY <1>1, <1>2, <2>1, ReleaseStage DEF ReleaseUnsent
    <2>3. Recordeds(j.email)' = Recordeds(j.email)
      BY <1>0 DEF Recordeds, Undelivering
    <2> QED BY <1>0, <2>1, <2>2, <2>3, LedgerSettle DEF Undelivering
  <1>3. CASE ~HeldBy(j)
    <2>1. row' = row
      BY <1>3 DEF ReleaseUnsent, ReleaseRow
    <2>2. \A e \in Emails : SameToken(e)
      BY <2>1 DEF SameToken
    <2> QED BY <2>2, LettingGo
  <1> QED BY <1>2, <1>3

\* The outcome write settles the email, with what the job delivered, and the
\* event only with the first delivery.
LEMMA WriteLedger ==
    ASSUME Recorded, TypeOK', NEW j \in jobs, Write(j),
           \/ jobs' = jobs \ {j}
           \/ \E k : jobs' = (jobs \ {j}) \cup {k} /\ Successor(j, k)
    PROVE  Ledger!LedgerNext
  <1>t. TypeOK /\ j.email \in Emails /\ j \in Job
    BY DEF Recorded, Fenced, TypeOK, Job
  <1>1. /\ OthersStay(j.email)
        /\ \A k \in jobs' : \E i \in jobs : /\ k.email = i.email /\ k.worker = i.worker
                                            /\ k.attempt = i.attempt
    BY <1>t, JobsStay
  <1> DEFINE sent == SentEvent(KindOf(j), j.prior, j.state)
  <1>2. /\ \A x \in Emails : ~(HeldBy(j) /\ sent /\ x = j.email) => events'[x].sent = events[x].sent
        /\ HeldBy(j) /\ sent => \/ events'[j.email].sent = events[j.email].sent + 1
                                \/ events'[j.email].sent = events[j.email].sent
    BY <1>t, WriteCounts
  <1>3. CASE HeldBy(j)
    <2>1. OutcomeStatus(j) \in FinalStatuses \cup {"queued"}
      BY DEF OutcomeStatus, FinalStatus, FinalStatuses
    <2>2. PICK next : next = StageOf(j.email)'
      OBVIOUS
    <2>3. /\ StageOf(j.email) = "held" /\ next \in {"waiting", "done"}
          /\ \A x \in Emails \ {j.email} : StageOf(x)' = StageOf(x) /\ row'[x] = row[x]
      BY <1>t, <1>1, <1>3, <2>1, <2>2, ReleaseStage DEF Write
    <2>4. Recordeds(j.email) \subseteq Recordeds(j.email)'
      BY <1>t, WriteKeepsSent DEF Recordeds
    <2>5. row'[j.email].delivery = OutcomeDelivery(j)
      BY <1>t, <1>3, ReleaseFields DEF Write
    <2>6. ASSUME sent
          PROVE  Recordeds(j.email) = {} /\ Recordeds(j.email)' # {}
      <3>1. AnySent(j.state) /\ ~AnySent(j.prior)
        BY <2>6 DEF SentEvent
      <3>2. Recordeds(j.email) = {}
        BY <1>3, <3>1 DEF Recorded, HolderIsFresh, Recordeds, AnySent
      <3>3. Recordeds(j.email)' # {}
        BY <2>5, <3>1, OutcomeGroups DEF Recordeds, AnySent
      <3> QED BY <3>2, <3>3
    <2> HIDE DEF sent
    <2> QED BY <1>t, <1>2, <1>3, <2>2, <2>3, <2>4, <2>6, LedgerSettle
  <1>4. CASE ~HeldBy(j)
    <2>1. row' = row /\ events' = events
      BY <1>4 DEF Write, ReleaseRow
    <2>2. Undelivering /\ \A e \in Emails : SameToken(e)
      BY <2>1 DEF Undelivering, SameToken
    <2> QED BY <1>t, <1>1, <2>2, LettingGo
  <1> QED BY <1>3, <1>4

\* A claim holds its batch.
LEMMA ClaimLedger ==
    ASSUME TypeOK, TypeOK', NEW w \in Workers, NEW S \in SUBSET Emails, Claim(w, S),
           Undelivering
    PROVE  Ledger!LedgerNext
  <1>1. \A e \in Emails :
          /\ e \in S => /\ row'[e].status = "sending" /\ row'[e].lockedBy = w
                        /\ row'[e].attempts = row[e].attempts + 1
          /\ e \notin S => row'[e] = row[e]
    BY DEF TypeOK, Row, Claim
  <1>2. jobs' = jobs \cup {NewJob(w, e) : e \in S}
    BY DEF Claim
  <1>3. \A e \in S : /\ NewJob(w, e).email = e /\ NewJob(w, e).worker = w
                     /\ NewJob(w, e).attempt = row[e].attempts + 1
    BY DEF NewJob
  <1>4. ASSUME NEW e \in S
        PROVE  StageOf(e) \in {"waiting", "held"} /\ StageOf(e)' = "held"
    <2>1. row[e].status \in {"queued", "sending"}
      BY DEF Claim, Due
    <2>2. PICK k : k = NewJob(w, e)
      OBVIOUS
    <2>3. k \in jobs' /\ k.email = e /\ k.worker = w /\ k.attempt = row[e].attempts + 1
      BY <1>2, <1>3, <2>2
    <2>4. Held(e)'
      BY <1>1, <2>3 DEF Held, HeldBy
    <2> QED BY <1>1, <2>1, <2>4, StageFacts, StageFactsPrimed
  <1>5. ASSUME NEW e \in Emails \ S
        PROVE  StageOf(e)' = StageOf(e)
    <2>1. {k \in jobs' : k.email = e} = {k \in jobs : k.email = e}
      BY <1>2, <1>3
    <2> QED BY <1>1, <2>1, StageStays
  <1> QED BY <1>4, <1>5, LedgerHold

\* Every step of the queue is a step of the ledger.
LEMMA NextLedger ==
    ASSUME Recorded, TypeOK', Next
    PROVE  Ledger!LedgerNext
  <1>t. TypeOK
    BY DEF Recorded, Fenced
  <1>1. ASSUME NEW j \in jobs, JobStep(j)
        PROVE  Ledger!LedgerNext
    <2>0. j.email \in Emails
      BY <1>t DEF TypeOK, Job
    <2>j. \A k \in jobs' : \E i \in jobs : /\ k.email = i.email /\ k.worker = i.worker
                                           /\ k.attempt = i.attempt
      BY <1>1, <1>t, JobGoesOn, JobsStay
    <2>1. CASE RenewLease(j)
      <3>1. \A e \in Emails : SameToken(e) /\ row'[e].delivery = row[e].delivery
        BY <1>t, <2>0, <2>1 DEF TypeOK, Row, RenewLease, SameToken
      <3>2. Undelivering
        BY <2>1, <3>1 DEF RenewLease, Undelivering
      <3> QED BY <1>t, <2>j, <3>1, <3>2, LettingGo
    <2>2. ASSUME NEW s \in FinalStatuses \cup {"queued"}, NEW n, ReleaseUnsent(j, s, n),
                 jobs' = jobs \ {j},
                 \A e \in Emails : /\ events'[e].sent = events[e].sent
                                   /\ events'[e].dropped = events[e].dropped
          PROVE  Ledger!LedgerNext
      <3>1. Undelivering
        BY <1>t, <2>2, UnsentDelivers DEF Undelivering
      <3> QED BY <1>t, <2>2, <3>1, UnsentLedger
    <2>3. ASSUME FailWithEvent(j)
          PROVE  \A e \in Emails : /\ events'[e].sent = events[e].sent
                                   /\ events'[e].dropped = events[e].dropped
      BY <1>t, <2>0, <2>3 DEF FailWithEvent, TypeOK, Event
    <2>4. CASE FailRevoked(j)
      BY <2>2, <2>4 DEF FailRevoked, FinalStatuses
    <2>5. CASE HoldForDkimKey(j)
      <3>1. CASE CanRetry(j.attempt, j.age)
        BY <2>2, <2>5, <3>1 DEF HoldForDkimKey
      <3>2. CASE ~CanRetry(j.attempt, j.age)
        <4>1. FailWithEvent(j) /\ jobs' = jobs \ {j}
          BY <2>5, <3>2 DEF HoldForDkimKey
        <4> QED BY <2>2, <2>3, <4>1 DEF FailWithEvent, FinalStatuses
      <3> QED BY <3>1, <3>2
    <2>6. CASE FailOnError(j)
      <3>1. FailWithEvent(j) /\ jobs' = jobs \ {j}
        BY <2>6 DEF FailOnError
      <3> QED BY <2>2, <2>3, <3>1 DEF FailWithEvent, FinalStatuses
    <2>7. CASE RecordSendOutcome(j)
      BY <2>7, WriteLedger DEF RecordSendOutcome
    <2>8. CASE RecordAnswerLost(j)
      BY <1>t, <2>8, WriteLedger, FailedWriteStage DEF RecordAnswerLost
    <2>9. CASE UNCHANGED <<row, events>>
      <3>1. Undelivering /\ \A e \in Emails : SameToken(e)
        BY <2>9 DEF Undelivering, SameToken
      <3> QED BY <1>t, <2>j, <3>1, LettingGo
    <2>10. \/ RenewLease(j) \/ FailRevoked(j) \/ HoldForDkimKey(j) \/ FailOnError(j)
           \/ RecordSendOutcome(j) \/ RecordAnswerLost(j) \/ UNCHANGED <<row, events>>
      BY <1>1 DEF JobStep, AbandonClaim, BeginSend, DeliverGroup, DeferGroup,
                  RecordRolledBack
    <2> QED BY <2>1, <2>4, <2>5, <2>6, <2>7, <2>8, <2>9, <2>10
  <1>d. ASSUME jobs' \subseteq jobs, events' = events,
               \A e \in Emails : SameToken(e) /\ row'[e].delivery = row[e].delivery
        PROVE  Ledger!LedgerNext
    <2>1. Undelivering
      BY <1>d DEF Undelivering
    <2> QED BY <1>d, <1>t, <2>1, LettingGo
  <1>2. ASSUME NEW w \in Workers, ProcStep(w)
        PROVE  Ledger!LedgerNext
    <2>1. ASSUME NEW S \in SUBSET Emails, Claim(w, S)
          PROVE  Ledger!LedgerNext
      <3>1. Undelivering
        BY <1>t, <2>1 DEF TypeOK, Row, Claim, Undelivering
      <3> QED BY <1>t, <2>1, <3>1, ClaimLedger
    <2>2. CASE Shutdown(w)
      <3>1. \A e \in Emails : SameToken(e) /\ row'[e].delivery = row[e].delivery
        BY <1>t, <2>2 DEF TypeOK, Row, Shutdown, ReleaseOwnLeases, SameToken
      <3> QED BY <1>d, <2>2, <3>1 DEF Shutdown
    <2>3. CASE Exit(w) \/ Crash(w)
      BY <1>d, <2>3 DEF Exit, Crash, SameToken
    <2> QED BY <1>2, <2>1, <2>2, <2>3 DEF ProcStep, ClaimNextEmails, LateClaim
  <1>3. CASE EnvStep
    <2>1. ASSUME NEW x \in Emails, NEW flag \in BOOLEAN, SetTrashed(x, flag)
          PROVE  Ledger!LedgerNext
      <3>1. \A e \in Emails : SameToken(e) /\ row'[e].delivery = row[e].delivery
        BY <1>t, <2>1 DEF TypeOK, Row, SetTrashed, SameToken
      <3> QED BY <1>d, <2>1, <3>1 DEF SetTrashed
    <2>2. ASSUME NEW x \in Emails, DeleteEmail(x)
          PROVE  Ledger!LedgerNext
      <3>1. /\ row'[x].status = "purged" /\ row'[x].delivery = row[x].delivery
            /\ \A e \in Emails : e # x => row'[e] = row[e]
        BY <1>t, <2>2 DEF TypeOK, Row, DeleteEmail, Released
      <3>2. Undelivering
        BY <2>2, <3>1 DEF Undelivering, DeleteEmail
      <3>3. StageOf(x)' = "deleted"
        BY <3>1, StageFactsPrimed
      <3>4. \A e \in Emails \ {x} : StageOf(e)' = StageOf(e)
        BY <1>t, <2>2, <3>1, StageStays DEF DeleteEmail
      <3> QED BY <3>2, <3>3, <3>4, LedgerDelete
    <2>3. CASE RevokeKey
      BY <1>d, <2>3 DEF RevokeKey, SameToken
    <2>4. ASSUME NEW g \in Groups, Suppress(g)
          PROVE  Ledger!LedgerNext
      BY <1>d, <2>4 DEF Suppress, SameToken
    <2>5. CASE Tick
      <3>1. \A e \in Emails : SameToken(e) /\ row'[e].delivery = row[e].delivery
        BY <1>t, <2>5 DEF TypeOK, Row, Tick, Aged, SameToken
      <3> QED BY <1>d, <2>5, <3>1 DEF Tick
    <2> QED BY <1>3, <2>1, <2>2, <2>3, <2>4, <2>5 DEF EnvStep, TrashEmail, RestoreEmail
  <1> QED BY <1>1, <1>2, <1>3 DEF Next

\* The queue refines the ledger for every choice of the constants: whatever
\* lapses, dies, is written twice or comes late, a row changes its stage, its
\* deliveries and its event only as the one claim that holds it settles it, and
\* what is done or deleted is never taken up again.
THEOREM QueueImplementsLedger == ASSUME ~DeferralAckLoss PROVE Spec => ImplementsLedger
  <1>1. Recorded /\ [Next]_vars => Recorded'
    BY NextRecorded
  <1>2. Init => Ledger!LedgerInit
    <2> SUFFICES ASSUME Init
                 PROVE  Ledger!LedgerInit
      OBVIOUS
    <2>1. \A e \in Emails : StageOf(e) = "waiting"
      BY DEF Init, StageOf, FinalStatuses, HeldBy
    <2>2. \A e \in Emails : {g \in Groups : row[e].delivery[g] = "sent"} = {}
      BY DEF Init, NoState
    <2>3. \A e \in Emails : events[e].sent = 0
      BY DEF Init
    <2> QED BY <2>1, <2>2, <2>3 DEF Ledger!LedgerInit
  <1>3. Recorded /\ Recorded' /\ [Next]_vars => [Ledger!LedgerNext]_(Ledger!ledgerVars)
    <2> SUFFICES ASSUME Recorded, Recorded', [Next]_vars
                 PROVE  Ledger!LedgerNext \/ UNCHANGED Ledger!ledgerVars
      OBVIOUS
    <2>1. CASE Next
      <3>1. TypeOK'
        BY DEF Recorded, Fenced
      <3> QED BY <2>1, <3>1, NextLedger
    <2>2. CASE UNCHANGED vars
      BY <2>2 DEF vars, Ledger!ledgerVars, StageOf, HeldBy
    <2> QED BY <2>1, <2>2
  <1> QED BY <1>1, <1>2, <1>3, InitRecorded, PTL DEF Spec, ImplementsLedger, Ledger!LedgerSpec

-----------------------------------------------------------------------------
(* Duplicates.  For one email and one group, count what the receiver has   *)
(* accepted, the claims in flight that may still deliver to the group, and *)
(* one more if the row may be claimed again without a further interruption *)
(* with the group undelivered.  Only an interruption raises the sum, by    *)
(* one at most: a claim spends the row's unit on the job it starts, a job  *)
(* spends its own on the delivery or hands it back to the row.             *)

\* The claim may still deliver to the group.
MayDeliver(j, g) == (j.pc = "claimed" /\ j.prior[g] \in Owing) \/ g \in j.todo

Deliverers(e, g) == {j \in jobs : j.email = e /\ MayDeliver(j, g)}

\* The claim keeps its row until it ends or something interrupts it.
Firm(j) == HeldBy(j) /\ proc[j.worker] = "up" /\ row[j.email].lease > 0

\* The row can be claimed again, without an interruption, for the group: it
\* waits, its claim is not firm, or its firm claim is done with the group and
\* has not delivered.
Loose(e, g) ==
    \/ row[e].status = "queued" /\ row[e].delivery[g] \in Owing
    \/ /\ row[e].status = "sending" /\ row[e].delivery[g] \in Owing
       /\ ~\E j \in jobs : j.email = e /\ Firm(j)
    \/ \E j \in jobs : j.email = e /\ Firm(j) /\ j.state[g] \in Owing /\ ~MayDeliver(j, g)

Balance(e, g) ==
    /\ IsFiniteSet(Deliverers(e, g))
    /\ wire[e][g] + Cardinality(Deliverers(e, g)) + (IF Loose(e, g) THEN 1 ELSE 0)
         <= 1 + interruptions

Balanced == \A e \in Emails, g \in Groups : Balance(e, g)

\* The holder's snapshot owes no group the row does not owe, and before the
\* send the same groups.
HolderOwes ==
    \A j \in jobs : HeldBy(j) => \A g \in Groups :
        /\ j.prior[g] \in Owing => row[j.email].delivery[g] \in Owing
        /\ j.pc = "claimed" /\ row[j.email].delivery[g] \in Owing => j.prior[g] \in Owing

\* The inductive invariant behind DuplicatesArePaidFor.
PaidFor == Committed /\ HolderOwes /\ Balanced

\* Every step but a claim leaves the rows that are sending to their claim.
LEMMA HoldsStay ==
    ASSUME TypeOK, [Next]_vars
    PROVE  \/ \A e \in Emails : SameHold(e)
           \/ \E w \in Workers, S \in SUBSET Emails : ProcStep(w) /\ Claim(w, S)
  <1>u. UNCHANGED row => \A e \in Emails : SameHold(e)
    BY DEF SameHold
  <1>1. ASSUME NEW j \in jobs, JobStep(j)
        PROVE  \A e \in Emails : SameHold(e)
    <2>1. CASE RenewLease(j)
      BY <2>1 DEF TypeOK, Row, Job, RenewLease, SameHold
    <2>2. CASE FailRevoked(j) \/ HoldForDkimKey(j) \/ FailOnError(j)
      BY <2>2, ReleaseHold DEF FailRevoked, HoldForDkimKey, FailOnError, FailWithEvent,
                               ReleaseUnsent
    <2>3. CASE Write(j)
      <3>1. OutcomeStatus(j) # "sending"
        BY DEF OutcomeStatus, FinalStatus
      <3> QED BY <2>3, <3>1, ReleaseHold DEF Write
    <2>4. \/ RenewLease(j) \/ FailRevoked(j) \/ HoldForDkimKey(j) \/ FailOnError(j)
          \/ Write(j) \/ UNCHANGED row
      BY <1>1 DEF JobStep, AbandonClaim, BeginSend, DeliverGroup, DeferGroup,
                  RecordSendOutcome, RecordRolledBack, RecordAnswerLost
    <2> QED BY <1>u, <2>1, <2>2, <2>3, <2>4
  <1>2. ASSUME NEW w \in Workers, ProcStep(w)
        PROVE  \/ \A e \in Emails : SameHold(e)
               \/ \E S \in SUBSET Emails : Claim(w, S)
    <2>1. CASE Shutdown(w)
      BY <2>1 DEF TypeOK, Row, Shutdown, ReleaseOwnLeases, SameHold
    <2>2. CASE Exit(w) \/ Crash(w)
      BY <1>u, <2>2 DEF Exit, Crash
    <2> QED BY <1>2, <2>1, <2>2 DEF ProcStep, ClaimNextEmails, LateClaim
  <1>3. CASE EnvStep
    <2>1. ASSUME NEW x \in Emails, NEW flag \in BOOLEAN, SetTrashed(x, flag)
          PROVE  \A e \in Emails : SameHold(e)
      BY <2>1 DEF TypeOK, Row, SetTrashed, SameHold
    <2>2. ASSUME NEW x \in Emails, DeleteEmail(x)
          PROVE  \A e \in Emails : SameHold(e)
      BY <2>2 DEF TypeOK, Row, DeleteEmail, Released, SameHold
    <2>3. CASE Tick
      BY <2>3 DEF TypeOK, Row, Tick, Aged, SameHold
    <2> QED BY <1>u, <1>3, <2>1, <2>2, <2>3
        DEF EnvStep, TrashEmail, RestoreEmail, RevokeKey, Suppress
  <1> QED BY <1>u, <1>1, <1>2, <1>3 DEF Next, vars

\* A later stage of a job owes no group, and may deliver to none, that the
\* stage before did not.
LEMMA SuccessorOwes ==
    ASSUME NEW j, NEW k, Successor(j, k), NEW g \in Groups
    PROVE  /\ k.prior[g] \in Owing => j.prior[g] \in Owing
           /\ k.pc = "claimed" => j.pc = "claimed" /\ k.prior = j.prior
           /\ MayDeliver(k, g) => MayDeliver(j, g)
  <1>1. CASE Begun(j, k)
    <2>1. k.pc = "sending" /\ j.pc = "claimed"
      BY <1>1 DEF Begun
    <2>2. k.prior[g] \in Owing => j.prior[g] \in Owing
      BY <1>1 DEF Begun, DropSuppressed, Owing, Pending
    <2>3. g \in k.todo => k.prior[g] \in Owing
      BY <1>1 DEF Begun, StartState, Owing, Pending
    <2> QED BY <2>1, <2>2, <2>3 DEF MayDeliver
  <1>2. ASSUME NEW x \in Groups, Tried(j, k, x)
        PROVE  /\ k.prior[g] \in Owing => j.prior[g] \in Owing
               /\ k.pc = "claimed" => j.pc = "claimed" /\ k.prior = j.prior
               /\ MayDeliver(k, g) => MayDeliver(j, g)
    BY <1>2 DEF Tried, MayDeliver
  <1>3. CASE Unmoved(j, k)
    BY <1>3 DEF Unmoved, MayDeliver
  <1> QED BY <1>1, <1>2, <1>3 DEF Successor

\* Jobs either stay, end or go on, except for those a claim starts.
LEMMA JobsContinue ==
    ASSUME TypeOK, [Next]_vars,
           ~\E w \in Workers, S \in SUBSET Emails : ProcStep(w) /\ Claim(w, S)
    PROVE  \A k \in jobs' : k \in jobs \/ \E j \in jobs : Successor(j, k)
  <1>1. ASSUME NEW j \in jobs, JobStep(j)
        PROVE  \A k \in jobs' : k \in jobs \/ \E i \in jobs : Successor(i, k)
    BY <1>1, JobGoesOn
  <1>2. ASSUME NEW w \in Workers, ProcStep(w)
        PROVE  jobs' \subseteq jobs
    BY <1>2 DEF ProcStep, ClaimNextEmails, LateClaim, Shutdown, Exit, Crash
  <1>3. CASE EnvStep
    BY <1>3 DEF EnvStep, TrashEmail, RestoreEmail, SetTrashed, DeleteEmail, RevokeKey,
                Suppress, Tick
  <1>4. CASE UNCHANGED vars
    BY <1>4 DEF vars
  <1> QED BY <1>1, <1>2, <1>3, <1>4 DEF Next

\* A claim draws exactly what the row owes.
LEMMA ClaimOwes ==
    ASSUME Fenced, HolderOwes, NEW w \in Workers, NEW S \in SUBSET Emails, Claim(w, S)
    PROVE  HolderOwes'
  <1>1. \A e \in Emails :
          /\ e \in S => /\ row'[e].attempts = row[e].attempts + 1
                        /\ row'[e].delivery = row[e].delivery
          /\ e \notin S => row'[e] = row[e]
    BY DEF Fenced, TypeOK, Row, Claim
  <1>2. /\ \A i \in jobs : i.email \in Emails /\ i.attempt \in Nat
        /\ \A e \in Emails : row[e].attempts \in Nat
        /\ \A i \in jobs : i.attempt <= row[i.email].attempts
    BY DEF Fenced, TypeOK, Job, Row, TokensBounded
  <1>3. \A e \in S : NewJob(w, e).email = e /\ NewJob(w, e).prior = row[e].delivery
    BY DEF NewJob
  <1>4. jobs' = jobs \cup {NewJob(w, e) : e \in S}
    BY DEF Claim
  <1> SUFFICES ASSUME NEW k \in jobs', HeldBy(k)', NEW g \in Groups
               PROVE  /\ k.prior[g] \in Owing => row'[k.email].delivery[g] \in Owing
                      /\ k.pc = "claimed" /\ row'[k.email].delivery[g] \in Owing => k.prior[g] \in Owing
    BY DEF HolderOwes
  <1>5. CASE k \in jobs
    <2>1. k.email \notin S
      BY <1>1, <1>2, <1>5 DEF HeldBy
    <2>2. HeldBy(k)
      BY <1>1, <1>2, <1>5, <2>1 DEF HeldBy
    <2> QED BY <1>1, <1>2, <1>5, <2>1, <2>2 DEF HolderOwes
  <1>6. CASE k \notin jobs
    BY <1>1, <1>3, <1>4, <1>6
  <1> QED BY <1>5, <1>6

\* Every step keeps the holder's debts those of the row.
LEMMA NextOwes ==
    ASSUME Fenced, HolderOwes, [Next]_vars
    PROVE  HolderOwes'
  <1>t. TypeOK
    BY DEF Fenced
  <1>1. CASE \E w \in Workers, S \in SUBSET Emails : ProcStep(w) /\ Claim(w, S)
    BY <1>1, ClaimOwes
  <1>2. CASE ~\E w \in Workers, S \in SUBSET Emails : ProcStep(w) /\ Claim(w, S)
    <2>1. /\ \A e \in Emails : SameHold(e)
          /\ \A k \in jobs' : k \in jobs \/ \E j \in jobs : Successor(j, k)
      BY <1>t, <1>2, HoldsStay, JobsContinue
    <2> SUFFICES ASSUME NEW k \in jobs', HeldBy(k)', NEW g \in Groups
                 PROVE  /\ k.prior[g] \in Owing => row'[k.email].delivery[g] \in Owing
                        /\ k.pc = "claimed" /\ row'[k.email].delivery[g] \in Owing => k.prior[g] \in Owing
      BY DEF HolderOwes
    <2>2. PICK j \in jobs : j = k \/ Successor(j, k)
      BY <2>1
    <2>3. /\ k.email = j.email /\ k.worker = j.worker /\ k.attempt = j.attempt
          /\ j.email \in Emails
      BY <1>t, <2>2 DEF Successor, TypeOK, Job
    <2>4. HeldBy(j) /\ row'[k.email].delivery = row[j.email].delivery
      BY <2>1, <2>3 DEF SameHold, HeldBy
    <2>5. /\ k.prior[g] \in Owing => j.prior[g] \in Owing
          /\ k.pc = "claimed" => j.pc = "claimed" /\ k.prior = j.prior
      BY <2>2, SuccessorOwes
    <2> QED BY <2>4, <2>5 DEF HolderOwes
  <1> QED BY <1>1, <1>2

\* An interruption pays for one unit, whatever becomes of the row.
LEMMA Interrupted ==
    ASSUME TypeOK, NEW e \in Emails, NEW g \in Groups, Balance(e, g),
           interruptions' = interruptions + 1, wire' = wire,
           IsFiniteSet(Deliverers(e, g)'),
           Cardinality(Deliverers(e, g)') <= Cardinality(Deliverers(e, g))
    PROVE  Balance(e, g)'
  <1>1. wire[e][g] \in Nat /\ interruptions \in Nat
    BY DEF TypeOK
  <1>2. Cardinality(Deliverers(e, g)) \in Nat /\ Cardinality(Deliverers(e, g)') \in Nat
    BY FS_CardinalityType DEF Balance
  <1> QED BY <1>1, <1>2 DEF Balance

\* A step that costs nothing and frees nothing.
LEMMA Uninterrupted ==
    ASSUME TypeOK, NEW e \in Emails, NEW g \in Groups, Balance(e, g),
           interruptions' = interruptions, wire' = wire,
           IsFiniteSet(Deliverers(e, g)'),
           Cardinality(Deliverers(e, g)') <= Cardinality(Deliverers(e, g)),
           Loose(e, g)' => Loose(e, g)
    PROVE  Balance(e, g)'
  <1>1. wire[e][g] \in Nat /\ interruptions \in Nat
    BY DEF TypeOK
  <1>2. Cardinality(Deliverers(e, g)) \in Nat /\ Cardinality(Deliverers(e, g)') \in Nat
    BY FS_CardinalityType DEF Balance
  <1> QED BY <1>1, <1>2 DEF Balance

\* A subset, a set with one element replaced, and a set less one element.
LEMMA Cardinalities ==
    ASSUME NEW A, IsFiniteSet(A), NEW B
    PROVE  /\ B \subseteq A => IsFiniteSet(B) /\ Cardinality(B) <= Cardinality(A)
           /\ \A j \in A : \A k : B \subseteq (A \ {j}) \cup {k} =>
                IsFiniteSet(B) /\ Cardinality(B) <= Cardinality(A)
           /\ \A j \in A : B \subseteq A \ {j} =>
                IsFiniteSet(B) /\ Cardinality(B) + 1 <= Cardinality(A)
           /\ \A k : B \subseteq A \cup {k} =>
                IsFiniteSet(B) /\ Cardinality(B) <= Cardinality(A) + 1
  <1>0. Cardinality(A) \in Nat
    BY FS_CardinalityType
  <1>1. ASSUME B \subseteq A
        PROVE  IsFiniteSet(B) /\ Cardinality(B) <= Cardinality(A)
    BY <1>1, FS_Subset
  <1>2. ASSUME NEW j \in A
        PROVE  IsFiniteSet(A \ {j}) /\ Cardinality(A \ {j}) = Cardinality(A) - 1
    BY FS_RemoveElement
  <1>3. ASSUME NEW j \in A, B \subseteq A \ {j}
        PROVE  IsFiniteSet(B) /\ Cardinality(B) + 1 <= Cardinality(A)
    <2>1. IsFiniteSet(B) /\ Cardinality(B) <= Cardinality(A \ {j})
      BY <1>2, <1>3, FS_Subset
    <2>2. Cardinality(B) \in Nat
      BY <2>1, FS_CardinalityType
    <2>3. Cardinality(A \ {j}) = Cardinality(A) - 1
      BY <1>2, <1>3
    <2> QED BY <1>0, <2>1, <2>2, <2>3
  <1>4. ASSUME NEW C, IsFiniteSet(C), NEW k, B \subseteq C \cup {k}
        PROVE  /\ IsFiniteSet(B) /\ Cardinality(B) \in Nat
               /\ Cardinality(B) <= Cardinality(C) + 1
    <2>0. Cardinality(C) \in Nat
      BY <1>4, FS_CardinalityType
    <2>1. IsFiniteSet(C \cup {k}) /\ Cardinality(C \cup {k}) \in {Cardinality(C), Cardinality(C) + 1}
      BY <1>4, FS_AddElement
    <2>2. IsFiniteSet(B) /\ Cardinality(B) <= Cardinality(C \cup {k})
      BY <1>4, <2>1, FS_Subset
    <2>3. Cardinality(B) \in Nat
      BY <2>2, FS_CardinalityType
    <2> QED BY <2>0, <2>1, <2>2, <2>3
  <1>5. ASSUME NEW j \in A, NEW k, B \subseteq (A \ {j}) \cup {k}
        PROVE  IsFiniteSet(B) /\ Cardinality(B) <= Cardinality(A)
    <2>1. IsFiniteSet(A \ {j}) /\ Cardinality(A \ {j}) = Cardinality(A) - 1
      BY <1>2
    <2>2. /\ IsFiniteSet(B) /\ Cardinality(B) \in Nat
          /\ Cardinality(B) <= Cardinality(A \ {j}) + 1
      BY <1>4, <1>5, <2>1
    <2> QED BY <1>0, <2>1, <2>2
  <1> QED BY <1>1, <1>3, <1>4, <1>5

\* Ending jobs, or taking one a stage on, adds no deliverer.
LEMMA DeliverersStay ==
    ASSUME TypeOK, NEW e \in Emails, NEW g \in Groups, Balance(e, g),
           \/ jobs' \subseteq jobs
           \/ \E j \in jobs : \E k : jobs' = (jobs \ {j}) \cup {k} /\ Successor(j, k)
    PROVE  /\ IsFiniteSet(Deliverers(e, g)')
           /\ Cardinality(Deliverers(e, g)') <= Cardinality(Deliverers(e, g))
  <1>0. IsFiniteSet(Deliverers(e, g))
    BY DEF Balance
  <1>1. CASE jobs' \subseteq jobs
    <2>1. Deliverers(e, g)' \subseteq Deliverers(e, g)
      BY <1>1 DEF Deliverers
    <2> QED BY <1>0, <2>1, Cardinalities
  <1>2. ASSUME NEW j \in jobs, NEW k, jobs' = (jobs \ {j}) \cup {k}, Successor(j, k)
        PROVE  /\ IsFiniteSet(Deliverers(e, g)')
               /\ Cardinality(Deliverers(e, g)') <= Cardinality(Deliverers(e, g))
    <2>1. MayDeliver(k, g) => MayDeliver(j, g)
      BY <1>2, SuccessorOwes
    <2>2. k.email = j.email
      BY <1>2 DEF Successor
    <2>3. CASE k.email = e /\ MayDeliver(k, g)
      <3>1. j \in Deliverers(e, g)
        BY <2>1, <2>2, <2>3 DEF Deliverers
      <3>2. Deliverers(e, g)' \subseteq (Deliverers(e, g) \ {j}) \cup {k}
        BY <1>2 DEF Deliverers
      <3> QED BY <1>0, <3>1, <3>2, Cardinalities
    <2>4. CASE ~(k.email = e /\ MayDeliver(k, g))
      <3>1. Deliverers(e, g)' \subseteq Deliverers(e, g)
        BY <1>2, <2>4 DEF Deliverers
      <3> QED BY <1>0, <3>1, Cardinalities
    <2> QED BY <2>3, <2>4
  <1> QED BY <1>1, <1>2

\* A row that keeps its status and deliveries is no looser if its firm claims
\* stay firm and none gives a group up.
LEMMA LooseKept ==
    ASSUME NEW e \in Emails, NEW g \in Groups,
           row'[e].status = row[e].status, row'[e].delivery = row[e].delivery,
           \A j \in jobs : j.email = e /\ Firm(j) => \E k \in jobs' : k.email = e /\ Firm(k)',
           \A k \in jobs' : k.email = e /\ Firm(k)' /\ k.state[g] \in Owing /\ ~MayDeliver(k, g)
                => Loose(e, g)
    PROVE  Loose(e, g)' => Loose(e, g)
  <1> SUFFICES ASSUME Loose(e, g)'
               PROVE  Loose(e, g)
    OBVIOUS
  <1>1. CASE row'[e].status = "queued" /\ row'[e].delivery[g] \in Owing
    BY <1>1 DEF Loose
  <1>2. CASE /\ row'[e].status = "sending" /\ row'[e].delivery[g] \in Owing
             /\ ~\E k \in jobs' : k.email = e /\ Firm(k)'
    BY <1>2 DEF Loose
  <1>3. CASE \E k \in jobs' : /\ k.email = e /\ Firm(k)' /\ k.state[g] \in Owing
                              /\ ~MayDeliver(k, g)
    BY <1>3
  <1> QED BY <1>1, <1>2, <1>3 DEF Loose, MayDeliver

\* A row, with its claims, that the step leaves alone is as loose as before.
LEMMA LooseStays ==
    ASSUME NEW e \in Emails, NEW g \in Groups, row'[e] = row[e], proc' = proc,
           {k \in jobs' : k.email = e} = {k \in jobs : k.email = e}
    PROVE  Loose(e, g)' => Loose(e, g)
  <1>1. \A j : j.email = e => (j \in jobs' <=> j \in jobs)
    OBVIOUS
  <1>2. \A j : j.email = e => (Firm(j)' <=> Firm(j))
    BY DEF Firm, HeldBy
  <1>3. \A j \in jobs : j.email = e /\ Firm(j) => \E k \in jobs' : k.email = e /\ Firm(k)'
    BY <1>1, <1>2
  <1>4. \A k \in jobs' : k.email = e /\ Firm(k)' /\ k.state[g] \in Owing /\ ~MayDeliver(k, g)
             => Loose(e, g)
    BY <1>1, <1>2 DEF Loose
  <1> QED BY <1>3, <1>4, LooseKept

\* A holder that is not firm leaves its row loose for every group the row owes.
LEMMA HolderLoose ==
    ASSUME Fenced, NEW j \in jobs, HeldBy(j), ~Firm(j), NEW g \in Groups,
           row[j.email].delivery[g] \in Owing
    PROVE  Loose(j.email, g)
  <1>1. \A k \in jobs : k.email = j.email /\ HeldBy(k) => k = j
    BY DEF Fenced, TokenUnique, HeldBy
  <1>2. \A k \in jobs : k.email = j.email /\ Firm(k) => k = j
    BY <1>1 DEF Firm
  <1> QED BY <1>2 DEF Loose, HeldBy

\* A stage that gives no group up leaves the row no looser.
LEMMA MoveLoose ==
    ASSUME NEW e \in Emails, NEW g \in Groups, UNCHANGED <<row, proc>>,
           NEW j \in jobs, NEW k, jobs' = (jobs \ {j}) \cup {k}, Successor(j, k),
           k.email = e /\ k.state[g] \in Owing /\ ~MayDeliver(k, g) =>
               j.state[g] \in Owing /\ ~MayDeliver(j, g)
    PROVE  Loose(e, g)' => Loose(e, g)
  <1>0. k.email = j.email /\ k.worker = j.worker /\ k.attempt = j.attempt
    BY DEF Successor
  <1>1. \A i : Firm(i)' <=> Firm(i)
    BY DEF Firm, HeldBy
  <1>2. Firm(k) <=> Firm(j)
    BY <1>0 DEF Firm, HeldBy
  <1>3. \A i \in jobs : i.email = e /\ Firm(i) => \E x \in jobs' : x.email = e /\ Firm(x)'
    BY <1>0, <1>1, <1>2
  <1>4. \A x \in jobs' : x.email = e /\ Firm(x)' /\ x.state[g] \in Owing /\ ~MayDeliver(x, g)
             => Loose(e, g)
    BY <1>0, <1>1, <1>2 DEF Loose
  <1> QED BY <1>3, <1>4, LooseKept

\* Beginning to send turns what the snapshot owes into what is to be tried.
LEMMA BeginBalance ==
    ASSUME TypeOK, Balanced, NEW j \in jobs, BeginSend(j)
    PROVE  Balanced'
  <1> SUFFICES ASSUME NEW e \in Emails, NEW g \in Groups
               PROVE  Balance(e, g)'
    BY DEF Balanced
  <1>0. Balance(e, g)
    BY DEF Balanced
  <1>1. PICK k : jobs' = (jobs \ {j}) \cup {k} /\ Successor(j, k) /\ Begun(j, k)
    BY BeginStage
  <1>2. k.state[g] \in Owing => MayDeliver(k, g)
    BY <1>1 DEF Begun, StartState, MayDeliver, Owing, Pending
  <1>3. Loose(e, g)' => Loose(e, g)
    BY <1>1, <1>2, MoveLoose DEF BeginSend
  <1>4. /\ IsFiniteSet(Deliverers(e, g)')
        /\ Cardinality(Deliverers(e, g)') <= Cardinality(Deliverers(e, g))
    BY <1>0, <1>1, DeliverersStay
  <1> QED BY <1>0, <1>3, <1>4, Uninterrupted DEF BeginSend

\* A job that is through with a group is one deliverer less.
LEMMA TriedDeliverers ==
    ASSUME NEW e \in Emails, NEW g \in Groups, Balance(e, g), NEW j \in jobs, NEW k,
           jobs' = (jobs \ {j}) \cup {k}, Successor(j, k), Tried(j, k, g), j.email = e
    PROVE  /\ IsFiniteSet(Deliverers(e, g)')
           /\ Cardinality(Deliverers(e, g)') + 1 <= Cardinality(Deliverers(e, g))
  <1>1. j \in Deliverers(e, g)
    BY DEF Tried, Deliverers, MayDeliver
  <1>2. ~MayDeliver(k, g)
    BY DEF Tried, MayDeliver
  <1>3. Deliverers(e, g)' \subseteq Deliverers(e, g) \ {j}
    BY <1>2 DEF Deliverers
  <1> QED BY <1>1, <1>3, Cardinalities DEF Balance

\* The groups a job did not just try are as they were.
LEMMA TriedOthers ==
    ASSUME TypeOK, NEW e \in Emails, NEW g \in Groups, Balance(e, g), NEW j \in jobs, NEW k,
           jobs' = (jobs \ {j}) \cup {k}, Successor(j, k), NEW x \in Groups, Tried(j, k, x),
           UNCHANGED <<row, proc>>, j.email # e \/ g # x
    PROVE  Loose(e, g)' => Loose(e, g)
  <1>1. CASE j.email # e
    BY <1>1, MoveLoose DEF Successor
  <1>2. CASE g # x
    <2>1. k.state[g] = j.state[g] /\ (MayDeliver(k, g) <=> MayDeliver(j, g))
      BY <1>2 DEF Tried, MayDeliver
    <2> QED BY <2>1, MoveLoose
  <1> QED BY <1>1, <1>2

\* A delivery spends the job's unit; a lost answer is paid for; a retry hands
\* the unit back to the row.
LEMMA DeliverBalance ==
    ASSUME TypeOK, Balanced, NEW j \in jobs, NEW x \in Groups, NEW res \in GroupStatus,
           NEW accepted \in BOOLEAN, DeliverGroup(j, x, res, accepted)
    PROVE  Balanced'
  <1> SUFFICES ASSUME NEW e \in Emails, NEW g \in Groups
               PROVE  Balance(e, g)'
    BY DEF Balanced
  <1>0. Balance(e, g) /\ j.email \in Emails
    BY DEF Balanced, TypeOK, Job
  <1>1. PICK k : /\ jobs' = (jobs \ {j}) \cup {k}
                 /\ Successor(j, k) /\ Tried(j, k, x) /\ k.state[x] = res
    BY DeliverStage
  <1>2. /\ interruptions' = IF accepted /\ res = "retry" THEN interruptions + 1 ELSE interruptions
        /\ accepted <=> (res = "sent") \/ (accepted /\ res = "retry")
        /\ wire' = IF accepted THEN [wire EXCEPT ![j.email][x] = @ + 1] ELSE wire
        /\ UNCHANGED <<row, proc>>
    BY DEF DeliverGroup, Interrupt
  <1>3. CASE j.email = e /\ g = x
    <2>1. /\ IsFiniteSet(Deliverers(e, g)')
          /\ Cardinality(Deliverers(e, g)') + 1 <= Cardinality(Deliverers(e, g))
      BY <1>0, <1>1, <1>3, TriedDeliverers
    <2>2. res = "sent" => (Loose(e, g)' => Loose(e, g))
      <3> SUFFICES ASSUME res = "sent"
                   PROVE  Loose(e, g)' => Loose(e, g)
        OBVIOUS
      <3>1. k.state[g] \notin Owing
        BY <1>1, <1>3 DEF Owing, Pending
      <3> QED BY <1>1, <1>2, <3>1, MoveLoose
    <2>3. wire'[e][g] = IF accepted THEN wire[e][g] + 1 ELSE wire[e][g]
      BY <1>2, <1>3 DEF TypeOK
    <2>4. wire[e][g] \in Nat /\ interruptions \in Nat
      BY DEF TypeOK
    <2>5. Cardinality(Deliverers(e, g)) \in Nat /\ Cardinality(Deliverers(e, g)') \in Nat
      BY <1>0, <2>1, FS_CardinalityType DEF Balance
    <2>6. wire[e][g] + Cardinality(Deliverers(e, g)) + (IF Loose(e, g) THEN 1 ELSE 0)
            <= 1 + interruptions
      BY <1>0 DEF Balance
    <2>7. wire'[e][g] + Cardinality(Deliverers(e, g)') + (IF Loose(e, g)' THEN 1 ELSE 0)
            <= 1 + interruptions'
      BY <1>2, <2>1, <2>2, <2>3, <2>4, <2>5, <2>6
    <2> QED BY <2>1, <2>7 DEF Balance
  <1>4. CASE j.email # e \/ g # x
    <2>1. wire'[e][g] = wire[e][g]
      BY <1>0, <1>2, <1>4 DEF TypeOK
    <2>2. Loose(e, g)' => Loose(e, g)
      BY <1>0, <1>1, <1>2, <1>4, TriedOthers
    <2>3. /\ IsFiniteSet(Deliverers(e, g)')
          /\ Cardinality(Deliverers(e, g)') <= Cardinality(Deliverers(e, g))
      BY <1>0, <1>1, DeliverersStay
    <2>4. wire[e][g] \in Nat /\ interruptions \in Nat
      BY DEF TypeOK
    <2>5. Cardinality(Deliverers(e, g)) \in Nat /\ Cardinality(Deliverers(e, g)') \in Nat
      BY <1>0, <2>3, FS_CardinalityType DEF Balance
    <2>6. wire[e][g] + Cardinality(Deliverers(e, g)) + (IF Loose(e, g) THEN 1 ELSE 0)
            <= 1 + interruptions
      BY <1>0 DEF Balance
    <2>7. wire'[e][g] + Cardinality(Deliverers(e, g)') + (IF Loose(e, g)' THEN 1 ELSE 0)
            <= 1 + interruptions'
      BY <1>2, <2>1, <2>2, <2>3, <2>4, <2>5, <2>6
    <2> QED BY <2>3, <2>7 DEF Balance
  <1> QED BY <1>3, <1>4

\* A deferral hands the job's unit back to the row.
LEMMA DeferBalance ==
    ASSUME TypeOK, Balanced, NEW j \in jobs, NEW x \in Groups, DeferGroup(j, x)
    PROVE  Balanced'
  <1> SUFFICES ASSUME NEW e \in Emails, NEW g \in Groups
               PROVE  Balance(e, g)'
    BY DEF Balanced
  <1>0. Balance(e, g)
    BY DEF Balanced
  <1>1. PICK k : jobs' = (jobs \ {j}) \cup {k} /\ Successor(j, k) /\ Tried(j, k, x)
    BY DeferStage
  <1>2. UNCHANGED <<row, proc, wire, interruptions>>
    BY DEF DeferGroup
  <1>3. CASE j.email = e /\ g = x
    <2>1. /\ IsFiniteSet(Deliverers(e, g)')
          /\ Cardinality(Deliverers(e, g)') + 1 <= Cardinality(Deliverers(e, g))
      BY <1>0, <1>1, <1>3, TriedDeliverers
    <2>2. wire[e][g] \in Nat /\ interruptions \in Nat
      BY DEF TypeOK
    <2>3. Cardinality(Deliverers(e, g)) \in Nat /\ Cardinality(Deliverers(e, g)') \in Nat
      BY <1>0, <2>1, FS_CardinalityType DEF Balance
    <2> QED BY <1>0, <1>2, <2>1, <2>2, <2>3 DEF Balance
  <1>4. CASE j.email # e \/ g # x
    <2>1. Loose(e, g)' => Loose(e, g)
      BY <1>0, <1>1, <1>2, <1>4, TriedOthers
    <2>2. /\ IsFiniteSet(Deliverers(e, g)')
          /\ Cardinality(Deliverers(e, g)') <= Cardinality(Deliverers(e, g))
      BY <1>0, <1>1, DeliverersStay
    <2> QED BY <1>0, <1>2, <2>1, <2>2, Uninterrupted
  <1> QED BY <1>3, <1>4

\* A row that is neither queued nor sending is not loose; a queued one is for
\* what it owes.
LEMMA StatusLoose ==
    ASSUME NEW e \in Emails, NEW g \in Groups
    PROVE  /\ row'[e].status \notin {"queued", "sending"} => ~Loose(e, g)'
           /\ row'[e].status = "queued" => (Loose(e, g)' <=> row'[e].delivery[g] \in Owing)
  BY DEF Loose, Firm, HeldBy

\* A release before the send, and the end of its job: the row fails, or takes
\* the job's units back.
LEMMA UnsentBalance ==
    ASSUME Fenced, HolderOwes, Balanced, NEW j \in jobs, j.pc = "claimed",
           NEW s \in FinalStatuses \cup {"queued"}, NEW n, ReleaseUnsent(j, s, n),
           jobs' = jobs \ {j}, UNCHANGED <<proc, wire, interruptions>>
    PROVE  Balanced'
  <1> SUFFICES ASSUME NEW e \in Emails, NEW g \in Groups
               PROVE  Balance(e, g)'
    BY DEF Balanced
  <1>t. TypeOK /\ j.email \in Emails
    BY DEF Fenced, TypeOK, Job
  <1>0. Balance(e, g)
    BY DEF Balanced
  <1>1. /\ HeldBy(j) => row'[j.email].status = s /\ row'[j.email].delivery = row[j.email].delivery
        /\ ~HeldBy(j) => row' = row
        /\ \A x \in Emails : x # j.email => row'[x] = row[x]
    BY <1>t, ReleaseFields DEF ReleaseUnsent
  <1>2. /\ IsFiniteSet(Deliverers(e, g)')
        /\ Cardinality(Deliverers(e, g)') <= Cardinality(Deliverers(e, g))
    BY <1>t, <1>0, DeliverersStay
  <1>3. CASE e # j.email
    <2>1. Loose(e, g)' => Loose(e, g)
      BY <1>1, <1>3, LooseStays
    <2> QED BY <1>t, <1>0, <1>2, <2>1, Uninterrupted
  <1>4. CASE e = j.email /\ ~HeldBy(j)
    <2>1. \A i : Firm(i)' <=> Firm(i)
      BY <1>1, <1>4 DEF Firm, HeldBy
    <2>2. ~Firm(j)
      BY <1>4 DEF Firm
    <2>3. \A i \in jobs : i.email = e /\ Firm(i) => \E k \in jobs' : k.email = e /\ Firm(k)'
      BY <2>1, <2>2
    <2>4. \A k \in jobs' : k.email = e /\ Firm(k)' /\ k.state[g] \in Owing /\ ~MayDeliver(k, g)
             => Loose(e, g)
      BY <2>1 DEF Loose
    <2>5. Loose(e, g)' => Loose(e, g)
      BY <1>1, <1>4, <2>3, <2>4, LooseKept
    <2> QED BY <1>t, <1>0, <1>2, <2>5, Uninterrupted
  <1>5. CASE e = j.email /\ HeldBy(j)
    <2>1. CASE Loose(e, g)' => Loose(e, g)
      BY <1>t, <1>0, <1>2, <2>1, Uninterrupted
    <2>2. CASE Loose(e, g)' /\ ~Loose(e, g)
      <3>1. row[e].delivery[g] \in Owing
        BY <1>1, <1>5, <2>2, StatusLoose DEF FinalStatuses
      <3>2. j.prior[g] \in Owing
        BY <1>5, <3>1 DEF HolderOwes
      <3>3. j \in Deliverers(e, g)
        BY <1>5, <3>2 DEF Deliverers, MayDeliver
      <3>4. Deliverers(e, g)' \subseteq Deliverers(e, g) \ {j}
        BY DEF Deliverers
      <3>5. Cardinality(Deliverers(e, g)') + 1 <= Cardinality(Deliverers(e, g))
        BY <1>0, <3>3, <3>4, Cardinalities DEF Balance
      <3>6. wire[e][g] \in Nat /\ interruptions \in Nat
        BY <1>t DEF TypeOK
      <3>7. Cardinality(Deliverers(e, g)) \in Nat /\ Cardinality(Deliverers(e, g)') \in Nat
        BY <1>0, <1>2, FS_CardinalityType DEF Balance
      <3> QED BY <1>0, <1>2, <2>2, <3>5, <3>6, <3>7 DEF Balance
    <2> QED BY <2>1, <2>2
  <1> QED BY <1>3, <1>4, <1>5

\* The outcome write, and the end of its job: what the job leaves pending was
\* the row's to claim again already.
LEMMA RecordBalance ==
    ASSUME PaidFor, NEW j \in jobs, RecordSendOutcome(j)
    PROVE  Balanced'
  <1> SUFFICES ASSUME NEW e \in Emails, NEW g \in Groups
               PROVE  Balance(e, g)'
    BY DEF Balanced
  <1>t. Fenced /\ TypeOK /\ j.email \in Emails
    BY DEF PaidFor, Committed, Recorded, Fenced, TypeOK, Job
  <1>0. Balance(e, g)
    BY DEF PaidFor, Balanced
  <1>w. /\ Write(j) /\ jobs' = jobs \ {j} /\ UNCHANGED <<proc, wire, interruptions>>
        /\ j.pc = "sending" /\ j.todo = {}
    BY DEF RecordSendOutcome, ReadyToRecord
  <1>1. /\ HeldBy(j) => /\ row'[j.email].status = OutcomeStatus(j)
                        /\ row'[j.email].delivery = OutcomeDelivery(j)
        /\ ~HeldBy(j) => row' = row
        /\ \A x \in Emails : x # j.email => row'[x] = row[x]
    BY <1>t, <1>w, ReleaseFields DEF Write
  <1>2. /\ IsFiniteSet(Deliverers(e, g)')
        /\ Cardinality(Deliverers(e, g)') <= Cardinality(Deliverers(e, g))
    BY <1>t, <1>w, <1>0, DeliverersStay
  <1>3. CASE e # j.email
    <2>1. Loose(e, g)' => Loose(e, g)
      BY <1>w, <1>1, <1>3, LooseStays
    <2> QED BY <1>t, <1>w, <1>0, <1>2, <2>1, Uninterrupted
  <1>4. CASE e = j.email /\ ~HeldBy(j)
    <2>1. \A i : Firm(i)' <=> Firm(i)
      BY <1>w, <1>1, <1>4 DEF Firm, HeldBy
    <2>2. ~Firm(j)
      BY <1>4 DEF Firm
    <2>3. \A i \in jobs : i.email = e /\ Firm(i) => \E k \in jobs' : k.email = e /\ Firm(k)'
      BY <1>w, <2>1, <2>2
    <2>4. \A k \in jobs' : k.email = e /\ Firm(k)' /\ k.state[g] \in Owing /\ ~MayDeliver(k, g)
             => Loose(e, g)
      BY <1>w, <2>1 DEF Loose
    <2>5. Loose(e, g)' => Loose(e, g)
      BY <1>1, <1>4, <2>3, <2>4, LooseKept
    <2> QED BY <1>t, <1>w, <1>0, <1>2, <2>5, Uninterrupted
  <1>5. CASE e = j.email /\ HeldBy(j)
    <2>1. ASSUME Loose(e, g)'
          PROVE  Loose(e, g)
      <3>1. OutcomeStatus(j) \in FinalStatuses \cup {"queued"}
        BY DEF OutcomeStatus, FinalStatus, FinalStatuses
      <3>2. OutcomeStatus(j) = "queued" /\ OutcomeDelivery(j)[g] \in Owing
        BY <1>1, <1>5, <2>1, <3>1, StatusLoose DEF FinalStatuses
      <3>3. OutcomeDelivery(j) = j.state
        BY <3>2 DEF OutcomeDelivery, OutcomeStatus, FinalStatus
      <3>4. j.state[g] \in Owing /\ j.prior[g] \in Owing
        BY <3>2, <3>3 DEF PaidFor, Committed, KeepsSettled, Keeps
      <3>5. CASE Firm(j)
        BY <1>w, <1>5, <3>4, <3>5 DEF Loose, MayDeliver
      <3>6. CASE ~Firm(j)
        <4>1. row[e].delivery[g] \in Owing
          BY <1>5, <3>4 DEF PaidFor, HolderOwes
        <4> QED BY <1>t, <1>5, <3>6, <4>1, HolderLoose
      <3> QED BY <3>5, <3>6
    <2> QED BY <1>t, <1>w, <1>0, <1>2, <2>1, Uninterrupted
  <1> QED BY <1>3, <1>4, <1>5

\* A claim takes the row's unit for the job it starts; what it starts on the
\* way to an exit is paid for by the shutdown.
LEMMA ClaimBalance ==
    ASSUME Fenced, Balanced, NEW w \in Workers, NEW S \in SUBSET Emails,
           ClaimNextEmails(w, S) \/ LateClaim(w, S)
    PROVE  Balanced'
  <1> SUFFICES ASSUME NEW e \in Emails, NEW g \in Groups
               PROVE  Balance(e, g)'
    BY DEF Balanced
  <1>t. TypeOK
    BY DEF Fenced
  <1>0. Balance(e, g)
    BY DEF Balanced
  <1>c. Claim(w, S) /\ wire' = wire
    BY DEF ClaimNextEmails, LateClaim, Claim
  <1>i. \/ proc' = proc /\ proc[w] = "up" /\ interruptions' = interruptions
        \/ interruptions' = interruptions + 1
    BY DEF ClaimNextEmails, LateClaim, Interrupt
  <1>1. /\ e \in S => /\ row'[e].attempts = row[e].attempts + 1
                      /\ row'[e].status = "sending" /\ row'[e].lockedBy = w
                      /\ row'[e].lease > 0
        /\ e \notin S => row'[e] = row[e]
    <2>1. row[e] \in Row /\ LeaseTicks > 0
      BY <1>t, LimitAssumption DEF TypeOK
    <2>2. row'[e] = IF e \in S
                    THEN [row[e] EXCEPT !.status = "sending", !.attempts = @ + 1,
                                        !.lockedBy = w, !.lease = LeaseTicks]
                    ELSE row[e]
      BY <1>c DEF Claim
    <2> QED BY <2>1, <2>2 DEF Row
  <1>2. jobs' = jobs \cup {NewJob(w, x) : x \in S}
    BY <1>c DEF Claim
  <1>3. \A x \in S : /\ NewJob(w, x).email = x /\ NewJob(w, x).worker = w
                     /\ NewJob(w, x).attempt = row[x].attempts + 1
                     /\ NewJob(w, x).prior = row[x].delivery
                     /\ NewJob(w, x).state = row[x].delivery
                     /\ NewJob(w, x).todo = {} /\ NewJob(w, x).pc = "claimed"
    BY DEF NewJob
  <1>4. wire[e][g] \in Nat /\ interruptions \in Nat /\ Cardinality(Deliverers(e, g)) \in Nat
    BY <1>t, <1>0, FS_CardinalityType DEF TypeOK, Balance
  <1>5. CASE e \notin S
    <2>1. {k \in jobs' : k.email = e} = {k \in jobs : k.email = e}
      BY <1>2, <1>3, <1>5
    <2>2. Deliverers(e, g)' = Deliverers(e, g)
      BY <2>1 DEF Deliverers, MayDeliver
    <2>3. CASE interruptions' = interruptions + 1
      BY <1>t, <1>0, <1>c, <1>4, <2>2, <2>3, Interrupted DEF Balance
    <2>4. CASE proc' = proc /\ interruptions' = interruptions
      <3>1. Loose(e, g)' => Loose(e, g)
        BY <1>1, <1>5, <2>1, <2>4, LooseStays
      <3> QED BY <1>t, <1>0, <1>c, <1>4, <2>2, <2>4, <3>1, Uninterrupted DEF Balance
    <2> QED BY <1>i, <2>3, <2>4
  <1>6. CASE e \in S
    <2>n. PICK n : n = NewJob(w, e)
      OBVIOUS
    <2>1. /\ n \in jobs' /\ n.email = e /\ n.worker = w /\ n.attempt = row[e].attempts + 1
          /\ n.prior = row[e].delivery /\ n.state = row[e].delivery
          /\ n.todo = {} /\ n.pc = "claimed"
      BY <1>2, <1>3, <1>6, <2>n
    <2>2. \A k \in jobs' : k.email = e => k \in jobs \/ k = n
      BY <1>2, <1>3, <2>n
    <2>3. MayDeliver(n, g) <=> row[e].delivery[g] \in Owing
      BY <2>1 DEF MayDeliver
    <2>4. row[e].delivery[g] \in Owing => Loose(e, g)
      <3>1. Due(e)
        BY <1>c, <1>6 DEF Claim
      <3>2. CASE row[e].status = "queued"
        BY <3>2 DEF Loose
      <3>3. CASE row[e].status = "sending" /\ row[e].lease = 0
        BY <3>3 DEF Loose, Firm
      <3> QED BY <3>1, <3>2, <3>3 DEF Due
    <2>5. Deliverers(e, g)' \subseteq Deliverers(e, g) \cup {n}
      BY <2>2 DEF Deliverers
    <2>6. ~MayDeliver(n, g) => Deliverers(e, g)' \subseteq Deliverers(e, g)
      BY <2>2 DEF Deliverers
    <2>7. /\ IsFiniteSet(Deliverers(e, g)')
          /\ Cardinality(Deliverers(e, g)') <= Cardinality(Deliverers(e, g)) + 1
          /\ ~MayDeliver(n, g) => Cardinality(Deliverers(e, g)') <= Cardinality(Deliverers(e, g))
      BY <1>0, <2>5, <2>6, Cardinalities DEF Balance
    <2>8. Cardinality(Deliverers(e, g)') \in Nat
      BY <2>7, FS_CardinalityType
    <2>9. CASE interruptions' = interruptions + 1
      BY <1>0, <1>c, <1>4, <2>3, <2>4, <2>7, <2>8, <2>9 DEF Balance
    <2>10. CASE proc' = proc /\ proc[w] = "up" /\ interruptions' = interruptions
      <3>1. Firm(n)'
        BY <1>1, <1>6, <2>1, <2>10 DEF Firm, HeldBy
      <3>2. \A k \in jobs : k.email = e => ~HeldBy(k)'
        <4>1. \A k \in jobs : k.email = e => k.attempt <= row[e].attempts /\ k.attempt \in Nat
          BY <1>t DEF Fenced, TokensBounded, TypeOK, Job
        <4>2. row[e].attempts \in Nat
          BY <1>t DEF TypeOK, Row
        <4> QED BY <1>1, <1>6, <4>1, <4>2 DEF HeldBy
      <3>3. n.state[g] \in Owing => MayDeliver(n, g)
        BY <2>1, <2>3
      <3>4. \A k \in jobs' : k.email = e /\ Firm(k)' => k = n
        BY <2>2, <3>2 DEF Firm
      <3>5. ~Loose(e, g)'
        <4>1. row'[e].status = "sending"
          BY <1>1, <1>6
        <4>2. \E k \in jobs' : k.email = e /\ Firm(k)'
          BY <2>1, <3>1
        <4>3. ~\E k \in jobs' : /\ k.email = e /\ Firm(k)' /\ k.state[g] \in Owing
                                /\ ~MayDeliver(k, g)
          BY <3>3, <3>4
        <4> QED BY <4>1, <4>2, <4>3 DEF Loose, MayDeliver
      <3> QED BY <1>0, <1>c, <1>4, <2>3, <2>4, <2>7, <2>8, <2>10, <3>5 DEF Balance
    <2> QED BY <1>i, <2>9, <2>10
  <1> QED BY <1>5, <1>6

\* Any other step that is an interruption pays for what it frees.
LEMMA InterruptedBalance ==
    ASSUME TypeOK, Balanced, interruptions' = interruptions + 1, wire' = wire,
           \/ jobs' \subseteq jobs
           \/ \E j \in jobs : \E k : jobs' = (jobs \ {j}) \cup {k} /\ Successor(j, k)
    PROVE  Balanced'
  <1> SUFFICES ASSUME NEW e \in Emails, NEW g \in Groups
               PROVE  Balance(e, g)'
    BY DEF Balanced
  <1>0. Balance(e, g)
    BY DEF Balanced
  <1>1. /\ IsFiniteSet(Deliverers(e, g)')
        /\ Cardinality(Deliverers(e, g)') <= Cardinality(Deliverers(e, g))
    BY <1>0, DeliverersStay
  <1> QED BY <1>0, <1>1, Interrupted

\* A step that only ends jobs, none of them firm, and keeps the firm ones firm.
LEMMA QuietBalance ==
    ASSUME TypeOK, Balanced, UNCHANGED <<wire, interruptions>>, jobs' \subseteq jobs,
           \A e \in Emails : /\ row'[e].delivery = row[e].delivery
                             /\ row'[e].status \in {row[e].status, "purged"},
           \A j \in jobs : row'[j.email].status # "purged" =>
               ((j \in jobs' /\ Firm(j)') <=> Firm(j))
    PROVE  Balanced'
  <1> SUFFICES ASSUME NEW e \in Emails, NEW g \in Groups
               PROVE  Balance(e, g)'
    BY DEF Balanced
  <1>0. Balance(e, g)
    BY DEF Balanced
  <1>1. /\ IsFiniteSet(Deliverers(e, g)')
        /\ Cardinality(Deliverers(e, g)') <= Cardinality(Deliverers(e, g))
    BY <1>0, DeliverersStay
  <1>2. Loose(e, g)' => Loose(e, g)
    <2>1. CASE row'[e].status = "purged"
      BY <2>1, StatusLoose
    <2>2. CASE row'[e].status # "purged"
      <3>1. \A j \in jobs : j.email = e /\ Firm(j) => \E k \in jobs' : k.email = e /\ Firm(k)'
        BY <2>2
      <3>2. \A k \in jobs' : k.email = e /\ Firm(k)' /\ k.state[g] \in Owing /\ ~MayDeliver(k, g)
               => Loose(e, g)
        BY <2>2 DEF Loose
      <3> QED BY <2>2, <3>1, <3>2, LooseKept
    <2> QED BY <2>1, <2>2
  <1> QED BY <1>0, <1>1, <1>2, Uninterrupted

\* A renewed lease frees nothing.
LEMMA RenewBalance ==
    ASSUME PaidFor, NEW j \in jobs, RenewLease(j)
    PROVE  Balanced'
  <1> SUFFICES ASSUME NEW e \in Emails, NEW g \in Groups
               PROVE  Balance(e, g)'
    BY DEF Balanced
  <1>t. Fenced /\ TypeOK /\ j.email \in Emails
    BY DEF PaidFor, Committed, Recorded, Fenced, TypeOK, Job
  <1>0. Balance(e, g)
    BY DEF PaidFor, Balanced
  <1>w. UNCHANGED <<jobs, proc, wire, interruptions>>
    BY DEF RenewLease
  <1>1. \A x \in Emails :
          /\ row'[x].status = row[x].status /\ row'[x].delivery = row[x].delivery
          /\ row'[x].lockedBy = row[x].lockedBy /\ row'[x].attempts = row[x].attempts
          /\ row[x].lease > 0 => row'[x].lease > 0
    BY <1>t, LimitAssumption DEF TypeOK, Row, RenewLease
  <1>2. \A i \in jobs : i.email = e => (HeldBy(i)' <=> HeldBy(i)) /\ (Firm(i) => Firm(i)')
    BY <1>w, <1>1 DEF Firm, HeldBy
  <1>3. \A i \in jobs : i.email = e /\ Firm(i) => \E k \in jobs' : k.email = e /\ Firm(k)'
    BY <1>w, <1>2
  <1>4. ASSUME NEW k \in jobs', k.email = e, Firm(k)', k.state[g] \in Owing, ~MayDeliver(k, g)
        PROVE  Loose(e, g)
    <2>1. k \in jobs /\ HeldBy(k)
      BY <1>w, <1>2, <1>4 DEF Firm
    <2>2. CASE Firm(k)
      BY <1>4, <2>1, <2>2 DEF Loose
    <2>3. CASE ~Firm(k)
      <3>1. k.prior[g] \in Owing
        BY <1>4, <2>1 DEF PaidFor, Committed, KeepsSettled, Keeps
      <3>2. row[e].delivery[g] \in Owing
        BY <1>4, <2>1, <3>1 DEF PaidFor, HolderOwes
      <3> QED BY <1>t, <1>4, <2>1, <2>3, <3>2, HolderLoose
    <2> QED BY <2>2, <2>3
  <1>5. Loose(e, g)' => Loose(e, g)
    BY <1>1, <1>3, <1>4, LooseKept
  <1>6. /\ IsFiniteSet(Deliverers(e, g)')
        /\ Cardinality(Deliverers(e, g)') <= Cardinality(Deliverers(e, g))
    BY <1>t, <1>w, <1>0, DeliverersStay
  <1> QED BY <1>t, <1>w, <1>0, <1>5, <1>6, Uninterrupted

\* Time frees a row under a live claim only as an interruption.
LEMMA TickBalance ==
    ASSUME TypeOK, Balanced, Tick
    PROVE  Balanced'
  <1>w. UNCHANGED <<jobs, proc, wire>>
    BY DEF Tick
  <1>1. CASE Lapses
    <2>1. interruptions' = interruptions + 1
      BY <1>1 DEF Tick, Interrupt
    <2> QED BY <1>w, <2>1, InterruptedBalance
  <1>2. CASE ~Lapses
    <2>1. \A e \in Emails :
            /\ row'[e].status = row[e].status /\ row'[e].delivery = row[e].delivery
            /\ row'[e].lockedBy = row[e].lockedBy /\ row'[e].attempts = row[e].attempts
            /\ row'[e].lease = Less(row[e].lease) /\ row[e].lease \in Nat
      BY DEF TypeOK, Row, Tick, Aged
    <2>2. ASSUME NEW j \in jobs
          PROVE  (j \in jobs' /\ Firm(j)') <=> Firm(j)
      <3>1. j.email \in Emails /\ j \in jobs'
        BY <1>w DEF TypeOK, Job
      <3>2. HeldBy(j)' <=> HeldBy(j)
        BY <2>1, <3>1 DEF HeldBy
      <3>3. HeldBy(j) => row[j.email].lease # 1
        BY <1>2 DEF Lapses
      <3>4. HeldBy(j) => (row'[j.email].lease > 0 <=> row[j.email].lease > 0)
        BY <2>1, <3>1, <3>3 DEF Less
      <3> QED BY <1>w, <3>1, <3>2, <3>4 DEF Firm
    <2>3. interruptions' = interruptions
      BY <1>2 DEF Tick
    <2> QED BY <1>w, <2>1, <2>2, <2>3, QuietBalance
  <1> QED BY <1>1, <1>2

\* Every step keeps the balance.
LEMMA NextBalanced ==
    ASSUME PaidFor, [Next]_vars
    PROVE  Balanced'
  <1>t. TypeOK /\ Fenced /\ Balanced /\ HolderOwes
    BY DEF PaidFor, Committed, Recorded, Fenced
  <1>1. ASSUME NEW j \in jobs, JobStep(j)
        PROVE  Balanced'
    <2>1. CASE FailRevoked(j)
      BY <1>t, <2>1, UnsentBalance DEF FailRevoked, FinalStatuses
    <2>2. CASE HoldForDkimKey(j)
      BY <1>t, <2>2, UnsentBalance DEF HoldForDkimKey, FailWithEvent, FinalStatuses
    <2>3. CASE FailOnError(j) \/ AbandonClaim(j)
      BY <1>t, <2>3, InterruptedBalance DEF FailOnError, AbandonClaim, Interrupt
    <2>4. CASE RecordRolledBack(j) \/ RecordAnswerLost(j)
      <3>1. /\ AfterFailedWrite(j) /\ interruptions' = interruptions + 1 /\ wire' = wire
        BY <2>4 DEF RecordRolledBack, RecordAnswerLost, Interrupt
      <3>2. \/ jobs' \subseteq jobs
            \/ \E k : jobs' = (jobs \ {j}) \cup {k} /\ Successor(j, k)
        BY <1>t, <3>1, FailedWriteStage
      <3> QED BY <1>t, <3>1, <3>2, InterruptedBalance
    <2> QED BY <1>t, <1>1, <2>1, <2>2, <2>3, <2>4, RenewBalance, BeginBalance, DeliverBalance,
               DeferBalance, RecordBalance
        DEF JobStep
  <1>2. ASSUME NEW w \in Workers, ProcStep(w)
        PROVE  Balanced'
    <2>1. CASE Shutdown(w) \/ Crash(w)
      BY <1>t, <2>1, InterruptedBalance DEF Shutdown, Crash, Interrupt
    <2>2. CASE Exit(w)
      <3>1. ASSUME NEW j \in jobs
            PROVE  (j \in jobs' /\ Firm(j)') <=> Firm(j)
        <4>0. j.worker \in Workers
          BY <1>t DEF TypeOK, Job
        <4>1. CASE j.worker = w
          BY <2>2, <4>1 DEF Exit, JobsOf, Firm
        <4>2. CASE j.worker # w
          <5>1. j \in jobs' /\ row' = row /\ proc'[j.worker] = proc[j.worker]
            BY <1>t, <2>2, <4>0, <4>2 DEF Exit, JobsOf, TypeOK
          <5> QED BY <5>1 DEF Firm, HeldBy
        <4> QED BY <4>1, <4>2
      <3>2. UNCHANGED <<row, wire, interruptions>> /\ jobs' \subseteq jobs
        BY <2>2 DEF Exit
      <3> QED BY <1>t, <3>1, <3>2, QuietBalance
    <2> QED BY <1>t, <1>2, <2>1, <2>2, ClaimBalance DEF ProcStep
  <1>q. ASSUME UNCHANGED <<jobs, proc, wire, interruptions>>,
               \A e \in Emails : /\ row'[e].delivery = row[e].delivery
                                 /\ \/ row'[e].status = "purged"
                                    \/ /\ row'[e].status = row[e].status
                                       /\ row'[e].lockedBy = row[e].lockedBy
                                       /\ row'[e].attempts = row[e].attempts
                                       /\ row'[e].lease = row[e].lease
        PROVE  Balanced'
    <2>1. ASSUME NEW j \in jobs, row'[j.email].status # "purged"
          PROVE  (j \in jobs' /\ Firm(j)') <=> Firm(j)
      <3>1. j.email \in Emails
        BY <1>t DEF TypeOK, Job
      <3> QED BY <1>q, <2>1, <3>1 DEF Firm, HeldBy
    <2> QED BY <1>t, <1>q, <2>1, QuietBalance
  <1>3. CASE EnvStep
    <2>1. ASSUME NEW x \in Emails, NEW flag \in BOOLEAN, SetTrashed(x, flag)
          PROVE  Balanced'
      <3>1. \A e \in Emails : /\ row'[e].delivery = row[e].delivery
                              /\ row'[e].status = row[e].status
                              /\ row'[e].lockedBy = row[e].lockedBy
                              /\ row'[e].attempts = row[e].attempts
                              /\ row'[e].lease = row[e].lease
        BY <1>t, <2>1 DEF TypeOK, Row, SetTrashed
      <3> QED BY <1>q, <2>1, <3>1 DEF SetTrashed
    <2>2. ASSUME NEW x \in Emails, DeleteEmail(x)
          PROVE  Balanced'
      <3>1. /\ row'[x].status = "purged" /\ row'[x].delivery = row[x].delivery
            /\ \A e \in Emails : e # x => row'[e] = row[e]
        BY <1>t, <2>2 DEF TypeOK, Row, DeleteEmail, Released
      <3> QED BY <1>q, <2>2, <3>1 DEF DeleteEmail
    <2>3. CASE RevokeKey
      BY <1>q, <2>3 DEF RevokeKey
    <2>4. ASSUME NEW g \in Groups, Suppress(g)
          PROVE  Balanced'
      BY <1>q, <2>4 DEF Suppress
    <2>5. CASE Tick
      BY <1>t, <2>5, TickBalance
    <2> QED BY <1>3, <2>1, <2>2, <2>3, <2>4, <2>5 DEF EnvStep, TrashEmail, RestoreEmail
  <1>4. CASE UNCHANGED vars
    BY <1>q, <1>4 DEF vars
  <1> QED BY <1>1, <1>2, <1>3, <1>4 DEF Next

\* At the start every row is due, for every group, once.
LEMMA InitPaidFor == Init => PaidFor
  <1> SUFFICES ASSUME Init
               PROVE  PaidFor
    OBVIOUS
  <1>1. Committed /\ HolderOwes
    BY InitCommitted DEF Init, HolderOwes
  <1>2. ASSUME NEW e \in Emails, NEW g \in Groups
        PROVE  Balance(e, g)
    <2>1. Deliverers(e, g) = {} /\ wire[e][g] = 0 /\ interruptions = 0
      BY DEF Init, Deliverers
    <2>2. IsFiniteSet(Deliverers(e, g)) /\ Cardinality(Deliverers(e, g)) = 0
      BY <2>1, FS_EmptySet
    <2> QED BY <2>1, <2>2 DEF Balance
  <1> QED BY <1>1, <1>2 DEF PaidFor, Balanced

\* Nothing but an interruption makes a recipient get a message again: for any
\* number of emails, processes and retries, the receiver accepts it at most once
\* more than there were crashes, shutdowns, lapsed leases, failed writes and
\* lost answers.
THEOREM DuplicatesNeedInterruptions ==
    ASSUME ~DeferralAckLoss PROVE Spec => []DuplicatesArePaidFor
  <1>1. PaidFor /\ [Next]_vars => PaidFor'
    <2> SUFFICES ASSUME PaidFor, [Next]_vars
                 PROVE  PaidFor'
      OBVIOUS
    <2>1. Committed'
      BY NextCommitted DEF PaidFor
    <2>2. HolderOwes'
      BY NextOwes DEF PaidFor, Committed, Recorded
    <2>3. Balanced'
      BY NextBalanced
    <2> QED BY <2>1, <2>2, <2>3 DEF PaidFor
  <1>2. PaidFor => DuplicatesArePaidFor
    <2> SUFFICES ASSUME PaidFor, NEW e \in Emails, NEW g \in Groups
                 PROVE  wire[e][g] <= 1 + interruptions
      BY DEF DuplicatesArePaidFor
    <2>1. Balance(e, g) /\ wire[e][g] \in Nat /\ interruptions \in Nat
      BY DEF PaidFor, Balanced, Committed, Recorded, Fenced, TypeOK
    <2>2. Cardinality(Deliverers(e, g)) \in Nat
      BY <2>1, FS_CardinalityType DEF Balance
    <2> QED BY <2>1, <2>2 DEF Balance
  <1> QED BY <1>1, <1>2, InitPaidFor, PTL DEF Spec
=============================================================================
