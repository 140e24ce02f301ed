----------------------------- MODULE TlsReports -----------------------------
(***************************************************************************)
(* The TLS-RPT report job: runs of the replicas claim the reports of past  *)
(* days one at a time, send each to the reporting addresses of its domain, *)
(* and keep the daily caps (tls-rpt-job, -deliver and -store services).    *)
(* A lease outlives a live send (3 h against minutes), so a lease or a     *)
(* deferral of a report in a worker's hands does not end before the worker *)
(* lets it go; a worker that died leaves its report to the lease.          *)
(***************************************************************************)
EXTENDS Integers, Sequences, FiniteSets, FiniteSetsExt

CONSTANTS
    Reports,            \* rows: one domain, one past day
    RuaOf,              \* report -> the addresses its domain publishes, in order
    Mailtos,            \* the addresses that are mailboxes; the others are URLs
    DestinationOf,      \* address -> mailbox or URL origin
    Jobs,               \* replicas, one run each at a time
    JobWorkers,         \* workers of all runs (SEND_CONCURRENCY per run)
    JobOf,              \* worker -> replica
    PerDay,             \* TLSRPT_MAX_REPORTS_PER_DAY
    PerDestination,     \* TLSRPT_MAX_REPORTS_PER_DESTINATION_PER_DAY
    MaxTlsAttempts,     \* MAX_SEND_ATTEMPTS
    Retention,          \* RETENTION_DAYS; the reports are of day 0
    TlsDays,            \* bound: UTC days, from 1
    MaxTlsRuns,         \* bound: runs started
    MaxTlsFaults        \* bound: what does not go as it should

NoReport == "no report"
Listed(r) == {RuaOf[r][i] : i \in 1..Len(RuaOf[r])}
Ruas == UNION {Listed(r) : r \in Reports}
Destinations == {DestinationOf[u] : u \in Ruas}

ASSUME TlsConstants ==
    /\ JobOf \in [JobWorkers -> Jobs]
    /\ {PerDay, PerDestination, MaxTlsAttempts} \subseteq Nat \ {0}
    /\ TlsDays \subseteq Nat /\ 1 \in TlsDays
    /\ IsFiniteSet(Reports) /\ NoReport \notin Reports
    /\ \A r \in Reports : RuaOf[r] \in Seq(Listed(r))

VARIABLES
    today,
    tlsRow,     \* report -> its row
    daySends,   \* day -> tlsrpt_daily_sends.sent
    destSends,  \* [day, destination] -> tlsrpt_destination_sends.sent
    run,        \* replica -> its run
    worker,     \* worker -> what it has in hand
    tlsRuns, tlsFaults,
    got,        \* [report, address] -> times it was delivered
    settled,    \* [report, address]: suppressed, or skipped without a sender
    tries,      \* report -> attempts that failed, or died with their worker
    lost,       \* report -> deaths of a worker that had delivered something
    gone,       \* report -> why its row was deleted
    taken,      \* slots taken and not given back: per day, and destination
    strays      \* slots of an earlier day given back to a day, and destination

tlsVars == <<today, tlsRow, daySends, destSends, run, worker, tlsRuns, tlsFaults,
             got, settled, tries, lost, gone, taken, strays>>
ledger == <<got, settled, tries, lost, gone>>
counters == <<daySends, destSends, taken, strays>>

\* A report's row: due, leased or waiting for a retry, and not before a day.
FreshRow == [wait |-> "due", from |-> 1, attempts |-> 0, done |-> {}]
NoTlsReport == [wait |-> "none", from |-> 1, attempts |-> 0, done |-> {}]
IdleWorker == [at |-> "idle", report |-> NoReport, rua |-> "none", on |-> 0, met |-> 0,
               done |-> {}, failures |-> 0, waiting |-> 0, sent |-> {}]
NoRun == [at |-> "idle", halted |-> FALSE, capped |-> FALSE, late |-> FALSE]

Held(r) == \E w \in JobWorkers : worker[w].report = r
ReportExists(r) == tlsRow[r].wait # "none"
Update(r, new) == tlsRow' = IF ReportExists(r) THEN [tlsRow EXCEPT ![r] = new] ELSE tlsRow
LetGo(w) == worker' = [worker EXCEPT ![w] = IdleWorker]
Remove(r, why) ==
    /\ tlsRow' = [tlsRow EXCEPT ![r] = NoTlsReport]
    /\ gone' = IF ReportExists(r) THEN [gone EXCEPT ![r] = why] ELSE gone
TlsFault == tlsFaults < MaxTlsFaults /\ tlsFaults' = tlsFaults + 1

(***************************************************************************)
(* The daily caps.                                                         *)
(***************************************************************************)

\* dailySendCapReached.
DailySendCapReached == daySends[today] >= PerDay

\* Mutant: the daily counter is compared one late.
ReserveOneMore(dest) ==
    IF destSends[<<today, dest>>] >= PerDestination THEN "destination-cap"
    ELSE IF daySends[today] > PerDay THEN "daily-cap"
    ELSE "reserved"

\* reserveSend: a slot of the destination, then of the day, in one transaction.
ReserveSend(dest) ==
    IF destSends[<<today, dest>>] >= PerDestination THEN "destination-cap"
    ELSE IF DailySendCapReached THEN "daily-cap"
    ELSE "reserved"

Lower(n) == IF n > 0 THEN n - 1 ELSE 0

\* releaseSend gives the slots back to today, whichever day they were taken.
ReleaseSend(dest, on) ==
    /\ daySends' = [daySends EXCEPT ![today] = Lower(@)]
    /\ destSends' = [destSends EXCEPT ![<<today, dest>>] = Lower(@)]
    /\ taken' = [taken EXCEPT ![<<on, dest>>] = @ - 1]
    /\ strays' = IF on = today THEN strays ELSE [strays EXCEPT ![<<today, dest>>] = @ + 1]

(***************************************************************************)
(* The rows a worker leaves behind.                                        *)
(***************************************************************************)

\* deferReport and releaseReport give the claim's attempt back.
GivenBack(old, wait, day, done) ==
    [wait |-> wait, from |-> day, attempts |-> Lower(old.attempts), done |-> done]

\* Mutant: the addresses already served are not recorded.
RescheduledForgetful(old, done) == [old EXCEPT !.wait = "backoff"]

\* rescheduleReport.
Rescheduled(old, done) == [old EXCEPT !.wait = "backoff", !.done = done]

\* retryOrDrop, with the row as it was claimed.
RetryOrDrop(r, done) ==
    /\ IF tlsRow[r].attempts >= MaxTlsAttempts
       THEN Remove(r, "dropped")
       ELSE Update(r, Rescheduled(tlsRow[r], done)) /\ UNCHANGED gone
    /\ tries' = [tries EXCEPT ![r] = @ + 1]

(***************************************************************************)
(* A run.                                                                  *)
(***************************************************************************)

\* runTlsRptCycle deletes the expired reports first; a worker of another run
\* may have one in hand.
StartRun(p) ==
    LET expired == {r \in Reports : ReportExists(r) /\ 0 < today - Retention} IN
    /\ run[p].at = "idle"
    /\ tlsRuns < MaxTlsRuns
    /\ tlsRuns' = tlsRuns + 1
    /\ run' = [run EXCEPT ![p].at = "started"]
    /\ tlsRow' = [r \in Reports |-> IF r \in expired THEN NoTlsReport ELSE tlsRow[r]]
    /\ gone' = [r \in Reports |-> IF r \in expired THEN "expired" ELSE gone[r]]
    /\ UNCHANGED <<today, worker, tlsFaults, got, settled, tries, lost, counters>>

\* Then it checks the cap.
CheckCap(p) ==
    /\ run[p].at = "started"
    /\ run' = [run EXCEPT ![p].at = IF DailySendCapReached THEN "capping" ELSE "delivering"]
    /\ UNCHANGED <<today, tlsRow, worker, tlsRuns, tlsFaults, ledger, counters>>

\* The run's time budget is over.
BudgetEnds(p) ==
    /\ run[p].at = "delivering"
    /\ ~run[p].late
    /\ run' = [run EXCEPT ![p].late = TRUE]
    /\ UNCHANGED <<today, tlsRow, worker, tlsRuns, tlsFaults, ledger, counters>>

\* A worker's loop: claimDueReports(1) leases the row and counts the attempt.
ClaimOne(w, r) ==
    LET p == JobOf[w] IN
    /\ worker[w] = IdleWorker
    /\ run[p].at = "delivering" /\ ~run[p].halted /\ ~run[p].late
    /\ tlsRow[r].wait = "due" /\ tlsRow[r].from <= today
    /\ tlsRow' = [tlsRow EXCEPT ![r].wait = "lease", ![r].attempts = @ + 1]
    /\ worker' = [worker EXCEPT ![w] = [IdleWorker EXCEPT !.at = "lookup", !.report = r,
                                                          !.done = tlsRow[r].done]]
    /\ UNCHANGED <<today, run, tlsRuns, tlsFaults, ledger, counters>>

\* Nothing is due: the run's workers stop after what they have in hand.
ClaimNone(p) ==
    /\ run[p].at = "delivering" /\ ~run[p].halted
    /\ \A r \in Reports : ~(tlsRow[r].wait = "due" /\ tlsRow[r].from <= today)
    /\ run' = [run EXCEPT ![p].halted = TRUE]
    /\ UNCHANGED <<today, tlsRow, worker, tlsRuns, tlsFaults, ledger, counters>>

\* The workers have stopped: a capped run defers what is left.
RunEnds(p) ==
    LET old == run[p] IN
    /\ old.at = "delivering"
    /\ old.halted \/ old.late
    /\ \A w \in JobWorkers : JobOf[w] = p => worker[w] = IdleWorker
    /\ run' = [run EXCEPT ![p] = IF old.capped THEN [old EXCEPT !.at = "capping"] ELSE NoRun]
    /\ UNCHANGED <<today, tlsRow, worker, tlsRuns, tlsFaults, ledger, counters>>

\* onDailyCap: deferUnsentReports moves every row due before midnight, also
\* one another worker has in hand; the warning is logged once a day.
DeferUnsentReports(p) ==
    /\ run[p].at = "capping"
    /\ \E deferred \in SUBSET {r \in Reports : tlsRow[r].wait \in {"lease", "backoff"}} :
          tlsRow' = [r \in Reports |->
                    IF tlsRow[r].wait = "due" /\ tlsRow[r].from <= today
                    THEN [tlsRow[r] EXCEPT !.from = today + 1]
                    ELSE IF r \in deferred
                    THEN [tlsRow[r] EXCEPT !.from = today + 1,
                                        !.wait = IF Held(r) THEN "lease" ELSE "due"]
                    ELSE tlsRow[r]]
    /\ run' = [run EXCEPT ![p] = NoRun]
    /\ UNCHANGED <<today, worker, tlsRuns, tlsFaults, ledger, counters>>

(***************************************************************************)
(* deliverReport.                                                          *)
(***************************************************************************)

\* The record is looked up again, without the cache; without a record, a
\* result or a report of a size to send, the row is deleted.
LookupRecord(w) ==
    LET r == worker[w].report IN
    /\ worker[w].at = "lookup"
    /\ \/ /\ worker' = [worker EXCEPT ![w].at = "next"]
          /\ UNCHANGED <<tlsRow, tlsFaults, gone, tries>>
       \/ /\ TlsFault
          /\ Remove(r, "no record")
          /\ LetGo(w)
          /\ UNCHANGED tries
       \/ /\ TlsFault
          /\ RetryOrDrop(r, worker[w].done)
          /\ LetGo(w)
    /\ UNCHANGED <<today, run, tlsRuns, got, settled, lost, counters>>

\* The loop over the record's addresses passes over those already done.
RuasAhead(w) == {i \in 1..Len(RuaOf[worker[w].report]) :
                    i > worker[w].met /\ RuaOf[worker[w].report][i] \notin worker[w].done}
NextRua(w) == RuaOf[worker[w].report][Min(RuasAhead(w))]

\* The next address, past the time budget: the claim is handed back.
ReleaseReport(w) ==
    LET r == worker[w].report
        p == JobOf[w]
    IN  /\ worker[w].at = "next" /\ RuasAhead(w) # {}
        /\ run[p].late
        /\ Update(r, GivenBack(tlsRow[r], "due", 1, worker[w].done))
        /\ LetGo(w)
        /\ run' = [run EXCEPT ![p].halted = TRUE]
        /\ UNCHANGED <<today, tlsRuns, tlsFaults, ledger, counters>>

\* A suppressed mailbox gets nothing.
SkipSuppressed(w) ==
    LET r == worker[w].report
        u == NextRua(w)
    IN
    /\ worker[w].at = "next" /\ RuasAhead(w) # {}
    /\ u \in Mailtos
    /\ ~run[JobOf[w]].late
    /\ TlsFault
    /\ worker' = [worker EXCEPT ![w].met = Min(RuasAhead(w)), ![w].done = @ \cup {u}]
    /\ settled' = [settled EXCEPT ![<<r, u>>] = TRUE]
    /\ UNCHANGED <<today, tlsRow, run, tlsRuns, got, tries, lost, gone, counters>>

\* An address whose destination's cap is reached waits.
AwaitSlot(w) ==
    worker' = [worker EXCEPT ![w].met = Min(RuasAhead(w)), ![w].waiting = @ + 1]

\* The slots are taken before the delivery is tried.
Reserve(w) ==
    LET r == worker[w].report
        u == NextRua(w)
        dest == DestinationOf[u]
        slot == ReserveSend(dest)
    IN  /\ worker[w].at = "next" /\ RuasAhead(w) # {}
        /\ ~run[JobOf[w]].late
        /\ \/ /\ slot = "reserved"
              /\ daySends' = [daySends EXCEPT ![today] = @ + 1]
              /\ destSends' = [destSends EXCEPT ![<<today, dest>>] = @ + 1]
              /\ taken' = [taken EXCEPT ![<<today, dest>>] = @ + 1]
              /\ worker' = [worker EXCEPT ![w].at = "sending", ![w].rua = u, ![w].on = today,
                                          ![w].met = Min(RuasAhead(w))]
              /\ UNCHANGED <<tlsRow, run, strays>>
           \/ /\ slot = "destination-cap"
              /\ AwaitSlot(w)
              /\ UNCHANGED <<tlsRow, run, counters>>
           \/ /\ slot = "daily-cap"
              /\ Update(r, GivenBack(tlsRow[r], "due", today + 1, worker[w].done))
              /\ LetGo(w)
              /\ run' = [run EXCEPT ![JobOf[w]].halted = TRUE, ![JobOf[w]].capped = TRUE]
              /\ UNCHANGED counters
        /\ UNCHANGED <<today, tlsRuns, tlsFaults, ledger>>

\* mailReport or postReport answers: sent; failed, its slots kept; or skipped
\* for want of a mail sender, its slots given back.
Delivered(w) ==
    LET r == worker[w].report
        u == worker[w].rua
    IN  /\ worker[w].at = "sending"
        /\ worker' = [worker EXCEPT ![w].at = "next", ![w].done = @ \cup {u},
                                    ![w].sent = @ \cup {u}]
        /\ got' = [got EXCEPT ![<<r, u>>] = @ + 1]
        /\ UNCHANGED <<today, tlsRow, run, tlsRuns, tlsFaults, settled, tries, lost, gone, counters>>
NotDelivered(w) ==
    /\ worker[w].at = "sending"
    /\ TlsFault
    /\ worker' = [worker EXCEPT ![w].at = "next", ![w].failures = @ + 1]
    /\ UNCHANGED <<today, tlsRow, run, tlsRuns, ledger, counters>>
Skipped(w) ==
    LET r == worker[w].report
        u == worker[w].rua
    IN  /\ worker[w].at = "sending" /\ u \in Mailtos
        /\ TlsFault
        /\ worker' = [worker EXCEPT ![w].at = "next", ![w].done = @ \cup {u}]
        /\ settled' = [settled EXCEPT ![<<r, u>>] = TRUE]
        /\ ReleaseSend(DestinationOf[u], worker[w].on)
        /\ UNCHANGED <<today, tlsRow, run, tlsRuns, got, tries, lost, gone>>

\* Every address was met: retried, deferred for the ones that wait, or done.
FinishReport(w) ==
    LET r == worker[w].report IN
    /\ worker[w].at = "next" /\ RuasAhead(w) = {}
    /\ \/ /\ worker[w].failures > 0
          /\ RetryOrDrop(r, worker[w].done)
       \/ /\ worker[w].failures = 0 /\ worker[w].waiting > 0
          /\ Update(r, GivenBack(tlsRow[r], "due", today + 1, worker[w].done))
          /\ UNCHANGED <<tries, gone>>
       \/ /\ worker[w].failures = 0 /\ worker[w].waiting = 0
          /\ Remove(r, "served")
          /\ UNCHANGED tries
    /\ LetGo(w)
    /\ UNCHANGED <<today, run, tlsRuns, tlsFaults, got, settled, lost, counters>>

(***************************************************************************)
(* Failures and time.                                                      *)
(***************************************************************************)

\* deliverReport throws, or the replica dies with what it had in hand: the
\* report stays claimed and what was not recorded is forgotten.
HandlingFails(w) ==
    LET r == worker[w].report IN
    /\ r # NoReport
    /\ TlsFault
    /\ LetGo(w)
    /\ tries' = [tries EXCEPT ![r] = @ + 1]
    /\ lost' = IF worker[w].sent = {} THEN lost ELSE [lost EXCEPT ![r] = @ + 1]
    /\ UNCHANGED <<today, tlsRow, run, tlsRuns, got, settled, gone, counters>>

\* A lease that nobody holds and a retry's pause end.
WaitOver(r) ==
    /\ tlsRow[r].wait \in {"lease", "backoff"}
    /\ ~Held(r)
    /\ tlsRow' = [tlsRow EXCEPT ![r].wait = "due"]
    /\ UNCHANGED <<today, run, worker, tlsRuns, tlsFaults, ledger, counters>>

\* Midnight UTC.
NextDay ==
    /\ today + 1 \in TlsDays
    /\ today' = today + 1
    /\ UNCHANGED <<tlsRow, run, worker, tlsRuns, tlsFaults, ledger, counters>>

-----------------------------------------------------------------------------
TlsInit ==
    /\ today = 1
    /\ tlsRow = [r \in Reports |-> FreshRow]
    /\ daySends = [d \in TlsDays |-> 0]
    /\ destSends = [x \in TlsDays \X Destinations |-> 0]
    /\ run = [p \in Jobs |-> NoRun]
    /\ worker = [w \in JobWorkers |-> IdleWorker]
    /\ tlsRuns = 0
    /\ tlsFaults = 0
    /\ got = [x \in Reports \X Ruas |-> 0]
    /\ settled = [x \in Reports \X Ruas |-> FALSE]
    /\ tries = [r \in Reports |-> 0]
    /\ lost = [r \in Reports |-> 0]
    /\ gone = [r \in Reports |-> "no"]
    /\ taken = [x \in TlsDays \X Destinations |-> 0]
    /\ strays = [x \in TlsDays \X Destinations |-> 0]

RunStep(p) ==
    \/ StartRun(p) \/ CheckCap(p) \/ BudgetEnds(p) \/ ClaimNone(p) \/ RunEnds(p) \/ DeferUnsentReports(p)

WorkerStep(w) ==
    \/ \E r \in Reports : ClaimOne(w, r)
    \/ LookupRecord(w)
    \/ ReleaseReport(w)
    \/ SkipSuppressed(w) \/ Reserve(w)
    \/ Delivered(w) \/ NotDelivered(w) \/ Skipped(w)
    \/ FinishReport(w)
    \/ HandlingFails(w)

TlsNext ==
    \/ \E p \in Jobs : RunStep(p)
    \/ \E w \in JobWorkers : WorkerStep(w)
    \/ \E r \in Reports : WaitOver(r)
    \/ NextDay

TlsSpec == TlsInit /\ [][TlsNext]_tlsVars

-----------------------------------------------------------------------------
\* Types; a claimed report is in one worker's hands.
TlsTypeOK ==
    /\ today \in TlsDays
    /\ \A r \in Reports :
          /\ tlsRow[r].wait \in {"none", "due", "lease", "backoff"}
          /\ tlsRow[r].done \subseteq Listed(r)
          /\ Cardinality({w \in JobWorkers : worker[w].report = r}) <= 1
    /\ \A w \in JobWorkers : worker[w].at \in {"idle", "lookup", "next", "sending"}
    /\ \A p \in Jobs : run[p].at \in {"idle", "started", "delivering", "capping"}

\* The slots of a day, over all destinations.
SlotsOn(slots, d) == SumFunctionOnSet([x \in Destinations |-> slots[<<d, x>>]], Destinations)

\* The caps hold for every day and destination, however many workers and
\* replicas take slots at once: a failed delivery keeps its slot, and the only
\* excess is a slot taken before midnight and given back after it.
CapsHold ==
    \A d \in TlsDays :
        /\ SlotsOn(taken, d) <= PerDay + SlotsOn(strays, d)
        /\ \A x \in Destinations : taken[<<d, x>>] <= PerDestination + strays[<<d, x>>]

\* An address gets a report once, however often it is retried, deferred and
\* handed back, except after a worker died between a delivery and its record.
NotTwice ==
    \A r \in Reports : \A u \in Listed(r) : got[<<r, u>>] <= 1 + lost[r]

\* A report's attempts are the ones that failed, and the one in hand: being
\* handed back or held back by a cap costs none, so a report is given up only
\* after as many failures as the schedule has.
AttemptsAreTries ==
    \A r \in Reports :
        /\ ReportExists(r) => tlsRow[r].attempts = tries[r] + (IF Held(r) THEN 1 ELSE 0)
        /\ gone[r] = "dropped" => tries[r] >= MaxTlsAttempts

\* A report that is deleted as finished has reached every address, or the
\* address was suppressed or could not be mailed to.
ServedIsServed ==
    \A r \in Reports :
        gone[r] = "served" => \A u \in Listed(r) : got[<<r, u>>] > 0 \/ settled[<<r, u>>]

\* A report's row tells the truth about it through leases, caps, crashes and
\* retries: who got it, how often it was tried, and why it is gone.
ReportsAreAccounted == TlsTypeOK /\ NotTwice /\ AttemptsAreTries /\ ServedIsServed
=============================================================================
