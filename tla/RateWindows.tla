----------------------------- MODULE RateWindows -----------------------------
(***************************************************************************)
(* Fixed-window counters: sign-in, second-factor, SMTP AUTH, connection,   *)
(* API and DNS-check limits (shared-store.ts, redis-store.ts and their     *)
(* users).  An attempt is counted before it is checked and given back when *)
(* it succeeds; the ticket names the store and the window it was counted   *)
(* in.  The counters are in Redis when a backend is installed, and in the  *)
(* replica's memory when Redis does not answer.                            *)
(***************************************************************************)
EXTENDS Integers, FiniteSets, FiniteSetsExt

CONSTANTS
    Windows,            \* the replicas' memories; Redis is added to them
    Buckets,            \* keys: an address, an account, a session, an API key
    Attempts,
    AttemptSets,        \* the attempts of one behaviour
    LimitOf,            \* per attempt: memory, keys, weights, audit, success
    MaxCount,           \* the limit of a window
    MaxWindowFaults,    \* bound: commands without an answer, closed backends
    MaxWindowEnds       \* bound: windows that end

\* What a success does: "refund" its keys, "clear" them, or "keep" the count.
LimitKinds ==
    [memory  : Windows,
     keys    : SUBSET Buckets,
     weight  : Nat \ {0},
     refused : {0, 1},
     audited : BOOLEAN,
     success : [Buckets -> {"refund", "clear", "keep"}]]

ASSUME WindowConstants ==
    /\ \A a \in Attempts : LimitOf[a] \in LimitKinds
    /\ AttemptSets \subseteq SUBSET Attempts
    /\ IsFiniteSet(Attempts)
    /\ MaxCount \in Nat \ {0}
    /\ "redis" \notin Windows

VARIABLES
    window,         \* [store, key]: count, id and mark, or no window
    ticket,         \* per attempt taken and key: the store and the window id
    attempt,        \* per attempt: where it is
    nextWindow,     \* ids are never used again
    audits,         \* lockout records written: how many per store, key and window id
    attached,       \* replicas with an installed backend
    windowFaults,
    windowEnds

windowVars == <<window, ticket, attempt, nextWindow, audits, attached,
                windowFaults, windowEnds>>

NoWindow == [count |-> 0, id |-> 0, marked |-> FALSE]
NoTicket == [store |-> "none", id |-> 0]
Stores == Windows \cup {"redis"}
MaxId == Cardinality(Attempts)

(***************************************************************************)
(* The counter of one store: w is a function on the keys.                  *)
(***************************************************************************)

\* The keys of a take are limited together.
Limited(w, l) == \E k \in l.keys : w[k].count + l.weight > MaxCount

\* take: every key counts the attempt, or the weight of a refusal; a key
\* without a live window gets a new one.
Take(w, l, id) ==
    LET add == IF Limited(w, l) THEN l.refused ELSE l.weight IN
    [k \in Buckets |->
        IF k \notin l.keys \/ add = 0 THEN w[k]
        ELSE IF w[k] = NoWindow THEN [NoWindow EXCEPT !.count = add, !.id = id]
        ELSE [w[k] EXCEPT !.count = @ + add]]

\* What the attempt gets: per key, the window it was counted in.
Ticket(s, w, l) ==
    [k \in Buckets |-> IF k \in l.keys /\ w[k] # NoWindow THEN [store |-> s, id |-> w[k].id]
                       ELSE NoTicket]

\* Mutant: the window's id is not compared.
RefundAnyWindow(w, k, id) ==
    IF w[k] # NoWindow THEN [w EXCEPT ![k].count = IF @ > 0 THEN @ - 1 ELSE 0] ELSE w

\* refund: only the window the attempt was counted in.
Refund(w, k, id) ==
    IF w[k] # NoWindow /\ w[k].id = id
    THEN [w EXCEPT ![k].count = IF @ > 0 THEN @ - 1 ELSE 0]
    ELSE w

\* delete.
Forget(w, ks) == [k \in Buckets |-> IF k \in ks THEN NoWindow ELSE w[k]]

\* markOnce: TRUE once per window.
MarkOnce(w, k) == IF w[k] = NoWindow THEN w ELSE [w EXCEPT ![k].marked = TRUE]
Marks(w, k) == w[k] # NoWindow /\ ~w[k].marked

\* What shouldAuditLockout lets through: one more record under that window.
Record(f, x) ==
    [y \in DOMAIN f \cup {x} |->
        (IF y \in DOMAIN f THEN f[y] ELSE 0) + (IF y = x THEN 1 ELSE 0)]

(***************************************************************************)
(* sharedWindowCounter: where a command runs, and what a lost answer does. *)
(***************************************************************************)

\* The outcomes of an operation: the store that answered and the stores that
\* ran it: Redis, memory, or memory after Redis may have run it too.
StoreAnswers(a) ==
    LET m == LimitOf[a].memory IN
    IF m \notin attached THEN {[store |-> m, ran |-> {m}, faults |-> 0]}
    ELSE {[store |-> "redis", ran |-> {"redis"}, faults |-> 0],
          [store |-> m, ran |-> {m}, faults |-> 1],
          [store |-> m, ran |-> {"redis", m}, faults |-> 1]}

\* takeLoginAttempt, takeAuthAttempt, takeSubmissionConnection,
\* takeInboundConnection, rateLimitMiddleware, isDnsVerifyThrottled,
\* claimLastUsedWrite: count the attempt before anything is checked.
TakeAttempt(a) ==
    LET l == LimitOf[a] IN
    /\ attempt[a] = "new"
    /\ \E o \in StoreAnswers(a) :
          /\ windowFaults + o.faults <= MaxWindowFaults
          /\ windowFaults' = windowFaults + o.faults
          /\ window' = [s \in Stores |->
                 IF s \in o.ran THEN Take(window[s], l, nextWindow) ELSE window[s]]
          /\ attempt' = [attempt EXCEPT
                           ![a] = IF ~Limited(window[o.store], l) THEN "checking"
                                  ELSE IF l.audited THEN "limited" ELSE "refused"]
          /\ ticket' = [x \in DOMAIN ticket \cup {a} |->
                 IF x = a THEN Ticket(o.store, window'[o.store], l) ELSE ticket[x]]
    /\ nextWindow' = nextWindow + 1
    /\ UNCHANGED <<audits, attached, windowEnds>>

\* shouldAuditLockout: a refused attempt is recorded once per window.
AuditLockout(a) ==
    LET k == CHOOSE x \in LimitOf[a].keys : TRUE IN
    /\ attempt[a] = "limited"
    /\ \E o \in StoreAnswers(a) :
          /\ windowFaults + o.faults <= MaxWindowFaults
          /\ windowFaults' = windowFaults + o.faults
          /\ window' = [s \in Stores |->
                 IF s \in o.ran THEN MarkOnce(window[s], k) ELSE window[s]]
          /\ audits' = IF Marks(window[o.store], k)
                       THEN Record(audits, <<o.store, k, window[o.store][k].id>>)
                       ELSE audits
    /\ attempt' = [attempt EXCEPT ![a] = "refused"]
    /\ UNCHANGED <<ticket, nextWindow, attached, windowEnds>>

\* The check fails: the count stays.
AttemptFails(a) ==
    /\ attempt[a] = "checking"
    /\ attempt' = [attempt EXCEPT ![a] = "failed"]
    /\ UNCHANGED <<window, ticket, nextWindow, audits, attached, windowFaults, windowEnds>>

\* The check succeeds: the keys that a success clears are deleted.
ClearAttempts(a) ==
    LET l == LimitOf[a]
        own == {k \in l.keys : l.success[k] = "clear"}
    IN  /\ attempt[a] = "checking"
        /\ IF own = {}
           THEN UNCHANGED <<window, windowFaults>>
           ELSE \E o \in StoreAnswers(a) :
                   /\ windowFaults + o.faults <= MaxWindowFaults
                   /\ windowFaults' = windowFaults + o.faults
                   /\ window' = [s \in Stores |->
                          IF s \in o.ran THEN Forget(window[s], own) ELSE window[s]]
        /\ attempt' = [attempt EXCEPT ![a] = "succeeding"]
        /\ UNCHANGED <<ticket, nextWindow, audits, attached, windowEnds>>

\* Then its own count goes back to the store that took it, while that store
\* is the installed one; it is lost when Redis does not answer.
RefundAttempt(a) ==
    LET l == LimitOf[a]
        back == {k \in l.keys : l.success[k] = "refund" /\ ticket[a][k] # NoTicket}
        Reach(s) == s # "redis" \/ l.memory \in attached
        Back(s, w) == [k \in Buckets |->
                         IF k \in back /\ ticket[a][k].store = s /\ Reach(s)
                         THEN Refund(w, k, ticket[a][k].id)[k] ELSE w[k]]
    IN  /\ attempt[a] = "succeeding"
        /\ \/ /\ window' = [s \in Stores |-> Back(s, window[s])]
              /\ UNCHANGED windowFaults
           \/ /\ \E k \in back : ticket[a][k].store = "redis" /\ Reach("redis")
              /\ windowFaults < MaxWindowFaults
              /\ windowFaults' = windowFaults + 1
              /\ UNCHANGED window
        /\ attempt' = [attempt EXCEPT ![a] = "succeeded"]
        /\ UNCHANGED <<ticket, nextWindow, audits, attached, windowEnds>>

\* A window's time is over; its entry is dropped when next met, or pruned.
WindowEnds(s, k) ==
    /\ window[s][k] # NoWindow
    /\ windowEnds < MaxWindowEnds
    /\ windowEnds' = windowEnds + 1
    /\ window' = [window EXCEPT ![s][k] = NoWindow]
    /\ UNCHANGED <<ticket, attempt, nextWindow, audits, attached, windowFaults>>

\* closeSharedStore: later commands of this replica use its memory.
CloseBackend(m) ==
    /\ m \in attached
    /\ windowFaults < MaxWindowFaults
    /\ windowFaults' = windowFaults + 1
    /\ attached' = attached \ {m}
    /\ UNCHANGED <<window, ticket, attempt, nextWindow, audits, windowEnds>>

-----------------------------------------------------------------------------
WindowInit ==
    /\ window = [s \in Stores |-> [k \in Buckets |-> NoWindow]]
    /\ ticket = [a \in {} |-> NoTicket]
    /\ \E going \in AttemptSets : attempt = [a \in going |-> "new"]
    /\ nextWindow = 1
    /\ audits = [x \in {} |-> 0]
    /\ attached \in {{}, Windows}
    /\ windowFaults = 0
    /\ windowEnds = 0

WindowNext ==
    \/ \E a \in DOMAIN attempt :
          \/ TakeAttempt(a)
          \/ AuditLockout(a)
          \/ AttemptFails(a)
          \/ ClearAttempts(a)
          \/ RefundAttempt(a)
    \/ \E s \in Stores, k \in Buckets : WindowEnds(s, k)
    \/ \E m \in Windows : CloseBackend(m)

WindowSpec == WindowInit /\ [][WindowNext]_windowVars

-----------------------------------------------------------------------------
\* Types; a lockout is recorded once per window, whichever replicas refuse.
WindowTypeOK ==
    /\ \A s \in Stores, k \in Buckets :
          /\ window[s][k].count \in Nat
          /\ window[s][k].id \in 0..MaxId
    /\ \A a \in DOMAIN attempt :
          attempt[a] \in {"new", "limited", "refused", "checking", "failed",
                          "succeeding", "succeeded"}
    /\ \A w \in DOMAIN audits : audits[w] = 1

\* The attempts counted in window i of key k in store s that nothing gave back.
Spent(s, k, i) ==
    {a \in DOMAIN ticket :
        /\ ticket[a][k] = [store |-> s, id |-> i]
        /\ \/ attempt[a] \in {"checking", "failed", "succeeding"}
           \/ attempt[a] = "succeeded" /\ LimitOf[a].success[k] = "keep"}
SpentWeight(s, k, i) ==
    SumFunctionOnSet([a \in Attempts |-> LimitOf[a].weight], Spent(s, k, i))

\* No window ever lets through more than its limit, counting attempts that
\* are still being checked, and its count never falls below them: a success
\* that arrives after its window ended, was cleared or was counted in another
\* store takes nothing from the window that replaced it.
WindowHolds ==
    \A s \in Stores, k \in Buckets :
        /\ \A i \in 1..(nextWindow - 1) : SpentWeight(s, k, i) <= MaxCount
        /\ window[s][k] # NoWindow =>
              window[s][k].count >= SpentWeight(s, k, window[s][k].id)

\* The limiter lets through what it counts and audits a lockout once.
LimitsHold == WindowTypeOK /\ WindowHolds
=============================================================================
