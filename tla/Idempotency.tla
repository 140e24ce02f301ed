---------------------------- MODULE Idempotency ----------------------------
(***************************************************************************)
(* The idempotent send: requests that carry the same Idempotency-Key of    *)
(* the same API key (createEmailIdempotent in email-create.service.ts,     *)
(* storage in idempotency.service.ts).  Keys do not interact, so the       *)
(* module has one.                                                         *)
(*                                                                         *)
(* Postgres' now() is the start of the transaction, and a statement        *)
(* outside one is its own transaction: a request inside its transaction    *)
(* compares expires_at with the time it began, not with the clock.         *)
(***************************************************************************)
EXTENDS Integers, FiniteSets

CONSTANTS
    KeyedRequests,
    Bodies,      \* canonical request bodies (the hash tells them apart)
    Ttl,         \* IDEMPOTENCY_KEY_TTL_HOURS, in ticks
    MaxOpen,     \* how long a transaction of a send may stay open, in ticks
    MaxTime      \* bound on the clock

\* A key lives an hour at least, a transaction for its few statements.
ASSUME TtlAssumption ==
    /\ Ttl \in Nat /\ MaxOpen \in Nat \ {0} /\ MaxTime \in Nat
    /\ 2 * MaxOpen <= Ttl

VARIABLES
    rec,       \* the committed idempotency_keys row
    emails,    \* emails committed under the key, and when (history)
    keyed,     \* the requests in flight
    clock

keyedVars == <<rec, emails, keyed, clock>>

NoRecord == [by |-> {}, body |-> {}, expires |-> 0]

\* The answers: created, replayed, refused with another body, refused by the
\* checks of the send, failed with a 500, given up after two rounds.
Answers == {"created", "replayed", "reused", "invalid", "error", "unclaimed"}
InTransaction == {"begun", "lost", "claimed"}
Pc == {"new", "checked"} \cup InTransaction \cup Answers

KeyedInit ==
    /\ rec = NoRecord
    /\ emails = {}
    /\ \E body \in [KeyedRequests -> Bodies] :
         keyed = [r \in KeyedRequests |-> [pc |-> "new", body |-> body[r], start |-> 0,
                                    round |-> 0, email |-> {}]]
    /\ clock = 0

RecordExists(row) == row.by # {}

\* Mutant: the stored response is returned whatever the body.
ReplayAnything(r) == [keyed[r] EXCEPT !.pc = "replayed", !.email = rec.by]

\* replayIdempotentSend: the stored response if the body is the same.
Replay(r) ==
    IF rec.body = {keyed[r].body}
    THEN [keyed[r] EXCEPT !.pc = "replayed", !.email = rec.by]
    ELSE [keyed[r] EXCEPT !.pc = "reused"]

\* A live row answers at once, before the send is checked.
FindLive(r) ==
    /\ keyed[r].pc = "new"
    /\ keyed' = [keyed EXCEPT ![r] = IF RecordExists(rec) /\ rec.expires > clock
                                 THEN Replay(r) ELSE [@ EXCEPT !.pc = "checked"]]
    /\ UNCHANGED <<rec, emails, clock>>

\* prepareEmail refuses the send, outside the transaction: nothing is stored.
PrepareRefused(r) ==
    /\ keyed[r].pc = "checked"
    /\ keyed' = [keyed EXCEPT ![r].pc = "invalid"]
    /\ UNCHANGED <<rec, emails, clock>>

BeginKeyed(r) ==
    /\ keyed[r].pc = "checked"
    /\ keyed' = [keyed EXCEPT ![r].pc = "begun", ![r].start = clock]
    /\ UNCHANGED <<rec, emails, clock>>

\* Another transaction has claimed the key and not ended: the unique index, or
\* the lock on the expired row, makes this one wait.
Locked == \E q \in KeyedRequests : keyed[q].pc = "claimed"

\* Mutant: the claim does not wait for another transaction's row.
ClaimUnlocked(r) ==
    /\ keyed[r].pc = "begun"
    /\ keyed' = [keyed EXCEPT ![r].pc = IF RecordExists(rec) /\ rec.expires > keyed[r].start
                                    THEN "lost" ELSE "claimed"]
    /\ UNCHANGED <<rec, emails, clock>>

ClaimIdempotencyKey(r) ==
    /\ keyed[r].pc = "begun" /\ ~Locked
    /\ keyed' = [keyed EXCEPT ![r].pc = IF RecordExists(rec) /\ rec.expires > keyed[r].start
                                    THEN "lost" ELSE "claimed"]
    /\ UNCHANGED <<rec, emails, clock>>

\* The claim lost to a committed row: read it, expired by now or not.  If it
\* vanished, there is a second round, and no third.
ReadWinner(r) ==
    /\ keyed[r].pc = "lost"
    /\ keyed' = [keyed EXCEPT ![r] =
                 IF RecordExists(rec) THEN Replay(r)
                 ELSE IF keyed[r].round = 0 THEN [@ EXCEPT !.pc = "begun", !.round = 1]
                 ELSE [@ EXCEPT !.pc = "unclaimed"]]
    /\ UNCHANGED <<rec, emails, clock>>

\* insertPreparedEmail, completeIdempotencyKey and the commit.
CommitEmail(r) ==
    /\ keyed[r].pc = "claimed"
    /\ rec' = [by |-> {r}, body |-> {keyed[r].body}, expires |-> keyed[r].start + Ttl]
    /\ emails' = emails \cup {[by |-> r, start |-> keyed[r].start, at |-> clock]}
    /\ keyed' = [keyed EXCEPT ![r].pc = "created", ![r].email = {r}]
    /\ UNCHANGED clock

\* An error or a crash: the transaction rolls back, the claim with it.
Rollback(r) ==
    /\ keyed[r].pc \in InTransaction
    /\ keyed' = [keyed EXCEPT ![r].pc = "error"]
    /\ UNCHANGED <<rec, emails, clock>>

\* The purge re-checks the expiry on the row itself, so it waits for a
\* transaction that is taking the row over.
PurgeExpiredIdempotencyKeys ==
    /\ RecordExists(rec) /\ rec.expires <= clock /\ ~Locked
    /\ rec' = NoRecord
    /\ UNCHANGED <<emails, keyed, clock>>

\* Time passes; every open transaction ends within its bound.
KeyTick ==
    /\ clock < MaxTime
    /\ \A r \in KeyedRequests : keyed[r].pc \in InTransaction => clock + 1 < keyed[r].start + MaxOpen
    /\ clock' = clock + 1
    /\ UNCHANGED <<rec, emails, keyed>>

KeyedStep(r) ==
    \/ FindLive(r) \/ PrepareRefused(r) \/ BeginKeyed(r) \/ ClaimIdempotencyKey(r)
    \/ ReadWinner(r) \/ CommitEmail(r) \/ Rollback(r)

KeyedNext == (\E r \in KeyedRequests : KeyedStep(r)) \/ PurgeExpiredIdempotencyKeys \/ KeyTick

KeyedSpec == KeyedInit /\ [][KeyedNext]_keyedVars

-----------------------------------------------------------------------------
(* Properties.                                                             *)

\* The row, the emails and the requests keep their types; the row is never
\* committed without its email.
KeyedTypeOK ==
    /\ rec \in [by : SUBSET KeyedRequests, body : SUBSET Bodies, expires : Nat]
    /\ emails \subseteq [by : KeyedRequests, start : Nat, at : Nat]
    /\ keyed \in [KeyedRequests -> [pc : Pc, body : Bodies, start : Nat, round : 0..1,
                             email : SUBSET KeyedRequests]]
    /\ clock \in Nat

\* One key, one email: a second email is committed only after the key's
\* lifetime from the first one's transaction is over, however the requests race.
OneEmailPerKey ==
    \A e, f \in emails : e # f => e.at >= f.start + Ttl \/ f.at >= e.start + Ttl

\* A request that got an answer with an email got one that is committed, and
\* that was created from the same body.
AnswerIsCommitted ==
    \A r \in KeyedRequests : keyed[r].pc \in {"created", "replayed"} =>
        \E e \in emails : keyed[r].email = {e.by} /\ keyed[e.by].body = keyed[r].body

\* "Two rounds at most: a claim can only lose to a committed live row": no
\* request ends with neither a claim nor a row to answer from.
AlwaysClaimed ==
    \A r \in KeyedRequests : keyed[r].pc # "unclaimed"

\* Whatever a request is told is true: it is never turned away without a row to
\* answer from, and an email it is told of exists.
AnswersAreTrue == KeyedTypeOK /\ AnswerIsCommitted /\ AlwaysClaimed
=============================================================================
