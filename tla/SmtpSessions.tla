---------------------------- MODULE SmtpSessions ----------------------------
(***************************************************************************)
(* The two SMTP listeners up to the answer to DATA: the receiver on port   *)
(* 25 (smtp-receiver-*.ts, dnsbl.service.ts) and the submission server on  *)
(* port 465 (smtp-submission-*.ts, usage.service.ts, message-mapper.ts).   *)
(* Sessions run concurrently; a submission takes a slot of its key's daily *)
(* quota before the email is created and gives it back when refused.       *)
(* What the receiver does with accepted DATA is InboundMail.               *)
(***************************************************************************)
EXTENDS Integers, FiniteSets, Sequences

CONSTANTS
    SmtpSessionIds, \* connections
    ListenerOf,     \* "inbound" or "submission"
    SubmissionOf,   \* the message a submission session sends
    Mailboxes,      \* addresses a submission may name
    RcptKinds,      \* kinds of RCPT TO address a client sends to port 25
    MaxRecipients,  \* MAX_RECIPIENTS_PER_TRANSACTION
    Quotas,         \* values of SMTP_SUBMISSION_DAILY_QUOTA; 0 is no quota
    Days,           \* UTC days of the run
    MaxSmtpFaults   \* bound: failed statements and lookups, and crashes

\* A submission: addresses of its headers and of its envelope, and whether it
\* is over the size cap.
Submissions ==
    [to : SUBSET Mailboxes, cc : SUBSET Mailboxes,
     envelope : SUBSET Mailboxes, large : BOOLEAN]

ASSUME SmtpConstants ==
    /\ \A s \in SmtpSessionIds :
          /\ ListenerOf[s] \in {"inbound", "submission"}
          /\ ListenerOf[s] = "submission" => SubmissionOf[s] \in Submissions
    /\ MaxRecipients \in Nat \ {0}
    /\ Quotas \subseteq Nat
    /\ Days \subseteq Nat \ {0}
    /\ 1 \in Days

VARIABLES
    quota,      \* the configured daily quota
    day,        \* today
    keyActive,  \* the API key of the submissions is active
    smtpAt,     \* per session: the step it is at
    rcpts,      \* per session: recipients accepted so far (port 25: kinds)
    reservedOn, \* per session: the day it holds a quota slot of, or 0
    usage,      \* day -> accepted and rejected of the usage row
    answer,     \* per session: SMTP replies to DATA, in order
    queuedAs,   \* per session: the email its message became, or none
    keptSlots,  \* day -> slots that no session holds and no email used
    smtpFaults,
    failedUsage \* sessions whose usage statement failed

smtpVars == <<quota, day, keyActive, smtpAt, rcpts, reservedOn, usage, answer,
              queuedAs, keptSlots, smtpFaults, failedUsage>>

NoUsage == [accepted |-> 0, rejected |-> 0]

\* The upsert of a day's row: its counters go up by a and by r.
AddUsage(u, d, a, r) ==
    [u EXCEPT ![d] = [accepted |-> @.accepted + a, rejected |-> @.rejected + r]]

NotQueued == [to |-> {}, cc |-> {}, bcc |-> {}, on |-> 0]
Fault == smtpFaults < MaxSmtpFaults /\ smtpFaults' = smtpFaults + 1
Go(s, to) == smtpAt' = [smtpAt EXCEPT ![s] = to]
Answered(s, code) ==
    /\ answer' = [answer EXCEPT ![s] = Append(@, code)]
    /\ Go(s, "answered")

(***************************************************************************)
(* Connecting.                                                             *)
(***************************************************************************)

\* classifyDnsblAnswers: what the lists say of a client, all lists together.
DnsblAnswers == {"listed", "not_listed", "refused_query", "lookup_failed"}

\* isBlacklistedIp: only a listing refuses; a list that fails lets mail in.
IsBlacklistedIp(dnsbl) == dnsbl = "listed"

\* takeInboundConnection, takeSubmissionConnection: a limit that cannot be
\* read lets the client in.
TakeConnection(limit) == limit # "limited"

\* onConnect: refused by the connection limit, or on port 25 by the DNSBL.
Connect(s) ==
    /\ smtpAt[s] = "new"
    /\ \E limit \in {"free", "limited", "failed"}, dnsbl \in DnsblAnswers :
          Go(s, IF ~TakeConnection(limit) THEN "closed"
                ELSE IF ListenerOf[s] = "submission" THEN "auth"
                ELSE IF IsBlacklistedIp(dnsbl) THEN "closed"
                ELSE "rcpt")
    /\ UNCHANGED <<quota, day, keyActive, rcpts, reservedOn, usage, answer,
                   queuedAs, keptSlots, smtpFaults, failedUsage>>

\* onAuth through throttledAuth: only an active key goes on; a failed lookup
\* is a 451 and the client may try again.
OnAuth(s) ==
    /\ smtpAt[s] = "auth"
    /\ keyActive
    /\ Go(s, "data")
    /\ UNCHANGED <<quota, day, keyActive, rcpts, reservedOn, usage, answer,
                   queuedAs, keptSlots, smtpFaults, failedUsage>>

(***************************************************************************)
(* Port 25: recipients.                                                    *)
(***************************************************************************)
TokenKinds == {"unsub_valid", "unsub_forged", "return_valid", "return_forged"}
ValidKinds == {"unsub_valid", "return_valid", "domain_known"}

\* onRcptTo: a token address is accepted when it resolves, an ordinary one
\* when its domain is registered; a failed lookup lets in the ordinary one.
RcptAccepted(kind, fails) ==
    IF kind \in TokenKinds THEN kind \in ValidKinds /\ ~fails
    ELSE kind = "domain_known" \/ fails

\* The cap on one transaction.
RoomForRecipient(s) == Len(rcpts[s]) < MaxRecipients

\* One RCPT TO; fails is a failed database lookup.
OnRcptTo(s, kind, fails) ==
    /\ smtpAt[s] = "rcpt"
    /\ RoomForRecipient(s)
    /\ IF fails THEN Fault ELSE UNCHANGED smtpFaults
    /\ RcptAccepted(kind, fails)
    /\ rcpts' = [rcpts EXCEPT ![s] = Append(@, [kind |-> kind, checked |-> ~fails])]
    /\ UNCHANGED <<quota, day, keyActive, smtpAt, reservedOn, usage, answer,
                   queuedAs, keptSlots, failedUsage>>

(***************************************************************************)
(* Submission: from the message to the email.                              *)
(***************************************************************************)

\* buildSubmissionInput: headers say who is visible, the envelope who gets it.
BuildSubmissionInput(m) ==
    LET to == m.to \cap m.envelope
        cc == m.cc \cap m.envelope
    IN  IF to \cup cc = {} THEN [to |-> m.envelope, cc |-> {}, bcc |-> {}]
        ELSE [to  |-> IF to = {} THEN cc ELSE to,
              cc  |-> cc,
              bcc |-> m.envelope \ (to \cup cc)]

\* The mapper throws: nobody to send to, or headers that name only others.
Unmappable(m) ==
    \/ m.envelope = {}
    \/ m.to \cup m.cc # {} /\ (m.to \cup m.cc) \cap m.envelope = {}

\* onData, while the message streams in: over the cap it is answered at once
\* and what follows is discarded.
DataStreams(s) ==
    /\ smtpAt[s] = "data"
    /\ IF SubmissionOf[s].large
       THEN answer' = [answer EXCEPT ![s] = Append(@, 552)] /\ Go(s, "discard")
       ELSE UNCHANGED answer /\ Go(s, "received")
    /\ UNCHANGED <<quota, day, keyActive, rcpts, reservedOn, usage, queuedAs,
                   keptSlots, smtpFaults, failedUsage>>

\* The end of an aborted stream.
EndOfAborted(s) ==
    /\ smtpAt[s] = "discard"
    /\ Go(s, "answered")
    /\ UNCHANGED <<quota, day, keyActive, rcpts, reservedOn, usage, answer,
                   queuedAs, keptSlots, smtpFaults, failedUsage>>

\* reserveAccepted: one statement takes a slot of today, or none is left.
ReserveAccepted(s) ==
    /\ smtpAt[s] = "received"
    /\ \/ /\ quota > 0 /\ usage[day].accepted < quota
          /\ usage' = AddUsage(usage, day, 1, 0)
          /\ reservedOn' = [reservedOn EXCEPT ![s] = day]
          /\ Go(s, "create")
       \/ /\ quota = 0
          /\ Go(s, "create")
          /\ UNCHANGED <<usage, reservedOn>>
       \/ /\ quota > 0 /\ usage[day].accepted >= quota
          /\ Go(s, "over_quota")
          /\ UNCHANGED <<usage, reservedOn>>
    /\ UNCHANGED <<quota, day, keyActive, rcpts, answer, queuedAs, keptSlots,
                   smtpFaults, failedUsage>>

\* The statement fails: nothing was reserved, the refusal is recorded.
ReserveFails(s) ==
    /\ smtpAt[s] = "received"
    /\ quota > 0
    /\ Fault
    /\ Go(s, "refuse_451")
    /\ UNCHANGED <<quota, day, keyActive, rcpts, reservedOn, usage, answer,
                   queuedAs, keptSlots, failedUsage>>

\* Over the quota: counted as rejected, then 452.
OverQuota(s) ==
    /\ smtpAt[s] = "over_quota"
    /\ \/ /\ usage' = AddUsage(usage, day, 0, 1)
          /\ Answered(s, 452)
          /\ UNCHANGED <<smtpFaults, failedUsage>>
       \/ /\ Fault
          /\ failedUsage' = failedUsage \cup {s}
          /\ Go(s, "refuse_451")
          /\ UNCHANGED <<usage, answer>>
    /\ UNCHANGED <<quota, day, keyActive, rcpts, reservedOn, queuedAs, keptSlots>>

\* createEmail commits; with a quota the reservation has counted it.
CreateEmail(s) ==
    /\ smtpAt[s] = "create"
    /\ ~Unmappable(SubmissionOf[s])
    /\ keyActive
    /\ queuedAs' = [queuedAs EXCEPT
                      ![s] = LET e == BuildSubmissionInput(SubmissionOf[s]) IN
                             [to |-> e.to, cc |-> e.cc, bcc |-> e.bcc, on |-> reservedOn[s]]]
    /\ reservedOn' = [reservedOn EXCEPT ![s] = 0]
    /\ IF reservedOn[s] = 0
       THEN Go(s, "record") /\ UNCHANGED answer
       ELSE Answered(s, 250)
    /\ UNCHANGED <<quota, day, keyActive, rcpts, usage, keptSlots, smtpFaults, failedUsage>>

\* The message is refused: it does not map or parse, the key was revoked, or
\* one of the send's own checks refuses it; or the database fails.
CreateRefused(s) ==
    /\ smtpAt[s] = "create"
    /\ Go(s, "refuse_550")
    /\ UNCHANGED <<quota, day, keyActive, rcpts, reservedOn, usage, answer,
                   queuedAs, keptSlots, smtpFaults, failedUsage>>
CreateFails(s) ==
    /\ smtpAt[s] = "create"
    /\ Fault
    /\ Go(s, "refuse_451")
    /\ UNCHANGED <<quota, day, keyActive, rcpts, reservedOn, usage, answer,
                   queuedAs, keptSlots, failedUsage>>

\* Without a quota the acceptance is recorded after the email: when that
\* fails, the client gets a 451 for an email that is queued.
RecordAccepted(s) ==
    /\ smtpAt[s] = "record"
    /\ \/ /\ usage' = AddUsage(usage, day, 1, 0)
          /\ Answered(s, 250)
          /\ UNCHANGED <<smtpFaults, failedUsage>>
       \/ /\ Fault
          /\ failedUsage' = failedUsage \cup {s}
          /\ Go(s, "refuse_451")
          /\ UNCHANGED <<usage, answer>>
    /\ UNCHANGED <<quota, day, keyActive, rcpts, reservedOn, queuedAs, keptSlots>>

\* Mutant: the slot goes back to today's row.
ReleasedToday(u, taken) ==
    [u EXCEPT ![day] = [accepted |-> IF @.accepted > 0 THEN @.accepted - 1 ELSE 0,
                        rejected |-> @.rejected + 1]]

\* releaseReservation, on the day the slot was taken.
Released(u, taken) ==
    [u EXCEPT ![taken] = [accepted |-> IF @.accepted > 0 THEN @.accepted - 1 ELSE 0,
                          rejected |-> @.rejected + 1]]

\* The catch: the slot goes back, or the rejection is counted; either may
\* fail, which is only logged; then the reply.
Refuse(s, code) ==
    LET taken == reservedOn[s] IN
    /\ smtpAt[s] = (IF code = 550 THEN "refuse_550" ELSE "refuse_451")
    /\ \/ /\ usage' = IF taken # 0 THEN Released(usage, taken)
                      ELSE AddUsage(usage, day, 0, 1)
          /\ UNCHANGED <<keptSlots, smtpFaults>>
       \/ /\ Fault
          /\ keptSlots' = IF taken = 0 THEN keptSlots
                          ELSE [keptSlots EXCEPT ![taken] = @ + 1]
          /\ UNCHANGED usage
    /\ reservedOn' = [reservedOn EXCEPT ![s] = 0]
    /\ Answered(s, code)
    /\ UNCHANGED <<quota, day, keyActive, rcpts, queuedAs, failedUsage>>

\* The process dies in the middle: a slot it held stays taken.
SessionDies(s) ==
    /\ smtpAt[s] \in {"create", "record", "refuse_550", "refuse_451"}
    /\ Fault
    /\ keptSlots' = IF reservedOn[s] = 0 THEN keptSlots
                    ELSE [keptSlots EXCEPT ![reservedOn[s]] = @ + 1]
    /\ reservedOn' = [reservedOn EXCEPT ![s] = 0]
    /\ Go(s, "closed")
    /\ UNCHANGED <<quota, day, keyActive, rcpts, usage, answer, queuedAs, failedUsage>>

\* Midnight UTC; an administrator revokes the key.
Midnight ==
    /\ day + 1 \in Days
    /\ day' = day + 1
    /\ UNCHANGED <<quota, keyActive, smtpAt, rcpts, reservedOn, usage, answer,
                   queuedAs, keptSlots, smtpFaults, failedUsage>>
KeyRevoked ==
    /\ keyActive
    /\ keyActive' = FALSE
    /\ UNCHANGED <<quota, day, smtpAt, rcpts, reservedOn, usage, answer,
                   queuedAs, keptSlots, smtpFaults, failedUsage>>

-----------------------------------------------------------------------------
SmtpInit ==
    /\ quota \in Quotas
    /\ day = 1
    /\ keyActive = TRUE
    /\ smtpAt = [s \in SmtpSessionIds |-> "new"]
    /\ rcpts = [s \in SmtpSessionIds |-> <<>>]
    /\ reservedOn = [s \in SmtpSessionIds |-> 0]
    /\ usage = [d \in Days |-> NoUsage]
    /\ answer = [s \in SmtpSessionIds |-> <<>>]
    /\ queuedAs = [s \in SmtpSessionIds |-> NotQueued]
    /\ keptSlots = [d \in Days |-> 0]
    /\ smtpFaults = 0
    /\ failedUsage = {}

SubmissionStep(s) ==
    \/ OnAuth(s)
    \/ DataStreams(s)
    \/ EndOfAborted(s)
    \/ ReserveAccepted(s)
    \/ ReserveFails(s)
    \/ OverQuota(s)
    \/ CreateEmail(s)
    \/ CreateRefused(s)
    \/ CreateFails(s)
    \/ RecordAccepted(s)
    \/ \E code \in {550, 451} : Refuse(s, code)
    \/ SessionDies(s)

SmtpNext ==
    \/ \E s \in SmtpSessionIds :
          \/ Connect(s)
          \/ \E k \in RcptKinds, f \in BOOLEAN : OnRcptTo(s, k, f)
          \/ SubmissionStep(s)
    \/ Midnight
    \/ KeyRevoked

SmtpSpec == SmtpInit /\ [][SmtpNext]_smtpVars

-----------------------------------------------------------------------------
Queued == {s \in SmtpSessionIds : queuedAs[s] # NotQueued}

\* The quota is exact under concurrent sessions, crashes and midnight: the
\* accepted count of a day is its emails, the slots held and the slots a
\* failure kept, and never more than the quota.
QuotaIsExact ==
    quota > 0 =>
        \A d \in Days :
            /\ usage[d].accepted = keptSlots[d]
                 + Cardinality({s \in Queued : queuedAs[s].on = d})
                 + Cardinality({s \in SmtpSessionIds : reservedOn[s] = d})
            /\ usage[d].accepted <= quota

\* A message is answered once, and one that was refused is not queued: the
\* one exception is a failed usage statement without a quota, after which
\* the client is told to send the queued message again.
RefusedIsNotQueued ==
    \A s \in SmtpSessionIds :
        /\ Len(answer[s]) <= 1
        /\ s \in Queued /\ answer[s] # <<>> /\ answer[s][1] # 250 =>
              quota = 0 /\ s \in failedUsage

\* A queued submission goes to its envelope's recipients, all of them and
\* nobody else, and an address its headers do not show stays hidden (unless
\* they show nobody).
EnvelopeIsExact ==
    \A s \in Queued :
        LET m == SubmissionOf[s]
            q == queuedAs[s]
            visible == (m.to \cup m.cc) \cap m.envelope
        IN  /\ q.to \cup q.cc \cup q.bcc = m.envelope
            /\ visible # {} => q.to \cup q.cc = visible

\* Port 25 never takes a forged token address, takes an unknown domain only
\* when the lookup failed, and keeps its cap.
RecipientsAreKnown ==
    \A s \in SmtpSessionIds :
        /\ Len(rcpts[s]) <= MaxRecipients
        /\ \A i \in 1..Len(rcpts[s]) :
              LET r == rcpts[s][i] IN
              r.kind \in ValidKinds \/ (r.kind \notin TokenKinds /\ ~r.checked)

\* What the client was told is what happened: the quota it was charged, the
\* email that was queued and whom it goes to.
SessionsAreExact ==
    QuotaIsExact /\ RefusedIsNotQueued /\ EnvelopeIsExact /\ RecipientsAreKnown
=============================================================================
