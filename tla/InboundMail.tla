---------------------------- MODULE InboundMail -----------------------------
(***************************************************************************)
(* What one inbound message does: the DATA handler of the SMTP receiver    *)
(* (smtp-receiver-data.service.ts) with its branches for bounces to signed *)
(* return paths, unsubscribe addresses, feedback reports, DMARC reports    *)
(* and ordinary mail, over the suppression list of Suppressions.           *)
(*                                                                         *)
(* A message goes through several transactions before it is answered.  Any *)
(* of them may fail, the process may crash and the answer may get lost: in *)
(* each case the remote server delivers the whole message again.           *)
(***************************************************************************)
EXTENDS Suppressions

CONSTANTS
    Messages,       \* mail the world sends us
    MailOf,         \* MailOf[m]: its recipients, its body, whether it is too large
    Handlers,       \* DATA handlers that may run at the same time
    KeyOf,          \* KeyOf[e]: the API key of email e
    RecipientsOf,   \* RecipientsOf[e]: its recipients, in order
    ManualEntries,  \* what operators may enter: set of [reason, left]
    MaxFailures,    \* bound: rollbacks, crashes and lost answers
    MaxOperations,  \* bound: manual entries, deletions and purges
    Traffic         \* bound: sets of messages that come in one behaviour

VARIABLES
    suppression,    \* suppressions: [ApiKeys \X Addresses -> SuppressionRow]
    status,         \* emails.status as this component sees it
    remote,         \* each message, as its sender sees it
    handler,        \* the DATA handlers
    inbox,          \* inbound_emails: copies stored of each message
    reports,        \* dmarc_reports: report ids stored
    events,         \* outbox events: count per <<event, key, address>>
    filed,          \* history: committed DSNs per <<key, address>>, by kind
    failures,       \* failures so far
    operations      \* manual entries, deletions and purges so far

inboundVars == <<suppression, status, remote, handler, inbox, reports, events,
                 filed, failures, operations>>

Pairs == ApiKeys \X Addresses
NoAddress == "no address"   \* a complaint whose recipient is not known
Idle == [pc |-> "idle"]
EventNames == {"email.bounced", "email.failed", "email.unsubscribed",
               "email.complained"}

\* An email has its key and its recipients; a signed address or a readable
\* report names an email that may be gone, or none.
ASSUME InboundConstants ==
    /\ NoEmail \notin Emails /\ NoAddress \notin Addresses
    /\ KeyOf \in [Emails -> ApiKeys]
    /\ RecipientsOf \in [Emails -> Seq(Addresses)]
    /\ \A m \in Messages :
          LET rcpts == MailOf[m].rcpts
              body == MailOf[m].body
          IN  /\ Len(rcpts) \in Nat /\ DOMAIN rcpts = 1..Len(rcpts)
              /\ \A i \in DOMAIN rcpts : rcpts[i].kind # "other" =>
                    rcpts[i].email \in Emails \cup {NoEmail}
              /\ body.feedback.readable =>
                    body.feedback.email \in Emails \cup {NoEmail}
    /\ ManualEntries \subseteq
          [reason : {"bounce", "complaint", "unsubscribe", "manual"},
           left : {Forever} \cup Nat]
    /\ MaxFailures \in Nat /\ MaxOperations \in Nat

-----------------------------------------------------------------------------
(* Parsing.  A body is known by the features the parsers look for:         *)
(*   report   the report-type of a multipart/report, or "none"             *)
(*   fields   Final-Recipient and Status lines are readable                *)
(*   daemon   From or Subject look like a bounce                           *)
(*   prose    the text names a recipient and a Message-ID                  *)
(*   reply    the SMTP reply quoted: class, and what its text says         *)
(*   feedback the fields of the feedback part, dmarc the report id         *)

\* utils/smtp-error.ts: the kind of an SMTP reply.
ParseSmtpError(reply) ==
    CASE reply.class = 4 -> "soft"
      [] reply.class = 5 /\ (reply.seven \/ reply.block) /\ ~reply.unknown -> "policy"
      [] reply.class = 5 /\ ~((reply.seven \/ reply.block) /\ ~reply.unknown) -> "hard"
      [] OTHER -> "none"

ParseRfc3464(b) == IF b.fields THEN ParseSmtpError(b.reply) ELSE "none"
LooksLikeBounce(b) == b.daemon \/ b.report # "none"
ParseFallback(b) == IF b.prose THEN ParseSmtpError(b.reply) ELSE "none"

\* The kind of bounce a body is, or "none".  A feedback report never is one.
ParseBounce(b) ==
    IF b.report = "feedback-report" THEN "none"
    ELSE IF b.report = "delivery-status" /\ ParseRfc3464(b) # "none"
         THEN ParseRfc3464(b)
         ELSE IF LooksLikeBounce(b) THEN ParseFallback(b) ELSE "none"

IsFeedbackReport(b) == b.report = "feedback-report"

\* What a feedback type asks for.
ClassifyFeedbackType(type) ==
    CASE type \in {"missing", "abuse", "fraud"} -> "complaint"
      [] type = "opt-out" -> "opt-out"
      [] OTHER -> "ignore"

\* The recipient a report is about: a named one, or the only one.
ChooseRecipient(fb) ==
    LET rcpts == RecipientsOf[fb.email]
        named == {a \in {rcpts[i] : i \in DOMAIN rcpts} : a \in fb.named}
    IN  IF named # {} THEN named
        ELSE IF Len(rcpts) = 1 THEN {rcpts[1]} ELSE {}

-----------------------------------------------------------------------------
(* Recipients of a message: signed return paths, unsubscribe addresses and *)
(* ordinary ones.  signed says whether the MAC in the address matches.     *)

Exists(e) == e # NoEmail /\ status[e] # "purged"

\* resolveReturnPath: the recipient a return path was minted for.
ResolveReturnPath(r) ==
    Exists(r.email) /\ r.signed /\ r.index \in DOMAIN RecipientsOf[r.email]

\* resolveUnsubscribeToken: only mail with exactly one recipient has one.
ResolveUnsubscribeToken(r) ==
    Exists(r.email) /\ r.signed /\ Len(RecipientsOf[r.email]) = 1

Others(m) == {i \in DOMAIN MailOf[m].rcpts : MailOf[m].rcpts[i].kind = "other"}

-----------------------------------------------------------------------------
(* Transactions over the suppression list.  Each is atomic with its event. *)

Raise(event, k, a) == events' = [events EXCEPT ![<<event, k, a>>] = @ + 1]

\* unsubscribe: the row and email.unsubscribed, or nothing.
Unsubscribe(e, a) ==
    LET k == KeyOf[e] IN
    /\ suppression' = [suppression EXCEPT ![<<k, a>>] = AddFromUnsubscribe(@, e)]
    /\ IF Permanent(suppression[k, a]) THEN UNCHANGED events
       ELSE Raise("email.unsubscribed", k, a)

\* A complaint: the row and email.complained, or nothing.
Complain(e, a) ==
    LET k == KeyOf[e] IN
    /\ suppression' = [suppression EXCEPT ![<<k, a>>] = AddFromComplaint(@, e)]
    /\ IF AddFromComplaint(suppression[k, a], e) = suppression[k, a]
       THEN UNCHANGED events
       ELSE Raise("email.complained", k, a)

\* handlePolicyBounce: only an email that was sent fails, and only it tells.
HandlePolicyBounce(e, a) ==
    /\ IF status[e] = "sent"
       THEN /\ status' = [status EXCEPT ![e] = "failed"]
            /\ Raise("email.failed", KeyOf[e], a)
       ELSE UNCHANGED <<status, events>>
    /\ UNCHANGED <<suppression, filed>>

\* Mutant: every soft bounce counts as a repeated one.
EscalateAlways(kind, existing) == "hard"

\* Two soft bounces in a row are a hard one.
EscalateIfRepeat(kind, existing) ==
    IF kind = "hard" \/ existing = "soft" THEN "hard" ELSE "soft"

\* markEmailBounced: rows the queue is still working on keep their status.
MarkEmailBounced(e) ==
    status' = IF status[e] \in {"sent", "failed"}
              THEN [status EXCEPT ![e] = "bounced"] ELSE status

\* The transaction of a hard or soft bounce.
FileBounce(e, a, parsed, existing) ==
    LET k == KeyOf[e]
        kind == EscalateIfRepeat(parsed, existing)
    IN  /\ suppression' = [suppression EXCEPT ![<<k, a>>] = AddFromBounce(@, kind, e)]
        /\ MarkEmailBounced(e)
        /\ Raise("email.bounced", k, a)
        /\ filed' = [filed EXCEPT ![<<k, a>>][parsed] = @ + 1]

-----------------------------------------------------------------------------
(* The DATA handler.  pc: "rcpt" resolving recipients, "bounce" about to   *)
(* read the suppression, "file" about to write it, "body" the branches for *)
(* the other recipients, "ok" about to answer.                             *)

InboundInit ==
    /\ suppression = [p \in Pairs |-> NoRow]
    /\ status = [e \in Emails |-> "open"]
    /\ \E sent \in Traffic :
          remote = [m \in Messages |-> IF m \in sent THEN "waiting" ELSE "unsent"]
    /\ handler = [h \in Handlers |-> Idle]
    /\ inbox = [m \in Messages |-> 0]
    /\ reports = {}
    /\ events = [x \in EventNames \X ApiKeys \X (Addresses \cup {NoAddress}) |-> 0]
    /\ filed = [p \in Pairs |-> [hard |-> 0, soft |-> 0]]
    /\ failures = 0
    /\ operations = 0

Working(h, pc) == handler[h] # Idle /\ handler[h].pc = pc
Goto(h, pc) == handler' = [handler EXCEPT ![h].pc = pc]

\* The remote server opens DATA; more than 10 MiB is refused for good.
Receive(h, m) ==
    /\ handler[h] = Idle
    /\ remote[m] = "waiting"
    /\ IF MailOf[m].large
       THEN remote' = [remote EXCEPT ![m] = "refused"] /\ UNCHANGED handler
       ELSE /\ remote' = [remote EXCEPT ![m] = "sending"]
            /\ handler' = [handler EXCEPT ![h] =
                  [pc |-> "rcpt", msg |-> m, next |-> 1, binds |-> <<>>,
                   existing |-> "none"]]
    /\ UNCHANGED <<suppression, status, inbox, reports, events, filed,
                   failures, operations>>

\* One recipient: a return path is looked up, an unsubscribe carried out.
ResolveRecipient(h) ==
    LET s == handler[h]
        r == MailOf[s.msg].rcpts[s.next]
        on == [s EXCEPT !.next = @ + 1]
    IN  /\ Working(h, "rcpt")
        /\ s.next <= Len(MailOf[s.msg].rcpts)
        /\ CASE r.kind = "return" /\ ResolveReturnPath(r) ->
                  /\ handler' = [handler EXCEPT ![h] =
                        [on EXCEPT !.binds = Append(@,
                            [email |-> r.email,
                             addr |-> RecipientsOf[r.email][r.index]])]]
                  /\ UNCHANGED <<suppression, events>>
             [] r.kind = "unsub" /\ ResolveUnsubscribeToken(r) ->
                  /\ handler' = [handler EXCEPT ![h] = on]
                  /\ Unsubscribe(r.email, RecipientsOf[r.email][1])
             [] OTHER ->
                  /\ handler' = [handler EXCEPT ![h] = on]
                  /\ UNCHANGED <<suppression, events>>
        /\ UNCHANGED <<status, remote, inbox, reports, filed, failures,
                       operations>>

\* Mutant: a bounce is looked for only where nobody else is addressed.
RecipientsDoneAlone(h) ==
    LET s == handler[h] IN
    /\ Working(h, "rcpt")
    /\ s.next > Len(MailOf[s.msg].rcpts)
    /\ handler' = [handler EXCEPT ![h].next = 1,
                     ![h].pc = IF /\ ParseBounce(MailOf[s.msg].body) # "none"
                                  /\ s.binds # <<>> /\ Others(s.msg) = {}
                               THEN "bounce" ELSE "body"]
    /\ UNCHANGED <<suppression, status, remote, inbox, reports, events, filed, failures, operations>>

\* All recipients resolved: a bounce is handled once per return path.
RecipientsDone(h) ==
    LET s == handler[h] IN
    /\ Working(h, "rcpt")
    /\ s.next > Len(MailOf[s.msg].rcpts)
    /\ handler' = [handler EXCEPT ![h].next = 1,
                     ![h].pc = IF ParseBounce(MailOf[s.msg].body) # "none" /\ s.binds # <<>>
                               THEN "bounce" ELSE "body"]
    /\ UNCHANGED <<suppression, status, remote, inbox, reports, events, filed, failures, operations>>

\* handleBounce before its transaction: the key's own active row is read.
ReadSuppression(h) ==
    LET s == handler[h]
        b == s.binds[s.next]
        r == suppression[KeyOf[b.email], b.addr]
    IN  /\ Working(h, "bounce")
        /\ ParseBounce(MailOf[s.msg].body) # "policy"
        /\ handler' = [handler EXCEPT
              ![h].existing = IF FindActiveSuppression(r) THEN r.bounce ELSE "none",
              ![h].pc = "file"]
        /\ UNCHANGED <<suppression, status, remote, inbox, reports, events, filed, failures, operations>>

\* handleBounce: the transaction, for the next return path.
HandleBounce(h) ==
    LET s == handler[h]
        b == s.binds[s.next]
        kind == ParseBounce(MailOf[s.msg].body)
    IN  /\ Working(h, IF kind = "policy" THEN "bounce" ELSE "file")
        /\ IF kind = "policy" THEN HandlePolicyBounce(b.email, b.addr)
           ELSE FileBounce(b.email, b.addr, kind, s.existing)
        /\ handler' = [handler EXCEPT
              ![h].next = @ + 1,
              ![h].pc = IF s.next < Len(s.binds) THEN "bounce" ELSE "body"]
        /\ UNCHANGED <<remote, inbox, reports, failures, operations>>

\* Nothing but return paths and unsubscribe addresses: the message is done.
NoOtherRecipient(h) ==
    /\ Working(h, "body")
    /\ Others(handler[h].msg) = {}
    /\ Goto(h, "ok")
    /\ UNCHANGED <<suppression, status, remote, inbox, reports, events, filed,
                   failures, operations>>

\* handleFeedbackReport: linked to the email by its Message-ID.
HandleFeedback(h) ==
    LET m == handler[h].msg
        fb == MailOf[m].body.feedback
        act == IF fb.readable THEN ClassifyFeedbackType(fb.type) ELSE "ignore"
    IN  /\ Working(h, "body")
        /\ Others(m) # {}
        /\ IsFeedbackReport(MailOf[m].body)
        /\ IF act = "ignore" \/ ~Exists(fb.email)
           THEN UNCHANGED <<suppression, events>>
           ELSE IF ChooseRecipient(fb) = {}
                THEN /\ UNCHANGED suppression
                     /\ IF act = "opt-out" THEN UNCHANGED events
                        ELSE Raise("email.complained", KeyOf[fb.email], NoAddress)
                ELSE \E a \in ChooseRecipient(fb) :
                       IF act = "opt-out" THEN Unsubscribe(fb.email, a)
                       ELSE Complain(fb.email, a)
        /\ Goto(h, "ok")
        /\ UNCHANGED <<status, remote, inbox, reports, filed, failures, operations>>

\* A bounce at an ordinary address is dropped, not stored.
DropBounce(h) ==
    LET m == handler[h].msg IN
    /\ Working(h, "body")
    /\ Others(m) # {}
    /\ ~IsFeedbackReport(MailOf[m].body)
    /\ ParseBounce(MailOf[m].body) # "none"
    /\ Goto(h, "ok")
    /\ UNCHANGED <<suppression, status, remote, inbox, reports, events, filed,
                   failures, operations>>

\* handleInboundDmarcReport: stored once per reporter and report id.
PersistReport(h) ==
    LET m == handler[h].msg IN
    /\ Working(h, "body")
    /\ Others(m) # {}
    /\ ~IsFeedbackReport(MailOf[m].body) /\ ParseBounce(MailOf[m].body) = "none"
    /\ MailOf[m].body.dmarc # "none"
    /\ reports' = reports \cup {MailOf[m].body.dmarc}
    /\ Goto(h, "ok")
    /\ UNCHANGED <<suppression, status, remote, inbox, events, filed, failures,
                   operations>>

\* storeInboundEmail: the row and its email.received event.
StoreInboundEmail(h) ==
    LET m == handler[h].msg IN
    /\ Working(h, "body")
    /\ Others(m) # {}
    /\ ~IsFeedbackReport(MailOf[m].body) /\ ParseBounce(MailOf[m].body) = "none"
    /\ MailOf[m].body.dmarc = "none"
    /\ inbox' = [inbox EXCEPT ![m] = @ + 1]
    /\ Goto(h, "ok")
    /\ UNCHANGED <<suppression, status, remote, reports, events, filed, failures,
                   operations>>

\* 250: the remote server forgets the message.
Accept(h) ==
    /\ Working(h, "ok")
    /\ remote' = [remote EXCEPT ![handler[h].msg] = "accepted"]
    /\ handler' = [handler EXCEPT ![h] = Idle]
    /\ UNCHANGED <<suppression, status, inbox, reports, events, filed,
                   failures, operations>>

\* A transaction rolls back (451), the process crashes, or the 250 is lost:
\* what was committed stays and the whole message is delivered again.
Interrupted(h) ==
    /\ handler[h] # Idle
    /\ failures < MaxFailures
    /\ failures' = failures + 1
    /\ remote' = [remote EXCEPT ![handler[h].msg] = "waiting"]
    /\ handler' = [handler EXCEPT ![h] = Idle]
    /\ UNCHANGED <<suppression, status, inbox, reports, events, filed,
                   operations>>

-----------------------------------------------------------------------------
(* The rest of the system, as far as it touches these tables.              *)

\* POST /u/:token with a one-click or a confirmation body.
UnsubscribePost(e) ==
    /\ ResolveUnsubscribeToken([email |-> e, signed |-> TRUE])
    /\ Unsubscribe(e, RecipientsOf[e][1])
    /\ UNCHANGED <<status, remote, handler, inbox, reports, filed, failures,
                   operations>>

\* POST /api/v1/suppressions.
CreateManually(k, a, entry) ==
    /\ operations < MaxOperations
    /\ operations' = operations + 1
    /\ suppression' = [suppression EXCEPT
                         ![<<k, a>>] = CreateSuppression(@, entry.reason, entry.left)]
    /\ UNCHANGED <<status, remote, handler, inbox, reports, events, filed, failures>>

\* DELETE /api/v1/suppressions/:id, or the dashboard's button.
DeleteSuppression(k, a) ==
    /\ operations < MaxOperations
    /\ operations' = operations + 1
    /\ suppression[k, a] # NoRow
    /\ suppression' = [suppression EXCEPT ![<<k, a>>] = NoRow]
    /\ UNCHANGED <<status, remote, handler, inbox, reports, events, filed, failures>>

\* The queue finishes an email.
QueueFinishes(e) ==
    /\ status[e] = "open"
    /\ \E s \in {"sent", "failed"} : status' = [status EXCEPT ![e] = s]
    /\ UNCHANGED <<suppression, remote, handler, inbox, reports, events, filed,
                   failures, operations>>

\* The trash purges an email: its return paths and tokens resolve no more.
PurgeEmail(e) ==
    /\ operations < MaxOperations
    /\ operations' = operations + 1
    /\ status[e] # "purged"
    /\ status' = [status EXCEPT ![e] = "purged"]
    /\ UNCHANGED <<suppression, remote, handler, inbox, reports, events, filed,
                   failures>>

\* Half a window passes: temporary rows run out by themselves.
TimePasses ==
    /\ \E p \in Pairs : suppression[p].left > 0
    /\ suppression' = [p \in Pairs |-> AgedRow(suppression[p])]
    /\ UNCHANGED <<status, remote, handler, inbox, reports, events, filed, failures, operations>>

HandlerStep(h) ==
    \/ ResolveRecipient(h) \/ RecipientsDone(h)
    \/ ReadSuppression(h) \/ HandleBounce(h)
    \/ NoOtherRecipient(h) \/ HandleFeedback(h) \/ DropBounce(h)
    \/ PersistReport(h) \/ StoreInboundEmail(h) \/ Accept(h)

InboundNext ==
    \/ \E h \in Handlers : \/ \E m \in Messages : Receive(h, m)
                           \/ HandlerStep(h)
                           \/ Interrupted(h)
    \/ \E e \in Emails : UnsubscribePost(e) \/ QueueFinishes(e) \/ PurgeEmail(e)
    \/ \E k \in ApiKeys, a \in Addresses :
          \/ DeleteSuppression(k, a)
          \/ \E entry \in ManualEntries : CreateManually(k, a, entry)
    \/ TimePasses

InboundSpec == InboundInit /\ [][InboundNext]_inboundVars

-----------------------------------------------------------------------------
(* Properties.                                                             *)

\* Every row is one the table can hold, and a handler works on a message
\* its sender is still waiting for.
InboundTypeOK ==
    /\ suppression \in [Pairs -> SuppressionRow]
    /\ \A h \in Handlers : handler[h] # Idle => remote[handler[h].msg] = "sending"
    /\ reports \subseteq {MailOf[m].body.dmarc : m \in Messages}

\* What an accepted message was to do has been done, however its deliveries
\* were interrupted: each bounce is on file, each unsubscribe in force unless
\* an operator changed the row, ordinary mail is in the inbox.  onData answers
\* 250 only after the last transaction.
AcceptedIsHandled ==
    \A m \in Messages : remote[m] = "accepted" =>
        \A i \in DOMAIN MailOf[m].rcpts :
            LET r == MailOf[m].rcpts[i]
                kind == ParseBounce(MailOf[m].body)
            IN  CASE r.kind = "return" /\ ResolveReturnPath(r) /\ kind \in {"hard", "soft"} ->
                       LET p == <<KeyOf[r.email], RecipientsOf[r.email][r.index]>>
                       IN  filed[p][kind] > 0
                  [] r.kind = "unsub" /\ ResolveUnsubscribeToken(r) ->
                       \/ Permanent(suppression[KeyOf[r.email], RecipientsOf[r.email][1]])
                       \/ operations > 0
                  [] r.kind = "other" /\ kind = "none" /\ MailOf[m].body.report = "none" ->
                       inbox[m] > 0 \/ MailOf[m].body.dmarc \in reports
                  [] OTHER -> TRUE

\* A recipient who leaves or complains is reported once, however often the
\* message is delivered again, unless an operator touched the row in between.
ReportedOnce ==
    \A p \in Pairs : \A n \in {"email.unsubscribed", "email.complained"} :
        events[n, p[1], p[2]] <= 1 + operations

\* A soft bounce becomes permanent only as the second one on file.
EscalationNeedsTwo ==
    \A p \in Pairs :
        suppression[p].bounce = "hard" /\ filed[p].hard = 0 => filed[p].soft >= 2

\* What keeps a tenant from writing to an address is an entry of its own, or
\* something the system observed of another tenant's mail: a hard bounce, a
\* repeated soft one or a complaint, never an entry by hand.
SharedIsObserved ==
    \A k \in ApiKeys, a \in Addresses :
        IsSuppressed(suppression, k, a) =>
            \/ FindActiveSuppression(suppression[k, a])
            \/ \E j \in ApiKeys : \/ filed[j, a].hard > 0 \/ filed[j, a].soft > 1
                                  \/ events["email.complained", j, a] > 0

\* A message the sending host was told is accepted has had its effects, and
\* had each of them reported once, whatever was interrupted and sent again.
MailTakesEffectOnce == InboundTypeOK /\ AcceptedIsHandled /\ ReportedOnce

\* Nobody is kept from writing to an address without cause: neither one soft
\* bounce nor another tenant's manual entry blocks it for good.
SuppressedWithCause == EscalationNeedsTwo /\ SharedIsObserved

\* A permanent row is replaced only by a complaint or by an operator.
PermanentStays ==
    [][\A p \in Pairs :
          Permanent(suppression[p]) /\ suppression'[p] # suppression[p] =>
              suppression'[p].reason = "complaint" \/ operations' > operations]_inboundVars
=============================================================================
