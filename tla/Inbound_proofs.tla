--------------------------- MODULE Inbound_proofs ---------------------------
(***************************************************************************)
(* Proofs about the mail that comes in.                                    *)
(*                                                                         *)
(* Inbound mail and the suppression list: for any messages, any number of  *)
(* DATA handlers at work at once and any number of failures, manual        *)
(* entries, deletions and purges.                                          *)
(*                                                                         *)
(* The SMTP listeners: for any number of concurrent sessions, any quota,   *)
(* any days, any number of failed statements and crashes.  The quota is a  *)
(* counter that several sessions raise and lower in statements of their    *)
(* own; the argument counts it: a day's accepted count is the emails queued*)
(* on that day, the slots sessions hold and the slots a failed release     *)
(* kept, over finite sets of sessions.                                     *)
(***************************************************************************)
EXTENDS InboundMail, SmtpSessions, FiniteSetTheorems, SequenceTheorems, TLAPS

-----------------------------------------------------------------------------
(* Inbound mail and the suppression list.                                  *)

\* A handler at work.
Binding == [email : Emails, addr : Addresses]
Work == [pc : {"rcpt", "bounce", "file", "body", "ok"}, msg : Messages,
         next : Nat \ {0}, binds : Seq(Binding), existing : {"none", "hard", "soft"}]

\* The types of all the state.
InboundTyped ==
    /\ suppression \in [Pairs -> SuppressionRow]
    /\ status \in [Emails -> {"open", "sent", "failed", "bounced", "purged"}]
    /\ remote \in [Messages -> {"unsent", "waiting", "sending", "accepted", "refused"}]
    /\ handler \in [Handlers -> {Idle} \cup Work]
    /\ inbox \in [Messages -> Nat]
    /\ reports \subseteq {MailOf[m].body.dmarc : m \in Messages}
    /\ events \in [EventNames \X ApiKeys \X (Addresses \cup {NoAddress}) -> Nat]
    /\ filed \in [Pairs -> [hard : Nat, soft : Nat]]
    /\ failures \in Nat
    /\ operations \in Nat

\* What a row says has happened, and how often it was told.
RowKept(p) ==
    LET r == suppression[p] IN
    /\ r.bounce = "soft" => filed[p].soft >= 1
    /\ r.bounce = "hard" => filed[p].hard >= 1 \/ filed[p].soft >= 2
    /\ r.reason = "complaint" /\ r.source # NoEmail =>
          events[<<"email.complained", p[1], p[2]>>] >= 1
    /\ events[<<"email.unsubscribed", p[1], p[2]>>] <=
          operations + (IF Permanent(r) THEN 1 ELSE 0)
    /\ events[<<"email.complained", p[1], p[2]>>] <=
          operations + (IF Permanent(r) /\ r.reason = "complaint" THEN 1 ELSE 0)

\* The kind of bounce a message is, and the effects it is to have: a bounce
\* filed for a recipient, an unsubscribe in force, a message stored.
Kind(m) == ParseBounce(MailOf[m].body)
PairOf(b) == <<KeyOf[b.email], b.addr>>
Bind(r) == [email |-> r.email, addr |-> RecipientsOf[r.email][r.index]]
OnFile(b, kind) == kind \in {"hard", "soft"} => filed[PairOf(b)][kind] > 0
HasLeft(r) ==
    r.kind = "unsub" /\ ResolveUnsubscribeToken(r) =>
        Permanent(suppression[<<KeyOf[r.email], RecipientsOf[r.email][1]>>]) \/ operations > 0
Stored(m) ==
    Others(m) # {} /\ Kind(m) = "none" /\ MailOf[m].body.report = "none" =>
        inbox[m] > 0 \/ MailOf[m].body.dmarc \in reports

\* A recipient that resolves is among the bindings of the handler.
Bound(binds, r) ==
    r.kind = "return" /\ ResolveReturnPath(r) =>
        \E j \in 1..Len(binds) : binds[j] = Bind(r)

\* What a handler at work has done so far of its message.
WorkKept(s) ==
    LET sentTo == MailOf[s.msg].rcpts
        kind == Kind(s.msg)
    IN  /\ remote[s.msg] = "sending"
        /\ s.pc \in {"bounce", "file"} => kind # "none" /\ s.next <= Len(s.binds)
        /\ s.pc = "file" => kind \in {"hard", "soft"}
        /\ s.pc = "file" /\ s.existing = "soft" =>
              filed[PairOf(s.binds[s.next])].soft >= 1
        /\ \A i \in 1..Len(sentTo) : s.pc # "rcpt" \/ i < s.next =>
              Bound(s.binds, sentTo[i]) /\ HasLeft(sentTo[i])
        /\ \A j \in 1..Len(s.binds) :
              s.pc \in {"body", "ok"} \/ (s.pc \in {"bounce", "file"} /\ j < s.next) =>
                  OnFile(s.binds[j], kind)
        /\ s.pc = "ok" => Stored(s.msg)

\* What has been done of a message that was accepted.
MessageKept(m) ==
    remote[m] = "accepted" =>
        /\ \A i \in 1..Len(MailOf[m].rcpts) :
              LET r == MailOf[m].rcpts[i] IN
              /\ r.kind = "return" /\ ResolveReturnPath(r) => OnFile(Bind(r), Kind(m))
              /\ HasLeft(r)
        /\ Stored(m)

\* No two handlers work on one message.
OneHandlerEach ==
    \A g, h \in Handlers :
        handler[g] # Idle /\ handler[h] # Idle /\ g # h =>
            handler[g].msg # handler[h].msg

\* The inductive invariant.
InboundKept ==
    /\ InboundTyped
    /\ \A p \in Pairs : RowKept(p)
    /\ OneHandlerEach
    /\ \A h \in Handlers : handler[h] # Idle => WorkKept(handler[h])
    /\ \A m \in Messages : MessageKept(m)

-----------------------------------------------------------------------------
(* The operators.                                                          *)

\* Every body is of one of four kinds.
LEMMA Kinds ==
    ASSUME NEW m \in Messages
    PROVE  Kind(m) \in {"none", "hard", "soft", "policy"}
  <1>1. \A reply : ParseSmtpError(reply) \in {"none", "hard", "soft", "policy"}
    BY Zenon DEF ParseSmtpError
  <1>2. \A b : /\ ParseRfc3464(b) \in {"none", "hard", "soft", "policy"}
               /\ ParseFallback(b) \in {"none", "hard", "soft", "policy"}
    BY <1>1, Zenon DEF ParseRfc3464, ParseFallback
  <1> QED BY <1>2, Zenon DEF Kind, ParseBounce

\* The upserts write rows; a bounce or an unsubscribe leaves permanent rows
\* alone, a complaint makes a permanent row.
LEMMA Upserts ==
    ASSUME NEW r \in SuppressionRow, NEW e \in Emails
    PROVE  /\ \A kind \in {"hard", "soft"} : AddFromBounce(r, kind, e) \in SuppressionRow
           /\ AddFromUnsubscribe(r, e) \in SuppressionRow
           /\ AddFromComplaint(r, e) \in SuppressionRow
           /\ \A entry \in ManualEntries :
                 CreateSuppression(r, entry.reason, entry.left) \in SuppressionRow
           /\ AgedRow(r) \in SuppressionRow /\ NoRow \in SuppressionRow
  <1>1. \A entry \in ManualEntries :
          CreateSuppression(r, entry.reason, entry.left) \in SuppressionRow
    BY InboundConstants DEF CreateSuppression, SuppressionRow, Permanent
  <1>2. \A kind \in {"hard", "soft"} : AddFromBounce(r, kind, e) \in SuppressionRow
    BY SuppressionConstants DEF AddFromBounce, SuppressionRow, Permanent
  <1>3. /\ AddFromUnsubscribe(r, e) \in SuppressionRow
        /\ AddFromComplaint(r, e) \in SuppressionRow
        /\ NoRow \in SuppressionRow
    BY DEF AddFromUnsubscribe, AddFromComplaint, NoRow, SuppressionRow, Permanent
  <1>4. AgedRow(r) \in SuppressionRow
    BY DEF AgedRow, SuppressionRow, Forever
  <1> QED BY <1>1, <1>2, <1>3, <1>4

\* An email that exists has a key; its recipients are addresses.
LEMMA Existing ==
    ASSUME NEW e \in Emails \cup {NoEmail}, Exists(e)
    PROVE  /\ e \in Emails /\ KeyOf[e] \in ApiKeys
           /\ Len(RecipientsOf[e]) \in Nat
           /\ DOMAIN RecipientsOf[e] = 1..Len(RecipientsOf[e])
           /\ \A i \in 1..Len(RecipientsOf[e]) :
                 /\ RecipientsOf[e][i] \in Addresses
                 /\ <<KeyOf[e], RecipientsOf[e][i]>> \in Pairs
  BY InboundConstants DEF Exists, Pairs

\* The recipients of a message.
LEMMA Recipients ==
    ASSUME NEW m \in Messages
    PROVE  /\ Len(MailOf[m].rcpts) \in Nat
           /\ DOMAIN MailOf[m].rcpts = 1..Len(MailOf[m].rcpts)
           /\ \A i \in 1..Len(MailOf[m].rcpts) :
                 MailOf[m].rcpts[i].kind \in {"return", "unsub"} =>
                     MailOf[m].rcpts[i].email \in Emails \cup {NoEmail}
           /\ MailOf[m].body.feedback.readable =>
                 MailOf[m].body.feedback.email \in Emails \cup {NoEmail}
  <1>1. /\ Len(MailOf[m].rcpts) \in Nat
        /\ DOMAIN MailOf[m].rcpts = 1..Len(MailOf[m].rcpts)
        /\ \A i \in DOMAIN MailOf[m].rcpts : MailOf[m].rcpts[i].kind # "other" =>
              MailOf[m].rcpts[i].email \in Emails \cup {NoEmail}
        /\ MailOf[m].body.feedback.readable =>
              MailOf[m].body.feedback.email \in Emails \cup {NoEmail}
    BY InboundConstants
  <1> QED BY <1>1

\* Whom a report is about is one of the email's recipients.
LEMMA Chosen ==
    ASSUME NEW fb, fb.email \in Emails \cup {NoEmail}, Exists(fb.email),
           NEW a \in ChooseRecipient(fb)
    PROVE  a \in Addresses
  <1>1. /\ Len(RecipientsOf[fb.email]) \in Nat
        /\ DOMAIN RecipientsOf[fb.email] = 1..Len(RecipientsOf[fb.email])
        /\ \A i \in 1..Len(RecipientsOf[fb.email]) : RecipientsOf[fb.email][i] \in Addresses
    BY Existing
  <1> QED BY <1>1 DEF ChooseRecipient

-----------------------------------------------------------------------------
(* What a step does to the suppression list and its history.               *)

\* The rows are sound after the step, nothing on file is lost, and only an
\* operation ends a permanent row.
ListSound ==
    /\ suppression' \in [Pairs -> SuppressionRow]
    /\ events' \in [EventNames \X ApiKeys \X (Addresses \cup {NoAddress}) -> Nat]
    /\ filed' \in [Pairs -> [hard : Nat, soft : Nat]]
    /\ operations' \in Nat /\ operations' >= operations
    /\ \A p \in Pairs : /\ RowKept(p)'
                        /\ filed'[p].hard >= filed[p].hard
                        /\ filed'[p].soft >= filed[p].soft
                        /\ Permanent(suppression[p]) =>
                              \/ suppression'[p].left = Forever
                              \/ operations' > 0

\* What is known of the list before the step.
ListKept == InboundTyped /\ \A p \in Pairs : RowKept(p)

\* The types of one pair's state.
LEMMA PairTypes ==
    ASSUME InboundTyped, NEW p \in Pairs
    PROVE  /\ p = <<p[1], p[2]>> /\ p[1] \in ApiKeys /\ p[2] \in Addresses
           /\ suppression[p] \in SuppressionRow
           /\ filed[p].hard \in Nat /\ filed[p].soft \in Nat
           /\ \A n \in EventNames :
                 /\ <<n, p[1], p[2]>> \in EventNames \X ApiKeys \X (Addresses \cup {NoAddress})
                 /\ events[<<n, p[1], p[2]>>] \in Nat
           /\ operations \in Nat
  BY DEF InboundTyped, Pairs

\* A step that leaves the list alone.
LEMMA ListAtRest ==
    ASSUME ListKept, UNCHANGED <<suppression, events, filed, operations>>
    PROVE  ListSound
  <1>1. \A p \in Pairs : /\ RowKept(p)'
                         /\ Permanent(suppression[p]) => suppression'[p].left = Forever
    BY DEF ListKept, RowKept, Permanent
  <1>2. \A p \in Pairs : filed[p].hard \in Nat /\ filed[p].soft \in Nat
    BY PairTypes DEF ListKept
  <1> QED BY <1>1, <1>2 DEF ListSound, ListKept, InboundTyped

\* One row is written, with its events: the other pairs are as they were.
LEMMA OneRow ==
    ASSUME ListKept, NEW p \in Pairs, NEW new \in SuppressionRow,
           suppression' = [suppression EXCEPT ![p] = new],
           NEW n \in EventNames,
           \/ events' = events
           \/ events' = [events EXCEPT ![<<n, p[1], p[2]>>] = @ + 1],
           operations' \in Nat, operations' >= operations,
           filed' \in [Pairs -> [hard : Nat, soft : Nat]],
           \A q \in Pairs : q # p => filed'[q] = filed[q],
           filed'[p].hard >= filed[p].hard, filed'[p].soft >= filed[p].soft,
           RowKept(p)',
           Permanent(suppression[p]) => new.left = Forever \/ operations' > 0
    PROVE  ListSound
  <1>1. suppression' \in [Pairs -> SuppressionRow] /\ suppression'[p] = new
    BY DEF ListKept, InboundTyped
  <1>2. <<n, p[1], p[2]>> \in EventNames \X ApiKeys \X (Addresses \cup {NoAddress})
        /\ events[<<n, p[1], p[2]>>] \in Nat
    BY PairTypes DEF ListKept
  <1>3. events' \in [EventNames \X ApiKeys \X (Addresses \cup {NoAddress}) -> Nat]
    <2> DEFINE Places == EventNames \X ApiKeys \X (Addresses \cup {NoAddress})
    <2>1. PICK x \in Places : x = <<n, p[1], p[2]>>
      BY <1>2
    <2>2. events \in [Places -> Nat] /\ events[x] \in Nat
      BY <1>2, <2>1 DEF ListKept, InboundTyped
    <2>3. events' = events \/ events' = [events EXCEPT ![x] = events[x] + 1]
      BY <2>1
    <2> HIDE DEF Places
    <2>4. events' \in [Places -> Nat]
      BY <2>2, <2>3
    <2> QED BY <2>4 DEF Places
  <1>4. ASSUME NEW q \in Pairs, q # p
        PROVE  /\ suppression'[q] = suppression[q] /\ filed'[q] = filed[q]
               /\ \A x \in EventNames : events'[<<x, q[1], q[2]>>] = events[<<x, q[1], q[2]>>]
    <2>1. suppression'[q] = suppression[q] /\ filed'[q] = filed[q]
      BY <1>4 DEF ListKept, InboundTyped
    <2>2. q[1] # p[1] \/ q[2] # p[2]
      BY <1>4, PairTypes DEF ListKept
    <2>3. ASSUME NEW x \in EventNames
          PROVE  events'[<<x, q[1], q[2]>>] = events[<<x, q[1], q[2]>>]
      <3>1. <<x, q[1], q[2]>> # <<n, p[1], p[2]>>
        BY <2>2
      <3>2. <<x, q[1], q[2]>> \in EventNames \X ApiKeys \X (Addresses \cup {NoAddress})
        BY PairTypes DEF ListKept
      <3> QED BY <3>1, <3>2 DEF ListKept, InboundTyped
    <2> QED BY <2>1, <2>3
  <1>5. ASSUME NEW q \in Pairs, q # p
        PROVE  /\ RowKept(q)'
               /\ filed'[q].hard >= filed[q].hard /\ filed'[q].soft >= filed[q].soft
               /\ Permanent(suppression[q]) => suppression'[q].left = Forever
    <2>1. RowKept(q) /\ operations \in Nat
          /\ filed[q].hard \in Nat /\ filed[q].soft \in Nat
          /\ \A x \in EventNames : events[<<x, q[1], q[2]>>] \in Nat
      BY PairTypes DEF ListKept
    <2>2. "email.unsubscribed" \in EventNames /\ "email.complained" \in EventNames
      BY DEF EventNames
    <2>3. /\ suppression'[q] = suppression[q] /\ filed'[q] = filed[q]
          /\ events'[<<"email.unsubscribed", q[1], q[2]>>] =
                events[<<"email.unsubscribed", q[1], q[2]>>]
          /\ events'[<<"email.complained", q[1], q[2]>>] =
                events[<<"email.complained", q[1], q[2]>>]
      BY <1>4, <1>5, <2>2
    <2>4. /\ events[<<"email.unsubscribed", q[1], q[2]>>] \in Nat
          /\ events[<<"email.complained", q[1], q[2]>>] \in Nat
      BY <2>1, <2>2
    <2>5. RowKept(q)'
      BY <2>1, <2>3, <2>4 DEF RowKept, Permanent
    <2> QED BY <1>4, <1>5, <2>1, <2>5 DEF Permanent
  <1>6. /\ RowKept(p)'
        /\ filed'[p].hard >= filed[p].hard /\ filed'[p].soft >= filed[p].soft
        /\ Permanent(suppression[p]) => suppression'[p].left = Forever \/ operations' > 0
    BY <1>1
  <1>7. \A q \in Pairs : /\ RowKept(q)'
                         /\ filed'[q].hard >= filed[q].hard
                         /\ filed'[q].soft >= filed[q].soft
                         /\ Permanent(suppression[q]) =>
                               \/ suppression'[q].left = Forever
                               \/ operations' > 0
    BY <1>5, <1>6
  <1> QED BY <1>1, <1>3, <1>7 DEF ListSound

\* The event a row's writer raises: its count goes up by one.
LEMMA RaisedForPair ==
    ASSUME InboundTyped, NEW p \in Pairs, NEW n \in EventNames, Raise(n, p[1], p[2])
    PROVE  /\ events' = [events EXCEPT ![<<n, p[1], p[2]>>] = @ + 1]
           /\ \A x \in EventNames : events'[<<x, p[1], p[2]>>] =
                 events[<<x, p[1], p[2]>>] + (IF x = n THEN 1 ELSE 0)
  <1>1. \A x \in EventNames :
          <<x, p[1], p[2]>> \in EventNames \X ApiKeys \X (Addresses \cup {NoAddress})
          /\ events[<<x, p[1], p[2]>>] \in Nat
    BY PairTypes
  <1>2. events' = [events EXCEPT ![<<n, p[1], p[2]>>] = @ + 1]
    BY DEF Raise
  <1>3. ASSUME NEW x \in EventNames
        PROVE  events'[<<x, p[1], p[2]>>] =
                 events[<<x, p[1], p[2]>>] + (IF x = n THEN 1 ELSE 0)
    <2>1. CASE x = n
      BY <1>1, <1>2, <2>1 DEF InboundTyped
    <2>2. CASE x # n
      <3>1. <<x, p[1], p[2]>> # <<n, p[1], p[2]>>
        BY <2>2
      <3> QED BY <1>1, <1>2, <2>2, <3>1 DEF InboundTyped
    <2> QED BY <2>1, <2>2
  <1> QED BY <1>2, <1>3

\* An unsubscribe: the row is permanent afterwards, the event raised if it
\* was not before.
LEMMA UnsubscribeSound ==
    ASSUME ListKept, NEW e \in Emails, NEW a \in Addresses, Unsubscribe(e, a),
           UNCHANGED <<filed, operations>>
    PROVE  ListSound /\ suppression'[<<KeyOf[e], a>>].left = Forever
  <1> DEFINE k == KeyOf[e]
  <1>0. k \in ApiKeys
    BY InboundConstants
  <1>1. PICK p \in Pairs : p = <<k, a>>
    BY <1>0 DEF Pairs
  <1>2. p[1] = k /\ p[2] = a
    BY <1>1
  <1>3. PICK new \in SuppressionRow : new = AddFromUnsubscribe(suppression[p], e)
    BY Upserts, PairTypes DEF ListKept
  <1>4. /\ suppression' = [suppression EXCEPT ![p] = new]
        /\ IF Permanent(suppression[p]) THEN events' = events
           ELSE Raise("email.unsubscribed", p[1], p[2])
    <2>1. /\ suppression' = [suppression EXCEPT ![<<k, a>>] =
                                AddFromUnsubscribe(suppression[<<k, a>>], e)]
          /\ IF Permanent(suppression[<<k, a>>]) THEN events' = events
             ELSE Raise("email.unsubscribed", k, a)
      BY DEF Unsubscribe
    <2> QED BY <1>1, <1>2, <1>3, <2>1
  <1>5. suppression'[p] = new /\ new.left = Forever
    BY <1>3, <1>4, PairTypes DEF ListKept, InboundTyped, AddFromUnsubscribe, Permanent
  <1>6. /\ RowKept(p) /\ operations \in Nat
        /\ filed[p].hard \in Nat /\ filed[p].soft \in Nat
        /\ \A x \in EventNames : events[<<x, p[1], p[2]>>] \in Nat
    BY PairTypes DEF ListKept
  <1>9. /\ filed' \in [Pairs -> [hard : Nat, soft : Nat]]
        /\ \A q \in Pairs : q # p => filed'[q] = filed[q]
        /\ filed'[p].hard >= filed[p].hard /\ filed'[p].soft >= filed[p].soft
        /\ operations' \in Nat /\ operations' >= operations
    BY <1>6 DEF ListKept, InboundTyped
  <1>7. CASE Permanent(suppression[p])
    <2>1. new = suppression[p] /\ events' = events
      BY <1>3, <1>4, <1>7 DEF AddFromUnsubscribe
    <2>2. RowKept(p)'
      BY <1>5, <1>6, <2>1 DEF RowKept
    <2>3. "email.unsubscribed" \in EventNames
      BY DEF EventNames
    <2>4. ListSound
      BY <1>4, <1>5, <2>1, <2>2, <2>3, <1>9, OneRow
    <2> QED BY <1>1, <1>5, <2>4
  <1>8. CASE ~Permanent(suppression[p])
    <2>1. "email.unsubscribed" \in EventNames /\ "email.complained" \in EventNames
      BY DEF EventNames
    <2>2. Raise("email.unsubscribed", p[1], p[2])
      BY <1>4, <1>8
    <2>3. /\ events' = [events EXCEPT ![<<"email.unsubscribed", p[1], p[2]>>] = @ + 1]
          /\ events'[<<"email.unsubscribed", p[1], p[2]>>] =
                events[<<"email.unsubscribed", p[1], p[2]>>] + 1
          /\ events'[<<"email.complained", p[1], p[2]>>] =
                events[<<"email.complained", p[1], p[2]>>]
      BY <2>1, <2>2, <1>6, RaisedForPair DEF ListKept
    <2>4. new = [reason |-> "unsubscribe", bounce |-> "none", source |-> e, left |-> Forever]
      BY <1>3, <1>8 DEF AddFromUnsubscribe
    <2>5. RowKept(p)'
      BY <1>5, <1>6, <1>8, <2>1, <2>3, <2>4 DEF RowKept, Permanent
    <2>6. ListSound
      BY <1>4, <1>5, <1>6, <2>1, <2>3, <2>5, <1>9, OneRow
    <2> QED BY <1>1, <1>5, <2>6
  <1> QED BY <1>7, <1>8

\* A complaint: told if it changed the row.
LEMMA ComplainSound ==
    ASSUME ListKept, NEW e \in Emails, NEW a \in Addresses, Complain(e, a),
           UNCHANGED <<filed, operations>>
    PROVE  ListSound
  <1> DEFINE k == KeyOf[e]
  <1>0. k \in ApiKeys
    BY InboundConstants
  <1>1. PICK p \in Pairs : p = <<k, a>>
    BY <1>0 DEF Pairs
  <1>2. p[1] = k /\ p[2] = a
    BY <1>1
  <1>3. PICK new \in SuppressionRow : new = AddFromComplaint(suppression[p], e)
    BY Upserts, PairTypes DEF ListKept
  <1>4. /\ suppression' = [suppression EXCEPT ![p] = new]
        /\ IF new = suppression[p] THEN events' = events
           ELSE Raise("email.complained", p[1], p[2])
    <2>1. /\ suppression' = [suppression EXCEPT ![<<k, a>>] =
                                AddFromComplaint(suppression[<<k, a>>], e)]
          /\ IF AddFromComplaint(suppression[<<k, a>>], e) = suppression[<<k, a>>]
             THEN events' = events
             ELSE Raise("email.complained", k, a)
      BY DEF Complain
    <2> QED BY <1>1, <1>2, <1>3, <2>1
  <1>5. /\ suppression'[p] = new /\ new.left = Forever
        /\ \/ new = suppression[p]
           \/ /\ new = [reason |-> "complaint", bounce |-> "none", source |-> e, left |-> Forever]
              /\ ~(Permanent(suppression[p]) /\ suppression[p].reason = "complaint")
    BY <1>3, <1>4, PairTypes DEF ListKept, InboundTyped, AddFromComplaint, Permanent
  <1>6. /\ RowKept(p) /\ operations \in Nat
        /\ filed[p].hard \in Nat /\ filed[p].soft \in Nat
        /\ \A x \in EventNames : events[<<x, p[1], p[2]>>] \in Nat
        /\ "email.unsubscribed" \in EventNames /\ "email.complained" \in EventNames
    BY PairTypes DEF ListKept, EventNames
  <1>9. /\ filed' \in [Pairs -> [hard : Nat, soft : Nat]]
        /\ \A q \in Pairs : q # p => filed'[q] = filed[q]
        /\ filed'[p].hard >= filed[p].hard /\ filed'[p].soft >= filed[p].soft
        /\ operations' \in Nat /\ operations' >= operations
    BY <1>6 DEF ListKept, InboundTyped
  <1>7. CASE new = suppression[p]
    <2>1. events' = events
      BY <1>4, <1>7
    <2>2. RowKept(p)'
      BY <1>5, <1>6, <1>7, <2>1 DEF RowKept
    <2> QED BY <1>4, <1>5, <1>6, <2>1, <2>2, <1>9, OneRow
  <1>8. CASE new # suppression[p]
    <2>2. Raise("email.complained", p[1], p[2])
      BY <1>4, <1>8
    <2>3. /\ events' = [events EXCEPT ![<<"email.complained", p[1], p[2]>>] = @ + 1]
          /\ events'[<<"email.complained", p[1], p[2]>>] =
                events[<<"email.complained", p[1], p[2]>>] + 1
          /\ events'[<<"email.unsubscribed", p[1], p[2]>>] =
                events[<<"email.unsubscribed", p[1], p[2]>>]
      BY <2>2, <1>6, RaisedForPair DEF ListKept
    <2>5. RowKept(p)'
      BY <1>5, <1>6, <1>8, <2>3 DEF RowKept, Permanent
    <2> QED BY <1>4, <1>5, <1>6, <2>3, <2>5, <1>9, OneRow
  <1> QED BY <1>7, <1>8

\* A bounce is counted under its kind.
LEMMA Counted ==
    ASSUME InboundTyped, NEW p \in Pairs, NEW kind \in {"hard", "soft"},
           filed' = [filed EXCEPT ![p][kind] = @ + 1]
    PROVE  /\ filed' \in [Pairs -> [hard : Nat, soft : Nat]]
           /\ \A q \in Pairs : q # p => filed'[q] = filed[q]
           /\ filed'[p].hard = filed[p].hard + (IF kind = "hard" THEN 1 ELSE 0)
           /\ filed'[p].soft = filed[p].soft + (IF kind = "soft" THEN 1 ELSE 0)
           /\ filed'[p][kind] > 0
  <1>1. filed \in [Pairs -> [hard : Nat, soft : Nat]]
    BY DEF InboundTyped
  <1>2. CASE kind = "hard"
    BY <1>1, <1>2
  <1>3. CASE kind = "soft"
    BY <1>1, <1>3
  <1> QED BY <1>2, <1>3

\* A bounce that was read as repeated has a soft one on file.
LEMMA FileBounceSound ==
    ASSUME ListKept, NEW e \in Emails, NEW a \in Addresses,
           NEW kind \in {"hard", "soft"}, NEW existing \in {"none", "hard", "soft"},
           existing = "soft" => filed[<<KeyOf[e], a>>].soft >= 1,
           FileBounce(e, a, kind, existing), UNCHANGED operations
    PROVE  ListSound /\ filed'[<<KeyOf[e], a>>][kind] > 0
  <1> DEFINE k == KeyOf[e]
  <1>0. k \in ApiKeys
    BY InboundConstants
  <1>1. PICK p \in Pairs : p = <<k, a>>
    BY <1>0 DEF Pairs
  <1>2. p[1] = k /\ p[2] = a
    BY <1>1
  <1>3. PICK as \in {"hard", "soft"} : as = EscalateIfRepeat(kind, existing)
    BY DEF EscalateIfRepeat
  <1>4. PICK new \in SuppressionRow : new = AddFromBounce(suppression[p], as, e)
    BY Upserts, PairTypes DEF ListKept
  <1>5. /\ suppression' = [suppression EXCEPT ![p] = new]
        /\ Raise("email.bounced", p[1], p[2])
        /\ filed' = [filed EXCEPT ![p][kind] = @ + 1]
    <2>1. /\ suppression' = [suppression EXCEPT ![<<k, a>>] =
                AddFromBounce(suppression[<<k, a>>], EscalateIfRepeat(kind, existing), e)]
          /\ Raise("email.bounced", k, a)
          /\ filed' = [filed EXCEPT ![<<k, a>>][kind] = @ + 1]
      BY DEF FileBounce
    <2> QED BY <1>1, <1>2, <1>3, <1>4, <2>1
  <1>6. /\ RowKept(p) /\ operations \in Nat
        /\ filed[p].hard \in Nat /\ filed[p].soft \in Nat
        /\ \A x \in EventNames : events[<<x, p[1], p[2]>>] \in Nat
        /\ "email.unsubscribed" \in EventNames /\ "email.complained" \in EventNames
        /\ "email.bounced" \in EventNames
    BY PairTypes DEF ListKept, EventNames
  <1>7. /\ filed' \in [Pairs -> [hard : Nat, soft : Nat]]
        /\ \A q \in Pairs : q # p => filed'[q] = filed[q]
        /\ filed'[p].hard = filed[p].hard + (IF kind = "hard" THEN 1 ELSE 0)
        /\ filed'[p].soft = filed[p].soft + (IF kind = "soft" THEN 1 ELSE 0)
        /\ filed'[p][kind] > 0
    BY <1>5, Counted DEF ListKept
  <1>8. /\ events' = [events EXCEPT ![<<"email.bounced", p[1], p[2]>>] = @ + 1]
        /\ events'[<<"email.complained", p[1], p[2]>>] =
              events[<<"email.complained", p[1], p[2]>>]
        /\ events'[<<"email.unsubscribed", p[1], p[2]>>] =
              events[<<"email.unsubscribed", p[1], p[2]>>]
    BY <1>5, <1>6, RaisedForPair DEF ListKept
  <1>9. suppression'[p] = new
    BY <1>5 DEF ListKept, InboundTyped
  <1>10. RowKept(p)'
    <2>1. CASE Permanent(suppression[p])
      <3>1. new = suppression[p]
        BY <1>4, <2>1 DEF AddFromBounce
      <3> QED BY <1>6, <1>7, <1>8, <1>9, <3>1 DEF RowKept, Permanent
    <2>2. CASE ~Permanent(suppression[p])
      <3>1. new = [reason |-> "bounce", bounce |-> as, source |-> e,
                   left |-> IF as = "hard" THEN Forever ELSE SoftWindow]
        BY <1>4, <2>2 DEF AddFromBounce
      <3>2. as = "soft" => filed'[p].soft >= 1
        BY <1>3, <1>6, <1>7 DEF EscalateIfRepeat
      <3>3. as = "hard" => filed'[p].hard >= 1 \/ filed'[p].soft >= 2
        BY <1>1, <1>3, <1>6, <1>7 DEF EscalateIfRepeat
      <3>4. /\ events[<<"email.unsubscribed", p[1], p[2]>>] \in Nat
            /\ events[<<"email.complained", p[1], p[2]>>] \in Nat
        BY <1>6
      <3>5. /\ events'[<<"email.unsubscribed", p[1], p[2]>>] <= operations'
            /\ events'[<<"email.complained", p[1], p[2]>>] <= operations'
            /\ events'[<<"email.unsubscribed", p[1], p[2]>>] \in Nat
            /\ events'[<<"email.complained", p[1], p[2]>>] \in Nat
            /\ operations' \in Nat
        BY <1>6, <1>8, <2>2, <3>4 DEF RowKept
      <3>6. /\ suppression'[p].bounce = as /\ suppression'[p].reason = "bounce"
        BY <1>9, <3>1
      <3>7. /\ suppression'[p].bounce = "soft" => filed'[p].soft >= 1
            /\ suppression'[p].bounce = "hard" => filed'[p].hard >= 1 \/ filed'[p].soft >= 2
            /\ suppression'[p].reason # "complaint"
        BY <3>2, <3>3, <3>6
      <3> QED BY <3>5, <3>7 DEF RowKept
    <2> QED BY <2>1, <2>2
  <1>11. Permanent(suppression[p]) => new.left = Forever
    BY <1>4 DEF AddFromBounce, Permanent
  <1>12. /\ filed'[p].hard >= filed[p].hard /\ filed'[p].soft >= filed[p].soft
         /\ operations' \in Nat /\ operations' >= operations
    BY <1>6, <1>7
  <1>13. ListSound
    BY <1>5, <1>6, <1>7, <1>8, <1>10, <1>11, <1>12, OneRow
  <1> QED BY <1>1, <1>7, <1>13

\* Events of other kinds, or of a recipient who is not known, say nothing of
\* the rows.
LEMMA OtherEventSound ==
    ASSUME ListKept, NEW n \in EventNames, NEW k \in ApiKeys,
           NEW a \in Addresses \cup {NoAddress}, Raise(n, k, a),
           n = "email.failed" \/ a = NoAddress,
           UNCHANGED <<suppression, filed, operations>>
    PROVE  ListSound
  <1> DEFINE Places == EventNames \X ApiKeys \X (Addresses \cup {NoAddress})
  <1>1. PICK x \in Places : x = <<n, k, a>>
    OBVIOUS
  <1>2. events \in [Places -> Nat] /\ events' = [events EXCEPT ![x] = events[x] + 1]
    BY <1>1 DEF ListKept, InboundTyped, Raise
  <1>3. ASSUME NEW p \in Pairs, NEW y \in {"email.unsubscribed", "email.complained"}
        PROVE  /\ events'[<<y, p[1], p[2]>>] = events[<<y, p[1], p[2]>>]
               /\ events[<<y, p[1], p[2]>>] \in Nat
    <2>1. p[2] \in Addresses /\ p[2] # NoAddress
      BY InboundConstants, PairTypes DEF ListKept
    <2>2. <<y, p[1], p[2]>> # x
      BY <1>1, <2>1
    <2>3. <<y, p[1], p[2]>> \in Places
      BY PairTypes DEF ListKept, EventNames
    <2> HIDE DEF Places
    <2> QED BY <1>2, <2>2, <2>3
  <1>4. events' \in [Places -> Nat]
    <2> HIDE DEF Places
    <2> QED BY <1>2
  <1>5. ASSUME NEW p \in Pairs
        PROVE  /\ RowKept(p)'
               /\ filed'[p].hard >= filed[p].hard /\ filed'[p].soft >= filed[p].soft
               /\ Permanent(suppression[p]) => suppression'[p].left = Forever
    <2>1. RowKept(p) /\ filed[p].hard \in Nat /\ filed[p].soft \in Nat
      BY PairTypes DEF ListKept
    <2>2. /\ events'[<<"email.unsubscribed", p[1], p[2]>>] =
                events[<<"email.unsubscribed", p[1], p[2]>>]
          /\ events'[<<"email.complained", p[1], p[2]>>] =
                events[<<"email.complained", p[1], p[2]>>]
      BY <1>3
    <2> QED BY <2>1, <2>2 DEF RowKept, Permanent
  <1> QED BY <1>4, <1>5 DEF ListSound, ListKept, InboundTyped

\* Operations by hand.
LEMMA CreateManuallySound ==
    ASSUME ListKept, NEW k \in ApiKeys, NEW a \in Addresses, NEW entry \in ManualEntries,
           CreateManually(k, a, entry)
    PROVE  ListSound
  <1>0. PICK p \in Pairs : p = <<k, a>>
    BY DEF Pairs
  <1>1. p = <<k, a>> /\ p[1] = k /\ p[2] = a
    BY <1>0
  <1>2. PICK new \in SuppressionRow :
          new = CreateSuppression(suppression[p], entry.reason, entry.left)
    <2>1. suppression[p] \in SuppressionRow
      BY PairTypes DEF ListKept
    <2>2. CreateSuppression(suppression[p], entry.reason, entry.left) \in SuppressionRow
      BY <2>1, InboundConstants DEF CreateSuppression, SuppressionRow, Permanent
    <2> QED BY <2>2
  <1>3. /\ suppression' = [suppression EXCEPT ![p] = new]
        /\ events' = events /\ filed' = filed /\ operations' = operations + 1
    BY <1>1, <1>2 DEF CreateManually
  <1>4. suppression'[p] = new
    BY <1>3 DEF ListKept, InboundTyped
  <1>5. /\ RowKept(p) /\ operations \in Nat
        /\ filed[p].hard \in Nat /\ filed[p].soft \in Nat
        /\ \A x \in EventNames : events[<<x, p[1], p[2]>>] \in Nat
        /\ "email.unsubscribed" \in EventNames /\ "email.complained" \in EventNames
    BY PairTypes DEF ListKept, EventNames
  <1>6. RowKept(p)'
    <2>1. /\ events'[<<"email.unsubscribed", p[1], p[2]>>] <= operations'
          /\ events'[<<"email.complained", p[1], p[2]>>] <= operations'
      BY <1>3, <1>5 DEF RowKept
    <2>2. /\ new.bounce = "soft" => filed[p].soft >= 1
          /\ new.bounce = "hard" => filed[p].hard >= 1 \/ filed[p].soft >= 2
          /\ new.reason = "complaint" /\ new.source # NoEmail =>
                events[<<"email.complained", p[1], p[2]>>] >= 1
      BY <1>2, <1>5 DEF CreateSuppression, RowKept
    <2>3. events'[<<"email.unsubscribed", p[1], p[2]>>] \in Nat
          /\ events'[<<"email.complained", p[1], p[2]>>] \in Nat /\ operations' \in Nat
      BY <1>3, <1>5
    <2> QED BY <1>3, <1>4, <2>1, <2>2, <2>3 DEF RowKept
  <1>7. /\ filed' \in [Pairs -> [hard : Nat, soft : Nat]]
        /\ \A q \in Pairs : q # p => filed'[q] = filed[q]
        /\ filed'[p].hard >= filed[p].hard /\ filed'[p].soft >= filed[p].soft
        /\ operations' \in Nat /\ operations' >= operations /\ operations' > 0
    BY <1>3, <1>5 DEF ListKept, InboundTyped
  <1> QED BY <1>3, <1>5, <1>6, <1>7, OneRow

\* A deletion takes the row and counts as an operation.
LEMMA DeleteSound ==
    ASSUME ListKept, NEW k \in ApiKeys, NEW a \in Addresses, DeleteSuppression(k, a)
    PROVE  ListSound
  <1>0. PICK p \in Pairs : p = <<k, a>>
    BY DEF Pairs
  <1>1. p = <<k, a>> /\ p[1] = k /\ p[2] = a
    BY <1>0
  <1>2. NoRow \in SuppressionRow
    BY DEF NoRow, SuppressionRow
  <1>3. /\ suppression' = [suppression EXCEPT ![p] = NoRow]
        /\ events' = events /\ filed' = filed /\ operations' = operations + 1
    BY <1>1 DEF DeleteSuppression
  <1>4. suppression'[p] = NoRow
    BY <1>3 DEF ListKept, InboundTyped
  <1>5. /\ RowKept(p) /\ operations \in Nat
        /\ filed[p].hard \in Nat /\ filed[p].soft \in Nat
        /\ \A x \in EventNames : events[<<x, p[1], p[2]>>] \in Nat
        /\ "email.unsubscribed" \in EventNames /\ "email.complained" \in EventNames
    BY PairTypes DEF ListKept, EventNames
  <1>6. RowKept(p)'
    <2>1. /\ events'[<<"email.unsubscribed", p[1], p[2]>>] <= operations'
          /\ events'[<<"email.complained", p[1], p[2]>>] <= operations'
      BY <1>3, <1>5 DEF RowKept
    <2>2. /\ events'[<<"email.unsubscribed", p[1], p[2]>>] \in Nat
          /\ events'[<<"email.complained", p[1], p[2]>>] \in Nat /\ operations' \in Nat
      BY <1>3, <1>5
    <2> QED BY <1>4, <2>1, <2>2 DEF RowKept, NoRow, Permanent, Forever
  <1>7. /\ filed' \in [Pairs -> [hard : Nat, soft : Nat]]
        /\ \A q \in Pairs : q # p => filed'[q] = filed[q]
        /\ filed'[p].hard >= filed[p].hard /\ filed'[p].soft >= filed[p].soft
        /\ operations' \in Nat /\ operations' >= operations /\ operations' > 0
    BY <1>3, <1>5 DEF ListKept, InboundTyped
  <1> QED BY <1>2, <1>3, <1>5, <1>6, <1>7, OneRow

\* Ageing leaves permanent rows and what a row says alone.
LEMMA AgeSound ==
    ASSUME ListKept, TimePasses
    PROVE  ListSound
  <1>1. /\ suppression' = [p \in Pairs |-> AgedRow(suppression[p])]
        /\ events' = events /\ filed' = filed /\ operations' = operations
    BY DEF TimePasses
  <1>2. ASSUME NEW p \in Pairs
        PROVE  /\ suppression'[p] \in SuppressionRow
               /\ suppression'[p].reason = suppression[p].reason
               /\ suppression'[p].bounce = suppression[p].bounce
               /\ suppression'[p].source = suppression[p].source
               /\ Permanent(suppression[p]) <=> suppression'[p].left = Forever
    <2>1. suppression[p] \in SuppressionRow /\ suppression'[p] = AgedRow(suppression[p])
      BY <1>1, PairTypes DEF ListKept
    <2> QED BY <2>1 DEF AgedRow, SuppressionRow, Permanent, Forever
  <1>3. ASSUME NEW p \in Pairs
        PROVE  /\ RowKept(p)'
               /\ filed'[p].hard >= filed[p].hard /\ filed'[p].soft >= filed[p].soft
    <2>1. RowKept(p) /\ filed[p].hard \in Nat /\ filed[p].soft \in Nat
      BY PairTypes DEF ListKept
    <2> QED BY <1>1, <1>2, <2>1 DEF RowKept, Permanent
  <1>4. suppression' \in [Pairs -> SuppressionRow]
    BY <1>1, <1>2
  <1> QED BY <1>1, <1>2, <1>3, <1>4 DEF ListSound, ListKept, InboundTyped

-----------------------------------------------------------------------------
(* What no step undoes.                                                    *)

\* The shared state moves on: besides the list, purged emails stay purged and
\* stored messages and reports stay stored.
Onward ==
    /\ ListSound
    /\ status' \in [Emails -> {"open", "sent", "failed", "bounced", "purged"}]
    /\ \A e \in Emails : status[e] = "purged" => status'[e] = "purged"
    /\ inbox' \in [Messages -> Nat]
    /\ \A m \in Messages : inbox'[m] >= inbox[m]
    /\ reports \subseteq reports'
    /\ reports' \subseteq {MailOf[m].body.dmarc : m \in Messages}
    /\ failures' \in Nat

\* What a recipient was done stays done.
LEMMA CarriedRecipient ==
    ASSUME InboundTyped, Onward, NEW r,
           r.kind \in {"return", "unsub"} => r.email \in Emails \cup {NoEmail}
    PROVE  /\ r.kind = "return" /\ ResolveReturnPath(r)' => ResolveReturnPath(r)
           /\ HasLeft(r) => HasLeft(r)'
  <1>1. ASSUME r.kind \in {"return", "unsub"}, Exists(r.email)'
        PROVE  Exists(r.email)
    BY <1>1 DEF Exists, Onward
  <1>2. r.kind = "return" /\ ResolveReturnPath(r)' => ResolveReturnPath(r)
    BY <1>1 DEF ResolveReturnPath
  <1>3. ASSUME HasLeft(r), r.kind = "unsub", ResolveUnsubscribeToken(r)'
        PROVE  \/ suppression'[<<KeyOf[r.email], RecipientsOf[r.email][1]>>].left = Forever
               \/ operations' > 0
    <2>1. ResolveUnsubscribeToken(r) /\ Exists(r.email) /\ Len(RecipientsOf[r.email]) = 1
      BY <1>1, <1>3 DEF ResolveUnsubscribeToken
    <2>2. r.email \in Emails \cup {NoEmail}
      BY <1>3
    <2>3. PICK p \in Pairs : p = <<KeyOf[r.email], RecipientsOf[r.email][1]>>
      <3>1. \A i \in 1..Len(RecipientsOf[r.email]) :
              <<KeyOf[r.email], RecipientsOf[r.email][i]>> \in Pairs
        BY <2>1, <2>2, Existing
      <3>2. 1 \in 1..Len(RecipientsOf[r.email])
        BY <2>1
      <3> QED BY <3>1, <3>2
    <2>4. Permanent(suppression[p]) \/ operations > 0
      BY <1>3, <2>1, <2>3 DEF HasLeft
    <2>5. /\ Permanent(suppression[p]) => suppression'[p].left = Forever \/ operations' > 0
          /\ operations' >= operations /\ operations' \in Nat /\ operations \in Nat
      BY DEF Onward, ListSound, InboundTyped
    <2> QED BY <2>3, <2>4, <2>5
  <1>4. HasLeft(r) => HasLeft(r)'
    BY <1>3 DEF HasLeft, Permanent
  <1> QED BY <1>2, <1>4

\* A bounce on file stays on file.
LEMMA CarriedFile ==
    ASSUME InboundTyped, Onward, NEW b \in Binding
    PROVE  /\ \A kind : OnFile(b, kind) => OnFile(b, kind)'
           /\ filed[PairOf(b)].soft >= 1 => filed'[PairOf(b)].soft >= 1
           /\ PairOf(b) \in Pairs
  <1>1. PICK p \in Pairs : p = PairOf(b)
    BY InboundConstants DEF PairOf, Pairs, Binding
  <1>2. /\ filed[p] \in [hard : Nat, soft : Nat] /\ filed'[p] \in [hard : Nat, soft : Nat]
        /\ filed'[p].hard >= filed[p].hard /\ filed'[p].soft >= filed[p].soft
    BY DEF Onward, ListSound, InboundTyped
  <1>3. ASSUME NEW kind \in {"hard", "soft"}
        PROVE  filed[p][kind] > 0 => filed'[p][kind] > 0
    BY <1>2
  <1>4. ASSUME NEW kind, OnFile(b, kind)
        PROVE  OnFile(b, kind)'
    BY <1>1, <1>3, <1>4 DEF OnFile, PairOf
  <1>5. filed[p].soft >= 1 => filed'[p].soft >= 1
    BY <1>2
  <1> QED BY <1>1, <1>4, <1>5

\* A message that is stored stays stored.
LEMMA CarriedStored ==
    ASSUME InboundTyped, Onward, NEW m \in Messages, Stored(m)
    PROVE  Stored(m)'
  <1>1. inbox[m] \in Nat /\ inbox'[m] \in Nat /\ inbox'[m] >= inbox[m] /\ reports \subseteq reports'
    BY DEF InboundTyped, Onward
  <1> QED BY <1>1 DEF Stored

\* The work of a handler that this step does not move.
LEMMA CarriedWork ==
    ASSUME InboundTyped, Onward, NEW s \in Work, WorkKept(s), remote'[s.msg] = "sending"
    PROVE  WorkKept(s)'
  <1> DEFINE sentTo == MailOf[s.msg].rcpts
  <1>1. /\ s.msg \in Messages /\ s.next \in Nat /\ s.next > 0
        /\ Len(s.binds) \in Nat /\ \A j \in 1..Len(s.binds) : s.binds[j] \in Binding
    BY DEF Work
  <1>2. s.pc \in {"bounce", "file"} => Kind(s.msg) # "none" /\ s.next <= Len(s.binds)
    BY DEF WorkKept
  <1>3. s.pc = "file" => Kind(s.msg) \in {"hard", "soft"}
    BY DEF WorkKept
  <1>4. s.pc = "file" /\ s.existing = "soft" => filed'[PairOf(s.binds[s.next])].soft >= 1
    <2>1. SUFFICES ASSUME s.pc = "file", s.existing = "soft"
                   PROVE  filed'[PairOf(s.binds[s.next])].soft >= 1
      OBVIOUS
    <2>2. s.binds[s.next] \in Binding /\ filed[PairOf(s.binds[s.next])].soft >= 1
      BY <1>1, <1>2, <2>1 DEF WorkKept
    <2> QED BY <2>2, CarriedFile
  <1>5. ASSUME NEW i \in 1..Len(sentTo), s.pc # "rcpt" \/ i < s.next
        PROVE  Bound(s.binds, sentTo[i])' /\ HasLeft(sentTo[i])'
    <2>1. sentTo[i].kind \in {"return", "unsub"} => sentTo[i].email \in Emails \cup {NoEmail}
      BY <1>1, Recipients
    <2>2. Bound(s.binds, sentTo[i]) /\ HasLeft(sentTo[i])
      BY <1>5 DEF WorkKept
    <2>3. /\ sentTo[i].kind = "return" /\ ResolveReturnPath(sentTo[i])' =>
                ResolveReturnPath(sentTo[i])
          /\ HasLeft(sentTo[i])'
      BY <2>1, <2>2, CarriedRecipient
    <2>4. Bound(s.binds, sentTo[i])'
      BY <2>2, <2>3 DEF Bound, Bind
    <2> QED BY <2>3, <2>4
  <1>6. ASSUME NEW j \in 1..Len(s.binds),
               s.pc \in {"body", "ok"} \/ (s.pc \in {"bounce", "file"} /\ j < s.next)
        PROVE  OnFile(s.binds[j], Kind(s.msg))'
    <2>1. OnFile(s.binds[j], Kind(s.msg)) /\ s.binds[j] \in Binding
      BY <1>1, <1>6 DEF WorkKept
    <2>2. PICK k : k = Kind(s.msg)
      OBVIOUS
    <2>3. OnFile(s.binds[j], k)'
      BY <2>1, <2>2, CarriedFile
    <2> QED BY <2>2, <2>3 DEF Kind
  <1>7. s.pc = "ok" => Stored(s.msg)'
    BY <1>1, CarriedStored DEF WorkKept
  <1> QED BY <1>2, <1>3, <1>4, <1>5, <1>6, <1>7 DEF WorkKept, Kind, PairOf

\* What was done of a message that was accepted before.
LEMMA CarriedMessage ==
    ASSUME InboundTyped, Onward, NEW m \in Messages, MessageKept(m),
           remote'[m] = "accepted" => remote[m] = "accepted"
    PROVE  MessageKept(m)'
  <1> DEFINE sentTo == MailOf[m].rcpts
  <1>1. SUFFICES ASSUME remote'[m] = "accepted", remote[m] = "accepted"
                 PROVE  MessageKept(m)'
    BY DEF MessageKept
  <1>2. ASSUME NEW i \in 1..Len(sentTo)
        PROVE  /\ sentTo[i].kind = "return" /\ ResolveReturnPath(sentTo[i])' =>
                    OnFile(Bind(sentTo[i]), Kind(m))'
               /\ HasLeft(sentTo[i])'
    <2>1. sentTo[i].kind \in {"return", "unsub"} => sentTo[i].email \in Emails \cup {NoEmail}
      BY Recipients
    <2>2. /\ sentTo[i].kind = "return" /\ ResolveReturnPath(sentTo[i]) =>
                OnFile(Bind(sentTo[i]), Kind(m))
          /\ HasLeft(sentTo[i])
      BY <1>1 DEF MessageKept
    <2>3. /\ sentTo[i].kind = "return" /\ ResolveReturnPath(sentTo[i])' =>
                ResolveReturnPath(sentTo[i])
          /\ HasLeft(sentTo[i])'
      BY <2>1, <2>2, CarriedRecipient
    <2>4. ASSUME sentTo[i].kind = "return", ResolveReturnPath(sentTo[i])
          PROVE  OnFile(Bind(sentTo[i]), Kind(m))'
      <3>1. PICK b \in Binding : b = Bind(sentTo[i])
        BY <2>1, <2>4, Existing DEF Bind, Binding, ResolveReturnPath
      <3>2. PICK k : k = Kind(m)
        OBVIOUS
      <3>3. OnFile(b, k)'
        BY <2>2, <2>4, <3>1, <3>2, CarriedFile
      <3> QED BY <3>1, <3>2, <3>3 DEF Bind, Kind
    <2> QED BY <2>3, <2>4
  <1>3. Stored(m)'
    BY <1>1, CarriedStored DEF MessageKept
  <1> QED BY <1>2, <1>3 DEF MessageKept

-----------------------------------------------------------------------------
(* How a step takes the invariant on.                                      *)

\* A handler at work, as the invariant has it.
LEMMA AtWork ==
    ASSUME InboundKept, NEW h \in Handlers, handler[h] # Idle
    PROVE  handler[h] \in Work /\ WorkKept(handler[h]) /\ handler[h].msg \in Messages
  BY DEF InboundKept, InboundTyped, Work

\* Being at work at a place.
LEMMA WorkingAt ==
    ASSUME InboundKept, NEW h \in Handlers, NEW pc, Working(h, pc)
    PROVE  /\ handler[h] # Idle /\ handler[h].pc = pc
           /\ handler[h] \in Work /\ WorkKept(handler[h]) /\ handler[h].msg \in Messages
  BY AtWork DEF Working

\* Steps that touch no handler and no message.
LEMMA Elsewhere ==
    ASSUME InboundKept, Onward, UNCHANGED <<handler, remote>>
    PROVE  InboundKept'
  <1>1. InboundTyped'
    BY DEF InboundKept, InboundTyped, Onward, ListSound
  <1>2. \A p \in Pairs : RowKept(p)'
    BY DEF Onward, ListSound
  <1>3. OneHandlerEach'
    BY DEF InboundKept, OneHandlerEach
  <1>4. ASSUME NEW h \in Handlers, handler[h] # Idle
        PROVE  WorkKept(handler[h])'
    <2>1. PICK s \in Work : s = handler[h]
      BY <1>4, AtWork
    <2>2. WorkKept(s) /\ remote'[s.msg] = "sending"
      BY <1>4, <2>1, AtWork DEF WorkKept
    <2>3. WorkKept(s)'
      BY <2>2, CarriedWork DEF InboundKept
    <2>4. s = handler'[h]
      BY <2>1
    <2> QED BY <2>3, <2>4
  <1>5. ASSUME NEW m \in Messages
        PROVE  MessageKept(m)'
    BY CarriedMessage DEF InboundKept
  <1> QED BY <1>1, <1>2, <1>3, <1>4, <1>5 DEF InboundKept

\* A handler moves on with its message.
LEMMA OwnStep ==
    ASSUME InboundKept, Onward, NEW h \in Handlers, handler[h] # Idle,
           NEW new \in Work, new.msg = handler[h].msg,
           handler' = [handler EXCEPT ![h] = new], UNCHANGED remote,
           WorkKept(new)'
    PROVE  InboundKept'
  <1>1. /\ handler' \in [Handlers -> {Idle} \cup Work] /\ handler'[h] = new
        /\ \A g \in Handlers : g # h => handler'[g] = handler[g]
    BY DEF InboundKept, InboundTyped
  <1>2. InboundTyped'
    BY <1>1 DEF InboundKept, InboundTyped, Onward, ListSound
  <1>3. \A p \in Pairs : RowKept(p)'
    BY DEF Onward, ListSound
  <1>4. OneHandlerEach'
    BY <1>1 DEF InboundKept, OneHandlerEach
  <1>5. ASSUME NEW g \in Handlers, handler'[g] # Idle
        PROVE  WorkKept(handler[g])'
    <2>1. CASE g = h
      BY <1>1, <2>1
    <2>2. CASE g # h
      <3>1. PICK s \in Work : s = handler[g] /\ handler[g] # Idle
        BY <1>1, <1>5, <2>2, AtWork
      <3>2. WorkKept(s) /\ remote'[s.msg] = "sending"
        BY <3>1, AtWork DEF WorkKept
      <3>3. WorkKept(s)'
        BY <3>2, CarriedWork DEF InboundKept
      <3>4. s = handler'[g]
        BY <1>1, <2>2, <3>1
      <3> QED BY <3>3, <3>4
    <2> QED BY <2>1, <2>2
  <1>6. ASSUME NEW m \in Messages
        PROVE  MessageKept(m)'
    BY CarriedMessage DEF InboundKept
  <1> QED BY <1>2, <1>3, <1>4, <1>5, <1>6 DEF InboundKept

\* A handler is done with its message, which is answered or waits again.
LEMMA HandlerReleased ==
    ASSUME InboundKept, Onward, NEW h \in Handlers, handler[h] # Idle,
           handler' = [handler EXCEPT ![h] = Idle],
           NEW reply \in {"accepted", "waiting"},
           remote' = [remote EXCEPT ![handler[h].msg] = reply],
           NEW mine \in Messages, mine = handler[h].msg,
           reply = "accepted" => MessageKept(mine)'
    PROVE  InboundKept'
  <1>1. /\ handler' \in [Handlers -> {Idle} \cup Work] /\ handler'[h] = Idle
        /\ \A g \in Handlers : g # h => handler'[g] = handler[g]
    BY DEF InboundKept, InboundTyped
  <1>2. /\ remote' \in [Messages -> {"unsent", "waiting", "sending", "accepted", "refused"}]
        /\ remote'[mine] = reply
        /\ \A m \in Messages : m # mine => remote'[m] = remote[m]
    BY DEF InboundKept, InboundTyped
  <1>3. InboundTyped'
    BY <1>1, <1>2 DEF InboundKept, InboundTyped, Onward, ListSound
  <1>4. \A p \in Pairs : RowKept(p)'
    BY DEF Onward, ListSound
  <1>5. OneHandlerEach'
    BY <1>1 DEF InboundKept, OneHandlerEach
  <1>6. ASSUME NEW g \in Handlers, handler'[g] # Idle
        PROVE  WorkKept(handler[g])'
    <2>1. g # h /\ handler'[g] = handler[g] /\ handler[g] # Idle
      BY <1>1, <1>6
    <2>2. PICK s \in Work : s = handler[g]
      BY <2>1, AtWork
    <2>3. s.msg \in Messages /\ s.msg # mine /\ WorkKept(s) /\ remote[s.msg] = "sending"
      BY <2>1, <2>2, AtWork DEF InboundKept, OneHandlerEach, WorkKept
    <2>4. WorkKept(s)'
      BY <1>2, <2>3, CarriedWork DEF InboundKept
    <2>5. s = handler'[g]
      BY <2>1, <2>2
    <2> QED BY <2>4, <2>5
  <1>7. ASSUME NEW m \in Messages
        PROVE  MessageKept(m)'
    <2>1. CASE m = mine
      <3>1. CASE reply = "accepted"
        BY <2>1, <3>1
      <3>2. CASE reply = "waiting"
        BY <1>2, <2>1, <3>2 DEF MessageKept
      <3> QED BY <3>1, <3>2
    <2>2. CASE m # mine
      BY <1>2, <2>2, CarriedMessage DEF InboundKept
    <2> QED BY <2>1, <2>2
  <1> QED BY <1>3, <1>4, <1>5, <1>6, <1>7 DEF InboundKept

\* Steps that leave the shared state, or all of it but the list, alone.
LEMMA RestOnward ==
    ASSUME InboundKept, UNCHANGED <<suppression, status, inbox, reports, events, filed, operations>>,
           failures' \in Nat
    PROVE  Onward
  <1>1. ListSound
    BY ListAtRest DEF InboundKept, ListKept
  <1>2. \A m \in Messages : inbox'[m] >= inbox[m]
    BY DEF InboundKept, InboundTyped
  <1> QED BY <1>1, <1>2 DEF Onward, InboundKept, InboundTyped

\* Steps that change the list only.
LEMMA ListOnward ==
    ASSUME InboundKept, ListSound, UNCHANGED <<status, inbox, reports, failures>>
    PROVE  Onward
  <1>2. \A m \in Messages : inbox'[m] >= inbox[m]
    BY DEF InboundKept, InboundTyped
  <1> QED BY <1>2 DEF Onward, InboundKept, InboundTyped

-----------------------------------------------------------------------------
(* The DATA handler, step by step.                                         *)

\* A message that waits has no handler, so the new one is its only one.
LEMMA ReceiveKeeps ==
    ASSUME InboundKept, NEW h \in Handlers, NEW m \in Messages, Receive(h, m)
    PROVE  InboundKept'
  <1>1. /\ handler[h] = Idle /\ remote[m] = "waiting"
        /\ UNCHANGED <<suppression, status, inbox, reports, events, filed, failures, operations>>
    BY DEF Receive
  <1>2. Onward
    BY <1>1, RestOnward DEF InboundKept, InboundTyped
  <1>3. \A p \in Pairs : RowKept(p)'
    BY <1>2 DEF Onward, ListSound
  <1>4. ASSUME NEW n \in Messages, n = m => remote'[n] # "accepted",
               n # m => remote'[n] = remote[n]
        PROVE  MessageKept(n)'
    BY <1>1, <1>2, <1>4, CarriedMessage DEF InboundKept
  <1>5. ASSUME NEW g \in Handlers, handler[g] # Idle
        PROVE  handler[g].msg # m
    BY <1>1, <1>5, AtWork DEF WorkKept
  <1>6. ASSUME NEW g \in Handlers, handler[g] # Idle, handler'[g] = handler[g],
               \A n \in Messages : n # m => remote'[n] = remote[n]
        PROVE  WorkKept(handler[g])'
    <2>1. PICK s \in Work : s = handler[g]
      BY <1>6, AtWork
    <2>2. s.msg \in Messages /\ s.msg # m /\ WorkKept(s) /\ remote'[s.msg] = "sending"
      BY <1>5, <1>6, <2>1, AtWork DEF WorkKept
    <2>3. WorkKept(s)'
      BY <1>2, <2>2, CarriedWork DEF InboundKept
    <2> QED BY <1>6, <2>1, <2>3
  <1>7. CASE MailOf[m].large
    <2>1. remote' = [remote EXCEPT ![m] = "refused"] /\ handler' = handler
      BY <1>7 DEF Receive
    <2>2. /\ remote' \in [Messages -> {"unsent", "waiting", "sending", "accepted", "refused"}]
          /\ remote'[m] # "accepted" /\ \A n \in Messages : n # m => remote'[n] = remote[n]
      BY <2>1 DEF InboundKept, InboundTyped
    <2>3. InboundTyped'
      BY <1>1, <2>1, <2>2 DEF InboundKept, InboundTyped
    <2>4. OneHandlerEach'
      BY <2>1 DEF InboundKept, OneHandlerEach
    <2> QED BY <1>3, <1>4, <1>6, <2>1, <2>2, <2>3, <2>4 DEF InboundKept
  <1>8. CASE ~MailOf[m].large
    <2>0. PICK new : new = [pc |-> "rcpt", msg |-> m, next |-> 1, binds |-> <<>>,
                            existing |-> "none"]
      OBVIOUS
    <2>1. remote' = [remote EXCEPT ![m] = "sending"] /\ handler' = [handler EXCEPT ![h] = new]
      BY <1>8, <2>0 DEF Receive
    <2>2. /\ remote' \in [Messages -> {"unsent", "waiting", "sending", "accepted", "refused"}]
          /\ remote'[m] = "sending" /\ \A n \in Messages : n # m => remote'[n] = remote[n]
      BY <2>1 DEF InboundKept, InboundTyped
    <2>3. /\ new \in Work /\ new.msg = m /\ new.pc = "rcpt" /\ new.next = 1
          /\ new.binds = <<>> /\ Len(new.binds) = 0
      BY <2>0 DEF Work
    <2>4. /\ handler' \in [Handlers -> {Idle} \cup Work] /\ handler'[h] = new
          /\ \A g \in Handlers : g # h => handler'[g] = handler[g]
      BY <2>1, <2>3 DEF InboundKept, InboundTyped
    <2>5. InboundTyped'
      BY <1>1, <2>2, <2>4 DEF InboundKept, InboundTyped
    <2>6. OneHandlerEach'
      BY <1>5, <2>3, <2>4 DEF InboundKept, OneHandlerEach
    <2>7. WorkKept(new)'
      <3>1. \A i \in 1..Len(MailOf[new.msg].rcpts) : ~(i < new.next)
        BY <2>3, Recipients
      <3>2. \A j \in 1..Len(new.binds) : FALSE
        BY <2>3
      <3> QED BY <2>2, <2>3, <3>1, <3>2 DEF WorkKept
    <2>8. ASSUME NEW g \in Handlers, handler'[g] # Idle
          PROVE  WorkKept(handler[g])'
      <3>1. CASE g = h
        BY <2>4, <2>7, <3>1
      <3>2. CASE g # h
        BY <1>6, <2>2, <2>4, <2>8, <3>2
      <3> QED BY <3>1, <3>2
    <2> QED BY <1>3, <1>4, <2>2, <2>5, <2>6, <2>8 DEF InboundKept
  <1> QED BY <1>7, <1>8

\* One more recipient has been looked at.
LEMMA ResolvedOne ==
    ASSUME InboundKept, Onward, NEW h \in Handlers, handler[h] # Idle,
           NEW s \in Work, s = handler[h], s.pc = "rcpt",
           NEW new \in Work, new.msg = s.msg, new.pc = "rcpt", new.next = s.next + 1,
           handler' = [handler EXCEPT ![h] = new], UNCHANGED remote,
           Len(new.binds) >= Len(s.binds),
           \A j \in 1..Len(s.binds) : new.binds[j] = s.binds[j],
           NEW r, r = MailOf[s.msg].rcpts[s.next],
           Bound(new.binds, r)', HasLeft(r)'
    PROVE  InboundKept'
  <1>1. s.msg \in Messages /\ s.next \in Nat /\ Len(s.binds) \in Nat /\ Len(new.binds) \in Nat
    BY DEF Work
  <1>2. WorkKept(s)' /\ remote'[s.msg] = "sending"
    BY AtWork, CarriedWork DEF InboundKept, WorkKept
  <1>3. ASSUME NEW i \in 1..Len(MailOf[new.msg].rcpts), i < new.next
        PROVE  Bound(new.binds, MailOf[new.msg].rcpts[i])' /\ HasLeft(MailOf[new.msg].rcpts[i])'
    <2>0. i \in Nat
      BY <1>1, Recipients
    <2>1. CASE i = s.next
      BY <2>1
    <2>2. CASE i # s.next
      <3>1. i < s.next
        BY <1>1, <1>3, <2>0, <2>2
      <3>2. PICK x : x = MailOf[s.msg].rcpts[i]
        OBVIOUS
      <3>3. Bound(s.binds, x)' /\ HasLeft(x)'
        BY <1>2, <3>1, <3>2 DEF WorkKept
      <3>4. Bound(new.binds, x)'
        BY <1>1, <3>3 DEF Bound
      <3> QED BY <3>2, <3>3, <3>4
    <2> QED BY <2>1, <2>2
  <1>4. WorkKept(new)'
    BY <1>2, <1>3 DEF WorkKept
  <1> QED BY <1>4, OwnStep

\* Return paths, unsubscribe addresses and others, one at a time.
LEMMA ResolveKeeps ==
    ASSUME InboundKept, NEW h \in Handlers, ResolveRecipient(h)
    PROVE  InboundKept'
  <1>0. PICK s : s = handler[h]
    OBVIOUS
  <1>1. /\ handler[h] # Idle /\ s \in Work /\ s.pc = "rcpt" /\ s.msg \in Messages
        /\ s.next \in Nat /\ s.next > 0 /\ s.next <= Len(MailOf[s.msg].rcpts)
        /\ s.binds \in Seq(Binding)
    <2>1. Working(h, "rcpt") /\ s.next <= Len(MailOf[s.msg].rcpts)
      BY <1>0 DEF ResolveRecipient
    <2>2. handler[h] # Idle /\ s \in Work /\ s.pc = "rcpt" /\ s.msg \in Messages
      BY <1>0, <2>1, WorkingAt
    <2> QED BY <2>1, <2>2 DEF Work
  <1>2. PICK r : r = MailOf[s.msg].rcpts[s.next]
    OBVIOUS
  <1>3. r.kind \in {"return", "unsub"} => r.email \in Emails \cup {NoEmail}
    BY <1>1, <1>2, Recipients
  <1>4. UNCHANGED <<status, remote, inbox, reports, filed, failures, operations>>
    BY DEF ResolveRecipient
  <1>5. ListKept
    BY DEF InboundKept, ListKept
  <1>6. /\ r.kind = "return" /\ ResolveReturnPath(r) =>
              /\ handler' = [handler EXCEPT ![h] =
                    [[s EXCEPT !.next = @ + 1] EXCEPT !.binds = Append(@, Bind(r))]]
              /\ UNCHANGED <<suppression, events>>
        /\ r.kind = "unsub" /\ ResolveUnsubscribeToken(r) =>
              /\ handler' = [handler EXCEPT ![h] = [s EXCEPT !.next = @ + 1]]
              /\ Unsubscribe(r.email, RecipientsOf[r.email][1])
        /\ ~(r.kind = "return" /\ ResolveReturnPath(r))
           /\ ~(r.kind = "unsub" /\ ResolveUnsubscribeToken(r)) =>
              /\ handler' = [handler EXCEPT ![h] = [s EXCEPT !.next = @ + 1]]
              /\ UNCHANGED <<suppression, events>>
    BY <1>0, <1>2, Zenon DEF ResolveRecipient, Bind
  <1>7. CASE r.kind = "return" /\ ResolveReturnPath(r)
    <2>1. /\ handler' = [handler EXCEPT ![h] =
                [[s EXCEPT !.next = s.next + 1] EXCEPT !.binds = Append(s.binds, Bind(r))]]
          /\ UNCHANGED <<suppression, events>>
      BY <1>1, <1>6, <1>7 DEF Work
    <2>2. PICK b \in Binding : b = Bind(r)
      <3>1. Exists(r.email) /\ r.index \in DOMAIN RecipientsOf[r.email]
            /\ r.email \in Emails \cup {NoEmail}
        BY <1>3, <1>7 DEF ResolveReturnPath
      <3>2. r.email \in Emails /\ RecipientsOf[r.email][r.index] \in Addresses
        BY <3>1, Existing
      <3> QED BY <3>2 DEF Bind, Binding
    <2>3. PICK new : new = [s EXCEPT !.next = s.next + 1, !.binds = Append(s.binds, b)]
      OBVIOUS
    <2>4. /\ new \in Work /\ new.msg = s.msg /\ new.pc = "rcpt" /\ new.next = s.next + 1
          /\ new.binds = Append(s.binds, b)
      <3>0. s.next + 1 \in Nat /\ s.next + 1 > 0
        BY <1>1
      <3>1. PICK l \in Seq(Binding) : l = Append(s.binds, b)
        BY <1>1, AppendProperties
      <3>2. new = [s EXCEPT !.next = s.next + 1, !.binds = l]
        BY <2>3, <3>1
      <3>3. new \in Work /\ new.msg = s.msg /\ new.pc = "rcpt" /\ new.next = s.next + 1
            /\ new.binds = l
        <4>1. PICK mid : mid = [s EXCEPT !.next = s.next + 1]
          OBVIOUS
        <4>2. /\ mid \in Work /\ mid.pc = "rcpt" /\ mid.msg = s.msg /\ mid.next = s.next + 1
          BY <1>1, <3>0, <4>1 DEF Work
        <4>3. new = [mid EXCEPT !.binds = l]
          BY <3>2, <4>1, Zenon
        <4> QED BY <4>2, <4>3 DEF Work
      <3> QED BY <3>1, <3>3
    <2>5. handler' = [handler EXCEPT ![h] = new]
      BY <2>1, <2>2, <2>3
    <2>6. /\ Len(new.binds) = Len(s.binds) + 1 /\ Len(s.binds) \in Nat
          /\ Len(new.binds) >= Len(s.binds)
          /\ \A j \in 1..Len(s.binds) : new.binds[j] = s.binds[j]
          /\ new.binds[Len(s.binds) + 1] = b
      BY <1>1, <2>4, AppendProperties
    <2>7. Onward
      BY <1>4, <2>1, RestOnward DEF InboundKept, InboundTyped
    <2>8. Bound(new.binds, r)'
      BY <2>2, <2>6 DEF Bound, Bind
    <2>9. HasLeft(r)'
      BY <1>7 DEF HasLeft
    <2> QED BY <1>0, <1>1, <1>2, <1>4, <2>4, <2>5, <2>6, <2>7, <2>8, <2>9, ResolvedOne
  <1>8. CASE ~(r.kind = "return" /\ ResolveReturnPath(r))
    <2>1. PICK new : new = [s EXCEPT !.next = s.next + 1]
      OBVIOUS
    <2>2. /\ new \in Work /\ new.msg = s.msg /\ new.pc = "rcpt" /\ new.next = s.next + 1
          /\ new.binds = s.binds
      BY <1>1, <2>1 DEF Work
    <2>3. /\ Len(new.binds) >= Len(s.binds) /\ Len(s.binds) \in Nat
          /\ \A j \in 1..Len(s.binds) : new.binds[j] = s.binds[j]
      BY <1>1, <2>2
    <2>4. Bound(new.binds, r)'
      BY <1>4, <1>8 DEF Bound, ResolveReturnPath, Exists
    <2>5. CASE r.kind = "unsub" /\ ResolveUnsubscribeToken(r)
      <3>1. /\ handler' = [handler EXCEPT ![h] = new]
            /\ Unsubscribe(r.email, RecipientsOf[r.email][1])
        BY <1>6, <1>8, <2>1, <2>5
      <3>2. Exists(r.email) /\ Len(RecipientsOf[r.email]) = 1
        BY <2>5 DEF ResolveUnsubscribeToken
      <3>3. r.email \in Emails /\ RecipientsOf[r.email][1] \in Addresses
        <4>1. r.email \in Emails /\ \A i \in 1..Len(RecipientsOf[r.email]) :
                                       RecipientsOf[r.email][i] \in Addresses
          BY <1>3, <2>5, <3>2, Existing
        <4>2. 1 \in 1..Len(RecipientsOf[r.email])
          BY <3>2
        <4> QED BY <4>1, <4>2
      <3>4. ListSound /\ suppression'[<<KeyOf[r.email], RecipientsOf[r.email][1]>>].left = Forever
        BY <1>4, <1>5, <3>1, <3>3, UnsubscribeSound
      <3>5. Onward
        BY <1>4, <3>4, ListOnward
      <3>6. HasLeft(r)'
        BY <3>4 DEF HasLeft, Permanent
      <3> QED BY <1>0, <1>1, <1>2, <1>4, <2>2, <2>3, <2>4, <3>1, <3>5, <3>6, ResolvedOne
    <2>6. CASE ~(r.kind = "unsub" /\ ResolveUnsubscribeToken(r))
      <3>1. /\ handler' = [handler EXCEPT ![h] = new]
            /\ UNCHANGED <<suppression, events>>
        BY <1>6, <1>8, <2>1, <2>6
      <3>2. Onward
        BY <1>4, <3>1, RestOnward DEF InboundKept, InboundTyped
      <3>3. HasLeft(r)'
        BY <1>4, <2>6 DEF HasLeft, ResolveUnsubscribeToken, Exists
      <3> QED BY <1>0, <1>1, <1>2, <1>4, <2>2, <2>3, <2>4, <3>1, <3>2, <3>3, ResolvedOne
    <2> QED BY <2>5, <2>6
  <1> QED BY <1>7, <1>8

\* Every recipient has been looked at.
LEMMA RecipientsDoneKeeps ==
    ASSUME InboundKept, NEW h \in Handlers, RecipientsDone(h)
    PROVE  InboundKept'
  <1>0. PICK s : s = handler[h]
    OBVIOUS
  <1>1. /\ handler[h] # Idle /\ s \in Work /\ s.pc = "rcpt" /\ s.msg \in Messages
        /\ WorkKept(s) /\ s.next > Len(MailOf[s.msg].rcpts)
        /\ s.next \in Nat /\ Len(s.binds) \in Nat /\ s.binds \in Seq(Binding)
    <2>1. Working(h, "rcpt") /\ s.next > Len(MailOf[s.msg].rcpts)
      BY <1>0 DEF RecipientsDone
    <2>2. /\ handler[h] # Idle /\ s \in Work /\ s.pc = "rcpt" /\ s.msg \in Messages
          /\ WorkKept(s)
      BY <1>0, <2>1, WorkingAt
    <2> QED BY <2>1, <2>2 DEF Work
  <1>2. PICK pc \in {"bounce", "body"} :
          pc = IF Kind(s.msg) # "none" /\ s.binds # <<>> THEN "bounce" ELSE "body"
    OBVIOUS
  <1>3. PICK new : new = [s EXCEPT !.next = 1, !.pc = pc]
    OBVIOUS
  <1>4. /\ new \in Work /\ new.msg = s.msg /\ new.pc = pc /\ new.next = 1
        /\ new.binds = s.binds
    <2>1. PICK mid : mid = [s EXCEPT !.next = 1]
      OBVIOUS
    <2>2. mid \in Work /\ mid.msg = s.msg /\ mid.next = 1 /\ mid.binds = s.binds
      BY <1>1, <2>1 DEF Work
    <2>3. new = [mid EXCEPT !.pc = pc]
      BY <1>3, <2>1, Zenon
    <2> QED BY <1>2, <2>2, <2>3 DEF Work
  <1>5. /\ handler' = [handler EXCEPT ![h] = new]
        /\ UNCHANGED <<suppression, status, remote, inbox, reports, events, filed, failures,
                       operations>>
    <2>1. /\ handler' = [handler EXCEPT ![h] = [handler[h] EXCEPT !.next = 1,
                !.pc = IF Kind(handler[h].msg) # "none" /\ handler[h].binds # <<>>
                       THEN "bounce" ELSE "body"]]
          /\ UNCHANGED <<suppression, status, remote, inbox, reports, events, filed, failures,
                         operations>>
      BY DEF RecipientsDone, Kind
    <2> QED BY <1>0, <1>2, <1>3, <2>1
  <1>6. Onward
    BY <1>5, RestOnward DEF InboundKept, InboundTyped
  <1>7. WorkKept(s)' /\ remote'[s.msg] = "sending"
    BY <1>1, <1>5, <1>6, CarriedWork DEF InboundKept, WorkKept
  <1>8. ASSUME NEW i \in 1..Len(MailOf[new.msg].rcpts)
        PROVE  Bound(new.binds, MailOf[new.msg].rcpts[i])' /\ HasLeft(MailOf[new.msg].rcpts[i])'
    <2>1. i < s.next /\ i \in 1..Len(MailOf[s.msg].rcpts)
      BY <1>1, <1>4, Recipients
    <2> QED BY <1>4, <1>7, <2>1 DEF WorkKept
  <1>9. ASSUME NEW j \in 1..Len(new.binds),
               pc = "body" \/ j < new.next
        PROVE  OnFile(new.binds[j], Kind(new.msg))'
    <2>1. pc = "body" /\ new.binds # <<>>
      BY <1>1, <1>4, <1>9
    <2>2. Kind(new.msg) = "none"
      BY <1>2, <1>4, <2>1
    <2> QED BY <2>2 DEF OnFile, Kind
  <1>10. pc = "bounce" => Kind(new.msg) # "none" /\ new.next <= Len(new.binds)
    BY <1>1, <1>2, <1>4
  <1>11. WorkKept(new)'
    BY <1>2, <1>4, <1>7, <1>8, <1>9, <1>10 DEF WorkKept, Kind
  <1> QED BY <1>0, <1>1, <1>4, <1>5, <1>6, <1>11, OwnStep

\* The pair of a binding.
LEMMA BoundPair ==
    ASSUME NEW b \in Binding
    PROVE  b.email \in Emails /\ b.addr \in Addresses /\ PairOf(b) \in Pairs
  BY InboundConstants DEF PairOf, Pairs, Binding

\* What a bounce reads before its transaction: a soft row has a soft bounce
\* on file.
LEMMA ReadSuppressionKeeps ==
    ASSUME InboundKept, NEW h \in Handlers, ReadSuppression(h)
    PROVE  InboundKept'
  <1>0. PICK s : s = handler[h]
    OBVIOUS
  <1>1. /\ handler[h] # Idle /\ s \in Work /\ s.pc = "bounce" /\ s.msg \in Messages
        /\ WorkKept(s) /\ Kind(s.msg) # "policy"
        /\ s.next \in Nat /\ Len(s.binds) \in Nat /\ s.binds \in Seq(Binding) /\ s.next > 0
    <2>1. Working(h, "bounce") /\ Kind(s.msg) # "policy"
      BY <1>0 DEF ReadSuppression, Kind
    <2>2. /\ handler[h] # Idle /\ s \in Work /\ s.pc = "bounce" /\ s.msg \in Messages
          /\ WorkKept(s)
      BY <1>0, <2>1, WorkingAt
    <2> QED BY <2>1, <2>2 DEF Work
  <1>2. Kind(s.msg) \in {"hard", "soft"} /\ s.next <= Len(s.binds)
    BY <1>1, Kinds DEF WorkKept
  <1>3. PICK b \in Binding : b = s.binds[s.next]
    BY <1>1, <1>2
  <1>4. PICK p \in Pairs : p = PairOf(b)
    BY BoundPair
  <1>5. PICK ex \in {"none", "hard", "soft"} :
          ex = IF FindActiveSuppression(suppression[p]) THEN suppression[p].bounce ELSE "none"
    BY PairTypes DEF InboundKept, SuppressionRow
  <1>6. PICK new : new = [s EXCEPT !.existing = ex, !.pc = "file"]
    OBVIOUS
  <1>7. /\ new \in Work /\ new.msg = s.msg /\ new.pc = "file" /\ new.next = s.next
        /\ new.binds = s.binds /\ new.existing = ex
    BY <1>1, <1>6 DEF Work
  <1>8. /\ handler' = [handler EXCEPT ![h] = new]
        /\ UNCHANGED <<suppression, status, remote, inbox, reports, events, filed, failures,
                       operations>>
    <2>1. p = <<KeyOf[b.email], b.addr>>
      BY <1>4 DEF PairOf
    <2>2. /\ handler' = [handler EXCEPT ![h] = [handler[h] EXCEPT
                !.existing = IF FindActiveSuppression(suppression[<<KeyOf[b.email], b.addr>>])
                             THEN suppression[<<KeyOf[b.email], b.addr>>].bounce ELSE "none",
                !.pc = "file"]]
          /\ UNCHANGED <<suppression, status, remote, inbox, reports, events, filed, failures,
                         operations>>
      BY <1>0, <1>3 DEF ReadSuppression
    <2> QED BY <1>0, <1>5, <1>6, <2>1, <2>2
  <1>9. Onward
    BY <1>8, RestOnward DEF InboundKept, InboundTyped
  <1>10. WorkKept(s)' /\ remote'[s.msg] = "sending"
    BY <1>1, <1>8, <1>9, CarriedWork DEF InboundKept, WorkKept
  <1>11. ex = "soft" => filed'[PairOf(new.binds[new.next])].soft >= 1
    BY <1>3, <1>4, <1>5, <1>7, <1>8 DEF InboundKept, RowKept
  <1>12. WorkKept(new)'
    BY <1>1, <1>2, <1>7, <1>10, <1>11 DEF WorkKept, Kind, PairOf
  <1> QED BY <1>0, <1>1, <1>7, <1>8, <1>9, <1>12, OwnStep

\* The status of an email moves on: nothing brings a purged one back.
LEMMA StatusOnward ==
    ASSUME InboundKept, ListSound, NEW e \in Emails,
           \/ status' = status
           \/ /\ status[e] # "purged"
              /\ \E x \in {"sent", "failed", "bounced", "purged"} :
                    status' = [status EXCEPT ![e] = x],
           UNCHANGED <<inbox, reports, failures>>
    PROVE  Onward
  <1>1. \A m \in Messages : inbox'[m] >= inbox[m]
    BY DEF InboundKept, InboundTyped
  <1>2. /\ status' \in [Emails -> {"open", "sent", "failed", "bounced", "purged"}]
        /\ \A x \in Emails : status[x] = "purged" => status'[x] = "purged"
    BY DEF InboundKept, InboundTyped
  <1> QED BY <1>1, <1>2 DEF Onward, InboundKept, InboundTyped

\* One binding has been handled.
LEMMA HandledOne ==
    ASSUME InboundKept, Onward, NEW h \in Handlers, handler[h] # Idle,
           NEW s \in Work, s = handler[h], s.pc \in {"bounce", "file"},
           UNCHANGED remote,
           handler' = [handler EXCEPT
              ![h].next = @ + 1,
              ![h].pc = IF s.next < Len(s.binds) THEN "bounce" ELSE "body"],
           OnFile(s.binds[s.next], Kind(s.msg))'
    PROVE  InboundKept'
  <1>1. /\ s.msg \in Messages /\ s.next \in Nat /\ s.next > 0 /\ Len(s.binds) \in Nat
        /\ WorkKept(s) /\ s.next <= Len(s.binds) /\ Kind(s.msg) # "none"
    BY AtWork DEF Work, WorkKept
  <1>2. PICK pc \in {"bounce", "body"} : pc = IF s.next < Len(s.binds) THEN "bounce" ELSE "body"
    OBVIOUS
  <1>3. PICK mid : mid = [s EXCEPT !.next = s.next + 1]
    OBVIOUS
  <1>4. PICK new : new = [mid EXCEPT !.pc = pc]
    OBVIOUS
  <1>5. mid \in Work /\ mid.msg = s.msg /\ mid.next = s.next + 1 /\ mid.binds = s.binds
    BY <1>1, <1>3 DEF Work
  <1>6. /\ new \in Work /\ new.msg = s.msg /\ new.next = s.next + 1 /\ new.binds = s.binds
        /\ new.pc = pc
    BY <1>2, <1>4, <1>5 DEF Work
  <1>7. handler' = [handler EXCEPT ![h] = new]
    <2>1. handler' = [handler EXCEPT ![h] = [handler[h] EXCEPT !.next = handler[h].next + 1,
                        !.pc = IF s.next < Len(s.binds) THEN "bounce" ELSE "body"]]
      OBVIOUS
    <2>2. new = [s EXCEPT !.next = s.next + 1, !.pc = pc]
      BY <1>3, <1>4, Zenon
    <2> QED BY <1>2, <2>1, <2>2
  <1>8. WorkKept(s)' /\ remote'[s.msg] = "sending"
    BY <1>1, CarriedWork DEF InboundKept, WorkKept
  <1>9. ASSUME NEW j \in 1..Len(new.binds), pc = "body" \/ j < new.next
        PROVE  OnFile(new.binds[j], Kind(new.msg))'
    <2>1. j \in 1..Len(s.binds) /\ j \in Nat /\ (j = s.next \/ j < s.next)
      BY <1>1, <1>2, <1>6, <1>9
    <2>2. CASE j = s.next
      BY <1>6, <2>2
    <2>3. CASE j < s.next
      BY <1>6, <1>8, <2>1, <2>3 DEF WorkKept
    <2> QED BY <2>1, <2>2, <2>3
  <1>10. pc = "bounce" => Kind(new.msg) # "none" /\ new.next <= Len(new.binds)
    BY <1>1, <1>2, <1>6
  <1>11. \A i \in 1..Len(MailOf[new.msg].rcpts) :
           Bound(new.binds, MailOf[new.msg].rcpts[i])' /\ HasLeft(MailOf[new.msg].rcpts[i])'
    BY <1>6, <1>8 DEF WorkKept
  <1>12. WorkKept(new)'
    BY <1>2, <1>6, <1>8, <1>9, <1>10, <1>11 DEF WorkKept, Kind
  <1> QED BY <1>6, <1>7, <1>12, OwnStep

\* What it read stays true until its transaction, whoever writes in between.
LEMMA HandleBounceKeeps ==
    ASSUME InboundKept, NEW h \in Handlers, HandleBounce(h)
    PROVE  InboundKept'
  <1>0. PICK s : s = handler[h]
    OBVIOUS
  <1>1. PICK kind : kind = Kind(s.msg)
    OBVIOUS
  <1>2. PICK b : b = s.binds[s.next]
    OBVIOUS
  <1>3. /\ Working(h, IF kind = "policy" THEN "bounce" ELSE "file")
        /\ IF kind = "policy" THEN HandlePolicyBounce(b.email, b.addr)
           ELSE FileBounce(b.email, b.addr, kind, s.existing)
        /\ handler' = [handler EXCEPT
              ![h].next = @ + 1,
              ![h].pc = IF s.next < Len(s.binds) THEN "bounce" ELSE "body"]
        /\ UNCHANGED <<remote, inbox, reports, failures, operations>>
    BY <1>0, <1>1, <1>2, Zenon DEF HandleBounce, Kind
  <1>4. /\ handler[h] # Idle /\ s \in Work /\ s.msg \in Messages /\ WorkKept(s)
        /\ s.pc = IF kind = "policy" THEN "bounce" ELSE "file"
    BY <1>0, <1>3, WorkingAt
  <1>5. /\ s.next \in Nat /\ s.next > 0 /\ Len(s.binds) \in Nat /\ s.binds \in Seq(Binding)
        /\ s.existing \in {"none", "hard", "soft"}
        /\ s.next <= Len(s.binds) /\ s.pc \in {"bounce", "file"}
    BY <1>4 DEF Work, WorkKept
  <1>6. b \in Binding
    BY <1>2, <1>5
  <1>7. /\ b.email \in Emails /\ b.addr \in Addresses /\ PairOf(b) = <<KeyOf[b.email], b.addr>>
        /\ KeyOf[b.email] \in ApiKeys
    BY <1>6, BoundPair, InboundConstants DEF PairOf
  <1>8. ListKept
    BY DEF InboundKept, ListKept
  <1>9. CASE kind = "policy"
    <2>1. HandlePolicyBounce(b.email, b.addr)
      BY <1>3, <1>9
    <2>2. CASE status[b.email] = "sent"
      <3>1. /\ status' = [status EXCEPT ![b.email] = "failed"]
            /\ Raise("email.failed", KeyOf[b.email], b.addr)
            /\ UNCHANGED <<suppression, filed>>
        BY <2>1, <2>2 DEF HandlePolicyBounce
      <3>2. "email.failed" \in EventNames /\ b.addr \in Addresses \cup {NoAddress}
        BY <1>7 DEF EventNames
      <3>3. ListSound
        BY <1>3, <1>7, <1>8, <3>1, <3>2, OtherEventSound
      <3>4. Onward
        BY <1>3, <1>7, <2>2, <3>1, <3>3, StatusOnward
      <3>5. OnFile(b, kind)'
        BY <1>9 DEF OnFile
      <3>6. OnFile(s.binds[s.next], Kind(s.msg))'
        BY <1>1, <1>2, <3>5 DEF Kind
      <3> QED BY <1>0, <1>3, <1>4, <1>5, <3>4, <3>6, HandledOne
    <2>3. CASE status[b.email] # "sent"
      <3>1. UNCHANGED <<suppression, status, events, filed>>
        BY <2>1, <2>3 DEF HandlePolicyBounce
      <3>2. Onward
        BY <1>3, <3>1, RestOnward DEF InboundKept, InboundTyped
      <3>3. OnFile(b, kind)'
        BY <1>9 DEF OnFile
      <3>4. OnFile(s.binds[s.next], Kind(s.msg))'
        BY <1>1, <1>2, <3>3 DEF Kind
      <3> QED BY <1>0, <1>3, <1>4, <1>5, <3>2, <3>4, HandledOne
    <2> QED BY <2>2, <2>3
  <1>10. CASE kind # "policy"
    <2>1. FileBounce(b.email, b.addr, kind, s.existing) /\ s.pc = "file"
      BY <1>3, <1>4, <1>10
    <2>2. kind \in {"hard", "soft"}
      BY <1>1, <1>4, <2>1 DEF WorkKept
    <2>3. s.existing = "soft" => filed[<<KeyOf[b.email], b.addr>>].soft >= 1
      BY <1>2, <1>4, <1>7, <2>1 DEF WorkKept
    <2>4. ListSound /\ filed'[<<KeyOf[b.email], b.addr>>][kind] > 0
      BY <1>3, <1>5, <1>7, <1>8, <2>1, <2>2, <2>3, FileBounceSound
    <2>5. \/ status' = status
          \/ status[b.email] # "purged" /\ status' = [status EXCEPT ![b.email] = "bounced"]
      BY <2>1 DEF FileBounce, MarkEmailBounced
    <2>6. Onward
      BY <1>3, <1>7, <2>4, <2>5, StatusOnward
    <2>7. OnFile(b, kind)'
      BY <1>7, <2>4 DEF OnFile, PairOf
    <2>8. OnFile(s.binds[s.next], Kind(s.msg))'
      BY <1>1, <1>2, <2>7 DEF Kind
    <2> QED BY <1>0, <1>3, <1>4, <1>5, <2>6, <2>8, HandledOne
  <1> QED BY <1>9, <1>10

\* The branches for the other recipients end the work on a message.
LEMMA BodyDone ==
    ASSUME InboundKept, Onward, NEW h \in Handlers, Working(h, "body"), Goto(h, "ok"),
           UNCHANGED remote, NEW m, m = handler[h].msg, Stored(m)'
    PROVE  InboundKept'
  <1>0. PICK s : s = handler[h]
    OBVIOUS
  <1>1. /\ handler[h] # Idle /\ s \in Work /\ s.pc = "body" /\ s.msg = m /\ m \in Messages
        /\ WorkKept(s)
    BY <1>0, WorkingAt
  <1>2. PICK new : new = [s EXCEPT !.pc = "ok"]
    OBVIOUS
  <1>3. /\ new \in Work /\ new.msg = s.msg /\ new.pc = "ok" /\ new.next = s.next
        /\ new.binds = s.binds
    BY <1>1, <1>2 DEF Work
  <1>4. handler' = [handler EXCEPT ![h] = new]
    <2>1. handler' = [handler EXCEPT ![h] = [handler[h] EXCEPT !.pc = "ok"]]
      BY DEF Goto
    <2> QED BY <1>0, <1>2, <2>1
  <1>5. WorkKept(s)' /\ remote'[s.msg] = "sending"
    BY <1>1, CarriedWork DEF InboundKept, WorkKept
  <1>6. /\ \A i \in 1..Len(MailOf[new.msg].rcpts) :
              Bound(new.binds, MailOf[new.msg].rcpts[i])' /\ HasLeft(MailOf[new.msg].rcpts[i])'
        /\ \A j \in 1..Len(new.binds) : OnFile(new.binds[j], Kind(new.msg))'
    BY <1>1, <1>3, <1>5 DEF WorkKept
  <1>7. WorkKept(new)'
    BY <1>1, <1>3, <1>5, <1>6 DEF WorkKept, Kind
  <1> QED BY <1>0, <1>1, <1>3, <1>4, <1>7, OwnStep

\* Nothing to store.
LEMMA NoOtherKeeps ==
    ASSUME InboundKept, NEW h \in Handlers, NoOtherRecipient(h)
    PROVE  InboundKept'
  <1>0. PICK m : m = handler[h].msg
    OBVIOUS
  <1>1. /\ Working(h, "body") /\ Goto(h, "ok") /\ Others(m) = {}
        /\ UNCHANGED <<suppression, status, remote, inbox, reports, events, filed, failures,
                       operations>>
    BY <1>0 DEF NoOtherRecipient
  <1>2. Onward
    BY <1>1, RestOnward DEF InboundKept, InboundTyped
  <1>3. Stored(m)'
    BY <1>1 DEF Stored, Others
  <1> QED BY <1>0, <1>1, <1>2, <1>3, BodyDone

\* A feedback report complains, unsubscribes or is ignored; none is stored.
LEMMA HandleFeedbackKeeps ==
    ASSUME InboundKept, NEW h \in Handlers, HandleFeedback(h)
    PROVE  InboundKept'
  <1>0. PICK m : m = handler[h].msg
    OBVIOUS
  <1>1. PICK fb : fb = MailOf[m].body.feedback
    OBVIOUS
  <1>2. PICK act : act = IF fb.readable THEN ClassifyFeedbackType(fb.type) ELSE "ignore"
    OBVIOUS
  <1>3. /\ Working(h, "body") /\ Goto(h, "ok") /\ IsFeedbackReport(MailOf[m].body)
        /\ UNCHANGED <<status, remote, inbox, reports, filed, failures, operations>>
    BY <1>0 DEF HandleFeedback
  <1>4. m \in Messages
    BY <1>0, <1>3, WorkingAt
  <1>5. IF act = "ignore" \/ ~Exists(fb.email)
        THEN UNCHANGED <<suppression, events>>
        ELSE IF ChooseRecipient(fb) = {}
             THEN /\ UNCHANGED suppression
                  /\ IF act = "opt-out" THEN UNCHANGED events
                     ELSE Raise("email.complained", KeyOf[fb.email], NoAddress)
             ELSE \E a \in ChooseRecipient(fb) :
                    IF act = "opt-out" THEN Unsubscribe(fb.email, a)
                    ELSE Complain(fb.email, a)
    BY <1>0, <1>1, <1>2, Zenon DEF HandleFeedback
  <1>6. ListKept
    BY DEF InboundKept, ListKept
  <1>7. ListSound
    <2>1. CASE UNCHANGED <<suppression, events>>
      BY <1>3, <1>6, <2>1, ListAtRest
    <2>2. CASE act # "ignore" /\ Exists(fb.email) /\ ~UNCHANGED <<suppression, events>>
      <3>1. fb.readable
        BY <1>2, <2>2
      <3>2. fb.email \in Emails \cup {NoEmail}
        BY <1>1, <1>4, <3>1, Recipients
      <3>3. fb.email \in Emails /\ KeyOf[fb.email] \in ApiKeys
        BY <2>2, <3>2, Existing
      <3>4. CASE ChooseRecipient(fb) = {}
        <4>1. UNCHANGED suppression /\ Raise("email.complained", KeyOf[fb.email], NoAddress)
          BY <1>5, <2>2, <3>4
        <4>2. "email.complained" \in EventNames /\ NoAddress \in Addresses \cup {NoAddress}
          BY DEF EventNames
        <4> QED BY <1>3, <1>6, <3>3, <4>1, <4>2, OtherEventSound
      <3>5. CASE ChooseRecipient(fb) # {}
        <4>1. PICK a \in ChooseRecipient(fb) :
                Unsubscribe(fb.email, a) \/ Complain(fb.email, a)
          BY <1>5, <2>2, <3>5
        <4>2. a \in Addresses
          BY <2>2, <3>2, Chosen
        <4> QED BY <1>3, <1>6, <3>3, <4>1, <4>2, UnsubscribeSound, ComplainSound
      <3> QED BY <3>4, <3>5
    <2> QED BY <1>5, <2>1, <2>2
  <1>8. Onward
    BY <1>3, <1>7, ListOnward
  <1>9. Stored(m)'
    BY <1>3 DEF Stored, IsFeedbackReport
  <1> QED BY <1>0, <1>3, <1>8, <1>9, BodyDone

\* A bounce at an ordinary address is not stored.
LEMMA DropBounceKeeps ==
    ASSUME InboundKept, NEW h \in Handlers, DropBounce(h)
    PROVE  InboundKept'
  <1>0. PICK m : m = handler[h].msg
    OBVIOUS
  <1>1. /\ Working(h, "body") /\ Goto(h, "ok") /\ Kind(m) # "none"
        /\ UNCHANGED <<suppression, status, remote, inbox, reports, events, filed, failures,
                       operations>>
    BY <1>0 DEF DropBounce, Kind
  <1>2. Onward
    BY <1>1, RestOnward DEF InboundKept, InboundTyped
  <1>3. Stored(m)'
    BY <1>1 DEF Stored, Kind
  <1> QED BY <1>0, <1>1, <1>2, <1>3, BodyDone

\* A DMARC report is stored.
LEMMA PersistReportKeeps ==
    ASSUME InboundKept, NEW h \in Handlers, PersistReport(h)
    PROVE  InboundKept'
  <1>0. PICK m : m = handler[h].msg
    OBVIOUS
  <1>1. /\ Working(h, "body") /\ Goto(h, "ok")
        /\ reports' = reports \cup {MailOf[m].body.dmarc}
        /\ UNCHANGED <<suppression, status, remote, inbox, events, filed, failures, operations>>
    BY <1>0 DEF PersistReport
  <1>2. m \in Messages
    BY <1>0, <1>1, WorkingAt
  <1>3. ListSound
    BY <1>1, ListAtRest DEF InboundKept, ListKept
  <1>4. \A n \in Messages : inbox'[n] >= inbox[n]
    BY <1>1 DEF InboundKept, InboundTyped
  <1>5. Onward
    BY <1>1, <1>2, <1>3, <1>4 DEF Onward, InboundKept, InboundTyped
  <1>6. Stored(m)'
    BY <1>1 DEF Stored
  <1> QED BY <1>0, <1>1, <1>5, <1>6, BodyDone

\* Ordinary mail is stored.
LEMMA StoreKeeps ==
    ASSUME InboundKept, NEW h \in Handlers, StoreInboundEmail(h)
    PROVE  InboundKept'
  <1>0. PICK m : m = handler[h].msg
    OBVIOUS
  <1>1. /\ Working(h, "body") /\ Goto(h, "ok") /\ inbox' = [inbox EXCEPT ![m] = @ + 1]
        /\ UNCHANGED <<suppression, status, remote, reports, events, filed, failures, operations>>
    BY <1>0 DEF StoreInboundEmail
  <1>2. m \in Messages
    BY <1>0, <1>1, WorkingAt
  <1>3. ListSound
    BY <1>1, ListAtRest DEF InboundKept, ListKept
  <1>4. /\ inbox' \in [Messages -> Nat] /\ inbox'[m] > 0
        /\ \A n \in Messages : inbox'[n] >= inbox[n]
    BY <1>1, <1>2 DEF InboundKept, InboundTyped
  <1>5. Onward
    BY <1>1, <1>3, <1>4 DEF Onward, InboundKept, InboundTyped
  <1>6. Stored(m)'
    BY <1>4 DEF Stored
  <1> QED BY <1>0, <1>1, <1>5, <1>6, BodyDone

\* A message is accepted once all of it has been done.
LEMMA AcceptKeeps ==
    ASSUME InboundKept, NEW h \in Handlers, Accept(h)
    PROVE  InboundKept'
  <1>0. PICK s : s = handler[h]
    OBVIOUS
  <1>1. /\ Working(h, "ok")
        /\ remote' = [remote EXCEPT ![handler[h].msg] = "accepted"]
        /\ handler' = [handler EXCEPT ![h] = Idle]
        /\ UNCHANGED <<suppression, status, inbox, reports, events, filed, failures, operations>>
    BY DEF Accept
  <1>2. /\ handler[h] # Idle /\ s \in Work /\ s.pc = "ok" /\ s.msg \in Messages /\ WorkKept(s)
    BY <1>0, <1>1, WorkingAt
  <1>3. Onward
    BY <1>1, RestOnward DEF InboundKept, InboundTyped
  <1>4. PICK m \in Messages : m = s.msg
    BY <1>2
  <1>5. ASSUME NEW i \in 1..Len(MailOf[m].rcpts), NEW r, r = MailOf[m].rcpts[i]
        PROVE  /\ r.kind = "return" /\ ResolveReturnPath(r)' => OnFile(Bind(r), Kind(m))'
               /\ HasLeft(r)'
    <2>1. r.kind \in {"return", "unsub"} => r.email \in Emails \cup {NoEmail}
      BY <1>5, Recipients
    <2>2. Bound(s.binds, r) /\ HasLeft(r)
      BY <1>2, <1>4, <1>5 DEF WorkKept
    <2>3. /\ r.kind = "return" /\ ResolveReturnPath(r)' => ResolveReturnPath(r)
          /\ HasLeft(r)'
      BY <1>3, <2>1, <2>2, CarriedRecipient DEF InboundKept
    <2>4. ASSUME r.kind = "return", ResolveReturnPath(r)
          PROVE  OnFile(Bind(r), Kind(m))'
      <3>1. PICK j \in 1..Len(s.binds) : s.binds[j] = Bind(r)
        BY <2>2, <2>4 DEF Bound
      <3>2. OnFile(s.binds[j], Kind(m))
        BY <1>2, <1>4 DEF WorkKept
      <3> QED BY <1>1, <3>1, <3>2 DEF OnFile, Bind, Kind, PairOf
    <2> QED BY <2>3, <2>4
  <1>6. Stored(m)'
    BY <1>1, <1>2, <1>4 DEF WorkKept, Stored, Kind, Others
  <1>7. MessageKept(m)'
    BY <1>5, <1>6 DEF MessageKept
  <1> QED BY <1>0, <1>1, <1>2, <1>3, <1>4, <1>7, HandlerReleased

\* An interrupted message waits again; what was committed stays.
LEMMA InterruptedKeeps ==
    ASSUME InboundKept, NEW h \in Handlers, Interrupted(h)
    PROVE  InboundKept'
  <1>1. /\ handler[h] # Idle /\ failures' = failures + 1
        /\ remote' = [remote EXCEPT ![handler[h].msg] = "waiting"]
        /\ handler' = [handler EXCEPT ![h] = Idle]
        /\ UNCHANGED <<suppression, status, inbox, reports, events, filed, operations>>
    BY DEF Interrupted
  <1>2. failures' \in Nat
    BY <1>1 DEF InboundKept, InboundTyped
  <1>3. Onward
    BY <1>1, <1>2, RestOnward
  <1>4. PICK m \in Messages : m = handler[h].msg
    BY <1>1, AtWork
  <1> QED BY <1>1, <1>3, <1>4, HandlerReleased

-----------------------------------------------------------------------------
(* The rest of the system.                                                 *)

\* Unsubscribe posts, the queue, the trash, operators and time.
LEMMA OutsideKeeps ==
    ASSUME InboundKept,
           \/ \E e \in Emails : UnsubscribePost(e) \/ QueueFinishes(e) \/ PurgeEmail(e)
           \/ \E k \in ApiKeys, a \in Addresses :
                 \/ DeleteSuppression(k, a)
                 \/ \E entry \in ManualEntries : CreateManually(k, a, entry)
           \/ TimePasses
    PROVE  InboundKept'
  <1>0. ListKept
    BY DEF InboundKept, ListKept
  <1>1. ASSUME NEW e \in Emails, UnsubscribePost(e)
        PROVE  InboundKept'
    <2>1. /\ Exists(e) /\ Len(RecipientsOf[e]) = 1 /\ Unsubscribe(e, RecipientsOf[e][1])
          /\ UNCHANGED <<status, remote, handler, inbox, reports, filed, failures, operations>>
      BY <1>1 DEF UnsubscribePost, ResolveUnsubscribeToken
    <2>2. RecipientsOf[e][1] \in Addresses
      <3>1. \A i \in 1..Len(RecipientsOf[e]) : RecipientsOf[e][i] \in Addresses
        BY <2>1, Existing
      <3>2. 1 \in 1..Len(RecipientsOf[e])
        BY <2>1
      <3> QED BY <3>1, <3>2
    <2>3. Onward
      BY <1>0, <2>1, <2>2, UnsubscribeSound, ListOnward
    <2> QED BY <2>1, <2>3, Elsewhere
  <1>2. ASSUME NEW e \in Emails, QueueFinishes(e)
        PROVE  InboundKept'
    <2>1. /\ status[e] # "purged"
          /\ \E x \in {"sent", "failed", "bounced", "purged"} : status' = [status EXCEPT ![e] = x]
          /\ UNCHANGED <<suppression, remote, handler, inbox, reports, events, filed, failures,
                         operations>>
      BY <1>2 DEF QueueFinishes
    <2>2. Onward
      BY <1>0, <2>1, ListAtRest, StatusOnward
    <2> QED BY <2>1, <2>2, Elsewhere
  <1>3. ASSUME NEW e \in Emails, PurgeEmail(e)
        PROVE  InboundKept'
    <2>1. /\ operations' = operations + 1 /\ status[e] # "purged"
          /\ status' = [status EXCEPT ![e] = "purged"]
          /\ UNCHANGED <<suppression, remote, handler, inbox, reports, events, filed, failures>>
      BY <1>3 DEF PurgeEmail
    <2>2. operations \in Nat /\ operations' \in Nat /\ operations' >= operations
      BY <2>1 DEF InboundKept, InboundTyped
    <2>3. ASSUME NEW p \in Pairs
          PROVE  /\ RowKept(p)'
                 /\ filed'[p].hard >= filed[p].hard /\ filed'[p].soft >= filed[p].soft
                 /\ Permanent(suppression[p]) => suppression'[p].left = Forever
      <3>1. /\ RowKept(p) /\ filed[p].hard \in Nat /\ filed[p].soft \in Nat
            /\ "email.unsubscribed" \in EventNames /\ "email.complained" \in EventNames
            /\ \A x \in EventNames : events[<<x, p[1], p[2]>>] \in Nat
        BY PairTypes DEF InboundKept, EventNames
      <3>2. /\ events[<<"email.unsubscribed", p[1], p[2]>>] \in Nat
            /\ events[<<"email.complained", p[1], p[2]>>] \in Nat
        BY <3>1
      <3>3. RowKept(p)'
        BY <2>1, <2>2, <3>1, <3>2 DEF RowKept, Permanent
      <3> QED BY <2>1, <3>1, <3>3 DEF Permanent
    <2>4. ListSound
      BY <2>1, <2>2, <2>3 DEF ListSound, InboundKept, InboundTyped
    <2>5. Onward
      BY <2>1, <2>4, StatusOnward
    <2> QED BY <2>1, <2>5, Elsewhere
  <1>4. ASSUME NEW k \in ApiKeys, NEW a \in Addresses, DeleteSuppression(k, a)
        PROVE  InboundKept'
    <2>1. UNCHANGED <<status, remote, handler, inbox, reports, failures>>
      BY <1>4 DEF DeleteSuppression
    <2>2. Onward
      BY <1>0, <1>4, <2>1, DeleteSound, ListOnward
    <2> QED BY <2>1, <2>2, Elsewhere
  <1>5. ASSUME NEW k \in ApiKeys, NEW a \in Addresses, NEW entry \in ManualEntries,
               CreateManually(k, a, entry)
        PROVE  InboundKept'
    <2>1. UNCHANGED <<status, remote, handler, inbox, reports, failures>>
      BY <1>5 DEF CreateManually
    <2>2. Onward
      BY <1>0, <1>5, <2>1, CreateManuallySound, ListOnward
    <2> QED BY <2>1, <2>2, Elsewhere
  <1>6. ASSUME TimePasses
        PROVE  InboundKept'
    <2>1. UNCHANGED <<status, remote, handler, inbox, reports, failures>>
      BY <1>6 DEF TimePasses
    <2>2. Onward
      BY <1>0, <1>6, <2>1, AgeSound, ListOnward
    <2> QED BY <2>1, <2>2, Elsewhere
  <1> QED BY <1>1, <1>2, <1>3, <1>4, <1>5, <1>6

-----------------------------------------------------------------------------
(* The theorems.                                                           *)

\* The invariant holds at the start.
LEMMA InboundStarts ==
    ASSUME InboundInit
    PROVE  InboundKept
  <1>1. InboundTyped
    <2>1. NoRow \in SuppressionRow
      BY DEF NoRow, SuppressionRow
    <2>2. suppression \in [Pairs -> SuppressionRow]
      BY <2>1 DEF InboundInit
    <2>3. remote \in [Messages -> {"unsent", "waiting", "sending", "accepted", "refused"}]
      BY DEF InboundInit
    <2>4. /\ status \in [Emails -> {"open", "sent", "failed", "bounced", "purged"}]
          /\ handler \in [Handlers -> {Idle} \cup Work] /\ inbox \in [Messages -> Nat]
          /\ reports \subseteq {MailOf[m].body.dmarc : m \in Messages}
          /\ failures \in Nat /\ operations \in Nat
      BY DEF InboundInit
    <2>5. /\ events \in [EventNames \X ApiKeys \X (Addresses \cup {NoAddress}) -> Nat]
          /\ filed \in [Pairs -> [hard : Nat, soft : Nat]]
      BY DEF InboundInit
    <2> QED BY <2>2, <2>3, <2>4, <2>5 DEF InboundTyped
  <1>2. ASSUME NEW p \in Pairs
        PROVE  RowKept(p)
    <2>1. \A n \in EventNames : events[<<n, p[1], p[2]>>] = 0
      BY <1>1, PairTypes DEF InboundInit
    <2>2. /\ events[<<"email.unsubscribed", p[1], p[2]>>] = 0
          /\ events[<<"email.complained", p[1], p[2]>>] = 0
      BY <2>1 DEF EventNames
    <2>3. suppression[p] = NoRow /\ operations = 0
      BY DEF InboundInit
    <2> QED BY <2>2, <2>3 DEF RowKept, NoRow, Permanent, Forever
  <1>3. \A h \in Handlers : handler[h] = Idle
    BY DEF InboundInit
  <1>4. \A m \in Messages : remote[m] # "accepted"
    BY DEF InboundInit
  <1> QED BY <1>1, <1>2, <1>3, <1>4 DEF InboundKept, OneHandlerEach, MessageKept

\* Every step keeps it.
LEMMA InboundStep ==
    ASSUME InboundKept, [InboundNext]_inboundVars
    PROVE  InboundKept'
  <1>1. CASE UNCHANGED inboundVars
    <2>1. Onward
      BY <1>1, RestOnward DEF inboundVars, InboundKept, InboundTyped
    <2> QED BY <1>1, <2>1, Elsewhere DEF inboundVars
  <1>2. ASSUME NEW h \in Handlers, HandlerStep(h)
        PROVE  InboundKept'
    BY <1>2, ResolveKeeps, RecipientsDoneKeeps, ReadSuppressionKeeps, HandleBounceKeeps,
       NoOtherKeeps, HandleFeedbackKeeps, DropBounceKeeps, PersistReportKeeps, StoreKeeps,
       AcceptKeeps DEF HandlerStep
  <1> QED BY <1>1, <1>2, ReceiveKeeps, InterruptedKeeps, OutsideKeeps DEF InboundNext

\* So it always holds.
LEMMA InboundStays == InboundSpec => []InboundKept
  <1>1. InboundInit => InboundKept
    BY InboundStarts
  <1>2. InboundKept /\ [InboundNext]_inboundVars => InboundKept'
    BY InboundStep
  <1> QED BY <1>1, <1>2, PTL DEF InboundSpec

\* What the sending host was told is accepted has had its effects, each of
\* them reported once per operator's intervention: however many handlers run
\* at once, and however often transactions fail, the process crashes or a
\* reply gets lost between the several commits of the DATA handler.
THEOREM EffectsAreKept == InboundSpec => []MailTakesEffectOnce
  <1>1. InboundKept => InboundTypeOK
    BY DEF InboundKept, InboundTyped, InboundTypeOK, WorkKept
  <1>2. ASSUME InboundKept
        PROVE  ReportedOnce
    <2>1. ASSUME NEW p \in Pairs, NEW n \in {"email.unsubscribed", "email.complained"}
          PROVE  events[<<n, p[1], p[2]>>] <= 1 + operations
      <3>1. /\ RowKept(p) /\ operations \in Nat
            /\ \A x \in EventNames : events[<<x, p[1], p[2]>>] \in Nat
            /\ "email.unsubscribed" \in EventNames /\ "email.complained" \in EventNames
        BY <1>2, PairTypes DEF InboundKept, EventNames
      <3>2. /\ events[<<"email.unsubscribed", p[1], p[2]>>] \in Nat
            /\ events[<<"email.complained", p[1], p[2]>>] \in Nat
        BY <3>1
      <3> QED BY <3>1, <3>2 DEF RowKept
    <2> QED BY <2>1, Zenon DEF ReportedOnce
  <1>3. ASSUME InboundKept
        PROVE  AcceptedIsHandled
    <2>1. ASSUME NEW m \in Messages, remote[m] = "accepted", NEW i \in DOMAIN MailOf[m].rcpts,
                 NEW r, r = MailOf[m].rcpts[i], NEW kind, kind = Kind(m)
          PROVE  /\ r.kind = "return" /\ ResolveReturnPath(r) /\ kind \in {"hard", "soft"} =>
                       filed[<<KeyOf[r.email], RecipientsOf[r.email][r.index]>>][kind] > 0
                 /\ r.kind = "unsub" /\ ResolveUnsubscribeToken(r) =>
                       \/ Permanent(suppression[<<KeyOf[r.email], RecipientsOf[r.email][1]>>])
                       \/ operations > 0
                 /\ r.kind = "other" /\ kind = "none" /\ MailOf[m].body.report = "none" =>
                       inbox[m] > 0 \/ MailOf[m].body.dmarc \in reports
      <3>1. i \in 1..Len(MailOf[m].rcpts)
        BY <2>1, Recipients
      <3>2. /\ r.kind = "return" /\ ResolveReturnPath(r) => OnFile(Bind(r), Kind(m))
            /\ HasLeft(r) /\ Stored(m)
        BY <1>3, <2>1, <3>1 DEF InboundKept, MessageKept
      <3>3. r.kind = "other" => Others(m) # {}
        BY <2>1 DEF Others
      <3>4. r.kind = "return" /\ ResolveReturnPath(r) /\ kind \in {"hard", "soft"} =>
              filed[<<KeyOf[r.email], RecipientsOf[r.email][r.index]>>][kind] > 0
        BY <2>1, <3>2 DEF OnFile, Bind, PairOf
      <3> QED BY <2>1, <3>2, <3>3, <3>4 DEF HasLeft, Stored
    <2> QED BY <2>1, Zenon DEF AcceptedIsHandled, Kind
  <1>4. InboundKept => MailTakesEffectOnce
    BY <1>1, <1>2, <1>3 DEF MailTakesEffectOnce
  <1> QED BY <1>4, InboundStays, PTL

\* Nobody is kept from writing to an address without cause: a soft bounce
\* becomes permanent as the second one on file, also when two handlers read
\* the row before either writes it, and what another tenant's row keeps one
\* from is something the system observed.
THEOREM CausesAreReal == InboundSpec => []SuppressedWithCause
  <1>1. ASSUME InboundKept
        PROVE  EscalationNeedsTwo
    <2>1. ASSUME NEW p \in Pairs
          PROVE  suppression[p].bounce = "hard" /\ filed[p].hard = 0 => filed[p].soft >= 2
      <3>1. RowKept(p) /\ filed[p].hard \in Nat /\ filed[p].soft \in Nat
        BY <1>1, PairTypes DEF InboundKept
      <3> QED BY <3>1 DEF RowKept
    <2> QED BY <2>1 DEF EscalationNeedsTwo
  <1>2. ASSUME InboundKept, NEW j \in ApiKeys, NEW a \in Addresses,
               SharedHardWhere(suppression[<<j, a>>])
        PROVE  \/ filed[<<j, a>>].hard > 0 \/ filed[<<j, a>>].soft > 1
               \/ events[<<"email.complained", j, a>>] > 0
    <2>1. PICK p \in Pairs : p = <<j, a>>
      BY DEF Pairs
    <2>2. p[1] = j /\ p[2] = a
      BY <2>1
    <2>3. /\ RowKept(p) /\ filed[p].hard \in Nat /\ filed[p].soft \in Nat
          /\ \A n \in EventNames : events[<<n, p[1], p[2]>>] \in Nat
      BY <1>2, PairTypes DEF InboundKept
    <2>4. "email.complained" \in EventNames
      BY DEF EventNames
    <2>5. events[<<"email.complained", p[1], p[2]>>] \in Nat
      BY <2>3, <2>4
    <2>6. \/ filed[p].hard > 0 \/ filed[p].soft > 1
          \/ events[<<"email.complained", p[1], p[2]>>] > 0
      BY <1>2, <2>1, <2>3, <2>5 DEF RowKept, SharedHardWhere
    <2> QED BY <2>1, <2>2, <2>6
  <1>3. InboundKept => SharedIsObserved
    BY <1>2, Zenon DEF SharedIsObserved, IsSuppressed
  <1>4. InboundKept => SuppressedWithCause
    BY <1>1, <1>3 DEF SuppressedWithCause
  <1> QED BY <1>4, InboundStays, PTL

\* A permanent row gives way to a complaint or to an operator, never to a
\* late bounce, an unsubscribe or the passing of time.
THEOREM PermanentRowsStay == InboundSpec => PermanentStays
  <1> DEFINE Stays == \A p \in Pairs :
                 Permanent(suppression[p]) /\ suppression'[p] # suppression[p] =>
                     suppression'[p].reason = "complaint" \/ operations' > operations
  <1>1. ASSUME InboundKept, [InboundNext]_inboundVars
        PROVE  Stays
    <2>0. suppression \in [Pairs -> SuppressionRow] /\ operations \in Nat
      BY <1>1 DEF InboundKept, InboundTyped
    <2>1. ASSUME suppression' = suppression
          PROVE  Stays
      BY <2>1
    <2>2. ASSUME operations' = operations + 1
          PROVE  Stays
      BY <2>0, <2>2
    <2>3. ASSUME NEW e, NEW a, Unsubscribe(e, a)
          PROVE  Stays
      <3>1. suppression' = [suppression EXCEPT ![<<KeyOf[e], a>>] = AddFromUnsubscribe(@, e)]
        BY <2>3 DEF Unsubscribe
      <3> QED BY <2>0, <3>1 DEF AddFromUnsubscribe
    <2>4. ASSUME NEW e, NEW a, Complain(e, a)
          PROVE  Stays
      <3>1. suppression' = [suppression EXCEPT ![<<KeyOf[e], a>>] = AddFromComplaint(@, e)]
        BY <2>4 DEF Complain
      <3> QED BY <2>0, <3>1 DEF AddFromComplaint
    <2>5. ASSUME NEW e, NEW a, NEW kind, NEW existing, FileBounce(e, a, kind, existing)
          PROVE  Stays
      <3>1. suppression' = [suppression EXCEPT ![<<KeyOf[e], a>>] =
                              AddFromBounce(@, EscalateIfRepeat(kind, existing), e)]
        BY <2>5 DEF FileBounce
      <3> QED BY <2>0, <3>1 DEF AddFromBounce
    <2>6. ASSUME TimePasses
          PROVE  Stays
      <3>1. suppression' = [p \in Pairs |-> AgedRow(suppression[p])]
        BY <2>6 DEF TimePasses
      <3> QED BY <2>0, <3>1 DEF AgedRow, Permanent, Forever
    <2>7. CASE UNCHANGED inboundVars
      BY <2>1, <2>7 DEF inboundVars
    <2>8. ASSUME NEW h \in Handlers, ResolveRecipient(h)
          PROVE  Stays
      <3>1. suppression' = suppression \/ \E e, a : Unsubscribe(e, a)
        BY <2>8, Zenon DEF ResolveRecipient
      <3> QED BY <2>1, <2>3, <3>1
    <2>9. ASSUME NEW h \in Handlers, HandleBounce(h)
          PROVE  Stays
      <3>1. suppression' = suppression \/ \E e, a, kind, ex : FileBounce(e, a, kind, ex)
        BY <2>9, Zenon DEF HandleBounce, HandlePolicyBounce
      <3> QED BY <2>1, <2>5, <3>1
    <2>10. ASSUME NEW h \in Handlers, HandleFeedback(h)
           PROVE  Stays
      <3>1. suppression' = suppression \/ \E e, a : Unsubscribe(e, a) \/ Complain(e, a)
        BY <2>10, Zenon DEF HandleFeedback
      <3> QED BY <2>1, <2>3, <2>4, <3>1
    <2>11. ASSUME NEW h \in Handlers, HandlerStep(h)
           PROVE  Stays
      BY <2>1, <2>8, <2>9, <2>10, <2>11 DEF HandlerStep, RecipientsDone, ReadSuppression,
         NoOtherRecipient, DropBounce, PersistReport, StoreInboundEmail, Accept
    <2>12. ASSUME NEW h \in Handlers, Interrupted(h) \/ \E m \in Messages : Receive(h, m)
           PROVE  Stays
      BY <2>1, <2>12 DEF Interrupted, Receive
    <2>13. ASSUME NEW e \in Emails, UnsubscribePost(e) \/ QueueFinishes(e) \/ PurgeEmail(e)
           PROVE  Stays
      BY <2>1, <2>3, <2>13 DEF UnsubscribePost, QueueFinishes, PurgeEmail
    <2>14. ASSUME NEW k \in ApiKeys, NEW a \in Addresses,
                  DeleteSuppression(k, a)
                  \/ \E entry \in ManualEntries : CreateManually(k, a, entry)
           PROVE  Stays
      BY <2>2, <2>14, Zenon DEF DeleteSuppression, CreateManually
    <2> HIDE DEF Stays
    <2> QED BY <1>1, <2>6, <2>7, <2>11, <2>12, <2>13, <2>14 DEF InboundNext
  <1>2. InboundKept /\ [InboundNext]_inboundVars => [Stays]_inboundVars
    BY <1>1
  <1> QED BY <1>2, InboundStays, PTL DEF InboundSpec, PermanentStays

-----------------------------------------------------------------------------
(* The SMTP listeners.                                                     *)

\* The steps of a session, and those only a submission comes to.
SubmissionSteps ==
    {"auth", "data", "discard", "received", "create", "over_quota", "record",
     "refuse_550", "refuse_451", "answered"}
SessionSteps == SubmissionSteps \cup {"new", "rcpt", "closed"}

\* The types of all the state.
SmtpTyped ==
    /\ quota \in Nat
    /\ day \in Days
    /\ keyActive \in BOOLEAN
    /\ smtpAt \in [SmtpSessionIds -> SessionSteps]
    /\ rcpts \in [SmtpSessionIds -> Seq([kind : RcptKinds, checked : BOOLEAN])]
    /\ reservedOn \in [SmtpSessionIds -> Days \cup {0}]
    /\ usage \in [Days -> [accepted : Nat, rejected : Nat]]
    /\ answer \in [SmtpSessionIds -> Seq(Nat)]
    /\ queuedAs \in [SmtpSessionIds ->
                       [to : SUBSET Mailboxes, cc : SUBSET Mailboxes,
                        bcc : SUBSET Mailboxes, on : Days \cup {0}]]
    /\ keptSlots \in [Days -> Nat]
    /\ smtpFaults \in Nat
    /\ failedUsage \subseteq SmtpSessionIds

\* Where a session is, and what it holds, has queued and was answered there.
SessionKept(s) ==
    /\ smtpAt[s] \in SubmissionSteps => ListenerOf[s] = "submission"
    /\ reservedOn[s] # 0 => smtpAt[s] \in {"create", "refuse_550", "refuse_451"}
    /\ smtpAt[s] = "create" => (reservedOn[s] # 0 \/ quota = 0)
    /\ smtpAt[s] = "record" => quota = 0
    /\ s \in Queued => smtpAt[s] \in {"record", "refuse_451", "answered", "closed"}
    /\ s \in Queued /\ smtpAt[s] = "refuse_451" => quota = 0 /\ s \in failedUsage
    /\ answer[s] # <<>> => smtpAt[s] \in {"discard", "answered"}

\* The sessions that hold a slot of a day, and those whose email used one.
HeldOn(d) == {s \in SmtpSessionIds : reservedOn[s] = d}
SentOn(d) == {s \in Queued : queuedAs[s].on = d}

\* The sum of a day's slots, over finite sets.
DayKept(d) ==
    /\ IsFiniteSet(HeldOn(d))
    /\ IsFiniteSet(SentOn(d))
    /\ quota > 0 =>
          /\ usage[d].accepted = keptSlots[d] + Cardinality(SentOn(d)) + Cardinality(HeldOn(d))
          /\ usage[d].accepted <= quota
DaysKept == \A d \in Days : DayKept(d)

\* The inductive invariant.
SmtpKept ==
    /\ SmtpTyped
    /\ \A s \in SmtpSessionIds : SessionKept(s)
    /\ DaysKept
    /\ RefusedIsNotQueued
    /\ EnvelopeIsExact
    /\ RecipientsAreKnown

-----------------------------------------------------------------------------
\* A step of a session leaves the others as they are.
LEMMA SessionAlone ==
    ASSUME SmtpKept, NEW s \in SmtpSessionIds,
           \A z \in SmtpSessionIds \ {s} :
              /\ smtpAt'[z] = smtpAt[z]
              /\ reservedOn'[z] = reservedOn[z]
              /\ answer'[z] = answer[z]
              /\ queuedAs'[z] = queuedAs[z]
              /\ rcpts'[z] = rcpts[z],
           quota' = quota, failedUsage \subseteq failedUsage'
    PROVE  \A z \in SmtpSessionIds \ {s} :
              /\ SessionKept(z)'
              /\ Len(answer'[z]) <= 1
              /\ z \in Queued' <=> z \in Queued
              /\ z \in Queued' /\ answer'[z] # <<>> /\ answer'[z][1] # 250 =>
                    quota' = 0 /\ z \in failedUsage'
<1> TAKE z \in SmtpSessionIds \ {s}
<1>1. z \in Queued' <=> z \in Queued
  BY DEF Queued
<1>2. SessionKept(z)'
  BY <1>1 DEF SmtpKept, SessionKept
<1> QED
  BY <1>1, <1>2 DEF SmtpKept, RefusedIsNotQueued

\* A step that moves no slot and queues nothing keeps the sums.
LEMMA NoSlotMoves ==
    ASSUME SmtpKept, UNCHANGED <<quota, reservedOn, queuedAs, keptSlots>>,
           \A d \in Days : usage'[d].accepted = usage[d].accepted
    PROVE  DaysKept'
<1>1. \A d \in Days : HeldOn(d)' = HeldOn(d) /\ SentOn(d)' = SentOn(d)
  BY DEF HeldOn, SentOn, Queued
<1> QED
  BY <1>1 DEF SmtpKept, DaysKept, DayKept

\* Neither the recipients nor the queued emails change.
LEMMA MailStands ==
    ASSUME SmtpKept
    PROVE  /\ UNCHANGED rcpts => RecipientsAreKnown'
           /\ UNCHANGED queuedAs => EnvelopeIsExact'
  BY DEF SmtpKept, RecipientsAreKnown, EnvelopeIsExact, Queued

\* What a step of one session has to show.
LEMMA SessionOnward ==
    ASSUME SmtpKept, NEW s \in SmtpSessionIds,
           \A z \in SmtpSessionIds \ {s} :
              /\ smtpAt'[z] = smtpAt[z]
              /\ reservedOn'[z] = reservedOn[z]
              /\ answer'[z] = answer[z]
              /\ queuedAs'[z] = queuedAs[z]
              /\ rcpts'[z] = rcpts[z],
           quota' = quota, failedUsage \subseteq failedUsage',
           SmtpTyped', SessionKept(s)', Len(answer'[s]) <= 1,
           s \in Queued' /\ answer'[s] # <<>> /\ answer'[s][1] # 250 =>
              quota' = 0 /\ s \in failedUsage',
           DaysKept', EnvelopeIsExact', RecipientsAreKnown'
    PROVE  SmtpKept'
<1>1. \A z \in SmtpSessionIds \ {s} :
              /\ SessionKept(z)'
              /\ Len(answer'[z]) <= 1
              /\ z \in Queued' /\ answer'[z] # <<>> /\ answer'[z][1] # 250 =>
                    quota' = 0 /\ z \in failedUsage'
  BY SessionAlone
<1>2. \A z \in SmtpSessionIds : SessionKept(z)'
  BY <1>1
<1>3. RefusedIsNotQueued'
  BY <1>1 DEF RefusedIsNotQueued
<1> QED
  BY <1>2, <1>3 DEF SmtpKept

\* A session that has not been answered, and one that is.
LEMMA AnsweredOnce ==
    ASSUME SmtpKept, NEW s \in SmtpSessionIds, NEW code \in Nat, answer[s] = <<>>,
           answer' = [answer EXCEPT ![s] = Append(@, code)]
    PROVE  /\ answer' \in [SmtpSessionIds -> Seq(Nat)]
           /\ answer'[s] # <<>>
           /\ Len(answer'[s]) = 1
           /\ answer'[s][1] = code
<1>1. answer \in [SmtpSessionIds -> Seq(Nat)]
  BY DEF SmtpKept, SmtpTyped
<1>2. answer'[s] = Append(<<>>, code)
  BY <1>1
<1>3. /\ Append(<<>>, code) \in Seq(Nat) /\ Append(<<>>, code) # <<>>
      /\ Len(Append(<<>>, code)) = 1 /\ Append(<<>>, code)[1] = code
  OBVIOUS
<1> QED
  BY <1>1, <1>2, <1>3

\* Moves that change nothing but where the session is.
LEMMA MovesOn ==
    ASSUME SmtpKept, NEW s \in SmtpSessionIds, NEW to \in SessionSteps,
           Go(s, to), reservedOn[s] # 0 => to \in {"create", "refuse_550", "refuse_451"},
           to \in SubmissionSteps => ListenerOf[s] = "submission",
           to \notin {"create", "record"},
           s \in Queued => to \in {"answered", "closed"},
           answer[s] # <<>> => to = "answered",
           UNCHANGED <<quota, day, keyActive, rcpts, reservedOn, usage, answer,
                       queuedAs, keptSlots, failedUsage>>,
           smtpFaults' \in Nat
    PROVE  SmtpKept'
<1>1. SmtpTyped'
  BY DEF SmtpKept, SmtpTyped, Go
<1>2. smtpAt'[s] = to /\ \A z \in SmtpSessionIds \ {s} : smtpAt'[z] = smtpAt[z]
  BY DEF SmtpKept, SmtpTyped, Go
<1>3. SessionKept(s)'
  BY <1>2 DEF SmtpKept, SessionKept, Queued
<1>4. DaysKept'
  BY NoSlotMoves
<1>5. EnvelopeIsExact' /\ RecipientsAreKnown'
  BY MailStands
<1>6. Len(answer'[s]) <= 1 /\ (s \in Queued' /\ answer'[s] # <<>> /\ answer'[s][1] # 250 =>
              quota' = 0 /\ s \in failedUsage')
  BY DEF SmtpKept, RefusedIsNotQueued, Queued
<1> QED
  BY <1>1, <1>2, <1>3, <1>4, <1>5, <1>6, SessionOnward

\* A failed statement counts.
LEMMA FaultCounts == SmtpKept /\ Fault => smtpFaults' \in Nat
  BY DEF SmtpKept, SmtpTyped, Fault

\* Connect keeps the invariant.
LEMMA ConnectKept ==
    ASSUME SmtpKept, NEW s \in SmtpSessionIds, Connect(s)
    PROVE  SmtpKept'
<1>1. PICK to \in {"closed", "auth", "rcpt"} :
         Go(s, to) /\ (to = "auth" => ListenerOf[s] = "submission")
  BY DEF Connect
<1>2. smtpAt[s] = "new" /\ SessionKept(s) /\ s \notin Queued /\ smtpFaults' \in Nat
  BY DEF Connect, SmtpKept, SmtpTyped, SessionKept
<1> QED
  BY <1>1, <1>2, MovesOn DEF Connect, SessionKept, SessionSteps, SubmissionSteps

\* OnAuth keeps the invariant.
LEMMA OnAuthKept ==
    ASSUME SmtpKept, NEW s \in SmtpSessionIds, OnAuth(s)
    PROVE  SmtpKept'
<1>1. smtpAt[s] = "auth" /\ SessionKept(s) /\ s \notin Queued /\ smtpFaults' \in Nat
  BY DEF OnAuth, SmtpKept, SmtpTyped, SessionKept
<1> QED
  BY <1>1, MovesOn DEF OnAuth, SessionKept, SessionSteps, SubmissionSteps

\* EndOfAborted keeps the invariant.
LEMMA EndOfAbortedKept ==
    ASSUME SmtpKept, NEW s \in SmtpSessionIds, EndOfAborted(s)
    PROVE  SmtpKept'
<1>1. smtpAt[s] = "discard" /\ SessionKept(s) /\ s \notin Queued /\ smtpFaults' \in Nat
  BY DEF EndOfAborted, SmtpKept, SmtpTyped, SessionKept
<1> QED
  BY <1>1, MovesOn DEF EndOfAborted, SessionKept, SessionSteps, SubmissionSteps

\* ReserveFails keeps the invariant.
LEMMA ReserveFailsKept ==
    ASSUME SmtpKept, NEW s \in SmtpSessionIds, ReserveFails(s)
    PROVE  SmtpKept'
<1>1. smtpAt[s] = "received" /\ SessionKept(s) /\ s \notin Queued /\ smtpFaults' \in Nat
  BY FaultCounts DEF ReserveFails, SmtpKept, SmtpTyped, SessionKept
<1> QED
  BY <1>1, MovesOn DEF ReserveFails, SessionKept, SessionSteps, SubmissionSteps

\* CreateStops keeps the invariant.
LEMMA CreateStopsKept ==
    ASSUME SmtpKept, NEW s \in SmtpSessionIds, CreateRefused(s) \/ CreateFails(s)
    PROVE  SmtpKept'
<1>1. smtpAt[s] = "create" /\ SessionKept(s) /\ s \notin Queued /\ smtpFaults' \in Nat
  BY FaultCounts DEF CreateRefused, CreateFails, SmtpKept, SmtpTyped, SessionKept
<1>2. CASE CreateRefused(s)
  BY <1>1, <1>2, MovesOn DEF CreateRefused, SessionKept, SessionSteps, SubmissionSteps
<1>3. CASE CreateFails(s)
  BY <1>1, <1>3, MovesOn DEF CreateFails, SessionKept, SessionSteps, SubmissionSteps
<1> QED
  BY <1>2, <1>3

\* DataStreams keeps the invariant.
LEMMA DataStreamsKept ==
    ASSUME SmtpKept, NEW s \in SmtpSessionIds, DataStreams(s)
    PROVE  SmtpKept'
<1>1. smtpAt[s] = "data" /\ SessionKept(s) /\ s \notin Queued /\ smtpFaults' \in Nat /\ answer[s] = <<>>
  BY DEF DataStreams, SmtpKept, SmtpTyped, SessionKept
<1>2. CASE ~SubmissionOf[s].large
  BY <1>1, <1>2, MovesOn DEF DataStreams, SessionKept, SessionSteps, SubmissionSteps
<1>3. CASE SubmissionOf[s].large
  <2>1. Go(s, "discard") /\ answer' = [answer EXCEPT ![s] = Append(@, 552)]
    BY <1>3 DEF DataStreams
  <2>2. /\ answer' \in [SmtpSessionIds -> Seq(Nat)] /\ Len(answer'[s]) = 1
        /\ answer'[s] # <<>>
    <3>1. PICK code \in Nat : code = 552
      OBVIOUS
    <3>2. answer' = [answer EXCEPT ![s] = Append(@, code)]
      BY <2>1, <3>1
    <3> QED
      BY <1>1, <3>2, AnsweredOnce
  <2>3. SmtpTyped'
    BY <2>1, <2>2 DEF SmtpKept, SmtpTyped, Go, DataStreams, SessionSteps, SubmissionSteps
  <2>4. /\ smtpAt'[s] = "discard"
        /\ \A z \in SmtpSessionIds \ {s} : smtpAt'[z] = smtpAt[z] /\ answer'[z] = answer[z]
    BY <2>1 DEF SmtpKept, SmtpTyped, Go
  <2>5. SessionKept(s)' /\ s \notin Queued'
    BY <1>1, <2>4 DEF SessionKept, Queued, DataStreams, SubmissionSteps
  <2>6. DaysKept' /\ EnvelopeIsExact' /\ RecipientsAreKnown'
    BY NoSlotMoves, MailStands DEF DataStreams
  <2>7. Len(answer'[s]) <= 1
    BY <2>2
  <2>8. /\ UNCHANGED <<quota, rcpts, reservedOn, queuedAs, failedUsage>>
        /\ failedUsage \subseteq failedUsage'
    BY DEF DataStreams
  <2> QED
    BY <2>3, <2>4, <2>5, <2>6, <2>7, <2>8, SessionOnward
<1> QED
  BY <1>2, <1>3

\* OnRcptTo keeps the invariant.
LEMMA OnRcptToKept ==
    ASSUME SmtpKept, NEW s \in SmtpSessionIds, NEW kind \in RcptKinds,
           NEW fails \in BOOLEAN, OnRcptTo(s, kind, fails)
    PROVE  SmtpKept'
<1> DEFINE r == [kind |-> kind, checked |-> ~fails]
<1>1. /\ rcpts[s] \in Seq([kind : RcptKinds, checked : BOOLEAN])
      /\ r \in [kind : RcptKinds, checked : BOOLEAN]
      /\ rcpts' = [rcpts EXCEPT ![s] = Append(rcpts[s], r)]
      /\ Len(rcpts[s]) < MaxRecipients
  BY DEF SmtpKept, SmtpTyped, OnRcptTo, RoomForRecipient
<1>2. smtpFaults' \in Nat
  BY FaultCounts DEF OnRcptTo, SmtpKept, SmtpTyped
<1>3. SmtpTyped'
  <2>1. Append(rcpts[s], r) \in Seq([kind : RcptKinds, checked : BOOLEAN])
    BY <1>1
  <2>2. rcpts' \in [SmtpSessionIds -> Seq([kind : RcptKinds, checked : BOOLEAN])]
    BY <1>1, <2>1 DEF SmtpKept, SmtpTyped
  <2> QED
    BY <1>2, <2>2 DEF SmtpKept, SmtpTyped, OnRcptTo
<1>4. \A z \in SmtpSessionIds \ {s} : rcpts'[z] = rcpts[z]
  BY <1>1 DEF SmtpKept, SmtpTyped
<1>5. SessionKept(s)'
  BY DEF SmtpKept, SessionKept, Queued, OnRcptTo
<1>6. Len(answer'[s]) <= 1 /\ (s \in Queued' /\ answer'[s] # <<>> /\ answer'[s][1] # 250 =>
              quota' = 0 /\ s \in failedUsage')
  BY DEF SmtpKept, RefusedIsNotQueued, Queued, OnRcptTo
<1>7. DaysKept' /\ EnvelopeIsExact'
  BY NoSlotMoves, MailStands DEF OnRcptTo
<1>8. RecipientsAreKnown'
  <2>1. MaxRecipients \in Nat
    BY SmtpConstants
  <2>2. r.kind \in ValidKinds \/ (r.kind \notin TokenKinds /\ ~r.checked)
    BY DEF OnRcptTo, RcptAccepted, ValidKinds, TokenKinds
  <2>3. /\ rcpts'[s] = Append(rcpts[s], r)
        /\ Len(rcpts'[s]) = Len(rcpts[s]) + 1
        /\ \A i \in 1..Len(rcpts[s]) : rcpts'[s][i] = rcpts[s][i]
        /\ rcpts'[s][Len(rcpts[s]) + 1] = r
        /\ Len(rcpts[s]) \in Nat
    BY <1>1 DEF SmtpKept, SmtpTyped
  <2>4. \A i \in 1..Len(rcpts'[s]) :
           rcpts'[s][i].kind \in ValidKinds
             \/ (rcpts'[s][i].kind \notin TokenKinds /\ ~rcpts'[s][i].checked)
    <3> TAKE i \in 1..Len(rcpts'[s])
    <3>1. CASE i \in 1..Len(rcpts[s])
      BY <2>3, <3>1 DEF SmtpKept, RecipientsAreKnown
    <3>2. CASE i = Len(rcpts[s]) + 1
      BY <2>2, <2>3, <3>2
    <3> QED
      BY <2>3, <3>1, <3>2
  <2>5. Len(rcpts'[s]) <= MaxRecipients
    BY <1>1, <2>1, <2>3
  <2> QED
    BY <1>4, <2>4, <2>5 DEF SmtpKept, RecipientsAreKnown
<1> QED
  BY <1>3, <1>4, <1>5, <1>6, <1>7, <1>8, SessionOnward DEF OnRcptTo

\* A slot taken, and a slot given up.
LEMMA SlotTaken ==
    ASSUME SmtpKept, NEW s \in SmtpSessionIds, NEW e \in Days, reservedOn[s] = 0,
           reservedOn' = [reservedOn EXCEPT ![s] = e]
    PROVE  \A d \in Days :
              /\ IsFiniteSet(HeldOn(d)')
              /\ Cardinality(HeldOn(d)') = Cardinality(HeldOn(d)) + (IF d = e THEN 1 ELSE 0)
              /\ Cardinality(HeldOn(d)) \in Nat
<1> TAKE d \in Days
<1>1. IsFiniteSet(HeldOn(d)) /\ Cardinality(HeldOn(d)) \in Nat
  BY FS_CardinalityType DEF SmtpKept, DaysKept, DayKept
<1>2. CASE d = e
  <2>1. HeldOn(d)' = HeldOn(d) \cup {s} /\ s \notin HeldOn(d)
    BY <1>2, SmtpConstants DEF HeldOn, SmtpKept, SmtpTyped
  <2>2. /\ IsFiniteSet(HeldOn(d) \cup {s})
        /\ Cardinality(HeldOn(d) \cup {s}) = Cardinality(HeldOn(d)) + 1
    BY <1>1, <2>1, FS_AddElement, Zenon
  <2> QED
    BY <1>1, <1>2, <2>1, <2>2
<1>3. CASE d # e
  <2>1. HeldOn(d)' = HeldOn(d)
    BY <1>3, SmtpConstants DEF HeldOn, SmtpKept, SmtpTyped
  <2> QED
    BY <1>1, <1>3, <2>1
<1> QED
  BY <1>2, <1>3

\* A slot more or less on the current day.
LEMMA SlotGiven ==
    ASSUME SmtpKept, NEW s \in SmtpSessionIds,
           reservedOn' = [reservedOn EXCEPT ![s] = 0]
    PROVE  \A d \in Days :
              /\ IsFiniteSet(HeldOn(d)')
              /\ Cardinality(HeldOn(d)') =
                    Cardinality(HeldOn(d)) - (IF d = reservedOn[s] THEN 1 ELSE 0)
              /\ Cardinality(HeldOn(d)) \in Nat
              /\ Cardinality(HeldOn(d)') \in Nat
<1> TAKE d \in Days
<1>1. IsFiniteSet(HeldOn(d)) /\ Cardinality(HeldOn(d)) \in Nat
  BY FS_CardinalityType DEF SmtpKept, DaysKept, DayKept
<1>2. CASE d = reservedOn[s]
  <2>1. HeldOn(d)' = HeldOn(d) \ {s} /\ s \in HeldOn(d)
    BY <1>2, SmtpConstants DEF HeldOn, SmtpKept, SmtpTyped
  <2>2. /\ IsFiniteSet(HeldOn(d) \ {s})
        /\ Cardinality(HeldOn(d) \ {s}) = Cardinality(HeldOn(d)) - 1
    BY <1>1, <2>1, FS_RemoveElement, Zenon
  <2>3. Cardinality(HeldOn(d) \ {s}) \in Nat
    BY <2>2, FS_CardinalityType
  <2> QED
    BY <1>1, <1>2, <2>1, <2>2, <2>3
<1>3. CASE d # reservedOn[s]
  <2>1. HeldOn(d)' = HeldOn(d)
    BY <1>3, SmtpConstants DEF HeldOn, SmtpKept, SmtpTyped
  <2> QED
    BY <1>1, <1>3, <2>1
<1> QED
  BY <1>2, <1>3

\* Emails that stay queued are counted as before.
LEMMA SentStands ==
    ASSUME SmtpKept, UNCHANGED queuedAs
    PROVE  \A d \in Days :
              /\ SentOn(d)' = SentOn(d)
              /\ IsFiniteSet(SentOn(d))
              /\ Cardinality(SentOn(d)) \in Nat
<1>1. \A d \in Days : IsFiniteSet(SentOn(d)) /\ Cardinality(SentOn(d)) \in Nat
  BY FS_CardinalityType DEF SmtpKept, DaysKept, DayKept
<1> QED
  BY <1>1 DEF SentOn, Queued

\* One more on a day's row: what changes and what does not.
LEMMA UsageAdded ==
    ASSUME SmtpKept, NEW a \in Nat, NEW r \in Nat, usage' = AddUsage(usage, day, a, r)
    PROVE  /\ usage' \in [Days -> [accepted : Nat, rejected : Nat]]
           /\ \A d \in Days :
                 usage'[d].accepted = usage[d].accepted + (IF d = day THEN a ELSE 0)
<1>1. /\ usage \in [Days -> [accepted : Nat, rejected : Nat]] /\ day \in Days
      /\ usage[day].accepted \in Nat /\ usage[day].rejected \in Nat
      /\ \A d \in Days : usage[d].accepted \in Nat
  BY DEF SmtpKept, SmtpTyped
<1> DEFINE row == [accepted |-> usage[day].accepted + a, rejected |-> usage[day].rejected + r]
<1>2. row \in [accepted : Nat, rejected : Nat] /\ usage' = [usage EXCEPT ![day] = row]
  BY <1>1 DEF AddUsage
<1>3. row.accepted = usage[day].accepted + a
  OBVIOUS
<1> HIDE DEF row
<1>4. usage' \in [Days -> [accepted : Nat, rejected : Nat]]
  BY <1>1, <1>2
<1>5. usage'[day] = row /\ \A d \in Days \ {day} : usage'[d] = usage[d]
  BY <1>1, <1>2
<1> QED
  BY <1>1, <1>3, <1>4, <1>5

\* ReserveAccepted keeps the invariant.
LEMMA ReserveAcceptedKept ==
    ASSUME SmtpKept, NEW s \in SmtpSessionIds, ReserveAccepted(s)
    PROVE  SmtpKept'
<1>1. /\ smtpAt[s] = "received" /\ SessionKept(s) /\ s \notin Queued
      /\ smtpFaults' \in Nat /\ answer[s] = <<>> /\ reservedOn[s] = 0
      /\ ListenerOf[s] = "submission"
  BY DEF ReserveAccepted, SmtpKept, SmtpTyped, SessionKept, SubmissionSteps
<1>2. UNCHANGED <<quota, day, keyActive, rcpts, answer, queuedAs, keptSlots,
                  smtpFaults, failedUsage>>
  BY DEF ReserveAccepted
<1>3. CASE Go(s, "over_quota") /\ UNCHANGED <<usage, reservedOn>>
  BY <1>1, <1>2, <1>3, MovesOn DEF SessionKept, SessionSteps, SubmissionSteps
<1>4. CASE quota = 0 /\ Go(s, "create") /\ UNCHANGED <<usage, reservedOn>>
  <2>1. SmtpTyped'
    BY <1>2, <1>4 DEF SmtpKept, SmtpTyped, Go, SessionSteps, SubmissionSteps
  <2>2. smtpAt'[s] = "create" /\ \A z \in SmtpSessionIds \ {s} : smtpAt'[z] = smtpAt[z]
    BY <1>4 DEF SmtpKept, SmtpTyped, Go
  <2>3. SessionKept(s)' /\ s \notin Queued'
    BY <1>1, <1>2, <1>4, <2>2 DEF SessionKept, Queued
  <2>4. DaysKept' /\ EnvelopeIsExact' /\ RecipientsAreKnown'
    BY <1>2, <1>4, NoSlotMoves, MailStands
  <2>5. Len(answer'[s]) <= 1
    BY <1>1, <1>2
  <2> QED
    BY <1>2, <1>4, <2>1, <2>2, <2>3, <2>4, <2>5, SessionOnward
<1>5. CASE /\ quota > 0 /\ usage[day].accepted < quota
           /\ usage' = AddUsage(usage, day, 1, 0)
           /\ reservedOn' = [reservedOn EXCEPT ![s] = day]
           /\ Go(s, "create")
  <2>1. SmtpTyped'
    <3>1. usage' \in [Days -> [accepted : Nat, rejected : Nat]]
      BY <1>5, UsageAdded
    <3>2. smtpAt' \in [SmtpSessionIds -> SessionSteps]
      BY <1>5 DEF SmtpKept, SmtpTyped, Go, SessionSteps, SubmissionSteps
    <3>3. reservedOn' \in [SmtpSessionIds -> Days \cup {0}]
      BY <1>5 DEF SmtpKept, SmtpTyped
    <3> QED
      BY <1>2, <3>1, <3>2, <3>3 DEF SmtpKept, SmtpTyped
  <2>2. /\ smtpAt'[s] = "create" /\ reservedOn'[s] = day /\ day # 0
        /\ \A z \in SmtpSessionIds \ {s} :
              smtpAt'[z] = smtpAt[z] /\ reservedOn'[z] = reservedOn[z]
    BY <1>5, SmtpConstants DEF SmtpKept, SmtpTyped, Go
  <2>3. SessionKept(s)' /\ s \notin Queued'
    BY <1>1, <1>2, <2>2 DEF SessionKept, Queued
  <2>4. DaysKept'
    <3> SUFFICES ASSUME NEW d \in Days
                 PROVE  DayKept(d)'
      BY DEF DaysKept
    <3>0. day \in Days /\ quota \in Nat /\ keptSlots[d] \in Nat /\ usage[d].accepted \in Nat
      BY DEF SmtpKept, SmtpTyped
    <3>1. /\ IsFiniteSet(HeldOn(d)')
          /\ Cardinality(HeldOn(d)') = Cardinality(HeldOn(d)) + (IF d = day THEN 1 ELSE 0)
          /\ Cardinality(HeldOn(d)) \in Nat
      BY <1>1, <1>5, <3>0, SlotTaken
    <3>2. SentOn(d)' = SentOn(d) /\ IsFiniteSet(SentOn(d)) /\ Cardinality(SentOn(d)) \in Nat
      BY <1>2, SentStands
    <3>3. usage'[d].accepted = usage[d].accepted + (IF d = day THEN 1 ELSE 0)
      BY <1>5, UsageAdded
    <3>4. /\ usage[d].accepted = keptSlots[d] + Cardinality(SentOn(d)) + Cardinality(HeldOn(d))
          /\ usage[d].accepted <= quota
      BY <1>5 DEF SmtpKept, DaysKept, DayKept
    <3>5. keptSlots' = keptSlots /\ quota' = quota
      BY <1>2
    <3>6. usage'[d].accepted = keptSlots[d] + Cardinality(SentOn(d)) + Cardinality(HeldOn(d)')
      BY <3>0, <3>1, <3>2, <3>3, <3>4
    <3>7. usage'[d].accepted <= quota
      BY <1>5, <3>0, <3>3, <3>4
    <3> QED
      BY <3>1, <3>2, <3>5, <3>6, <3>7 DEF DayKept
  <2>5. EnvelopeIsExact' /\ RecipientsAreKnown'
    BY <1>2, MailStands
  <2>6. Len(answer'[s]) <= 1
    BY <1>1, <1>2
  <2> QED
    BY <1>2, <2>1, <2>2, <2>3, <2>4, <2>5, <2>6, SessionOnward
<1> QED
  BY <1>3, <1>4, <1>5 DEF ReserveAccepted

\* The one reply to the message, whatever came before it: the session holds
\* no slot afterwards.
LEMMA Replied ==
    ASSUME SmtpKept, NEW s \in SmtpSessionIds, NEW code \in Nat,
           Answered(s, code), answer[s] = <<>>, ListenerOf[s] = "submission",
           reservedOn' = [reservedOn EXCEPT ![s] = 0],
           UNCHANGED <<quota, day, keyActive, rcpts, failedUsage>>,
           usage' \in [Days -> [accepted : Nat, rejected : Nat]],
           queuedAs' \in [SmtpSessionIds ->
                            [to : SUBSET Mailboxes, cc : SUBSET Mailboxes,
                             bcc : SUBSET Mailboxes, on : Days \cup {0}]],
           \A z \in SmtpSessionIds \ {s} : queuedAs'[z] = queuedAs[z],
           keptSlots' \in [Days -> Nat], smtpFaults' \in Nat,
           DaysKept', EnvelopeIsExact',
           s \in Queued' /\ code # 250 => quota = 0 /\ s \in failedUsage
    PROVE  SmtpKept'
<1>1. /\ answer' \in [SmtpSessionIds -> Seq(Nat)]
      /\ answer'[s] # <<>> /\ Len(answer'[s]) = 1 /\ answer'[s][1] = code
  BY AnsweredOnce DEF Answered
<1>2. /\ smtpAt' \in [SmtpSessionIds -> SessionSteps] /\ smtpAt'[s] = "answered"
      /\ \A z \in SmtpSessionIds \ {s} : smtpAt'[z] = smtpAt[z]
  BY DEF SmtpKept, SmtpTyped, Answered, Go, SessionSteps, SubmissionSteps
<1>3. /\ reservedOn' \in [SmtpSessionIds -> Days \cup {0}] /\ reservedOn'[s] = 0
      /\ \A z \in SmtpSessionIds \ {s} : reservedOn'[z] = reservedOn[z]
  BY DEF SmtpKept, SmtpTyped
<1>4. \A z \in SmtpSessionIds \ {s} : answer'[z] = answer[z]
  BY DEF SmtpKept, SmtpTyped, Answered
<1>5. SmtpTyped'
  BY <1>1, <1>2, <1>3 DEF SmtpKept, SmtpTyped
<1>6. SessionKept(s)'
  BY <1>2, <1>3 DEF SessionKept
<1>7. RecipientsAreKnown'
  BY MailStands
<1>8. Len(answer'[s]) <= 1 /\ (s \in Queued' /\ answer'[s] # <<>> /\ answer'[s][1] # 250 =>
              quota' = 0 /\ s \in failedUsage')
  BY <1>1
<1> QED
  BY <1>2, <1>3, <1>4, <1>5, <1>6, <1>7, <1>8, SessionOnward

\* A session that goes to refuse_451 after a usage statement failed.
LEMMA StatementFailed ==
    ASSUME SmtpKept, NEW s \in SmtpSessionIds, smtpAt[s] \in {"over_quota", "record"},
           Go(s, "refuse_451"), Fault, failedUsage' = failedUsage \cup {s},
           UNCHANGED <<quota, day, keyActive, rcpts, reservedOn, usage, answer, queuedAs, keptSlots>>
    PROVE  SmtpKept'
<1>1. /\ SessionKept(s) /\ reservedOn[s] = 0 /\ answer[s] = <<>>
      /\ ListenerOf[s] = "submission" /\ smtpFaults' \in Nat
      /\ s \in Queued => quota = 0
  BY FaultCounts DEF SmtpKept, SessionKept, SubmissionSteps
<1>2. SmtpTyped'
  BY <1>1 DEF SmtpKept, SmtpTyped, Go, SessionSteps, SubmissionSteps
<1>3. smtpAt'[s] = "refuse_451" /\ \A z \in SmtpSessionIds \ {s} : smtpAt'[z] = smtpAt[z]
  BY DEF SmtpKept, SmtpTyped, Go
<1>4. SessionKept(s)'
  BY <1>1, <1>3 DEF SessionKept, Queued
<1>5. DaysKept' /\ EnvelopeIsExact' /\ RecipientsAreKnown'
  BY NoSlotMoves, MailStands
<1>6. Len(answer'[s]) <= 1 /\ answer'[s] = <<>>
  BY <1>1
<1> QED
  BY <1>2, <1>3, <1>4, <1>5, <1>6, SessionOnward

\* A session that holds no slot gives none up.
LEMMA NoSlotHeld ==
    ASSUME SmtpKept, NEW s \in SmtpSessionIds, reservedOn[s] = 0, UNCHANGED reservedOn
    PROVE  reservedOn' = [reservedOn EXCEPT ![s] = 0]
  BY DEF SmtpKept, SmtpTyped

\* OverQuota keeps the invariant.
LEMMA OverQuotaKept ==
    ASSUME SmtpKept, NEW s \in SmtpSessionIds, OverQuota(s)
    PROVE  SmtpKept'
<1>1. /\ smtpAt[s] = "over_quota" /\ SessionKept(s) /\ s \notin Queued
      /\ answer[s] = <<>> /\ reservedOn[s] = 0 /\ ListenerOf[s] = "submission"
  BY DEF OverQuota, SmtpKept, SessionKept, SubmissionSteps
<1>2. UNCHANGED <<quota, day, keyActive, rcpts, reservedOn, queuedAs, keptSlots>>
  BY DEF OverQuota
<1>3. CASE /\ usage' = AddUsage(usage, day, 0, 1) /\ Answered(s, 452)
           /\ UNCHANGED <<smtpFaults, failedUsage>>
  <2>1. /\ usage' \in [Days -> [accepted : Nat, rejected : Nat]]
        /\ \A d \in Days : usage'[d].accepted = usage[d].accepted + (IF d = day THEN 0 ELSE 0)
    BY <1>3, UsageAdded
  <2>2. \A d \in Days : usage'[d].accepted = usage[d].accepted
    BY <2>1 DEF SmtpKept, SmtpTyped
  <2>3. DaysKept' /\ EnvelopeIsExact'
    BY <1>2, <2>2, NoSlotMoves, MailStands
  <2>4. s \notin Queued' /\ 452 \in Nat
    BY <1>1, <1>2 DEF Queued
  <2>5. reservedOn' = [reservedOn EXCEPT ![s] = 0]
    BY <1>1, <1>2, NoSlotHeld
  <2>6. SmtpTyped
    BY DEF SmtpKept
  <2> QED
    BY <1>1, <1>2, <1>3, <2>1, <2>3, <2>4, <2>5, <2>6, Replied DEF SmtpTyped
<1>4. CASE /\ Fault /\ failedUsage' = failedUsage \cup {s} /\ Go(s, "refuse_451")
           /\ UNCHANGED <<usage, answer>>
  BY <1>1, <1>2, <1>4, StatementFailed
<1> QED
  BY <1>3, <1>4 DEF OverQuota

\* RecordAccepted keeps the invariant.
LEMMA RecordAcceptedKept ==
    ASSUME SmtpKept, NEW s \in SmtpSessionIds, RecordAccepted(s)
    PROVE  SmtpKept'
<1>1. /\ smtpAt[s] = "record" /\ SessionKept(s) /\ quota = 0
      /\ answer[s] = <<>> /\ reservedOn[s] = 0 /\ ListenerOf[s] = "submission"
  BY DEF RecordAccepted, SmtpKept, SessionKept, SubmissionSteps
<1>2. UNCHANGED <<quota, day, keyActive, rcpts, reservedOn, queuedAs, keptSlots>>
  BY DEF RecordAccepted
<1>3. CASE /\ usage' = AddUsage(usage, day, 1, 0) /\ Answered(s, 250)
           /\ UNCHANGED <<smtpFaults, failedUsage>>
  <2>1. usage' \in [Days -> [accepted : Nat, rejected : Nat]]
    BY <1>3, UsageAdded
  <2>2. DaysKept'
    <3>1. \A d \in Days : HeldOn(d)' = HeldOn(d) /\ SentOn(d)' = SentOn(d)
      BY <1>2 DEF HeldOn, SentOn, Queued
    <3> QED
      BY <1>1, <1>2, <3>1 DEF SmtpKept, DaysKept, DayKept
  <2>3. EnvelopeIsExact'
    BY <1>2, MailStands
  <2>4. 250 \in Nat
    OBVIOUS
  <2>5. reservedOn' = [reservedOn EXCEPT ![s] = 0]
    BY <1>1, <1>2, NoSlotHeld
  <2>6. SmtpTyped
    BY DEF SmtpKept
  <2> QED
    BY <1>1, <1>2, <1>3, <2>1, <2>2, <2>3, <2>4, <2>5, <2>6, Replied DEF SmtpTyped
<1>4. CASE /\ Fault /\ failedUsage' = failedUsage \cup {s} /\ Go(s, "refuse_451")
           /\ UNCHANGED <<usage, answer>>
  BY <1>1, <1>2, <1>4, StatementFailed
<1> QED
  BY <1>3, <1>4 DEF RecordAccepted

\* buildSubmissionInput: every recipient of the envelope is in one of the
\* three lists and nobody else is; who the headers show among them, and only
\* those, stays visible.
LEMMA EnvelopeKept ==
    ASSUME NEW m \in Submissions, ~Unmappable(m)
    PROVE  LET e == BuildSubmissionInput(m) IN
           /\ e.to \subseteq Mailboxes /\ e.cc \subseteq Mailboxes /\ e.bcc \subseteq Mailboxes
           /\ e.to \cup e.cc \cup e.bcc = m.envelope
           /\ m.envelope # {}
           /\ (m.to \cup m.cc) \cap m.envelope # {} =>
                 e.to \cup e.cc = (m.to \cup m.cc) \cap m.envelope
<1> DEFINE to == m.to \cap m.envelope
<1> DEFINE cc == m.cc \cap m.envelope
<1>1. m.to \subseteq Mailboxes /\ m.cc \subseteq Mailboxes /\ m.envelope \subseteq Mailboxes
  BY DEF Submissions
<1>2. CASE to \cup cc = {}
  BY <1>1, <1>2 DEF BuildSubmissionInput, Unmappable
<1>3. CASE to \cup cc # {}
  <2>1. BuildSubmissionInput(m) =
          [to |-> IF to = {} THEN cc ELSE to, cc |-> cc, bcc |-> m.envelope \ (to \cup cc)]
    BY <1>3 DEF BuildSubmissionInput
  <2>2. (IF to = {} THEN cc ELSE to) \cup cc = to \cup cc
    OBVIOUS
  <2>3. to \cup cc \subseteq m.envelope /\ to \cup cc = (m.to \cup m.cc) \cap m.envelope
    OBVIOUS
  <2> QED
    BY <1>1, <1>3, <2>1, <2>2, <2>3 DEF Unmappable
<1> QED
  BY <1>2, <1>3

\* CreateEmail keeps the invariant.
LEMMA CreateEmailKept ==
    ASSUME SmtpKept, NEW s \in SmtpSessionIds, CreateEmail(s)
    PROVE  SmtpKept'
<1> DEFINE m == SubmissionOf[s]
<1> DEFINE e == BuildSubmissionInput(m)
<1> DEFINE q == [to |-> e.to, cc |-> e.cc, bcc |-> e.bcc, on |-> reservedOn[s]]
<1>1. /\ smtpAt[s] = "create" /\ SessionKept(s) /\ s \notin Queued
      /\ answer[s] = <<>> /\ ListenerOf[s] = "submission"
      /\ reservedOn[s] # 0 \/ quota = 0
  BY DEF CreateEmail, SmtpKept, SessionKept, SubmissionSteps
<1>2. UNCHANGED <<quota, day, keyActive, rcpts, usage, keptSlots, smtpFaults, failedUsage>>
  BY DEF CreateEmail
<1>3. m \in Submissions /\ ~Unmappable(m)
  BY <1>1, SmtpConstants DEF CreateEmail
<1>4. /\ e.to \subseteq Mailboxes /\ e.cc \subseteq Mailboxes /\ e.bcc \subseteq Mailboxes
      /\ e.to \cup e.cc \cup e.bcc = m.envelope
      /\ m.envelope # {}
      /\ (m.to \cup m.cc) \cap m.envelope # {} =>
            e.to \cup e.cc = (m.to \cup m.cc) \cap m.envelope
  BY <1>3, EnvelopeKept
<1>5. SmtpTyped /\ reservedOn[s] \in Days \cup {0}
  BY DEF SmtpKept, SmtpTyped
<1> HIDE DEF e, m
<1>6. q \in [to : SUBSET Mailboxes, cc : SUBSET Mailboxes,
             bcc : SUBSET Mailboxes, on : Days \cup {0}]
  BY <1>4, <1>5
<1>7. /\ q # NotQueued /\ q.to \cup q.cc \cup q.bcc = m.envelope
      /\ (m.to \cup m.cc) \cap m.envelope # {} =>
            q.to \cup q.cc = (m.to \cup m.cc) \cap m.envelope
      /\ q.on = reservedOn[s]
  BY <1>4 DEF NotQueued
<1>8. queuedAs' = [queuedAs EXCEPT ![s] = q]
  BY DEF CreateEmail, e, m
<1> HIDE DEF q
<1>9. /\ queuedAs' \in [SmtpSessionIds ->
                            [to : SUBSET Mailboxes, cc : SUBSET Mailboxes,
                             bcc : SUBSET Mailboxes, on : Days \cup {0}]]
      /\ queuedAs'[s] = q
      /\ \A z \in SmtpSessionIds \ {s} : queuedAs'[z] = queuedAs[z]
  BY <1>5, <1>6, <1>8 DEF SmtpTyped
<1>10. Queued' = Queued \cup {s}
  BY <1>7, <1>9 DEF Queued
<1>11. EnvelopeIsExact'
  <2>1. \A z \in Queued : z # s /\ queuedAs'[z] = queuedAs[z]
    BY <1>1, <1>9 DEF Queued
  <2> QED
    BY <1>7, <1>9, <1>10, <2>1 DEF SmtpKept, EnvelopeIsExact, m
<1>12. DaysKept'
  <2> SUFFICES ASSUME NEW d \in Days
               PROVE  DayKept(d)'
    BY DEF DaysKept
  <2>1. /\ IsFiniteSet(HeldOn(d)')
        /\ Cardinality(HeldOn(d)') = Cardinality(HeldOn(d)) - (IF d = reservedOn[s] THEN 1 ELSE 0)
        /\ Cardinality(HeldOn(d)) \in Nat /\ Cardinality(HeldOn(d)') \in Nat
    BY SlotGiven DEF CreateEmail
  <2>2. IsFiniteSet(SentOn(d)) /\ Cardinality(SentOn(d)) \in Nat
    BY FS_CardinalityType DEF SmtpKept, DaysKept, DayKept
  <2>3. /\ IsFiniteSet(SentOn(d)')
        /\ Cardinality(SentOn(d)') = Cardinality(SentOn(d)) + (IF d = reservedOn[s] THEN 1 ELSE 0)
    <3>1. CASE d = reservedOn[s]
      <4>1. SentOn(d)' = SentOn(d) \cup {s} /\ s \notin SentOn(d)
        BY <1>1, <1>7, <1>9, <1>10, <3>1 DEF SentOn, Queued
      <4>2. /\ IsFiniteSet(SentOn(d) \cup {s})
            /\ Cardinality(SentOn(d) \cup {s}) = Cardinality(SentOn(d)) + 1
        BY <2>2, <4>1, FS_AddElement, Zenon
      <4> QED
        BY <3>1, <4>1, <4>2
    <3>2. CASE d # reservedOn[s]
      <4>1. SentOn(d)' = SentOn(d)
        BY <1>1, <1>7, <1>9, <1>10, <3>2 DEF SentOn, Queued
      <4> QED
        BY <2>2, <3>2, <4>1
    <3> QED
      BY <3>1, <3>2
  <2>4. quota > 0 => /\ usage[d].accepted = keptSlots[d] + Cardinality(SentOn(d)) + Cardinality(HeldOn(d))
                     /\ usage[d].accepted <= quota
    BY DEF SmtpKept, DaysKept, DayKept
  <2>5. keptSlots[d] \in Nat
    BY <1>5 DEF SmtpTyped
  <2>6. Cardinality(SentOn(d)') + Cardinality(HeldOn(d)') = Cardinality(SentOn(d)) + Cardinality(HeldOn(d))
    BY <2>1, <2>2, <2>3
  <2>7. Cardinality(SentOn(d)') \in Nat
    BY <2>3, FS_CardinalityType
  <2>8. keptSlots[d] + Cardinality(SentOn(d)') + Cardinality(HeldOn(d)')
          = keptSlots[d] + Cardinality(SentOn(d)) + Cardinality(HeldOn(d))
    BY <2>1, <2>2, <2>5, <2>6, <2>7
  <2> QED
    BY <1>2, <2>1, <2>3, <2>4, <2>8 DEF DayKept
<1>13. CASE reservedOn[s] = 0
  <2>1. Go(s, "record") /\ UNCHANGED answer /\ quota = 0
        /\ reservedOn' = [reservedOn EXCEPT ![s] = 0]
    BY <1>1, <1>13 DEF CreateEmail
  <2>2. /\ smtpAt' \in [SmtpSessionIds -> SessionSteps] /\ smtpAt'[s] = "record"
        /\ \A z \in SmtpSessionIds \ {s} : smtpAt'[z] = smtpAt[z]
    BY <1>5, <2>1 DEF SmtpTyped, Go, SessionSteps, SubmissionSteps
  <2>3. /\ reservedOn' \in [SmtpSessionIds -> Days \cup {0}] /\ reservedOn'[s] = 0
        /\ \A z \in SmtpSessionIds \ {s} : reservedOn'[z] = reservedOn[z]
    BY <1>5, <2>1 DEF SmtpTyped
  <2>4. SmtpTyped'
    BY <1>2, <1>5, <1>9, <2>1, <2>2, <2>3 DEF SmtpTyped
  <2>5. SessionKept(s)'
    BY <1>1, <1>2, <2>1, <2>2, <2>3 DEF SessionKept, SubmissionSteps
  <2>6. RecipientsAreKnown'
    BY <1>2, MailStands
  <2>7. Len(answer'[s]) <= 1 /\ answer'[s] = <<>>
    BY <1>1, <2>1
  <2> QED
    BY <1>2, <1>9, <1>11, <1>12, <2>1, <2>2, <2>3, <2>4, <2>5, <2>6, <2>7, SessionOnward
<1>14. CASE reservedOn[s] # 0
  <2>1. Answered(s, 250) /\ reservedOn' = [reservedOn EXCEPT ![s] = 0] /\ 250 \in Nat
    BY <1>14 DEF CreateEmail
  <2>2. /\ usage' \in [Days -> [accepted : Nat, rejected : Nat]]
        /\ keptSlots' \in [Days -> Nat] /\ smtpFaults' \in Nat
    BY <1>2, <1>5 DEF SmtpTyped
  <2> QED
    BY <1>1, <1>2, <1>9, <1>11, <1>12, <2>1, <2>2, Replied
<1> QED
  BY <1>13, <1>14

\* A slot given up to no one: it goes back to the day's row, or it stays
\* taken and is counted as kept.
LEMMA SlotReturned ==
    ASSUME SmtpKept, NEW s \in SmtpSessionIds, reservedOn[s] # 0,
           reservedOn' = [reservedOn EXCEPT ![s] = 0], UNCHANGED <<quota, queuedAs>>,
           \/ usage' = Released(usage, reservedOn[s]) /\ UNCHANGED keptSlots
           \/ keptSlots' = [keptSlots EXCEPT ![reservedOn[s]] = @ + 1] /\ UNCHANGED usage
    PROVE  /\ DaysKept'
           /\ usage' \in [Days -> [accepted : Nat, rejected : Nat]]
           /\ keptSlots' \in [Days -> Nat]
<1> DEFINE taken == reservedOn[s]
<1>1. SmtpTyped /\ taken \in Days
  BY DEF SmtpKept, SmtpTyped
<1>2. usage[taken].accepted \in Nat /\ usage[taken].rejected \in Nat
  BY <1>1 DEF SmtpTyped
<1>3. /\ IsFiniteSet(HeldOn(taken)) /\ taken \in Days /\ s \in HeldOn(taken)
      /\ quota > 0 => usage[taken].accepted = keptSlots[taken] + Cardinality(SentOn(taken)) + Cardinality(HeldOn(taken))
  BY <1>1 DEF SmtpKept, DaysKept, DayKept, HeldOn
<1>4. \A d \in Days :
              /\ IsFiniteSet(HeldOn(d)')
              /\ Cardinality(HeldOn(d)') = Cardinality(HeldOn(d)) - (IF d = taken THEN 1 ELSE 0)
              /\ Cardinality(HeldOn(d)) \in Nat
              /\ Cardinality(HeldOn(d)') \in Nat
  BY SlotGiven
<1>5. \A d \in Days :
              /\ SentOn(d)' = SentOn(d) /\ IsFiniteSet(SentOn(d))
              /\ Cardinality(SentOn(d)) \in Nat
  BY SentStands
<1>6. quota > 0 => usage[taken].accepted > 0
  BY <1>1, <1>2, <1>3, <1>4, <1>5 DEF SmtpTyped
<1>7. \A d \in Days : /\ usage[d].accepted \in Nat /\ keptSlots[d] \in Nat
                      /\ quota > 0 =>
                           /\ usage[d].accepted = keptSlots[d] + Cardinality(SentOn(d)) + Cardinality(HeldOn(d))
                           /\ usage[d].accepted <= quota
  BY <1>1 DEF SmtpKept, DaysKept, DayKept, SmtpTyped
<1>8. quota \in Nat
  BY <1>1 DEF SmtpTyped
<1>9. CASE usage' = Released(usage, taken) /\ UNCHANGED keptSlots
  <2> DEFINE row == [accepted |-> IF usage[taken].accepted > 0 THEN usage[taken].accepted - 1 ELSE 0,
                     rejected |-> usage[taken].rejected + 1]
  <2>1. row \in [accepted : Nat, rejected : Nat] /\ usage' = [usage EXCEPT ![taken] = row]
    BY <1>2, <1>9 DEF Released
  <2>2. row.accepted = IF usage[taken].accepted > 0 THEN usage[taken].accepted - 1 ELSE 0
    OBVIOUS
  <2> HIDE DEF row
  <2>3. /\ usage' \in [Days -> [accepted : Nat, rejected : Nat]]
        /\ usage'[taken] = row /\ \A d \in Days \ {taken} : usage'[d] = usage[d]
    BY <1>1, <2>1 DEF SmtpTyped
  <2>4. \A d \in Days : DayKept(d)'
    <3> TAKE d \in Days
    <3>1. quota > 0 => usage'[d].accepted = usage[d].accepted - (IF d = taken THEN 1 ELSE 0)
      BY <1>6, <1>7, <2>2, <2>3
    <3>2. quota > 0 => /\ usage'[d].accepted = keptSlots[d] + Cardinality(SentOn(d)) + Cardinality(HeldOn(d)')
                       /\ usage'[d].accepted <= quota
      BY <1>4, <1>5, <1>7, <1>8, <3>1
    <3> QED
      BY <1>4, <1>5, <1>9, <3>2 DEF DayKept
  <2>5. keptSlots' \in [Days -> Nat]
    BY <1>1, <1>9 DEF SmtpTyped
  <2> QED
    BY <2>3, <2>4, <2>5 DEF DaysKept
<1>10. CASE keptSlots' = [keptSlots EXCEPT ![taken] = @ + 1] /\ UNCHANGED usage
  <2>1. /\ keptSlots' \in [Days -> Nat] /\ usage' \in [Days -> [accepted : Nat, rejected : Nat]]
        /\ \A d \in Days : keptSlots'[d] = keptSlots[d] + (IF d = taken THEN 1 ELSE 0)
    BY <1>1, <1>10 DEF SmtpTyped
  <2>2. \A d \in Days : DayKept(d)'
    <3> TAKE d \in Days
    <3>1. quota > 0 => usage[d].accepted = keptSlots'[d] + Cardinality(SentOn(d)) + Cardinality(HeldOn(d)')
      BY <1>4, <1>5, <1>7, <2>1
    <3> QED
      BY <1>4, <1>5, <1>7, <1>10, <3>1 DEF DayKept
  <2> QED
    BY <2>1, <2>2 DEF DaysKept
<1> QED
  BY <1>9, <1>10

\* Refuse keeps the invariant.
LEMMA RefuseKept ==
    ASSUME SmtpKept, NEW s \in SmtpSessionIds, NEW code \in Nat, Refuse(s, code)
    PROVE  SmtpKept'
<1>1. /\ smtpAt[s] \in {"refuse_550", "refuse_451"} /\ SessionKept(s) /\ SmtpTyped
      /\ answer[s] = <<>> /\ ListenerOf[s] = "submission"
      /\ s \in Queued => quota = 0 /\ s \in failedUsage
  BY DEF Refuse, SmtpKept, SessionKept, SubmissionSteps
<1>2. /\ UNCHANGED <<quota, day, keyActive, rcpts, queuedAs, failedUsage>>
      /\ Answered(s, code) /\ reservedOn' = [reservedOn EXCEPT ![s] = 0]
  BY DEF Refuse
<1>3. smtpFaults' \in Nat
  BY <1>1, FaultCounts DEF Refuse, SmtpTyped
<1>4. /\ DaysKept' /\ usage' \in [Days -> [accepted : Nat, rejected : Nat]]
      /\ keptSlots' \in [Days -> Nat]
  <2>1. CASE reservedOn[s] # 0
    <3>1. \/ usage' = Released(usage, reservedOn[s]) /\ UNCHANGED keptSlots
          \/ keptSlots' = [keptSlots EXCEPT ![reservedOn[s]] = @ + 1] /\ UNCHANGED usage
      BY <2>1 DEF Refuse
    <3>2. UNCHANGED <<quota, queuedAs>> /\ reservedOn' = [reservedOn EXCEPT ![s] = 0]
      BY <1>2
    <3> QED
      BY <2>1, <3>1, <3>2, SlotReturned
  <2>2. CASE reservedOn[s] = 0
    <3>1. reservedOn' = reservedOn
      BY <1>1, <1>2, <2>2 DEF SmtpTyped
    <3>2. CASE usage' = AddUsage(usage, day, 0, 1) /\ UNCHANGED keptSlots
      <4>1. /\ usage' \in [Days -> [accepted : Nat, rejected : Nat]]
            /\ \A d \in Days : usage'[d].accepted = usage[d].accepted + (IF d = day THEN 0 ELSE 0)
        BY <3>2, UsageAdded
      <4>2. \A d \in Days : usage'[d].accepted = usage[d].accepted
        BY <1>1, <4>1 DEF SmtpTyped
      <4> QED
        BY <1>1, <1>2, <3>1, <3>2, <4>1, <4>2, NoSlotMoves DEF SmtpTyped
    <3>3. CASE UNCHANGED <<usage, keptSlots>>
      BY <1>1, <1>2, <3>1, <3>3, NoSlotMoves DEF SmtpTyped
    <3> QED
      BY <2>2, <3>2, <3>3 DEF Refuse
  <2> QED
    BY <2>1, <2>2
<1>5. EnvelopeIsExact'
  BY <1>2, MailStands
<1>6. code \in Nat /\ (s \in Queued' => s \in Queued)
  BY <1>2 DEF Queued
<1>7. /\ queuedAs' \in [SmtpSessionIds ->
                            [to : SUBSET Mailboxes, cc : SUBSET Mailboxes,
                             bcc : SUBSET Mailboxes, on : Days \cup {0}]]
      /\ \A z \in SmtpSessionIds \ {s} : queuedAs'[z] = queuedAs[z]
  BY <1>1, <1>2 DEF SmtpTyped
<1> QED
  BY <1>1, <1>2, <1>3, <1>4, <1>5, <1>6, <1>7, Replied

\* SessionDies keeps the invariant.
LEMMA SessionDiesKept ==
    ASSUME SmtpKept, NEW s \in SmtpSessionIds, SessionDies(s)
    PROVE  SmtpKept'
<1>1. /\ SessionKept(s) /\ SmtpTyped /\ answer[s] = <<>> /\ smtpFaults' \in Nat
  BY FaultCounts DEF SessionDies, SmtpKept, SessionKept
<1>2. /\ UNCHANGED <<quota, day, keyActive, rcpts, usage, answer, queuedAs, failedUsage>>
      /\ Go(s, "closed") /\ reservedOn' = [reservedOn EXCEPT ![s] = 0]
  BY DEF SessionDies
<1>3. DaysKept' /\ keptSlots' \in [Days -> Nat]
  <2>1. CASE reservedOn[s] # 0
    BY <1>2, <2>1, SlotReturned DEF SessionDies
  <2>2. CASE reservedOn[s] = 0
    <3>1. reservedOn' = reservedOn /\ keptSlots' = keptSlots
      BY <1>1, <1>2, <2>2 DEF SmtpTyped, SessionDies
    <3> QED
      BY <1>1, <1>2, <3>1, NoSlotMoves DEF SmtpTyped
  <2> QED
    BY <2>1, <2>2
<1>4. /\ smtpAt' \in [SmtpSessionIds -> SessionSteps] /\ smtpAt'[s] = "closed"
      /\ reservedOn' \in [SmtpSessionIds -> Days \cup {0}] /\ reservedOn'[s] = 0
      /\ \A z \in SmtpSessionIds \ {s} : smtpAt'[z] = smtpAt[z] /\ reservedOn'[z] = reservedOn[z]
  BY <1>1, <1>2 DEF SmtpTyped, Go, SessionSteps
<1>5. SmtpTyped'
  BY <1>1, <1>2, <1>3, <1>4 DEF SmtpTyped
<1>6. SessionKept(s)'
  BY <1>1, <1>2, <1>4 DEF SessionKept, SubmissionSteps
<1>7. EnvelopeIsExact' /\ RecipientsAreKnown'
  BY <1>2, MailStands
<1>8. Len(answer'[s]) <= 1 /\ answer'[s] = <<>>
  BY <1>1, <1>2
<1> QED
  BY <1>2, <1>3, <1>4, <1>5, <1>6, <1>7, <1>8, SessionOnward

\* Midnight and the revocation touch no session.
LEMMA OutsideSessionsKept ==
    ASSUME SmtpKept, Midnight \/ KeyRevoked \/ UNCHANGED smtpVars
    PROVE  SmtpKept'
<1>1. UNCHANGED <<quota, smtpAt, rcpts, reservedOn, usage, answer, queuedAs,
                  keptSlots, smtpFaults, failedUsage>>
  BY DEF Midnight, KeyRevoked, smtpVars
<1>2. day' \in Days /\ keyActive' \in BOOLEAN
  BY DEF SmtpKept, SmtpTyped, Midnight, KeyRevoked, smtpVars
<1>3. SmtpTyped'
  BY <1>1, <1>2 DEF SmtpKept, SmtpTyped
<1>4. DaysKept' /\ EnvelopeIsExact' /\ RecipientsAreKnown'
  BY <1>1, NoSlotMoves, MailStands
<1>5. RefusedIsNotQueued' /\ \A s \in SmtpSessionIds : SessionKept(s)'
  BY <1>1 DEF SmtpKept, RefusedIsNotQueued, SessionKept, Queued
<1> QED
  BY <1>3, <1>4, <1>5 DEF SmtpKept

\* The first state has no session.
LEMMA SmtpStarts == SmtpInit => SmtpKept
<1> SUFFICES ASSUME SmtpInit
             PROVE  SmtpKept
  OBVIOUS
<1>1. SmtpTyped
  <2>1. <<>> \in Seq(Nat) /\ <<>> \in Seq([kind : RcptKinds, checked : BOOLEAN])
    OBVIOUS
  <2>2. NotQueued \in [to : SUBSET Mailboxes, cc : SUBSET Mailboxes,
                       bcc : SUBSET Mailboxes, on : Days \cup {0}]
    BY DEF NotQueued
  <2>3. NoUsage \in [accepted : Nat, rejected : Nat]
    BY DEF NoUsage
  <2> HIDE DEF NotQueued, NoUsage
  <2> QED
    BY <2>1, <2>2, <2>3, SmtpConstants DEF SmtpInit, SmtpTyped, SessionSteps
<1>2. Queued = {} /\ \A d \in Days : HeldOn(d) = {} /\ SentOn(d) = {}
  BY SmtpConstants DEF SmtpInit, Queued, HeldOn, SentOn
<1>3. IsFiniteSet({}) /\ Cardinality({}) = 0
  BY FS_EmptySet
<1>4. DaysKept
  <2>1. \A d \in Days : usage[d].accepted = 0 /\ keptSlots[d] = 0
    BY DEF SmtpInit, NoUsage
  <2>2. quota \in Nat
    BY <1>1 DEF SmtpTyped
  <2> SUFFICES ASSUME NEW d \in Days
               PROVE  DayKept(d)
    BY DEF DaysKept
  <2>3. /\ IsFiniteSet(HeldOn(d)) /\ IsFiniteSet(SentOn(d))
        /\ Cardinality(HeldOn(d)) = 0 /\ Cardinality(SentOn(d)) = 0
    BY <1>2, <1>3
  <2> QED
    BY <2>1, <2>2, <2>3 DEF DayKept
<1>5. \A s \in SmtpSessionIds : SessionKept(s)
  BY <1>2 DEF SmtpInit, SessionKept, SubmissionSteps
<1>6. RefusedIsNotQueued /\ EnvelopeIsExact
  BY <1>2 DEF SmtpInit, RefusedIsNotQueued, EnvelopeIsExact
<1>7. RecipientsAreKnown
  <2>1. \A s \in SmtpSessionIds : rcpts[s] = <<>> /\ Len(rcpts[s]) = 0
    BY DEF SmtpInit
  <2> QED
    BY <2>1, SmtpConstants DEF RecipientsAreKnown
<1> QED
  BY <1>1, <1>4, <1>5, <1>6, <1>7 DEF SmtpKept

\* Every step keeps the invariant.
LEMMA SmtpStep == SmtpKept /\ [SmtpNext]_smtpVars => SmtpKept'
<1> SUFFICES ASSUME SmtpKept, [SmtpNext]_smtpVars
             PROVE  SmtpKept'
  OBVIOUS
<1>1. ASSUME NEW s \in SmtpSessionIds, Connect(s)
      PROVE  SmtpKept'
  BY <1>1, ConnectKept
<1>2. ASSUME NEW s \in SmtpSessionIds, NEW k \in RcptKinds, NEW f \in BOOLEAN, OnRcptTo(s, k, f)
      PROVE  SmtpKept'
  BY <1>2, OnRcptToKept
<1>3. ASSUME NEW s \in SmtpSessionIds, SubmissionStep(s)
      PROVE  SmtpKept'
  <2>1. ASSUME NEW code \in {550, 451}, Refuse(s, code)
        PROVE  SmtpKept'
    BY <2>1, RefuseKept
  <2> QED
    BY <1>3, <2>1, OnAuthKept, DataStreamsKept, EndOfAbortedKept, ReserveAcceptedKept,
       ReserveFailsKept, OverQuotaKept, CreateEmailKept, CreateStopsKept,
       RecordAcceptedKept, SessionDiesKept DEF SubmissionStep
<1> QED
  BY <1>1, <1>2, <1>3, OutsideSessionsKept DEF SmtpNext

\* The invariant holds in every behaviour.
LEMMA SmtpStays == SmtpSpec => []SmtpKept
  BY SmtpStarts, SmtpStep, PTL DEF SmtpSpec

\* What a client was told is what happened, for any number of concurrent
\* sessions, days, failed statements and crashes: a day's accepted count is
\* its emails and the slots held or kept, never over the quota; a refused
\* message is not queued; an email goes to its envelope and to no one else;
\* port 25 takes no forged address.
THEOREM SessionsStayExact == SmtpSpec => []SessionsAreExact
<1>1. SmtpKept => SessionsAreExact
  <2> SUFFICES ASSUME SmtpKept
               PROVE  QuotaIsExact
    BY DEF SmtpKept, SessionsAreExact
  <2> QED
    BY DEF SmtpKept, DaysKept, DayKept, QuotaIsExact, HeldOn, SentOn
<1> QED
  BY <1>1, SmtpStays, PTL
=============================================================================
