----------------------------- MODULE MCInbound -----------------------------
(***************************************************************************)
(* What arrives by SMTP, in one model for TLC: the two listeners' sessions *)
(* up to the answer, and the handling of inbound messages with the         *)
(* suppression list.  Each behaviour is one of a single part, its focus;   *)
(* the other stays in one of its initial states.                           *)
(***************************************************************************)
EXTENDS InboundMail, SmtpSessions, TLC

VARIABLE focus

mcInboundVars == <<focus, inboundVars, smtpVars>>

-----------------------------------------------------------------------------
(* The messages: soft and hard bounces to return-path tokens of one and of *)
(* two recipients, unsubscribes, complaints with and without a named       *)
(* address, a DMARC report, a bounce in prose, one too large.              *)

NoReply == [class |-> 2, seven |-> FALSE, block |-> FALSE, unknown |-> FALSE]
PlainBody ==
    [report |-> "none", fields |-> FALSE, daemon |-> FALSE, prose |-> FALSE,
     reply |-> NoReply, feedback |-> [readable |-> FALSE], dmarc |-> "none"]
ReturnTo(e, i) == [kind |-> "return", email |-> e, index |-> i, signed |-> TRUE]
UnsubscribeOf(e) == [kind |-> "unsub", email |-> e, signed |-> TRUE]
Anyone == [kind |-> "other"]
Mail(rs, b) == [rcpts |-> rs, body |-> b, large |-> FALSE]
Dsn(c, s) ==
    [PlainBody EXCEPT !.report = "delivery-status", !.fields = TRUE,
                      !.reply = [NoReply EXCEPT !.class = c, !.seven = s]]
Complaint(t, e, as) ==
    [PlainBody EXCEPT !.report = "feedback-report",
                      !.feedback = [readable |-> TRUE, type |-> t, email |-> e, named |-> as]]
MCMailOf == <<
    Mail(<<ReturnTo("e1", 1)>>, Dsn(4, FALSE)),
    Mail(<<ReturnTo("e2", 1)>>, Dsn(4, FALSE)),
    Mail(<<ReturnTo("e1", 1), Anyone>>, Dsn(5, FALSE)),
    Mail(<<ReturnTo("e1", 1)>>, Dsn(5, TRUE)),
    Mail(<<UnsubscribeOf("e1"), Anyone>>, PlainBody),
    Mail(<<Anyone>>, Complaint("abuse", "e2", {"a"})),
    Mail(<<Anyone>>, Complaint("abuse", "e2", {})),
    Mail(<<Anyone>>, Complaint("opt-out", "e1", {})),
    Mail(<<Anyone>>, [PlainBody EXCEPT !.dmarc = "r1"]),
    Mail(<<Anyone>>, [PlainBody EXCEPT !.daemon = TRUE, !.prose = TRUE,
                                       !.reply = [NoReply EXCEPT !.class = 5]]),
    [Mail(<<Anyone>>, PlainBody) EXCEPT !.large = TRUE],
    Mail(<<ReturnTo("e2", 1), ReturnTo("e2", 2)>>, Dsn(4, FALSE))>>
MCKeyOf == [e1 |-> "k1", e2 |-> "k1"]
MCRecipientsOf == [e1 |-> <<"a">>, e2 |-> <<"a", "b">>]
MCManualEntries ==
    {[reason |-> "complaint", left |-> Forever], [reason |-> "manual", left |-> 1]}
\* Which of them arrive together.
MCTraffic == {{1, 2}, {3, 6}, {4, 11}, {5, 8}, {7, 9}, {10}, {12}}

\* Handlers are interchangeable.
HandlerSymmetry == Permutations(Handlers)

-----------------------------------------------------------------------------
(* The sessions: one inbound, three submissions, one of them too large.    *)

Submitted(t, c, e) == [to |-> t, cc |-> c, envelope |-> e, large |-> FALSE]
MCListenerOf ==
    [i |-> "inbound", s1 |-> "submission", s2 |-> "submission", s3 |-> "submission"]
MCSubmissionOf ==
    [i |-> Submitted({}, {}, {}),
     s1 |-> Submitted({"a", "b"}, {}, {"a", "c"}),
     s2 |-> Submitted({}, {"b"}, {"b", "c"}),
     s3 |-> [Submitted({}, {}, {"a"}) EXCEPT !.large = TRUE]]

-----------------------------------------------------------------------------
InboundMailInit ==
    /\ focus \in {"messages", "sessions"}
    /\ InboundInit /\ (focus # "messages" => remote[1] = "waiting" /\ remote[2] = "waiting")
    /\ SmtpInit /\ (focus # "sessions" => quota = 0)

\* The listeners share no session state: a behaviour has the inbound session
\* or the submissions.
InboundMailNext ==
    \/ focus = "messages" /\ InboundNext /\ UNCHANGED <<focus, smtpVars>>
    \/ /\ focus = "sessions" /\ SmtpNext /\ UNCHANGED <<focus, inboundVars>>
       /\ \A s \in SmtpSessionIds \ {"i"} : smtpAt'["i"] = "new" \/ smtpAt'[s] = "new"

InboundMailSpec == InboundMailInit /\ [][InboundMailNext]_mcInboundVars
=============================================================================
