----------------------------- MODULE MCOutbound -----------------------------
(***************************************************************************)
(* Outbound traffic, in one model for TLC: one email's delivery over the   *)
(* recipients' MX hosts, the TLS reports mailed out, webhook attempts that *)
(* overlap, the send budgets and the Redis connection they rest on.  Each  *)
(* behaviour is one of a single part, its focus; the others stay in their  *)
(* initial state.                                                          *)
(***************************************************************************)
EXTENDS MailDelivery, TlsReports, MCWebhookDelivery, TokenBuckets, RedisConnection

VARIABLE focus

outboundVars == <<focus, mailVars, tlsVars, outboxVars, tokenVars, redisVars>>

-----------------------------------------------------------------------------
(* Two recipient domains on the same two hosts, one with a policy in       *)
(* testing and one in enforce mode.                                        *)

MCIndexOf == [a |-> 1, b |-> 2, c |-> 3]
MCDomainOf == [a |-> "d1", b |-> "d2", c |-> "d2"]
MCMxOf == [d1 |-> <<"h1", "h2">>, d2 |-> <<"h1", "h2">>]
MCBucketOf == [h1 |-> "x", h2 |-> "y"]
MCStsModes == [d1 |-> {"testing"}, d2 |-> {"enforce"}]

\* Two reports, one for a mail and an https address, on two replicas.
MCRuaOf == [a |-> <<"m1", "h1">>, b |-> <<"m2">>]
MCDestinationOf == [m1 |-> "x", h1 |-> "y", m2 |-> "x"]
MCJobOf == [w1 |-> "p", w2 |-> "q"]

-----------------------------------------------------------------------------
OutboundInit ==
    /\ focus \in {"delivery", "tls-reports", "outbox", "buckets", "redis"}
    /\ MailInit /\ (focus # "delivery" => returnPath)
    /\ TlsInit /\ OutboxInit /\ TokenInit /\ RedisInit

OutboundNext ==
    \/ /\ focus = "delivery" /\ MailNext
       /\ UNCHANGED <<focus, tlsVars, outboxVars, tokenVars, redisVars>>
    \/ /\ focus = "tls-reports" /\ TlsNext
       /\ UNCHANGED <<focus, mailVars, outboxVars, tokenVars, redisVars>>
    \/ /\ focus = "outbox" /\ OutboxNext
       /\ UNCHANGED <<focus, mailVars, tlsVars, tokenVars, redisVars>>
    \/ /\ focus = "buckets" /\ TokenNext
       /\ UNCHANGED <<focus, mailVars, tlsVars, outboxVars, redisVars>>
    \/ /\ focus = "redis" /\ RedisNext
       /\ UNCHANGED <<focus, mailVars, tlsVars, outboxVars, tokenVars>>

OutboundSpec == OutboundInit /\ [][OutboundNext]_outboundVars
=============================================================================
