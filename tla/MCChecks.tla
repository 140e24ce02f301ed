------------------------------ MODULE MCChecks ------------------------------
(***************************************************************************)
(* What is checked before mail is accepted, in one model for TLC: the      *)
(* sending domain with its checks and DKIM rotation, the idempotency key,  *)
(* the sender's SPF record and the rate limits.  Each behaviour is one of  *)
(* a single part, its focus; the others stay in one of their initial       *)
(* states.                                                                 *)
(***************************************************************************)
EXTENDS Domains, Idempotency, SpfCheck, RateWindows, TLC

VARIABLE focus

checksVars == <<focus, domainVars, keyedVars, spfVars, windowVars>>

\* Which operations on a domain happen together.
MCWorlds ==
    {{"rotate", "mail"}, {"rotate", "restart"}, {"rotate", "delete"}, {"delete", "verify"},
     {"job", "verify", "policy"}, {"send", "job"}, {"send", "rotate"}, {"job", "rotate"}}

\* Requests are interchangeable.
RequestSymmetry == Permutations(Requests)

-----------------------------------------------------------------------------
(* SPF zones: every record of up to two terms for d1, of one for d2.       *)

Term(k, q, a, target, macro) ==
    [kind |-> k, qualifier |-> q, answer |-> a, target |-> target, macro |-> macro]
MCTerms ==
    {Term("ip", "pass", "match", "none", FALSE),
     Term("ip", "fail", "no match", "none", FALSE),
     Term("lookup", "softfail", "match", "none", FALSE),
     Term("lookup", "pass", "void", "none", FALSE),
     Term("lookup", "pass", "temperror", "none", FALSE),
     Term("lookup", "fail", "invalid", "none", TRUE),
     Term("ptr", "pass", "match", "none", FALSE),
     Term("include", "pass", "no match", "d1", FALSE),
     Term("include", "fail", "no match", "d2", FALSE),
     Term("include", "pass", "no match", "d2", TRUE),
     Term("include", "pass", "no match", "bad", FALSE)}
SpfRecord(ts, redirect, macro) ==
    [txt |-> "record", terms |-> ts, redirect |-> redirect, macro |-> macro]
NoSpfRecord(why) == [SpfRecord(<<>>, "none", FALSE) EXCEPT !.txt = why]
TermLists(n) == UNION {[1..k -> MCTerms] : k \in 0..n}
MCZones ==
    LET first  == {SpfRecord(ts, "none", FALSE) : ts \in TermLists(2)}
                  \cup {SpfRecord(ts, "d2", TRUE) : ts \in TermLists(1)}
                  \cup {SpfRecord(<<>>, "d1", FALSE)}
        second == {SpfRecord(ts, r, FALSE) : ts \in TermLists(1), r \in {"none", "d1", "bad"}}
                  \cup {NoSpfRecord(why) : why \in {"none", "permerror", "temperror"}}
    IN  {[d1 |-> a, d2 |-> b] : a \in first, b \in second}
EmptyZone == [d \in SpfDomains |-> IF d = "d1" THEN SpfRecord(<<>>, "none", FALSE)
                                   ELSE NoSpfRecord("none")]

-----------------------------------------------------------------------------
(* Limits: a login by address, a second factor by account and address, an  *)
(* API call by key with a weight.                                          *)

Success(own, ip) == [own |-> own, ip |-> ip]
Limit(m, ks, w, r, a, s) ==
    [memory |-> m, keys |-> ks, weight |-> w, refused |-> r, audited |-> a, success |-> s]
LoginOn(m) == Limit(m, {"ip"}, 1, 0, TRUE, Success("keep", "refund"))
FactorOn(m) == Limit(m, {"own", "ip"}, 1, 0, FALSE, Success("clear", "refund"))
ApiOn(m, w) == Limit(m, {"own"}, w, 1, FALSE, Success("keep", "keep"))
MCLimitOf ==
    [l1 |-> LoginOn("r1"), l2 |-> LoginOn("r2"), l3 |-> LoginOn("r2"), l4 |-> LoginOn("r1"),
     f1 |-> FactorOn("r1"), f2 |-> FactorOn("r2"), p1 |-> ApiOn("r1", 2), p2 |-> ApiOn("r2", 1)]
MCAttemptSets ==
    {{"l1", "l2", "l3", "l4"}, {"l1", "f1", "f2"}, {"f1", "f2", "p1"}, {"p1", "p2"}}

-----------------------------------------------------------------------------
ChecksInit ==
    /\ focus \in {"domains", "idempotency", "spf", "windows"}
    /\ DomainsInit /\ (focus # "domains" => world = {"rotate", "mail"})
    /\ KeyedInit /\ (focus # "idempotency" => \A r \in KeyedRequests : keyed[r].body = "b1")
    /\ \/ focus = "spf"
       \/ focus # "spf" /\ spfZone = EmptyZone /\ reverse = "names"
    /\ SpfInit
    /\ WindowInit
    /\ focus # "windows" => attached = {} /\ DOMAIN attempt = {"p1", "p2"}

ChecksNext ==
    \/ focus = "domains" /\ DomainsNext /\ UNCHANGED <<focus, keyedVars, spfVars, windowVars>>
    \/ focus = "idempotency" /\ KeyedNext /\ UNCHANGED <<focus, domainVars, spfVars, windowVars>>
    \/ focus = "spf" /\ SpfNext /\ UNCHANGED <<focus, domainVars, keyedVars, windowVars>>
    \/ focus = "windows" /\ WindowNext /\ UNCHANGED <<focus, domainVars, keyedVars, spfVars>>

ChecksSpec == ChecksInit /\ [][ChecksNext]_checksVars
=============================================================================
