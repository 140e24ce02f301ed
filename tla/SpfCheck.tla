------------------------------ MODULE SpfCheck ------------------------------
(***************************************************************************)
(* check_host (RFC 7208): the SPF evaluation of one client address, as a   *)
(* stack of checkDomain calls that include and redirect push               *)
(* (spf-evaluator.ts, spf-syntax.ts).  What DNS answers is drawn with the  *)
(* zone: every term carries the answer its lookups get, and reverse is the *)
(* answer to the PTR lookup of the client address.                         *)
(***************************************************************************)
EXTENDS Integers, Sequences

CONSTANTS
    SpfDomains,
    TopDomain,      \* the domain checked
    Zones,          \* the zones there may be: domain -> its TXT answer
    Reverses,       \* answers to the PTR lookup: "names", "void", "error"
    MaxTerms,       \* MAX_DNS_TERMS: 10 in the code
    MaxVoids        \* MAX_VOID_LOOKUPS: 2 in the code

ASSUME SpfConstants ==
    TopDomain \in SpfDomains /\ MaxTerms \in Nat /\ MaxVoids \in Nat

VARIABLES
    spfZone,        \* domain -> its TXT answer
    reverse,
    calls,          \* the checkDomain calls, the innermost last
    returned,       \* what the innermost call returned, or "nothing"
    spfLookups, voids, expired,
    result

spfVars == <<spfZone, reverse, calls, returned, spfLookups, voids, expired,
             result>>

SpfErrors == {"permerror", "temperror"}

Call(d) == [domain |-> d, at |-> 0, awaits |-> "nothing"]
Top == calls[Len(calls)]
SetTop(call) == [calls EXCEPT ![Len(calls)] = call]

\* A call returns, or throws an SpfError, which its own catch turns into what
\* it returns.
Return(verdict) ==
    /\ returned' = verdict
    /\ calls' = SubSeq(calls, 1, Len(calls) - 1)
    /\ UNCHANGED result

Checking == calls # <<>> /\ returned = "nothing"

(***************************************************************************)
(* Counting.                                                               *)
(***************************************************************************)

\* countLookup and countVoid: the first one over its limit is a permerror.
TooManyLookups(n) == spfLookups + n > MaxTerms
TooManyVoids(m) == voids + m > MaxVoids
Counted(n, m) == spfLookups' = spfLookups + n /\ voids' = voids + m

\* ptrMacroValue: %{p} is one more lookup, void when the address has no name.
MacroLookups(t) == IF t.macro THEN 1 ELSE 0
MacroVoids(t) == IF t.macro /\ reverse = "void" THEN 1 ELSE 0

\* recordsOf and validatedNames: a void answer of the mechanism itself.
TermVoids(t) ==
    IF t.kind = "ptr" THEN IF reverse = "void" THEN 1 ELSE 0
    ELSE IF t.answer = "void" THEN 1 ELSE 0

(***************************************************************************)
(* The next term.                                                          *)
(***************************************************************************)
CurrentTerm == spfZone[Top.domain].terms[Top.at]
AtTerm(kinds) ==
    /\ Checking
    /\ Top.at \in 1..Len(spfZone[Top.domain].terms)
    /\ CurrentTerm.kind \in kinds
Skip == calls' = SetTop([Top EXCEPT !.at = @ + 1]) /\ UNCHANGED <<returned, result>>

\* checkDomain reads the TXT record; none, several, or one that does not parse
\* end the call.
ReadRecord ==
    /\ Checking /\ Top.at = 0
    /\ \/ ~expired /\ spfZone[Top.domain].txt = "record" /\ Skip
       \/ ~expired /\ spfZone[Top.domain].txt # "record" /\ Return(spfZone[Top.domain].txt)
       \/ expired /\ Return("temperror")
    /\ UNCHANGED <<spfZone, reverse, spfLookups, voids, expired>>

\* ip4, ip6 and all look nothing up.
MatchAddress ==
    /\ AtTerm({"ip", "all"})
    /\ IF CurrentTerm.answer = "match" THEN Return(CurrentTerm.qualifier) ELSE Skip
    /\ UNCHANGED <<spfZone, reverse, spfLookups, voids, expired>>

\* a, mx, exists and ptr.  A target that is no domain name does not match; a
\* failed lookup is a temperror, but for ptr, which it does not match.
MatchLookup ==
    LET t == CurrentTerm
        n == 1 + MacroLookups(t)
        queries == t.macro \/ t.answer # "invalid"
        m == MacroVoids(t) + IF t.answer = "invalid" THEN 0 ELSE TermVoids(t)
    IN  /\ AtTerm({"lookup", "ptr"})
        /\ IF TooManyLookups(n) THEN Return("permerror") /\ Counted(n, 0)
           ELSE IF expired /\ queries THEN Return("temperror") /\ Counted(n, 0)
           ELSE /\ Counted(n, m)
                /\ CASE TooManyVoids(m) -> Return("permerror")
                     [] ~TooManyVoids(m) /\ t.kind = "ptr" /\ reverse # "names" -> Skip
                     [] OTHER -> CASE t.answer \in SpfErrors -> Return(t.answer)
                                   [] t.answer = "match" -> Return(t.qualifier)
                                   [] OTHER -> Skip
        /\ UNCHANGED <<spfZone, reverse, expired>>

\* include and redirect call checkDomain for their target, once counted; a
\* target that is no domain name is an error.
CallFor(target, t, why) ==
    LET n == 1 + MacroLookups(t)
        m == MacroVoids(t)
    IN  IF TooManyLookups(n) THEN Return("permerror") /\ Counted(n, 0)
        ELSE IF t.macro /\ expired THEN Return("temperror") /\ Counted(n, 0)
        ELSE /\ Counted(n, m)
             /\ IF TooManyVoids(m) \/ target \notin SpfDomains
                THEN Return("permerror")
                ELSE /\ calls' = Append(SetTop([Top EXCEPT !.awaits = why]), Call(target))
                     /\ UNCHANGED <<returned, result>>

Include ==
    /\ AtTerm({"include"})
    /\ Top.awaits = "nothing"
    /\ CallFor(CurrentTerm.target, CurrentTerm, "include")
    /\ UNCHANGED <<spfZone, reverse, expired>>

\* No mechanism matched: neutral, unless the record redirects.
Redirect ==
    LET r == spfZone[Top.domain] IN
    /\ Checking /\ Top.at > Len(r.terms) /\ Top.awaits = "nothing"
    /\ IF r.redirect = "none" THEN Return("neutral") /\ UNCHANGED <<spfLookups, voids>>
       ELSE CallFor(r.redirect, r, "redirect")
    /\ UNCHANGED <<spfZone, reverse, expired>>

(***************************************************************************)
(* What a call's result means to its caller.                               *)
(***************************************************************************)

\* Mutant: an included domain without a record just does not match.
IncludedLenient(verdict) ==
    IF verdict = "pass" THEN "match"
    ELSE IF verdict \in SpfErrors THEN verdict
    ELSE "no match"

\* include matches when the inner result is pass; none is an error.
Included(verdict) ==
    IF verdict = "pass" THEN "match"
    ELSE IF verdict = "none" THEN "permerror"
    ELSE IF verdict \in SpfErrors THEN verdict
    ELSE "no match"

Resume ==
    LET found == Included(returned) IN
    /\ calls # <<>> /\ returned # "nothing"
    /\ IF Top.awaits = "redirect"
       THEN Return(IF returned = "none" THEN "permerror" ELSE returned)
       ELSE IF found = "no match"
       THEN /\ calls' = SetTop([Top EXCEPT !.at = @ + 1, !.awaits = "nothing"])
            /\ returned' = "nothing"
            /\ UNCHANGED result
       ELSE Return(IF found = "match" THEN CurrentTerm.qualifier ELSE found)
    /\ UNCHANGED <<spfZone, reverse, spfLookups, voids, expired>>

\* checkHost answers.
CheckHost ==
    /\ calls = <<>> /\ result = "nothing"
    /\ result' = returned
    /\ UNCHANGED <<spfZone, reverse, calls, returned, spfLookups, voids, expired>>

\* The time limit: from here on every query is a temperror.
Deadline ==
    /\ ~expired /\ result = "nothing"
    /\ expired' = TRUE
    /\ UNCHANGED <<spfZone, reverse, calls, returned, spfLookups, voids, result>>

-----------------------------------------------------------------------------
SpfInit ==
    /\ spfZone \in Zones
    /\ reverse \in Reverses
    /\ calls = <<Call(TopDomain)>>
    /\ returned = "nothing" /\ result = "nothing"
    /\ spfLookups = 0 /\ voids = 0
    /\ expired = FALSE

SpfNext ==
    \/ ReadRecord \/ MatchAddress \/ MatchLookup \/ Include \/ Redirect \/ Resume
    \/ CheckHost \/ Deadline

SpfSpec == SpfInit /\ [][SpfNext]_spfVars

-----------------------------------------------------------------------------
(***************************************************************************)
(* The reference: RFC 7208's result, without limits or a clock.            *)
(***************************************************************************)
MatchOf(t, inner) ==
    CASE t.kind = "include" -> IF t.target \notin SpfDomains THEN "permerror"
                               ELSE CASE inner[t.target] = "pass" -> "match"
                                      [] inner[t.target] = "none" -> "permerror"
                                      [] inner[t.target] \in SpfErrors -> inner[t.target]
                                      [] OTHER -> "no match"
      [] t.kind = "ptr" -> IF t.answer = "match" /\ reverse = "names" THEN "match" ELSE "no match"
      [] OTHER -> IF t.answer \in SpfErrors \cup {"match"} THEN t.answer ELSE "no match"

\* The first term that matches or fails decides; then the redirect; neutral.
ResultOf(d, inner) ==
    LET r == spfZone[d]
        deciding == {i \in 1..Len(r.terms) : MatchOf(r.terms[i], inner) # "no match"}
        i == CHOOSE x \in deciding : \A y \in deciding : x <= y
        m == MatchOf(r.terms[i], inner)
    IN  CASE r.txt # "record" -> r.txt
          [] r.txt = "record" /\ deciding # {} -> IF m = "match" THEN r.terms[i].qualifier ELSE m
          [] r.txt = "record" /\ deciding = {} ->
               CASE r.redirect = "none" -> "neutral"
                 [] r.redirect \in SpfDomains ->
                      IF inner[r.redirect] = "none" THEN "permerror" ELSE inner[r.redirect]
                 [] OTHER -> "permerror"

\* Records nested deeper than the lookups allowed have no result.
Reference ==
    LET Depth[n \in 0..MaxTerms + 1] ==
          [d \in SpfDomains |->
             IF n = 0 THEN "permerror" ELSE ResultOf(d, Depth[n - 1])]
    IN  Depth[MaxTerms + 1][TopDomain]

Done == result # "nothing"

\* The evaluation of any zone, with includes and redirects that form a cycle,
\* counts that reach their limits and a deadline at any step, gives what RFC
\* 7208 defines: a limit exceeded in any nested record is the permerror of
\* the whole check and never a match or a mismatch, and the deadline at most
\* turns the result into a temperror.
GivesReference ==
    Done => IF spfLookups > MaxTerms \/ voids > MaxVoids THEN result = "permerror"
            ELSE result = Reference \/ (expired /\ result = "temperror")
=============================================================================
