----------------------------- MODULE SendLedger -----------------------------
(***************************************************************************)
(* What the send queue promises, with nothing of how: no processes, leases *)
(* or retries.  An email waits, is held by one claim, is settled by it and *)
(* in the end is done; only the claim that holds it adds deliveries, and   *)
(* the first of them is the only one that may raise email.sent.            *)
(***************************************************************************)
EXTENDS Naturals

CONSTANTS Emails, Groups

VARIABLES
    stage,       \* "waiting", "held", "done" or "deleted"
    delivered,   \* recipient groups recorded as delivered
    told         \* email.sent events

ledgerVars == <<stage, delivered, told>>

LedgerInit ==
    /\ stage = [e \in Emails |-> "waiting"]
    /\ delivered = [e \in Emails |-> {}]
    /\ told = [e \in Emails |-> 0]

\* Claims, of emails that wait or whose claim is superseded.
Hold(S) ==
    /\ \A e \in S : stage[e] \in {"waiting", "held"}
    /\ stage' = [e \in Emails |-> IF e \in S THEN "held" ELSE stage[e]]
    /\ UNCHANGED <<delivered, told>>

\* Claims end with nothing written.
LetHoldsGo(S) ==
    /\ \A e \in S : stage[e] = "held"
    /\ stage' = [e \in Emails |-> IF e \in S THEN "waiting" ELSE stage[e]]
    /\ UNCHANGED <<delivered, told>>

\* The claim records what it delivered: to be tried again, or done.
Settle(e, new) ==
    /\ stage[e] = "held"
    /\ \E next \in {"waiting", "done"} : stage' = [stage EXCEPT ![e] = next]
    /\ delivered' = [delivered EXCEPT ![e] = @ \cup new]
    /\ \/ UNCHANGED told
       \/ /\ delivered[e] = {} /\ new # {}
          /\ told' = [told EXCEPT ![e] = @ + 1]

DeleteForGood(e) ==
    /\ stage' = [stage EXCEPT ![e] = "deleted"]
    /\ UNCHANGED <<delivered, told>>

LedgerNext ==
    \/ \E S \in SUBSET Emails : Hold(S) \/ LetHoldsGo(S)
    \/ \E e \in Emails : (\E new \in SUBSET Groups : Settle(e, new)) \/ DeleteForGood(e)

LedgerSpec == LedgerInit /\ [][LedgerNext]_ledgerVars
=============================================================================
