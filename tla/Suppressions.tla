---------------------------- MODULE Suppressions ----------------------------
(***************************************************************************)
(* The suppression list: one row per API key and address, written by four  *)
(* upserts with different precedence (suppression.service.ts), and what a  *)
(* send reads from it.  Pure operators over one row; InboundMail holds the *)
(* table.                                                                  *)
(***************************************************************************)
EXTENDS Integers, Sequences

CONSTANTS
    ApiKeys,        \* tenants
    Addresses,      \* normalised recipient addresses
    Emails,         \* rows of the emails table
    SoftWindow,     \* ticks of a temporary bounce row (24 hours)
    SharedHard      \* SUPPRESSIONS_SHARED_HARD

ASSUME SuppressionConstants ==
    /\ SoftWindow \in Nat \ {0}
    /\ SharedHard \in BOOLEAN

\* expires_at IS NULL.
Forever == -1

\* source_email_id IS NULL, or no row.
NoEmail == "no email"
NoRow == [reason |-> "none", bounce |-> "none", source |-> NoEmail, left |-> 0]

\* A row; left is the number of ticks until expires_at.
SuppressionRow ==
    [reason : {"none", "bounce", "complaint", "unsubscribe", "manual"},
     bounce : {"none", "hard", "soft"},
     source : Emails \cup {NoEmail},
     left   : {Forever} \cup Nat]

Permanent(r) == r.left = Forever

\* The row a send or a bounce of this key finds: not expired.
FindActiveSuppression(r) == r # NoRow /\ (Permanent(r) \/ r.left > 0)

\* The rows other keys respect too: filed by the system, never by hand.
SharedHardWhere(r) ==
    /\ Permanent(r)
    /\ \/ r.reason = "bounce" /\ r.bounce = "hard"
       \/ r.reason = "complaint" /\ r.source # NoEmail

\* Whether key k may not send to address a, given the whole table.
IsSuppressed(table, k, a) ==
    \/ FindActiveSuppression(table[k, a])
    \/ SharedHard /\ \E j \in ApiKeys : SharedHardWhere(table[j, a])

(***************************************************************************)
(* The upserts.  Each returns the row after INSERT ... ON CONFLICT DO      *)
(* UPDATE ... WHERE; the writer learns whether it changed something.       *)
(***************************************************************************)

\* An entry by hand replaces anything but a permanent complaint.
CreateSuppression(r, reason, left) ==
    IF Permanent(r) /\ r.reason = "complaint"
    THEN r
    ELSE [reason |-> reason, bounce |-> "none", source |-> NoEmail, left |-> left]

\* Mutant: the upsert without its WHERE.
AddFromBounceAlways(r, kind, e) ==
    [reason |-> "bounce", bounce |-> kind, source |-> e,
     left |-> IF kind = "hard" THEN Forever ELSE SoftWindow]

\* A bounce replaces temporary rows only.
AddFromBounce(r, kind, e) ==
    IF Permanent(r)
    THEN r
    ELSE [reason |-> "bounce", bounce |-> kind, source |-> e,
          left |-> IF kind = "hard" THEN Forever ELSE SoftWindow]

\* An unsubscribe replaces temporary rows only.
AddFromUnsubscribe(r, e) ==
    IF Permanent(r)
    THEN r
    ELSE [reason |-> "unsubscribe", bounce |-> "none", source |-> e,
          left |-> Forever]

\* A complaint replaces anything but a permanent complaint.
AddFromComplaint(r, e) ==
    IF Permanent(r) /\ r.reason = "complaint"
    THEN r
    ELSE [reason |-> "complaint", bounce |-> "none", source |-> e,
          left |-> Forever]

\* One tick: temporary rows come nearer to their end; nothing deletes them.
AgedRow(r) == IF r.left > 0 THEN [r EXCEPT !.left = @ - 1] ELSE r
=============================================================================
