----------------------------- MODULE MCAccounts -----------------------------
(* Values of the accounts' constants for TLC. *)
EXTENDS Accounts, TLC

PersonIds == {"p1", "p2", "p3"}
MCOwnerEmails == {"p1", "p3"}

Staff(a, b, c) ==
    [p \in PersonIds |-> CASE p = "p1" -> a [] p = "p2" -> b [] OTHER -> c]
Staffed(staff, happening0) == [staff |-> staff, happening |-> happening0]

\* Who has an account, and which requests happen: the pairs and triples of
\* operations that read or write the same rows.
MCStaffings == {
    Staffed(Staff("none", "none", "none"), {"boot", "invite", "login"}),
    Staffed(Staff("owner", "admin", "admin"), {"transfer_ownership", "reset_owner"}),
    Staffed(Staff("owner", "admin", "none"), {"transfer_ownership", "reset_password", "boot"}),
    Staffed(Staff("owner", "admin", "none"), {"change_role", "invite"}),
    Staffed(Staff("owner", "admin", "member"), {"deactivate", "reactivate", "login"}),
    Staffed(Staff("owner", "admin", "none"), {"reset_password", "change_password"}),
    Staffed(Staff("owner", "admin", "member"), {"change_role", "reset_password"}),
    Staffed(Staff("owner", "admin", "none"), {"invite", "resend", "revoke_invite"}),
    Staffed(Staff("owner", "admin", "member"), {"invite", "remove"}),
    Staffed(Staff("owner", "admin", "none"), {"create_key", "promote_key", "change_role"}),
    Staffed(Staff("owner", "admin", "member"), {"create_key", "deactivate", "reactivate"}),
    Staffed(Staff("owner", "admin", "none"), {"login", "change_password", "reset_owner"}),
    Staffed(Staff("owner", "admin", "none"), {"remove", "login", "invite"}),
    Staffed(Staff("owner", "admin", "none"),
            {"transfer_ownership", "change_role", "reset_password"}),
    Staffed(Staff("owner", "admin", "member"), {"logout", "login", "expire", "reset_password"})}

\* Requests are interchangeable.
AccountSymmetry == Permutations(Requests)
=============================================================================
