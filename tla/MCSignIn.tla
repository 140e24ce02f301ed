------------------------------ MODULE MCSignIn ------------------------------
(* Values of the sign-in's constants for TLC. *)
EXTENDS SignIn, TLC

Beginning(role, t, p, l, s, g) ==
    [role |-> role, totp |-> t, passkey |-> p, link |-> l, session |-> s, going |-> g]

\* What the account has at the start, and which pages are used: the groups of
\* pages that read or write the same rows.
MCBeginnings == {
    Beginning("member", TRUE, FALSE, FALSE, "none", {"login", "second_step"}),
    Beginning("member", TRUE, FALSE, FALSE, "pending", {"second_step", "page", "revoke"}),
    Beginning("member", FALSE, FALSE, FALSE, "password", {"login", "enrol", "confirm"}),
    Beginning("member", FALSE, FALSE, FALSE, "password", {"login", "register", "revoke"}),
    Beginning("admin", TRUE, FALSE, FALSE, "mfa", {"disable", "login", "second_step"}),
    Beginning("admin", TRUE, FALSE, FALSE, "mfa", {"regenerate", "login", "second_step"}),
    Beginning("admin", TRUE, FALSE, FALSE, "pending", {"disable", "regenerate", "second_step"}),
    Beginning("admin", FALSE, TRUE, FALSE, "mfa", {"login", "second_factor", "delete_passkey"}),
    Beginning("admin", FALSE, TRUE, FALSE, "mfa", {"sign_in", "delete_passkey", "revoke"}),
    Beginning("admin", TRUE, TRUE, TRUE, "mfa", {"disable", "delete_passkey", "transfer"}),
    Beginning("admin", TRUE, FALSE, TRUE, "mfa", {"sso_login", "disable", "transfer"}),
    Beginning("admin", FALSE, TRUE, TRUE, "mfa", {"sso_login", "delete_passkey", "transfer"}),
    Beginning("admin", FALSE, FALSE, TRUE, "password", {"sso_login", "enrol", "confirm", "transfer"}),
    Beginning("admin", FALSE, FALSE, TRUE, "password", {"sso_login", "register", "transfer", "unlink"}),
    Beginning("member", FALSE, FALSE, FALSE, "none", {"sso_login", "auto_link", "login"}),
    Beginning("member", FALSE, FALSE, FALSE, "password", {"sso_login", "auto_link", "enrol", "confirm"}),
    Beginning("owner", TRUE, FALSE, FALSE, "mfa", {"sso_link", "sso_login", "disable", "unlink"}),
    Beginning("owner", TRUE, FALSE, TRUE, "none", {"sso_login", "second_step"}),
    Beginning("owner", TRUE, FALSE, TRUE, "pending", {"sso_login", "reset"}),
    Beginning("owner", TRUE, FALSE, TRUE, "pending", {"second_step", "reset"}),
    Beginning("member", FALSE, TRUE, TRUE, "mfa", {"sign_in", "reset", "deactivate", "sso_login"}),
    Beginning("member", FALSE, FALSE, FALSE, "password", {"page", "revoke", "reset"})}

\* Browsers are interchangeable.
SignInSymmetry == Permutations(Browsers)
=============================================================================
