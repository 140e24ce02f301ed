------------------------------ MODULE MCPeople ------------------------------
(***************************************************************************)
(* Accounts, sign-in and the one-time store in one model for TLC.  In this *)
(* abstraction they share no state, so each behaviour is one of a single   *)
(* part, its focus; the others stay in one of their initial states.        *)
(***************************************************************************)
EXTENDS MCAccounts, MCSignIn, OneTimeStore

VARIABLE focus

peopleVars == <<focus, accountVars, signInVars, onceVars>>

PeopleInit ==
    /\ focus \in {"accounts", "sign-in", "once"}
    /\ AccountsInit /\ (focus # "accounts" => happening = {"boot", "invite", "login"})
    /\ SignInInit /\ (focus # "sign-in" => going = {"login", "second_step"})
    /\ OnceInit /\ (focus # "once" => onRedis)

PeopleNext ==
    \/ focus = "accounts" /\ AccountsNext /\ UNCHANGED <<focus, signInVars, onceVars>>
    \/ focus = "sign-in" /\ SignInNext /\ UNCHANGED <<focus, accountVars, onceVars>>
    \/ focus = "once" /\ OnceNext /\ UNCHANGED <<focus, accountVars, signInVars>>

PeopleSpec == PeopleInit /\ [][PeopleNext]_peopleVars
=============================================================================
