------------------------------ MODULE Accounts ------------------------------
(***************************************************************************)
(* Dashboard accounts: the owner bootstrap, invitations, password reset    *)
(* and owner setup links, account administration, ownership transfer, the  *)
(* password, the sessions it opens and the API keys an account creates.    *)
(*                                                                         *)
(* A page handler checks the caller's session first and changes the        *)
(* database in a transaction later, under the owner lock, the lock of an   *)
(* invited address or none: what the first step read may be stale.         *)
(***************************************************************************)
EXTENDS Integers, FiniteSets

CONSTANTS
    People,         \* e-mail addresses
    OwnerEmails,    \* values of BUNMAIL_OWNER_EMAIL
    Staffings,      \* bound: initial roles (or "none"), and what happens after
    Requests,       \* requests that may be in flight at once
    MaxTokens,      \* bound: links issued
    MaxCredentials  \* bound: accounts and passwords a person ever has

ASSUME AccountConstants ==
    /\ OwnerEmails \subseteq People /\ OwnerEmails # {}
    /\ MaxTokens \in Nat /\ MaxCredentials \in Nat \ {0}
    /\ "nobody" \notin People

\* An installation is empty, or one of its accounts is the owner.
ASSUME StaffingAssumption ==
    \A w \in Staffings :
        /\ w.staff \in [People -> {"none", "owner", "admin", "member"}]
        /\ \/ \A p \in People : w.staff[p] = "none"
           \/ \E p \in People : \A q \in People : w.staff[q] = "owner" <=> q = p

VARIABLES
    account,    \* the users row of each address, or NoAccount
    used,       \* account ids and passwords each person has had
    invite,     \* the open invitation of each address, or NoToken
    reset,      \* the open password reset link of each account, or NoToken
    setup,      \* the open owner setup link, or NoToken
    session,    \* the sessions
    key,        \* an API key of each account, or NoApiKey
    content,    \* the account a template, domain or webhook is attributed to
    req,        \* requests in flight
    minted,     \* links issued so far
    lapsed,     \* history: open links that were usable and then were not
    happening   \* what happens in this behaviour

accountVars == <<account, used, invite, reset, setup, session, key, content,
                 req, minted, lapsed, happening>>

-----------------------------------------------------------------------------
Nobody == "nobody"
NoAccount == [id |-> 0]
NoToken == [n |-> 0]
NoApiKey == [active |-> FALSE, admin |-> FALSE, via |-> "none"]
NoReq == [kind |-> "none"]
NoPassword == 0

UserRoles == {"owner", "admin", "member"}
InviteRoles == {"admin", "member"}
AccountActions == {"change_role", "reset_password", "deactivate", "reactivate",
                   "transfer_ownership", "remove"}

UserRow == [id : 1..MaxCredentials, role : UserRoles, disabled : BOOLEAN,
            cred : 0..MaxCredentials]
SessionRow == [who : People, cred : 1..MaxCredentials, whileDisabled : BOOLEAN]
InviteToken == [n : 1..MaxTokens, role : InviteRoles, by : People \cup {Nobody}]
ResetToken == [n : 1..MaxTokens, by : People \cup {Nobody}]
SetupToken == [n : 1..MaxTokens, who : People]
ApiKey == [active : BOOLEAN, admin : BOOLEAN, via : {"none", "create", "promote"}]

\* A request in flight: who makes it (the row and its id), on whom, and what the
\* handler read or was asked for before the transaction.
RequestKinds == AccountActions \cup {"invite", "resend", "revoke_invite", "change_password",
                                     "login", "create_key", "promote_key"}
Request == [kind : RequestKinds, who : People, id : 1..MaxCredentials, target : People,
            role : UserRoles \cup {"none"}, asked : InviteRoles \cup {"none"},
            token : 0..MaxTokens, cred : 0..MaxCredentials]

Exists(p) == account[p] # NoAccount
Active(p) == Exists(p) /\ ~account[p].disabled
Owners == {p \in People : Exists(p) /\ account[p].role = "owner"}
Owner == CHOOSE p \in Owners : TRUE
HasPassword(p) == Exists(p) /\ account[p].cred # NoPassword

-----------------------------------------------------------------------------
(* Who may do what.                                                        *)

GrantableRoles(role) == CASE role = "owner" -> {"admin", "member"}
                          [] role = "admin" -> {"member"}
                          [] OTHER -> {}
CanManage(actorRole, targetRole) == targetRole \in GrantableRoles(actorRole)
ManagesAllKeys(role) == role \in {"admin", "owner"}

\* accountActionRefusal(...) = null
ActionAllowed(action, a, t) ==
    LET actor == account[a]  target == account[t]
    IN  /\ a # t
        /\ target.role # "owner"
        /\ CASE action = "change_role" -> actor.role = "owner"
             [] action = "transfer_ownership" ->
                    actor.role = "owner" /\ target.role = "admin" /\ ~target.disabled
             [] action \in {"deactivate", "reset_password"} ->
                    CanManage(actor.role, target.role) /\ ~target.disabled
             [] action = "reactivate" -> CanManage(actor.role, target.role) /\ target.disabled
             [] action = "remove" -> CanManage(actor.role, target.role)

-----------------------------------------------------------------------------
(* Links.                                                                  *)

InviterStillGrants(p) ==
    /\ invite[p].by # Nobody
    /\ Active(invite[p].by)
    /\ invite[p].role \in GrantableRoles(account[invite[p].by].role)
AcceptableInvite(p) == invite[p] # NoToken /\ InviterStillGrants(p)

IssuerStillManages(p) ==
    /\ reset[p].by \notin {Nobody, p}
    /\ Active(reset[p].by) /\ Active(p)
    /\ CanManage(account[reset[p].by].role, account[p].role)
UsableReset(p) == reset[p] # NoToken /\ IssuerStillManages(p)

LiveOwnerSetup(p) == /\ setup # NoToken /\ setup.who = p
                     /\ Active(p) /\ account[p].role = "owner"

OpenTokens == {invite[p].n : p \in People} \cup {reset[p].n : p \in People} \cup {setup.n}
UsableTokens ==
    {invite[p].n : p \in {q \in People : AcceptableInvite(q)}}
    \cup {reset[p].n : p \in {q \in People : UsableReset(q)}}
    \cup {setup.n : p \in {q \in People : LiveOwnerSetup(q)}}

RevokeInvitesIssuedBy(a, roles) ==
    [p \in People |-> IF invite[p] # NoToken /\ invite[p].by = a /\ invite[p].role \in roles
                      THEN NoToken ELSE invite[p]]
ResetLinksBy(a) == {p \in People : reset[p] # NoToken /\ reset[p].by = a}
RevokeResetLinks(targets) == [p \in People |-> IF p \in targets THEN NoToken ELSE reset[p]]

-----------------------------------------------------------------------------
(* Sessions and passwords.                                                 *)

SessionsExcept(p) == {s \in session : s.who # p}
CreateSession(p, cred) == [who |-> p, cred |-> cred, whileDisabled |-> account[p].disabled]
UsableSession(p) == Active(p) /\ \E s \in session : s.who = p

\* A new password: the old credential goes, and with it every session it opened.
NewPassword(p) ==
    /\ used[p] < MaxCredentials
    /\ used' = [used EXCEPT ![p] = @ + 1]
    /\ account' = [account EXCEPT ![p].cred = used[p] + 1]
    /\ session' = SessionsExcept(p) \cup {CreateSession(p, used[p] + 1)}

-----------------------------------------------------------------------------
(* An installation at some moment: fresh, or staffed.                      *)

AccountsInit ==
    /\ happening \in {w.happening : w \in Staffings}
    /\ \E staff \in {w.staff : w \in {v \in Staffings : v.happening = happening}} :
         /\ account = [p \in People |->
                IF staff[p] = "none" THEN NoAccount
                ELSE [id |-> 1, role |-> staff[p], disabled |-> FALSE, cred |-> 1]]
         /\ used = [p \in People |-> IF staff[p] = "none" THEN 0 ELSE 1]
         /\ content \in {Nobody} \cup {p \in People : staff[p] = "admin"}
         /\ session = {[who |-> p, cred |-> 1, whileDisabled |-> FALSE] :
                           p \in {q \in People : staff[q] # "none"}}
    /\ invite = [p \in People |-> NoToken]
    /\ reset = [p \in People |-> NoToken]
    /\ setup = NoToken
    /\ key = [p \in People |-> NoApiKey]
    /\ req = [r \in Requests |-> NoReq]
    /\ minted = 0
    /\ lapsed = {}

Mint == minted < MaxTokens /\ minted' = minted + 1
Done(r) == req' = [req EXCEPT ![r] = NoReq]

Quiet == UNCHANGED <<account, used, invite, reset, setup, session, key, content, minted>>

Ask(kind, a, t) == [kind |-> kind, who |-> a, id |-> account[a].id, target |-> t,
                    role |-> "none", asked |-> "none", token |-> 0, cred |-> NoPassword]

\* The session guard: the caller's account, as the session shows it, and what
\* the handler keeps for later.
BeginRequest(r, q) ==
    /\ q.kind \in happening /\ req[r] = NoReq
    /\ UsableSession(q.who)
    /\ req' = [req EXCEPT ![r] = q]
    /\ Quiet
AdminGuard(a) == Exists(a) /\ account[a].role \in {"admin", "owner"}

Caller(r, kind) == req[r].kind = kind
\* The caller's row is still the one the session named.
CallerExists(r) == Exists(req[r].who) /\ account[req[r].who].id = req[r].id

\* A request that ends without a change.
Refused(r) == /\ Done(r)
              /\ Quiet

-----------------------------------------------------------------------------
(* The owner, under the owner lock.                                        *)

ReplaceSetupToken(p) == Mint /\ setup' = [n |-> minted + 1, who |-> p]

CreateOwner(p) ==
    /\ used[p] < MaxCredentials
    /\ used' = [used EXCEPT ![p] = @ + 1]
    /\ account' = [account EXCEPT ![p] =
            [id |-> used[p] + 1, role |-> "owner", disabled |-> FALSE,
             cred |-> NoPassword]]
    /\ ReplaceSetupToken(p)

AssignUnownedRecords(owner) == content' = IF content = Nobody THEN owner ELSE content

\* Boot with BUNMAIL_OWNER_EMAIL = p: create the owner, or give the owner that
\* never set a password a new link (and the configured address).
BootstrapOwner(p) ==
    /\ "boot" \in happening
    /\ \/ /\ Owners = {} /\ ~Exists(p)
          /\ CreateOwner(p) /\ AssignUnownedRecords(p)
       \/ /\ Owners # {} /\ ~HasPassword(Owner)
          /\ p = Owner \/ ~Exists(p)
          /\ account' = [account EXCEPT ![Owner] = NoAccount, ![p] = account[Owner]]
          /\ ReplaceSetupToken(p) /\ AssignUnownedRecords(p)
          /\ UNCHANGED used
       \/ /\ Owners # {} /\ HasPassword(Owner)
          /\ AssignUnownedRecords(Owner)
          /\ UNCHANGED <<account, used, setup, minted>>
    /\ UNCHANGED <<invite, reset, session, key, req>>

\* The reset-owner command: every link and every session of the owner goes.
IssueOwnerSetupLink(p) ==
    /\ "reset_owner" \in happening
    /\ \/ /\ Owners = {p}
          /\ reset' = [reset EXCEPT ![p] = NoToken]
          /\ session' = SessionsExcept(p)
          /\ ReplaceSetupToken(p)
          /\ UNCHANGED <<account, used>>
       \/ /\ Owners = {} /\ p \in OwnerEmails /\ ~Exists(p)
          /\ CreateOwner(p)
          /\ UNCHANGED <<reset, session>>
    /\ UNCHANGED <<invite, key, content, req>>

\* The token is claimed in the transaction, for an active owner only.
CompleteOwnerSetup(p) ==
    /\ LiveOwnerSetup(p)
    /\ NewPassword(p)
    /\ setup' = NoToken
    /\ reset' = [reset EXCEPT ![p] = NoToken]
    /\ UNCHANGED <<invite, key, content, req, minted>>

-----------------------------------------------------------------------------
(* Account administration: runAccountAction under the owner lock.          *)

\* Mutant: the early check is trusted; the rows are not looked at again.
EarlyCheckStands(r, action) ==
    /\ Caller(r, action) /\ CallerExists(r) /\ Exists(req[r].target)

\* The caller, re-read, is active, and may do this to the target as it is now.
RunAccountAction(r, action) ==
    /\ Caller(r, action) /\ CallerExists(r) /\ Active(req[r].who)
    /\ Exists(req[r].target)
    /\ ActionAllowed(action, req[r].who, req[r].target)

ChangeAccountRole(r) ==
    LET t == req[r].target  role == req[r].asked
    IN  /\ RunAccountAction(r, "change_role") /\ Done(r)
        /\ account[t].role # role
        /\ account' = [account EXCEPT ![t].role = role]
        /\ IF role = "member"
           THEN /\ invite' = RevokeInvitesIssuedBy(t, InviteRoles)
                /\ reset' = RevokeResetLinks(ResetLinksBy(t))
                /\ key' = [key EXCEPT ![t].admin = FALSE]
           ELSE /\ reset' = RevokeResetLinks({t})
                /\ UNCHANGED <<invite, key>>
        /\ UNCHANGED <<used, setup, session, content, minted>>

DeactivateAccount(r) ==
    LET t == req[r].target
    IN  /\ RunAccountAction(r, "deactivate") /\ Done(r)
        /\ account' = [account EXCEPT ![t].disabled = TRUE]
        /\ session' = SessionsExcept(t)
        /\ invite' = RevokeInvitesIssuedBy(t, InviteRoles)
        /\ reset' = RevokeResetLinks({t} \cup ResetLinksBy(t))
        /\ key' = [key EXCEPT ![t].active = FALSE]
        /\ UNCHANGED <<used, setup, content, minted>>

\* A login that was under way may have opened a session meanwhile: it goes.
ReactivateAccount(r) ==
    LET t == req[r].target
    IN  /\ RunAccountAction(r, "reactivate") /\ Done(r)
        /\ account' = [account EXCEPT ![t].disabled = FALSE]
        /\ session' = SessionsExcept(t)
        /\ UNCHANGED <<used, invite, reset, setup, key, content, minted>>

\* The foreign keys clear invited_by and created_by_user_id, and delete the
\* account's own links, credentials and sessions.
RemoveAccount(r) ==
    LET t == req[r].target
    IN  /\ RunAccountAction(r, "remove") /\ Done(r)
        /\ account' = [account EXCEPT ![t] = NoAccount]
        /\ session' = SessionsExcept(t)
        /\ invite' = RevokeInvitesIssuedBy(t, InviteRoles)
        /\ reset' = [p \in People |->
                CASE p = t -> NoToken
                  [] p # t /\ reset[p] # NoToken /\ reset[p].by = t -> [reset[p] EXCEPT !.by = Nobody]
                  [] OTHER -> reset[p]]
        /\ setup' = IF setup # NoToken /\ setup.who = t THEN NoToken ELSE setup
        /\ key' = [key EXCEPT ![t] = NoApiKey]
        /\ content' = IF content = t THEN Nobody ELSE content
        /\ UNCHANGED <<used, minted>>

IssuePasswordReset(r) ==
    LET t == req[r].target
    IN  /\ RunAccountAction(r, "reset_password") /\ Done(r)
        /\ Mint
        /\ reset' = [reset EXCEPT ![t] = [n |-> minted + 1, by |-> req[r].who]]
        /\ UNCHANGED <<account, used, invite, setup, session, key, content>>

\* Transfer, first step: the rules and the owner's password, outside any lock.
BeginTransfer(r, a, t) ==
    /\ Exists(a) /\ HasPassword(a) /\ Exists(t)
    /\ ActionAllowed("transfer_ownership", a, t)
    /\ BeginRequest(r, Ask("transfer_ownership", a, t))

\* Every link that would live again if ownership returned is revoked.
TransferOwnership(r) ==
    LET a == req[r].who  t == req[r].target
    IN  /\ RunAccountAction(r, "transfer_ownership") /\ Done(r)
        /\ reset' = RevokeResetLinks(
                {t} \cup {p \in ResetLinksBy(a) : account[p].role = "admin"})
        /\ account' = [account EXCEPT ![a].role = "admin", ![t].role = "owner"]
        /\ invite' = RevokeInvitesIssuedBy(a, {"admin"})
        /\ setup' = NoToken
        /\ content' = IF content \in {a, Nobody} THEN t ELSE content
        /\ UNCHANGED <<used, session, key, minted>>

ActionRefused(r) ==
    /\ req[r].kind \in AccountActions
    /\ \/ ~RunAccountAction(r, req[r].kind)
       \/ /\ req[r].kind = "change_role" /\ Exists(req[r].target)
          /\ account[req[r].target].role = req[r].asked
    /\ Refused(r)

-----------------------------------------------------------------------------
(* Invitations, under the lock of the invited address.                     *)

HasHigherPendingInvite(p, actorRole) ==
    invite[p] # NoToken /\ invite[p].role \notin GrantableRoles(actorRole)

\* The role of the caller is the one its session showed.
ReplaceInvite(r, p, role) ==
    LET taken == Exists(p)
        higher == HasHigherPendingInvite(p, req[r].role)
    IN  /\ \/ /\ taken
              /\ invite' = [invite EXCEPT ![p] = NoToken]
              /\ UNCHANGED minted
           \/ /\ ~taken /\ (higher \/ ~CallerExists(r))
              /\ UNCHANGED <<invite, minted>>
           \/ /\ ~taken /\ ~higher /\ CallerExists(r)
              /\ Mint
              /\ invite' = [invite EXCEPT ![p] =
                    [n |-> minted + 1, role |-> role, by |-> req[r].who]]
        /\ Done(r)
        /\ UNCHANGED <<account, used, reset, setup, session, key, content>>

BeginInvite(r, a, p, role) ==
    /\ Exists(a) /\ role \in GrantableRoles(account[a].role)
    /\ BeginRequest(r, [Ask("invite", a, p) EXCEPT !.role = account[a].role, !.asked = role])

CreateInvitation(r) == /\ Caller(r, "invite")
                       /\ ReplaceInvite(r, req[r].target, req[r].asked)

\* Resend and revoke first find the pending invitation and judge its role.
FindPendingById(r, kind, a, p) ==
    /\ AdminGuard(a) /\ invite[p] # NoToken
    /\ invite[p].role \in GrantableRoles(account[a].role)
    /\ BeginRequest(r, [Ask(kind, a, p) EXCEPT !.role = account[a].role,
                                               !.asked = invite[p].role,
                                               !.token = invite[p].n])

StillPending(r) == invite[req[r].target].n = req[r].token

ResendInvitation(r) ==
    /\ Caller(r, "resend")
    /\ \/ StillPending(r) /\ ReplaceInvite(r, req[r].target, req[r].asked)
       \/ ~StillPending(r) /\ Refused(r)

RevokeInvitation(r) ==
    /\ Caller(r, "revoke_invite")
    /\ \/ /\ StillPending(r)
          /\ invite' = [invite EXCEPT ![req[r].target] = NoToken]
          /\ Done(r)
          /\ UNCHANGED <<account, used, reset, setup, session, key, content, minted>>
       \/ ~StillPending(r) /\ Refused(r)

\* The invitation is spent, the account made and signed in; or, when the
\* address has an account by now, its invitation is revoked.
AcceptInvitation(p) ==
    /\ AcceptableInvite(p)
    /\ invite' = [invite EXCEPT ![p] = NoToken]
    /\ \/ Exists(p) /\ UNCHANGED <<account, used, session>>
       \/ /\ ~Exists(p) /\ used[p] < MaxCredentials
          /\ used' = [used EXCEPT ![p] = @ + 1]
          /\ account' = [account EXCEPT ![p] =
                [id |-> used[p] + 1, role |-> invite[p].role, disabled |-> FALSE,
                 cred |-> used[p] + 1]]
          /\ session' = session \cup {[who |-> p, cred |-> used[p] + 1, whileDisabled |-> FALSE]}
    /\ UNCHANGED <<reset, setup, key, content, req, minted>>

-----------------------------------------------------------------------------
(* Passwords and sign-in.                                                  *)

\* The link is claimed in the transaction, if its issuer still manages the
\* account; it evicts every session and link of the account.
CompletePasswordReset(p) ==
    /\ UsableReset(p)
    /\ NewPassword(p)
    /\ reset' = RevokeResetLinks({p} \cup ResetLinksBy(p))
    /\ setup' = IF setup # NoToken /\ setup.who = p THEN NoToken ELSE setup
    /\ invite' = RevokeInvitesIssuedBy(p, InviteRoles)
    /\ UNCHANGED <<key, content, req, minted>>

\* Mutant: the password was verified, whatever it is by now.
StillSomePassword(r) == Active(req[r].who) /\ CallerExists(r)

CredentialUnchanged(r) ==
    /\ CallerExists(r) /\ Active(req[r].who)
    /\ account[req[r].who].cred = req[r].cred

ChangePassword(r) ==
    LET p == req[r].who
    IN  /\ Caller(r, "change_password") /\ Done(r)
        /\ \/ /\ CredentialUnchanged(r)
              /\ NewPassword(p)
              /\ reset' = [reset EXCEPT ![p] = NoToken]
              /\ UNCHANGED <<invite, setup, key, content, minted>>
           \/ /\ ~CredentialUnchanged(r)
              /\ Quiet

VerifyPasswordLogin(r, p) ==
    /\ "login" \in happening /\ req[r] = NoReq
    /\ Active(p) /\ HasPassword(p)
    /\ req' = [req EXCEPT ![r] = [Ask("login", p, p) EXCEPT !.cred = account[p].cred]]
    /\ Quiet

\* Mutant: the session does not name the credential that opened it.
OpenSessionUnbound(r) ==
    LET p == req[r].who
    IN  /\ Caller(r, "login") /\ Done(r)
        /\ session' = IF Exists(p)
                      THEN session \cup {CreateSession(p, req[r].cred)} ELSE session
        /\ UNCHANGED <<account, used, invite, reset, setup, key, content, minted>>

\* The session row references the credential: the insert fails without it.
OpenSession(r) ==
    LET p == req[r].who
    IN  /\ Caller(r, "login") /\ Done(r)
        /\ session' = IF CallerExists(r) /\ account[p].cred = req[r].cred
                      THEN session \cup {CreateSession(p, req[r].cred)} ELSE session
        /\ UNCHANGED <<account, used, invite, reset, setup, key, content, minted>>

Logout(s) ==
    /\ "logout" \in happening
    /\ session' = session \ {s}
    /\ UNCHANGED <<account, used, invite, reset, setup, key, content, req, minted>>

-----------------------------------------------------------------------------
(* API keys.                                                               *)

CreatorMayHoldAdmin(r) == ManagesAllKeys(account[req[r].who].role)

\* The creator's row is locked FOR SHARE while the key is inserted.
CreateApiKey(r) ==
    LET p == req[r].who
    IN  /\ Caller(r, "create_key") /\ Done(r)
        /\ key' = IF CallerExists(r) /\ Active(p) /\ key[p] = NoApiKey
                  THEN [key EXCEPT ![p] = [active |-> TRUE, via |-> "create",
                                           admin |-> CreatorMayHoldAdmin(r)]]
                  ELSE key
        /\ UNCHANGED <<account, used, invite, reset, setup, session, content, minted>>

\* One conditional UPDATE: its snapshot sees the creator's role when the
\* statement starts, the row is written afterwards.
ReadKeyCreator(r, a, t) ==
    /\ key[t] # NoApiKey /\ Exists(a) /\ ManagesAllKeys(account[a].role)
    /\ Active(t) /\ ManagesAllKeys(account[t].role)
    /\ BeginRequest(r, Ask("promote_key", a, t))

SetApiKeyAdmin(r) ==
    LET t == req[r].target
    IN  /\ Caller(r, "promote_key") /\ Done(r)
        /\ key' = IF key[t] = NoApiKey \/ key[t].admin THEN key
                  ELSE [key EXCEPT ![t].admin = TRUE, ![t].via = "promote"]
        /\ UNCHANGED <<account, used, invite, reset, setup, session, content, minted>>

MakeKeyRestricted(a, t) ==
    /\ "promote_key" \in happening
    /\ UsableSession(a) /\ ManagesAllKeys(account[a].role) /\ key[t].admin
    /\ key' = [key EXCEPT ![t].admin = FALSE]
    /\ UNCHANGED <<account, used, invite, reset, setup, session, content, req, minted>>

RevokeApiKey(a, t) ==
    /\ "promote_key" \in happening
    /\ UsableSession(a) /\ key[t].active
    /\ a = t \/ ManagesAllKeys(account[a].role)
    /\ key' = [key EXCEPT ![t].active = FALSE]
    /\ UNCHANGED <<account, used, invite, reset, setup, session, content, req, minted>>

-----------------------------------------------------------------------------
\* A link's time runs out.
Expire(p) ==
    /\ "expire" \in happening
    /\ \/ invite[p] # NoToken /\ invite' = [invite EXCEPT ![p] = NoToken] /\ UNCHANGED <<reset, setup>>
       \/ reset[p] # NoToken /\ reset' = [reset EXCEPT ![p] = NoToken] /\ UNCHANGED <<invite, setup>>
       \/ setup # NoToken /\ setup' = NoToken /\ UNCHANGED <<invite, reset>>
    /\ UNCHANGED <<account, used, session, key, content, req, minted>>

UsersPage(r) ==
    \/ \E a, t \in People, k \in AccountActions \ {"transfer_ownership", "change_role"} :
            AdminGuard(a) /\ BeginRequest(r, Ask(k, a, t))
    \/ \E a, t \in People, role \in InviteRoles :
            AdminGuard(a) /\ BeginRequest(r, [Ask("change_role", a, t) EXCEPT !.asked = role])
    \/ \E a, t \in People : BeginTransfer(r, a, t)
    \/ ChangeAccountRole(r) \/ DeactivateAccount(r) \/ ReactivateAccount(r)
    \/ RemoveAccount(r) \/ IssuePasswordReset(r) \/ TransferOwnership(r)
    \/ ActionRefused(r)

InvitationsPage(r) ==
    \/ \E a, p \in People, role \in InviteRoles : BeginInvite(r, a, p, role)
    \/ \E a, p \in People, k \in {"resend", "revoke_invite"} : FindPendingById(r, k, a, p)
    \/ CreateInvitation(r) \/ ResendInvitation(r) \/ RevokeInvitation(r)

PasswordPage(r) ==
    \/ \E a \in People :
            /\ HasPassword(a)
            /\ BeginRequest(r, [Ask("change_password", a, a) EXCEPT !.cred = account[a].cred])
    \/ ChangePassword(r)

\* The pages a link opens.
SetupPage(p) == CompleteOwnerSetup(p)
InvitePage(p) == AcceptInvitation(p)
ResetPage(p) == CompletePasswordReset(p)

LoginPage(r) == (\E p \in People : VerifyPasswordLogin(r, p)) \/ OpenSession(r)

ApiKeysPage(r) ==
    \/ \E a \in People : Exists(a) /\ BeginRequest(r, Ask("create_key", a, a))
    \/ \E a, t \in People : ReadKeyCreator(r, a, t)
    \/ CreateApiKey(r) \/ SetApiKeyAdmin(r)

AccountStep ==
    \/ \E r \in Requests : \/ UsersPage(r) \/ InvitationsPage(r) \/ PasswordPage(r)
                           \/ LoginPage(r) \/ ApiKeysPage(r)
    \/ \E p \in OwnerEmails : BootstrapOwner(p)
    \/ \E p \in People : \/ IssueOwnerSetupLink(p) \/ SetupPage(p)
                         \/ InvitePage(p) \/ ResetPage(p) \/ Expire(p)
    \/ \E s \in session : Logout(s)
    \/ \E a, t \in People : MakeKeyRestricted(a, t) \/ RevokeApiKey(a, t)

AccountsNext ==
    /\ AccountStep
    /\ lapsed' = (lapsed \cup (UsableTokens \ UsableTokens')) \cap OpenTokens'
    /\ UNCHANGED happening

AccountsSpec == AccountsInit /\ [][AccountsNext]_accountVars

-----------------------------------------------------------------------------
(* Properties.                                                             *)

\* The rows have the columns' types, and a request names people and roles.
AccountsTypeOK ==
    /\ account \in [People -> UserRow \cup {NoAccount}]
    /\ used \in [People -> 0..MaxCredentials]
    /\ invite \in [People -> InviteToken \cup {NoToken}]
    /\ reset \in [People -> ResetToken \cup {NoToken}]
    /\ setup \in SetupToken \cup {NoToken}
    /\ session \subseteq SessionRow
    /\ key \in [People -> ApiKey]
    /\ req \in [Requests -> Request \cup {NoReq}]
    /\ content \in People \cup {Nobody}
    /\ minted \in 0..MaxTokens

\* Whoever has accounts, exactly one of them is the owner, and it is active:
\* no race of transfers, demotions and removals loses or doubles it
\* (transferOwnership checks the rules again under the owner lock).
OneOwner ==
    (\E p \in People : Exists(p)) => /\ Cardinality(Owners) = 1
                                     /\ Active(Owner)

\* A link that was usable and stopped being so never becomes usable again,
\* whatever demotions, promotions, reactivations and transfers follow
\* ("a link must not come back to life", password-reset.service.ts).
LapsedStayLapsed == lapsed \cap UsableTokens = {}

\* An account that comes to exist by an invitation gets a role that an active
\* account can grant at that moment, although invitations are stored with the
\* role the inviter's session showed when its request began.
RoleGrantedNow ==
    [][\A p \in People :
          ~Exists(p) /\ Exists(p)' /\ account'[p].role # "owner" =>
             \E a \in People : /\ Active(a)
                               /\ account'[p].role \in GrantableRoles(account[a].role)
                               /\ invite[p].by = a]_accountVars

\* A session that opens the dashboard was opened with the password the account
\* has now, and never while the account was disabled: a login under way when the
\* password is replaced, or the account deactivated, opens nothing in the end.
SessionIsCurrent ==
    \A s \in session : Active(s.who) => s.cred = account[s.who].cred /\ ~s.whileDisabled

\* A password is replaced by a link of that account or by a request that proved
\* the very password it replaces: a change verified before a reset never undoes
\* the reset.
ChangeProvesCurrent ==
    [][\A p \in People :
          (Exists(p) /\ Exists(p)' /\ account'[p].id = account[p].id
             /\ account'[p].cred # account[p].cred)
          => \/ UsableReset(p) /\ reset'[p] = NoToken
             \/ LiveOwnerSetup(p) /\ setup' = NoToken
             \/ \E r \in Requests : /\ req[r].kind = "change_password" /\ req[r].who = p
                                    /\ req[r].cred = account[p].cred
                                    /\ req'[r] = NoReq]_accountVars

\* A key created as an admin key belongs to an account that is an active admin
\* or the owner now, although the request was authorised earlier.
CreatedAdminKeysFollowRole ==
    \A p \in People : (key[p].active /\ key[p].admin /\ key[p].via = "create")
                        => Active(p) /\ ManagesAllKeys(account[p].role)

\* What a person, a link or a key may do follows from the account as it is
\* now, although each was checked in a request that began earlier.
RightsAreCurrent ==
    /\ AccountsTypeOK /\ LapsedStayLapsed
    /\ SessionIsCurrent /\ CreatedAdminKeysFollowRole

\* Roles and passwords change only on a proof that holds at that moment.
ChangesAreAuthorised == RoleGrantedNow /\ ChangeProvesCurrent

\* "A member's key is never made admin": every admin key belongs to an active
\* admin or the owner, however it got its flag (setApiKeyAdmin's comment).
AdminKeysFollowRole ==
    \A p \in People : (key[p].active /\ key[p].admin)
                        => Active(p) /\ ManagesAllKeys(account[p].role)
=============================================================================
