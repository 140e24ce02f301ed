------------------------------- MODULE SignIn -------------------------------
(***************************************************************************)
(* Signing in to one dashboard account: its sessions and their tokens, the *)
(* authenticator app and its recovery codes, passkeys, and the identity    *)
(* linked at a single sign-on provider.                                    *)
(*                                                                         *)
(* Every write is a transaction under PostgreSQL's READ COMMITTED: a       *)
(* statement that locks a row returns the row as it is once the lock is    *)
(* granted, but evaluates its subqueries (has a second factor? has a       *)
(* link?) on the snapshot the statement started with.                      *)
(***************************************************************************)
EXTENDS Integers, FiniteSets

CONSTANTS
    Beginnings,     \* bound: initial account, and what happens after
    Browsers,       \* requests that may be in flight at once
    MaxSessions,    \* bound: sessions ever opened
    MaxRotations,   \* bound: rotations of a session's token
    MaxFactors,     \* bound: credentials ever stored (app, passkey or link)
    MaxSteps        \* bound: time steps of the authenticator app in its window

VARIABLES
    user,       \* the users row: role, disabled
    totp,       \* the authenticator app's credential: id and last step used
    recovery,   \* recovery codes not yet used
    passkeys,   \* the account's passkeys
    link,       \* the credential that links the identity, or None
    sess,       \* the sessions
    opened,     \* sessions opened so far
    stored,     \* credentials stored so far
    challenge,  \* passkey challenges issued and not taken, by purpose and binding
    flow,       \* single sign-on flows started and not consumed
    job,        \* requests in flight
    usedProofs, \* history: one-time proofs accepted
    twice,      \* history: one-time proofs accepted a second time
    going       \* what happens in this behaviour

signInVars == <<user, totp, recovery, passkeys, link, sess, opened, stored,
                challenge, flow, job, usedProofs, twice, going>>

-----------------------------------------------------------------------------
None == 0
NoSession == [assurance |-> "none"]
NoTotp == [id |-> None, step |-> 0]
Idle == [kind |-> "none"]
Ids == 1..MaxSessions
Credentials == 1..MaxFactors
Assurances == {"pending", "password", "mfa"}
SignInRoles == {"owner", "admin", "member"}
FlowPurposes == {"sso_link", "sso_login"}
Purposes == {"register", "second_factor", "sign_in"}
SignInMethods == {"password", "oauth", "passkey"}

ASSUME SignInConstants ==
    /\ MaxSessions \in Nat \ {0} /\ MaxRotations \in Nat
    /\ MaxFactors \in Nat /\ MaxFactors >= 3 /\ MaxSteps \in Nat \ {0}
    /\ \A b \in Beginnings : /\ b.role \in SignInRoles /\ b.session \in Assurances \cup {"none"}
                             /\ {b.totp, b.passkey, b.link} \subseteq BOOLEAN

SessionRecord ==
    [assurance : Assurances, method : SignInMethods, cred : 0..MaxFactors,
     token : 0..MaxRotations, previous : -1..MaxRotations, grace : BOOLEAN,
     old : SUBSET (0..MaxRotations), seen : SUBSET (0..MaxRotations),
     secret : 0..MaxFactors, proved : BOOLEAN]

HasTotp == totp.id # None
HasSecondFactor == HasTotp \/ passkeys # {}
HasSsoLink == link # None
SessionRows == {s \in Ids : sess[s] # NoSession}

\* Mutant: a password is enough whatever the account has enrolled.
LivePasswordSession(s) == sess[s].assurance \in {"mfa", "password"}

LiveSession(s) == \/ sess[s].assurance = "mfa"
                  \/ sess[s].assurance = "password" /\ ~HasSecondFactor
UsableSignIn(s) == ~user.disabled /\ LiveSession(s)
PendingStep(s) == sess[s].assurance = "pending" /\ ~user.disabled

FirstFactorAssurance(factor) == IF factor THEN "pending" ELSE "password"

NewSession(assurance, method, cred, proved) ==
    [assurance |-> assurance, method |-> method, cred |-> cred, token |-> 0,
     previous |-> -1, grace |-> FALSE, old |-> {}, seen |-> {}, secret |-> None,
     proved |-> proved]

-----------------------------------------------------------------------------
(* The account when the behaviour starts.                                  *)

SignInInit ==
    \E b \in Beginnings :
      /\ user = [role |-> b.role, disabled |-> FALSE]
      /\ totp = IF b.totp THEN [id |-> 1, step |-> 0] ELSE NoTotp
      /\ recovery = IF b.totp THEN {1} ELSE {}
      /\ passkeys = IF b.passkey THEN {2} ELSE {}
      /\ link = IF b.link THEN 3 ELSE None
      /\ sess = [s \in Ids |-> IF s = 1 /\ b.session # "none"
                               THEN NewSession(b.session, "password", None, b.session = "mfa")
                               ELSE NoSession]
      /\ opened = IF b.session = "none" THEN 0 ELSE 1
      /\ stored = 3
      /\ challenge = {}
      /\ flow = {}
      /\ job = [b1 \in Browsers |-> Idle]
      /\ usedProofs = {} /\ twice = {}
      /\ going = b.going

-----------------------------------------------------------------------------
(* Requests.                                                               *)

Reach(b, request) == job' = [job EXCEPT ![b] = request]
Start(b, request) == job[b] = Idle /\ Reach(b, request)
At(b, k, phase) == job[b].kind = k /\ job[b].at = phase
End(b) == Reach(b, Idle)

\* A transaction that matches a code holds its pending session's row lock.
RowFree(s) == ~\E b \in Browsers : At(b, "second_step", "matching") /\ job[b].sid = s
\* A transaction that opens a session for the link holds the link's row lock.
LinkFree == ~\E b \in Browsers : At(b, "sso", "opening")
AllFree(rows) == \A s \in rows : RowFree(s)

Accept(proofs) == usedProofs' = usedProofs \cup proofs /\ twice' = twice \cup (proofs \cap usedProofs)
NoProof == UNCHANGED <<usedProofs, twice>>

factorVars == <<user, totp, recovery, passkeys, link, stored>>
ceremonyVars == <<challenge, flow>>

-----------------------------------------------------------------------------
(* Sessions.                                                               *)

Opens(rows, assurance, method, cred, proved) ==
    /\ opened < MaxSessions
    /\ opened' = opened + 1
    /\ sess' = [rows EXCEPT ![opened + 1] = NewSession(assurance, method, cred, proved)]
Without(rows) == [s \in Ids |-> IF s \in rows THEN NoSession ELSE sess[s]]

\* The rows a presented cookie ends: its session's, or, when the token was
\* superseded, all of the account's.
ReplacedBy(s, n) ==
    IF s = None \/ s \notin SessionRows THEN {}
    ELSE IF n \in {sess[s].token, sess[s].previous} THEN {s}
    ELSE IF n \in sess[s].old THEN SessionRows
    ELSE {}

\* A cookie some browser may hold.
Cookies == {c \in Ids \X (0..MaxRotations) : c[1] \in SessionRows /\ c[2] <= sess[c[1]].token}
           \cup {<<None, 0>>}

\* The session guard finds the session by its current or previous token.
Presented(row, n) == [row EXCEPT !.seen = @ \cup {n}]
FindActiveSession(b, s, n) ==
    /\ "page" \in going /\ s \in SessionRows
    /\ n \in 0..sess[s].token
    /\ LET row == sess[s]
           found == UsableSignIn(s) /\ n \in {row.token, row.previous}
           reused == \/ found /\ n # row.token /\ ~row.grace
                     \/ ~found /\ n \in row.old
       IN  /\ Start(b, [kind |-> "page", at |-> "begun", sid |-> s, tok |-> n,
                        reused |-> reused, open |-> found /\ ~reused])
           /\ sess' = [sess EXCEPT ![s] = Presented(row, n)]
    /\ UNCHANGED <<opened, factorVars, ceremonyVars, going>> /\ NoProof

RotationApplies(s, n) == s \in SessionRows /\ sess[s].token = n
Rotated(row) == [row EXCEPT !.previous = row.token, !.token = row.token + 1,
                            !.old = @ \cup {row.token}, !.grace = TRUE]
RotateSession(s, n) ==
    sess' = IF RotationApplies(s, n) THEN [sess EXCEPT ![s] = Rotated(sess[s])] ELSE sess

\* The rest of the guard: end every session on a superseded token, or rotate
\* a current token that is due.
WithSessionGuard(b) ==
    /\ At(b, "page", "begun")
    /\ LET s == job[b].sid  n == job[b].tok
       IN  \/ /\ job[b].reused /\ AllFree(SessionRows)
              /\ sess' = Without(SessionRows)
           \/ /\ job[b].open /\ s \in SessionRows /\ sess[s].token < MaxRotations
              /\ RotateSession(s, n)
           \/ ~job[b].reused /\ sess' = sess
    /\ End(b)
    /\ UNCHANGED <<opened, factorVars, ceremonyVars, going>> /\ NoProof

PastGrace(row) == [row EXCEPT !.grace = FALSE]
GraceEnds(s) == /\ s \in SessionRows /\ sess[s].grace
                /\ sess' = [sess EXCEPT ![s] = PastGrace(sess[s])]
                /\ UNCHANGED <<opened, factorVars, ceremonyVars, job, going>> /\ NoProof

\* Logout, the sessions page (one, or all others), expiry.
RevokeSession(s) ==
    /\ "revoke" \in going /\ s \in SessionRows
    /\ \E rows \in {{s}, SessionRows \ {s}} : AllFree(rows) /\ sess' = Without(rows)
    /\ UNCHANGED <<opened, factorVars, ceremonyVars, job, going>> /\ NoProof

-----------------------------------------------------------------------------
(* The password.                                                           *)

\* The password is right; the second factor is looked up now, and the
\* session opened later.
VerifyLogin(b, cookie) ==
    /\ "login" \in going /\ ~user.disabled
    /\ Start(b, [kind |-> "login", at |-> "begun", cookie |-> cookie,
                 assurance |-> FirstFactorAssurance(HasSecondFactor)])
    /\ UNCHANGED <<sess, opened, factorVars, ceremonyVars, going>> /\ NoProof

OpenPasswordSession(b) ==
    /\ At(b, "login", "begun")
    /\ LET gone == ReplacedBy(job[b].cookie[1], job[b].cookie[2])
       IN  /\ AllFree(gone)
           /\ Opens(Without(gone), job[b].assurance, "password", None, FALSE)
    /\ End(b)
    /\ UNCHANGED <<factorVars, ceremonyVars, going>> /\ NoProof

-----------------------------------------------------------------------------
(* A code of the authenticator app, or a recovery code.                    *)

\* A code of an app for a step, or a recovery code: its number, without a step.
Codes == [id : Credentials, step : 0..MaxSteps]
IsTotp(c) == c.step # 0
ProofOf(c) == IF IsTotp(c) THEN <<"totp", c.id, c.step>> ELSE <<"recovery", c.id>>
TypedCodes == {c \in Codes : IF IsTotp(c) THEN c.id = totp.id ELSE c.id \in recovery \cup {1}}

\* What the transaction reads first: the credential and its last step.
MatchTotpStep(c, read) == c.id = read.id /\ c.step > read.step

\* Mutant: the step read before is not compared again when it is written.
SwapStepBlindly(c, read) == totp.id = read.id

SwapStep(c, read) == totp.id = read.id /\ totp.step < c.step
\* matchSecondFactor: spends the code, or finds it wrong.
MatchSecondFactor(c, read, allowRecovery) ==
    /\ read.id # None
    /\ IF IsTotp(c) THEN MatchTotpStep(c, read) /\ SwapStep(c, read)
       ELSE allowRecovery /\ c.id \in recovery
SpendCode(c) ==
    /\ totp' = IF IsTotp(c) THEN [totp EXCEPT !.step = c.step] ELSE totp
    /\ recovery' = IF IsTotp(c) THEN recovery ELSE recovery \ {c.id}
    /\ Accept({ProofOf(c)})

Elevated(row) == [row EXCEPT !.assurance = "mfa", !.token = row.token + 1, !.previous = -1,
                             !.proved = TRUE, !.seen = @ \cup {row.token}]
ElevatePendingSession(s) ==
    /\ sess[s].token < MaxRotations
    /\ sess' = [sess EXCEPT ![s] = Elevated(sess[s])]

FindPendingSession(b, s, c) ==
    /\ "second_step" \in going /\ s \in SessionRows /\ PendingStep(s) /\ c \in TypedCodes
    /\ Start(b, [kind |-> "second_step", at |-> "begun", sid |-> s, tok |-> sess[s].token,
                 code |-> c])
    /\ UNCHANGED <<sess, opened, factorVars, ceremonyVars, going>> /\ NoProof

LockPendingSession(s, n) == s \in SessionRows /\ PendingStep(s) /\ sess[s].token = n

\* The transaction locks the pending session and reads the credential ...
BeginTwoFactorLogin(b) ==
    /\ At(b, "second_step", "begun")
    /\ RowFree(job[b].sid)
    /\ IF LockPendingSession(job[b].sid, job[b].tok)
       THEN Reach(b, [kind |-> "second_step", at |-> "matching", sid |-> job[b].sid,
                      code |-> job[b].code, read |-> totp])
       ELSE End(b)
    /\ UNCHANGED <<sess, opened, factorVars, ceremonyVars, going>> /\ NoProof

\* ... and spends the code and elevates the session, or refuses the code.
CompleteTwoFactorLogin(b) ==
    /\ At(b, "second_step", "matching")
    /\ LET c == job[b].code
       IN  IF MatchSecondFactor(c, job[b].read, TRUE)
           THEN SpendCode(c) /\ ElevatePendingSession(job[b].sid)
           ELSE NoProof /\ UNCHANGED <<totp, recovery, sess>>
    /\ End(b)
    /\ UNCHANGED <<opened, user, passkeys, link, stored, ceremonyVars, going>>

\* The attempt budget is used up: the pending session ends.
EndLockedSecondStep(b) ==
    /\ At(b, "second_step", "begun")
    /\ RowFree(job[b].sid)
    /\ sess' = Without(ReplacedBy(job[b].sid, job[b].tok) \cap {job[b].sid})
    /\ End(b)
    /\ UNCHANGED <<opened, factorVars, ceremonyVars, going>> /\ NoProof

-----------------------------------------------------------------------------
(* Enrolling the app, turning it off, new recovery codes.                  *)

WithSecret(row, secret) == [row EXCEPT !.secret = secret]
StartEnrolment(s) ==
    /\ "enrol" \in going /\ s \in SessionRows /\ UsableSignIn(s) /\ RowFree(s)
    /\ ~HasTotp /\ stored < MaxFactors
    /\ stored' = stored + 1
    /\ sess' = [sess EXCEPT ![s] = WithSecret(sess[s], stored + 1)]
    /\ UNCHANGED <<user, totp, recovery, passkeys, link, opened, ceremonyVars, job, going>>
    /\ NoProof

ConfirmEnrolment(b, s) ==
    /\ "confirm" \in going /\ s \in SessionRows /\ UsableSignIn(s)
    /\ Start(b, [kind |-> "confirm", at |-> "begun", sid |-> s])
    /\ UNCHANGED <<sess, opened, factorVars, ceremonyVars, going>> /\ NoProof

Proved(row) == [row EXCEPT !.assurance = "mfa", !.proved = TRUE]
FinishEnrolment(b, step) ==
    /\ At(b, "confirm", "begun")
    /\ LET s == job[b].sid
           secret == IF s \in SessionRows THEN sess[s].secret ELSE None
       IN  /\ RowFree(s)
           /\ CASE secret = None -> NoProof /\ UNCHANGED <<totp, recovery, sess>>
                [] secret # None /\ HasTotp ->
                     /\ sess' = [sess EXCEPT ![s] = WithSecret(sess[s], None)]
                     /\ NoProof /\ UNCHANGED <<totp, recovery>>
                [] OTHER ->
                     /\ AllFree(SessionRows)
                     /\ totp' = [id |-> secret, step |-> step]
                     /\ recovery' = {secret}
                     /\ sess' = [Without(SessionRows \ {s}) EXCEPT
                                    ![s] = WithSecret(Proved(sess[s]), None)]
                     /\ Accept({<<"totp", secret, step>>})
    /\ End(b)
    /\ UNCHANGED <<user, passkeys, link, stored, opened, ceremonyVars, going>>

\* The owner rule, as the statement that locks the account row evaluates it:
\* the role is current, the subqueries are of the snapshot.
RuleSnapshot(cred) == [linked |-> HasSsoLink,
                       others |-> ((IF HasTotp THEN {totp.id} ELSE {}) \cup passkeys) \ {cred} # {}]
RemovalBreaksOwnerSsoRule(snap) == user.role = "owner" /\ snap.linked /\ ~snap.others

\* Disabling: the credential is read and the password checked, then the
\* transaction's first statement starts, then it holds the account row.
DisableTwoFactor(b, s, c) ==
    /\ "disable" \in going /\ s \in SessionRows /\ UsableSignIn(s) /\ HasTotp /\ c \in TypedCodes
    /\ Start(b, [kind |-> "disable", at |-> "begun", cred |-> totp.id, code |-> c])
    /\ UNCHANGED <<sess, opened, factorVars, ceremonyVars, going>> /\ NoProof
RemovalStatement(b) ==
    /\ At(b, "disable", "begun") \/ At(b, "delete_passkey", "begun")
    /\ Reach(b, [kind |-> job[b].kind, at |-> "waiting", cred |-> job[b].cred,
                 code |-> job[b].code, snap |-> RuleSnapshot(job[b].cred)])
    /\ UNCHANGED <<sess, opened, factorVars, ceremonyVars, going>> /\ NoProof
FinishDisable(b) ==
    /\ At(b, "disable", "waiting")
    /\ LET c == job[b].code
       IN  IF ~RemovalBreaksOwnerSsoRule(job[b].snap) /\ MatchSecondFactor(c, totp, TRUE)
           THEN totp' = NoTotp /\ recovery' = {} /\ Accept({ProofOf(c)})
           ELSE NoProof /\ UNCHANGED <<totp, recovery>>
    /\ End(b)
    /\ UNCHANGED <<user, passkeys, link, stored, sess, opened, ceremonyVars, going>>

RegenerateRecoveryCodes(s, c) ==
    /\ "regenerate" \in going /\ s \in SessionRows /\ UsableSignIn(s)
    /\ IsTotp(c) /\ MatchSecondFactor(c, totp, FALSE) /\ stored < MaxFactors
    /\ totp' = [totp EXCEPT !.step = c.step]
    /\ recovery' = {stored + 1} /\ stored' = stored + 1
    /\ Accept({ProofOf(c)})
    /\ UNCHANGED <<user, passkeys, link, sess, opened, ceremonyVars, job, going>>

-----------------------------------------------------------------------------
(* Passkeys. A challenge is kept for a purpose and a binding: the session, *)
(* or the cookie of a sign-in (the browser).                               *)

TakeChallenge(purpose, binding) == {c \in challenge : c.purpose # purpose \/ c.binding # binding}
IssueChallenge(purpose, binding, n) ==
    challenge' = {c \in challenge : c.purpose # purpose \/ c.binding # binding}
                 \cup {[purpose |-> purpose, binding |-> binding, n |-> n]}
Held(purpose, binding) ==
    {c \in challenge : c.purpose = purpose /\ c.binding = binding}

\* Options for a ceremony; the number stands for the random challenge.
StartCeremony(purpose, binding) ==
    /\ purpose \in going /\ stored < MaxFactors
    /\ CASE purpose = "register" -> binding \in SessionRows /\ UsableSignIn(binding)
         [] purpose = "second_factor" ->
              binding \in SessionRows /\ PendingStep(binding) /\ passkeys # {}
         [] OTHER -> binding = None
    /\ stored' = stored + 1
    /\ IssueChallenge(purpose, binding, stored + 1)
    /\ UNCHANGED <<user, totp, recovery, passkeys, link, sess, opened, flow, job, going>>
    /\ NoProof

\* A finished ceremony takes the challenge first: the response is for it, or
\* is rejected. An expired or evicted challenge is gone as well.
TakeForCeremony(b, purpose, binding) ==
    \E c \in Held(purpose, binding) :
      /\ purpose \in going
      /\ Start(b, [kind |-> purpose, at |-> "begun", sid |-> binding, n |-> c.n,
                   tok |-> IF binding \in SessionRows THEN sess[binding].token ELSE 0])
      /\ challenge' = TakeChallenge(purpose, binding)
      /\ UNCHANGED <<sess, opened, factorVars, flow, going>> /\ NoProof
Rejected(b) == /\ job[b].kind \in Purposes \cup {"sso"}
               /\ End(b)
               /\ UNCHANGED <<sess, opened, factorVars, ceremonyVars, going>> /\ NoProof

\* Registration locks the account row: whether it had a second factor is of
\* the snapshot.
RegistrationStatement(b) ==
    /\ At(b, "register", "begun")
    /\ Reach(b, [kind |-> "register", at |-> "waiting", sid |-> job[b].sid, n |-> job[b].n,
                 had |-> HasSecondFactor])
    /\ UNCHANGED <<sess, opened, factorVars, ceremonyVars, going>> /\ NoProof
FinishRegistration(b) ==
    /\ At(b, "register", "waiting")
    /\ LET s == job[b].sid
           gone == IF job[b].had THEN {} ELSE SessionRows \ {s}
       IN  /\ AllFree(gone \cup {s})
           /\ passkeys' = passkeys \cup {job[b].n}
           /\ sess' = IF s \in SessionRows
                      THEN [Without(gone) EXCEPT ![s] = Proved(sess[s])]
                      ELSE Without(gone)
    /\ Accept({<<"challenge", job[b].n>>})
    /\ End(b)
    /\ UNCHANGED <<user, totp, recovery, link, stored, opened, ceremonyVars, going>>

CompletePasskeyTwoFactor(b, p) ==
    /\ At(b, "second_factor", "begun")
    /\ RowFree(job[b].sid) /\ LockPendingSession(job[b].sid, job[b].tok) /\ p \in passkeys
    /\ ElevatePendingSession(job[b].sid)
    /\ Accept({<<"challenge", job[b].n>>})
    /\ End(b)
    /\ UNCHANGED <<factorVars, opened, ceremonyVars, going>>

CompletePasskeySignIn(b, p, cookie) ==
    /\ At(b, "sign_in", "begun")
    /\ p \in passkeys /\ ~user.disabled
    /\ Accept({<<"challenge", job[b].n>>})
    /\ Reach(b, [kind |-> "sign_in", at |-> "verified", cred |-> p, cookie |-> cookie])
    /\ UNCHANGED <<sess, factorVars, opened, ceremonyVars, going>>

\* The session's foreign key: the passkey may have been removed meanwhile.
PasskeyStillThere(p) == p \in passkeys
OpenPasskeySession(b) ==
    /\ At(b, "sign_in", "verified")
    /\ LET gone == ReplacedBy(job[b].cookie[1], job[b].cookie[2])
       IN  /\ AllFree(gone)
           /\ IF PasskeyStillThere(job[b].cred)
              THEN Opens(Without(gone), "mfa", "passkey", job[b].cred, TRUE)
              ELSE sess' = Without(gone) /\ opened' = opened
    /\ End(b)
    /\ UNCHANGED <<factorVars, ceremonyVars, going>> /\ NoProof

BeginDeletePasskey(b, s, p) ==
    /\ "delete_passkey" \in going /\ s \in SessionRows /\ UsableSignIn(s) /\ p \in passkeys
    /\ Start(b, [kind |-> "delete_passkey", at |-> "begun", cred |-> p, code |-> None])
    /\ UNCHANGED <<sess, opened, factorVars, ceremonyVars, going>> /\ NoProof
DeletePasskey(b) ==
    /\ At(b, "delete_passkey", "waiting")
    /\ LET p == job[b].cred
           bound == {s \in SessionRows : sess[s].method = "passkey" /\ sess[s].cred = p}
       IN  IF ~RemovalBreaksOwnerSsoRule(job[b].snap) /\ p \in passkeys
           THEN AllFree(bound) /\ passkeys' = passkeys \ {p} /\ sess' = Without(bound)
           ELSE UNCHANGED <<passkeys, sess>>
    /\ End(b)
    /\ UNCHANGED <<user, totp, recovery, link, stored, opened, ceremonyVars, going>> /\ NoProof

-----------------------------------------------------------------------------
(* Single sign-on. The provider and the identity it proves are external; a *)
(* flow is the state of one redirect, consumed by one callback.            *)

OwnerNeedsSecondFactor(role, factor) == role = "owner" /\ ~factor

StartSsoFlow(purpose, s) ==
    /\ purpose \in going /\ stored < MaxFactors
    /\ CASE purpose = "sso_link" -> /\ s \in SessionRows /\ UsableSignIn(s) /\ ~HasSsoLink
                                    /\ ~OwnerNeedsSecondFactor(user.role, HasSecondFactor)
         [] OTHER -> s = None
    /\ stored' = stored + 1
    /\ flow' = flow \cup {[purpose |-> purpose, sid |-> s, n |-> stored + 1]}
    /\ UNCHANGED <<user, totp, recovery, passkeys, link, sess, opened, challenge, job, going>>
    /\ NoProof

ConsumeState(f) == flow \ {f}

\* The link callback: the browser's session is the one that began the flow.
FinishSsoLinkCallback(b, f) ==
    /\ f.purpose = "sso_link"
    /\ flow' = ConsumeState(f)
    /\ f.sid \in SessionRows /\ UsableSignIn(f.sid)
    /\ Start(b, [kind |-> "link", at |-> "begun", sid |-> f.sid, n |-> f.n])
    /\ UNCHANGED <<sess, opened, factorVars, challenge, going>> /\ NoProof
LinkStatement(b) ==
    /\ At(b, "link", "begun")
    /\ Reach(b, [kind |-> "link", at |-> "waiting", sid |-> job[b].sid, n |-> job[b].n,
                 factor |-> HasSecondFactor])
    /\ UNCHANGED <<sess, opened, factorVars, ceremonyVars, going>> /\ NoProof
LinkSsoIdentity(b) ==
    /\ At(b, "link", "waiting")
    /\ LET s == job[b].sid
       IN  IF /\ s \in SessionRows /\ UsableSignIn(s)
              /\ ~OwnerNeedsSecondFactor(user.role, job[b].factor)
              /\ ~HasSsoLink
           THEN RowFree(s) /\ link' = job[b].n /\ Accept({<<"flow", job[b].n>>})
           ELSE NoProof /\ UNCHANGED link
    /\ End(b)
    /\ UNCHANGED <<user, totp, recovery, passkeys, stored, sess, opened, ceremonyVars, going>>

UnlinkSsoIdentity(s) ==
    /\ "unlink" \in going /\ LinkFree /\ s \in SessionRows /\ UsableSignIn(s) /\ HasSsoLink
    /\ LET bound == {t \in SessionRows : sess[t].method = "oauth"}
       IN  AllFree(bound) /\ sess' = Without(bound)
    /\ link' = None
    /\ UNCHANGED <<user, totp, recovery, passkeys, stored, opened, ceremonyVars, job, going>>
    /\ NoProof

SsoSignInAllowed(role, factor) == ~user.disabled /\ ~OwnerNeedsSecondFactor(role, factor)
SsoAutoLinkAllowed == /\ ~user.disabled /\ user.role = "member"
                      /\ ~HasSecondFactor /\ ~HasSsoLink

\* The sign-in callback: the state is consumed, the identity resolved.
FinishSsoSignInCallback(b, f, cookie) ==
    /\ f.purpose = "sso_login"
    /\ flow' = ConsumeState(f)
    /\ \/ HasSsoLink /\ SsoSignInAllowed(user.role, HasSecondFactor)
       \/ ~HasSsoLink /\ "auto_link" \in going /\ SsoAutoLinkAllowed
    /\ Start(b, [kind |-> "sso", at |-> "begun", linked |-> HasSsoLink, n |-> f.n,
                 cookie |-> cookie])
    /\ UNCHANGED <<sess, opened, factorVars, challenge, going>> /\ NoProof

\* The presented session ends, then the transaction decides again on the
\* rows its statement reads: it locks the link, not the account.
OpenSsoStatement(b) ==
    /\ At(b, "sso", "begun") /\ job[b].linked
    /\ LET gone == ReplacedBy(job[b].cookie[1], job[b].cookie[2])
       IN  AllFree(gone) /\ sess' = Without(gone)
    /\ IF HasSsoLink /\ SsoSignInAllowed(user.role, HasSecondFactor)
       THEN Reach(b, [kind |-> "sso", at |-> "opening", n |-> job[b].n,
                      assurance |-> FirstFactorAssurance(HasSecondFactor)])
       ELSE End(b)
    /\ UNCHANGED <<opened, factorVars, ceremonyVars, going>> /\ NoProof
OpenSsoSession(b) ==
    /\ At(b, "sso", "opening")
    /\ Opens(sess, job[b].assurance, "oauth", link, FALSE)
    /\ Accept({<<"flow", job[b].n>>})
    /\ End(b)
    /\ UNCHANGED <<factorVars, ceremonyVars, going>>

\* Linking by verified address locks the account row in a statement of its
\* own, so what it reads next is current.
AutoLinkSsoIdentity(b) ==
    /\ At(b, "sso", "begun") /\ ~job[b].linked
    /\ LET gone == ReplacedBy(job[b].cookie[1], job[b].cookie[2])
       IN  /\ AllFree(gone)
           /\ IF SsoAutoLinkAllowed
              THEN /\ link' = job[b].n
                   /\ Opens(Without(gone), FirstFactorAssurance(FALSE), "oauth", job[b].n, FALSE)
                   /\ Accept({<<"flow", job[b].n>>})
              ELSE sess' = Without(gone) /\ UNCHANGED <<link, opened>> /\ NoProof
    /\ End(b)
    /\ UNCHANGED <<user, totp, recovery, passkeys, stored, ceremonyVars, going>>

-----------------------------------------------------------------------------
(* What others do to the account.                                          *)

\* A completed reset link: factors, links and sessions go, one session opens.
CompleteReset ==
    /\ "reset" \in going /\ LinkFree /\ ~user.disabled /\ AllFree(SessionRows)
    /\ totp' = NoTotp /\ recovery' = {} /\ passkeys' = {} /\ link' = None
    /\ Opens([s \in Ids |-> NoSession], "password", "password", None, FALSE)
    /\ UNCHANGED <<user, stored, ceremonyVars, job, going>> /\ NoProof

\* Ownership is transferred to the account: the locked row first, then a
\* statement of its own.
SsoLinkWithoutSecondFactor == HasSsoLink /\ ~HasSecondFactor
BecomeOwner ==
    /\ "transfer" \in going /\ user.role = "admin" /\ ~user.disabled
    /\ ~SsoLinkWithoutSecondFactor
    /\ user' = [user EXCEPT !.role = "owner"]
    /\ UNCHANGED <<totp, recovery, passkeys, link, stored, sess, opened, ceremonyVars, job, going>>
    /\ NoProof

\* Deactivated (its sessions end) and reactivated (those opened since end).
SetDisabled(disabled) ==
    /\ "deactivate" \in going /\ user.role # "owner" /\ user.disabled # disabled
    /\ AllFree(SessionRows)
    /\ user' = [user EXCEPT !.disabled = disabled]
    /\ sess' = Without(SessionRows)
    /\ UNCHANGED <<totp, recovery, passkeys, link, stored, opened, ceremonyVars, job, going>>
    /\ NoProof

-----------------------------------------------------------------------------
SessionPages ==
    \/ \E b \in Browsers, s \in Ids, n \in 0..MaxRotations : FindActiveSession(b, s, n)
    \/ \E b \in Browsers : WithSessionGuard(b)
    \/ \E s \in Ids : GraceEnds(s) \/ RevokeSession(s)
LoginTwoFactorPages ==
    \/ \E b \in Browsers, cookie \in Cookies : VerifyLogin(b, cookie)
    \/ \E b \in Browsers, s \in Ids, c \in TypedCodes :
         FindPendingSession(b, s, c) \/ DisableTwoFactor(b, s, c)
    \/ \E b \in Browsers : \/ OpenPasswordSession(b) \/ BeginTwoFactorLogin(b)
                           \/ CompleteTwoFactorLogin(b) \/ EndLockedSecondStep(b)
                           \/ RemovalStatement(b) \/ FinishDisable(b)
TwoFactorPages ==
    \/ \E s \in Ids : StartEnrolment(s)
    \/ \E b \in Browsers, s \in Ids : ConfirmEnrolment(b, s)
    \/ \E b \in Browsers, n \in 1..MaxSteps : FinishEnrolment(b, n)
    \/ \E s \in Ids, c \in TypedCodes : RegenerateRecoveryCodes(s, c)
PasskeyPages ==
    \/ \E purpose \in Purposes, s \in 0..MaxSessions : StartCeremony(purpose, s)
    \/ \E b \in Browsers, purpose \in Purposes, s \in 0..MaxSessions :
         TakeForCeremony(b, purpose, s)
    \/ \E b \in Browsers : \/ Rejected(b) \/ RegistrationStatement(b)
                           \/ FinishRegistration(b) \/ OpenPasskeySession(b)
                           \/ DeletePasskey(b)
    \/ \E b \in Browsers, p \in Credentials : CompletePasskeyTwoFactor(b, p)
    \/ \E b \in Browsers, p \in Credentials, cookie \in Cookies :
         CompletePasskeySignIn(b, p, cookie)
    \/ \E b \in Browsers, s \in Ids, p \in Credentials : BeginDeletePasskey(b, s, p)
SsoPages ==
    \/ \E purpose \in FlowPurposes, s \in 0..MaxSessions : StartSsoFlow(purpose, s)
    \/ \E b \in Browsers, f \in flow : FinishSsoLinkCallback(b, f)
    \/ \E b \in Browsers, f \in flow, cookie \in Cookies :
         FinishSsoSignInCallback(b, f, cookie)
    \/ \E b \in Browsers : \/ LinkStatement(b) \/ LinkSsoIdentity(b)
                           \/ OpenSsoStatement(b) \/ OpenSsoSession(b)
                           \/ AutoLinkSsoIdentity(b)
    \/ \E s \in Ids : UnlinkSsoIdentity(s)
OthersStep == CompleteReset \/ BecomeOwner \/ \E d \in BOOLEAN : SetDisabled(d)

SignInNext ==
    \/ SessionPages \/ LoginTwoFactorPages \/ TwoFactorPages
    \/ PasskeyPages \/ SsoPages \/ OthersStep

SignInSpec == SignInInit /\ [][SignInNext]_signInVars

-----------------------------------------------------------------------------
(* Properties.                                                             *)

\* Every row and every request in flight has its type.
SignInTypeOK ==
    /\ user \in [role : SignInRoles, disabled : BOOLEAN]
    /\ totp \in [id : 0..MaxFactors, step : 0..MaxSteps]
    /\ recovery \subseteq Credentials /\ passkeys \subseteq Credentials
    /\ link \in 0..MaxFactors
    /\ sess \in [Ids -> SessionRecord \cup {NoSession}]
    /\ opened \in 0..MaxSessions /\ stored \in 0..MaxFactors
    /\ challenge \subseteq [purpose : Purposes, binding : 0..MaxSessions, n : Credentials]
    /\ flow \subseteq [purpose : FlowPurposes, sid : 0..MaxSessions, n : Credentials]

\* A one-time proof is accepted once: a code of the authenticator app (its
\* step, whichever sessions or forms present it), a recovery code, a passkey
\* challenge and the state of a single sign-on redirect, however requests
\* that present it interleave (matchSecondFactor's compare-and-swap, the
\* challenge store's take, the replay store's consume).
ProofUsedOnce == twice = {}

\* While the account has a second factor, a session that opens the dashboard
\* proved one, even when a login checked the password, or a single sign-on
\* read the account, just before the factor was enrolled (liveSession).
FactorGuardsSessions ==
    \A s \in SessionRows : UsableSignIn(s) /\ HasSecondFactor => sess[s].proved

\* A session opened by a passkey or a link never outlives it: removing the
\* credential ends its sessions, and a sign-in that was past its check when
\* the credential was removed opens none.
SessionHasItsCredential ==
    \A s \in SessionRows : /\ sess[s].method = "passkey" => sess[s].cred \in passkeys
                           /\ sess[s].method = "oauth" => sess[s].cred = link

\* A token the guard has handed out and that was never presented is the
\* session's current one: requests that present one token at the same time
\* rotate it once, so no browser is left with a token nobody can use.
FreshTokenIsCurrent ==
    \A s \in SessionRows : \A n \in 0..sess[s].token :
       n \notin sess[s].seen => n = sess[s].token

\* The owner rule of single sign-on: an owner with a link always has a second
\* factor (sso-owner-rule.service.ts; linking, removing a factor and
\* transferring ownership each check it).
OwnerSsoRule == user.role = "owner" /\ HasSsoLink => HasSecondFactor

\* Single sign-on alone never opens the owner's dashboard: a usable session
\* that a link opened has proved a second factor ("never becomes a one-factor
\* way into the owner account", sso-owner-rule.service.ts).
SsoAloneNeverOwner ==
    \A s \in SessionRows :
       UsableSignIn(s) /\ user.role = "owner" /\ sess[s].method = "oauth" => sess[s].proved

\* A usable session has earned what it shows, whatever factors, links, roles
\* and tokens changed while it was being opened; single sign-on alone is kept
\* out of the owner's dashboard by the owner rule.
SessionsAreEarned ==
    /\ SignInTypeOK /\ FactorGuardsSessions
    /\ SessionHasItsCredential /\ FreshTokenIsCurrent
    /\ OwnerSsoRule => SsoAloneNeverOwner
=============================================================================
