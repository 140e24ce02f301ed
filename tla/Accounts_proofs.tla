--------------------------- MODULE Accounts_proofs ---------------------------
(***************************************************************************)
(* Proofs about the accounts, for any number of people, requests in flight *)
(* and links: exactly one active owner, rights that follow the account as  *)
(* it is now, and changes made only on a proof that holds at that moment.  *)
(***************************************************************************)
EXTENDS Accounts, FiniteSetTheorems, TLAPS

-----------------------------------------------------------------------------
(* The inductive invariant.                                                *)

\* What a handler kept is what its transaction needs.
RequestsAreWhole ==
    \A r \in Requests :
        /\ req[r].kind \in {"change_role", "invite", "resend"} => req[r].asked \in InviteRoles
        /\ req[r].kind = "login" => req[r].cred # NoPassword

IsOwner(p) == Exists(p) /\ account[p].role = "owner"
SoleOwner(o) == Active(o) /\ \A p \in People : IsOwner(p) <=> p = o

\* Nobody has an account, or one active account is the owner.
OwnerKept == (\A p \in People : ~Exists(p)) \/ (\E o \in People : SoleOwner(o))

\* Someone has set a password: until then there is only the owner and nothing
\* else has happened, and from then on every account has one.
Claimed == \E p \in People : HasPassword(p)
ClaimedKept ==
    /\ Claimed => \A p \in People : Exists(p) => HasPassword(p)
    /\ ~Claimed => /\ session = {}
                   /\ \A r \in Requests : req[r] = NoReq
                   /\ \A p \in People : /\ invite[p] = NoToken /\ reset[p] = NoToken
                                        /\ key[p] = NoApiKey
                                        /\ Exists(p) => account[p].role = "owner"

\* Every session is of an account and of its password, and one opened while the
\* account was disabled has not outlived that.
SessionsKept ==
    \A s \in session : /\ Exists(s.who) /\ s.cred = account[s.who].cred
                       /\ s.whileDisabled => account[s.who].disabled

\* A reset link is usable unless its issuer is gone; the setup link is the owner's.
ResetsKept ==
    \A p \in People : reset[p] # NoToken => reset[p].by = Nobody \/ IssuerStillManages(p)
SetupKept == setup # NoToken => LiveOwnerSetup(setup.who)

\* The rows, without the numbers of the links.
Sound == /\ AccountsTypeOK /\ RequestsAreWhole
         /\ OwnerKept /\ ClaimedKept /\ SessionsKept /\ CreatedAdminKeysFollowRole
         /\ ResetsKept /\ SetupKept

\* No two open links share a number.
Distinct ==
    /\ \A p \in People : invite[p].n <= minted /\ reset[p].n <= minted
    /\ setup.n <= minted
    /\ \A p, q \in People :
         /\ invite[p] # NoToken /\ invite[p].n = invite[q].n => p = q
         /\ reset[p] # NoToken /\ reset[p].n = reset[q].n => p = q
         /\ invite[p] # NoToken => invite[p].n # reset[q].n
    /\ setup # NoToken => \A p \in People : setup.n \notin {invite[p].n, reset[p].n}

\* Only a reset link whose issuer was removed stays open without being usable.
LapsedKept ==
    \A n \in lapsed : \E p \in People : reset[p] # NoToken /\ reset[p].n = n /\ reset[p].by = Nobody

AccountsKept == Sound /\ Distinct /\ LapsedKept

-----------------------------------------------------------------------------
(* What a step does to the links.                                          *)

InviteStays(p) == invite'[p] \in {invite[p], NoToken}
ResetStays(p) ==
    \/ reset'[p] \in {reset[p], NoToken}
    \/ reset[p] # NoToken /\ reset'[p] = [n |-> reset[p].n, by |-> Nobody]
SetupStays == setup' \in {setup, NoToken}

\* Links stay, are closed or lose their issuer; at most one is opened, with the
\* next number.
LinkStep ==
    \/ /\ minted' = minted /\ SetupStays
       /\ \A p \in People : InviteStays(p) /\ ResetStays(p)
    \/ /\ minted' = minted + 1 /\ setup'.n = minted + 1
       /\ \A p \in People : InviteStays(p) /\ ResetStays(p)
    \/ /\ minted' = minted + 1 /\ SetupStays
       /\ \A p \in People : ResetStays(p)
       /\ \E q \in People : /\ invite'[q].n = minted + 1
                            /\ \A p \in People : p # q => InviteStays(p)
    \/ /\ minted' = minted + 1 /\ SetupStays
       /\ \A p \in People : InviteStays(p)
       /\ \E q \in People : /\ reset'[q].n = minted + 1
                            /\ \A p \in People : p # q => ResetStays(p)

\* An invitation that stays open stays acceptable.
InvitesHold ==
    \A p \in People : AcceptableInvite(p) /\ invite'[p] = invite[p] => AcceptableInvite(p)'

\* What every step is shown to keep.
Kept == Sound' /\ LinkStep /\ InvitesHold

-----------------------------------------------------------------------------
(* Facts about the rows.                                                   *)

\* Whom each role may hand out.
LEMMA Grants ==
    /\ GrantableRoles("owner") = {"admin", "member"}
    /\ GrantableRoles("admin") = {"member"}
    /\ GrantableRoles("member") = {}
  BY DEF GrantableRoles

\* The columns of a row, a link and a request.
LEMMA Columns ==
    ASSUME AccountsTypeOK, NEW p \in People
    PROVE  /\ Exists(p) <=> account[p] \in UserRow
           /\ Exists(p) => /\ account[p].id \in 1..MaxCredentials
                           /\ account[p].role \in UserRoles
                           /\ account[p].disabled \in BOOLEAN
                           /\ account[p].cred \in 0..MaxCredentials
           /\ invite[p] # NoToken => /\ invite[p] \in InviteToken
                                     /\ invite[p].n \in 1..MaxTokens
                                     /\ invite[p].role \in InviteRoles
                                     /\ invite[p].by \in People \cup {Nobody}
           /\ reset[p] # NoToken => /\ reset[p] \in ResetToken
                                    /\ reset[p].n \in 1..MaxTokens
                                    /\ reset[p].by \in People \cup {Nobody}
           /\ key[p] \in ApiKey
           /\ used[p] \in 0..MaxCredentials
  <1>1. account[p] \in UserRow \cup {NoAccount} /\ (account[p] \in UserRow => account[p] # NoAccount)
    <2>1. \A u \in UserRow : u.id # 0
      BY AccountConstants DEF UserRow
    <2>2. NoAccount.id = 0
      BY DEF NoAccount
    <2> QED BY <2>1, <2>2 DEF AccountsTypeOK
  <1>2. account[p] \in UserRow => /\ account[p].id \in 1..MaxCredentials
                                  /\ account[p].role \in UserRoles
                                  /\ account[p].disabled \in BOOLEAN
                                  /\ account[p].cred \in 0..MaxCredentials
    BY DEF UserRow
  <1>3. invite[p] # NoToken => /\ invite[p] \in InviteToken
                               /\ invite[p].n \in 1..MaxTokens
                               /\ invite[p].role \in InviteRoles
                               /\ invite[p].by \in People \cup {Nobody}
    BY DEF AccountsTypeOK, InviteToken
  <1>4. reset[p] # NoToken => /\ reset[p] \in ResetToken
                              /\ reset[p].n \in 1..MaxTokens
                              /\ reset[p].by \in People \cup {Nobody}
    BY DEF AccountsTypeOK, ResetToken
  <1>5. key[p] \in ApiKey /\ used[p] \in 0..MaxCredentials
    BY DEF AccountsTypeOK
  <1> QED BY <1>1, <1>2, <1>3, <1>4, <1>5 DEF Exists

\* The columns of a request in progress.
LEMMA RequestColumns ==
    ASSUME AccountsTypeOK, NEW r \in Requests, req[r].kind # "none"
    PROVE  /\ req[r] \in Request
           /\ req[r].who \in People /\ req[r].target \in People
           /\ req[r].id \in 1..MaxCredentials /\ req[r].cred \in 0..MaxCredentials
  BY DEF AccountsTypeOK, Request, NoReq

\* A row of the users table is not the absence of one.
LEMMA RealRow ==
    \A u \in UserRow : u # NoAccount /\ u.disabled \in BOOLEAN /\ u.cred \in 0..MaxCredentials
  <1>1. \A u \in UserRow : u.id # 0
    BY AccountConstants DEF UserRow
  <1>2. NoAccount.id = 0
    BY DEF NoAccount
  <1> QED BY <1>1, <1>2 DEF UserRow

\* A request that ends leaves the others as they were.
LEMMA DoneKeeps ==
    ASSUME AccountsTypeOK, RequestsAreWhole, NEW r \in Requests, Done(r)
    PROVE  /\ req' \in [Requests -> Request \cup {NoReq}]
           /\ RequestsAreWhole'
           /\ \A x \in Requests : req'[x] \in {req[x], NoReq}
  BY DEF AccountsTypeOK, RequestsAreWhole, Done, NoReq

\* A request in flight, a session, an invitation, a reset link, an API key: each
\* needs an account with a password.
LEMMA SomeoneActed ==
    ASSUME Sound
    PROVE  /\ \A r \in Requests : req[r].kind # "none" => Claimed
           /\ \A s \in session : Claimed
           /\ \A p \in People : invite[p] # NoToken \/ reset[p] # NoToken \/ key[p] # NoApiKey => Claimed
  BY DEF Sound, ClaimedKept, NoReq

\* The parts that only look at the accounts stay when the accounts do.
LEMMA SameAccounts ==
    ASSUME Sound, account' = account
    PROVE  /\ OwnerKept' /\ (Claimed' <=> Claimed)
           /\ \A p \in People : Exists(p) => HasPassword(p) \/ ~Claimed
           /\ \A p : Exists(p)' = Exists(p) /\ Active(p)' = Active(p)
           /\ \A p : HasPassword(p)' = HasPassword(p)
           /\ \A p \in People : invite'[p] = invite[p] => AcceptableInvite(p)' = AcceptableInvite(p)
  <1>1. \A p : Exists(p)' = Exists(p) /\ Active(p)' = Active(p) /\ HasPassword(p)' = HasPassword(p)
    BY DEF Exists, Active, HasPassword
  <1>2. OwnerKept' /\ (Claimed' <=> Claimed)
    BY <1>1 DEF Sound, OwnerKept, SoleOwner, IsOwner, Claimed
  <1>3. \A p \in People : invite'[p] = invite[p] => AcceptableInvite(p)' = AcceptableInvite(p)
    BY <1>1 DEF AcceptableInvite, InviterStillGrants
  <1> QED BY <1>1, <1>2, <1>3 DEF Sound, ClaimedKept

-----------------------------------------------------------------------------
(* Requests that begin, or end without a change.                           *)

\* Steps that change requests only.
LEMMA QuietKept ==
    ASSUME Sound, Quiet, req' \in [Requests -> Request \cup {NoReq}], RequestsAreWhole',
           Claimed \/ \A r \in Requests : req'[r] = NoReq
    PROVE  Kept
  <1>1. account' = account /\ UNCHANGED <<used, invite, reset, setup, session, key, content, minted>>
    BY DEF Quiet
  <1>2. AccountsTypeOK'
    BY <1>1 DEF Sound, AccountsTypeOK
  <1>3. ClaimedKept'
    BY <1>1, SameAccounts DEF Sound, ClaimedKept
  <1>4. SessionsKept' /\ CreatedAdminKeysFollowRole'
    BY <1>1, SameAccounts DEF Sound, SessionsKept, CreatedAdminKeysFollowRole
  <1>5. ResetsKept' /\ SetupKept'
    BY <1>1, SameAccounts DEF Sound, ResetsKept, SetupKept, IssuerStillManages, LiveOwnerSetup
  <1>6. LinkStep /\ InvitesHold
    BY <1>1, SameAccounts DEF LinkStep, InviteStays, ResetStays, SetupStays, InvitesHold
  <1> QED BY <1>1, <1>2, <1>3, <1>4, <1>5, <1>6, SameAccounts DEF Kept, Sound

\* A request that is refused changes nothing else.
LEMMA RefusedKept ==
    ASSUME Sound, NEW r \in Requests, Refused(r)
    PROVE  Kept
  <1>1. req' \in [Requests -> Request \cup {NoReq}] /\ RequestsAreWhole'
    BY DoneKeeps DEF Sound, Refused
  <1>2. Claimed \/ \A x \in Requests : req'[x] = NoReq
    BY DoneKeeps DEF Sound, Refused, ClaimedKept
  <1> QED BY <1>1, <1>2, QuietKept DEF Refused

\* A request begins: it has its fields, and its caller has a session or a password.
LEMMA BegunKept ==
    ASSUME Sound, NEW r \in Requests, NEW q \in Request, Claimed, Quiet,
           q.kind \in {"change_role", "invite", "resend"} => q.asked \in InviteRoles,
           q.kind = "login" => q.cred # NoPassword,
           req' = [req EXCEPT ![r] = q]
    PROVE  Kept
  <1>1. req' \in [Requests -> Request \cup {NoReq}]
    BY DEF Sound, AccountsTypeOK
  <1>2. RequestsAreWhole'
    BY DEF Sound, AccountsTypeOK, RequestsAreWhole
  <1> QED BY <1>1, <1>2, QuietKept

\* The fields of a request as the session guard fills them.
LEMMA AskColumns ==
    ASSUME AccountsTypeOK, NEW a \in People, NEW t \in People, NEW k \in RequestKinds, Exists(a)
    PROVE  /\ Ask(k, a, t) \in Request
           /\ Ask(k, a, t).kind = k /\ Ask(k, a, t).who = a
  <1>1. account[a].id \in 1..MaxCredentials
    BY Columns
  <1>2. 0 \in 0..MaxTokens /\ NoPassword \in 0..MaxCredentials
    BY AccountConstants DEF NoPassword
  <1> QED BY <1>1, <1>2 DEF Ask, Request

\* A request that begins has read a usable session.
LEMMA BeginKept ==
    ASSUME Sound, NEW r \in Requests, NEW q \in Request, BeginRequest(r, q),
           q.kind \in {"change_role", "invite", "resend"} => q.asked \in InviteRoles,
           q.kind # "login"
    PROVE  Kept
  <1>1. Quiet /\ req' = [req EXCEPT ![r] = q] /\ UsableSession(q.who)
    BY DEF BeginRequest
  <1>2. Claimed
    BY <1>1, SomeoneActed DEF UsableSession
  <1> QED BY <1>1, <1>2, BegunKept

\* A login that begins has read the password in force.
LEMMA LoginBegunKept ==
    ASSUME Sound, NEW r \in Requests, NEW p \in People, VerifyPasswordLogin(r, p)
    PROVE  Kept
  <1> DEFINE q == [Ask("login", p, p) EXCEPT !.cred = account[p].cred]
  <1>1. Quiet /\ req' = [req EXCEPT ![r] = q] /\ HasPassword(p) /\ Exists(p)
    BY DEF VerifyPasswordLogin, HasPassword
  <1>2. Ask("login", p, p) \in Request /\ Ask("login", p, p).kind = "login"
    BY <1>1, AskColumns DEF Sound, RequestKinds
  <1>3. account[p].cred \in 0..MaxCredentials /\ account[p].cred # NoPassword
    BY <1>1, Columns DEF Sound, HasPassword
  <1>4. q \in Request /\ q.kind = "login" /\ q.cred # NoPassword
    BY <1>2, <1>3 DEF Request
  <1>5. Claimed
    BY <1>1 DEF Claimed
  <1> HIDE DEF q
  <1> QED BY <1>1, <1>4, <1>5, BegunKept

-----------------------------------------------------------------------------
(* Account administration.                                                 *)

\* The row of one account changes, and the account is not the owner's.
LEMMA RowChanged ==
    ASSUME Sound, Claimed, NEW t \in People, ~IsOwner(t), NEW u,
           u = NoAccount \/ (u \in UserRow /\ u.role # "owner" /\ u.cred # NoPassword),
           account' = [account EXCEPT ![t] = u]
    PROVE  /\ account' \in [People -> UserRow \cup {NoAccount}]
           /\ account'[t] = u /\ \A p \in People : p # t => account'[p] = account[p]
           /\ OwnerKept' /\ Claimed'
           /\ \A p \in People : Exists(p)' => HasPassword(p)'
  <1>1. /\ account' \in [People -> UserRow \cup {NoAccount}]
        /\ account'[t] = u /\ \A p \in People : p # t => account'[p] = account[p]
    BY DEF Sound, AccountsTypeOK
  <1>2. \A p \in People : p # t => /\ Exists(p)' = Exists(p) /\ Active(p)' = Active(p)
                                   /\ HasPassword(p)' = HasPassword(p)
                                   /\ IsOwner(p)' = IsOwner(p)
    BY <1>1 DEF Exists, Active, HasPassword, IsOwner
  <1>3. PICK o \in People : SoleOwner(o)
    BY DEF Sound, OwnerKept, Claimed, HasPassword
  <1>4. o # t
    BY <1>3 DEF SoleOwner
  <1>5. ~IsOwner(t)'
    BY <1>1 DEF IsOwner, Exists
  <1>6. SoleOwner(o)'
    BY <1>2, <1>3, <1>4, <1>5 DEF SoleOwner
  <1>7. Exists(t)' => HasPassword(t)'
    BY <1>1 DEF Exists, HasPassword
  <1>8. \A p \in People : Exists(p) => HasPassword(p)
    BY DEF Sound, ClaimedKept
  <1>9. Claimed'
    BY <1>2, <1>3, <1>4, <1>8 DEF Claimed, SoleOwner, Active
  <1> QED BY <1>1, <1>2, <1>6, <1>7, <1>8, <1>9 DEF OwnerKept

\* What does not mention the account whose row changed stays; its sessions stay
\* when it keeps its password and is not enabled.
LEMMA OthersKept ==
    ASSUME Sound, NEW t \in People, NEW u,
           account'[t] = u, \A p \in People : p # t => account'[p] = account[p]
    PROVE  /\ \A p \in People : p # t => /\ Exists(p)' = Exists(p) /\ Active(p)' = Active(p)
                                         /\ HasPassword(p)' = HasPassword(p)
           /\ \A p \in People :
                 AcceptableInvite(p) /\ invite'[p] = invite[p] /\ invite[p].by # t
                    => AcceptableInvite(p)'
           /\ \A p \in People :
                 p # t /\ IssuerStillManages(p) /\ reset'[p] = reset[p] /\ reset[p] # NoToken
                   /\ reset[p].by # t
                    => IssuerStillManages(p)'
           /\ (setup' \in {setup, NoToken} /\ ~IsOwner(t)) => SetupKept'
           /\ (session' \subseteq session
                 /\ \/ \A s \in session' : s.who # t
                    \/ /\ u \in UserRow /\ u.cred = account[t].cred
                       /\ account[t].disabled => u.disabled)
              => SessionsKept' /\ session' \subseteq SessionRow
           /\ ((\A p \in People : p # t => key'[p] = key[p])
                 /\ (key'[t].active /\ key'[t].admin /\ key'[t].via = "create"
                        => Active(t)' /\ ManagesAllKeys(u.role)))
              => CreatedAdminKeysFollowRole'
  <1>1. \A p \in People : p # t => /\ Exists(p)' = Exists(p) /\ Active(p)' = Active(p)
                                   /\ HasPassword(p)' = HasPassword(p)
    BY DEF Exists, Active, HasPassword
  <1>2. ASSUME NEW p \in People, AcceptableInvite(p), invite'[p] = invite[p], invite[p].by # t
        PROVE  AcceptableInvite(p)'
    <2>1. /\ invite[p] # NoToken /\ invite[p].by \in People /\ Active(invite[p].by)
          /\ invite[p].role \in GrantableRoles(account[invite[p].by].role)
      BY <1>2, Columns DEF AcceptableInvite, InviterStillGrants, Sound
    <2> QED BY <1>1, <1>2, <2>1 DEF AcceptableInvite, InviterStillGrants
  <1>3. ASSUME NEW p \in People, p # t, IssuerStillManages(p), reset'[p] = reset[p],
               reset[p] # NoToken, reset[p].by # t
        PROVE  IssuerStillManages(p)'
    <2>1. /\ reset[p].by # p /\ reset[p].by # Nobody /\ Active(reset[p].by) /\ Active(p)
          /\ CanManage(account[reset[p].by].role, account[p].role)
      BY <1>3 DEF IssuerStillManages
    <2>2. reset[p].by \in People
      BY <1>3, <2>1, Columns DEF Sound
    <2> QED BY <1>1, <1>3, <2>1, <2>2 DEF IssuerStillManages
  <1>4. ASSUME setup' \in {setup, NoToken}, ~IsOwner(t) PROVE SetupKept'
    <2> SUFFICES ASSUME setup # NoToken, setup' = setup PROVE LiveOwnerSetup(setup.who)'
      BY <1>4 DEF SetupKept
    <2>1. LiveOwnerSetup(setup.who) /\ setup.who \in People
      BY DEF Sound, SetupKept, AccountsTypeOK, SetupToken
    <2>2. setup.who # t
      BY <1>4, <2>1 DEF LiveOwnerSetup, IsOwner, Active
    <2> QED BY <1>1, <2>1, <2>2 DEF LiveOwnerSetup
  <1>5. ASSUME session' \subseteq session,
               \/ \A s \in session' : s.who # t
               \/ /\ u \in UserRow /\ u.cred = account[t].cred
                  /\ account[t].disabled => u.disabled
        PROVE  SessionsKept' /\ session' \subseteq SessionRow
    <2>1. ASSUME NEW s \in session'
          PROVE  /\ Exists(s.who)' /\ s.cred = account'[s.who].cred
                 /\ s.whileDisabled => account'[s.who].disabled
      <3>1. /\ s.who \in People /\ Exists(s.who) /\ s.cred = account[s.who].cred
            /\ s.whileDisabled => account[s.who].disabled
        BY <1>5, <2>1 DEF Sound, AccountsTypeOK, SessionsKept, SessionRow
      <3>2. CASE s.who # t
        BY <1>1, <3>1, <3>2
      <3>3. CASE s.who = t
        <4>1. /\ u \in UserRow /\ u.cred = account[t].cred
              /\ account[t].disabled => u.disabled
          BY <1>5, <2>1, <3>3
        <4>2. Exists(t)'
          BY <4>1, RealRow DEF Exists
        <4> QED BY <3>1, <3>3, <4>1, <4>2
      <3> QED BY <3>2, <3>3
    <2> QED BY <1>5, <2>1 DEF SessionsKept, Sound, AccountsTypeOK
  <1>6. ASSUME \A p \in People : p # t => key'[p] = key[p],
               key'[t].active /\ key'[t].admin /\ key'[t].via = "create"
                        => Active(t)' /\ ManagesAllKeys(u.role)
        PROVE  CreatedAdminKeysFollowRole'
    BY <1>1, <1>6 DEF Sound, CreatedAdminKeysFollowRole
  <1> QED BY <1>1, <1>2, <1>3, <1>4, <1>5, <1>6

\* What the check under the owner lock establishes.
LEMMA ActionFacts ==
    ASSUME Sound, NEW r \in Requests, NEW k \in AccountActions, RunAccountAction(r, k)
    PROVE  /\ req[r] \in Request /\ req[r].who \in People /\ req[r].target \in People
           /\ req[r].who # req[r].target
           /\ Active(req[r].who) /\ Exists(req[r].who) /\ Exists(req[r].target)
           /\ account[req[r].target].role \in InviteRoles /\ ~IsOwner(req[r].target)
           /\ account[req[r].target] \in UserRow
           /\ account[req[r].target].cred # NoPassword
           /\ Claimed
           /\ ActionAllowed(k, req[r].who, req[r].target)
  <1>1. /\ req[r].kind = k /\ Active(req[r].who) /\ Exists(req[r].target)
        /\ ActionAllowed(k, req[r].who, req[r].target)
    BY DEF RunAccountAction, Caller
  <1>2. k # "none"
    BY DEF AccountActions
  <1>3. req[r] \in Request /\ req[r].who \in People /\ req[r].target \in People
    BY <1>1, <1>2, RequestColumns DEF Sound
  <1>4. req[r].who # req[r].target /\ account[req[r].target].role # "owner"
    BY <1>1 DEF ActionAllowed
  <1>5. account[req[r].target].role \in InviteRoles /\ account[req[r].target] \in UserRow
    BY <1>1, <1>3, <1>4, Columns DEF Sound, UserRoles, InviteRoles
  <1>6. Claimed
    BY <1>1, <1>2, SomeoneActed
  <1>7. account[req[r].target].cred # NoPassword
    BY <1>1, <1>3, <1>6 DEF Sound, ClaimedKept, HasPassword
  <1> QED BY <1>1, <1>3, <1>4, <1>5, <1>6, <1>7 DEF Active, IsOwner

\* A change of role: what the old role had handed out goes with it.
LEMMA ChangeRoleKept ==
    ASSUME Sound, NEW r \in Requests, ChangeAccountRole(r),
           NEW t, t = req[r].target, NEW role, role = req[r].asked
    PROVE  Kept
  <1>1. /\ RunAccountAction(r, "change_role") /\ Done(r) /\ account[t].role # role
        /\ account' = [account EXCEPT ![t].role = role]
        /\ UNCHANGED <<used, setup, session, content, minted>>
        /\ role = "member" => /\ invite' = RevokeInvitesIssuedBy(t, InviteRoles)
                              /\ reset' = RevokeResetLinks(ResetLinksBy(t))
                              /\ key' = [key EXCEPT ![t].admin = FALSE]
        /\ role # "member" => reset' = RevokeResetLinks({t}) /\ UNCHANGED <<invite, key>>
    BY DEF ChangeAccountRole
  <1>2. /\ t \in People /\ Exists(t) /\ account[t].role \in InviteRoles /\ ~IsOwner(t)
        /\ account[t] \in UserRow /\ account[t].cred # NoPassword /\ Claimed
    BY <1>1, ActionFacts DEF AccountActions
  <1>3. role \in InviteRoles
    BY <1>1 DEF Sound, RequestsAreWhole, RunAccountAction, Caller
  <1>u. PICK u : u = [account[t] EXCEPT !.role = role]
    OBVIOUS
  <1>4. u \in UserRow /\ u.role = role /\ u.cred = account[t].cred /\ u.disabled = account[t].disabled
    BY <1>2, <1>3, <1>u DEF UserRow, InviteRoles, UserRoles
  <1>5. account' = [account EXCEPT ![t] = u]
    BY <1>1, <1>u
  <1>6. /\ account' \in [People -> UserRow \cup {NoAccount}]
        /\ account'[t] = u /\ \A p \in People : p # t => account'[p] = account[p]
        /\ OwnerKept' /\ Claimed'
        /\ \A p \in People : Exists(p)' => HasPassword(p)'
    BY <1>2, <1>3, <1>4, <1>5, RowChanged DEF InviteRoles
  <1>7. Active(t)' <=> Active(t)
    BY <1>2, <1>4, <1>6, RealRow DEF Exists, Active
  <1>8. /\ key' \in [People -> ApiKey]
        /\ \A p \in People : p # t => key'[p] = key[p]
        /\ role = "member" => ~key'[t].admin
        /\ role # "member" => key'[t] = key[t]
    <2>1. CASE role = "member"
      <3>1. key[t] \in ApiKey /\ key \in [People -> ApiKey]
        BY <1>2 DEF Sound, AccountsTypeOK
      <3>2. /\ key'[t] = [key[t] EXCEPT !.admin = FALSE] /\ key' = [key EXCEPT ![t] = key'[t]]
        BY <1>1, <1>2, <2>1, <3>1
      <3>3. key'[t] \in ApiKey /\ ~key'[t].admin
        BY <3>1, <3>2 DEF ApiKey
      <3> QED BY <1>2, <2>1, <3>1, <3>2, <3>3
    <2>2. CASE role # "member"
      BY <1>1, <2>2 DEF Sound, AccountsTypeOK
    <2> QED BY <2>1, <2>2
  <1>9. /\ \A p \in People : InviteStays(p) /\ ResetStays(p)
        /\ invite' \in [People -> InviteToken \cup {NoToken}]
        /\ reset' \in [People -> ResetToken \cup {NoToken}]
    BY <1>1 DEF RevokeInvitesIssuedBy, RevokeResetLinks, InviteStays, ResetStays, Sound, AccountsTypeOK
  <1>10. SessionsKept' /\ SetupKept'
    BY <1>1, <1>2, <1>4, <1>6, OthersKept
  <1>11. CreatedAdminKeysFollowRole'
    <2>1. key'[t].active /\ key'[t].admin /\ key'[t].via = "create"
            => Active(t)' /\ ManagesAllKeys(u.role)
      BY <1>2, <1>3, <1>4, <1>7, <1>8 DEF Sound, CreatedAdminKeysFollowRole, ManagesAllKeys, InviteRoles
    <2> QED BY <1>2, <1>6, <1>8, <2>1, OthersKept
  <1>12. InvitesHold
    <2> SUFFICES ASSUME NEW p \in People, AcceptableInvite(p), invite'[p] = invite[p]
                 PROVE  AcceptableInvite(p)'
      BY DEF InvitesHold
    <2>1. /\ invite[p] # NoToken /\ invite[p].role \in InviteRoles
          /\ invite[p].role \in GrantableRoles(account[invite[p].by].role)
      BY Columns DEF AcceptableInvite, InviterStillGrants, Sound
    <2>2. invite[p].by # t
      <3>1. CASE role = "member"
        BY <1>1, <2>1, <3>1 DEF RevokeInvitesIssuedBy
      <3>2. CASE role # "member"
        BY <1>1, <1>2, <1>3, <2>1, <3>2, Grants DEF InviteRoles
      <3> QED BY <3>1, <3>2
    <2> QED BY <1>2, <1>6, <2>2, OthersKept
  <1>13. ResetsKept'
    <2> SUFFICES ASSUME NEW p \in People, reset'[p] # NoToken, reset'[p].by # Nobody
                 PROVE  IssuerStillManages(p)'
      BY DEF ResetsKept
    <2>1. reset'[p] = reset[p]
      BY <1>1 DEF RevokeResetLinks
    <2>2. IssuerStillManages(p) /\ reset[p].by \in People
      BY <2>1, Columns DEF Sound, ResetsKept
    <2>3. /\ reset[p].by # p /\ Active(reset[p].by) /\ Active(p)
          /\ account[p].role \in GrantableRoles(account[reset[p].by].role)
      BY <2>2 DEF IssuerStillManages, CanManage
    <2>4. reset[p].by # t
      <3>1. CASE role = "member"
        BY <1>1, <2>1, <3>1 DEF RevokeResetLinks, ResetLinksBy
      <3>2. CASE role # "member"
        BY <1>1, <1>2, <1>3, <2>3, <3>2, Grants DEF InviteRoles
      <3> QED BY <3>1, <3>2
    <2>5. CASE p # t
      BY <1>2, <1>6, <2>1, <2>2, <2>4, <2>5, OthersKept
    <2>6. CASE p = t
      <3>1. role = "member"
        BY <1>1, <2>6 DEF RevokeResetLinks
      <3>2. account[t].role = "admin"
        BY <1>1, <1>2, <3>1 DEF InviteRoles
      <3>3. account[reset[p].by].role \in UserRoles
        BY <2>2, <2>3, Columns DEF Sound, Active
      <3>4. account[reset[p].by].role = "owner"
        BY <2>3, <2>6, <3>2, <3>3, Grants DEF UserRoles
      <3>5. account'[reset[p].by].role = "owner" /\ account'[p].role = "member"
        BY <1>4, <1>6, <2>2, <2>4, <2>6, <3>1, <3>4
      <3>6. Active(reset[p].by)'
        BY <1>2, <1>6, <2>1, <2>2, <2>3, <2>4, OthersKept
      <3> QED BY <1>7, <2>1, <2>2, <2>3, <2>6, <3>5, <3>6, Grants DEF IssuerStillManages, CanManage
    <2> QED BY <2>5, <2>6
  <1>14. AccountsTypeOK' /\ RequestsAreWhole'
    BY <1>1, <1>6, <1>8, <1>9, DoneKeeps DEF Sound, AccountsTypeOK
  <1>15. ClaimedKept'
    BY <1>6 DEF ClaimedKept
  <1>16. LinkStep
    BY <1>1, <1>9 DEF LinkStep, SetupStays
  <1> QED BY <1>6, <1>10, <1>11, <1>12, <1>13, <1>14, <1>15, <1>16 DEF Kept, Sound

\* A deactivation: sessions, keys and links go in the same transaction.
LEMMA DeactivateKept ==
    ASSUME Sound, NEW r \in Requests, DeactivateAccount(r), NEW t, t = req[r].target
    PROVE  Kept
  <1>1. /\ RunAccountAction(r, "deactivate") /\ Done(r)
        /\ account' = [account EXCEPT ![t].disabled = TRUE]
        /\ session' = SessionsExcept(t)
        /\ invite' = RevokeInvitesIssuedBy(t, InviteRoles)
        /\ reset' = RevokeResetLinks({t} \cup ResetLinksBy(t))
        /\ key' = [key EXCEPT ![t].active = FALSE]
        /\ UNCHANGED <<used, setup, content, minted>>
    BY DEF DeactivateAccount
  <1>2. /\ t \in People /\ account[t].role \in InviteRoles /\ ~IsOwner(t)
        /\ account[t] \in UserRow /\ account[t].cred # NoPassword /\ Claimed
    BY <1>1, ActionFacts DEF AccountActions
  <1>u. PICK u : u = [account[t] EXCEPT !.disabled = TRUE]
    OBVIOUS
  <1>4. u \in UserRow /\ u.role # "owner" /\ u.cred = account[t].cred
    BY <1>2, <1>u DEF UserRow, InviteRoles
  <1>5. account' = [account EXCEPT ![t] = u]
    BY <1>1, <1>u
  <1>6. /\ account' \in [People -> UserRow \cup {NoAccount}]
        /\ account'[t] = u /\ \A p \in People : p # t => account'[p] = account[p]
        /\ OwnerKept' /\ Claimed'
        /\ \A p \in People : Exists(p)' => HasPassword(p)'
    BY <1>2, <1>4, <1>5, RowChanged
  <1>8. /\ key' \in [People -> ApiKey] /\ ~key'[t].active
        /\ \A p \in People : p # t => key'[p] = key[p]
    <2>1. key[t] \in ApiKey /\ key \in [People -> ApiKey]
      BY <1>2 DEF Sound, AccountsTypeOK
    <2>2. key'[t] = [key[t] EXCEPT !.active = FALSE] /\ key' = [key EXCEPT ![t] = key'[t]]
      BY <1>1, <1>2, <2>1
    <2>3. key'[t] \in ApiKey /\ ~key'[t].active
      BY <2>1, <2>2 DEF ApiKey
    <2> QED BY <1>2, <2>1, <2>2, <2>3
  <1>9. /\ \A p \in People : InviteStays(p) /\ ResetStays(p)
        /\ invite' \in [People -> InviteToken \cup {NoToken}]
        /\ reset' \in [People -> ResetToken \cup {NoToken}]
    BY <1>1 DEF RevokeInvitesIssuedBy, RevokeResetLinks, InviteStays, ResetStays, Sound, AccountsTypeOK
  <1>10. SessionsKept' /\ session' \subseteq SessionRow /\ SetupKept'
    <2>1. session' \subseteq session /\ \A s \in session' : s.who # t
      BY <1>1 DEF SessionsExcept
    <2> QED BY <1>1, <1>2, <1>6, <2>1, OthersKept
  <1>11. CreatedAdminKeysFollowRole'
    BY <1>2, <1>6, <1>8, OthersKept
  <1>12. InvitesHold
    <2> SUFFICES ASSUME NEW p \in People, AcceptableInvite(p), invite'[p] = invite[p]
                 PROVE  AcceptableInvite(p)'
      BY DEF InvitesHold
    <2>1. invite[p] # NoToken /\ invite[p].role \in InviteRoles
      BY Columns DEF AcceptableInvite, Sound
    <2>2. invite[p].by # t
      BY <1>1, <2>1 DEF RevokeInvitesIssuedBy
    <2> QED BY <1>2, <1>6, <2>2, OthersKept
  <1>13. ResetsKept'
    <2> SUFFICES ASSUME NEW p \in People, reset'[p] # NoToken, reset'[p].by # Nobody
                 PROVE  IssuerStillManages(p)'
      BY DEF ResetsKept
    <2>1. reset'[p] = reset[p] /\ p # t /\ reset[p].by # t
      BY <1>1 DEF RevokeResetLinks, ResetLinksBy
    <2> QED BY <1>2, <1>6, <2>1, OthersKept DEF Sound, ResetsKept
  <1>14. AccountsTypeOK' /\ RequestsAreWhole'
    BY <1>1, <1>6, <1>8, <1>9, <1>10, DoneKeeps DEF Sound, AccountsTypeOK
  <1>15. ClaimedKept'
    BY <1>6 DEF ClaimedKept
  <1>16. LinkStep
    BY <1>1, <1>9 DEF LinkStep, SetupStays
  <1> QED BY <1>6, <1>10, <1>11, <1>12, <1>13, <1>14, <1>15, <1>16 DEF Kept, Sound

\* A reactivation: the row is in force again, its sessions are not.
LEMMA ReactivateKept ==
    ASSUME Sound, NEW r \in Requests, ReactivateAccount(r), NEW t, t = req[r].target
    PROVE  Kept
  <1>1. /\ RunAccountAction(r, "reactivate") /\ Done(r)
        /\ account' = [account EXCEPT ![t].disabled = FALSE]
        /\ session' = SessionsExcept(t)
        /\ UNCHANGED <<used, invite, reset, setup, key, content, minted>>
    BY DEF ReactivateAccount
  <1>2. /\ t \in People /\ account[t].role \in InviteRoles /\ ~IsOwner(t)
        /\ account[t] \in UserRow /\ account[t].cred # NoPassword /\ Claimed
    BY <1>1, ActionFacts DEF AccountActions
  <1>3. ~Active(t)
    BY <1>1, ActionFacts DEF AccountActions, ActionAllowed, Active
  <1>u. PICK u : u = [account[t] EXCEPT !.disabled = FALSE]
    OBVIOUS
  <1>4. u \in UserRow /\ u.role # "owner" /\ u.cred = account[t].cred
    BY <1>2, <1>u DEF UserRow, InviteRoles
  <1>5. account' = [account EXCEPT ![t] = u]
    BY <1>1, <1>u
  <1>6. /\ account' \in [People -> UserRow \cup {NoAccount}]
        /\ account'[t] = u /\ \A p \in People : p # t => account'[p] = account[p]
        /\ OwnerKept' /\ Claimed'
        /\ \A p \in People : Exists(p)' => HasPassword(p)'
    BY <1>2, <1>4, <1>5, RowChanged
  <1>10. SessionsKept' /\ session' \subseteq SessionRow /\ SetupKept'
    <2>1. session' \subseteq session /\ \A s \in session' : s.who # t
      BY <1>1 DEF SessionsExcept
    <2> QED BY <1>1, <1>2, <1>6, <2>1, OthersKept
  <1>11. CreatedAdminKeysFollowRole'
    <2>1. ~(key[t].active /\ key[t].admin /\ key[t].via = "create")
      BY <1>2, <1>3 DEF Sound, CreatedAdminKeysFollowRole
    <2> QED BY <1>1, <1>2, <1>6, <2>1, OthersKept
  <1>12. InvitesHold
    <2> SUFFICES ASSUME NEW p \in People, AcceptableInvite(p), invite'[p] = invite[p]
                 PROVE  AcceptableInvite(p)'
      BY DEF InvitesHold
    <2>1. invite[p].by # t
      BY <1>3 DEF AcceptableInvite, InviterStillGrants
    <2> QED BY <1>2, <1>6, <2>1, OthersKept
  <1>13. ResetsKept'
    <2> SUFFICES ASSUME NEW p \in People, reset[p] # NoToken, reset[p].by # Nobody
                 PROVE  IssuerStillManages(p)'
      BY <1>1 DEF ResetsKept
    <2>1. IssuerStillManages(p)
      BY DEF Sound, ResetsKept
    <2>2. p # t /\ reset[p].by # t
      BY <1>3, <2>1 DEF IssuerStillManages
    <2> QED BY <1>1, <1>2, <1>6, <2>1, <2>2, OthersKept
  <1>14. AccountsTypeOK' /\ RequestsAreWhole'
    BY <1>1, <1>6, <1>10, DoneKeeps DEF Sound, AccountsTypeOK
  <1>15. ClaimedKept'
    BY <1>6 DEF ClaimedKept
  <1>16. LinkStep
    BY <1>1 DEF LinkStep, SetupStays, InviteStays, ResetStays
  <1> QED BY <1>6, <1>10, <1>11, <1>12, <1>13, <1>14, <1>15, <1>16 DEF Kept, Sound

\* A removal: the row goes with everything that hangs on it.
LEMMA RemoveKept ==
    ASSUME Sound, NEW r \in Requests, RemoveAccount(r), NEW t, t = req[r].target
    PROVE  Kept
  <1>1. /\ RunAccountAction(r, "remove") /\ Done(r)
        /\ account' = [account EXCEPT ![t] = NoAccount]
        /\ session' = SessionsExcept(t)
        /\ invite' = RevokeInvitesIssuedBy(t, InviteRoles)
        /\ reset' = [p \in People |->
                CASE p = t -> NoToken
                  [] p # t /\ reset[p] # NoToken /\ reset[p].by = t -> [reset[p] EXCEPT !.by = Nobody]
                  [] OTHER -> reset[p]]
        /\ setup' \in {setup, NoToken}
        /\ key' = [key EXCEPT ![t] = NoApiKey]
        /\ content' \in {content, Nobody}
        /\ UNCHANGED <<used, minted>>
    BY DEF RemoveAccount
  <1>2. t \in People /\ ~IsOwner(t) /\ Claimed
    BY <1>1, ActionFacts DEF AccountActions
  <1>6. /\ account' \in [People -> UserRow \cup {NoAccount}]
        /\ account'[t] = NoAccount /\ \A p \in People : p # t => account'[p] = account[p]
        /\ OwnerKept' /\ Claimed'
        /\ \A p \in People : Exists(p)' => HasPassword(p)'
    BY <1>1, <1>2, RowChanged
  <1>8. /\ key' \in [People -> ApiKey] /\ ~key'[t].active
        /\ \A p \in People : p # t => key'[p] = key[p]
    <2>1. NoApiKey \in ApiKey /\ ~NoApiKey.active
      BY DEF NoApiKey, ApiKey
    <2> QED BY <1>1, <1>2, <2>1 DEF Sound, AccountsTypeOK
  <1>9. ASSUME NEW p \in People
        PROVE  /\ reset'[p] \in ResetToken \cup {NoToken} /\ ResetStays(p)
               /\ reset'[p] # NoToken => reset'[p].by = Nobody \/ (reset'[p] = reset[p] /\ p # t /\ reset[p].by # t)
    <2>1. CASE p = t
      BY <1>1, <2>1 DEF ResetStays
    <2>2. CASE p # t /\ reset[p] # NoToken /\ reset[p].by = t
      <3>1. reset[p] \in ResetToken
        BY Columns, <2>2 DEF Sound
      <3>2. reset'[p] = [reset[p] EXCEPT !.by = Nobody]
        BY <1>1, <2>2
      <3>3. reset'[p] = [n |-> reset[p].n, by |-> Nobody] /\ reset'[p] \in ResetToken /\ reset'[p].by = Nobody
        BY <3>1, <3>2 DEF ResetToken
      <3> QED BY <2>2, <3>3 DEF ResetStays
    <2>3. CASE p # t /\ ~(reset[p] # NoToken /\ reset[p].by = t)
      <3>1. reset'[p] = reset[p]
        BY <1>1, <2>3
      <3> QED BY <2>3, <3>1 DEF ResetStays, Sound, AccountsTypeOK
    <2> QED BY <2>1, <2>2, <2>3
  <1>a. /\ \A p \in People : InviteStays(p)
        /\ invite' \in [People -> InviteToken \cup {NoToken}]
        /\ reset' \in [People -> ResetToken \cup {NoToken}]
    <2>1. /\ \A p \in People : InviteStays(p)
          /\ invite' \in [People -> InviteToken \cup {NoToken}]
      BY <1>1 DEF RevokeInvitesIssuedBy, InviteStays, Sound, AccountsTypeOK
    <2>2. reset' \in [People -> ResetToken \cup {NoToken}]
      BY <1>1, <1>9
    <2> QED BY <2>1, <2>2
  <1>10. SessionsKept' /\ session' \subseteq SessionRow /\ SetupKept'
    <2>1. session' \subseteq session /\ \A s \in session' : s.who # t
      BY <1>1 DEF SessionsExcept
    <2> QED BY <1>1, <1>2, <1>6, <2>1, OthersKept
  <1>11. CreatedAdminKeysFollowRole'
    BY <1>2, <1>6, <1>8, OthersKept
  <1>12. InvitesHold
    <2> SUFFICES ASSUME NEW p \in People, AcceptableInvite(p), invite'[p] = invite[p]
                 PROVE  AcceptableInvite(p)'
      BY DEF InvitesHold
    <2>1. invite[p] # NoToken /\ invite[p].role \in InviteRoles
      BY Columns DEF AcceptableInvite, Sound
    <2>2. invite[p].by # t
      BY <1>1, <2>1 DEF RevokeInvitesIssuedBy
    <2> QED BY <1>2, <1>6, <2>2, OthersKept
  <1>13. ResetsKept'
    <2> SUFFICES ASSUME NEW p \in People, reset'[p] # NoToken, reset'[p].by # Nobody
                 PROVE  IssuerStillManages(p)'
      BY DEF ResetsKept
    <2>1. reset'[p] = reset[p] /\ p # t /\ reset[p].by # t
      BY <1>9
    <2> QED BY <1>2, <1>6, <2>1, OthersKept DEF Sound, ResetsKept
  <1>14. AccountsTypeOK' /\ RequestsAreWhole'
    BY <1>1, <1>6, <1>8, <1>a, <1>10, DoneKeeps DEF Sound, AccountsTypeOK
  <1>15. ClaimedKept'
    BY <1>6 DEF ClaimedKept
  <1>16. LinkStep
    BY <1>1, <1>9, <1>a DEF LinkStep, SetupStays
  <1> QED BY <1>6, <1>10, <1>11, <1>12, <1>13, <1>14, <1>15, <1>16 DEF Kept, Sound

\* A reset link replaces the open one of the same person.
LEMMA IssueResetKept ==
    ASSUME Sound, NEW r \in Requests, IssuePasswordReset(r),
           NEW a, a = req[r].who, NEW t, t = req[r].target
    PROVE  Kept
  <1> USE DEF SetupStays
  <1>1. /\ RunAccountAction(r, "reset_password") /\ Done(r)
        /\ minted < MaxTokens /\ minted' = minted + 1
        /\ reset' = [reset EXCEPT ![t] = [n |-> minted + 1, by |-> a]]
        /\ UNCHANGED <<account, used, invite, setup, session, key, content>>
    BY DEF IssuePasswordReset, Mint
  <1>2. /\ a \in People /\ t \in People /\ a # t /\ Active(a) /\ Exists(t) /\ Claimed
        /\ ActionAllowed("reset_password", a, t)
    BY <1>1, ActionFacts DEF AccountActions
  <1>3. CanManage(account[a].role, account[t].role) /\ Active(t)
    BY <1>2 DEF ActionAllowed, Active
  <1>4. a # Nobody
    BY <1>2, AccountConstants DEF Nobody
  <1>5. [n |-> minted + 1, by |-> a] \in ResetToken /\ minted' \in 0..MaxTokens
    BY <1>1, <1>2, AccountConstants DEF Sound, AccountsTypeOK, ResetToken
  <1>6. /\ reset' \in [People -> ResetToken \cup {NoToken}]
        /\ reset'[t].n = minted + 1 /\ reset'[t].by = a
        /\ \A p \in People : p # t => reset'[p] = reset[p]
    BY <1>1, <1>2, <1>5 DEF Sound, AccountsTypeOK
  <1>7. AccountsTypeOK' /\ RequestsAreWhole'
    BY <1>1, <1>5, <1>6, DoneKeeps DEF Sound, AccountsTypeOK
  <1>8. ResetsKept'
    <2> SUFFICES ASSUME NEW p \in People, reset'[p] # NoToken, reset'[p].by # Nobody
                 PROVE  IssuerStillManages(p)'
      BY DEF ResetsKept
    <2>1. CASE p = t
      BY <1>1, <1>2, <1>3, <1>4, <1>6, <2>1, SameAccounts DEF IssuerStillManages
    <2>2. CASE p # t
      BY <1>1, <1>6, <2>2, SameAccounts DEF Sound, ResetsKept, IssuerStillManages
    <2> QED BY <2>1, <2>2
  <1>9. SetupKept'
    BY <1>1, SameAccounts DEF Sound, SetupKept, LiveOwnerSetup
  <1>10. SessionsKept' /\ CreatedAdminKeysFollowRole'
    BY <1>1, SameAccounts DEF Sound, SessionsKept, CreatedAdminKeysFollowRole
  <1>11. ClaimedKept' /\ OwnerKept'
    BY <1>1, <1>2, SameAccounts DEF ClaimedKept
  <1>12. LinkStep /\ InvitesHold
    BY <1>1, <1>2, <1>6, SameAccounts DEF LinkStep, InvitesHold, InviteStays, ResetStays
  <1> QED BY <1>7, <1>8, <1>9, <1>10, <1>11, <1>12 DEF Kept, Sound

\* The accounts stay, and no link is opened.
LEMMA ClosingKept ==
    ASSUME Sound, account' = account, AccountsTypeOK', RequestsAreWhole',
           minted' = minted, setup' \in {setup, NoToken},
           \A p \in People : invite'[p] \in {invite[p], NoToken} /\ reset'[p] \in {reset[p], NoToken},
           session' \subseteq session \/ SessionsKept',
           key' = key \/ CreatedAdminKeysFollowRole',
           Claimed \/ (session' \subseteq session /\ UNCHANGED <<key, req>>)
    PROVE  Kept
  <1>1. ResetsKept' /\ SetupKept'
    BY SameAccounts DEF Sound, ResetsKept, SetupKept, IssuerStillManages, LiveOwnerSetup
  <1>2. SessionsKept'
    BY SameAccounts DEF Sound, SessionsKept
  <1>3. CreatedAdminKeysFollowRole'
    BY SameAccounts DEF Sound, CreatedAdminKeysFollowRole
  <1>4. ClaimedKept'
    BY SameAccounts DEF Sound, ClaimedKept
  <1>5. LinkStep /\ InvitesHold
    BY SameAccounts DEF LinkStep, InvitesHold, InviteStays, ResetStays, SetupStays
  <1> QED BY <1>1, <1>2, <1>3, <1>4, <1>5, SameAccounts DEF Kept, Sound

-----------------------------------------------------------------------------
(* Invitations.                                                            *)

\* An invitation, or a resent one, replaces the open one.
LEMMA ReplaceInviteKept ==
    ASSUME Sound, NEW r \in Requests, req[r].kind \in {"invite", "resend"},
           NEW p, p = req[r].target, NEW role, role = req[r].asked, ReplaceInvite(r, p, role)
    PROVE  Kept
  <1>1. /\ p \in People /\ req[r].who \in People /\ role \in InviteRoles /\ Claimed
    BY RequestColumns, SomeoneActed DEF Sound, RequestsAreWhole
  <1>2. Done(r) /\ UNCHANGED <<account, used, reset, setup, session, key, content>>
    BY DEF ReplaceInvite
  <1>3. CASE minted' = minted /\ invite' \in {invite, [invite EXCEPT ![p] = NoToken]}
    <2>1. /\ invite' \in [People -> InviteToken \cup {NoToken}]
          /\ \A q \in People : invite'[q] \in {invite[q], NoToken}
      BY <1>1, <1>3 DEF Sound, AccountsTypeOK
    <2>2. AccountsTypeOK' /\ RequestsAreWhole'
      BY <1>2, <1>3, <2>1, DoneKeeps DEF Sound, AccountsTypeOK
    <2> QED BY <1>1, <1>2, <1>3, <2>1, <2>2, ClosingKept
  <1>4. CASE /\ minted < MaxTokens /\ minted' = minted + 1
             /\ invite' = [invite EXCEPT ![p] = [n |-> minted + 1, role |-> role, by |-> req[r].who]]
    <2>1. [n |-> minted + 1, role |-> role, by |-> req[r].who] \in InviteToken /\ minted' \in 0..MaxTokens
      BY <1>1, <1>4, AccountConstants DEF Sound, AccountsTypeOK, InviteToken
    <2>2. /\ invite' \in [People -> InviteToken \cup {NoToken}]
          /\ invite'[p].n = minted + 1
          /\ \A q \in People : q # p => invite'[q] = invite[q]
      BY <1>1, <1>4, <2>1 DEF Sound, AccountsTypeOK
    <2>3. AccountsTypeOK' /\ RequestsAreWhole'
      BY <1>2, <2>1, <2>2, DoneKeeps DEF Sound, AccountsTypeOK
    <2>4. ResetsKept' /\ SetupKept'
      BY <1>2, SameAccounts DEF Sound, ResetsKept, SetupKept, IssuerStillManages, LiveOwnerSetup
    <2>5. SessionsKept' /\ CreatedAdminKeysFollowRole'
      BY <1>2, SameAccounts DEF Sound, SessionsKept, CreatedAdminKeysFollowRole
    <2>6. ClaimedKept' /\ OwnerKept'
      BY <1>1, <1>2, SameAccounts DEF ClaimedKept
    <2>7. InvitesHold
      BY <1>2, SameAccounts DEF InvitesHold
    <2>8. LinkStep
      BY <1>1, <1>2, <1>4, <2>2 DEF LinkStep, InviteStays, ResetStays, SetupStays
    <2> QED BY <2>3, <2>4, <2>5, <2>6, <2>7, <2>8 DEF Kept, Sound
  <1> QED BY <1>3, <1>4 DEF ReplaceInvite, Mint

\* A revoked invitation is open no more.
LEMMA RevokeInvitationKept ==
    ASSUME Sound, NEW r \in Requests, RevokeInvitation(r)
    PROVE  Kept
  <1>1. CASE Refused(r)
    BY <1>1, RefusedKept
  <1>2. CASE /\ invite' = [invite EXCEPT ![req[r].target] = NoToken] /\ Done(r)
             /\ UNCHANGED <<account, used, reset, setup, session, key, content, minted>>
    <2>1. Claimed
      BY SomeoneActed DEF RevokeInvitation, Caller
    <2>2. /\ invite' \in [People -> InviteToken \cup {NoToken}]
          /\ \A q \in People : invite'[q] \in {invite[q], NoToken}
      BY <1>2 DEF Sound, AccountsTypeOK
    <2>3. AccountsTypeOK' /\ RequestsAreWhole'
      BY <1>2, <2>2, DoneKeeps DEF Sound, AccountsTypeOK
    <2> QED BY <1>2, <2>1, <2>2, <2>3, ClosingKept
  <1> QED BY <1>1, <1>2 DEF RevokeInvitation

\* An accepted invitation makes the account it was for.
LEMMA AcceptKept ==
    ASSUME Sound, NEW p \in People, AcceptInvitation(p)
    PROVE  Kept
  <1>1. /\ AcceptableInvite(p) /\ invite' = [invite EXCEPT ![p] = NoToken]
        /\ UNCHANGED <<reset, setup, key, content, req, minted>>
    BY DEF AcceptInvitation
  <1>2. /\ invite' \in [People -> InviteToken \cup {NoToken}]
        /\ invite'[p] = NoToken /\ \A q \in People : q # p => invite'[q] = invite[q]
    BY <1>1 DEF Sound, AccountsTypeOK
  <1>3. Claimed /\ invite[p].role \in InviteRoles
    BY <1>1, SomeoneActed, Columns DEF AcceptableInvite, Sound
  <1>w. RequestsAreWhole'
    BY <1>1 DEF Sound, RequestsAreWhole
  <1>4. CASE UNCHANGED <<account, used, session>>
    <2>1. AccountsTypeOK'
      BY <1>1, <1>2, <1>4 DEF Sound, AccountsTypeOK
    <2> QED BY <1>1, <1>2, <1>3, <1>4, <1>w, <2>1, ClosingKept
  <1>5. CASE ~UNCHANGED <<account, used, session>>
    <2>u. PICK u : u = [id |-> used[p] + 1, role |-> invite[p].role, disabled |-> FALSE, cred |-> used[p] + 1]
      OBVIOUS
    <2>1. /\ ~Exists(p) /\ used[p] < MaxCredentials
          /\ used' = [used EXCEPT ![p] = @ + 1]
          /\ account' = [account EXCEPT ![p] = u]
          /\ session' = session \cup {[who |-> p, cred |-> used[p] + 1, whileDisabled |-> FALSE]}
      BY <1>5, <2>u DEF AcceptInvitation
    <2>2. used[p] \in 0..MaxCredentials /\ used[p] + 1 \in 1..MaxCredentials
      BY <2>1, Columns, AccountConstants DEF Sound
    <2>3. u \in UserRow /\ u.role # "owner" /\ u.cred # NoPassword /\ ~u.disabled /\ u.cred = used[p] + 1
      BY <1>3, <2>2, <2>u DEF UserRow, InviteRoles, UserRoles, NoPassword
    <2>4. ~IsOwner(p)
      BY <2>1 DEF IsOwner
    <2>5. /\ account' \in [People -> UserRow \cup {NoAccount}]
          /\ account'[p] = u /\ \A q \in People : q # p => account'[q] = account[q]
          /\ OwnerKept' /\ Claimed'
          /\ \A q \in People : Exists(q)' => HasPassword(q)'
      BY <1>3, <2>1, <2>3, <2>4, RowChanged
    <2>6. /\ used' \in [People -> 0..MaxCredentials]
      BY <2>1, <2>2 DEF Sound, AccountsTypeOK
    <2>7. session' \subseteq SessionRow /\ SessionsKept'
      <3>1. session \subseteq SessionRow
        BY DEF Sound, AccountsTypeOK
      <3>z. PICK z : z = [who |-> p, cred |-> used[p] + 1, whileDisabled |-> FALSE]
        OBVIOUS
      <3>2. z \in SessionRow /\ z.who = p /\ z.cred = used[p] + 1 /\ ~z.whileDisabled
        BY <2>2, <3>z DEF SessionRow
      <3>5. session' = session \cup {z}
        BY <2>1, <3>z
      <3>3. Exists(p)'
        BY <2>3, <2>5, RealRow DEF Exists
      <3>4. ASSUME NEW s \in session
            PROVE  /\ Exists(s.who)' /\ s.cred = account'[s.who].cred
                   /\ s.whileDisabled => account'[s.who].disabled
        <4>1. s.who \in People /\ Exists(s.who)
          BY <3>1 DEF SessionRow, Sound, SessionsKept
        <4>2. s.who # p
          BY <2>1, <4>1
        <4> QED BY <2>5, <4>1, <4>2 DEF Sound, SessionsKept, Exists
      <3>6. /\ Exists(z.who)' /\ z.cred = account'[z.who].cred
            /\ z.whileDisabled => account'[z.who].disabled
        BY <2>3, <2>5, <3>2, <3>3
      <3>7. session' \subseteq SessionRow
        BY <3>1, <3>2, <3>5
      <3> QED BY <3>4, <3>5, <3>6, <3>7 DEF SessionsKept
    <2>8. AccountsTypeOK'
      BY <1>1, <1>2, <2>5, <2>6, <2>7 DEF Sound, AccountsTypeOK
    <2>9. CreatedAdminKeysFollowRole'
      <3>1. ~(key[p].active /\ key[p].admin /\ key[p].via = "create")
        BY <2>1 DEF Sound, CreatedAdminKeysFollowRole, Active
      <3> QED BY <1>1, <2>5, <3>1, OthersKept
    <2>10. InvitesHold
      <3> SUFFICES ASSUME NEW q \in People, AcceptableInvite(q), invite'[q] = invite[q]
                   PROVE  AcceptableInvite(q)'
        BY DEF InvitesHold
      <3>1. invite[q].by # p
        BY <2>1 DEF AcceptableInvite, InviterStillGrants, Active
      <3> QED BY <2>5, <3>1, OthersKept
    <2>11. ResetsKept'
      <3> SUFFICES ASSUME NEW q \in People, reset[q] # NoToken, reset[q].by # Nobody
                   PROVE  IssuerStillManages(q)'
        BY <1>1 DEF ResetsKept
      <3>1. IssuerStillManages(q)
        BY DEF Sound, ResetsKept
      <3>2. q # p /\ reset[q].by # p
        BY <2>1, <3>1 DEF IssuerStillManages, Active
      <3> QED BY <1>1, <2>5, <3>1, <3>2, OthersKept
    <2>12. SetupKept'
      BY <1>1, <2>4, <2>5, OthersKept
    <2>13. ClaimedKept' /\ LinkStep
      BY <1>1, <1>2, <2>5 DEF ClaimedKept, LinkStep, InviteStays, ResetStays, SetupStays
    <2> QED BY <1>w, <2>5, <2>7, <2>8, <2>9, <2>10, <2>11, <2>12, <2>13 DEF Kept, Sound
  <1> QED BY <1>4, <1>5

-----------------------------------------------------------------------------
(* Passwords, sessions and API keys.                                       *)

\* A new password of an active account: its row keeps role and flag, and the
\* only session left is the new one.
LEMMA PasswordChanged ==
    ASSUME Sound, NEW t \in People, Active(t), NewPassword(t)
    PROVE  /\ account' \in [People -> UserRow \cup {NoAccount}]
           /\ used' \in [People -> 0..MaxCredentials]
           /\ account'[t] \in UserRow /\ account'[t].role = account[t].role
           /\ \A p \in People : p # t => account'[p] = account[p]
           /\ \A p \in People : Active(p)' <=> Active(p)
           /\ \A p \in People : account'[p].role = account[p].role \/ ~Exists(p)
           /\ OwnerKept' /\ Claimed'
           /\ SessionsKept' /\ session' \subseteq SessionRow
           /\ Claimed => \A p \in People : Exists(p)' => HasPassword(p)'
  <1>u. PICK u : u = [account[t] EXCEPT !.cred = used[t] + 1]
    OBVIOUS
  <1>1. /\ used[t] < MaxCredentials /\ used' = [used EXCEPT ![t] = used[t] + 1]
        /\ account' = [account EXCEPT ![t] = u]
        /\ session' = SessionsExcept(t) \cup {CreateSession(t, used[t] + 1)}
    BY <1>u DEF NewPassword
  <1>2. /\ Exists(t) /\ account[t] \in UserRow /\ ~account[t].disabled /\ used[t] + 1 \in 1..MaxCredentials
    BY <1>1, Columns, AccountConstants DEF Active, Sound
  <1>3. u \in UserRow /\ u.role = account[t].role /\ u.disabled = account[t].disabled
        /\ u.cred = used[t] + 1 /\ u.cred # NoPassword
    BY <1>2, <1>u DEF UserRow, NoPassword
  <1>4. /\ account' \in [People -> UserRow \cup {NoAccount}] /\ used' \in [People -> 0..MaxCredentials]
        /\ account'[t] = u /\ \A p \in People : p # t => account'[p] = account[p]
    BY <1>1, <1>2, <1>3 DEF Sound, AccountsTypeOK
  <1>5. Exists(t)' /\ Active(t)' /\ HasPassword(t)'
    BY <1>2, <1>3, <1>4, RealRow DEF Exists, Active, HasPassword
  <1>6. \A p \in People : p # t => /\ Exists(p)' = Exists(p) /\ Active(p)' = Active(p)
                                   /\ HasPassword(p)' = HasPassword(p)
    BY <1>4, OthersKept
  <1>7. \A p \in People : /\ Exists(p)' <=> Exists(p)
                          /\ Active(p)' <=> Active(p)
                          /\ Exists(p) => account'[p].role = account[p].role
    BY <1>2, <1>3, <1>4, <1>5, <1>6
  <1>8. OwnerKept' /\ Claimed'
    <2>1. \A p \in People : IsOwner(p)' <=> IsOwner(p)
      BY <1>7 DEF IsOwner
    <2>2. PICK o \in People : SoleOwner(o)
      BY <1>2 DEF Sound, OwnerKept
    <2>3. SoleOwner(o)'
      BY <1>7, <2>1, <2>2 DEF SoleOwner
    <2> QED BY <1>5, <2>3 DEF OwnerKept, Claimed
  <1>9. SessionsKept' /\ session' \subseteq SessionRow
    <2>1. session \subseteq SessionRow
      BY DEF Sound, AccountsTypeOK
    <2>z. PICK z : z = CreateSession(t, used[t] + 1)
      OBVIOUS
    <2>2. z \in SessionRow /\ z.who = t /\ z.cred = used[t] + 1 /\ ~z.whileDisabled
      <3>1. account[t].disabled = FALSE
        BY <1>2 DEF UserRow
      <3> QED BY <1>2, <2>z, <3>1 DEF SessionRow, CreateSession
    <2>3. \A s \in session' : s = z \/ (s \in session /\ s.who # t)
      BY <1>1, <2>z DEF SessionsExcept
    <2>4. ASSUME NEW s \in session, s.who # t
          PROVE  /\ Exists(s.who)' /\ s.cred = account'[s.who].cred
                 /\ s.whileDisabled => account'[s.who].disabled
      <3>1. s.who \in People
        BY <2>1 DEF SessionRow
      <3> QED BY <1>4, <1>6, <2>4, <3>1 DEF Sound, SessionsKept
    <2>5. /\ Exists(z.who)' /\ z.cred = account'[z.who].cred
          /\ z.whileDisabled => account'[z.who].disabled
      BY <1>3, <1>4, <1>5, <2>2
    <2> QED BY <2>1, <2>2, <2>3, <2>4, <2>5 DEF SessionsKept
  <1>10. Claimed => \A p \in People : Exists(p)' => HasPassword(p)'
    BY <1>5, <1>6 DEF Sound, ClaimedKept
  <1>11. \A p \in People : Active(p)' <=> Active(p)
    BY <1>5, <1>6
  <1> QED BY <1>3, <1>4, <1>7, <1>8, <1>9, <1>10, <1>11

\* A step that sets a password and only closes links.
LEMMA PasswordKept ==
    ASSUME Sound, NEW t \in People, Active(t), NewPassword(t),
           UNCHANGED <<key, content, minted>>,
           \A p \in People : Claimed \/ (Exists(p) => p = t),
           req' \in [Requests -> Request \cup {NoReq}], RequestsAreWhole',
           invite' \in [People -> InviteToken \cup {NoToken}],
           reset' \in [People -> ResetToken \cup {NoToken}],
           setup' \in {setup, NoToken},
           \A p \in People : invite'[p] \in {invite[p], NoToken} /\ reset'[p] \in {reset[p], NoToken}
    PROVE  Kept
  <1>1. /\ account' \in [People -> UserRow \cup {NoAccount}]
        /\ used' \in [People -> 0..MaxCredentials]
        /\ account'[t] \in UserRow /\ account'[t].role = account[t].role
        /\ \A p \in People : p # t => account'[p] = account[p]
        /\ \A p \in People : Active(p)' <=> Active(p)
        /\ \A p \in People : account'[p].role = account[p].role \/ ~Exists(p)
        /\ OwnerKept' /\ Claimed'
        /\ SessionsKept' /\ session' \subseteq SessionRow
        /\ Claimed => \A p \in People : Exists(p)' => HasPassword(p)'
    BY PasswordChanged
  <1>2. AccountsTypeOK'
    BY <1>1 DEF Sound, AccountsTypeOK
  <1>3. \A p \in People : Exists(p)' => HasPassword(p)'
    <2>1. ASSUME ~Claimed, NEW p \in People, Exists(p)' PROVE HasPassword(p)'
      <3>1. p = t
        BY <1>1, <2>1 DEF Exists
      <3>2. PICK q \in People : HasPassword(q)'
        BY <1>1 DEF Claimed
      <3>3. q = t
        BY <1>1, <2>1, <3>2 DEF HasPassword, Exists, Claimed
      <3> QED BY <3>1, <3>2, <3>3
    <2> QED BY <1>1, <2>1
  <1>4. ClaimedKept'
    BY <1>1, <1>3 DEF ClaimedKept
  <1>5. CreatedAdminKeysFollowRole'
    BY <1>1 DEF Sound, CreatedAdminKeysFollowRole, Active
  <1>6. ResetsKept'
    <2> SUFFICES ASSUME NEW p \in People, reset[p] # NoToken, reset'[p] = reset[p], reset[p].by # Nobody
                 PROVE  IssuerStillManages(p)'
      BY DEF ResetsKept
    <2>1. IssuerStillManages(p) /\ reset[p].by \in People
      BY Columns DEF Sound, ResetsKept
    <2>2. Exists(p) /\ Exists(reset[p].by)
      BY <2>1 DEF IssuerStillManages, Active
    <2> QED BY <1>1, <2>1, <2>2 DEF IssuerStillManages
  <1>7. SetupKept'
    <2> SUFFICES ASSUME setup # NoToken, setup' = setup PROVE LiveOwnerSetup(setup.who)'
      BY DEF SetupKept
    <2>1. LiveOwnerSetup(setup.who) /\ setup.who \in People
      BY DEF Sound, SetupKept, AccountsTypeOK, SetupToken
    <2> QED BY <1>1, <2>1 DEF LiveOwnerSetup, Active
  <1>8. InvitesHold
    <2> SUFFICES ASSUME NEW p \in People, AcceptableInvite(p), invite'[p] = invite[p]
                 PROVE  AcceptableInvite(p)'
      BY DEF InvitesHold
    <2>1. invite[p].by \in People /\ Exists(invite[p].by)
      BY Columns DEF AcceptableInvite, InviterStillGrants, Sound, Active
    <2> QED BY <1>1, <2>1 DEF AcceptableInvite, InviterStillGrants
  <1>9. LinkStep
    BY DEF LinkStep, InviteStays, ResetStays, SetupStays
  <1> QED BY <1>1, <1>2, <1>4, <1>5, <1>6, <1>7, <1>8, <1>9 DEF Kept, Sound

\* Revoking reset links takes links away and adds none.
LEMMA RevokedResets ==
    ASSUME AccountsTypeOK, NEW S, reset' = RevokeResetLinks(S)
    PROVE  /\ reset' \in [People -> ResetToken \cup {NoToken}]
           /\ \A p \in People : reset'[p] \in {reset[p], NoToken}
  BY DEF AccountsTypeOK, RevokeResetLinks

\* The owner's setup link is used up by the password it sets.
LEMMA OwnerSetupKept ==
    ASSUME Sound, NEW t \in People, CompleteOwnerSetup(t)
    PROVE  Kept
  <1>1. /\ LiveOwnerSetup(t) /\ NewPassword(t) /\ setup' = NoToken
        /\ reset' = [reset EXCEPT ![t] = NoToken]
        /\ UNCHANGED <<invite, key, content, req, minted>>
    BY DEF CompleteOwnerSetup
  <1>2. Active(t) /\ IsOwner(t)
    BY <1>1 DEF LiveOwnerSetup, IsOwner, Active
  <1>3. \A p \in People : Claimed \/ (Exists(p) => p = t)
    <2> SUFFICES ASSUME ~Claimed, NEW p \in People, Exists(p) PROVE p = t
      OBVIOUS
    <2>1. IsOwner(p)
      BY DEF Sound, ClaimedKept, IsOwner
    <2> QED BY <1>2, <2>1 DEF Sound, OwnerKept, SoleOwner, IsOwner
  <1>4. /\ reset' \in [People -> ResetToken \cup {NoToken}]
        /\ \A p \in People : reset'[p] \in {reset[p], NoToken}
    BY <1>1 DEF Sound, AccountsTypeOK
  <1>5. /\ req' \in [Requests -> Request \cup {NoReq}] /\ RequestsAreWhole'
        /\ invite' \in [People -> InviteToken \cup {NoToken}]
    BY <1>1 DEF Sound, AccountsTypeOK, RequestsAreWhole
  <1> QED BY <1>1, <1>2, <1>3, <1>4, <1>5, PasswordKept

\* A completed reset: a new password, its session alone, no open links.
LEMMA ResetCompletedKept ==
    ASSUME Sound, NEW t \in People, CompletePasswordReset(t)
    PROVE  Kept
  <1>1. /\ UsableReset(t) /\ NewPassword(t) /\ setup' \in {setup, NoToken}
        /\ reset' = RevokeResetLinks({t} \cup ResetLinksBy(t))
        /\ invite' = RevokeInvitesIssuedBy(t, InviteRoles)
        /\ UNCHANGED <<key, content, req, minted>>
    BY DEF CompletePasswordReset
  <1>2. Active(t) /\ Claimed
    BY <1>1, SomeoneActed DEF UsableReset, IssuerStillManages
  <1>3. /\ reset' \in [People -> ResetToken \cup {NoToken}]
        /\ \A p \in People : reset'[p] \in {reset[p], NoToken}
    BY <1>1, RevokedResets DEF Sound
  <1>4. /\ invite' \in [People -> InviteToken \cup {NoToken}]
        /\ \A p \in People : invite'[p] \in {invite[p], NoToken}
    BY <1>1 DEF Sound, AccountsTypeOK, RevokeInvitesIssuedBy
  <1>5. req' \in [Requests -> Request \cup {NoReq}] /\ RequestsAreWhole'
    BY <1>1 DEF Sound, AccountsTypeOK, RequestsAreWhole
  <1> QED BY <1>1, <1>2, <1>3, <1>4, <1>5, PasswordKept

\* A change of password needs the password it verified to be in force.
LEMMA ChangePasswordKept ==
    ASSUME Sound, NEW r \in Requests, ChangePassword(r), NEW t, t = req[r].who
    PROVE  Kept
  <1>1. req[r].kind = "change_password" /\ Done(r)
    BY DEF ChangePassword, Caller
  <1>2. t \in People /\ Claimed
    BY <1>1, RequestColumns, SomeoneActed DEF Sound
  <1>3. req' \in [Requests -> Request \cup {NoReq}] /\ RequestsAreWhole'
    BY <1>1, DoneKeeps DEF Sound
  <1>4. CASE Quiet
    BY <1>2, <1>3, <1>4, QuietKept
  <1>5. CASE /\ CredentialUnchanged(r) /\ NewPassword(t) /\ reset' = [reset EXCEPT ![t] = NoToken]
             /\ UNCHANGED <<invite, setup, key, content, minted>>
    <2>1. Active(t)
      BY <1>5 DEF CredentialUnchanged
    <2>2. /\ reset' \in [People -> ResetToken \cup {NoToken}]
          /\ \A p \in People : reset'[p] \in {reset[p], NoToken}
          /\ invite' \in [People -> InviteToken \cup {NoToken}]
      BY <1>5 DEF Sound, AccountsTypeOK
    <2> QED BY <1>2, <1>3, <1>5, <2>1, <2>2, PasswordKept
  <1> QED BY <1>4, <1>5 DEF ChangePassword

\* A session opens for a credential that is the account's at that moment.
LEMMA OpenSessionKept ==
    ASSUME Sound, NEW r \in Requests, OpenSession(r), NEW t, t = req[r].who
    PROVE  Kept
  <1>1. /\ req[r].kind = "login" /\ Done(r)
        /\ UNCHANGED <<account, used, invite, reset, setup, key, content, minted>>
        /\ session' = IF CallerExists(r) /\ account[t].cred = req[r].cred
                      THEN session \cup {CreateSession(t, req[r].cred)} ELSE session
    BY DEF OpenSession, Caller
  <1>2. /\ t \in People /\ Claimed /\ req[r].cred \in 0..MaxCredentials /\ req[r].cred # NoPassword
    BY <1>1, RequestColumns, SomeoneActed DEF Sound, RequestsAreWhole
  <1>3. SessionsKept' /\ session' \subseteq SessionRow
    <2>1. CASE session' = session
      BY <1>1, <2>1, SameAccounts DEF Sound, SessionsKept, AccountsTypeOK
    <2>2. CASE session' # session
      <3>1. Exists(t) /\ account[t].cred = req[r].cred
        BY <1>1, <2>2 DEF CallerExists
      <3>z. PICK z : z = CreateSession(t, req[r].cred)
        OBVIOUS
      <3>2. account[t].disabled \in BOOLEAN /\ req[r].cred \in 1..MaxCredentials
        BY <1>2, <3>1, Columns, AccountConstants DEF Sound, NoPassword
      <3>3. /\ z \in SessionRow /\ z.who = t /\ z.cred = account[t].cred
            /\ z.whileDisabled = account[t].disabled
        BY <1>2, <3>1, <3>2, <3>z DEF SessionRow, CreateSession
      <3>4. session' = session \cup {z}
        BY <1>1, <2>2, <3>z
      <3>5. session' \subseteq SessionRow
        BY <3>3, <3>4 DEF Sound, AccountsTypeOK
      <3> QED BY <1>1, <3>1, <3>3, <3>4, <3>5, SameAccounts DEF Sound, SessionsKept
    <2> QED BY <2>1, <2>2
  <1>4. AccountsTypeOK' /\ RequestsAreWhole'
    BY <1>1, <1>3, DoneKeeps DEF Sound, AccountsTypeOK
  <1> QED BY <1>1, <1>2, <1>3, <1>4, ClosingKept

\* A logout ends one session.
LEMMA LogoutKept ==
    ASSUME Sound, NEW s \in session, Logout(s)
    PROVE  Kept
  <1>1. /\ session' \subseteq session
        /\ UNCHANGED <<account, used, invite, reset, setup, key, content, req, minted>>
    BY DEF Logout
  <1>2. AccountsTypeOK' /\ RequestsAreWhole'
    BY <1>1 DEF Sound, AccountsTypeOK, RequestsAreWhole
  <1> QED BY <1>1, <1>2, ClosingKept

\* Links expire by themselves.
LEMMA ExpireKept ==
    ASSUME Sound, NEW t \in People, Expire(t)
    PROVE  Kept
  <1>1. /\ UNCHANGED <<account, used, session, key, content, req, minted>>
        /\ setup' \in {setup, NoToken}
        /\ invite' \in {invite, [invite EXCEPT ![t] = NoToken]}
        /\ reset' \in {reset, [reset EXCEPT ![t] = NoToken]}
    BY DEF Expire
  <1>2. /\ invite' \in [People -> InviteToken \cup {NoToken}]
        /\ reset' \in [People -> ResetToken \cup {NoToken}]
        /\ \A p \in People : invite'[p] \in {invite[p], NoToken} /\ reset'[p] \in {reset[p], NoToken}
    BY <1>1 DEF Sound, AccountsTypeOK
  <1>3. AccountsTypeOK' /\ RequestsAreWhole'
    BY <1>1, <1>2 DEF Sound, AccountsTypeOK, RequestsAreWhole
  <1> QED BY <1>1, <1>2, <1>3, ClosingKept

\* One API key changes, and is no admin key of its own making unless its
\* account is an active admin now.
LEMMA KeyKept ==
    ASSUME Sound, Claimed, NEW t \in People, NEW k \in ApiKey,
           key' \in {key, [key EXCEPT ![t] = k]},
           k.active /\ k.admin /\ k.via = "create" => Active(t) /\ ManagesAllKeys(account[t].role),
           UNCHANGED <<account, used, invite, reset, setup, session, content, minted>>,
           req' \in [Requests -> Request \cup {NoReq}], RequestsAreWhole'
    PROVE  Kept
  <1>1. key' \in [People -> ApiKey] /\ \A p \in People : key'[p] = key[p] \/ (p = t /\ key'[p] = k)
    BY DEF Sound, AccountsTypeOK
  <1>2. CreatedAdminKeysFollowRole'
    BY <1>1, SameAccounts DEF Sound, CreatedAdminKeysFollowRole
  <1>3. AccountsTypeOK'
    BY <1>1 DEF Sound, AccountsTypeOK
  <1> QED BY <1>2, <1>3, ClosingKept

\* A new API key belongs to whoever asked.
LEMMA CreateKeyKept ==
    ASSUME Sound, NEW r \in Requests, CreateApiKey(r), NEW t, t = req[r].who
    PROVE  Kept
  <1>1. /\ req[r].kind = "create_key" /\ Done(r)
        /\ UNCHANGED <<account, used, invite, reset, setup, session, content, minted>>
    BY DEF CreateApiKey, Caller
  <1>2. t \in People /\ Claimed
    BY <1>1, RequestColumns, SomeoneActed DEF Sound
  <1>3. req' \in [Requests -> Request \cup {NoReq}] /\ RequestsAreWhole'
    BY <1>1, DoneKeeps DEF Sound
  <1>4. PICK k : k = IF Active(t) THEN [active |-> TRUE, via |-> "create", admin |-> CreatorMayHoldAdmin(r)]
                     ELSE NoApiKey
    OBVIOUS
  <1>5. CreatorMayHoldAdmin(r) \in BOOLEAN /\ (CreatorMayHoldAdmin(r) <=> ManagesAllKeys(account[t].role))
    BY DEF CreatorMayHoldAdmin, ManagesAllKeys
  <1>6. k \in ApiKey /\ (k.active /\ k.admin /\ k.via = "create" => Active(t) /\ ManagesAllKeys(account[t].role))
    BY <1>4, <1>5 DEF ApiKey, NoApiKey
  <1>7. key' \in {key, [key EXCEPT ![t] = k]}
    BY <1>4 DEF CreateApiKey
  <1> QED BY <1>1, <1>2, <1>3, <1>6, <1>7, KeyKept

\* A key is made an admin key by a request that read its creator's role.
LEMMA PromoteKeyKept ==
    ASSUME Sound, NEW r \in Requests, SetApiKeyAdmin(r), NEW t, t = req[r].target
    PROVE  Kept
  <1>1. /\ req[r].kind = "promote_key" /\ Done(r)
        /\ UNCHANGED <<account, used, invite, reset, setup, session, content, minted>>
        /\ key' = IF key[t] = NoApiKey \/ key[t].admin THEN key
                  ELSE [key EXCEPT ![t].admin = TRUE, ![t].via = "promote"]
    BY DEF SetApiKeyAdmin, Caller
  <1>2. t \in People /\ Claimed
    BY <1>1, RequestColumns, SomeoneActed DEF Sound
  <1>3. req' \in [Requests -> Request \cup {NoReq}] /\ RequestsAreWhole'
    BY <1>1, DoneKeeps DEF Sound
  <1>4. PICK k : k = [key[t] EXCEPT !.admin = TRUE, !.via = "promote"]
    OBVIOUS
  <1>5. key[t] \in ApiKey /\ key \in [People -> ApiKey]
    BY <1>2 DEF Sound, AccountsTypeOK
  <1>6. k \in ApiKey /\ k.via = "promote"
    BY <1>4, <1>5 DEF ApiKey
  <1>7. key' \in {key, [key EXCEPT ![t] = k]}
    BY <1>1, <1>2, <1>4, <1>5
  <1> QED BY <1>1, <1>2, <1>3, <1>6, <1>7, KeyKept

\* An admin key is made an ordinary one, or a key is revoked, by one UPDATE.
LEMMA KeyLoweredKept ==
    ASSUME Sound, NEW a \in People, NEW t \in People, MakeKeyRestricted(a, t) \/ RevokeApiKey(a, t)
    PROVE  Kept
  <1>1. /\ UsableSession(a)
        /\ UNCHANGED <<account, used, invite, reset, setup, session, content, req, minted>>
        /\ \/ key' = [key EXCEPT ![t].admin = FALSE]
           \/ key' = [key EXCEPT ![t].active = FALSE]
    BY DEF MakeKeyRestricted, RevokeApiKey
  <1>2. Claimed
    BY <1>1, SomeoneActed DEF UsableSession
  <1>3. req' \in [Requests -> Request \cup {NoReq}] /\ RequestsAreWhole'
    BY <1>1 DEF Sound, AccountsTypeOK, RequestsAreWhole
  <1>4. key[t] \in ApiKey /\ key \in [People -> ApiKey]
    BY DEF Sound, AccountsTypeOK
  <1>5. CASE key' = [key EXCEPT ![t].admin = FALSE]
    <2>1. PICK k : k = [key[t] EXCEPT !.admin = FALSE]
      OBVIOUS
    <2>2. k \in ApiKey /\ ~k.admin
      BY <1>4, <2>1 DEF ApiKey
    <2>3. key' \in {key, [key EXCEPT ![t] = k]}
      BY <1>4, <1>5, <2>1
    <2> QED BY <1>1, <1>2, <1>3, <2>2, <2>3, KeyKept
  <1>6. CASE key' = [key EXCEPT ![t].active = FALSE]
    <2>1. PICK k : k = [key[t] EXCEPT !.active = FALSE]
      OBVIOUS
    <2>2. k \in ApiKey /\ ~k.active
      BY <1>4, <2>1 DEF ApiKey
    <2>3. key' \in {key, [key EXCEPT ![t] = k]}
      BY <1>4, <1>6, <2>1
    <2> QED BY <1>1, <1>2, <1>3, <2>2, <2>3, KeyKept
  <1> QED BY <1>1, <1>5, <1>6

-----------------------------------------------------------------------------
(* The owner.                                                              *)

\* Two rows swap roles: one owner before, one owner after, and no link that the
\* old owner could issue as owner only is left.
LEMMA TransferKept ==
    ASSUME Sound, NEW r \in Requests, TransferOwnership(r),
           NEW a, a = req[r].who, NEW t, t = req[r].target
    PROVE  Kept
  <1>1. /\ RunAccountAction(r, "transfer_ownership") /\ Done(r)
        /\ reset' = RevokeResetLinks(
                {t} \cup {p \in ResetLinksBy(a) : account[p].role = "admin"})
        /\ account' = [account EXCEPT ![a].role = "admin", ![t].role = "owner"]
        /\ invite' = RevokeInvitesIssuedBy(a, {"admin"})
        /\ setup' = NoToken
        /\ content' = IF content \in {a, Nobody} THEN t ELSE content
        /\ UNCHANGED <<used, session, key, minted>>
    BY DEF TransferOwnership
  <1>2. /\ a \in People /\ t \in People /\ a # t /\ Active(a) /\ Exists(a) /\ Exists(t) /\ Claimed
        /\ ActionAllowed("transfer_ownership", a, t)
    BY <1>1, ActionFacts DEF AccountActions
  <1>3. account[a].role = "owner" /\ account[t].role = "admin" /\ ~account[t].disabled
    BY <1>2 DEF ActionAllowed
  <1>4. account[a] \in UserRow /\ account[t] \in UserRow
    BY <1>2, Columns DEF Sound
  <1>5. /\ account'[a] = [account[a] EXCEPT !.role = "admin"]
        /\ account'[t] = [account[t] EXCEPT !.role = "owner"]
        /\ \A p \in People : p \notin {a, t} => account'[p] = account[p]
        /\ account' = [account EXCEPT ![a] = account'[a], ![t] = account'[t]]
    BY <1>1, <1>2 DEF Sound, AccountsTypeOK
  <1>6. /\ account'[a] \in UserRow /\ account'[a].role = "admin" /\ account'[a].cred = account[a].cred
        /\ account'[a].disabled = account[a].disabled
        /\ account'[t] \in UserRow /\ account'[t].role = "owner" /\ account'[t].cred = account[t].cred
        /\ account'[t].disabled = account[t].disabled
    BY <1>4, <1>5 DEF UserRow, UserRoles
  <1>7. account' \in [People -> UserRow \cup {NoAccount}]
    BY <1>5, <1>6 DEF Sound, AccountsTypeOK
  <1>8. \A p \in People : /\ Exists(p)' <=> Exists(p)
                          /\ Active(p)' <=> Active(p)
                          /\ Exists(p) => account'[p].cred = account[p].cred
                          /\ account'[p].disabled = account[p].disabled
    <2>1. Exists(a)' /\ Exists(t)'
      BY <1>2, <1>6, RealRow DEF Exists
    <2>2. \A p \in People : p \notin {a, t} => (Exists(p)' <=> Exists(p))
      BY <1>5 DEF Exists
    <2>3. \A p \in People : /\ Exists(p)' <=> Exists(p)
                            /\ account'[p].cred = account[p].cred
                            /\ account'[p].disabled = account[p].disabled
      BY <1>2, <1>5, <1>6, <2>1, <2>2
    <2> QED BY <2>3 DEF Active
  <1>9. OwnerKept'
    <2>1. \A p \in People : IsOwner(p) <=> p = a
      BY <1>2, <1>3 DEF Sound, OwnerKept, SoleOwner, IsOwner
    <2>2. \A p \in People : IsOwner(p)' <=> p = t
      <3>1. ~IsOwner(a)' /\ IsOwner(t)'
        BY <1>2, <1>6, <1>8 DEF IsOwner
      <3>2. \A p \in People : p \notin {a, t} => (IsOwner(p)' <=> IsOwner(p))
        BY <1>5 DEF IsOwner, Exists
      <3> QED BY <1>2, <2>1, <3>1, <3>2
    <2>3. Active(t)'
      BY <1>2, <1>3, <1>8 DEF Active
    <2> QED BY <1>2, <2>2, <2>3 DEF OwnerKept, SoleOwner
  <1>10. Claimed' /\ ClaimedKept'
    <2>1. \A p \in People : HasPassword(p)' <=> HasPassword(p)
      BY <1>8 DEF HasPassword
    <2> QED BY <1>2, <1>8, <2>1 DEF Sound, ClaimedKept, Claimed
  <1>11. SessionsKept'
    <2>1. \A s \in session : s.who \in People
      BY DEF Sound, AccountsTypeOK, SessionRow
    <2> QED BY <1>1, <1>8, <2>1 DEF Sound, SessionsKept
  <1>12. CreatedAdminKeysFollowRole'
    BY <1>1, <1>2, <1>5, <1>6, <1>8 DEF Sound, CreatedAdminKeysFollowRole, ManagesAllKeys
  <1>13. InvitesHold
    <2> SUFFICES ASSUME NEW p \in People, AcceptableInvite(p), invite'[p] = invite[p]
                 PROVE  AcceptableInvite(p)'
      BY DEF InvitesHold
    <2>1. /\ invite[p] # NoToken /\ invite[p].by # Nobody /\ Active(invite[p].by)
          /\ invite[p].role \in GrantableRoles(account[invite[p].by].role)
      BY DEF AcceptableInvite, InviterStillGrants
    <2>2. invite[p].by \in People /\ invite[p].role \in InviteRoles
      BY <2>1, Columns DEF Sound
    <2>3. invite[p].role \in GrantableRoles(account'[invite[p].by].role)
      <3>1. CASE invite[p].by = a
        <4>1. invite[p].role = "member"
          BY <1>1, <2>1, <2>2, <3>1 DEF RevokeInvitesIssuedBy, InviteRoles
        <4> QED BY <1>6, <3>1, <4>1, Grants
      <3>2. CASE invite[p].by = t
        BY <1>3, <1>6, <2>1, <3>2, Grants
      <3>3. CASE invite[p].by \notin {a, t}
        BY <1>5, <2>1, <2>2, <3>3
      <3> QED BY <3>1, <3>2, <3>3
    <2>4. Active(invite[p].by)'
      BY <1>8, <2>1, <2>2
    <2> QED BY <2>1, <2>3, <2>4 DEF AcceptableInvite, InviterStillGrants
  <1>14. ResetsKept'
    <2> SUFFICES ASSUME NEW p \in People, reset'[p] # NoToken, reset'[p].by # Nobody
                 PROVE  IssuerStillManages(p)'
      BY DEF ResetsKept
    <2>1. /\ reset'[p] = reset[p] /\ p # t
          /\ reset[p].by = a => account[p].role # "admin"
      BY <1>1 DEF RevokeResetLinks, ResetLinksBy
    <2>2. IssuerStillManages(p) /\ reset[p].by \in People
      BY <2>1, Columns DEF Sound, ResetsKept
    <2>3. /\ reset[p].by \notin {Nobody, p} /\ Active(reset[p].by) /\ Active(p)
          /\ account[p].role \in GrantableRoles(account[reset[p].by].role)
      BY <2>2 DEF IssuerStillManages, CanManage
    <2>4. account[p].role \in UserRoles /\ account[reset[p].by].role \in UserRoles
      BY <2>2, <2>3, Columns DEF Sound, Active
    <2>5. account[p].role # "owner"
      BY <2>3, <2>4, Grants DEF UserRoles
    <2>6. p # a /\ account'[p] = account[p]
      BY <1>3, <1>5, <2>1, <2>5
    <2>7. account[p].role \in GrantableRoles(account'[reset[p].by].role)
      <3>1. CASE reset[p].by = a
        BY <1>6, <2>1, <2>4, <2>5, <3>1, Grants DEF UserRoles
      <3>2. CASE reset[p].by = t
        BY <1>3, <1>6, <2>3, <3>2, Grants
      <3>3. CASE reset[p].by \notin {a, t}
        BY <1>5, <2>2, <2>3, <3>3
      <3> QED BY <3>1, <3>2, <3>3
    <2> QED BY <1>8, <2>1, <2>2, <2>3, <2>6, <2>7 DEF IssuerStillManages, CanManage
  <1>15. /\ invite' \in [People -> InviteToken \cup {NoToken}]
         /\ \A p \in People : InviteStays(p)
    BY <1>1 DEF RevokeInvitesIssuedBy, InviteStays, Sound, AccountsTypeOK
  <1>16. /\ reset' \in [People -> ResetToken \cup {NoToken}]
         /\ \A p \in People : ResetStays(p)
    BY <1>1, RevokedResets DEF Sound, ResetStays
  <1>17. AccountsTypeOK' /\ RequestsAreWhole'
    BY <1>1, <1>2, <1>7, <1>15, <1>16, DoneKeeps DEF Sound, AccountsTypeOK
  <1>18. SetupKept' /\ LinkStep
    BY <1>1, <1>15, <1>16 DEF SetupKept, LinkStep, SetupStays
  <1> QED BY <1>9, <1>10, <1>11, <1>12, <1>13, <1>14, <1>17, <1>18 DEF Kept, Sound

\* The setup link of a new number.
LEMMA SetupColumns ==
    ASSUME Sound, NEW t \in People, ReplaceSetupToken(t)
    PROVE  /\ setup' \in SetupToken /\ setup'.who = t /\ setup'.n = minted + 1
           /\ minted' = minted + 1 /\ minted' \in 0..MaxTokens
  <1>1. minted < MaxTokens /\ minted' = minted + 1 /\ setup' = [n |-> minted + 1, who |-> t]
    BY DEF ReplaceSetupToken, Mint
  <1>2. minted + 1 \in 1..MaxTokens
    BY <1>1, AccountConstants DEF Sound, AccountsTypeOK
  <1> QED BY <1>1, <1>2 DEF SetupToken

\* An installation without a password has only the owner, which is created or
\* moves to another address, and gets a setup link.
LEMMA UnclaimedKept ==
    ASSUME Sound, ~Claimed, NEW t \in People, NEW u \in UserRow,
           u.role = "owner", u.disabled = FALSE, u.cred = NoPassword,
           account' \in [People -> UserRow \cup {NoAccount}],
           account'[t] = u, \A q \in People : q # t => account'[q] = NoAccount,
           ReplaceSetupToken(t),
           used' \in [People -> 0..MaxCredentials], content' \in People \cup {Nobody},
           UNCHANGED <<invite, reset, session, key, req>>
    PROVE  Kept
  <1>1. Exists(t)' /\ Active(t)' /\ \A q \in People : q # t => ~Exists(q)'
    BY RealRow DEF Exists, Active
  <1>2. SoleOwner(t)'
    BY <1>1 DEF SoleOwner, IsOwner
  <1>3. ~Claimed'
    BY <1>1 DEF Claimed, HasPassword
  <1>4. AccountsTypeOK' /\ RequestsAreWhole'
    BY SetupColumns DEF Sound, AccountsTypeOK, RequestsAreWhole
  <1>5. /\ session = {} /\ \A p \in People : invite[p] = NoToken /\ reset[p] = NoToken /\ key[p] = NoApiKey
    BY DEF Sound, ClaimedKept
  <1>6. ClaimedKept'
    BY <1>1, <1>3, <1>5 DEF Sound, ClaimedKept
  <1>7. SessionsKept' /\ ResetsKept' /\ InvitesHold
    BY <1>5 DEF SessionsKept, ResetsKept, InvitesHold, AcceptableInvite
  <1>8. CreatedAdminKeysFollowRole'
    BY <1>5 DEF CreatedAdminKeysFollowRole, NoApiKey
  <1>9. SetupKept'
    BY <1>1, SetupColumns DEF SetupKept, LiveOwnerSetup
  <1>10. LinkStep
    BY SetupColumns DEF LinkStep, InviteStays, ResetStays
  <1> QED BY <1>2, <1>4, <1>6, <1>7, <1>8, <1>9, <1>10 DEF Kept, Sound, OwnerKept

\* The first owner is made where there is none.
LEMMA CreateOwnerKept ==
    ASSUME Sound, NEW t \in People, Owners = {}, CreateOwner(t),
           content' \in People \cup {Nobody},
           UNCHANGED <<invite, reset, session, key, req>>
    PROVE  Kept
  <1>1. \A p \in People : ~Exists(p)
    BY DEF Sound, OwnerKept, SoleOwner, IsOwner, Owners
  <1>2. ~Claimed
    BY <1>1 DEF Claimed, HasPassword
  <1>u. PICK u : u = [id |-> used[t] + 1, role |-> "owner", disabled |-> FALSE, cred |-> NoPassword]
    OBVIOUS
  <1>3. /\ used[t] < MaxCredentials /\ used' = [used EXCEPT ![t] = used[t] + 1]
        /\ account' = [account EXCEPT ![t] = u] /\ ReplaceSetupToken(t)
    BY <1>u DEF CreateOwner
  <1>4. used[t] + 1 \in 1..MaxCredentials /\ NoPassword \in 0..MaxCredentials
    BY <1>3, Columns, AccountConstants DEF Sound, NoPassword
  <1>5. u \in UserRow /\ u.role = "owner" /\ u.disabled = FALSE /\ u.cred = NoPassword
    BY <1>4, <1>u DEF UserRow, UserRoles
  <1>6. /\ used' \in [People -> 0..MaxCredentials]
        /\ account' \in [People -> UserRow \cup {NoAccount}]
        /\ account'[t] = u /\ \A q \in People : q # t => account'[q] = account[q]
    BY <1>3, <1>4, <1>5 DEF Sound, AccountsTypeOK
  <1>7. \A q \in People : q # t => account'[q] = NoAccount
    BY <1>1, <1>6 DEF Exists
  <1> QED BY <1>2, <1>3, <1>5, <1>6, <1>7, UnclaimedKept

\* The boot makes the owner, or leaves what is there.
LEMMA BootstrapKept ==
    ASSUME Sound, NEW t \in People, BootstrapOwner(t)
    PROVE  Kept
  <1>1. UNCHANGED <<invite, reset, session, key, req>>
    BY DEF BootstrapOwner
  <1>2. CASE Owners = {} /\ CreateOwner(t) /\ AssignUnownedRecords(t)
    <2>1. content' \in People \cup {Nobody}
      BY <1>2 DEF AssignUnownedRecords, Sound, AccountsTypeOK
    <2> QED BY <1>1, <1>2, <2>1, CreateOwnerKept
  <1>3. CASE /\ Owners # {} /\ ~HasPassword(Owner) /\ (t = Owner \/ ~Exists(t))
             /\ account' = [account EXCEPT ![Owner] = NoAccount, ![t] = account[Owner]]
             /\ ReplaceSetupToken(t) /\ AssignUnownedRecords(t) /\ UNCHANGED used
    <2>o. PICK o : o = Owner
      OBVIOUS
    <2>1. o \in People /\ IsOwner(o) /\ ~HasPassword(o)
      BY <1>3, <2>o DEF Owner, Owners, IsOwner
    <2>2. ~Claimed
      BY <2>1 DEF Sound, ClaimedKept, IsOwner
    <2>3. SoleOwner(o)
      BY <2>1 DEF Sound, OwnerKept, SoleOwner, IsOwner
    <2>u. PICK u : u = account[o]
      OBVIOUS
    <2>4. /\ u \in UserRow /\ u.role = "owner" /\ u.cred = NoPassword /\ u.disabled = FALSE
      BY <2>1, <2>3, <2>u, Columns DEF Sound, SoleOwner, IsOwner, Active, HasPassword
    <2>5. \A q \in People : q # o => account[q] = NoAccount
      BY <2>2, <2>3 DEF Sound, ClaimedKept, SoleOwner, IsOwner, Exists
    <2>6. /\ account' = [account EXCEPT ![o] = NoAccount, ![t] = u]
      BY <1>3, <2>o, <2>u
    <2>7. /\ account' \in [People -> UserRow \cup {NoAccount}]
          /\ account'[t] = u /\ \A q \in People : q # t => account'[q] = NoAccount
      BY <2>1, <2>4, <2>5, <2>6 DEF Sound, AccountsTypeOK
    <2>8. used' \in [People -> 0..MaxCredentials] /\ content' \in People \cup {Nobody}
      BY <1>3 DEF AssignUnownedRecords, Sound, AccountsTypeOK
    <2> QED BY <1>1, <1>3, <2>2, <2>4, <2>7, <2>8, UnclaimedKept
  <1>4. CASE /\ Owners # {} /\ AssignUnownedRecords(Owner)
             /\ UNCHANGED <<account, used, setup, minted>>
    <2>1. Owner \in People
      BY <1>4 DEF Owner, Owners
    <2>2. AccountsTypeOK' /\ RequestsAreWhole'
      BY <1>1, <1>4, <2>1 DEF AssignUnownedRecords, Sound, AccountsTypeOK, RequestsAreWhole
    <2> QED BY <1>1, <1>4, <2>2, ClosingKept
  <1> QED BY <1>2, <1>3, <1>4 DEF BootstrapOwner

\* The reset-owner command: a new setup link, and the owner's sessions go.
LEMMA ResetOwnerKept ==
    ASSUME Sound, NEW t \in People, IssueOwnerSetupLink(t)
    PROVE  Kept
  <1>1. UNCHANGED <<invite, key, content, req>>
    BY DEF IssueOwnerSetupLink
  <1>2. CASE Owners = {} /\ CreateOwner(t) /\ UNCHANGED <<reset, session>>
    BY <1>1, <1>2, CreateOwnerKept DEF Sound, AccountsTypeOK
  <1>3. CASE /\ Owners = {t} /\ reset' = [reset EXCEPT ![t] = NoToken]
             /\ session' = SessionsExcept(t) /\ ReplaceSetupToken(t)
             /\ UNCHANGED <<account, used>>
    <2>1. IsOwner(t) /\ Active(t) /\ account[t].role = "owner"
      BY <1>3 DEF Owners, IsOwner, Sound, OwnerKept, SoleOwner
    <2>2. /\ reset' \in [People -> ResetToken \cup {NoToken}] /\ session' \subseteq session
          /\ \A p \in People : reset'[p] \in {reset[p], NoToken}
      BY <1>3 DEF Sound, AccountsTypeOK, SessionsExcept
    <2>3. AccountsTypeOK' /\ RequestsAreWhole'
      BY <1>1, <1>3, <2>2, SetupColumns DEF Sound, AccountsTypeOK, RequestsAreWhole
    <2>4. SetupKept'
      BY <1>3, <2>1, SetupColumns, SameAccounts DEF SetupKept, LiveOwnerSetup
    <2>5. ResetsKept'
      BY <1>3, <2>2, SameAccounts DEF Sound, ResetsKept, IssuerStillManages
    <2>6. SessionsKept' /\ CreatedAdminKeysFollowRole'
      BY <1>1, <1>3, <2>2, SameAccounts DEF Sound, SessionsKept, CreatedAdminKeysFollowRole
    <2>7. ClaimedKept' /\ OwnerKept'
      BY <1>1, <1>3, <2>2, SameAccounts DEF Sound, ClaimedKept
    <2>8. LinkStep /\ InvitesHold
      BY <1>1, <1>3, <2>2, SetupColumns, SameAccounts DEF LinkStep, InviteStays, ResetStays, InvitesHold
    <2> QED BY <2>3, <2>4, <2>5, <2>6, <2>7, <2>8 DEF Kept, Sound
  <1> QED BY <1>2, <1>3 DEF IssueOwnerSetupLink

-----------------------------------------------------------------------------
(* Every step.                                                             *)

\* What the users page can do.
LEMMA UsersPageKept ==
    ASSUME Sound, NEW r \in Requests, UsersPage(r)
    PROVE  Kept
  <1>1. ASSUME NEW a \in People, NEW t \in People,
               NEW k \in AccountActions \ {"transfer_ownership", "change_role"},
               AdminGuard(a), BeginRequest(r, Ask(k, a, t))
        PROVE  Kept
    <2>1. k \in RequestKinds /\ k \notin {"change_role", "invite", "resend", "login"} /\ Exists(a)
      BY <1>1 DEF RequestKinds, AccountActions, AdminGuard
    <2>2. Ask(k, a, t) \in Request /\ Ask(k, a, t).kind = k
      BY <2>1, AskColumns DEF Sound
    <2> QED BY <1>1, <2>1, <2>2, BeginKept
  <1>2. ASSUME NEW a \in People, NEW t \in People, NEW role \in InviteRoles,
               AdminGuard(a), BeginRequest(r, [Ask("change_role", a, t) EXCEPT !.asked = role])
        PROVE  Kept
    <2>q. PICK q : q = [Ask("change_role", a, t) EXCEPT !.asked = role]
      OBVIOUS
    <2>1. Ask("change_role", a, t) \in Request /\ Ask("change_role", a, t).kind = "change_role"
      BY <1>2, AskColumns DEF Sound, AdminGuard, RequestKinds, AccountActions
    <2>2. q \in Request /\ q.kind = "change_role" /\ q.asked \in InviteRoles
      BY <2>1, <2>q DEF Request
    <2> QED BY <1>2, <2>2, <2>q, BeginKept
  <1>3. ASSUME NEW a \in People, NEW t \in People, BeginTransfer(r, a, t)
        PROVE  Kept
    <2>1. Exists(a) /\ BeginRequest(r, Ask("transfer_ownership", a, t))
      BY <1>3 DEF BeginTransfer
    <2>2. /\ Ask("transfer_ownership", a, t) \in Request
          /\ Ask("transfer_ownership", a, t).kind = "transfer_ownership"
      BY <2>1, AskColumns DEF Sound, RequestKinds, AccountActions
    <2> QED BY <2>1, <2>2, BeginKept
  <1>4. ActionRefused(r) => Kept
    BY RefusedKept DEF ActionRefused
  <1> QED BY <1>1, <1>2, <1>3, <1>4, ChangeRoleKept, DeactivateKept, ReactivateKept,
             RemoveKept, IssueResetKept, TransferKept DEF UsersPage

\* What the invitations page can do.
LEMMA InvitationsPageKept ==
    ASSUME Sound, NEW r \in Requests, InvitationsPage(r)
    PROVE  Kept
  <1>1. ASSUME NEW a \in People, NEW p \in People, NEW role \in InviteRoles, BeginInvite(r, a, p, role)
        PROVE  Kept
    <2>q. PICK q : q = [Ask("invite", a, p) EXCEPT !.role = account[a].role, !.asked = role]
      OBVIOUS
    <2>1. Exists(a) /\ BeginRequest(r, q)
      BY <1>1, <2>q DEF BeginInvite
    <2>2. Ask("invite", a, p) \in Request /\ Ask("invite", a, p).kind = "invite"
      BY <2>1, AskColumns DEF Sound, RequestKinds
    <2>3. account[a].role \in UserRoles
      BY <2>1, Columns DEF Sound
    <2>4. q \in Request /\ q.kind = "invite" /\ q.asked \in InviteRoles
      BY <2>2, <2>3, <2>q DEF Request
    <2> QED BY <2>1, <2>4, BeginKept
  <1>2. ASSUME NEW a \in People, NEW p \in People, NEW k \in {"resend", "revoke_invite"},
               FindPendingById(r, k, a, p)
        PROVE  Kept
    <2>q. PICK q : q = [Ask(k, a, p) EXCEPT !.role = account[a].role,
                                            !.asked = invite[p].role,
                                            !.token = invite[p].n]
      OBVIOUS
    <2>1. Exists(a) /\ invite[p] # NoToken /\ BeginRequest(r, q)
      BY <1>2, <2>q DEF FindPendingById, AdminGuard
    <2>2. Ask(k, a, p) \in Request /\ Ask(k, a, p).kind = k
      BY <2>1, AskColumns DEF Sound, RequestKinds
    <2>3. /\ account[a].role \in UserRoles /\ invite[p].role \in InviteRoles
          /\ invite[p].n \in 0..MaxTokens
      BY <2>1, Columns DEF Sound
    <2>4. q \in Request /\ q.kind = k /\ q.asked \in InviteRoles
      BY <2>2, <2>3, <2>q DEF Request
    <2> QED BY <2>1, <2>4, BeginKept
  <1>3. CreateInvitation(r) => Kept
    BY ReplaceInviteKept DEF CreateInvitation, Caller
  <1>4. ResendInvitation(r) => Kept
    BY ReplaceInviteKept, RefusedKept DEF ResendInvitation, Caller
  <1> QED BY <1>1, <1>2, <1>3, <1>4, RevokeInvitationKept DEF InvitationsPage

\* What the password, login and API key pages can do.
LEMMA OtherPagesKept ==
    ASSUME Sound, NEW r \in Requests, PasswordPage(r) \/ LoginPage(r) \/ ApiKeysPage(r)
    PROVE  Kept
  <1>1. ASSUME NEW a \in People, HasPassword(a),
               BeginRequest(r, [Ask("change_password", a, a) EXCEPT !.cred = account[a].cred])
        PROVE  Kept
    <2>q. PICK q : q = [Ask("change_password", a, a) EXCEPT !.cred = account[a].cred]
      OBVIOUS
    <2>1. Ask("change_password", a, a) \in Request /\ Ask("change_password", a, a).kind = "change_password"
      BY <1>1, AskColumns DEF Sound, RequestKinds, HasPassword
    <2>2. account[a].cred \in 0..MaxCredentials
      BY <1>1, Columns DEF Sound, HasPassword
    <2>3. q \in Request /\ q.kind = "change_password"
      BY <2>1, <2>2, <2>q DEF Request
    <2> QED BY <1>1, <2>3, <2>q, BeginKept
  <1>2. ASSUME NEW a \in People, Exists(a), BeginRequest(r, Ask("create_key", a, a))
        PROVE  Kept
    <2>1. Ask("create_key", a, a) \in Request /\ Ask("create_key", a, a).kind = "create_key"
      BY <1>2, AskColumns DEF Sound, RequestKinds
    <2> QED BY <1>2, <2>1, BeginKept
  <1>3. ASSUME NEW a \in People, NEW t \in People, ReadKeyCreator(r, a, t)
        PROVE  Kept
    <2>1. Exists(a) /\ BeginRequest(r, Ask("promote_key", a, t))
      BY <1>3 DEF ReadKeyCreator
    <2>2. Ask("promote_key", a, t) \in Request /\ Ask("promote_key", a, t).kind = "promote_key"
      BY <2>1, AskColumns DEF Sound, RequestKinds
    <2> QED BY <2>1, <2>2, BeginKept
  <1>4. PasswordPage(r) => Kept
    BY <1>1, ChangePasswordKept DEF PasswordPage
  <1>5. LoginPage(r) => Kept
    BY LoginBegunKept, OpenSessionKept DEF LoginPage
  <1>6. ApiKeysPage(r) => Kept
    BY <1>2, <1>3, CreateKeyKept, PromoteKeyKept DEF ApiKeysPage
  <1> QED BY <1>4, <1>5, <1>6

\* Every step, apart from the history of lapsed links.
LEMMA StepKept ==
    ASSUME Sound, AccountStep
    PROVE  Kept
  <1>1. ASSUME NEW r \in Requests,
               \/ UsersPage(r) \/ InvitationsPage(r) \/ PasswordPage(r)
               \/ LoginPage(r) \/ ApiKeysPage(r)
        PROVE  Kept
    BY <1>1, UsersPageKept, InvitationsPageKept, OtherPagesKept
  <1>2. ASSUME NEW p \in OwnerEmails, BootstrapOwner(p)
        PROVE  Kept
    BY <1>2, BootstrapKept, AccountConstants
  <1>3. ASSUME NEW p \in People, \/ IssueOwnerSetupLink(p) \/ SetupPage(p)
                                 \/ InvitePage(p) \/ ResetPage(p) \/ Expire(p)
        PROVE  Kept
    BY <1>3, ResetOwnerKept, OwnerSetupKept, AcceptKept, ResetCompletedKept, ExpireKept
       DEF SetupPage, InvitePage, ResetPage
  <1>4. ASSUME NEW s \in session, Logout(s)
        PROVE  Kept
    BY <1>4, LogoutKept
  <1>5. ASSUME NEW a \in People, NEW t \in People, MakeKeyRestricted(a, t) \/ RevokeApiKey(a, t)
        PROVE  Kept
    BY <1>5, KeyLoweredKept
  <1> QED BY <1>1, <1>2, <1>3, <1>4, <1>5 DEF AccountStep

-----------------------------------------------------------------------------
(* The numbers of the links.                                               *)

\* The numbers of links: 0 stands for no link.
LEMMA Numbers ==
    ASSUME AccountsTypeOK
    PROVE  /\ NoToken.n = 0 /\ minted \in Nat
           /\ \A p \in People : /\ invite[p].n \in Nat /\ (invite[p].n = 0 <=> invite[p] = NoToken)
                                /\ reset[p].n \in Nat /\ (reset[p].n = 0 <=> reset[p] = NoToken)
           /\ setup.n \in Nat /\ (setup.n = 0 <=> setup = NoToken)
  <1>1. NoToken.n = 0
    BY DEF NoToken
  <1>2. minted \in Nat
    BY DEF AccountsTypeOK
  <1>3. ASSUME NEW p \in People
        PROVE  /\ invite[p].n \in Nat /\ (invite[p].n = 0 <=> invite[p] = NoToken)
               /\ reset[p].n \in Nat /\ (reset[p].n = 0 <=> reset[p] = NoToken)
    BY <1>1, Columns
  <1>4. setup.n \in Nat /\ (setup.n = 0 <=> setup = NoToken)
    <2>1. setup # NoToken => setup.n \in 1..MaxTokens
      BY DEF AccountsTypeOK, SetupToken
    <2> QED BY <1>1, <2>1
  <1> QED BY <1>1, <1>2, <1>3, <1>4

\* The same of the next state.
LEMMA NumbersNext ==
    ASSUME AccountsTypeOK'
    PROVE  /\ minted' \in Nat
           /\ \A p \in People : /\ invite'[p].n \in Nat /\ (invite'[p].n = 0 <=> invite'[p] = NoToken)
                                /\ reset'[p].n \in Nat /\ (reset'[p].n = 0 <=> reset'[p] = NoToken)
           /\ setup'.n \in Nat /\ (setup'.n = 0 <=> setup' = NoToken)
  <1>1. NoToken.n = 0
    BY DEF NoToken
  <1>2. \A x \in InviteToken \cup ResetToken \cup SetupToken : x.n \in Nat /\ x.n # 0
    BY DEF InviteToken, ResetToken, SetupToken
  <1> QED BY <1>1, <1>2 DEF AccountsTypeOK

\* A link that is open after a step and is not new was open before.
LEMMA SameSlot ==
    ASSUME AccountsTypeOK, AccountsTypeOK', LinkStep
    PROVE  /\ \A p \in People : /\ invite'[p].n \in {invite[p].n, 0, minted + 1}
                                /\ reset'[p].n \in {reset[p].n, 0, minted + 1}
           /\ \A p \in People : invite'[p] # NoToken /\ invite'[p].n # minted + 1
                                  => invite'[p] = invite[p]
           /\ \A p \in People : reset'[p] # NoToken /\ reset'[p].n # minted + 1
                                  => /\ reset[p] # NoToken /\ reset'[p].n = reset[p].n
                                     /\ reset'[p] = reset[p] \/ reset'[p].by = Nobody
           /\ setup'.n \in {setup.n, 0, minted + 1}
           /\ setup' # NoToken /\ setup'.n # minted + 1 => setup' = setup
  <1>1. NoToken.n = 0
    BY DEF NoToken
  <1>2. ASSUME NEW p \in People, InviteStays(p)
        PROVE  /\ invite'[p].n \in {invite[p].n, 0}
               /\ invite'[p] # NoToken => invite'[p] = invite[p]
    BY <1>1, <1>2 DEF InviteStays
  <1>3. ASSUME NEW p \in People, ResetStays(p)
        PROVE  /\ reset'[p].n \in {reset[p].n, 0}
               /\ reset'[p] # NoToken => /\ reset[p] # NoToken /\ reset'[p].n = reset[p].n
                                         /\ reset'[p] = reset[p] \/ reset'[p].by = Nobody
    BY <1>1, <1>3 DEF ResetStays
  <1>4. SetupStays => setup'.n \in {setup.n, 0} /\ (setup' # NoToken => setup' = setup)
    BY <1>1 DEF SetupStays
  <1>5. ASSUME NEW p \in People PROVE InviteStays(p) \/ invite'[p].n = minted + 1
    BY DEF LinkStep
  <1>6. ASSUME NEW p \in People PROVE ResetStays(p) \/ reset'[p].n = minted + 1
    BY DEF LinkStep
  <1>7. SetupStays \/ setup'.n = minted + 1
    BY DEF LinkStep
  <1> QED BY <1>2, <1>3, <1>4, <1>5, <1>6, <1>7

\* No two links have one number.
LEMMA DistinctKept ==
    ASSUME AccountsTypeOK, AccountsTypeOK', Distinct, LinkStep
    PROVE  Distinct'
  <1>n. /\ minted \in Nat /\ minted' \in Nat /\ minted' \in {minted, minted + 1} /\ NoToken.n = 0
        /\ \A p \in People : /\ invite[p].n \in Nat /\ (invite[p].n = 0 <=> invite[p] = NoToken)
                             /\ reset[p].n \in Nat /\ (reset[p].n = 0 <=> reset[p] = NoToken)
                             /\ invite'[p].n \in Nat /\ (invite'[p].n = 0 <=> invite'[p] = NoToken)
                             /\ reset'[p].n \in Nat /\ (reset'[p].n = 0 <=> reset'[p] = NoToken)
        /\ setup.n \in Nat /\ (setup.n = 0 <=> setup = NoToken)
        /\ setup'.n \in Nat /\ (setup'.n = 0 <=> setup' = NoToken)
    BY Numbers, NumbersNext DEF LinkStep
  <1>d. /\ \A p \in People : invite[p].n <= minted /\ reset[p].n <= minted
        /\ setup.n <= minted
        /\ \A p, q \in People :
             /\ invite[p].n # 0 /\ invite[p].n = invite[q].n => p = q
             /\ reset[p].n # 0 /\ reset[p].n = reset[q].n => p = q
             /\ invite[p].n # 0 => invite[p].n # reset[q].n
        /\ setup.n # 0 => \A p \in People : setup.n # invite[p].n /\ setup.n # reset[p].n
    BY <1>n DEF Distinct
  <1>k. /\ \A p \in People : InviteStays(p) => invite'[p].n \in {invite[p].n, 0}
        /\ \A p \in People : ResetStays(p) => reset'[p].n \in {reset[p].n, 0}
        /\ SetupStays => setup'.n \in {setup.n, 0}
    BY <1>n DEF InviteStays, ResetStays, SetupStays
  <1> SUFFICES /\ \A p \in People : invite'[p].n <= minted' /\ reset'[p].n <= minted'
               /\ setup'.n <= minted'
               /\ \A p, q \in People :
                    /\ invite'[p].n # 0 /\ invite'[p].n = invite'[q].n => p = q
                    /\ reset'[p].n # 0 /\ reset'[p].n = reset'[q].n => p = q
                    /\ invite'[p].n # 0 => invite'[p].n # reset'[q].n
               /\ setup'.n # 0 => \A p \in People : setup'.n # invite'[p].n /\ setup'.n # reset'[p].n
    BY <1>n DEF Distinct
  <1>1. CASE /\ minted' = minted /\ SetupStays
             /\ \A p \in People : InviteStays(p) /\ ResetStays(p)
    <2>1. /\ \A p \in People : invite'[p].n \in {invite[p].n, 0} /\ reset'[p].n \in {reset[p].n, 0}
          /\ setup'.n \in {setup.n, 0}
      BY <1>1, <1>k
    <2> QED BY <1>1, <1>n, <1>d, <2>1
  <1>2. CASE /\ minted' = minted + 1 /\ setup'.n = minted + 1
             /\ \A p \in People : InviteStays(p) /\ ResetStays(p)
    <2>1. \A p \in People : invite'[p].n \in {invite[p].n, 0} /\ reset'[p].n \in {reset[p].n, 0}
      BY <1>2, <1>k
    <2> QED BY <1>2, <1>n, <1>d, <2>1
  <1>3. CASE /\ minted' = minted + 1 /\ SetupStays
             /\ \A p \in People : ResetStays(p)
             /\ \E q \in People : /\ invite'[q].n = minted + 1
                                  /\ \A p \in People : p # q => InviteStays(p)
    <2>1. PICK q \in People : /\ invite'[q].n = minted + 1
                              /\ \A p \in People : p # q => InviteStays(p)
      BY <1>3
    <2>2. /\ \A p \in People : (p # q => invite'[p].n \in {invite[p].n, 0}) /\ reset'[p].n \in {reset[p].n, 0}
          /\ setup'.n \in {setup.n, 0}
      BY <1>3, <1>k, <2>1
    <2> QED BY <1>3, <1>n, <1>d, <2>1, <2>2
  <1>4. CASE /\ minted' = minted + 1 /\ SetupStays
             /\ \A p \in People : InviteStays(p)
             /\ \E q \in People : /\ reset'[q].n = minted + 1
                                  /\ \A p \in People : p # q => ResetStays(p)
    <2>1. PICK q \in People : /\ reset'[q].n = minted + 1
                              /\ \A p \in People : p # q => ResetStays(p)
      BY <1>4
    <2>2. /\ \A p \in People : (p # q => reset'[p].n \in {reset[p].n, 0}) /\ invite'[p].n \in {invite[p].n, 0}
          /\ setup'.n \in {setup.n, 0}
      BY <1>4, <1>k, <2>1
    <2> QED BY <1>4, <1>n, <1>d, <2>1, <2>2
  <1> QED BY <1>1, <1>2, <1>3, <1>4 DEF LinkStep

\* Which links are usable.
LEMMA UsableAre ==
    ASSUME Sound, NEW n \in UsableTokens
    PROVE  /\ n \in Nat \ {0}
           /\ \/ \E p \in People : AcceptableInvite(p) /\ invite[p].n = n
              \/ \E p \in People : UsableReset(p) /\ reset[p].n = n
              \/ \E p \in People : LiveOwnerSetup(p) /\ setup.n = n
  <1>1. \/ \E p \in People : AcceptableInvite(p) /\ invite[p].n = n
        \/ \E p \in People : UsableReset(p) /\ reset[p].n = n
        \/ \E p \in People : LiveOwnerSetup(p) /\ setup.n = n
    BY DEF UsableTokens
  <1> QED BY <1>1, Numbers DEF Sound, AcceptableInvite, UsableReset, LiveOwnerSetup

\* The history of lapsed links stays true.
LEMMA LapsedStepKept ==
    ASSUME AccountsKept, Kept,
           lapsed' = (lapsed \cup (UsableTokens \ UsableTokens')) \cap OpenTokens'
    PROVE  LapsedKept'
  <1>t. AccountsTypeOK /\ AccountsTypeOK' /\ Sound /\ Sound' /\ LinkStep /\ InvitesHold /\ Distinct
    BY DEF AccountsKept, Kept, Sound
  <1>n. /\ minted \in Nat /\ NoToken.n = 0
        /\ \A p \in People : /\ invite[p].n \in Nat /\ (invite[p].n = 0 <=> invite[p] = NoToken)
                             /\ reset[p].n \in Nat /\ (reset[p].n = 0 <=> reset[p] = NoToken)
                             /\ invite'[p].n \in Nat /\ (invite'[p].n = 0 <=> invite'[p] = NoToken)
                             /\ reset'[p].n \in Nat /\ (reset'[p].n = 0 <=> reset'[p] = NoToken)
        /\ setup.n \in Nat /\ (setup.n = 0 <=> setup = NoToken)
        /\ setup'.n \in Nat /\ (setup'.n = 0 <=> setup' = NoToken)
    BY <1>t, Numbers, NumbersNext
  <1> SUFFICES ASSUME NEW n \in lapsed'
               PROVE  \E p \in People : reset'[p] # NoToken /\ reset'[p].n = n /\ reset'[p].by = Nobody
    BY DEF LapsedKept
  <1>0. n \in lapsed \/ (n \in UsableTokens /\ n \notin UsableTokens')
    OBVIOUS
  <1>1. /\ n \in Nat \ {0} /\ n <= minted
        /\ \/ \E p \in People : reset[p].n = n /\ reset[p].by = Nobody
           \/ n \notin UsableTokens' /\ \E p \in People : AcceptableInvite(p) /\ invite[p].n = n
           \/ n \notin UsableTokens' /\ \E p \in People : UsableReset(p) /\ reset[p].n = n
           \/ n \notin UsableTokens' /\ \E p \in People : LiveOwnerSetup(p) /\ setup.n = n
    <2>1. CASE n \in lapsed
      BY <1>n, <2>1 DEF AccountsKept, LapsedKept, Distinct
    <2>2. CASE n \in UsableTokens /\ n \notin UsableTokens'
      BY <1>n, <1>t, <2>2, UsableAre DEF Distinct
    <2> QED BY <1>0, <2>1, <2>2
  <1>2. \/ \E q \in People : invite'[q].n = n
        \/ \E q \in People : reset'[q].n = n
        \/ setup'.n = n
    BY DEF OpenTokens
  <1>3. ASSUME NEW q \in People, invite'[q].n = n
        PROVE  FALSE
    <2>1. invite'[q] = invite[q] /\ invite[q].n = n /\ invite[q] # NoToken
      BY <1>1, <1>3, <1>n, <1>t, SameSlot
    <2>2. n \notin UsableTokens' /\ AcceptableInvite(q)
      BY <1>1, <1>t, <2>1 DEF Distinct, LiveOwnerSetup
    <2>3. AcceptableInvite(q)'
      BY <1>t, <2>1, <2>2 DEF InvitesHold
    <2> QED BY <1>3, <2>2, <2>3 DEF UsableTokens
  <1>4. ASSUME setup'.n = n
        PROVE  FALSE
    <2>1. setup' = setup /\ setup.n = n /\ setup # NoToken
      BY <1>1, <1>4, <1>n, <1>t, SameSlot
    <2>2. n \notin UsableTokens'
      BY <1>1, <1>t, <2>1 DEF Distinct, AcceptableInvite, UsableReset
    <2>3. PICK o : o = setup.who
      OBVIOUS
    <2>4. o \in People /\ setup'.who = o
      BY <1>t, <2>1, <2>3 DEF AccountsTypeOK, SetupToken
    <2>5. LiveOwnerSetup(o)'
      BY <1>t, <2>1, <2>4 DEF Sound, SetupKept
    <2> QED BY <1>4, <2>2, <2>4, <2>5 DEF UsableTokens
  <1>5. ASSUME NEW q \in People, reset'[q].n = n
        PROVE  reset'[q] # NoToken /\ reset'[q].by = Nobody
    <2>1. /\ reset'[q] # NoToken /\ reset[q] # NoToken /\ reset[q].n = n
          /\ reset'[q] = reset[q] \/ reset'[q].by = Nobody
      BY <1>1, <1>5, <1>n, <1>t, SameSlot
    <2>2. reset[q].by = Nobody \/ n \notin UsableTokens'
      BY <1>1, <1>t, <2>1 DEF Distinct
    <2>3. CASE n \notin UsableTokens' /\ reset'[q].by # Nobody
      <3>1. IssuerStillManages(q)'
        BY <1>t, <2>1, <2>3 DEF Sound, ResetsKept
      <3>2. UsableReset(q)'
        BY <2>1, <3>1 DEF UsableReset
      <3> QED BY <1>5, <2>3, <3>2 DEF UsableTokens
    <2> QED BY <2>1, <2>2, <2>3
  <1> QED BY <1>2, <1>3, <1>4, <1>5

-----------------------------------------------------------------------------
(* The invariant.                                                          *)

\* The invariant holds at the start.
LEMMA AccountsStart == AccountsInit => AccountsKept
  <1> SUFFICES ASSUME AccountsInit PROVE AccountsKept
    OBVIOUS
  <1>1. PICK staff \in {w.staff : w \in {v \in Staffings : v.happening = happening}} :
         /\ account = [p \in People |->
                IF staff[p] = "none" THEN NoAccount
                ELSE [id |-> 1, role |-> staff[p], disabled |-> FALSE, cred |-> 1]]
         /\ used = [p \in People |-> IF staff[p] = "none" THEN 0 ELSE 1]
         /\ content \in {Nobody} \cup {p \in People : staff[p] = "admin"}
         /\ session = {[who |-> p, cred |-> 1, whileDisabled |-> FALSE] :
                           p \in {q \in People : staff[q] # "none"}}
    BY DEF AccountsInit
  <1>3. /\ staff \in [People -> {"none", "owner", "admin", "member"}]
        /\ \/ \A p \in People : staff[p] = "none"
           \/ \E p \in People : \A q \in People : staff[q] = "owner" <=> q = p
    <2>1. PICK w \in Staffings : staff = w.staff
      OBVIOUS
    <2> QED BY <2>1, StaffingAssumption
  <1>4. /\ \A p \in People : invite[p] = NoToken /\ reset[p] = NoToken /\ key[p] = NoApiKey
        /\ setup = NoToken /\ \A r \in Requests : req[r] = NoReq
        /\ minted = 0 /\ lapsed = {}
        /\ invite \in [People -> {NoToken}] /\ reset \in [People -> {NoToken}]
        /\ key \in [People -> {NoApiKey}] /\ req \in [Requests -> {NoReq}]
    BY DEF AccountsInit
  <1>5. ASSUME NEW p \in People
        PROVE  /\ staff[p] = "none" => account[p] = NoAccount
               /\ staff[p] # "none" => /\ account[p] \in UserRow /\ account[p].role = staff[p]
                                       /\ account[p].disabled = FALSE /\ account[p].cred = 1
    <2>1. staff[p] # "none" => account[p] = [id |-> 1, role |-> staff[p], disabled |-> FALSE, cred |-> 1]
      BY <1>1
    <2>2. 1 \in 1..MaxCredentials /\ 1 \in 0..MaxCredentials
      BY AccountConstants
    <2>3. staff[p] # "none" => staff[p] \in UserRoles
      BY <1>3 DEF UserRoles
    <2> QED BY <1>1, <2>1, <2>2, <2>3 DEF UserRow
  <1>6. ASSUME NEW p \in People
        PROVE  /\ Exists(p) <=> staff[p] # "none"
               /\ Exists(p) => Active(p) /\ HasPassword(p) /\ account[p].role = staff[p]
    <2>1. CASE staff[p] = "none"
      BY <1>5, <2>1 DEF Exists
    <2>2. CASE staff[p] # "none"
      <3>1. account[p] # NoAccount
        BY <1>5, <2>2, RealRow
      <3>2. account[p].disabled = FALSE /\ account[p].cred # NoPassword
        <4>1. account[p].disabled = FALSE /\ account[p].cred = 1
          BY <1>5, <2>2
        <4> QED BY <4>1 DEF NoPassword
      <3> QED BY <1>5, <2>2, <3>1, <3>2 DEF Exists, Active, HasPassword
    <2> QED BY <2>1, <2>2
  <1>7. \A s \in session : /\ s \in SessionRow /\ s.who \in People /\ staff[s.who] # "none"
                           /\ s.cred = 1 /\ ~s.whileDisabled
    <2>1. 1 \in 1..MaxCredentials
      BY AccountConstants
    <2> SUFFICES ASSUME NEW s \in session
                 PROVE  /\ s \in SessionRow /\ s.who \in People /\ staff[s.who] # "none"
                        /\ s.cred = 1 /\ ~s.whileDisabled
      OBVIOUS
    <2>2. PICK p \in People : /\ staff[p] # "none"
                              /\ s = [who |-> p, cred |-> 1, whileDisabled |-> FALSE]
      BY <1>1
    <2> QED BY <2>1, <2>2 DEF SessionRow
  <1>8. AccountsTypeOK
    <2>1. account \in [People -> UserRow \cup {NoAccount}]
      BY <1>1, <1>5
    <2>2. used \in [People -> 0..MaxCredentials]
      BY <1>1, AccountConstants
    <2>3. NoApiKey \in ApiKey
      BY DEF NoApiKey, ApiKey
    <2>4. content \in People \cup {Nobody} /\ minted \in 0..MaxTokens
      BY <1>1, <1>4, AccountConstants
    <2> QED BY <1>4, <1>7, <2>1, <2>2, <2>3, <2>4 DEF AccountsTypeOK
  <1>9. RequestsAreWhole
    BY <1>4 DEF RequestsAreWhole, NoReq
  <1>10. OwnerKept
    <2>1. ASSUME NEW o \in People, \A q \in People : staff[q] = "owner" <=> q = o
          PROVE  SoleOwner(o)
      BY <1>6, <2>1 DEF SoleOwner, IsOwner
    <2> QED BY <1>3, <1>6, <2>1 DEF OwnerKept
  <1>11. ClaimedKept
    <2>1. ~Claimed => \A p \in People : ~Exists(p)
      BY <1>6 DEF Claimed
    <2>2. ~Claimed => session = {}
      BY <1>6, <1>7, <2>1
    <2> QED BY <1>4, <1>6, <2>1, <2>2 DEF ClaimedKept
  <1>12. SessionsKept
    BY <1>5, <1>6, <1>7 DEF SessionsKept
  <1>13. CreatedAdminKeysFollowRole /\ ResetsKept /\ SetupKept
    BY <1>4 DEF CreatedAdminKeysFollowRole, ResetsKept, SetupKept, NoApiKey
  <1>14. Distinct /\ LapsedKept
    BY <1>4 DEF Distinct, LapsedKept, NoToken
  <1> QED BY <1>8, <1>9, <1>10, <1>11, <1>12, <1>13, <1>14 DEF AccountsKept, Sound

\* Every step keeps it.
LEMMA AccountsStep == AccountsKept /\ [AccountsNext]_accountVars => AccountsKept'
  <1>1. ASSUME AccountsKept, AccountsNext PROVE AccountsKept'
    <2>1. Kept
      BY <1>1, StepKept DEF AccountsKept, AccountsNext
    <2>2. Distinct'
      BY <1>1, <2>1, DistinctKept DEF AccountsKept, Kept, Sound
    <2>3. LapsedKept'
      BY <1>1, <2>1, LapsedStepKept DEF AccountsNext
    <2> QED BY <2>1, <2>2, <2>3 DEF AccountsKept, Kept
  <1>2. ASSUME AccountsKept, UNCHANGED accountVars PROVE AccountsKept'
    <2>1. Quiet /\ UNCHANGED <<req, lapsed>>
      BY <1>2 DEF accountVars, Quiet
    <2>2. req' \in [Requests -> Request \cup {NoReq}] /\ RequestsAreWhole'
      BY <1>2, <2>1 DEF AccountsKept, Sound, AccountsTypeOK, RequestsAreWhole
    <2>3. Kept
      BY <1>2, <2>1, <2>2, QuietKept DEF AccountsKept, Sound, ClaimedKept
    <2>4. Distinct' /\ LapsedKept'
      BY <1>2, <2>1 DEF AccountsKept, Distinct, LapsedKept, Quiet
    <2> QED BY <2>3, <2>4 DEF AccountsKept, Kept
  <1> QED BY <1>1, <1>2

\* So it always holds.
LEMMA AccountsInvariant == AccountsSpec => []AccountsKept
  BY AccountsStart, AccountsStep, PTL DEF AccountsSpec

\* Once anyone has an account, exactly one account is the owner's and it is
\* active, for any number of people and of concurrent transfers, role changes,
\* removals and boots (runAccountAction and the owner lock).
THEOREM OwnerIsUnique == AccountsSpec => []OneOwner
  <1>1. AccountsKept => OneOwner
    <2> SUFFICES ASSUME AccountsKept, \E p \in People : Exists(p)
                 PROVE  Cardinality(Owners) = 1 /\ Active(Owner)
      BY DEF OneOwner
    <2>1. PICK o \in People : SoleOwner(o)
      BY DEF AccountsKept, Sound, OwnerKept
    <2>2. Owners = {o}
      BY <2>1 DEF Owners, SoleOwner, IsOwner
    <2>3. Owner = o
      BY <2>2 DEF Owner
    <2> QED BY <2>1, <2>2, <2>3, FS_Singleton DEF SoleOwner
  <1> QED BY <1>1, AccountsInvariant, PTL

\* Sessions, links and keys follow the account as it is now: no usable session
\* of an old password or of a disabled time, no lapsed link that works again, no
\* admin key created for someone who is no admin.
THEOREM RightsFollowAccounts == AccountsSpec => []RightsAreCurrent
  <1>1. AccountsKept => RightsAreCurrent
    <2> SUFFICES ASSUME AccountsKept PROVE RightsAreCurrent
      OBVIOUS
    <2>t. Sound /\ AccountsTypeOK /\ Distinct /\ LapsedKept
      BY DEF AccountsKept, Sound
    <2>1. LapsedStayLapsed
      <3> SUFFICES ASSUME NEW n \in lapsed, n \in UsableTokens PROVE FALSE
        BY DEF LapsedStayLapsed
      <3>1. PICK p \in People : reset[p] # NoToken /\ reset[p].n = n /\ reset[p].by = Nobody
        BY <2>t DEF LapsedKept
      <3>2. \/ \E q \in People : AcceptableInvite(q) /\ invite[q].n = n
            \/ \E q \in People : UsableReset(q) /\ reset[q].n = n
            \/ \E q \in People : LiveOwnerSetup(q) /\ setup.n = n
        BY <2>t, UsableAre
      <3>3. UsableReset(p)
        BY <2>t, <3>1, <3>2 DEF Distinct, AcceptableInvite, LiveOwnerSetup
      <3> QED BY <3>1, <3>3 DEF UsableReset, IssuerStillManages
    <2>2. SessionIsCurrent
      BY <2>t DEF Sound, SessionsKept, SessionIsCurrent, Active
    <2> QED BY <2>t, <2>1, <2>2 DEF RightsAreCurrent, Sound
  <1> QED BY <1>1, AccountsInvariant, PTL

-----------------------------------------------------------------------------
(* What a step does to one row.                                            *)

\* Only the owner's bootstrap and an accepted invitation make a row, and only a
\* setup link, a reset link or the password itself changes a password.
LEMMA RowMoves ==
    ASSUME AccountsKept, AccountStep, NEW p \in People
    PROVE  \/ account'[p] = account[p]
           \/ account'[p] = NoAccount
           \/ Exists(p) /\ account'[p].cred = account[p].cred
           \/ ~Exists(p) /\ account'[p].role = "owner"
           \/ ~Exists(p) /\ AcceptInvitation(p) /\ account'[p].role = invite[p].role
           \/ CompleteOwnerSetup(p) \/ CompletePasswordReset(p)
           \/ \E r \in Requests : /\ ChangePassword(r) /\ CredentialUnchanged(r)
                                  /\ req[r].who = p /\ req[r].kind = "change_password"
  <1> DEFINE Moves == \/ account'[p] = account[p]
                      \/ account'[p] = NoAccount
                      \/ Exists(p) /\ account'[p].cred = account[p].cred
                      \/ ~Exists(p) /\ account'[p].role = "owner"
                      \/ ~Exists(p) /\ AcceptInvitation(p) /\ account'[p].role = invite[p].role
                      \/ CompleteOwnerSetup(p) \/ CompletePasswordReset(p)
                      \/ \E r \in Requests : /\ ChangePassword(r) /\ CredentialUnchanged(r)
                                             /\ req[r].who = p /\ req[r].kind = "change_password"
  <1>t. Sound /\ account \in [People -> UserRow \cup {NoAccount}]
    BY DEF AccountsKept, Sound, AccountsTypeOK
  <1>same. ASSUME UNCHANGED account PROVE Moves
    BY <1>same
  \* One field of one existing row, not the password.
  <1>field. ASSUME NEW t \in People, NEW u, account' = [account EXCEPT ![t] = u],
                   Exists(t), u.cred = account[t].cred
            PROVE  Moves
    <2>1. CASE p = t
      BY <1>t, <1>field, <2>1
    <2>2. CASE p # t
      BY <1>t, <1>field, <2>2
    <2> QED BY <2>1, <2>2
  <1>pass. ASSUME NEW t \in People, NewPassword(t), p # t PROVE Moves
    BY <1>t, <1>pass DEF NewPassword
  <1>new. ASSUME NEW t \in People, CreateOwner(t), ~Exists(t) PROVE Moves
    <2>1. CASE p = t
      BY <1>t, <1>new, <2>1 DEF CreateOwner
    <2>2. CASE p # t
      BY <1>t, <1>new, <2>2 DEF CreateOwner
    <2> QED BY <2>1, <2>2
  <1>1. ASSUME NEW r \in Requests, UsersPage(r) PROVE Moves
    <2>1. ASSUME NEW k \in AccountActions, RunAccountAction(r, k), NEW t, t = req[r].target
          PROVE  t \in People /\ Exists(t) /\ account[t] \in UserRow
      BY <1>t, <2>1, ActionFacts
    <2>2. ASSUME ChangeAccountRole(r) PROVE Moves
      <3>1. PICK t : t = req[r].target
        OBVIOUS
      <3>2. PICK u : u = [account[t] EXCEPT !.role = req[r].asked]
        OBVIOUS
      <3>3. t \in People /\ Exists(t) /\ account[t] \in UserRow /\ account' = [account EXCEPT ![t] = u]
        BY <2>1, <2>2, <3>1, <3>2 DEF ChangeAccountRole, AccountActions
      <3>4. u.cred = account[t].cred
        BY <3>2, <3>3 DEF UserRow
      <3> QED BY <1>field, <3>3, <3>4
    <2>3. ASSUME DeactivateAccount(r) PROVE Moves
      <3>1. PICK t : t = req[r].target
        OBVIOUS
      <3>2. PICK u : u = [account[t] EXCEPT !.disabled = TRUE]
        OBVIOUS
      <3>3. t \in People /\ Exists(t) /\ account[t] \in UserRow /\ account' = [account EXCEPT ![t] = u]
        BY <2>1, <2>3, <3>1, <3>2 DEF DeactivateAccount, AccountActions
      <3>4. u.cred = account[t].cred
        BY <3>2, <3>3 DEF UserRow
      <3> QED BY <1>field, <3>3, <3>4
    <2>4. ASSUME ReactivateAccount(r) PROVE Moves
      <3>1. PICK t : t = req[r].target
        OBVIOUS
      <3>2. PICK u : u = [account[t] EXCEPT !.disabled = FALSE]
        OBVIOUS
      <3>3. t \in People /\ Exists(t) /\ account[t] \in UserRow /\ account' = [account EXCEPT ![t] = u]
        BY <2>1, <2>4, <3>1, <3>2 DEF ReactivateAccount, AccountActions
      <3>4. u.cred = account[t].cred
        BY <3>2, <3>3 DEF UserRow
      <3> QED BY <1>field, <3>3, <3>4
    <2>5. ASSUME RemoveAccount(r) PROVE Moves
      BY <1>t, <2>5 DEF RemoveAccount
    <2>6. ASSUME TransferOwnership(r) PROVE Moves
      <3>1. PICK a : a = req[r].who
        OBVIOUS
      <3>2. PICK t : t = req[r].target
        OBVIOUS
      <3>3. /\ a \in People /\ t \in People /\ a # t /\ Exists(a) /\ Exists(t)
            /\ account[a] \in UserRow /\ account[t] \in UserRow
        BY <1>t, <2>6, <3>1, <3>2, ActionFacts, Columns DEF TransferOwnership, AccountActions, Sound
      <3>4. account' = [account EXCEPT ![a].role = "admin", ![t].role = "owner"]
        BY <2>6, <3>1, <3>2 DEF TransferOwnership
      <3>5. /\ account'[a] = [account[a] EXCEPT !.role = "admin"]
            /\ account'[t] = [account[t] EXCEPT !.role = "owner"]
            /\ p \notin {a, t} => account'[p] = account[p]
        BY <1>t, <3>3, <3>4
      <3>6. account'[a].cred = account[a].cred /\ account'[t].cred = account[t].cred
        BY <3>3, <3>5 DEF UserRow
      <3> QED BY <3>3, <3>5, <3>6
    <2>7. \/ ChangeAccountRole(r) \/ DeactivateAccount(r) \/ ReactivateAccount(r)
          \/ RemoveAccount(r) \/ TransferOwnership(r) \/ UNCHANGED account
      BY <1>1 DEF UsersPage, BeginRequest, BeginTransfer, IssuePasswordReset, ActionRefused, Refused, Quiet
    <2> HIDE DEF Moves
    <2> QED BY <1>same, <2>2, <2>3, <2>4, <2>5, <2>6, <2>7
  <1>2. ASSUME NEW r \in Requests, InvitationsPage(r) \/ LoginPage(r) \/ ApiKeysPage(r) PROVE Moves
    <2>1. InvitationsPage(r) => UNCHANGED account
      BY DEF InvitationsPage, BeginInvite, FindPendingById, CreateInvitation, ReplaceInvite,
             ResendInvitation, RevokeInvitation, BeginRequest, Refused, Quiet
    <2>2. LoginPage(r) => UNCHANGED account
      BY DEF LoginPage, VerifyPasswordLogin, OpenSession, Quiet
    <2>3. ApiKeysPage(r) => UNCHANGED account
      BY DEF ApiKeysPage, ReadKeyCreator, CreateApiKey, SetApiKeyAdmin, BeginRequest, Quiet
    <2> HIDE DEF Moves
    <2> QED BY <1>2, <1>same, <2>1, <2>2, <2>3
  <1>3. ASSUME NEW r \in Requests, PasswordPage(r) PROVE Moves
    <2>1. UNCHANGED account \/ ChangePassword(r)
      BY <1>3 DEF PasswordPage, BeginRequest, Quiet
    <2>2. ASSUME ChangePassword(r) PROVE Moves
      <3>1. req[r].kind = "change_password" /\ req[r].who \in People
        BY <1>t, <2>2, RequestColumns DEF ChangePassword, Caller, Sound
      <3>2. Quiet \/ (CredentialUnchanged(r) /\ NewPassword(req[r].who))
        BY <2>2 DEF ChangePassword
      <3>3. CASE Quiet
        BY <1>same, <3>3 DEF Quiet
      <3>4. CASE CredentialUnchanged(r) /\ NewPassword(req[r].who) /\ p # req[r].who
        BY <1>t, <3>1, <3>4 DEF NewPassword
      <3>5. CASE CredentialUnchanged(r) /\ p = req[r].who
        BY <2>2, <3>1, <3>5
      <3> QED BY <3>2, <3>3, <3>4, <3>5
    <2> QED BY <1>same, <2>1, <2>2
  <1>4. ASSUME NEW t \in OwnerEmails, BootstrapOwner(t) PROVE Moves
    <2>0. t \in People
      BY AccountConstants
    <2>1. CASE Owners = {} /\ ~Exists(t) /\ CreateOwner(t)
      BY <1>new, <2>0, <2>1
    <2>2. CASE /\ Owners # {} /\ (t = Owner \/ ~Exists(t))
               /\ account' = [account EXCEPT ![Owner] = NoAccount, ![t] = account[Owner]]
      <3>1. PICK o : o = Owner
        OBVIOUS
      <3>2. o \in People /\ IsOwner(o)
        BY <2>2, <3>1 DEF Owner, Owners, IsOwner
      <3>3. account' = [account EXCEPT ![o] = NoAccount, ![t] = account[o]]
        BY <2>2, <3>1
      <3>4. CASE p = t
        BY <1>t, <2>0, <2>2, <3>1, <3>2, <3>3, <3>4 DEF IsOwner
      <3>5. CASE p # t /\ p = o
        BY <1>t, <2>0, <3>2, <3>3, <3>5
      <3>6. CASE p # t /\ p # o
        BY <1>t, <2>0, <3>2, <3>3, <3>6
      <3> QED BY <3>4, <3>5, <3>6
    <2>3. CASE UNCHANGED account
      BY <1>same, <2>3
    <2> HIDE DEF Moves
    <2> QED BY <1>4, <2>1, <2>2, <2>3 DEF BootstrapOwner
  <1>5. ASSUME NEW t \in People, \/ IssueOwnerSetupLink(t) \/ SetupPage(t)
                                 \/ InvitePage(t) \/ ResetPage(t) \/ Expire(t)
        PROVE  Moves
    <2>1. IssueOwnerSetupLink(t) => Moves
      BY <1>same, <1>new DEF IssueOwnerSetupLink
    <2>2. CompleteOwnerSetup(t) => Moves
      BY <1>pass DEF CompleteOwnerSetup
    <2>3. CompletePasswordReset(t) => Moves
      BY <1>pass DEF CompletePasswordReset
    <2>4. ASSUME AcceptInvitation(t) PROVE Moves
      <3>1. CASE UNCHANGED account
        BY <1>same, <3>1
      <3>2. CASE /\ ~Exists(t)
                 /\ account' = [account EXCEPT ![t] =
                        [id |-> used[t] + 1, role |-> invite[t].role, disabled |-> FALSE,
                         cred |-> used[t] + 1]]
        <4>1. CASE p = t
          BY <1>t, <2>4, <3>2, <4>1
        <4>2. CASE p # t
          BY <1>t, <3>2, <4>2
        <4> QED BY <4>1, <4>2
      <3> QED BY <2>4, <3>1, <3>2 DEF AcceptInvitation
    <2>5. Expire(t) => Moves
      BY <1>same DEF Expire
    <2> HIDE DEF Moves
    <2> QED BY <1>5, <2>1, <2>2, <2>3, <2>4, <2>5 DEF SetupPage, InvitePage, ResetPage
  <1>6. ASSUME NEW s \in session, Logout(s) PROVE Moves
    BY <1>6, <1>same DEF Logout
  <1>7. ASSUME NEW a \in People, NEW t \in People, MakeKeyRestricted(a, t) \/ RevokeApiKey(a, t)
        PROVE  Moves
    BY <1>7, <1>same DEF MakeKeyRestricted, RevokeApiKey
  <1> HIDE DEF Moves
  <1>8. Moves
    BY <1>1, <1>2, <1>3, <1>4, <1>5, <1>6, <1>7 DEF AccountStep
  <1> QED BY <1>8 DEF Moves

\* Roles and passwords change only on a proof that holds at that moment: a new
\* account gets a role that an active inviter can grant now, a password is
\* replaced by its own link or by a request that proved that very password.
THEOREM ChangesNeedProof == AccountsSpec => ChangesAreAuthorised
  <1> DEFINE Granted ==
               \A p \in People :
                 ~Exists(p) /\ Exists(p)' /\ account'[p].role # "owner" =>
                    \E a \in People : /\ Active(a)
                                      /\ account'[p].role \in GrantableRoles(account[a].role)
                                      /\ invite[p].by = a
             Proved ==
               \A p \in People :
                 (Exists(p) /\ Exists(p)' /\ account'[p].id = account[p].id
                    /\ account'[p].cred # account[p].cred)
                 => \/ UsableReset(p) /\ reset'[p] = NoToken
                    \/ LiveOwnerSetup(p) /\ setup' = NoToken
                    \/ \E r \in Requests : /\ req[r].kind = "change_password" /\ req[r].who = p
                                           /\ req[r].cred = account[p].cred
                                           /\ req'[r] = NoReq
  <1>1. ASSUME AccountsKept, AccountsNext PROVE Granted
    <2> SUFFICES ASSUME NEW p \in People, ~Exists(p), Exists(p)', account'[p].role # "owner"
                 PROVE  \E a \in People : /\ Active(a)
                                          /\ account'[p].role \in GrantableRoles(account[a].role)
                                          /\ invite[p].by = a
      OBVIOUS
    <2>1. AcceptInvitation(p) /\ account'[p].role = invite[p].role
      <3>1. AccountStep
        BY <1>1 DEF AccountsNext
      <3>2. account'[p] # account[p] /\ account'[p] # NoAccount
        BY DEF Exists
      <3>3. /\ ~CompleteOwnerSetup(p) /\ ~CompletePasswordReset(p)
            /\ \A r \in Requests : ~(CredentialUnchanged(r) /\ req[r].who = p)
        BY DEF CompleteOwnerSetup, LiveOwnerSetup, CompletePasswordReset, UsableReset,
               IssuerStillManages, CredentialUnchanged, Active
      <3> QED BY <1>1, <3>1, <3>2, <3>3, RowMoves
    <2>2. /\ invite[p] # NoToken /\ invite[p].by # Nobody /\ Active(invite[p].by)
          /\ invite[p].role \in GrantableRoles(account[invite[p].by].role)
      BY <2>1 DEF AcceptInvitation, AcceptableInvite, InviterStillGrants
    <2>3. invite[p].by \in People
      BY <1>1, <2>2, Columns DEF AccountsKept, Sound
    <2> QED BY <2>1, <2>2, <2>3
  <1>2. ASSUME AccountsKept, AccountsNext PROVE Proved
    <2> SUFFICES ASSUME NEW p \in People, Exists(p), Exists(p)', account'[p].cred # account[p].cred
                 PROVE  \/ UsableReset(p) /\ reset'[p] = NoToken
                        \/ LiveOwnerSetup(p) /\ setup' = NoToken
                        \/ \E r \in Requests : /\ req[r].kind = "change_password" /\ req[r].who = p
                                               /\ req[r].cred = account[p].cred
                                               /\ req'[r] = NoReq
      OBVIOUS
    <2>1. \/ CompleteOwnerSetup(p) \/ CompletePasswordReset(p)
          \/ \E r \in Requests : /\ ChangePassword(r) /\ CredentialUnchanged(r)
                                 /\ req[r].who = p /\ req[r].kind = "change_password"
      <3>1. AccountStep
        BY <1>2 DEF AccountsNext
      <3>2. account'[p] # account[p] /\ account'[p] # NoAccount
        BY DEF Exists
      <3> QED BY <1>2, <3>1, <3>2, RowMoves
    <2>2. CASE CompleteOwnerSetup(p)
      BY <2>2 DEF CompleteOwnerSetup
    <2>3. CASE CompletePasswordReset(p)
      BY <2>3 DEF CompletePasswordReset, RevokeResetLinks
    <2>4. ASSUME NEW r \in Requests, ChangePassword(r), CredentialUnchanged(r), req[r].who = p,
                 req[r].kind = "change_password"
          PROVE  req[r].cred = account[p].cred /\ req'[r] = NoReq
      BY <1>2, <2>4 DEF ChangePassword, Done, CredentialUnchanged, AccountsKept, Sound, AccountsTypeOK
    <2> QED BY <2>1, <2>2, <2>3, <2>4
  <1>3. AccountsKept /\ [AccountsNext]_accountVars => [Granted /\ Proved]_accountVars
    BY <1>1, <1>2
  <1>4. AccountsSpec => [][Granted /\ Proved]_accountVars
    BY <1>3, AccountsInvariant, PTL DEF AccountsSpec
  <1>5. [Granted /\ Proved]_accountVars => [Granted]_accountVars /\ [Proved]_accountVars
    OBVIOUS
  <1>6. ChangesAreAuthorised <=> [][Granted]_accountVars /\ [][Proved]_accountVars
    BY DEF ChangesAreAuthorised, RoleGrantedNow, ChangeProvesCurrent
  <1> HIDE DEF Granted, Proved
  <1> QED BY <1>4, <1>5, <1>6, PTL
=============================================================================
