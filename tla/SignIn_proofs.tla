---------------------------- MODULE SignIn_proofs ----------------------------
(***************************************************************************)
(* Proofs about signing in to one account, for any number of requests in   *)
(* flight, sessions, token rotations, credentials and time steps, and any  *)
(* account to begin with.                                                  *)
(*                                                                         *)
(* Neither property is inductive.  AccountKept adds what the steps rely on:*)
(* a session of a link exists only while that link does, a request's       *)
(* presented token is recorded as seen, a request that holds a row or the  *)
(* link keeps it from going, a challenge or a redirect has its number in   *)
(* one place (the store, one request or the history), the app's steps grow,*)
(* and a secret not yet confirmed is of no app and no code.                *)
(***************************************************************************)
EXTENDS SignIn, TLAPS

\* A row of a session: what it shows it has earned.
RowKept(row) ==
    /\ row \in SessionRecord
    /\ row.assurance = "mfa" => row.proved
    /\ \A n \in 0..row.token : n \notin row.seen => n = row.token
    /\ row.method = "passkey" => row.cred \in passkeys
    /\ row.method = "oauth" => row.cred = link /\ link # None
RowsKept ==
    /\ sess = [s \in Ids |-> sess[s]]
    /\ \A s \in Ids : sess[s] # NoSession => s <= opened /\ RowKept(sess[s])

\* The account's other rows.
FactorsTyped ==
    /\ user \in [role : SignInRoles, disabled : BOOLEAN]
    /\ totp \in [id : 0..MaxFactors, step : 0..MaxSteps]
    /\ passkeys \subseteq Credentials /\ link \in 0..MaxFactors
    /\ recovery \subseteq Credentials
    /\ opened \in 0..MaxSessions /\ stored \in 0..MaxFactors
    /\ challenge \subseteq [purpose : Purposes, binding : 0..MaxSessions, n : Credentials]
    /\ flow \subseteq [purpose : FlowPurposes, sid : 0..MaxSessions, n : Credentials]

\* A request holds what its next step relies on.
RequestKept(r) ==
    /\ r.kind = "page" => /\ r.sid \in Ids /\ r.sid <= opened /\ r.tok \in 0..MaxRotations
                          /\ sess[r.sid] # NoSession => r.tok \in sess[r.sid].seen
    /\ r.kind = "login" => r.assurance \in {"pending", "password"}
    /\ r.kind = "second_step" =>
          /\ r.sid \in Ids /\ r.sid <= opened /\ r.code \in Codes
          /\ r.at = "matching" => sess[r.sid] # NoSession
    /\ r.kind = "confirm" => r.sid \in Ids
    /\ r.kind = "disable" => r.code \in Codes
    /\ r.kind = "sso" /\ r.at = "opening" => link # None /\ r.assurance \in {"pending", "password"}

\* A number of a challenge or of a redirect is in one place.
Numbered(r) == r.kind \in Purposes \cup {"link", "sso"} /\ r.at # "verified"
SpentNumber(n) == <<"challenge", n>> \in usedProofs \/ <<"flow", n>> \in usedProofs
NumbersKept ==
    /\ \A c \in challenge \cup flow : c.n <= stored /\ ~SpentNumber(c.n)
    /\ \A c, d \in challenge \cup flow : c.n = d.n => c = d
    /\ \A b \in Browsers : Numbered(job[b]) =>
          /\ job[b].n \in Credentials /\ job[b].n <= stored /\ ~SpentNumber(job[b].n)
          /\ \A c \in challenge \cup flow : c.n # job[b].n
    /\ \A b, d \in Browsers : Numbered(job[b]) /\ Numbered(job[d]) /\ job[b].n = job[d].n => b = d
    /\ \A n \in Nat : SpentNumber(n) => n <= stored

\* An app's steps and recovery codes are used in order, and a secret not yet
\* confirmed is of no app and no code.
TotpUsed(i, n) == <<"totp", i, n>> \in usedProofs
RecoveryUsed(i) == <<"recovery", i>> \in usedProofs
TotpInOrder ==
    /\ totp.id <= stored
    /\ \A i, n \in Nat : TotpUsed(i, n) => i # 0 /\ i <= stored /\ (i = totp.id => n <= totp.step)
RecoveryInOrder ==
    /\ \A i \in recovery : i <= stored /\ ~RecoveryUsed(i)
    /\ \A i \in Nat : RecoveryUsed(i) => i <= stored
SecretIsFresh(x) ==
    /\ x <= stored /\ x # totp.id /\ x \notin recovery /\ ~RecoveryUsed(x)
    /\ \A n \in Nat : ~TotpUsed(x, n)
HasSecret(s) == sess[s] # NoSession /\ sess[s].secret # None
SecretsFresh ==
    /\ \A s \in Ids : HasSecret(s) => SecretIsFresh(sess[s].secret)
    /\ \A s, t \in Ids : HasSecret(s) /\ HasSecret(t) /\ sess[s].secret = sess[t].secret => s = t
CodesKept == TotpInOrder /\ RecoveryInOrder /\ SecretsFresh

RequestsKept ==
    /\ job = [b \in Browsers |-> job[b]]
    /\ \A b \in Browsers : RequestKept(job[b])
AccountKept ==
    RowsKept /\ FactorsTyped /\ NumbersKept /\ CodesKept /\ RequestsKept /\ twice = {}

-----------------------------------------------------------------------------
\* The bounds are natural numbers, with room for what a beginning has.
LEMMA Bounds ==
    /\ MaxSessions \in Nat /\ MaxRotations \in Nat /\ MaxFactors \in Nat /\ MaxFactors >= 3
    /\ MaxSteps \in Nat /\ MaxSteps >= 1 /\ MaxSessions >= 1
  BY SignInConstants

\* A session's record is not the empty one.
LEMMA RowIsRow ==
    ASSUME NEW row \in SessionRecord
    PROVE  row # NoSession
<1>1. row.assurance \in Assurances /\ "none" \notin Assurances
  BY DEF SessionRecord, Assurances
<1> QED
  BY <1>1 DEF NoSession

\* What does not change when a row is updated.
SameHolder(row, new) ==
    /\ new.method = row.method /\ new.cred = row.cred /\ row.seen \subseteq new.seen
    /\ new \in SessionRecord

\* Presenting a token keeps the row.
LEMMA PresentedRow ==
    ASSUME NEW row, RowKept(row), NEW n \in 0..MaxRotations, NEW new, new = Presented(row, n)
    PROVE  RowKept(new) /\ SameHolder(row, new) /\ new.secret = row.secret /\ n \in new.seen
<1>1. row \in SessionRecord
  BY DEF RowKept
<1>2. /\ new \in SessionRecord /\ new.seen = row.seen \cup {n} /\ new.assurance = row.assurance
      /\ new.proved = row.proved /\ new.token = row.token /\ new.method = row.method
      /\ new.cred = row.cred /\ new.secret = row.secret
  BY <1>1 DEF SessionRecord, Presented
<1> QED
  BY <1>2 DEF RowKept, SameHolder

\* The end of the grace keeps the row.
LEMMA PastGraceRow ==
    ASSUME NEW row, RowKept(row), NEW new, new = PastGrace(row)
    PROVE  RowKept(new) /\ SameHolder(row, new) /\ new.secret = row.secret
<1>1. row \in SessionRecord
  BY DEF RowKept
<1>2. /\ new \in SessionRecord /\ new.seen = row.seen /\ new.assurance = row.assurance
      /\ new.proved = row.proved /\ new.token = row.token /\ new.method = row.method
      /\ new.cred = row.cred /\ new.secret = row.secret
  BY <1>1 DEF SessionRecord, PastGrace
<1> QED
  BY <1>2 DEF RowKept, SameHolder

\* A secret, or none, keeps the row.
LEMMA SecretRow ==
    ASSUME NEW row, RowKept(row), NEW secret \in 0..MaxFactors, NEW new, new = WithSecret(row, secret)
    PROVE  RowKept(new) /\ SameHolder(row, new) /\ new.secret = secret
<1>1. row \in SessionRecord
  BY DEF RowKept
<1>2. /\ new \in SessionRecord /\ new.seen = row.seen /\ new.assurance = row.assurance
      /\ new.proved = row.proved /\ new.token = row.token /\ new.method = row.method
      /\ new.cred = row.cred /\ new.secret = secret
  BY <1>1 DEF SessionRecord, WithSecret
<1> QED
  BY <1>2 DEF RowKept, SameHolder

\* A proved factor keeps the row.
LEMMA ProvedRow ==
    ASSUME NEW row, RowKept(row), NEW new, new = Proved(row)
    PROVE  RowKept(new) /\ SameHolder(row, new) /\ new.secret = row.secret
<1>1. row \in SessionRecord
  BY DEF RowKept
<1>2. PICK first : first = [row EXCEPT !.assurance = "mfa"]
  OBVIOUS
<1>3. /\ first \in SessionRecord /\ first.seen = row.seen /\ first.assurance = "mfa"
      /\ first.token = row.token /\ first.method = row.method
      /\ first.cred = row.cred /\ first.secret = row.secret
  BY <1>1, <1>2 DEF SessionRecord, Assurances
<1>4. new = [first EXCEPT !.proved = TRUE]
  BY <1>2 DEF Proved
<1>5. /\ new \in SessionRecord /\ new.seen = first.seen /\ new.assurance = "mfa" /\ new.proved
      /\ new.token = first.token /\ new.method = first.method
      /\ new.cred = first.cred /\ new.secret = first.secret
  BY <1>3, <1>4 DEF SessionRecord
<1> QED
  BY <1>3, <1>5 DEF RowKept, SameHolder

\* Rotating a token that was presented keeps the row.
LEMMA RotatedRow ==
    ASSUME NEW row, RowKept(row), row.token < MaxRotations, row.token \in row.seen,
           NEW new, new = Rotated(row)
    PROVE  RowKept(new) /\ SameHolder(row, new) /\ new.secret = row.secret
<1>1. row \in SessionRecord
  BY DEF RowKept
<1>2. row.token \in 0..MaxRotations /\ row.token + 1 \in 0..MaxRotations
      /\ row.token \in -1..MaxRotations
  BY <1>1, Bounds DEF SessionRecord
<1>3. PICK r1 : r1 = [row EXCEPT !.previous = row.token]
  OBVIOUS
<1>4. PICK r2 : r2 = [r1 EXCEPT !.token = row.token + 1]
  OBVIOUS
<1>5. PICK r3 : r3 = [r2 EXCEPT !.old = @ \cup {row.token}]
  OBVIOUS
<1>6. new = [r3 EXCEPT !.grace = TRUE]
  BY <1>3, <1>4, <1>5 DEF Rotated
<1>7. /\ r1 \in SessionRecord /\ r1.seen = row.seen /\ r1.assurance = row.assurance
      /\ r1.proved = row.proved /\ r1.method = row.method
      /\ r1.cred = row.cred /\ r1.secret = row.secret
  BY <1>1, <1>2, <1>3 DEF SessionRecord
<1>8. /\ r2 \in SessionRecord /\ r2.seen = row.seen /\ r2.assurance = row.assurance
      /\ r2.proved = row.proved /\ r2.method = row.method /\ r2.token = row.token + 1
      /\ r2.cred = row.cred /\ r2.secret = row.secret
  BY <1>2, <1>4, <1>7 DEF SessionRecord
<1>9. /\ r3 \in SessionRecord /\ r3.seen = row.seen /\ r3.assurance = row.assurance
      /\ r3.proved = row.proved /\ r3.method = row.method /\ r3.token = row.token + 1
      /\ r3.cred = row.cred /\ r3.secret = row.secret
  BY <1>2, <1>5, <1>8 DEF SessionRecord
<1>10. /\ new \in SessionRecord /\ new.seen = row.seen /\ new.assurance = row.assurance
       /\ new.proved = row.proved /\ new.method = row.method /\ new.token = row.token + 1
       /\ new.cred = row.cred /\ new.secret = row.secret
  BY <1>6, <1>9 DEF SessionRecord
<1>11. \A n \in 0..new.token : n \notin new.seen => n = new.token
  <2> SUFFICES ASSUME NEW n \in 0..(row.token + 1), n \notin row.seen
               PROVE  n = row.token + 1
    BY <1>10
  <2>1. n \in 0..row.token => n = row.token
    BY DEF RowKept
  <2> QED
    BY <1>2, <2>1
<1> QED
  BY <1>10, <1>11 DEF RowKept, SameHolder

\* Elevating a pending session keeps the row.
LEMMA ElevatedRow ==
    ASSUME NEW row, RowKept(row), row.token < MaxRotations, NEW new, new = Elevated(row)
    PROVE  RowKept(new) /\ SameHolder(row, new) /\ new.secret = row.secret
<1>1. row \in SessionRecord
  BY DEF RowKept
<1>2. row.token \in 0..MaxRotations /\ row.token + 1 \in 0..MaxRotations
      /\ -1 \in -1..MaxRotations
  BY <1>1, Bounds DEF SessionRecord
<1>3. PICK r1 : r1 = [row EXCEPT !.assurance = "mfa"]
  OBVIOUS
<1>4. PICK r2 : r2 = [r1 EXCEPT !.token = row.token + 1]
  OBVIOUS
<1>5. PICK r3 : r3 = [r2 EXCEPT !.previous = -1]
  OBVIOUS
<1>6. PICK r4 : r4 = [r3 EXCEPT !.proved = TRUE]
  OBVIOUS
<1>7. new = [r4 EXCEPT !.seen = @ \cup {row.token}]
  BY <1>3, <1>4, <1>5, <1>6 DEF Elevated
<1>8. /\ r1 \in SessionRecord /\ r1.seen = row.seen /\ r1.method = row.method
      /\ r1.cred = row.cred /\ r1.secret = row.secret
  BY <1>1, <1>3 DEF SessionRecord, Assurances
<1>9. /\ r2 \in SessionRecord /\ r2.seen = row.seen /\ r2.method = row.method
      /\ r2.cred = row.cred /\ r2.secret = row.secret /\ r2.token = row.token + 1
  BY <1>2, <1>4, <1>8 DEF SessionRecord
<1>10. /\ r3 \in SessionRecord /\ r3.seen = row.seen /\ r3.method = row.method
       /\ r3.cred = row.cred /\ r3.secret = row.secret /\ r3.token = row.token + 1
  BY <1>2, <1>5, <1>9 DEF SessionRecord
<1>11. /\ r4 \in SessionRecord /\ r4.seen = row.seen /\ r4.method = row.method /\ r4.proved
       /\ r4.cred = row.cred /\ r4.secret = row.secret /\ r4.token = row.token + 1
  BY <1>6, <1>10 DEF SessionRecord
<1>12. /\ new \in SessionRecord /\ new.seen = row.seen \cup {row.token} /\ new.method = row.method
       /\ new.proved /\ new.cred = row.cred /\ new.secret = row.secret /\ new.token = row.token + 1
  BY <1>2, <1>7, <1>11 DEF SessionRecord
<1>13. \A n \in 0..new.token : n \notin new.seen => n = new.token
  <2> SUFFICES ASSUME NEW n \in 0..(row.token + 1), n \notin row.seen, n # row.token
               PROVE  n = row.token + 1
    BY <1>12
  <2>1. n \in 0..row.token => n = row.token
    BY DEF RowKept
  <2> QED
    BY <1>2, <2>1
<1> QED
  BY <1>12, <1>13 DEF RowKept, SameHolder

\* A new session's row.
LEMMA NewRow ==
    ASSUME NEW assurance \in Assurances, NEW method \in SignInMethods, NEW cred \in 0..MaxFactors,
           NEW proved \in BOOLEAN, assurance = "mfa" => proved,
           NEW new, new = NewSession(assurance, method, cred, proved)
    PROVE  /\ new \in SessionRecord /\ new.secret = None /\ new.method = method /\ new.cred = cred
           /\ new.assurance = "mfa" => new.proved
           /\ \A n \in 0..new.token : n \notin new.seen => n = new.token
<1>1. /\ 0 \in 0..MaxRotations /\ -1 \in -1..MaxRotations /\ None \in 0..MaxFactors
  BY Bounds DEF None
<1>2. new = [assurance |-> assurance, method |-> method, cred |-> cred, token |-> 0,
             previous |-> -1, grace |-> FALSE, old |-> {}, seen |-> {}, secret |-> None,
             proved |-> proved]
  BY DEF NewSession
<1>3. new \in SessionRecord
  BY <1>1, <1>2 DEF SessionRecord
<1> QED
  BY <1>2, <1>3

-----------------------------------------------------------------------------
(* What a step keeps of the requests in flight.                            *)

\* No session comes back, and what was presented stays presented.
SessionsPass ==
    /\ opened' \in Nat /\ opened <= opened'
    /\ \A s \in Ids : sess'[s] # NoSession =>
          \/ sess[s] # NoSession /\ sess[s].seen \subseteq sess'[s].seen
          \/ opened < s
LockPasses(d) == At(d, "second_step", "matching") => sess'[job[d].sid] # NoSession
LinkPasses(d) == At(d, "sso", "opening") => link' # None

\* A request keeps what it relies on when sessions and the link pass.
LEMMA RequestStays ==
    ASSUME FactorsTyped, SessionsPass, NEW r, RequestKept(r),
           r.kind = "second_step" /\ r.at = "matching" => sess'[r.sid] # NoSession,
           r.kind = "sso" /\ r.at = "opening" => link' # None
    PROVE  RequestKept(r)'
<1>1. opened \in Nat /\ opened' \in Nat /\ opened <= opened' /\ Ids \subseteq Nat
  BY Bounds DEF FactorsTyped, SessionsPass, Ids
<1>2. ASSUME r.sid \in Ids, r.sid <= opened
      PROVE  /\ r.sid <= opened'
             /\ sess'[r.sid] # NoSession => sess[r.sid] # NoSession /\ sess[r.sid].seen \subseteq sess'[r.sid].seen
  <2>1. PICK x \in Ids : x = r.sid
    BY <1>2
  <2>2. x \in Nat /\ ~(opened < x) /\ x <= opened'
    BY <1>1, <1>2, <2>1
  <2> QED
    BY <2>1, <2>2 DEF SessionsPass
<1> QED
  BY <1>2 DEF RequestKept

\* One request goes on, the others keep what they rely on.
LEMMA RequestsSet ==
    ASSUME FactorsTyped, SessionsPass, RequestsKept, NEW b \in Browsers, NEW r, Reach(b, r),
           RequestKept(r)', \A d \in Browsers : d # b => LockPasses(d) /\ LinkPasses(d)
    PROVE  RequestsKept'
<1>1. job' = [job EXCEPT ![b] = r] /\ job = [d \in Browsers |-> job[d]]
  BY DEF Reach, RequestsKept
<1>2. job' = [d \in Browsers |-> job'[d]] /\ job'[b] = r /\ \A d \in Browsers : d # b => job'[d] = job[d]
  BY <1>1
<1>3. ASSUME NEW d \in Browsers
      PROVE  RequestKept(job[d])'
  <2>1. CASE d = b
    BY <1>2, <2>1
  <2>2. CASE d # b
    <3>1. PICK x : x = job[d]
      OBVIOUS
    <3>2. RequestKept(x)
      BY <3>1 DEF RequestsKept
    <3>3. RequestKept(x)'
      BY <2>2, <3>1, <3>2, RequestStays DEF LockPasses, LinkPasses, At
    <3> QED
      BY <1>2, <2>2, <3>1, <3>3
  <2> QED
    BY <2>1, <2>2
<1> QED
  BY <1>2, <1>3 DEF RequestsKept

\* No request goes on, and all keep what they rely on.
LEMMA RequestsStay ==
    ASSUME FactorsTyped, SessionsPass, RequestsKept, UNCHANGED job,
           \A d \in Browsers : LockPasses(d) /\ LinkPasses(d)
    PROVE  RequestsKept'
<1>1. ASSUME NEW d \in Browsers
      PROVE  RequestKept(job[d])'
  <2>1. PICK x : x = job[d]
    OBVIOUS
  <2>2. RequestKept(x)
    BY <2>1 DEF RequestsKept
  <2>3. RequestKept(x)'
    BY <2>1, <2>2, RequestStays DEF LockPasses, LinkPasses, At
  <2> QED
    BY <2>1, <2>3
<1> QED
  BY <1>1 DEF RequestsKept

\* An idle browser relies on nothing.
LEMMA IdleKept == RequestKept(Idle)' /\ ~Numbered(Idle)
  BY DEF Idle, RequestKept, Numbered, Purposes

\* Rows that nobody holds may go.
LEMMA LocksHold ==
    ASSUME RequestsKept, NEW rows, AllFree(rows),
           \A s \in Ids : s \notin rows /\ sess[s] # NoSession => sess'[s] # NoSession
    PROVE  \A d \in Browsers : LockPasses(d)
<1> SUFFICES ASSUME NEW d \in Browsers, At(d, "second_step", "matching")
             PROVE  sess'[job[d].sid] # NoSession
  BY DEF LockPasses
<1>1. job[d].sid \in Ids /\ sess[job[d].sid] # NoSession
  BY DEF RequestsKept, RequestKept, At
<1>2. job[d].sid \notin rows
  BY DEF AllFree, RowFree
<1> QED
  BY <1>1, <1>2

\* No row is held when none is asked for.
LEMMA NothingHeld == AllFree({})
  BY DEF AllFree

\* A link that a sign-in holds does not go.
LEMMA LinkHolds ==
    ASSUME RequestsKept, link' = link \/ link' # None \/ LinkFree
    PROVE  \A d \in Browsers : LinkPasses(d)
<1> SUFFICES ASSUME NEW d \in Browsers, At(d, "sso", "opening")
             PROVE  link' # None
  BY DEF LinkPasses
<1>1. link # None /\ ~LinkFree
  BY DEF RequestsKept, RequestKept, At, LinkFree
<1> QED
  BY <1>1

-----------------------------------------------------------------------------
(* The numbers of challenges and redirects.                                *)

\* Only codes are accepted, and every request keeps its number or ends.
LEMMA NumbersTyped ==
    ASSUME FactorsTyped
    PROVE  /\ \A c \in challenge \cup flow : c.n \in Credentials /\ c.n \in Nat
           /\ Credentials \subseteq Nat /\ stored \in Nat
  BY Bounds DEF FactorsTyped, Credentials

\* Numbers stay in their places when none is issued, taken or accepted.
LEMMA NumbersStay ==
    ASSUME NumbersKept, FactorsTyped, UNCHANGED <<challenge, flow>>, stored' \in Nat, stored <= stored',
           \A n : SpentNumber(n)' => SpentNumber(n),
           \A d \in Browsers : Numbered(job'[d]) => Numbered(job[d]) /\ job'[d].n = job[d].n
    PROVE  NumbersKept'
<1>1. ASSUME NEW c \in challenge \cup flow
      PROVE  c.n <= stored' /\ ~SpentNumber(c.n)'
  <2>1. c.n <= stored /\ ~SpentNumber(c.n) /\ c.n \in Nat /\ stored \in Nat
    BY NumbersTyped DEF NumbersKept
  <2> QED
    BY <2>1
<1>2. \A c, d \in challenge \cup flow : c.n = d.n => c = d
  BY DEF NumbersKept
<1>3. ASSUME NEW b \in Browsers, Numbered(job'[b])
      PROVE  /\ job'[b].n \in Credentials /\ job'[b].n <= stored' /\ ~SpentNumber(job[b].n)'
             /\ \A c \in challenge \cup flow : c.n # job'[b].n
  <2>1. PICK n : n = job'[b].n
    OBVIOUS
  <2>2. Numbered(job[b]) /\ job[b].n = n
    BY <1>3, <2>1
  <2>3. /\ n \in Credentials /\ n <= stored /\ ~SpentNumber(n)
        /\ \A c \in challenge \cup flow : c.n # n
    BY <2>2 DEF NumbersKept
  <2>4. n \in Nat /\ stored \in Nat
    BY <2>3, NumbersTyped
  <2> QED
    BY <2>1, <2>3, <2>4
<1>4. \A b, d \in Browsers : Numbered(job'[b]) /\ Numbered(job'[d]) /\ job'[b].n = job'[d].n => b = d
  BY DEF NumbersKept
<1>5. ASSUME NEW n \in Nat, SpentNumber(n)'
      PROVE  n <= stored'
  <2>1. n <= stored /\ stored \in Nat
    BY <1>5, NumbersTyped DEF NumbersKept
  <2> QED
    BY <2>1
<1> QED
  BY <1>1, <1>2, <1>3, <1>4, <1>5 DEF NumbersKept

\* A request's number is accepted, and the request does not hold it any more.
LEMMA NumberIsSpent ==
    ASSUME NumbersKept, FactorsTyped, UNCHANGED <<challenge, flow, stored>>, NEW b \in Browsers,
           Numbered(job[b]), NEW p, p = <<"challenge", job[b].n>> \/ p = <<"flow", job[b].n>>,
           usedProofs' = usedProofs \cup {p},
           ~Numbered(job'[b]), \A d \in Browsers : d # b => job'[d] = job[d]
    PROVE  NumbersKept' /\ p \notin usedProofs
<1>1. PICK m : m = job[b].n
  OBVIOUS
<1>2. /\ m \in Credentials /\ m <= stored /\ ~SpentNumber(m) /\ m \in Nat
      /\ \A c \in challenge \cup flow : c.n # m
  BY <1>1, NumbersTyped DEF NumbersKept
<1>3. \A n : SpentNumber(n)' => SpentNumber(n) \/ n = m
  BY <1>1 DEF SpentNumber
<1>4. p \notin usedProofs
  BY <1>1, <1>2 DEF SpentNumber
<1>5. \A c \in challenge \cup flow : c.n <= stored /\ ~SpentNumber(c.n)'
  BY <1>2, <1>3 DEF NumbersKept
<1>6. ASSUME NEW d \in Browsers, Numbered(job'[d])
      PROVE  /\ job'[d].n \in Credentials /\ job'[d].n <= stored /\ ~SpentNumber(job[d].n)'
             /\ \A c \in challenge \cup flow : c.n # job'[d].n
  <2>1. d # b /\ job'[d] = job[d] /\ Numbered(job[d])
    BY <1>6
  <2>2. PICK n : n = job[d].n
    OBVIOUS
  <2>3. n # m
    BY <1>1, <2>1, <2>2 DEF NumbersKept
  <2>4. /\ n \in Credentials /\ n <= stored /\ ~SpentNumber(n)
        /\ \A c \in challenge \cup flow : c.n # n
    BY <2>1, <2>2 DEF NumbersKept
  <2>5. ~SpentNumber(n)'
    BY <1>3, <2>3, <2>4
  <2> QED
    BY <2>1, <2>2, <2>4, <2>5
<1>7. \A d, e \in Browsers : Numbered(job'[d]) /\ Numbered(job'[e]) /\ job'[d].n = job'[e].n => d = e
  BY DEF NumbersKept
<1>8. \A n \in Nat : SpentNumber(n)' => n <= stored
  BY <1>2, <1>3 DEF NumbersKept
<1>9. \A c, d \in challenge \cup flow : c.n = d.n => c = d
  BY DEF NumbersKept
<1> QED
  BY <1>4, <1>5, <1>6, <1>7, <1>8, <1>9 DEF NumbersKept

\* A challenge or a redirect gets the next number.
LEMMA NumberIsIssued ==
    ASSUME NumbersKept, FactorsTyped, UNCHANGED <<usedProofs, job>>, stored' = stored + 1,
           NEW new, new.n = stored + 1, challenge' \cup flow' \subseteq challenge \cup flow \cup {new}
    PROVE  NumbersKept'
<1>1. stored \in Nat /\ \A c \in challenge \cup flow : c.n \in Nat /\ c.n <= stored
  BY NumbersTyped DEF NumbersKept
<1>2. \A n : SpentNumber(n)' <=> SpentNumber(n)
  BY DEF SpentNumber
<1>3. \A n \in Nat : SpentNumber(n) => n <= stored
  BY DEF NumbersKept
<1>4. ~SpentNumber(stored + 1)
  BY <1>1, <1>3
<1>5. \A c \in challenge' \cup flow' : c \in challenge \cup flow \/ c = new
  OBVIOUS
<1>6. ASSUME NEW c \in challenge' \cup flow'
      PROVE  c.n <= stored' /\ ~SpentNumber(c.n)'
  <2>1. CASE c = new
    BY <1>1, <1>2, <1>4, <2>1
  <2>2. CASE c \in challenge \cup flow
    BY <1>1, <1>2, <2>2 DEF NumbersKept
  <2> QED
    BY <1>5, <2>1, <2>2
<1>7. ASSUME NEW c \in challenge' \cup flow', NEW d \in challenge' \cup flow', c.n = d.n
      PROVE  c = d
  <2>1. c \in challenge \cup flow => c.n # new.n
    BY <1>1
  <2>2. d \in challenge \cup flow => d.n # new.n
    BY <1>1
  <2>3. c \in challenge \cup flow /\ d \in challenge \cup flow => c = d
    BY <1>7 DEF NumbersKept
  <2> QED
    BY <1>5, <1>7, <2>1, <2>2, <2>3
<1>8. ASSUME NEW b \in Browsers, Numbered(job[b])
      PROVE  /\ job[b].n \in Credentials /\ job[b].n <= stored' /\ ~SpentNumber(job[b].n)'
             /\ \A c \in challenge' \cup flow' : c.n # job[b].n
  <2>1. PICK n : n = job[b].n
    OBVIOUS
  <2>2. /\ n \in Credentials /\ n <= stored /\ ~SpentNumber(n)
        /\ \A c \in challenge \cup flow : c.n # n
    BY <1>8, <2>1 DEF NumbersKept
  <2>3. n \in Nat
    BY <2>2, NumbersTyped
  <2> QED
    BY <1>1, <1>2, <1>5, <2>1, <2>2, <2>3
<1>9. \A n \in Nat : SpentNumber(n)' => n <= stored'
  BY <1>1, <1>2, <1>3
<1>10. \A b, d \in Browsers : Numbered(job[b]) /\ Numbered(job[d]) /\ job[b].n = job[d].n => b = d
  BY DEF NumbersKept
<1> QED
  BY <1>6, <1>7, <1>8, <1>9, <1>10 DEF NumbersKept

\* A request takes a challenge or a redirect, and its number.
LEMMA NumberIsTaken ==
    ASSUME NumbersKept, FactorsTyped, UNCHANGED <<usedProofs, stored>>,
           NEW c \in challenge \cup flow, challenge' \cup flow' \subseteq (challenge \cup flow) \ {c},
           NEW b \in Browsers, job'[b].n = c.n, \A d \in Browsers : d # b => job'[d] = job[d]
    PROVE  NumbersKept'
<1>1. \A n : SpentNumber(n)' <=> SpentNumber(n)
  BY DEF SpentNumber
<1>2. c.n \in Credentials /\ c.n <= stored /\ ~SpentNumber(c.n)
  BY NumbersTyped DEF NumbersKept
<1>3. \A x \in challenge' \cup flow' : x \in challenge \cup flow /\ x # c
  OBVIOUS
<1>4. \A x \in challenge' \cup flow' : x.n <= stored /\ ~SpentNumber(x.n)'
  BY <1>1, <1>3 DEF NumbersKept
<1>5. \A x, y \in challenge' \cup flow' : x.n = y.n => x = y
  BY <1>3 DEF NumbersKept
<1>6. ASSUME NEW d \in Browsers, Numbered(job'[d])
      PROVE  /\ job'[d].n \in Credentials /\ job'[d].n <= stored /\ ~SpentNumber(job[d].n)'
             /\ \A x \in challenge' \cup flow' : x.n # job'[d].n
  <2>1. PICK n : n = job'[d].n
    OBVIOUS
  <2>2. CASE d = b
    <3>1. n = c.n /\ \A x \in challenge' \cup flow' : x.n # c.n
      BY <1>3, <2>1, <2>2 DEF NumbersKept
    <3> QED
      BY <1>1, <1>2, <2>1, <3>1
  <2>3. CASE d # b
    <3>1. /\ n \in Credentials /\ n <= stored /\ ~SpentNumber(n)
          /\ \A x \in challenge \cup flow : x.n # n
      BY <1>6, <2>1, <2>3 DEF NumbersKept
    <3> QED
      BY <1>1, <1>3, <2>1, <3>1
  <2> QED
    BY <2>2, <2>3
<1>7. ASSUME NEW d \in Browsers, NEW e \in Browsers, Numbered(job'[d]), Numbered(job'[e]),
             job'[d].n = job'[e].n
      PROVE  d = e
  <2>1. \A x \in Browsers : x # b /\ Numbered(job'[x]) => job'[x].n # c.n
    BY DEF NumbersKept
  <2>2. d # b /\ e # b => d = e
    BY <1>7 DEF NumbersKept
  <2> QED
    BY <1>7, <2>1, <2>2
<1>8. \A n \in Nat : SpentNumber(n)' => n <= stored
  BY <1>1 DEF NumbersKept
<1> QED
  BY <1>4, <1>5, <1>6, <1>7, <1>8 DEF NumbersKept

-----------------------------------------------------------------------------
(* The codes.                                                              *)

\* The types of the app's credential and the recovery codes.
LEMMA CodesTyped ==
    ASSUME FactorsTyped
    PROVE  /\ stored \in Nat /\ totp.id \in Nat /\ totp.step \in Nat /\ recovery \subseteq Nat
           /\ totp = [id |-> totp.id, step |-> totp.step]
  BY Bounds DEF FactorsTyped, Credentials

\* Secrets stay with their sessions, or go.
SecretsPass ==
    \A s \in Ids : sess'[s] # NoSession /\ sess'[s].secret # None =>
                     sess[s] # NoSession /\ sess'[s].secret = sess[s].secret
NoCode ==
    \A i : /\ RecoveryUsed(i)' => RecoveryUsed(i)
           /\ \A n : TotpUsed(i, n)' => TotpUsed(i, n)

\* A secret is a credential.
LEMMA SecretTyped ==
    ASSUME RowsKept, NEW s \in Ids, HasSecret(s)
    PROVE  sess[s].secret \in Credentials /\ sess[s].secret \in Nat
<1>1. sess[s] \in SessionRecord /\ sess[s].secret # 0
  BY DEF RowsKept, RowKept, HasSecret, None
<1>2. sess[s].secret \in 0..MaxFactors
  BY <1>1 DEF SessionRecord
<1> QED
  BY <1>1, <1>2, Bounds DEF Credentials

\* A fresh secret of some session stays fresh.
FreshnessPasses == \A x \in Nat : SecretIsFresh(x) /\ x # 0 => SecretIsFresh(x)'

\* Secrets stay fresh when none is issued.
LEMMA SecretsStay ==
    ASSUME SecretsFresh, SecretsPass, RowsKept, FreshnessPasses
    PROVE  SecretsFresh'
<1>1. \A s \in Ids : HasSecret(s)' => HasSecret(s) /\ sess'[s].secret = sess[s].secret
  BY DEF SecretsPass, HasSecret
<1>2. ASSUME NEW s \in Ids, HasSecret(s)'
      PROVE  SecretIsFresh(sess[s].secret)'
  <2>1. PICK x : x = sess[s].secret
    OBVIOUS
  <2>2. x \in Nat /\ x # 0 /\ SecretIsFresh(x) /\ sess'[s].secret = x
    BY <1>1, <1>2, <2>1, SecretTyped DEF SecretsFresh, HasSecret, None
  <2>3. SecretIsFresh(x)'
    BY <2>2 DEF FreshnessPasses
  <2> QED
    BY <2>2, <2>3
<1>3. \A s, t \in Ids : HasSecret(s)' /\ HasSecret(t)' /\ sess'[s].secret = sess'[t].secret => s = t
  BY <1>1 DEF SecretsFresh
<1> QED
  BY <1>2, <1>3 DEF SecretsFresh

\* No code is accepted and none comes.
LEMMA CodesStay ==
    ASSUME CodesKept, RowsKept, FactorsTyped, SecretsPass, stored' \in Nat, stored <= stored',
           totp' = totp \/ totp' = NoTotp, recovery' \subseteq recovery, NoCode
    PROVE  CodesKept'
<1>1. /\ stored \in Nat /\ totp.id \in Nat /\ recovery \subseteq Nat
  BY CodesTyped
<1>2. (totp'.id = totp.id /\ totp'.step = totp.step) \/ totp'.id = 0
  BY DEF NoTotp, None
<1>3. ASSUME NEW i \in Nat
      PROVE  /\ RecoveryUsed(i)' => i <= stored'
             /\ i \in recovery' => i <= stored' /\ ~RecoveryUsed(i)'
             /\ \A n \in Nat : TotpUsed(i, n)' => i # 0 /\ i <= stored' /\ (i = totp'.id => n <= totp'.step)
  <2>1. /\ RecoveryUsed(i) => i <= stored
        /\ i \in recovery => i <= stored /\ ~RecoveryUsed(i)
        /\ \A n \in Nat : TotpUsed(i, n) => i # 0 /\ i <= stored /\ (i = totp.id => n <= totp.step)
    BY DEF CodesKept, TotpInOrder, RecoveryInOrder
  <2>2. i <= stored => i <= stored'
    BY <1>1
  <2>3. /\ RecoveryUsed(i)' => RecoveryUsed(i)
        /\ \A n : TotpUsed(i, n)' => TotpUsed(i, n)
    BY DEF NoCode
  <2> QED
    BY <1>2, <2>1, <2>2, <2>3
<1>4. totp'.id <= stored'
  <2>1. totp.id <= stored
    BY DEF CodesKept, TotpInOrder
  <2> QED
    BY <1>1, <1>2, <2>1
<1>5. TotpInOrder' /\ RecoveryInOrder'
  BY <1>1, <1>3, <1>4 DEF TotpInOrder, RecoveryInOrder
<1>6. FreshnessPasses
  <2> SUFFICES ASSUME NEW x \in Nat, x # 0, SecretIsFresh(x)
               PROVE  SecretIsFresh(x)'
    BY DEF FreshnessPasses
  <2>1. /\ x <= stored /\ x # totp.id /\ x \notin recovery /\ ~RecoveryUsed(x)
        /\ \A n \in Nat : ~TotpUsed(x, n)
    BY DEF SecretIsFresh
  <2>2. x <= stored'
    BY <1>1, <2>1
  <2>3. ~RecoveryUsed(x)' /\ \A n \in Nat : ~TotpUsed(x, n)'
    BY <2>1 DEF NoCode
  <2> QED
    BY <1>2, <2>1, <2>2, <2>3 DEF SecretIsFresh
<1> QED
  BY <1>5, <1>6, SecretsStay DEF CodesKept

\* What accepting a code adds to the history.
LEMMA AcceptsTotp ==
    ASSUME NEW i, NEW n, Accept({<<"totp", i, n>>})
    PROVE  /\ \A j : RecoveryUsed(j)' => RecoveryUsed(j)
           /\ \A j, m : TotpUsed(j, m)' => TotpUsed(j, m) \/ (j = i /\ m = n)
           /\ \A j : SpentNumber(j)' => SpentNumber(j)
           /\ ~TotpUsed(i, n) => twice' = twice
<1>1. usedProofs' = usedProofs \cup {<<"totp", i, n>>}
      /\ twice' = twice \cup ({<<"totp", i, n>>} \cap usedProofs)
  BY DEF Accept
<1>2. \A j : <<"recovery", j>> # <<"totp", i, n>> /\ <<"challenge", j>> # <<"totp", i, n>>
             /\ <<"flow", j>> # <<"totp", i, n>>
  OBVIOUS
<1>3. \A j, m : <<"totp", j, m>> = <<"totp", i, n>> => j = i /\ m = n
  OBVIOUS
<1> QED
  BY <1>1, <1>2, <1>3 DEF TotpUsed, RecoveryUsed, SpentNumber

\* What accepting a recovery code adds to the history.
LEMMA AcceptsRecovery ==
    ASSUME NEW i, Accept({<<"recovery", i>>})
    PROVE  /\ \A j : RecoveryUsed(j)' => RecoveryUsed(j) \/ j = i
           /\ \A j, m : TotpUsed(j, m)' => TotpUsed(j, m)
           /\ \A j : SpentNumber(j)' => SpentNumber(j)
           /\ ~RecoveryUsed(i) => twice' = twice
<1>1. usedProofs' = usedProofs \cup {<<"recovery", i>>}
      /\ twice' = twice \cup ({<<"recovery", i>>} \cap usedProofs)
  BY DEF Accept
<1>2. \A j, m : <<"totp", j, m>> # <<"recovery", i>>
  OBVIOUS
<1>3. \A j : <<"challenge", j>> # <<"recovery", i>> /\ <<"flow", j>> # <<"recovery", i>>
  OBVIOUS
<1>4. \A j : <<"recovery", j>> = <<"recovery", i>> => j = i
  OBVIOUS
<1> QED
  BY <1>1, <1>2, <1>3, <1>4 DEF TotpUsed, RecoveryUsed, SpentNumber

\* A step that accepts nothing adds nothing.
LEMMA NothingAccepted ==
    ASSUME NoProof
    PROVE  NoCode /\ (\A n : SpentNumber(n)' => SpentNumber(n)) /\ twice' = twice
  BY DEF NoProof, NoCode, SpentNumber, TotpUsed, RecoveryUsed

\* Accepting a challenge or a redirect accepts no code.
LEMMA NumberIsNoCode ==
    ASSUME NEW n, Accept({<<"challenge", n>>}) \/ Accept({<<"flow", n>>})
    PROVE  NoCode
<1>2. \A i : <<"recovery", i>> # <<"challenge", n>> /\ <<"recovery", i>> # <<"flow", n>>
  OBVIOUS
<1>3. \A i, m : <<"totp", i, m>> # <<"challenge", n>> /\ <<"totp", i, m>> # <<"flow", n>>
  OBVIOUS
<1> QED
  BY <1>2, <1>3 DEF NoCode, Accept, TotpUsed, RecoveryUsed

\* The app's next step is accepted.
LEMMA StepIsUsed ==
    ASSUME CodesKept, RowsKept, FactorsTyped, SecretsPass, NEW i, i = totp.id, i # 0, NEW n \in Nat,
           totp.step < n, Accept({<<"totp", i, n>>}),
           totp' = [totp EXCEPT !.step = n] \/ totp' = NoTotp,
           \/ stored' = stored /\ recovery' \subseteq recovery
           \/ stored' = stored + 1 /\ recovery' = {stored + 1}
    PROVE  CodesKept' /\ twice' = twice
<1>1. /\ stored \in Nat /\ totp.id \in Nat /\ totp.step \in Nat /\ recovery \subseteq Nat
      /\ stored' \in Nat /\ stored <= stored' /\ i \in Nat
  BY CodesTyped
<1>2. (totp'.id = totp.id /\ totp'.step = n) \/ totp'.id = 0
  BY CodesTyped DEF NoTotp, None
<1>3. /\ \A j : RecoveryUsed(j)' => RecoveryUsed(j)
      /\ \A j, m : TotpUsed(j, m)' => TotpUsed(j, m) \/ (j = i /\ m = n)
      /\ ~TotpUsed(i, n) => twice' = twice
  <2>1. \A j : RecoveryUsed(j)' => RecoveryUsed(j)
    BY AcceptsTotp
  <2>2. \A j, m : TotpUsed(j, m)' => TotpUsed(j, m) \/ (j = i /\ m = n)
    <3>1. PICK x : x = i
      OBVIOUS
    <3>2. Accept({<<"totp", x, n>>})
      BY <3>1
    <3>3. \A j, m : TotpUsed(j, m)' => TotpUsed(j, m) \/ (j = x /\ m = n)
      BY <3>2, AcceptsTotp
    <3> QED
      BY <3>1, <3>3
  <2>3. ~TotpUsed(i, n) => twice' = twice
    BY AcceptsTotp
  <2> QED
    BY <2>1, <2>2, <2>3
<1>4. totp.id <= stored
  BY DEF CodesKept, TotpInOrder
<1>5. ~TotpUsed(i, n)
  <2>1. TotpUsed(i, n) => n <= totp.step
    BY <1>1 DEF CodesKept, TotpInOrder
  <2> QED
    BY <1>1, <2>1
<1>6. ASSUME NEW j \in Nat, NEW m \in Nat, TotpUsed(j, m)'
      PROVE  j # 0 /\ j <= stored' /\ (j = totp'.id => m <= totp'.step)
  <2>1. CASE TotpUsed(j, m)
    <3>1. j # 0 /\ j <= stored /\ (j = totp.id => m <= totp.step)
      BY <2>1 DEF CodesKept, TotpInOrder
    <3>2. j = totp'.id => j = totp.id /\ totp'.step = n
      BY <1>2, <3>1
    <3> QED
      BY <1>1, <3>1, <3>2
  <2>2. CASE j = i /\ m = n
    <3>1. j = totp'.id => m <= totp'.step
      BY <1>1, <1>2, <2>2
    <3> QED
      BY <1>1, <1>4, <2>2, <3>1
  <2> QED
    BY <1>3, <1>6, <2>1, <2>2
<1>7. ASSUME NEW j \in Nat
      PROVE  /\ RecoveryUsed(j)' => j <= stored'
             /\ j \in recovery' => j <= stored' /\ ~RecoveryUsed(j)'
  <2>1. /\ RecoveryUsed(j) => j <= stored
        /\ j \in recovery => j <= stored /\ ~RecoveryUsed(j)
    BY DEF CodesKept, RecoveryInOrder
  <2>2. j <= stored => j <= stored' /\ j # stored + 1
    BY <1>1
  <2>3. j = stored + 1 /\ j \in recovery' /\ recovery' = {stored + 1} /\ stored' = stored + 1 => j <= stored'
    BY <1>1
  <2> QED
    BY <1>3, <2>1, <2>2, <2>3
<1>8. totp'.id <= stored' /\ recovery' \subseteq Nat
  BY <1>1, <1>2, <1>4
<1>9. TotpInOrder' /\ RecoveryInOrder'
  BY <1>6, <1>7, <1>8 DEF TotpInOrder, RecoveryInOrder
<1>10. FreshnessPasses
  <2> SUFFICES ASSUME NEW x \in Nat, x # 0, SecretIsFresh(x)
               PROVE  SecretIsFresh(x)'
    BY DEF FreshnessPasses
  <2>1. /\ x <= stored /\ x # totp.id /\ x \notin recovery /\ ~RecoveryUsed(x)
        /\ \A m \in Nat : ~TotpUsed(x, m)
    BY DEF SecretIsFresh
  <2>2. x <= stored' /\ x # stored + 1
    BY <1>1, <2>1
  <2>3. ~RecoveryUsed(x)' /\ \A m \in Nat : ~TotpUsed(x, m)'
    BY <1>3, <2>1
  <2>4. x # totp'.id /\ x \notin recovery'
    BY <1>2, <2>1, <2>2
  <2> QED
    BY <2>2, <2>3, <2>4 DEF SecretIsFresh
<1> QED
  BY <1>3, <1>5, <1>9, <1>10, SecretsStay DEF CodesKept

\* A recovery code is accepted, and goes.
LEMMA RecoveryIsUsed ==
    ASSUME CodesKept, RowsKept, FactorsTyped, SecretsPass, NEW i \in recovery,
           Accept({<<"recovery", i>>}), totp' = totp \/ totp' = NoTotp,
           recovery' \subseteq recovery \ {i}, stored' = stored
    PROVE  CodesKept' /\ twice' = twice
<1>1. stored \in Nat /\ totp.id \in Nat /\ totp.step \in Nat /\ recovery \subseteq Nat /\ i \in Nat
  BY CodesTyped
<1>2. (totp'.id = totp.id /\ totp'.step = totp.step) \/ totp'.id = 0
  BY DEF NoTotp, None
<1>3. /\ \A j : RecoveryUsed(j)' => RecoveryUsed(j) \/ j = i
      /\ \A j, m : TotpUsed(j, m)' => TotpUsed(j, m)
      /\ ~RecoveryUsed(i) => twice' = twice
  BY AcceptsRecovery
<1>4. totp.id <= stored /\ i <= stored /\ ~RecoveryUsed(i)
  BY DEF CodesKept, TotpInOrder, RecoveryInOrder
<1>5. ASSUME NEW j \in Nat
      PROVE  /\ RecoveryUsed(j)' => j <= stored
             /\ j \in recovery' => j <= stored /\ ~RecoveryUsed(j)'
             /\ \A m \in Nat : TotpUsed(j, m)' => j # 0 /\ j <= stored /\ (j = totp'.id => m <= totp'.step)
  <2>1. /\ RecoveryUsed(j) => j <= stored
        /\ j \in recovery => j <= stored /\ ~RecoveryUsed(j)
        /\ \A m \in Nat : TotpUsed(j, m) => j # 0 /\ j <= stored /\ (j = totp.id => m <= totp.step)
    BY DEF CodesKept, TotpInOrder, RecoveryInOrder
  <2> QED
    BY <1>2, <1>3, <1>4, <2>1
<1>6. TotpInOrder' /\ RecoveryInOrder'
  BY <1>1, <1>2, <1>4, <1>5 DEF TotpInOrder, RecoveryInOrder
<1>7. FreshnessPasses
  <2> SUFFICES ASSUME NEW x \in Nat, x # 0, SecretIsFresh(x)
               PROVE  SecretIsFresh(x)'
    BY DEF FreshnessPasses
  <2>1. /\ x <= stored /\ x # totp.id /\ x \notin recovery /\ ~RecoveryUsed(x)
        /\ \A m \in Nat : ~TotpUsed(x, m)
    BY DEF SecretIsFresh
  <2>2. ~RecoveryUsed(x)' /\ \A m \in Nat : ~TotpUsed(x, m)'
    BY <1>3, <2>1
  <2> QED
    BY <1>2, <2>1, <2>2 DEF SecretIsFresh
<1> QED
  BY <1>3, <1>4, <1>6, <1>7, SecretsStay DEF CodesKept

\* A code that matches is spent: its step is written, or the code removed, or
\* the app goes with its codes.
LEMMA CodeIsSpent ==
    ASSUME CodesKept, RowsKept, FactorsTyped, SecretsPass, NEW c \in Codes, NEW read, NEW allow,
           MatchSecondFactor(c, read, allow), stored' = stored,
           \/ SpendCode(c)
           \/ totp' = NoTotp /\ recovery' = {} /\ Accept({ProofOf(c)})
    PROVE  /\ CodesKept' /\ twice' = twice
           /\ \A n : SpentNumber(n)' => SpentNumber(n)
           /\ totp' \in [id : 0..MaxFactors, step : 0..MaxSteps] /\ recovery' \subseteq recovery
           /\ totp'.id = totp.id \/ totp'.id = None
<1>1. c.id \in Credentials /\ c.step \in 0..MaxSteps /\ c.step \in Nat
  BY Bounds DEF Codes
<1>2. NoTotp \in [id : 0..MaxFactors, step : 0..MaxSteps] /\ NoTotp.id = None
  BY Bounds DEF NoTotp, None
<1>3. CASE IsTotp(c)
  <2>1. read.id # 0 /\ c.id = read.id /\ totp.id = read.id /\ totp.step < c.step
    BY <1>3 DEF MatchSecondFactor, MatchTotpStep, SwapStep, None
  <2>2. Accept({<<"totp", c.id, c.step>>})
    BY <1>3 DEF SpendCode, ProofOf
  <2>3. \/ totp' = [totp EXCEPT !.step = c.step] /\ recovery' = recovery
        \/ totp' = NoTotp /\ recovery' = {}
    <3>1. SpendCode(c) => totp' = [totp EXCEPT !.step = c.step] /\ recovery' = recovery
      BY <1>3 DEF SpendCode
    <3> QED
      BY <3>1
  <2>4. CodesKept' /\ twice' = twice
    BY <1>1, <2>1, <2>2, <2>3, StepIsUsed
  <2>5. \A n : SpentNumber(n)' => SpentNumber(n)
    BY <2>2, AcceptsTotp
  <2>6. totp' \in [id : 0..MaxFactors, step : 0..MaxSteps] /\ (totp'.id = totp.id \/ totp'.id = None)
    BY <1>1, <1>2, <2>3 DEF FactorsTyped
  <2> QED
    BY <2>3, <2>4, <2>5, <2>6
<1>4. CASE ~IsTotp(c)
  <2>1. c.id \in recovery
    BY <1>4 DEF MatchSecondFactor
  <2>2. Accept({<<"recovery", c.id>>})
    BY <1>4 DEF SpendCode, ProofOf
  <2>3. (totp' = totp \/ totp' = NoTotp) /\ recovery' \subseteq recovery \ {c.id}
    BY <1>4 DEF SpendCode
  <2>4. CodesKept' /\ twice' = twice
    BY <2>1, <2>2, <2>3, RecoveryIsUsed
  <2>5. \A n : SpentNumber(n)' => SpentNumber(n)
    BY <2>2, AcceptsRecovery
  <2>6. totp' \in [id : 0..MaxFactors, step : 0..MaxSteps] /\ (totp'.id = totp.id \/ totp'.id = None)
    BY <1>2, <2>3 DEF FactorsTyped
  <2> QED
    BY <2>3, <2>4, <2>5, <2>6
<1> QED
  BY <1>3, <1>4

\* A session gets the next credential's secret.
LEMMA SecretIsIssued ==
    ASSUME CodesKept, RowsKept, FactorsTyped, NEW s \in Ids, stored' = stored + 1,
           UNCHANGED <<totp, recovery>>, NoCode, sess'[s] # NoSession, sess'[s].secret = stored + 1,
           \A t \in Ids : t # s => sess'[t] = sess[t]
    PROVE  CodesKept'
<1>1. stored \in Nat /\ totp.id \in Nat /\ recovery \subseteq Nat /\ stored <= stored' /\ stored' \in Nat
  BY CodesTyped
<1>2. ASSUME NEW i \in Nat
      PROVE  /\ RecoveryUsed(i)' => RecoveryUsed(i) /\ i <= stored
             /\ i \in recovery => i <= stored /\ ~RecoveryUsed(i)
             /\ \A n \in Nat : TotpUsed(i, n)' => TotpUsed(i, n) /\ i # 0 /\ i <= stored /\ (i = totp.id => n <= totp.step)
  BY DEF CodesKept, TotpInOrder, RecoveryInOrder, NoCode
<1>3. totp.id <= stored
  BY DEF CodesKept, TotpInOrder
<1>4. \A i \in Nat : i <= stored => i <= stored' /\ i # stored + 1
  BY <1>1
<1>5. TotpInOrder' /\ RecoveryInOrder'
  BY <1>1, <1>2, <1>3, <1>4 DEF TotpInOrder, RecoveryInOrder
<1>6. PICK x \in Nat : x = stored + 1
  BY <1>1
<1>7. SecretIsFresh(x)'
  BY <1>1, <1>2, <1>3, <1>4, <1>6 DEF SecretIsFresh
<1>8. ASSUME NEW t \in Ids, t # s, HasSecret(t)'
      PROVE  HasSecret(t) /\ sess'[t] = sess[t] /\ SecretIsFresh(sess[t].secret)' /\ sess[t].secret # x
  <2>1. HasSecret(t) /\ sess'[t] = sess[t]
    BY <1>8 DEF HasSecret
  <2>2. PICK y : y = sess[t].secret
    OBVIOUS
  <2>3. y \in Nat /\ SecretIsFresh(y)
    BY <2>1, <2>2, SecretTyped DEF CodesKept, SecretsFresh
  <2>4. y <= stored /\ y # totp.id /\ y \notin recovery /\ ~RecoveryUsed(y) /\ \A n \in Nat : ~TotpUsed(y, n)
    BY <2>3 DEF SecretIsFresh
  <2>5. y <= stored' /\ y # x
    BY <1>4, <1>6, <2>3, <2>4
  <2>6. SecretIsFresh(y)'
    BY <2>4, <2>5 DEF SecretIsFresh, NoCode
  <2> QED
    BY <2>1, <2>2, <2>5, <2>6
<1>9. ASSUME NEW t \in Ids, HasSecret(t)'
      PROVE  SecretIsFresh(sess[t].secret)'
  <2>1. t = s => sess'[t].secret = x
    BY <1>6
  <2> QED
    BY <1>7, <1>8, <1>9, <2>1
<1>10. ASSUME NEW t \in Ids, NEW u \in Ids, HasSecret(t)', HasSecret(u)', sess'[t].secret = sess'[u].secret
       PROVE  t = u
  <2>1. sess'[s].secret = x
    BY <1>6
  <2>2. t # s /\ u # s => t = u
    BY <1>8, <1>10 DEF CodesKept, SecretsFresh
  <2> QED
    BY <1>8, <1>10, <2>1, <2>2
<1>11. SecretsFresh'
  BY <1>9, <1>10 DEF SecretsFresh
<1> QED
  BY <1>5, <1>11 DEF CodesKept

\* The secret becomes the app's, and the number of its recovery codes.
LEMMA SecretIsConfirmed ==
    ASSUME CodesKept, RowsKept, FactorsTyped, NEW s \in Ids, HasSecret(s), NEW x, x = sess[s].secret,
           NEW n \in Nat, totp' = [id |-> x, step |-> n], recovery' = {x}, stored' = stored,
           Accept({<<"totp", x, n>>}), \A t \in Ids : ~HasSecret(t)'
    PROVE  CodesKept' /\ twice' = twice
<1>1. stored \in Nat /\ totp.id \in Nat /\ x \in Nat /\ x # 0
  BY CodesTyped, SecretTyped DEF HasSecret, None
<1>2. SecretIsFresh(x)
  BY DEF CodesKept, SecretsFresh
<1>3. PICK y : y = x
  OBVIOUS
<1>4. y \in Nat /\ y # 0 /\ y <= stored /\ ~RecoveryUsed(y) /\ (\A m \in Nat : ~TotpUsed(y, m))
  BY <1>1, <1>2, <1>3 DEF SecretIsFresh
<1>5. Accept({<<"totp", y, n>>})
  BY <1>3
<1>6. /\ \A j : RecoveryUsed(j)' => RecoveryUsed(j)
      /\ \A j, m : TotpUsed(j, m)' => TotpUsed(j, m) \/ (j = y /\ m = n)
      /\ ~TotpUsed(y, n) => twice' = twice
  BY <1>5, AcceptsTotp
<1>7. totp'.id = y /\ totp'.step = n /\ recovery' = {y}
  BY <1>3
<1>8. ASSUME NEW i \in Nat
      PROVE  /\ RecoveryUsed(i)' => i <= stored
             /\ \A m \in Nat : TotpUsed(i, m)' => i # 0 /\ i <= stored /\ (i = y => m <= n)
  <2>1. /\ RecoveryUsed(i) => i <= stored
        /\ \A m \in Nat : TotpUsed(i, m) => i # 0 /\ i <= stored
    BY DEF CodesKept, TotpInOrder, RecoveryInOrder
  <2> QED
    BY <1>4, <1>6, <2>1
<1>9. TotpInOrder' /\ RecoveryInOrder'
  BY <1>4, <1>6, <1>7, <1>8 DEF TotpInOrder, RecoveryInOrder
<1>10. SecretsFresh'
  BY DEF SecretsFresh
<1> QED
  BY <1>4, <1>6, <1>9, <1>10 DEF CodesKept

-----------------------------------------------------------------------------
(* What a step does to the sessions.                                       *)

\* The credential that opened a row stays.
CredPasses(row) ==
    /\ row.method = "passkey" => row.cred \in passkeys'
    /\ row.method = "oauth" => link' = link
CredsPass(gone) == \A s \in Ids : s \notin gone /\ sess[s] # NoSession => CredPasses(sess[s])
SessionsFollow ==
    /\ RowsKept' /\ SessionsPass /\ opened' \in 0..MaxSessions
    /\ \A d \in Browsers : LockPasses(d)

\* Credentials stay when none is removed and no link is replaced.
LEMMA CredsStay ==
    ASSUME RowsKept, passkeys \subseteq passkeys', link' = link \/ link = None, NEW gone
    PROVE  CredsPass(gone)
  BY DEF RowsKept, RowKept, CredPasses, CredsPass

\* A row stays kept while its credential is there.
LEMMA RowStays ==
    ASSUME NEW row, RowKept(row), CredPasses(row)
    PROVE  RowKept(row)'
  BY DEF RowKept, CredPasses

\* The count of sessions opened.
LEMMA Opened ==
    ASSUME FactorsTyped
    PROVE  opened \in Nat /\ opened \in 0..MaxSessions /\ Ids \subseteq Nat
  BY Bounds DEF FactorsTyped, Ids

\* No session changes.
LEMMA SessionsSame ==
    ASSUME RowsKept, FactorsTyped, RequestsKept, CredsPass({}), UNCHANGED <<sess, opened>>
    PROVE  SessionsFollow /\ SecretsPass
<1>1. opened \in Nat /\ opened \in 0..MaxSessions
  BY Opened
<1>2. \A s \in Ids : sess[s] # NoSession => s <= opened /\ RowKept(sess[s])'
  BY RowStays DEF RowsKept, CredsPass
<1>3. RowsKept'
  BY <1>2 DEF RowsKept
<1>4. \A d \in Browsers : LockPasses(d)
  BY NothingHeld, LocksHold
<1> QED
  BY <1>1, <1>3, <1>4 DEF SessionsFollow, SessionsPass, SecretsPass

\* Nothing ended is nothing changed.
LEMMA WithoutNone ==
    ASSUME RowsKept
    PROVE  sess = Without({})
  BY DEF RowsKept, Without

\* Sessions nobody holds end.
LEMMA SessionsEnded ==
    ASSUME RowsKept, FactorsTyped, RequestsKept, NEW gone, AllFree(gone), CredsPass(gone),
           sess' = Without(gone), UNCHANGED opened
    PROVE  SessionsFollow /\ SecretsPass
<1>1. opened \in Nat /\ opened \in 0..MaxSessions
  BY Opened
<1>2. sess' = [s \in Ids |-> sess'[s]] /\ \A s \in Ids : sess'[s] = IF s \in gone THEN NoSession ELSE sess[s]
  BY DEF Without
<1>3. ASSUME NEW s \in Ids, sess'[s] # NoSession
      PROVE  s <= opened /\ RowKept(sess[s])'
  <2>1. s \notin gone /\ sess'[s] = sess[s] /\ sess[s] # NoSession
    BY <1>2, <1>3
  <2>2. PICK row : row = sess[s]
    OBVIOUS
  <2>3. s <= opened /\ RowKept(row) /\ CredPasses(row)
    BY <2>1, <2>2 DEF RowsKept, CredsPass
  <2>4. RowKept(row)'
    BY <2>3, RowStays
  <2> QED
    BY <2>1, <2>2, <2>3, <2>4
<1>4. RowsKept'
  BY <1>2, <1>3 DEF RowsKept
<1>5. \A d \in Browsers : LockPasses(d)
  BY <1>2, LocksHold
<1>6. SessionsPass /\ SecretsPass
  BY <1>1, <1>2 DEF SessionsPass, SecretsPass
<1> QED
  BY <1>1, <1>4, <1>5, <1>6 DEF SessionsFollow

Replaces(gone, s, new) == sess' = [Without(gone) EXCEPT ![s] = new]

\* One session's row is updated, others nobody holds end.
LEMMA SessionUpdated ==
    ASSUME RowsKept, FactorsTyped, RequestsKept, NEW gone, AllFree(gone), CredsPass(gone),
           NEW s \in Ids, s \notin gone, sess[s] # NoSession, NEW new, RowKept(new),
           SameHolder(sess[s], new), Replaces(gone, s, new), UNCHANGED opened
    PROVE  /\ SessionsFollow /\ sess'[s] = new
           /\ \A t \in Ids : t # s => sess'[t] = IF t \in gone THEN NoSession ELSE sess[t]
           /\ new.secret = sess[s].secret \/ new.secret = None => SecretsPass
<1>1. opened \in Nat /\ opened \in 0..MaxSessions
  BY Opened
<1>2. /\ sess' = [t \in Ids |-> sess'[t]] /\ sess'[s] = new
      /\ \A t \in Ids : t # s => sess'[t] = IF t \in gone THEN NoSession ELSE sess[t]
  BY DEF Without, Replaces
<1>3. RowKept(new)' /\ s <= opened
  <2>1. new.method = sess[s].method /\ new.cred = sess[s].cred
    BY DEF SameHolder
  <2>2. CredPasses(new) /\ s <= opened
    BY <2>1 DEF CredsPass, CredPasses, RowsKept
  <2> QED
    BY <2>2, RowStays
<1>4. ASSUME NEW t \in Ids, t # s, sess'[t] # NoSession
      PROVE  t <= opened /\ RowKept(sess[t])'
  <2>1. t \notin gone /\ sess'[t] = sess[t] /\ sess[t] # NoSession
    BY <1>2, <1>4
  <2>2. PICK row : row = sess[t]
    OBVIOUS
  <2>3. t <= opened /\ RowKept(row) /\ CredPasses(row)
    BY <2>1, <2>2 DEF RowsKept, CredsPass
  <2>4. RowKept(row)'
    BY <2>3, RowStays
  <2> QED
    BY <2>1, <2>2, <2>3, <2>4
<1>5. RowsKept'
  BY <1>2, <1>3, <1>4 DEF RowsKept
<1>6. new # NoSession /\ sess[s].seen \subseteq new.seen
  BY RowIsRow DEF SameHolder
<1>7. \A d \in Browsers : LockPasses(d)
  BY <1>2, <1>6, LocksHold
<1>8. SessionsPass
  BY <1>1, <1>2, <1>6 DEF SessionsPass
<1>9. new.secret = sess[s].secret \/ new.secret = None => SecretsPass
  BY <1>2 DEF SecretsPass
<1> QED
  BY <1>1, <1>2, <1>5, <1>7, <1>8, <1>9 DEF SessionsFollow

\* Sessions nobody holds end, and one opens with its credential.
LEMMA SessionOpened ==
    ASSUME RowsKept, FactorsTyped, RequestsKept, NEW gone, AllFree(gone), CredsPass(gone),
           NEW assurance \in Assurances, NEW method \in SignInMethods, NEW cred \in 0..MaxFactors,
           NEW proved \in BOOLEAN, assurance = "mfa" => proved,
           method = "passkey" => cred \in passkeys',
           method = "oauth" => cred = link' /\ link' # None,
           Opens(Without(gone), assurance, method, cred, proved)
    PROVE  SessionsFollow /\ SecretsPass
<1>1. opened \in Nat /\ opened \in 0..MaxSessions /\ Ids \subseteq Nat
  BY Opened
<1>2. opened < MaxSessions /\ opened' = opened + 1
  BY DEF Opens
<1>3. opened + 1 \in Ids /\ opened' \in 0..MaxSessions /\ opened' \in Nat
  BY <1>1, <1>2, Bounds DEF Ids
<1>4. PICK new : new = NewSession(assurance, method, cred, proved)
  OBVIOUS
<1>5. /\ new \in SessionRecord /\ new.secret = None /\ new.method = method /\ new.cred = cred
      /\ new.assurance = "mfa" => new.proved
      /\ \A n \in 0..new.token : n \notin new.seen => n = new.token
  BY <1>4, NewRow
<1>6. RowKept(new)'
  BY <1>5 DEF RowKept
<1>7. PICK x \in Ids : x = opened + 1
  BY <1>3
<1>8. sess' = [Without(gone) EXCEPT ![x] = new]
  BY <1>4, <1>7 DEF Opens
<1>9. /\ sess' = [t \in Ids |-> sess'[t]] /\ sess'[x] = new
      /\ \A t \in Ids : t # x => sess'[t] = IF t \in gone THEN NoSession ELSE sess[t]
  BY <1>8 DEF Without
<1>10. \A t \in Ids : t <= opened => t <= opened'
  BY <1>1, <1>2
<1>11. sess[x] = NoSession /\ x <= opened' /\ opened < x
  <2>1. ~(x <= opened)
    BY <1>1, <1>7
  <2> QED
    BY <1>1, <1>2, <1>7, <2>1 DEF RowsKept
<1>12. ASSUME NEW t \in Ids, t # x, sess'[t] # NoSession
       PROVE  t <= opened' /\ RowKept(sess[t])'
  <2>1. t \notin gone /\ sess'[t] = sess[t] /\ sess[t] # NoSession
    BY <1>9, <1>12
  <2>2. PICK row : row = sess[t]
    OBVIOUS
  <2>3. t <= opened /\ RowKept(row) /\ CredPasses(row)
    BY <2>1, <2>2 DEF RowsKept, CredsPass
  <2>4. RowKept(row)'
    BY <2>3, RowStays
  <2> QED
    BY <1>10, <2>1, <2>2, <2>3, <2>4
<1>13. RowsKept'
  BY <1>6, <1>9, <1>11, <1>12 DEF RowsKept
<1>14. \A d \in Browsers : LockPasses(d)
  BY <1>9, <1>11, LocksHold
<1>15. SessionsPass
  <2>1. opened <= opened'
    BY <1>1, <1>2
  <2> QED
    BY <1>3, <1>9, <1>11, <2>1 DEF SessionsPass
<1>16. SecretsPass
  BY <1>5, <1>9 DEF SecretsPass
<1> QED
  BY <1>3, <1>13, <1>14, <1>15, <1>16 DEF SessionsFollow

-----------------------------------------------------------------------------
(* Steps that leave the factors and the one-time proofs alone.             *)

\* One browser's request changes.
LEMMA JobSet ==
    ASSUME RequestsKept, NEW b \in Browsers, NEW r, Reach(b, r)
    PROVE  job'[b] = r /\ \A d \in Browsers : d # b => job'[d] = job[d]
  BY DEF RequestsKept, Reach

\* The factors keep their types when they do not change.
LEMMA FactorsSame ==
    ASSUME FactorsTyped, opened' \in 0..MaxSessions, UNCHANGED <<factorVars, ceremonyVars>>
    PROVE  FactorsTyped' /\ stored' = stored /\ stored' \in Nat /\ stored <= stored'
<1>1. UNCHANGED <<user, totp, recovery, passkeys, link, stored, challenge, flow>>
  BY DEF factorVars, ceremonyVars
<1>2. stored \in Nat
  BY CodesTyped
<1> QED
  BY <1>1, <1>2 DEF FactorsTyped

\* A request goes on, or ends.
LEMMA RequestStep ==
    ASSUME AccountKept, SessionsFollow, SecretsPass, NEW b \in Browsers, NEW r, Reach(b, r),
           RequestKept(r)', Numbered(r) => Numbered(job[b]) /\ r.n = job[b].n,
           UNCHANGED <<factorVars, ceremonyVars>>, NoProof
    PROVE  AccountKept'
<1>1. RowsKept /\ FactorsTyped /\ NumbersKept /\ CodesKept /\ RequestsKept /\ twice = {}
  BY DEF AccountKept
<1>2. RowsKept' /\ SessionsPass /\ opened' \in 0..MaxSessions /\ \A d \in Browsers : LockPasses(d)
  BY DEF SessionsFollow
<1>3. FactorsTyped' /\ stored' = stored /\ stored' \in Nat /\ stored <= stored'
  BY <1>1, <1>2, FactorsSame
<1>4. UNCHANGED <<challenge, flow>> /\ totp' = totp /\ recovery' \subseteq recovery /\ link' = link
  BY DEF factorVars, ceremonyVars
<1>5. NoCode /\ (\A n : SpentNumber(n)' => SpentNumber(n)) /\ twice' = twice
  BY NothingAccepted
<1>6. \A d \in Browsers : Numbered(job'[d]) => Numbered(job[d]) /\ job'[d].n = job[d].n
  <2>1. job'[b] = r /\ \A d \in Browsers : d # b => job'[d] = job[d]
    BY <1>1, JobSet
  <2> QED
    BY <2>1
<1>7. NumbersKept'
  BY <1>1, <1>3, <1>4, <1>5, <1>6, NumbersStay
<1>8. CodesKept'
  BY <1>1, <1>3, <1>4, <1>5, CodesStay
<1>9. \A d \in Browsers : LinkPasses(d)
  BY <1>1, <1>4, LinkHolds
<1>10. RequestsKept'
  BY <1>1, <1>2, <1>9, RequestsSet
<1> QED
  BY <1>1, <1>2, <1>3, <1>5, <1>7, <1>8, <1>10 DEF AccountKept

\* No request takes part.
LEMMA SessionStep ==
    ASSUME AccountKept, SessionsFollow, SecretsPass, UNCHANGED job,
           UNCHANGED <<factorVars, ceremonyVars>>, NoProof
    PROVE  AccountKept'
<1>1. RowsKept /\ FactorsTyped /\ NumbersKept /\ CodesKept /\ RequestsKept /\ twice = {}
  BY DEF AccountKept
<1>2. RowsKept' /\ SessionsPass /\ opened' \in 0..MaxSessions /\ \A d \in Browsers : LockPasses(d)
  BY DEF SessionsFollow
<1>3. FactorsTyped' /\ stored' = stored /\ stored' \in Nat /\ stored <= stored'
  BY <1>1, <1>2, FactorsSame
<1>4. UNCHANGED <<challenge, flow>> /\ totp' = totp /\ recovery' \subseteq recovery /\ link' = link
  BY DEF factorVars, ceremonyVars
<1>5. NoCode /\ (\A n : SpentNumber(n)' => SpentNumber(n)) /\ twice' = twice
  BY NothingAccepted
<1>6. \A d \in Browsers : Numbered(job'[d]) => Numbered(job[d]) /\ job'[d].n = job[d].n
  OBVIOUS
<1>7. NumbersKept'
  BY <1>1, <1>3, <1>4, <1>5, <1>6, NumbersStay
<1>8. CodesKept'
  BY <1>1, <1>3, <1>4, <1>5, CodesStay
<1>9. \A d \in Browsers : LinkPasses(d)
  BY <1>1, <1>4, LinkHolds
<1>10. RequestsKept'
  BY <1>1, <1>2, <1>9, RequestsStay
<1> QED
  BY <1>1, <1>2, <1>3, <1>5, <1>7, <1>8, <1>10 DEF AccountKept

\* Only a request's own state changes.
LEMMA QuietStep ==
    ASSUME AccountKept, NEW b \in Browsers, NEW r, Reach(b, r), RequestKept(r),
           Numbered(r) => Numbered(job[b]) /\ r.n = job[b].n,
           UNCHANGED <<sess, opened, factorVars, ceremonyVars>>, NoProof
    PROVE  AccountKept'
<1>1. RowsKept /\ FactorsTyped /\ RequestsKept
  BY DEF AccountKept
<1>2. UNCHANGED <<sess, opened, passkeys, link>> /\ UNCHANGED <<factorVars, ceremonyVars>>
  BY DEF factorVars, ceremonyVars
<1>3. CredsPass({})
  BY <1>1, <1>2, CredsStay
<1>4. SessionsFollow /\ SecretsPass
  BY <1>1, <1>2, <1>3, SessionsSame
<1>5. RequestKept(r)'
  BY <1>2 DEF RequestKept
<1> QED
  BY <1>2, <1>4, <1>5, RequestStep

\* VerifyLogin keeps the invariant.
LEMMA Step_VerifyLogin ==
    ASSUME AccountKept, NEW b \in Browsers, NEW cookie, VerifyLogin(b, cookie)
    PROVE  AccountKept'
<1>1. PICK r : r = [kind |-> "login", at |-> "begun", cookie |-> cookie,
                    assurance |-> FirstFactorAssurance(HasSecondFactor)]
  OBVIOUS
<1>2. RequestKept(r) /\ ~Numbered(r)
  BY <1>1 DEF RequestKept, Numbered, Purposes, FirstFactorAssurance
<1>3. Reach(b, r) /\ UNCHANGED <<sess, opened, factorVars, ceremonyVars>> /\ NoProof
  BY <1>1 DEF VerifyLogin, Start
<1> QED
  BY <1>2, <1>3, QuietStep

\* FindPendingSession keeps the invariant.
LEMMA Step_FindPendingSession ==
    ASSUME AccountKept, NEW b \in Browsers, NEW s \in Ids, NEW c, FindPendingSession(b, s, c)
    PROVE  AccountKept'
<1>1. PICK r : r = [kind |-> "second_step", at |-> "begun", sid |-> s, tok |-> sess[s].token,
                    code |-> c]
  OBVIOUS
<1>2. c \in Codes /\ s <= opened
  BY DEF FindPendingSession, TypedCodes, SessionRows, AccountKept, RowsKept
<1>3. RequestKept(r) /\ ~Numbered(r)
  BY <1>1, <1>2 DEF RequestKept, Numbered, Purposes
<1>4. Reach(b, r) /\ UNCHANGED <<sess, opened, factorVars, ceremonyVars>> /\ NoProof
  BY <1>1 DEF FindPendingSession, Start
<1> QED
  BY <1>3, <1>4, QuietStep

\* BeginTwoFactorLogin keeps the invariant.
LEMMA Step_BeginTwoFactorLogin ==
    ASSUME AccountKept, NEW b \in Browsers, BeginTwoFactorLogin(b)
    PROVE  AccountKept'
<1>1. UNCHANGED <<sess, opened, factorVars, ceremonyVars>> /\ NoProof
  BY DEF BeginTwoFactorLogin
<1>2. job[b].sid \in Ids /\ job[b].sid <= opened /\ job[b].code \in Codes
  BY DEF BeginTwoFactorLogin, At, AccountKept, RequestsKept, RequestKept
<1>3. CASE LockPendingSession(job[b].sid, job[b].tok)
  <2>1. PICK r : r = [kind |-> "second_step", at |-> "matching", sid |-> job[b].sid,
                      code |-> job[b].code, read |-> totp]
    OBVIOUS
  <2>2. Reach(b, r)
    BY <1>3, <2>1 DEF BeginTwoFactorLogin
  <2>3. sess[job[b].sid] # NoSession
    BY <1>3 DEF LockPendingSession, SessionRows
  <2>4. RequestKept(r) /\ ~Numbered(r)
    BY <1>2, <2>1, <2>3 DEF RequestKept, Numbered, Purposes
  <2> QED
    BY <1>1, <2>2, <2>4, QuietStep
<1>4. CASE ~LockPendingSession(job[b].sid, job[b].tok)
  <2>1. Reach(b, Idle)
    BY <1>4 DEF BeginTwoFactorLogin, End
  <2>2. RequestKept(Idle) /\ ~Numbered(Idle)
    BY DEF Idle, RequestKept, Numbered, Purposes
  <2> QED
    BY <1>1, <2>1, <2>2, QuietStep
<1> QED
  BY <1>3, <1>4

\* ConfirmEnrolment keeps the invariant.
LEMMA Step_ConfirmEnrolment ==
    ASSUME AccountKept, NEW b \in Browsers, NEW s \in Ids, ConfirmEnrolment(b, s)
    PROVE  AccountKept'
<1>1. PICK r : r = [kind |-> "confirm", at |-> "begun", sid |-> s]
  OBVIOUS
<1>2. RequestKept(r) /\ ~Numbered(r)
  BY <1>1 DEF RequestKept, Numbered, Purposes
<1>3. Reach(b, r) /\ UNCHANGED <<sess, opened, factorVars, ceremonyVars>> /\ NoProof
  BY <1>1 DEF ConfirmEnrolment, Start
<1> QED
  BY <1>2, <1>3, QuietStep

\* DisableTwoFactor keeps the invariant.
LEMMA Step_DisableTwoFactor ==
    ASSUME AccountKept, NEW b \in Browsers, NEW s \in Ids, NEW c, DisableTwoFactor(b, s, c)
    PROVE  AccountKept'
<1>1. PICK r : r = [kind |-> "disable", at |-> "begun", cred |-> totp.id, code |-> c]
  OBVIOUS
<1>2. c \in Codes
  BY DEF DisableTwoFactor, TypedCodes
<1>3. RequestKept(r) /\ ~Numbered(r)
  BY <1>1, <1>2 DEF RequestKept, Numbered, Purposes
<1>4. Reach(b, r) /\ UNCHANGED <<sess, opened, factorVars, ceremonyVars>> /\ NoProof
  BY <1>1 DEF DisableTwoFactor, Start
<1> QED
  BY <1>3, <1>4, QuietStep

\* BeginDeletePasskey keeps the invariant.
LEMMA Step_BeginDeletePasskey ==
    ASSUME AccountKept, NEW b \in Browsers, NEW s \in Ids, NEW p, BeginDeletePasskey(b, s, p)
    PROVE  AccountKept'
<1>1. PICK r : r = [kind |-> "delete_passkey", at |-> "begun", cred |-> p, code |-> None]
  OBVIOUS
<1>2. RequestKept(r) /\ ~Numbered(r)
  BY <1>1 DEF RequestKept, Numbered, Purposes
<1>3. Reach(b, r) /\ UNCHANGED <<sess, opened, factorVars, ceremonyVars>> /\ NoProof
  BY <1>1 DEF BeginDeletePasskey, Start
<1> QED
  BY <1>2, <1>3, QuietStep

\* RemovalStatement keeps the invariant.
LEMMA Step_RemovalStatement ==
    ASSUME AccountKept, NEW b \in Browsers, RemovalStatement(b)
    PROVE  AccountKept'
<1>1. PICK r : r = [kind |-> job[b].kind, at |-> "waiting", cred |-> job[b].cred,
                    code |-> job[b].code, snap |-> RuleSnapshot(job[b].cred)]
  OBVIOUS
<1>2. job[b].kind \in {"disable", "delete_passkey"}
  BY DEF RemovalStatement, At
<1>3. job[b].kind = "disable" => job[b].code \in Codes
  BY DEF AccountKept, RequestsKept, RequestKept
<1>4. RequestKept(r) /\ ~Numbered(r)
  BY <1>1, <1>2, <1>3 DEF RequestKept, Numbered, Purposes
<1>5. Reach(b, r) /\ UNCHANGED <<sess, opened, factorVars, ceremonyVars>> /\ NoProof
  BY <1>1 DEF RemovalStatement
<1> QED
  BY <1>4, <1>5, QuietStep

\* Rejected keeps the invariant.
LEMMA Step_Rejected ==
    ASSUME AccountKept, NEW b \in Browsers, Rejected(b)
    PROVE  AccountKept'
<1>1. Reach(b, Idle) /\ UNCHANGED <<sess, opened, factorVars, ceremonyVars>> /\ NoProof
  BY DEF Rejected, End
<1>2. RequestKept(Idle) /\ ~Numbered(Idle)
  BY DEF Idle, RequestKept, Numbered, Purposes
<1> QED
  BY <1>1, <1>2, QuietStep

\* RegistrationStatement keeps the invariant.
LEMMA Step_RegistrationStatement ==
    ASSUME AccountKept, NEW b \in Browsers, RegistrationStatement(b)
    PROVE  AccountKept'
<1>1. PICK r : r = [kind |-> "register", at |-> "waiting", sid |-> job[b].sid, n |-> job[b].n,
                    had |-> HasSecondFactor]
  OBVIOUS
<1>2. RequestKept(r) /\ r.n = job[b].n
  BY <1>1 DEF RequestKept
<1>3. Numbered(job[b])
  BY DEF RegistrationStatement, At, Numbered, Purposes
<1>4. Reach(b, r) /\ UNCHANGED <<sess, opened, factorVars, ceremonyVars>> /\ NoProof
  BY <1>1 DEF RegistrationStatement
<1> QED
  BY <1>2, <1>3, <1>4, QuietStep

\* LinkStatement keeps the invariant.
LEMMA Step_LinkStatement ==
    ASSUME AccountKept, NEW b \in Browsers, LinkStatement(b)
    PROVE  AccountKept'
<1>1. PICK r : r = [kind |-> "link", at |-> "waiting", sid |-> job[b].sid, n |-> job[b].n,
                    factor |-> HasSecondFactor]
  OBVIOUS
<1>2. RequestKept(r) /\ r.n = job[b].n
  BY <1>1 DEF RequestKept
<1>3. Numbered(job[b])
  BY DEF LinkStatement, At, Numbered
<1>4. Reach(b, r) /\ UNCHANGED <<sess, opened, factorVars, ceremonyVars>> /\ NoProof
  BY <1>1 DEF LinkStatement
<1> QED
  BY <1>2, <1>3, <1>4, QuietStep

-----------------------------------------------------------------------------
(* Steps of the sessions.                                                  *)

\* What is known of a session's row.
LEMMA RowOf ==
    ASSUME RowsKept, NEW s \in SessionRows
    PROVE  s \in Ids /\ sess[s] # NoSession /\ RowKept(sess[s]) /\ s <= opened /\ sess[s] \in SessionRecord
           /\ sess[s].token \in 0..MaxRotations /\ sess[s].secret \in 0..MaxFactors
  BY DEF RowsKept, RowKept, SessionRows, SessionRecord

\* One session's row is updated.
LEMMA RowUpdated ==
    ASSUME RowsKept, FactorsTyped, RequestsKept, CredsPass({}), NEW s \in SessionRows, NEW new,
           RowKept(new), SameHolder(sess[s], new), Replaces({}, s, new), UNCHANGED opened
    PROVE  /\ SessionsFollow /\ sess'[s] = new
           /\ \A t \in Ids : t # s => sess'[t] = sess[t]
           /\ new.secret = sess[s].secret \/ new.secret = None => SecretsPass
<1>1. s \in Ids /\ sess[s] # NoSession /\ s \notin {}
  BY RowOf
<1>3. PICK gone : gone = {}
  OBVIOUS
<1>4. /\ AllFree(gone) /\ CredsPass(gone) /\ s \notin gone
      /\ Replaces(gone, s, new)
  BY <1>1, <1>3, NothingHeld
<1>5. /\ SessionsFollow /\ sess'[s] = new
      /\ \A t \in Ids : t # s => sess'[t] = IF t \in gone THEN NoSession ELSE sess[t]
      /\ new.secret = sess[s].secret \/ new.secret = None => SecretsPass
  BY <1>1, <1>4, SessionUpdated
<1> QED
  BY <1>3, <1>5

\* An update of one row ends no other.
LEMMA RowReplaced ==
    ASSUME RowsKept, NEW s, NEW new, sess' = [sess EXCEPT ![s] = new]
    PROVE  Replaces({}, s, new)
  BY WithoutNone DEF Replaces

\* Credentials stay when factors do not change.
LEMMA FactorsStand ==
    ASSUME AccountKept, UNCHANGED <<factorVars, ceremonyVars>>, NEW gone
    PROVE  CredsPass(gone)
<1>1. passkeys \subseteq passkeys' /\ link' = link /\ RowsKept
  BY DEF factorVars, AccountKept
<1> QED
  BY <1>1, CredsStay

\* FindActiveSession keeps the invariant.
LEMMA Step_FindActiveSession ==
    ASSUME AccountKept, NEW b \in Browsers, NEW s \in Ids, NEW n \in 0..MaxRotations,
           FindActiveSession(b, s, n)
    PROVE  AccountKept'
<1>1. s \in SessionRows /\ UNCHANGED <<factorVars, ceremonyVars>> /\ NoProof /\ UNCHANGED opened
      /\ sess' = [sess EXCEPT ![s] = Presented(sess[s], n)]
  BY DEF FindActiveSession
<1>2. RowsKept /\ FactorsTyped /\ RequestsKept /\ CredsPass({})
  BY <1>1, FactorsStand DEF AccountKept
<1>3. PICK new : new = Presented(sess[s], n)
  OBVIOUS
<1>4. RowKept(new) /\ SameHolder(sess[s], new) /\ new.secret = sess[s].secret /\ n \in new.seen
  BY <1>1, <1>2, <1>3, RowOf, PresentedRow
<1>5. SessionsFollow /\ sess'[s] = new /\ SecretsPass
  BY <1>1, <1>2, <1>3, <1>4, RowReplaced, RowUpdated
<1>6. PICK reused, open : Reach(b, [kind |-> "page", at |-> "begun", sid |-> s, tok |-> n,
                                    reused |-> reused, open |-> open])
  BY DEF FindActiveSession, Start
<1>7. PICK r : r = [kind |-> "page", at |-> "begun", sid |-> s, tok |-> n,
                    reused |-> reused, open |-> open]
  OBVIOUS
<1>8. s <= opened'
  BY <1>1, <1>2, RowOf
<1>9. RequestKept(r)' /\ ~Numbered(r)
  BY <1>4, <1>5, <1>7, <1>8 DEF RequestKept, Numbered, Purposes
<1> QED
  BY <1>1, <1>5, <1>6, <1>7, <1>9, RequestStep

\* WithSessionGuard keeps the invariant.
LEMMA Step_WithSessionGuard ==
    ASSUME AccountKept, NEW b \in Browsers, WithSessionGuard(b)
    PROVE  AccountKept'
<1>1. UNCHANGED <<factorVars, ceremonyVars>> /\ NoProof /\ UNCHANGED opened /\ Reach(b, Idle)
  BY DEF WithSessionGuard, End
<1>2. RowsKept /\ FactorsTyped /\ RequestsKept /\ CredsPass({}) /\ CredsPass(SessionRows)
  BY <1>1, FactorsStand DEF AccountKept
<1>3. PICK s, n : s = job[b].sid /\ n = job[b].tok
  OBVIOUS
<1>4. \/ AllFree(SessionRows) /\ sess' = Without(SessionRows)
      \/ s \in SessionRows /\ sess[s].token < MaxRotations /\ RotateSession(s, n)
      \/ sess' = sess
  BY <1>3 DEF WithSessionGuard
<1>5. SessionsFollow /\ SecretsPass
  <2>1. CASE AllFree(SessionRows) /\ sess' = Without(SessionRows)
    BY <1>1, <1>2, <2>1, SessionsEnded
  <2>2. CASE sess' = sess
    BY <1>1, <1>2, <2>2, SessionsSame
  <2>3. CASE s \in SessionRows /\ sess[s].token < MaxRotations /\ RotateSession(s, n)
    <3>1. CASE ~RotationApplies(s, n)
      BY <1>1, <1>2, <2>3, <3>1, SessionsSame DEF RotateSession
    <3>2. CASE RotationApplies(s, n)
      <4>1. sess' = [sess EXCEPT ![s] = Rotated(sess[s])] /\ sess[s].token = n
        BY <2>3, <3>2 DEF RotateSession, RotationApplies
      <4>2. n \in sess[s].seen
        BY <1>2, <1>3, <2>3 DEF RequestsKept, RequestKept, WithSessionGuard, At, SessionRows
      <4>3. PICK new : new = Rotated(sess[s])
        OBVIOUS
      <4>4. RowKept(new) /\ SameHolder(sess[s], new) /\ new.secret = sess[s].secret
        BY <1>2, <2>3, <4>1, <4>2, <4>3, RowOf, RotatedRow
      <4> QED
        BY <1>1, <1>2, <2>3, <4>1, <4>3, <4>4, RowReplaced, RowUpdated
    <3> QED
      BY <3>1, <3>2
  <2> QED
    BY <1>4, <2>1, <2>2, <2>3
<1> QED
  BY <1>1, <1>5, IdleKept, RequestStep

\* GraceEnds keeps the invariant.
LEMMA Step_GraceEnds ==
    ASSUME AccountKept, NEW s \in Ids, GraceEnds(s)
    PROVE  AccountKept'
<1>1. UNCHANGED <<factorVars, ceremonyVars>> /\ NoProof /\ UNCHANGED opened /\ UNCHANGED job
      /\ s \in SessionRows /\ sess' = [sess EXCEPT ![s] = PastGrace(sess[s])]
  BY DEF GraceEnds
<1>2. RowsKept /\ FactorsTyped /\ RequestsKept /\ CredsPass({})
  BY <1>1, FactorsStand DEF AccountKept
<1>3. PICK new : new = PastGrace(sess[s])
  OBVIOUS
<1>4. RowKept(new) /\ SameHolder(sess[s], new) /\ new.secret = sess[s].secret
  BY <1>1, <1>2, <1>3, RowOf, PastGraceRow
<1>5. SessionsFollow /\ SecretsPass
  BY <1>1, <1>2, <1>3, <1>4, RowReplaced, RowUpdated
<1> QED
  BY <1>1, <1>5, SessionStep

\* RevokeSession keeps the invariant.
LEMMA Step_RevokeSession ==
    ASSUME AccountKept, NEW s \in Ids, RevokeSession(s)
    PROVE  AccountKept'
<1>1. UNCHANGED <<factorVars, ceremonyVars>> /\ NoProof /\ UNCHANGED opened /\ UNCHANGED job
  BY DEF RevokeSession
<1>2. PICK rows : AllFree(rows) /\ sess' = Without(rows)
  BY DEF RevokeSession
<1>3. RowsKept /\ FactorsTyped /\ RequestsKept /\ CredsPass(rows)
  BY <1>1, FactorsStand DEF AccountKept
<1>4. SessionsFollow /\ SecretsPass
  BY <1>1, <1>2, <1>3, SessionsEnded
<1> QED
  BY <1>1, <1>4, SessionStep

\* OpenPasswordSession keeps the invariant.
LEMMA Step_OpenPasswordSession ==
    ASSUME AccountKept, NEW b \in Browsers, OpenPasswordSession(b)
    PROVE  AccountKept'
<1>1. UNCHANGED <<factorVars, ceremonyVars>> /\ NoProof /\ Reach(b, Idle)
  BY DEF OpenPasswordSession, End
<1>2. PICK gone : AllFree(gone) /\ Opens(Without(gone), job[b].assurance, "password", None, FALSE)
  BY DEF OpenPasswordSession
<1>3. RowsKept /\ FactorsTyped /\ RequestsKept /\ CredsPass(gone)
  BY <1>1, FactorsStand DEF AccountKept
<1>4. job[b].assurance \in Assurances /\ job[b].assurance # "mfa" /\ "password" \in SignInMethods
  BY <1>3 DEF RequestsKept, RequestKept, OpenPasswordSession, At, Assurances, SignInMethods
<1>5. None \in 0..MaxFactors /\ FALSE \in BOOLEAN
  BY Bounds DEF None
<1>6. SessionsFollow /\ SecretsPass
  BY <1>2, <1>3, <1>4, <1>5, SessionOpened
<1> QED
  BY <1>1, <1>6, IdleKept, RequestStep

\* EndLockedSecondStep keeps the invariant.
LEMMA Step_EndLockedSecondStep ==
    ASSUME AccountKept, NEW b \in Browsers, EndLockedSecondStep(b)
    PROVE  AccountKept'
<1>1. UNCHANGED <<factorVars, ceremonyVars>> /\ NoProof /\ UNCHANGED opened /\ Reach(b, Idle)
  BY DEF EndLockedSecondStep, End
<1>2. PICK gone : gone \subseteq {job[b].sid} /\ sess' = Without(gone)
  BY DEF EndLockedSecondStep
<1>3. AllFree(gone)
  BY <1>2 DEF EndLockedSecondStep, AllFree
<1>4. RowsKept /\ FactorsTyped /\ RequestsKept /\ CredsPass(gone)
  BY <1>1, FactorsStand DEF AccountKept
<1>5. SessionsFollow /\ SecretsPass
  BY <1>1, <1>2, <1>3, <1>4, SessionsEnded
<1> QED
  BY <1>1, <1>5, IdleKept, RequestStep

\* OpenPasskeySession keeps the invariant.
LEMMA Step_OpenPasskeySession ==
    ASSUME AccountKept, NEW b \in Browsers, OpenPasskeySession(b)
    PROVE  AccountKept'
<1>1. UNCHANGED <<factorVars, ceremonyVars>> /\ NoProof /\ Reach(b, Idle)
  BY DEF OpenPasskeySession, End
<1>2. PICK gone : /\ AllFree(gone)
                  /\ IF PasskeyStillThere(job[b].cred)
                     THEN Opens(Without(gone), "mfa", "passkey", job[b].cred, TRUE)
                     ELSE sess' = Without(gone) /\ opened' = opened
  BY DEF OpenPasskeySession
<1>3. RowsKept /\ FactorsTyped /\ RequestsKept /\ CredsPass(gone)
  BY <1>1, FactorsStand DEF AccountKept
<1>4. SessionsFollow /\ SecretsPass
  <2>1. CASE PasskeyStillThere(job[b].cred)
    <3>1. PICK cred : cred = job[b].cred
      OBVIOUS
    <3>2. cred \in passkeys /\ cred \in 0..MaxFactors /\ cred \in passkeys'
      <4>1. cred \in passkeys /\ passkeys \subseteq Credentials
        BY <1>3, <2>1, <3>1 DEF PasskeyStillThere, FactorsTyped
      <4>2. cred \in 0..MaxFactors
        BY <4>1, Bounds DEF Credentials
      <4>3. cred \in passkeys'
        BY <1>1, <4>1 DEF factorVars
      <4> QED
        BY <4>1, <4>2, <4>3
    <3>3. "mfa" \in Assurances /\ "passkey" \in SignInMethods /\ "passkey" # "oauth" /\ TRUE \in BOOLEAN
      BY DEF Assurances, SignInMethods
    <3>4. Opens(Without(gone), "mfa", "passkey", cred, TRUE)
      BY <1>2, <2>1, <3>1
    <3> QED
      BY <1>2, <1>3, <3>2, <3>3, <3>4, SessionOpened
  <2>2. CASE ~PasskeyStillThere(job[b].cred)
    BY <1>2, <1>3, <2>2, SessionsEnded
  <2> QED
    BY <2>1, <2>2
<1> QED
  BY <1>1, <1>4, IdleKept, RequestStep

\* OpenSsoStatement keeps the invariant.
LEMMA Step_OpenSsoStatement ==
    ASSUME AccountKept, NEW b \in Browsers, OpenSsoStatement(b)
    PROVE  AccountKept'
<1>1. UNCHANGED <<factorVars, ceremonyVars>> /\ NoProof /\ UNCHANGED opened /\ link' = link
  BY DEF OpenSsoStatement, factorVars
<1>2. PICK gone : AllFree(gone) /\ sess' = Without(gone)
  BY DEF OpenSsoStatement
<1>3. RowsKept /\ FactorsTyped /\ RequestsKept /\ CredsPass(gone)
  BY <1>1, FactorsStand DEF AccountKept
<1>4. SessionsFollow /\ SecretsPass
  BY <1>1, <1>2, <1>3, SessionsEnded
<1>5. CASE HasSsoLink /\ SsoSignInAllowed(user.role, HasSecondFactor)
  <2>1. PICK r : r = [kind |-> "sso", at |-> "opening", n |-> job[b].n,
                      assurance |-> FirstFactorAssurance(HasSecondFactor)]
    OBVIOUS
  <2>2. Reach(b, r)
    BY <1>5, <2>1 DEF OpenSsoStatement
  <2>3. RequestKept(r)' /\ r.n = job[b].n
    BY <1>1, <1>5, <2>1 DEF RequestKept, HasSsoLink, FirstFactorAssurance
  <2>4. Numbered(job[b])
    BY DEF OpenSsoStatement, At, Numbered
  <2> QED
    BY <1>1, <1>4, <2>2, <2>3, <2>4, RequestStep
<1>6. CASE ~(HasSsoLink /\ SsoSignInAllowed(user.role, HasSecondFactor))
  <2>1. Reach(b, Idle)
    BY <1>6 DEF OpenSsoStatement, End
  <2> QED
    BY <1>1, <1>4, <2>1, IdleKept, RequestStep
<1> QED
  BY <1>5, <1>6

-----------------------------------------------------------------------------
(* Steps of the authenticator app.                                         *)

\* A request ends and what it changed is kept.
LEMMA RequestEnds ==
    ASSUME AccountKept, SessionsFollow, NEW b \in Browsers, Reach(b, Idle),
           link' = link \/ link' # None \/ LinkFree,
           FactorsTyped', NumbersKept', CodesKept', twice' = twice
    PROVE  AccountKept'
<1>1. FactorsTyped /\ RequestsKept /\ twice = {}
  BY DEF AccountKept
<1>2. RowsKept' /\ SessionsPass /\ \A d \in Browsers : LockPasses(d)
  BY DEF SessionsFollow
<1>3. \A d \in Browsers : LinkPasses(d)
  BY <1>1, LinkHolds
<1>4. RequestsKept'
  BY <1>1, <1>2, <1>3, IdleKept, RequestsSet
<1> QED
  BY <1>1, <1>2, <1>4 DEF AccountKept

\* No request takes part and what the step changed is kept.
LEMMA RequestsWait ==
    ASSUME AccountKept, SessionsFollow, UNCHANGED job,
           link' = link \/ link' # None \/ LinkFree,
           FactorsTyped', NumbersKept', CodesKept', twice' = twice
    PROVE  AccountKept'
<1>1. FactorsTyped /\ RequestsKept /\ twice = {}
  BY DEF AccountKept
<1>2. RowsKept' /\ SessionsPass /\ \A d \in Browsers : LockPasses(d)
  BY DEF SessionsFollow
<1>3. \A d \in Browsers : LinkPasses(d)
  BY <1>1, LinkHolds
<1>4. RequestsKept'
  BY <1>1, <1>2, <1>3, RequestsStay
<1> QED
  BY <1>1, <1>2, <1>4 DEF AccountKept

\* The numbers when a request ends and spends none.
LEMMA NumbersRest ==
    ASSUME AccountKept, NEW b \in Browsers, Reach(b, Idle), UNCHANGED ceremonyVars,
           stored' = stored, \A n : SpentNumber(n)' => SpentNumber(n)
    PROVE  NumbersKept'
<1>1. NumbersKept /\ FactorsTyped /\ RequestsKept /\ stored \in Nat /\ UNCHANGED <<challenge, flow>>
  BY CodesTyped DEF AccountKept, ceremonyVars
<1>2. \A d \in Browsers : Numbered(job'[d]) => Numbered(job[d]) /\ job'[d].n = job[d].n
  <2>1. job'[b] = Idle /\ \A d \in Browsers : d # b => job'[d] = job[d]
    BY <1>1, JobSet
  <2> QED
    BY <2>1, IdleKept
<1> QED
  BY <1>1, <1>2, NumbersStay

\* CompleteTwoFactorLogin keeps the invariant.
LEMMA Step_CompleteTwoFactorLogin ==
    ASSUME AccountKept, NEW b \in Browsers, CompleteTwoFactorLogin(b)
    PROVE  AccountKept'
<1>1. /\ UNCHANGED <<opened, user, passkeys, link, stored>> /\ UNCHANGED ceremonyVars
      /\ Reach(b, Idle) /\ At(b, "second_step", "matching")
  BY DEF CompleteTwoFactorLogin, End
<1>2. RowsKept /\ FactorsTyped /\ RequestsKept /\ CodesKept
  BY DEF AccountKept
<1>3. CredsPass({})
  BY <1>1, <1>2, CredsStay
<1>4. PICK c : c = job[b].code
  OBVIOUS
<1>5. c \in Codes /\ job[b].sid \in SessionRows
  BY <1>1, <1>2, <1>4 DEF RequestsKept, RequestKept, At, SessionRows
<1>6. CASE ~MatchSecondFactor(c, job[b].read, TRUE)
  <2>1. NoProof /\ UNCHANGED <<totp, recovery, sess>>
    BY <1>4, <1>6 DEF CompleteTwoFactorLogin
  <2>2. UNCHANGED <<factorVars, ceremonyVars>>
    BY <1>1, <2>1 DEF factorVars
  <2>3. SessionsFollow /\ SecretsPass
    BY <1>1, <1>2, <1>3, <2>1, SessionsSame
  <2> QED
    BY <1>1, <2>1, <2>2, <2>3, IdleKept, RequestStep
<1>7. CASE MatchSecondFactor(c, job[b].read, TRUE)
  <2>1. SpendCode(c) /\ ElevatePendingSession(job[b].sid)
    BY <1>4, <1>7 DEF CompleteTwoFactorLogin
  <2>2. PICK s \in SessionRows : s = job[b].sid
    BY <1>5
  <2>3. PICK new : new = Elevated(sess[s])
    OBVIOUS
  <2>4. sess[s].token < MaxRotations /\ sess' = [sess EXCEPT ![s] = new]
    BY <2>1, <2>2, <2>3 DEF ElevatePendingSession
  <2>5. RowKept(new) /\ SameHolder(sess[s], new) /\ new.secret = sess[s].secret
    BY <1>2, <2>3, <2>4, RowOf, ElevatedRow
  <2>6. SessionsFollow /\ SecretsPass
    BY <1>1, <1>2, <1>3, <2>4, <2>5, RowReplaced, RowUpdated
  <2>7. /\ CodesKept' /\ twice' = twice
        /\ \A n : SpentNumber(n)' => SpentNumber(n)
        /\ totp' \in [id : 0..MaxFactors, step : 0..MaxSteps] /\ recovery' \subseteq recovery
    BY <1>1, <1>2, <1>5, <1>7, <2>1, <2>6, CodeIsSpent
  <2>8. NumbersKept'
    BY <1>1, <2>7, NumbersRest
  <2>9. FactorsTyped'
    BY <1>1, <1>2, <2>7 DEF FactorsTyped, ceremonyVars
  <2> QED
    BY <1>1, <2>6, <2>7, <2>8, <2>9, RequestEnds
<1> QED
  BY <1>6, <1>7

\* StartEnrolment keeps the invariant.
LEMMA Step_StartEnrolment ==
    ASSUME AccountKept, NEW s \in Ids, StartEnrolment(s)
    PROVE  AccountKept'
<1>1. /\ UNCHANGED <<user, totp, recovery, passkeys, link, opened, job>> /\ UNCHANGED ceremonyVars
      /\ NoProof /\ s \in SessionRows /\ stored < MaxFactors /\ stored' = stored + 1
      /\ sess' = [sess EXCEPT ![s] = WithSecret(sess[s], stored + 1)]
  BY DEF StartEnrolment
<1>2. RowsKept /\ FactorsTyped /\ RequestsKept /\ CodesKept /\ NumbersKept
  BY DEF AccountKept
<1>3. CredsPass({})
  BY <1>1, <1>2, CredsStay
<1>4. stored \in Nat /\ stored' \in Nat /\ stored <= stored' /\ stored' \in 0..MaxFactors
  BY <1>1, <1>2, CodesTyped, Bounds
<1>5. PICK new : new = WithSecret(sess[s], stored + 1)
  OBVIOUS
<1>6. RowKept(new) /\ SameHolder(sess[s], new) /\ new.secret = stored + 1
  BY <1>1, <1>2, <1>4, <1>5, RowOf, SecretRow
<1>7. SessionsFollow /\ sess'[s] = new /\ \A t \in Ids : t # s => sess'[t] = sess[t]
  BY <1>1, <1>2, <1>3, <1>5, <1>6, RowReplaced, RowUpdated
<1>8. new # NoSession
  BY <1>6, RowIsRow DEF SameHolder
<1>9. NoCode /\ (\A n : SpentNumber(n)' => SpentNumber(n)) /\ twice' = twice
  BY <1>1, NothingAccepted
<1>10. CodesKept'
  BY <1>1, <1>2, <1>6, <1>7, <1>8, <1>9, SecretIsIssued
<1>11. \A d \in Browsers : Numbered(job'[d]) => Numbered(job[d]) /\ job'[d].n = job[d].n
  BY <1>1
<1>12. NumbersKept'
  BY <1>1, <1>2, <1>4, <1>9, <1>11, NumbersStay DEF ceremonyVars
<1>13. FactorsTyped'
  BY <1>1, <1>2, <1>4 DEF FactorsTyped, ceremonyVars
<1> QED
  BY <1>1, <1>7, <1>9, <1>10, <1>12, <1>13, RequestsWait

\* FinishDisable keeps the invariant.
LEMMA Step_FinishDisable ==
    ASSUME AccountKept, NEW b \in Browsers, FinishDisable(b)
    PROVE  AccountKept'
<1>1. /\ UNCHANGED <<user, passkeys, link, stored, sess, opened>> /\ UNCHANGED ceremonyVars
      /\ Reach(b, Idle) /\ At(b, "disable", "waiting")
  BY DEF FinishDisable, End
<1>2. RowsKept /\ FactorsTyped /\ RequestsKept /\ CodesKept
  BY DEF AccountKept
<1>3. CredsPass({})
  BY <1>1, <1>2, CredsStay
<1>4. SessionsFollow /\ SecretsPass
  BY <1>1, <1>2, <1>3, SessionsSame
<1>5. PICK c : c = job[b].code
  OBVIOUS
<1>6. c \in Codes
  BY <1>1, <1>2, <1>5 DEF RequestsKept, RequestKept, At
<1>7. CASE NoProof /\ UNCHANGED <<totp, recovery>>
  <2>1. UNCHANGED <<factorVars, ceremonyVars>>
    BY <1>1, <1>7 DEF factorVars
  <2> QED
    BY <1>1, <1>4, <1>7, <2>1, IdleKept, RequestStep
<1>8. CASE MatchSecondFactor(c, totp, TRUE) /\ totp' = NoTotp /\ recovery' = {} /\ Accept({ProofOf(c)})
  <2>1. /\ CodesKept' /\ twice' = twice
        /\ \A n : SpentNumber(n)' => SpentNumber(n)
        /\ totp' \in [id : 0..MaxFactors, step : 0..MaxSteps] /\ recovery' \subseteq recovery
    BY <1>1, <1>2, <1>4, <1>6, <1>8, CodeIsSpent
  <2>2. NumbersKept'
    BY <1>1, <2>1, NumbersRest
  <2>3. FactorsTyped'
    BY <1>1, <1>2, <2>1 DEF FactorsTyped, ceremonyVars
  <2> QED
    BY <1>1, <1>4, <2>1, <2>2, <2>3, RequestEnds
<1> QED
  BY <1>5, <1>7, <1>8 DEF FinishDisable

\* RegenerateRecoveryCodes keeps the invariant.
LEMMA Step_RegenerateRecoveryCodes ==
    ASSUME AccountKept, NEW s \in Ids, NEW c \in Codes, RegenerateRecoveryCodes(s, c)
    PROVE  AccountKept'
<1>1. /\ UNCHANGED <<user, passkeys, link, sess, opened, job>> /\ UNCHANGED ceremonyVars
      /\ IsTotp(c) /\ MatchSecondFactor(c, totp, FALSE) /\ stored < MaxFactors
      /\ totp' = [totp EXCEPT !.step = c.step]
      /\ recovery' = {stored + 1} /\ stored' = stored + 1
      /\ Accept({ProofOf(c)})
  BY DEF RegenerateRecoveryCodes
<1>2. RowsKept /\ FactorsTyped /\ RequestsKept /\ CodesKept /\ NumbersKept
  BY DEF AccountKept
<1>3. CredsPass({})
  BY <1>1, <1>2, CredsStay
<1>4. SessionsFollow /\ SecretsPass
  BY <1>1, <1>2, <1>3, SessionsSame
<1>5. c.id \in Credentials /\ c.step \in 0..MaxSteps /\ c.step \in Nat
  BY Bounds DEF Codes
<1>6. c.id # 0 /\ c.id = totp.id /\ totp.step < c.step
  <2>1. totp.id # 0 /\ c.id = totp.id /\ totp.step < c.step
    BY <1>1 DEF MatchSecondFactor, MatchTotpStep, SwapStep, None
  <2> QED
    BY <2>1
<1>7. Accept({<<"totp", c.id, c.step>>})
  BY <1>1 DEF ProofOf
<1>8. CodesKept' /\ twice' = twice
  BY <1>1, <1>2, <1>4, <1>5, <1>6, <1>7, StepIsUsed
<1>9. \A n : SpentNumber(n)' => SpentNumber(n)
  BY <1>7, AcceptsTotp
<1>10. stored \in Nat /\ stored' \in Nat /\ stored <= stored' /\ stored' \in 0..MaxFactors
       /\ stored + 1 \in Credentials
  BY <1>1, <1>2, CodesTyped, Bounds DEF Credentials
<1>11. NumbersKept'
  <2>1. \A d \in Browsers : Numbered(job'[d]) => Numbered(job[d]) /\ job'[d].n = job[d].n
    BY <1>1
  <2> QED
    BY <1>1, <1>2, <1>9, <1>10, <2>1, NumbersStay DEF ceremonyVars
<1>12. totp' \in [id : 0..MaxFactors, step : 0..MaxSteps]
  BY <1>1, <1>2, <1>5 DEF FactorsTyped
<1>13. FactorsTyped'
  BY <1>1, <1>2, <1>10, <1>12 DEF FactorsTyped, ceremonyVars
<1> QED
  BY <1>1, <1>4, <1>8, <1>11, <1>13, RequestsWait

\* FinishEnrolment keeps the invariant.
LEMMA Step_FinishEnrolment ==
    ASSUME AccountKept, NEW b \in Browsers, NEW n \in 1..MaxSteps, FinishEnrolment(b, n)
    PROVE  AccountKept'
<1>1. /\ UNCHANGED <<user, passkeys, link, stored, opened>> /\ UNCHANGED ceremonyVars
      /\ Reach(b, Idle) /\ At(b, "confirm", "begun")
  BY DEF FinishEnrolment, End
<1>2. RowsKept /\ FactorsTyped /\ RequestsKept /\ CodesKept
  BY DEF AccountKept
<1>3. \A gone : CredsPass(gone)
  BY <1>1, <1>2, CredsStay
<1>4. PICK s : s = job[b].sid
  OBVIOUS
<1>5. PICK secret : secret = IF s \in SessionRows THEN sess[s].secret ELSE None
  OBVIOUS
<1>6. s \in Ids
  BY <1>1, <1>2, <1>4 DEF RequestsKept, RequestKept, At
<1>7. CASE secret = None
  <2>1. NoProof /\ UNCHANGED <<totp, recovery, sess>>
    BY <1>4, <1>5, <1>7 DEF FinishEnrolment
  <2>2. UNCHANGED <<factorVars, ceremonyVars>>
    BY <1>1, <2>1 DEF factorVars
  <2>3. SessionsFollow /\ SecretsPass
    BY <1>1, <1>2, <1>3, <2>1, SessionsSame
  <2> QED
    BY <1>1, <2>1, <2>2, <2>3, IdleKept, RequestStep
<1>8. CASE secret # None /\ HasTotp
  <2>1. NoProof /\ UNCHANGED <<totp, recovery>> /\ sess' = [sess EXCEPT ![s] = WithSecret(sess[s], None)]
    BY <1>4, <1>5, <1>8 DEF FinishEnrolment
  <2>2. UNCHANGED <<factorVars, ceremonyVars>>
    BY <1>1, <2>1 DEF factorVars
  <2>3. s \in SessionRows
    BY <1>5, <1>8
  <2>4. PICK new : new = WithSecret(sess[s], None)
    OBVIOUS
  <2>5. RowKept(new) /\ SameHolder(sess[s], new) /\ new.secret = None
    BY <1>2, <2>3, <2>4, RowOf, SecretRow, Bounds DEF None
  <2>6. SessionsFollow /\ SecretsPass
    BY <1>1, <1>2, <1>3, <2>1, <2>3, <2>4, <2>5, RowReplaced, RowUpdated
  <2> QED
    BY <1>1, <2>1, <2>2, <2>6, IdleKept, RequestStep
<1>9. CASE secret # None /\ ~HasTotp
  <2>1. PICK gone : gone = SessionRows \ {s}
    OBVIOUS
  <2>2. /\ AllFree(SessionRows) /\ totp' = [id |-> secret, step |-> n] /\ recovery' = {secret}
        /\ sess' = [Without(gone) EXCEPT ![s] = WithSecret(Proved(sess[s]), None)]
        /\ Accept({<<"totp", secret, n>>})
    BY <1>4, <1>5, <1>9, <2>1 DEF FinishEnrolment
  <2>3. s \in SessionRows /\ s \notin gone /\ AllFree(gone) /\ secret = sess[s].secret
    BY <1>5, <1>9, <2>1, <2>2 DEF AllFree
  <2>4. HasSecret(s)
    BY <1>9, <2>3 DEF HasSecret, SessionRows
  <2>5. secret \in Credentials /\ secret \in 0..MaxFactors
    BY <1>2, <1>6, <2>3, <2>4, SecretTyped, Bounds DEF Credentials
  <2>6. PICK middle : middle = Proved(sess[s])
    OBVIOUS
  <2>7. RowKept(middle) /\ SameHolder(sess[s], middle)
    BY <1>2, <2>3, <2>6, RowOf, ProvedRow
  <2>8. PICK new : new = WithSecret(middle, None)
    OBVIOUS
  <2>9. RowKept(new) /\ SameHolder(middle, new) /\ new.secret = None
    BY <2>7, <2>8, SecretRow, Bounds DEF None
  <2>10. SameHolder(sess[s], new) /\ Replaces(gone, s, new)
    BY <2>2, <2>6, <2>7, <2>8, <2>9 DEF SameHolder, Replaces
  <2>11. /\ SessionsFollow /\ sess'[s] = new
         /\ \A t \in Ids : t # s => sess'[t] = IF t \in gone THEN NoSession ELSE sess[t]
    BY <1>1, <1>2, <1>3, <2>3, <2>9, <2>10, RowOf, SessionUpdated
  <2>12. \A t \in Ids : ~HasSecret(t)'
    BY <2>1, <2>9, <2>11 DEF HasSecret, SessionRows
  <2>13. CodesKept' /\ twice' = twice
    BY <1>1, <1>2, <1>6, <2>2, <2>3, <2>4, <2>12, SecretIsConfirmed
  <2>14. \A m : SpentNumber(m)' => SpentNumber(m)
    BY <2>2, AcceptsTotp
  <2>15. NumbersKept'
    BY <1>1, <2>14, NumbersRest
  <2>16. n \in 0..MaxSteps
    BY Bounds
  <2>17. FactorsTyped'
    BY <1>1, <1>2, <2>2, <2>5, <2>16 DEF FactorsTyped, ceremonyVars
  <2> QED
    BY <1>1, <2>11, <2>13, <2>15, <2>17, RequestEnds
<1> QED
  BY <1>7, <1>8, <1>9

-----------------------------------------------------------------------------
(* Steps of the passkeys.                                                  *)

\* A number is accepted: nothing else is, and it is accepted once.
LEMMA NumberAccepted ==
    ASSUME AccountKept, UNCHANGED <<challenge, flow, stored>>, NEW b \in Browsers, Numbered(job[b]),
           Accept({<<"challenge", job[b].n>>}) \/ Accept({<<"flow", job[b].n>>}),
           NEW r, Reach(b, r), ~Numbered(r)
    PROVE  NumbersKept' /\ twice' = twice /\ NoCode
<1>1. NumbersKept /\ FactorsTyped /\ RequestsKept
  BY DEF AccountKept
<1>2. PICK p : (p = <<"challenge", job[b].n>> \/ p = <<"flow", job[b].n>>) /\ Accept({p})
  OBVIOUS
<1>3. usedProofs' = usedProofs \cup {p} /\ twice' = twice \cup ({p} \cap usedProofs)
  BY <1>2 DEF Accept
<1>4. job'[b] = r /\ \A d \in Browsers : d # b => job'[d] = job[d]
  BY <1>1, JobSet
<1>5. NumbersKept' /\ p \notin usedProofs
  BY <1>1, <1>2, <1>3, <1>4, NumberIsSpent
<1>6. NoCode
  BY NumberIsNoCode
<1> QED
  BY <1>3, <1>5, <1>6

\* The next number.
LEMMA NextNumber ==
    ASSUME FactorsTyped, stored < MaxFactors, stored' = stored + 1
    PROVE  stored \in Nat /\ stored' \in Nat /\ stored <= stored' /\ stored' \in 0..MaxFactors
           /\ stored + 1 \in Credentials
  BY CodesTyped, Bounds DEF Credentials

\* A challenge or a redirect is issued.
LEMMA IssueStep ==
    ASSUME AccountKept, stored < MaxFactors, stored' = stored + 1, NEW new, new.n = stored + 1,
           challenge' \cup flow' \subseteq challenge \cup flow \cup {new},
           challenge' \subseteq [purpose : Purposes, binding : 0..MaxSessions, n : Credentials],
           flow' \subseteq [purpose : FlowPurposes, sid : 0..MaxSessions, n : Credentials],
           UNCHANGED <<user, totp, recovery, passkeys, link, sess, opened, job>>, NoProof
    PROVE  AccountKept'
<1>1. RowsKept /\ FactorsTyped /\ NumbersKept /\ CodesKept /\ RequestsKept
  BY DEF AccountKept
<1>2. stored \in Nat /\ stored' \in Nat /\ stored <= stored' /\ stored' \in 0..MaxFactors
  BY <1>1, NextNumber
<1>3. CredsPass({})
  BY <1>1, CredsStay
<1>4. SessionsFollow /\ SecretsPass
  BY <1>1, <1>3, SessionsSame
<1>5. NoCode /\ twice' = twice /\ UNCHANGED usedProofs
  BY NothingAccepted DEF NoProof
<1>6. CodesKept'
  BY <1>1, <1>2, <1>4, <1>5, CodesStay
<1>7. NumbersKept'
  BY <1>1, <1>5, NumberIsIssued
<1>8. FactorsTyped'
  BY <1>1, <1>2 DEF FactorsTyped
<1> QED
  BY <1>4, <1>5, <1>6, <1>7, <1>8, RequestsWait

\* StartCeremony keeps the invariant.
LEMMA Step_StartCeremony ==
    ASSUME AccountKept, NEW purpose \in Purposes, NEW binding \in 0..MaxSessions,
           StartCeremony(purpose, binding)
    PROVE  AccountKept'
<1>1. /\ UNCHANGED <<user, totp, recovery, passkeys, link, sess, opened, flow, job>> /\ NoProof
      /\ stored < MaxFactors /\ stored' = stored + 1 /\ IssueChallenge(purpose, binding, stored + 1)
  BY DEF StartCeremony
<1>2. FactorsTyped
  BY DEF AccountKept
<1>3. stored + 1 \in Credentials
  BY <1>1, <1>2, NextNumber
<1>4. PICK new : new = [purpose |-> purpose, binding |-> binding, n |-> stored + 1]
  OBVIOUS
<1>5. new \in [purpose : Purposes, binding : 0..MaxSessions, n : Credentials] /\ new.n = stored + 1
  BY <1>3, <1>4
<1>6. challenge' \subseteq challenge \cup {new} /\ flow' = flow
  BY <1>1, <1>4 DEF IssueChallenge
<1>7. challenge' \subseteq [purpose : Purposes, binding : 0..MaxSessions, n : Credentials]
  BY <1>2, <1>5, <1>6 DEF FactorsTyped
<1>8. flow' \subseteq [purpose : FlowPurposes, sid : 0..MaxSessions, n : Credentials]
  BY <1>2, <1>6 DEF FactorsTyped
<1>9. challenge' \cup flow' \subseteq challenge \cup flow \cup {new}
  BY <1>6
<1> QED
  BY <1>1, <1>5, <1>7, <1>8, <1>9, IssueStep

\* StartSsoFlow keeps the invariant.
LEMMA Step_StartSsoFlow ==
    ASSUME AccountKept, NEW purpose \in FlowPurposes, NEW s \in 0..MaxSessions,
           StartSsoFlow(purpose, s)
    PROVE  AccountKept'
<1>1. /\ UNCHANGED <<user, totp, recovery, passkeys, link, sess, opened, challenge, job>> /\ NoProof
      /\ stored < MaxFactors /\ stored' = stored + 1
      /\ flow' = flow \cup {[purpose |-> purpose, sid |-> s, n |-> stored + 1]}
  BY DEF StartSsoFlow
<1>2. FactorsTyped
  BY DEF AccountKept
<1>3. stored + 1 \in Credentials
  BY <1>1, <1>2, NextNumber
<1>4. PICK new : new = [purpose |-> purpose, sid |-> s, n |-> stored + 1]
  OBVIOUS
<1>5. new \in [purpose : FlowPurposes, sid : 0..MaxSessions, n : Credentials] /\ new.n = stored + 1
  BY <1>3, <1>4
<1>6. flow' = flow \cup {new} /\ challenge' = challenge
  BY <1>1, <1>4
<1>7. challenge' \subseteq [purpose : Purposes, binding : 0..MaxSessions, n : Credentials]
  BY <1>2, <1>6 DEF FactorsTyped
<1>8. flow' \subseteq [purpose : FlowPurposes, sid : 0..MaxSessions, n : Credentials]
  BY <1>2, <1>5, <1>6 DEF FactorsTyped
<1>9. challenge' \cup flow' \subseteq challenge \cup flow \cup {new}
  BY <1>6
<1> QED
  BY <1>1, <1>5, <1>7, <1>8, <1>9, IssueStep

\* A challenge is not a redirect.
LEMMA ChallengeIsNoFlow ==
    ASSUME FactorsTyped, NEW c \in challenge, NEW f \in flow
    PROVE  c # f
<1>1. c.purpose \in Purposes /\ f.purpose \in FlowPurposes
  BY DEF FactorsTyped
<1>2. Purposes \cap FlowPurposes = {}
  BY DEF Purposes, FlowPurposes
<1> QED
  BY <1>1, <1>2

\* A request takes a challenge or a redirect.
LEMMA TakeStep ==
    ASSUME AccountKept, NEW c \in challenge \cup flow,
           challenge' \subseteq challenge, flow' \subseteq flow, c \notin challenge' \cup flow',
           NEW b \in Browsers, NEW r, Reach(b, r), RequestKept(r), r.n = c.n,
           UNCHANGED <<sess, opened, factorVars>>, NoProof
    PROVE  AccountKept'
<1>1. RowsKept /\ FactorsTyped /\ NumbersKept /\ CodesKept /\ RequestsKept /\ twice = {}
  BY DEF AccountKept
<1>2. UNCHANGED <<sess, opened, user, totp, recovery, passkeys, link, stored, usedProofs>>
  BY DEF factorVars, NoProof
<1>3. CredsPass({})
  BY <1>1, <1>2, CredsStay
<1>4. SessionsFollow /\ SecretsPass
  BY <1>1, <1>2, <1>3, SessionsSame
<1>5. NoCode /\ twice' = twice
  BY NothingAccepted
<1>6. stored \in Nat /\ stored' = stored /\ stored <= stored'
  BY <1>1, <1>2, CodesTyped
<1>7. CodesKept'
  BY <1>1, <1>2, <1>4, <1>5, <1>6, CodesStay
<1>8. job'[b] = r /\ \A d \in Browsers : d # b => job'[d] = job[d]
  BY <1>1, JobSet
<1>9. challenge' \cup flow' \subseteq (challenge \cup flow) \ {c}
  OBVIOUS
<1>10. NumbersKept'
  BY <1>1, <1>2, <1>8, <1>9, NumberIsTaken
<1>11. FactorsTyped'
  BY <1>1, <1>2 DEF FactorsTyped
<1>12. RequestKept(r)'
  BY <1>2 DEF RequestKept
<1>13. RowsKept' /\ SessionsPass /\ \A d \in Browsers : LockPasses(d)
  BY <1>4 DEF SessionsFollow
<1>14. \A d \in Browsers : LinkPasses(d)
  BY <1>1, <1>2, LinkHolds
<1>15. RequestsKept'
  BY <1>1, <1>12, <1>13, <1>14, RequestsSet
<1> QED
  BY <1>1, <1>5, <1>7, <1>10, <1>11, <1>13, <1>15 DEF AccountKept

\* TakeForCeremony keeps the invariant.
LEMMA Step_TakeForCeremony ==
    ASSUME AccountKept, NEW b \in Browsers, NEW purpose \in Purposes, NEW binding \in 0..MaxSessions,
           TakeForCeremony(b, purpose, binding)
    PROVE  AccountKept'
<1>1. PICK c, tok :
         /\ c \in Held(purpose, binding)
         /\ Reach(b, [kind |-> purpose, at |-> "begun", sid |-> binding, n |-> c.n, tok |-> tok])
         /\ challenge' = TakeChallenge(purpose, binding)
         /\ UNCHANGED flow /\ UNCHANGED <<sess, opened, factorVars>> /\ NoProof
  BY DEF TakeForCeremony, Start
<1>2. c \in challenge /\ c.purpose = purpose /\ c.binding = binding
  BY <1>1 DEF Held
<1>3. challenge' \subseteq challenge /\ c \notin challenge'
  BY <1>1, <1>2 DEF TakeChallenge
<1>4. c \notin flow'
  BY <1>1, <1>2, ChallengeIsNoFlow DEF AccountKept
<1>5. PICK r : r = [kind |-> purpose, at |-> "begun", sid |-> binding, n |-> c.n, tok |-> tok]
  OBVIOUS
<1>6. RequestKept(r) /\ r.n = c.n
  BY <1>5 DEF RequestKept, Purposes
<1> QED
  BY <1>1, <1>2, <1>3, <1>4, <1>5, <1>6, TakeStep

\* FinishSsoLinkCallback keeps the invariant.
LEMMA Step_FinishSsoLinkCallback ==
    ASSUME AccountKept, NEW b \in Browsers, NEW f \in flow, FinishSsoLinkCallback(b, f)
    PROVE  AccountKept'
<1>1. /\ Reach(b, [kind |-> "link", at |-> "begun", sid |-> f.sid, n |-> f.n])
      /\ flow' = flow \ {f} /\ UNCHANGED challenge
      /\ UNCHANGED <<sess, opened, factorVars>> /\ NoProof
  BY DEF FinishSsoLinkCallback, Start, ConsumeState
<1>2. f \notin challenge
  BY ChallengeIsNoFlow DEF AccountKept
<1>3. f \notin challenge' \cup flow' /\ flow' \subseteq flow /\ challenge' \subseteq challenge
  BY <1>1, <1>2
<1>4. PICK r : r = [kind |-> "link", at |-> "begun", sid |-> f.sid, n |-> f.n]
  OBVIOUS
<1>5. RequestKept(r) /\ r.n = f.n
  BY <1>4 DEF RequestKept
<1> QED
  BY <1>1, <1>3, <1>4, <1>5, TakeStep

\* FinishSsoSignInCallback keeps the invariant.
LEMMA Step_FinishSsoSignInCallback ==
    ASSUME AccountKept, NEW b \in Browsers, NEW f \in flow, NEW cookie,
           FinishSsoSignInCallback(b, f, cookie)
    PROVE  AccountKept'
<1>1. /\ Reach(b, [kind |-> "sso", at |-> "begun", linked |-> HasSsoLink, n |-> f.n,
                   cookie |-> cookie])
      /\ flow' = flow \ {f} /\ UNCHANGED challenge
      /\ UNCHANGED <<sess, opened, factorVars>> /\ NoProof
  BY DEF FinishSsoSignInCallback, Start, ConsumeState
<1>2. f \notin challenge
  BY ChallengeIsNoFlow DEF AccountKept
<1>3. f \notin challenge' \cup flow' /\ flow' \subseteq flow /\ challenge' \subseteq challenge
  BY <1>1, <1>2
<1>4. PICK r : r = [kind |-> "sso", at |-> "begun", linked |-> HasSsoLink, n |-> f.n,
                    cookie |-> cookie]
  OBVIOUS
<1>5. RequestKept(r) /\ r.n = f.n
  BY <1>4 DEF RequestKept
<1> QED
  BY <1>1, <1>3, <1>4, <1>5, TakeStep

\* FinishRegistration keeps the invariant.
LEMMA Step_FinishRegistration ==
    ASSUME AccountKept, NEW b \in Browsers, FinishRegistration(b)
    PROVE  AccountKept'
<1>1. /\ UNCHANGED <<user, totp, recovery, link, stored, opened, challenge, flow>>
      /\ Reach(b, Idle) /\ At(b, "register", "waiting") /\ Accept({<<"challenge", job[b].n>>})
      /\ passkeys' = passkeys \cup {job[b].n}
  BY DEF FinishRegistration, End, ceremonyVars
<1>2. RowsKept /\ FactorsTyped /\ RequestsKept /\ CodesKept /\ NumbersKept
  BY DEF AccountKept
<1>3. Numbered(job[b])
  BY <1>1 DEF At, Numbered, Purposes
<1>4. NumbersKept' /\ twice' = twice /\ NoCode
  BY <1>1, <1>3, IdleKept, NumberAccepted
<1>5. job[b].n \in Credentials
  BY <1>2, <1>3 DEF NumbersKept
<1>6. FactorsTyped'
  BY <1>1, <1>2, <1>5 DEF FactorsTyped
<1>7. PICK s : s = job[b].sid
  OBVIOUS
<1>8. PICK gone : gone = IF job[b].had THEN {} ELSE SessionRows \ {s}
  OBVIOUS
<1>9. /\ AllFree(gone \cup {s})
      /\ sess' = IF s \in SessionRows THEN [Without(gone) EXCEPT ![s] = Proved(sess[s])]
                 ELSE Without(gone)
  BY <1>7, <1>8 DEF FinishRegistration
<1>10. AllFree(gone) /\ s \notin gone
  BY <1>8, <1>9 DEF AllFree
<1>11. CredsPass(gone)
  BY <1>1, <1>2, CredsStay
<1>12. SessionsFollow /\ SecretsPass
  <2>1. CASE s \notin SessionRows
    BY <1>1, <1>2, <1>9, <1>10, <1>11, <2>1, SessionsEnded
  <2>2. CASE s \in SessionRows
    <3>1. PICK new : new = Proved(sess[s])
      OBVIOUS
    <3>2. RowKept(new) /\ SameHolder(sess[s], new) /\ new.secret = sess[s].secret
      BY <1>2, <2>2, <3>1, RowOf, ProvedRow
    <3>3. Replaces(gone, s, new)
      BY <1>9, <2>2, <3>1 DEF Replaces
    <3>4. s \in Ids /\ sess[s] # NoSession
      BY <1>2, <2>2, RowOf
    <3> QED
      BY <1>1, <1>2, <1>10, <1>11, <3>2, <3>3, <3>4, SessionUpdated
  <2> QED
    BY <2>1, <2>2
<1>13. CodesKept'
  <2>1. stored \in Nat /\ stored' = stored /\ stored <= stored'
    BY <1>1, <1>2, CodesTyped
  <2> QED
    BY <1>1, <1>2, <1>4, <1>12, <2>1, CodesStay
<1> QED
  BY <1>1, <1>4, <1>6, <1>12, <1>13, RequestEnds

\* CompletePasskeyTwoFactor keeps the invariant.
LEMMA Step_CompletePasskeyTwoFactor ==
    ASSUME AccountKept, NEW b \in Browsers, NEW p, CompletePasskeyTwoFactor(b, p)
    PROVE  AccountKept'
<1>1. /\ UNCHANGED <<user, totp, recovery, passkeys, link, stored, opened, challenge, flow>>
      /\ Reach(b, Idle) /\ At(b, "second_factor", "begun") /\ Accept({<<"challenge", job[b].n>>})
      /\ ElevatePendingSession(job[b].sid) /\ job[b].sid \in SessionRows
  BY DEF CompletePasskeyTwoFactor, End, factorVars, ceremonyVars, LockPendingSession
<1>2. RowsKept /\ FactorsTyped /\ RequestsKept /\ CodesKept /\ NumbersKept
  BY DEF AccountKept
<1>3. Numbered(job[b])
  BY <1>1 DEF At, Numbered, Purposes
<1>4. NumbersKept' /\ twice' = twice /\ NoCode
  BY <1>1, <1>3, IdleKept, NumberAccepted
<1>5. FactorsTyped'
  BY <1>1, <1>2 DEF FactorsTyped
<1>6. PICK s \in SessionRows : s = job[b].sid
  BY <1>1
<1>7. PICK new : new = Elevated(sess[s])
  OBVIOUS
<1>8. sess[s].token < MaxRotations /\ sess' = [sess EXCEPT ![s] = new]
  BY <1>1, <1>6, <1>7 DEF ElevatePendingSession
<1>9. RowKept(new) /\ SameHolder(sess[s], new) /\ new.secret = sess[s].secret
  BY <1>2, <1>7, <1>8, RowOf, ElevatedRow
<1>10. CredsPass({})
  BY <1>1, <1>2, CredsStay
<1>11. SessionsFollow /\ SecretsPass
  BY <1>1, <1>2, <1>8, <1>9, <1>10, RowReplaced, RowUpdated
<1>12. CodesKept'
  <2>1. stored \in Nat /\ stored' = stored /\ stored <= stored'
    BY <1>1, <1>2, CodesTyped
  <2> QED
    BY <1>1, <1>2, <1>4, <1>11, <2>1, CodesStay
<1> QED
  BY <1>1, <1>4, <1>5, <1>11, <1>12, RequestEnds

\* CompletePasskeySignIn keeps the invariant.
LEMMA Step_CompletePasskeySignIn ==
    ASSUME AccountKept, NEW b \in Browsers, NEW p, NEW cookie, CompletePasskeySignIn(b, p, cookie)
    PROVE  AccountKept'
<1>1. PICK r : r = [kind |-> "sign_in", at |-> "verified", cred |-> p, cookie |-> cookie]
  OBVIOUS
<1>2. /\ UNCHANGED <<sess, user, totp, recovery, passkeys, link, stored, opened, challenge, flow>>
      /\ Reach(b, r) /\ At(b, "sign_in", "begun") /\ Accept({<<"challenge", job[b].n>>})
  BY <1>1 DEF CompletePasskeySignIn, factorVars, ceremonyVars
<1>3. RowsKept /\ FactorsTyped /\ RequestsKept /\ CodesKept /\ NumbersKept /\ twice = {}
  BY DEF AccountKept
<1>4. Numbered(job[b]) /\ ~Numbered(r) /\ RequestKept(r)'
  BY <1>1, <1>2 DEF At, Numbered, Purposes, RequestKept
<1>5. NumbersKept' /\ twice' = twice /\ NoCode
  BY <1>2, <1>4, NumberAccepted
<1>6. FactorsTyped'
  BY <1>2, <1>3 DEF FactorsTyped
<1>7. CredsPass({})
  BY <1>2, <1>3, CredsStay
<1>8. SessionsFollow /\ SecretsPass
  BY <1>2, <1>3, <1>7, SessionsSame
<1>9. CodesKept'
  <2>1. stored \in Nat /\ stored' = stored /\ stored <= stored'
    BY <1>2, <1>3, CodesTyped
  <2> QED
    BY <1>2, <1>3, <1>5, <1>8, <2>1, CodesStay
<1>10. RowsKept' /\ SessionsPass /\ \A d \in Browsers : LockPasses(d)
  BY <1>8 DEF SessionsFollow
<1>11. \A d \in Browsers : LinkPasses(d)
  BY <1>2, <1>3, LinkHolds
<1>12. RequestsKept'
  BY <1>2, <1>3, <1>4, <1>10, <1>11, RequestsSet
<1> QED
  BY <1>3, <1>5, <1>6, <1>9, <1>10, <1>12 DEF AccountKept

\* DeletePasskey keeps the invariant.
LEMMA Step_DeletePasskey ==
    ASSUME AccountKept, NEW b \in Browsers, DeletePasskey(b)
    PROVE  AccountKept'
<1>1. /\ UNCHANGED <<user, totp, recovery, link, stored, opened>> /\ UNCHANGED ceremonyVars
      /\ Reach(b, Idle) /\ NoProof
  BY DEF DeletePasskey, End
<1>2. RowsKept /\ FactorsTyped /\ RequestsKept /\ CodesKept /\ NumbersKept
  BY DEF AccountKept
<1>3. NoCode /\ (\A n : SpentNumber(n)' => SpentNumber(n)) /\ twice' = twice
  BY <1>1, NothingAccepted
<1>4. NumbersKept'
  BY <1>1, <1>3, NumbersRest
<1>5. PICK p : p = job[b].cred
  OBVIOUS
<1>6. PICK bound : bound = {s \in SessionRows : sess[s].method = "passkey" /\ sess[s].cred = p}
  OBVIOUS
<1>7. \/ AllFree(bound) /\ passkeys' = passkeys \ {p} /\ sess' = Without(bound)
      \/ UNCHANGED <<passkeys, sess>>
  BY <1>5, <1>6 DEF DeletePasskey
<1>8. SessionsFollow /\ SecretsPass
  <2>1. CASE UNCHANGED <<passkeys, sess>>
    <3>1. CredsPass({})
      BY <1>1, <1>2, <2>1, CredsStay
    <3> QED
      BY <1>1, <1>2, <2>1, <3>1, SessionsSame
  <2>2. CASE AllFree(bound) /\ passkeys' = passkeys \ {p} /\ sess' = Without(bound)
    <3>1. ASSUME NEW s \in Ids, s \notin bound, sess[s] # NoSession
          PROVE  CredPasses(sess[s])
      <4>1. RowKept(sess[s]) /\ s \in SessionRows
        BY <1>2, <3>1 DEF RowsKept, SessionRows
      <4>2. sess[s].method = "passkey" => sess[s].cred \in passkeys /\ sess[s].cred # p
        BY <1>6, <3>1, <4>1 DEF RowKept
      <4> QED
        BY <1>1, <2>2, <4>2 DEF CredPasses
    <3>2. CredsPass(bound)
      BY <3>1 DEF CredsPass
    <3> QED
      BY <1>1, <1>2, <2>2, <3>2, SessionsEnded
  <2> QED
    BY <1>7, <2>1, <2>2
<1>9. FactorsTyped'
  BY <1>1, <1>2, <1>7 DEF FactorsTyped, ceremonyVars
<1>10. CodesKept'
  <2>1. stored \in Nat /\ stored' = stored /\ stored <= stored'
    BY <1>1, <1>2, CodesTyped
  <2> QED
    BY <1>1, <1>2, <1>3, <1>8, <2>1, CodesStay
<1> QED
  BY <1>1, <1>3, <1>4, <1>8, <1>9, <1>10, RequestEnds

-----------------------------------------------------------------------------
(* Steps of single sign-on, and of others.                                 *)

\* LinkSsoIdentity keeps the invariant.
LEMMA Step_LinkSsoIdentity ==
    ASSUME AccountKept, NEW b \in Browsers, LinkSsoIdentity(b)
    PROVE  AccountKept'
<1>1. /\ UNCHANGED <<user, totp, recovery, passkeys, stored, sess, opened, challenge, flow>>
      /\ Reach(b, Idle) /\ At(b, "link", "waiting")
  BY DEF LinkSsoIdentity, End, ceremonyVars
<1>2. RowsKept /\ FactorsTyped /\ RequestsKept /\ CodesKept /\ NumbersKept
  BY DEF AccountKept
<1>3. \/ NoProof /\ UNCHANGED link
      \/ link = None /\ link' = job[b].n /\ Accept({<<"flow", job[b].n>>})
  BY DEF LinkSsoIdentity, HasSsoLink
<1>4. Numbered(job[b])
  BY <1>1 DEF At, Numbered
<1>5. job[b].n \in Credentials /\ job[b].n # None /\ job[b].n \in 0..MaxFactors
  <2>1. job[b].n \in Credentials
    BY <1>2, <1>4 DEF NumbersKept
  <2> QED
    BY <2>1, Bounds DEF Credentials, None
<1>6. NumbersKept' /\ twice' = twice /\ NoCode
  <2>1. CASE NoProof /\ UNCHANGED link
    <3>1. NoCode /\ (\A n : SpentNumber(n)' => SpentNumber(n)) /\ twice' = twice
      BY <2>1, NothingAccepted
    <3> QED
      BY <1>1, <3>1, NumbersRest DEF ceremonyVars
  <2>2. CASE Accept({<<"flow", job[b].n>>})
    BY <1>1, <1>4, <2>2, IdleKept, NumberAccepted
  <2> QED
    BY <1>3, <2>1, <2>2
<1>7. CredsPass({})
  BY <1>1, <1>2, <1>3, CredsStay
<1>8. SessionsFollow /\ SecretsPass
  BY <1>1, <1>2, <1>7, SessionsSame
<1>9. FactorsTyped'
  BY <1>1, <1>2, <1>3, <1>5 DEF FactorsTyped
<1>10. CodesKept'
  <2>1. stored \in Nat /\ stored' = stored /\ stored <= stored'
    BY <1>1, <1>2, CodesTyped
  <2> QED
    BY <1>1, <1>2, <1>6, <1>8, <2>1, CodesStay
<1> QED
  BY <1>1, <1>3, <1>5, <1>6, <1>8, <1>9, <1>10, RequestEnds

\* UnlinkSsoIdentity keeps the invariant.
LEMMA Step_UnlinkSsoIdentity ==
    ASSUME AccountKept, NEW s \in Ids, UnlinkSsoIdentity(s)
    PROVE  AccountKept'
<1>1. /\ UNCHANGED <<user, totp, recovery, passkeys, stored, opened, challenge, flow, job>>
      /\ NoProof /\ LinkFree /\ link' = None
  BY DEF UnlinkSsoIdentity, ceremonyVars
<1>2. RowsKept /\ FactorsTyped /\ RequestsKept /\ CodesKept /\ NumbersKept
  BY DEF AccountKept
<1>3. PICK bound : bound = {t \in SessionRows : sess[t].method = "oauth"}
  OBVIOUS
<1>4. AllFree(bound) /\ sess' = Without(bound)
  BY <1>3 DEF UnlinkSsoIdentity
<1>5. CredsPass(bound)
  BY <1>1, <1>2, <1>3 DEF CredsPass, CredPasses, RowsKept, RowKept, SessionRows
<1>6. SessionsFollow /\ SecretsPass
  BY <1>1, <1>2, <1>4, <1>5, SessionsEnded
<1>7. NoCode /\ (\A n : SpentNumber(n)' => SpentNumber(n)) /\ twice' = twice
  BY <1>1, NothingAccepted
<1>8. stored \in Nat /\ stored' = stored /\ stored <= stored'
  BY <1>1, <1>2, CodesTyped
<1>9. \A d \in Browsers : Numbered(job'[d]) => Numbered(job[d]) /\ job'[d].n = job[d].n
  BY <1>1
<1>10. NumbersKept'
  BY <1>1, <1>2, <1>7, <1>8, <1>9, NumbersStay
<1>11. CodesKept'
  BY <1>1, <1>2, <1>6, <1>7, <1>8, CodesStay
<1>12. FactorsTyped'
  BY <1>1, <1>2, Bounds DEF FactorsTyped, None
<1> QED
  BY <1>1, <1>6, <1>7, <1>10, <1>11, <1>12, RequestsWait

\* OpenSsoSession keeps the invariant.
LEMMA Step_OpenSsoSession ==
    ASSUME AccountKept, NEW b \in Browsers, OpenSsoSession(b)
    PROVE  AccountKept'
<1>1. /\ UNCHANGED <<user, totp, recovery, passkeys, link, stored, challenge, flow>>
      /\ Reach(b, Idle) /\ At(b, "sso", "opening") /\ Accept({<<"flow", job[b].n>>})
      /\ Opens(sess, job[b].assurance, "oauth", link, FALSE)
  BY DEF OpenSsoSession, End, factorVars, ceremonyVars
<1>2. RowsKept /\ FactorsTyped /\ RequestsKept /\ CodesKept /\ NumbersKept
  BY DEF AccountKept
<1>3. Numbered(job[b])
  BY <1>1 DEF At, Numbered
<1>4. NumbersKept' /\ twice' = twice /\ NoCode
  BY <1>1, <1>3, IdleKept, NumberAccepted
<1>5. PICK assurance : assurance = job[b].assurance
  OBVIOUS
<1>6. link # None /\ assurance \in Assurances /\ assurance # "mfa"
  BY <1>1, <1>2, <1>5 DEF RequestsKept, RequestKept, At, Assurances
<1>7. PICK cred : cred = link
  OBVIOUS
<1>8. cred \in 0..MaxFactors /\ cred = link' /\ link' # None /\ "oauth" \in SignInMethods
      /\ FALSE \in BOOLEAN /\ "oauth" # "passkey"
  BY <1>1, <1>2, <1>6, <1>7 DEF FactorsTyped, SignInMethods
<1>9. Opens(Without({}), assurance, "oauth", cred, FALSE)
  BY <1>1, <1>2, <1>5, <1>7, WithoutNone
<1>10. CredsPass({})
  BY <1>1, <1>2, CredsStay
<1>11. SessionsFollow /\ SecretsPass
  BY <1>2, <1>6, <1>8, <1>9, <1>10, NothingHeld, SessionOpened
<1>12. FactorsTyped'
  BY <1>1, <1>2, <1>11 DEF FactorsTyped, SessionsFollow
<1>13. CodesKept'
  <2>1. stored \in Nat /\ stored' = stored /\ stored <= stored'
    BY <1>1, <1>2, CodesTyped
  <2> QED
    BY <1>1, <1>2, <1>4, <1>11, <2>1, CodesStay
<1> QED
  BY <1>1, <1>4, <1>11, <1>12, <1>13, RequestEnds

\* AutoLinkSsoIdentity keeps the invariant.
LEMMA Step_AutoLinkSsoIdentity ==
    ASSUME AccountKept, NEW b \in Browsers, AutoLinkSsoIdentity(b)
    PROVE  AccountKept'
<1>1. /\ UNCHANGED <<user, totp, recovery, passkeys, stored, challenge, flow>>
      /\ Reach(b, Idle) /\ At(b, "sso", "begun")
  BY DEF AutoLinkSsoIdentity, End, ceremonyVars
<1>2. RowsKept /\ FactorsTyped /\ RequestsKept /\ CodesKept /\ NumbersKept
  BY DEF AccountKept
<1>3. Numbered(job[b])
  BY <1>1 DEF At, Numbered
<1>4. PICK n : n = job[b].n
  OBVIOUS
<1>5. n \in Credentials /\ n # None /\ n \in 0..MaxFactors
  <2>1. n \in Credentials
    BY <1>2, <1>3, <1>4 DEF NumbersKept
  <2> QED
    BY <2>1, Bounds DEF Credentials, None
<1>6. PICK gone :
        /\ AllFree(gone)
        /\ IF SsoAutoLinkAllowed
           THEN /\ link' = n
                /\ Opens(Without(gone), FirstFactorAssurance(FALSE), "oauth", n, FALSE)
                /\ Accept({<<"flow", n>>})
           ELSE sess' = Without(gone) /\ UNCHANGED <<link, opened>> /\ NoProof
  BY <1>4 DEF AutoLinkSsoIdentity
<1>7. stored \in Nat /\ stored' = stored /\ stored <= stored'
  BY <1>1, <1>2, CodesTyped
<1>8. CASE SsoAutoLinkAllowed
  <2>1. /\ link = None /\ link' = n /\ Opens(Without(gone), "password", "oauth", n, FALSE)
        /\ Accept({<<"flow", job[b].n>>})
    BY <1>4, <1>6, <1>8 DEF SsoAutoLinkAllowed, HasSsoLink, FirstFactorAssurance
  <2>2. NumbersKept' /\ twice' = twice /\ NoCode
    BY <1>1, <1>3, <2>1, IdleKept, NumberAccepted
  <2>3. CredsPass(gone)
    BY <1>1, <1>2, <2>1, CredsStay
  <2>4. "password" \in Assurances /\ "oauth" \in SignInMethods /\ FALSE \in BOOLEAN
        /\ "oauth" # "passkey" /\ "password" # "mfa" /\ link' # None
    BY <1>5, <2>1 DEF Assurances, SignInMethods
  <2>5. SessionsFollow /\ SecretsPass
    BY <1>2, <1>5, <1>6, <2>1, <2>3, <2>4, SessionOpened
  <2>6. FactorsTyped'
    BY <1>1, <1>2, <1>5, <2>1, <2>5 DEF FactorsTyped, SessionsFollow
  <2>7. CodesKept'
    BY <1>1, <1>2, <1>7, <2>2, <2>5, CodesStay
  <2> QED
    BY <1>1, <2>2, <2>4, <2>5, <2>6, <2>7, RequestEnds
<1>9. CASE ~SsoAutoLinkAllowed
  <2>1. sess' = Without(gone) /\ UNCHANGED <<link, opened>> /\ NoProof
    BY <1>6, <1>9
  <2>2. UNCHANGED <<factorVars, ceremonyVars>>
    BY <1>1, <2>1 DEF factorVars, ceremonyVars
  <2>3. CredsPass(gone)
    BY <2>2, FactorsStand
  <2>4. SessionsFollow /\ SecretsPass
    BY <1>2, <1>6, <2>1, <2>3, SessionsEnded
  <2> QED
    BY <1>1, <2>1, <2>2, <2>4, IdleKept, RequestStep
<1> QED
  BY <1>8, <1>9

\* CompleteReset keeps the invariant.
LEMMA Step_CompleteReset ==
    ASSUME AccountKept, CompleteReset
    PROVE  AccountKept'
<1>1. /\ UNCHANGED <<user, stored, challenge, flow, job>> /\ NoProof
      /\ LinkFree /\ AllFree(SessionRows)
      /\ totp' = NoTotp /\ recovery' = {} /\ passkeys' = {} /\ link' = None
      /\ Opens([s \in Ids |-> NoSession], "password", "password", None, FALSE)
  BY DEF CompleteReset, ceremonyVars
<1>2. RowsKept /\ FactorsTyped /\ RequestsKept /\ CodesKept /\ NumbersKept
  BY DEF AccountKept
<1>3. [s \in Ids |-> NoSession] = Without(SessionRows)
  BY DEF Without, SessionRows
<1>4. Opens(Without(SessionRows), "password", "password", None, FALSE)
  BY <1>1, <1>3
<1>5. CredsPass(SessionRows)
  BY DEF CredsPass, SessionRows
<1>6. "password" \in Assurances /\ "password" \in SignInMethods /\ FALSE \in BOOLEAN
      /\ None \in 0..MaxFactors /\ "password" # "mfa" /\ "password" # "passkey" /\ "password" # "oauth"
  BY Bounds DEF Assurances, SignInMethods, None
<1>7. SessionsFollow /\ SecretsPass
  BY <1>1, <1>2, <1>4, <1>5, <1>6, SessionOpened
<1>8. NoCode /\ (\A n : SpentNumber(n)' => SpentNumber(n)) /\ twice' = twice
  BY <1>1, NothingAccepted
<1>9. stored \in Nat /\ stored' = stored /\ stored <= stored'
  BY <1>1, <1>2, CodesTyped
<1>10. \A d \in Browsers : Numbered(job'[d]) => Numbered(job[d]) /\ job'[d].n = job[d].n
  BY <1>1
<1>11. NumbersKept'
  BY <1>1, <1>2, <1>8, <1>9, <1>10, NumbersStay
<1>12. CodesKept'
  BY <1>1, <1>2, <1>7, <1>8, <1>9, CodesStay
<1>13. opened' \in 0..MaxSessions /\ NoTotp \in [id : 0..MaxFactors, step : 0..MaxSteps]
  BY <1>7, Bounds DEF SessionsFollow, NoTotp, None
<1>14. FactorsTyped'
  BY <1>1, <1>2, <1>6, <1>13 DEF FactorsTyped
<1> QED
  BY <1>1, <1>7, <1>8, <1>11, <1>12, <1>14, RequestsWait

\* The account changes hands, or is deactivated or reactivated.
LEMMA UserStep ==
    ASSUME AccountKept, SessionsFollow, SecretsPass, UNCHANGED <<opened, job, challenge, flow>>,
           UNCHANGED <<totp, recovery, passkeys, link, stored>>, NoProof,
           user' \in [role : SignInRoles, disabled : BOOLEAN]
    PROVE  AccountKept'
<1>1. RowsKept /\ FactorsTyped /\ RequestsKept /\ CodesKept /\ NumbersKept
  BY DEF AccountKept
<1>2. NoCode /\ (\A n : SpentNumber(n)' => SpentNumber(n)) /\ twice' = twice
  BY NothingAccepted
<1>3. stored \in Nat /\ stored' = stored /\ stored <= stored'
  BY <1>1, CodesTyped
<1>4. \A d \in Browsers : Numbered(job'[d]) => Numbered(job[d]) /\ job'[d].n = job[d].n
  OBVIOUS
<1>5. NumbersKept'
  BY <1>1, <1>2, <1>3, <1>4, NumbersStay
<1>6. CodesKept'
  BY <1>1, <1>2, <1>3, CodesStay
<1>7. FactorsTyped'
  BY <1>1 DEF FactorsTyped
<1> QED
  BY <1>2, <1>5, <1>6, <1>7, RequestsWait

\* BecomeOwner keeps the invariant.
LEMMA Step_BecomeOwner ==
    ASSUME AccountKept, BecomeOwner
    PROVE  AccountKept'
<1>1. /\ UNCHANGED <<opened, job, challenge, flow>> /\ UNCHANGED <<totp, recovery, passkeys, link, stored>>
      /\ NoProof /\ UNCHANGED sess /\ user' = [user EXCEPT !.role = "owner"]
  BY DEF BecomeOwner, ceremonyVars
<1>2. RowsKept /\ FactorsTyped /\ RequestsKept
  BY DEF AccountKept
<1>3. user' \in [role : SignInRoles, disabled : BOOLEAN]
  BY <1>1, <1>2 DEF FactorsTyped, SignInRoles
<1>4. CredsPass({})
  BY <1>1, <1>2, CredsStay
<1>5. SessionsFollow /\ SecretsPass
  BY <1>1, <1>2, <1>4, SessionsSame
<1> QED
  BY <1>1, <1>3, <1>5, UserStep

\* SetDisabled keeps the invariant.
LEMMA Step_SetDisabled ==
    ASSUME AccountKept, NEW d \in BOOLEAN, SetDisabled(d)
    PROVE  AccountKept'
<1>1. /\ UNCHANGED <<opened, job, challenge, flow>> /\ UNCHANGED <<totp, recovery, passkeys, link, stored>>
      /\ NoProof /\ AllFree(SessionRows) /\ sess' = Without(SessionRows)
      /\ user' = [user EXCEPT !.disabled = d]
  BY DEF SetDisabled, ceremonyVars
<1>2. RowsKept /\ FactorsTyped /\ RequestsKept
  BY DEF AccountKept
<1>3. user' \in [role : SignInRoles, disabled : BOOLEAN]
  BY <1>1, <1>2 DEF FactorsTyped
<1>4. CredsPass(SessionRows)
  BY <1>1, <1>2, CredsStay
<1>5. SessionsFollow /\ SecretsPass
  BY <1>1, <1>2, <1>4, SessionsEnded
<1> QED
  BY <1>1, <1>3, <1>5, UserStep

-----------------------------------------------------------------------------
(* The specification.                                                      *)

\* Every beginning keeps the invariant.
LEMMA AccountBegins ==
    ASSUME SignInInit
    PROVE  AccountKept
<1>1. PICK b \in Beginnings :
      /\ user = [role |-> b.role, disabled |-> FALSE]
      /\ totp = IF b.totp THEN [id |-> 1, step |-> 0] ELSE NoTotp
      /\ recovery = IF b.totp THEN {1} ELSE {}
      /\ passkeys = IF b.passkey THEN {2} ELSE {}
      /\ link = IF b.link THEN 3 ELSE None
      /\ sess = [s \in Ids |-> IF s = 1 /\ b.session # "none"
                               THEN NewSession(b.session, "password", None, b.session = "mfa")
                               ELSE NoSession]
      /\ opened = IF b.session = "none" THEN 0 ELSE 1
      /\ stored = 3 /\ challenge = {} /\ flow = {}
      /\ job = [b1 \in Browsers |-> Idle]
      /\ usedProofs = {} /\ twice = {}
  BY DEF SignInInit
<1>2. b.role \in SignInRoles /\ b.session \in Assurances \cup {"none"}
  BY SignInConstants
<1>3. /\ 1 \in Credentials /\ 2 \in Credentials /\ 3 \in Credentials /\ 3 \in 0..MaxFactors
      /\ 1 \in 0..MaxFactors /\ 0 \in 0..MaxFactors /\ 0 \in 0..MaxSteps
      /\ 0 \in 0..MaxSessions /\ 1 \in 0..MaxSessions /\ 1 \in Ids
  BY Bounds DEF Credentials, Ids
<1>4. totp \in [id : 0..MaxFactors, step : 0..MaxSteps] /\ totp.id \in {0, 1}
  BY <1>1, <1>3 DEF NoTotp, None
<1>5. recovery \subseteq {1} /\ passkeys \subseteq {2} /\ link \in {0, 3} /\ opened \in {0, 1}
  BY <1>1 DEF None
<1>6. FactorsTyped
  BY <1>1, <1>2, <1>3, <1>4, <1>5 DEF FactorsTyped
<1>7. ASSUME NEW s \in Ids, sess[s] # NoSession
      PROVE  s <= opened /\ RowKept(sess[s]) /\ sess[s].secret = None
  <2>1. s = 1 /\ b.session # "none" /\ opened = 1
    BY <1>1, <1>7
  <2>2. PICK assurance \in Assurances : assurance = b.session
    BY <1>2, <2>1
  <2>3. sess[s] = NewSession(assurance, "password", None, assurance = "mfa")
    BY <1>1, <2>1, <2>2
  <2>4. PICK proved \in BOOLEAN : /\ assurance = "mfa" => proved
                                  /\ sess[s] = NewSession(assurance, "password", None, proved)
    BY <2>3
  <2>5. PICK new : new = sess[s] /\ new = NewSession(assurance, "password", None, proved)
    BY <2>4
  <2>6. "password" \in SignInMethods /\ None \in 0..MaxFactors /\ "password" # "oauth" /\ "password" # "passkey"
    BY <1>3 DEF SignInMethods, None
  <2>7. /\ new \in SessionRecord /\ new.secret = None /\ new.method = "password"
        /\ new.assurance = "mfa" => new.proved
        /\ \A n \in 0..new.token : n \notin new.seen => n = new.token
    BY <2>4, <2>5, <2>6, NewRow
  <2>8. RowKept(new)
    BY <2>6, <2>7 DEF RowKept
  <2> QED
    BY <2>1, <2>5, <2>7, <2>8
<1>8. RowsKept
  BY <1>1, <1>7 DEF RowsKept
<1>9. /\ \A i : ~RecoveryUsed(i) /\ ~SpentNumber(i)
      /\ \A i, n : ~TotpUsed(i, n)
  BY <1>1 DEF RecoveryUsed, TotpUsed, SpentNumber
<1>10. \A s \in Ids : ~HasSecret(s)
  BY <1>7 DEF HasSecret
<1>11. CodesKept
  <2>1. totp.id <= stored /\ \A i \in recovery : i <= stored
    BY <1>1, <1>4, <1>5
  <2> QED
    BY <1>9, <1>10, <2>1 DEF CodesKept, TotpInOrder, RecoveryInOrder, SecretsFresh
<1>12. \A d \in Browsers : job[d] = Idle
  BY <1>1
<1>13. RequestKept(Idle) /\ ~Numbered(Idle)
  BY DEF Idle, RequestKept, Numbered, Purposes
<1>14. NumbersKept
  BY <1>1, <1>9, <1>12, <1>13 DEF NumbersKept
<1>15. RequestsKept
  BY <1>1, <1>12, <1>13 DEF RequestsKept
<1> QED
  BY <1>1, <1>6, <1>8, <1>11, <1>14, <1>15 DEF AccountKept

\* A typed code is a code.
LEMMA TypedIsCode ==
    ASSUME NEW c \in TypedCodes
    PROVE  c \in Codes
  BY DEF TypedCodes

\* Every step keeps the invariant.
LEMMA AccountGoesOn ==
    ASSUME AccountKept, SignInNext
    PROVE  AccountKept'
<1>1. CASE SessionPages
  BY <1>1, Step_FindActiveSession, Step_WithSessionGuard, Step_GraceEnds, Step_RevokeSession
     DEF SessionPages
<1>2. CASE LoginTwoFactorPages
  BY <1>2, Step_VerifyLogin, Step_FindPendingSession, Step_DisableTwoFactor, Step_OpenPasswordSession,
     Step_BeginTwoFactorLogin, Step_CompleteTwoFactorLogin, Step_EndLockedSecondStep,
     Step_RemovalStatement, Step_FinishDisable DEF LoginTwoFactorPages
<1>3. CASE TwoFactorPages
  BY <1>3, Step_StartEnrolment, Step_ConfirmEnrolment, Step_FinishEnrolment,
     Step_RegenerateRecoveryCodes, TypedIsCode DEF TwoFactorPages
<1>4. CASE PasskeyPages
  BY <1>4, Step_StartCeremony, Step_TakeForCeremony, Step_Rejected, Step_RegistrationStatement,
     Step_FinishRegistration, Step_OpenPasskeySession, Step_DeletePasskey,
     Step_CompletePasskeyTwoFactor, Step_CompletePasskeySignIn, Step_BeginDeletePasskey
     DEF PasskeyPages
<1>5. CASE SsoPages
  BY <1>5, Step_StartSsoFlow, Step_FinishSsoLinkCallback, Step_FinishSsoSignInCallback,
     Step_LinkStatement, Step_LinkSsoIdentity, Step_OpenSsoStatement, Step_OpenSsoSession,
     Step_AutoLinkSsoIdentity, Step_UnlinkSsoIdentity DEF SsoPages
<1>6. CASE OthersStep
  BY <1>6, Step_CompleteReset, Step_BecomeOwner, Step_SetDisabled DEF OthersStep
<1> QED
  BY <1>1, <1>2, <1>3, <1>4, <1>5, <1>6 DEF SignInNext

\* Nothing happens.
LEMMA AccountRests ==
    ASSUME AccountKept, UNCHANGED signInVars
    PROVE  AccountKept'
<1>1. UNCHANGED <<user, totp, recovery, passkeys, link, sess, opened, stored, challenge, flow, job, usedProofs, twice>>
  BY DEF signInVars
<1>2. RowsKept /\ FactorsTyped /\ RequestsKept
  BY DEF AccountKept
<1>3. UNCHANGED <<factorVars, ceremonyVars>> /\ NoProof
  BY <1>1 DEF factorVars, ceremonyVars, NoProof
<1>4. CredsPass({})
  BY <1>3, FactorsStand
<1>5. SessionsFollow /\ SecretsPass
  BY <1>1, <1>2, <1>4, SessionsSame
<1> QED
  BY <1>1, <1>3, <1>5, SessionStep

\* The invariant says what the two properties say.
LEMMA AccountIsEarned ==
    ASSUME AccountKept
    PROVE  SessionsAreEarned /\ ProofUsedOnce
<1>1. RowsKept /\ FactorsTyped
  BY DEF AccountKept
<1>2. sess \in [Ids -> SessionRecord \cup {NoSession}]
  <2>1. \A s \in Ids : sess[s] \in SessionRecord \cup {NoSession}
    BY <1>1 DEF RowsKept, RowKept
  <2> QED
    BY <1>1, <2>1 DEF RowsKept
<1>3. SignInTypeOK
  BY <1>1, <1>2 DEF SignInTypeOK, FactorsTyped
<1>4. FactorGuardsSessions
  BY <1>1, RowOf DEF FactorGuardsSessions, UsableSignIn, LiveSession, RowKept
<1>5. SessionHasItsCredential
  BY <1>1, RowOf DEF SessionHasItsCredential, RowKept
<1>6. FreshTokenIsCurrent
  BY <1>1, RowOf DEF FreshTokenIsCurrent, RowKept
<1>7. ASSUME OwnerSsoRule, NEW s \in SessionRows, UsableSignIn(s), user.role = "owner",
             sess[s].method = "oauth"
      PROVE  sess[s].proved
  <2>1. HasSsoLink
    BY <1>1, <1>7, RowOf DEF RowKept, HasSsoLink
  <2>2. HasSecondFactor
    BY <1>7, <2>1 DEF OwnerSsoRule
  <2> QED
    BY <1>4, <1>7, <2>2 DEF FactorGuardsSessions
<1>8. OwnerSsoRule => SsoAloneNeverOwner
  BY <1>7 DEF SsoAloneNeverOwner
<1> QED
  BY <1>3, <1>4, <1>5, <1>6, <1>8 DEF SessionsAreEarned, ProofUsedOnce, AccountKept

\* For any number of requests in flight, sessions, rotations, credentials and
\* time steps, and any account to begin with: a session that opens the
\* dashboard proved a second factor while the account has one, a session of a
\* passkey or a link does not outlive it, a token handed out and not presented
\* is the current one, and the owner rule keeps single sign-on alone out of the
\* owner's dashboard (liveSession of session-predicates.service.ts,
\* rotateSession of session.service.ts, the openings of the login, passkey and
\* single sign-on services).
THEOREM SessionsStayEarned == SignInSpec => []SessionsAreEarned
<1>1. SignInInit => AccountKept
  BY AccountBegins
<1>2. AccountKept /\ [SignInNext]_signInVars => AccountKept'
  BY AccountGoesOn, AccountRests
<1>3. AccountKept => SessionsAreEarned
  BY AccountIsEarned
<1> QED
  BY <1>1, <1>2, <1>3, PTL DEF SignInSpec

\* For any number of requests in flight and any account to begin with: no code
\* of the app, recovery code, passkey challenge or redirect of single sign-on
\* is accepted twice (matchSecondFactor of two-factor-match.service.ts, take of
\* passkey-challenge.service.ts, the store of sso-replay.service.ts).
THEOREM ProofsStayOnce == SignInSpec => []ProofUsedOnce
<1>1. SignInInit => AccountKept
  BY AccountBegins
<1>2. AccountKept /\ [SignInNext]_signInVars => AccountKept'
  BY AccountGoesOn, AccountRests
<1>3. AccountKept => ProofUsedOnce
  BY AccountIsEarned
<1> QED
  BY <1>1, <1>2, <1>3, PTL DEF SignInSpec
=============================================================================
