---------------------------- MODULE OneTimeStore ----------------------------
(***************************************************************************)
(* Entries that may be used once: secrets shown on the page after a POST   *)
(* (reveal-store.ts) and SSO states that were consumed                     *)
(* (sso-replay.service.ts), each in a namespace of the one-time store      *)
(* (shared-store.ts, redis-store.ts).  A Redis error rejects: it never     *)
(* falls back to memory.                                                   *)
(***************************************************************************)
EXTENDS Integers, Sequences, FiniteSets

CONSTANTS
    Processes,      \* replicas
    Secrets,        \* reveal tokens
    States,         \* SSO flow states
    Viewers,        \* kind, account and session of a reveal
    MaxEntries,     \* cap of a namespace in memory
    MaxOnceFaults   \* bound: Redis commands without an answer

ASSUME OnceConstants ==
    /\ MaxEntries \in Nat \ {0}
    /\ "redis" \notin Processes
    /\ "nobody" \notin Viewers

VARIABLES
    onRedis,    \* a shared backend is installed
    reveals,    \* store -> entries of the reveal namespace, oldest first
    claims,     \* store -> keys of the replay namespace, oldest first
    stashed,    \* secret -> the owner it was stored for
    shown,      \* [secret, owner] -> times the value was returned
    accepted,   \* [store, state] -> times a callback passed the claim
    openFlows,  \* states whose cookie has not expired
    onceFaults

onceVars == <<onRedis, reveals, claims, stashed, shown, accepted, openFlows,
              onceFaults>>

\* sharedOneTimeStore: the backend's store, or the process's memory.
OnceStore(p) == IF onRedis THEN "redis" ELSE p
OnceStores == Processes \cup {"redis"}

HasEntry(q, k) == \E i \in 1..Len(q) : q[i].key = k
Place(q, k) == CHOOSE i \in 1..Len(q) : q[i].key = k
Entry(q, k) == q[Place(q, k)]
Drop(q, k) ==
    IF HasEntry(q, k)
    THEN [i \in 1..(Len(q) - 1) |-> q[IF i < Place(q, k) THEN i ELSE i + 1]]
    ELSE q

\* put: past the cap of a memory the oldest entry makes room.
PutOnce(s, q, e) ==
    Append(IF s # "redis" /\ Len(q) >= MaxEntries THEN Tail(q) ELSE q, e)

\* Mutant: the value is returned and the entry stays.
TakeKeeps(q, k) == q

\* The namespace after a take.
TakeOnce(q, k) == Drop(q, k)

\* take returns the value of this key, for its own guard only.
Takes(q, k, owner) == HasEntry(q, k) /\ Entry(q, k).guard = owner

\* claim: an absent key; a memory full of live keys refuses.
Claimable(s, q, k) == ~HasEntry(q, k) /\ (s = "redis" \/ Len(q) < MaxEntries)

\* The namespace after a claim that is granted.
ClaimOnce(s, q, k) == PutOnce(s, q, [key |-> k, guard |-> "none"])

(***************************************************************************)
(* Commands.  In Redis a command may fail, applied or not: its caller sees *)
(* an error either way.                                                    *)
(***************************************************************************)
OnceFault == /\ onRedis
             /\ onceFaults < MaxOnceFaults
             /\ onceFaults' = onceFaults + 1

\* stashRevealSecret: a fresh token per secret.
StashRevealSecret(p, k, owner) ==
    LET s == OnceStore(p)
        put == [reveals EXCEPT ![s] = PutOnce(s, @, [key |-> k, guard |-> owner])]
    IN  /\ stashed[k] = "nobody"
        /\ stashed' = [stashed EXCEPT ![k] = owner]
        /\ \/ reveals' = put /\ UNCHANGED onceFaults
           \/ OnceFault /\ reveals' \in {reveals, put}
        /\ UNCHANGED <<onRedis, claims, shown, accepted, openFlows>>

\* consumeRevealSecret, by the page of any session that has the token.
ConsumeRevealSecret(p, k, owner) ==
    LET s == OnceStore(p)
        taken == [reveals EXCEPT ![s] = TakeOnce(@, k)]
    IN  /\ Takes(reveals[s], k, owner)
        /\ \/ /\ reveals' = taken
              /\ shown' = [shown EXCEPT ![<<k, owner>>] = @ + 1]
              /\ UNCHANGED onceFaults
           \/ OnceFault /\ reveals' = taken /\ UNCHANGED shown
        /\ UNCHANGED <<onRedis, claims, stashed, accepted, openFlows>>

\* A callback of a live flow: the state is claimed before any network call.
ClaimState(p, k) ==
    LET s == OnceStore(p)
        claimed == [claims EXCEPT ![s] = ClaimOnce(s, @, k)]
    IN  /\ k \in openFlows
        /\ Claimable(s, claims[s], k)
        /\ \/ /\ claims' = claimed
              /\ accepted' = [accepted EXCEPT ![<<s, k>>] = @ + 1]
              /\ UNCHANGED onceFaults
           \/ OnceFault /\ claims' = claimed /\ UNCHANGED accepted
        /\ UNCHANGED <<onRedis, reveals, stashed, shown, openFlows>>

\* Time: a reveal's minute is over.
RevealEnds(s, k) ==
    /\ HasEntry(reveals[s], k)
    /\ reveals' = [reveals EXCEPT ![s] = Drop(@, k)]
    /\ UNCHANGED <<onRedis, claims, stashed, shown, accepted, openFlows, onceFaults>>

\* Time: the flow's cookie expires; its claim is held longer (the skew).
FlowEnds(k) ==
    /\ k \in openFlows
    /\ openFlows' = openFlows \ {k}
    /\ UNCHANGED <<onRedis, reveals, claims, stashed, shown, accepted, onceFaults>>
ClaimEnds(s, k) ==
    /\ HasEntry(claims[s], k)
    /\ k \notin openFlows
    /\ claims' = [claims EXCEPT ![s] = Drop(@, k)]
    /\ UNCHANGED <<onRedis, reveals, stashed, shown, accepted, openFlows, onceFaults>>

-----------------------------------------------------------------------------
OnceInit ==
    /\ onRedis \in BOOLEAN
    /\ reveals = [s \in OnceStores |-> <<>>]
    /\ claims = [s \in OnceStores |-> <<>>]
    /\ stashed = [k \in Secrets |-> "nobody"]
    /\ shown = [x \in Secrets \X Viewers |-> 0]
    /\ accepted = [x \in OnceStores \X States |-> 0]
    /\ openFlows = States
    /\ onceFaults = 0

OnceNext ==
    \/ \E p \in Processes :
          \/ \E k \in Secrets, o \in Viewers :
                StashRevealSecret(p, k, o) \/ ConsumeRevealSecret(p, k, o)
          \/ \E k \in States : ClaimState(p, k)
    \/ \E s \in OnceStores :
          \/ \E k \in Secrets : RevealEnds(s, k)
          \/ \E k \in States : ClaimEnds(s, k)
    \/ \E k \in States : FlowEnds(k)

OnceSpec == OnceInit /\ [][OnceNext]_onceVars

-----------------------------------------------------------------------------
\* A secret is returned at most once, and only to the session it was stored
\* for: not again after a lost answer, an eviction, or a second request on
\* another replica.
RevealedOnce ==
    \A x \in Secrets \X Viewers :
        /\ shown[x] <= 1
        /\ shown[x] = 1 => stashed[x[1]] = x[2]

\* A callback of one flow passes once per store: on every replica with
\* Redis, on the same process without it, however full the memory is.
CallbackOnce == \A x \in DOMAIN accepted : accepted[x] <= 1

\* Nothing that may be used once is used twice (the one-time store's promise).
UsedOnce == RevealedOnce /\ CallbackOnce
=============================================================================
