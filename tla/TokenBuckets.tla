---------------------------- MODULE TokenBuckets ----------------------------
(***************************************************************************)
(* The sending rate of one MX bucket: a token bucket shared by the         *)
(* replicas through Redis, with one in each replica's memory when Redis    *)
(* does not answer (shared-tokens.ts, redis-tokens.ts, rate-budget.ts).    *)
(* A token is Unit parts; a tick of the clock adds PerTick parts.          *)
(***************************************************************************)
EXTENDS Integers, FiniteSets, FiniteSetsExt

CONSTANTS
    Senders,        \* replicas that claim batches for this bucket
    Unit, PerTick,  \* parts of a token; parts refilled in a tick
    Capacity,       \* whole tokens the bucket holds
    MaxBatch,       \* most tokens asked for at once
    MaxTicks,       \* bound of the clock
    MaxTokenFaults  \* bound: takes that Redis does not answer

ASSUME TokenConstants ==
    /\ Unit \in Nat \ {0} /\ PerTick \in Nat \ {0} /\ Capacity \in Nat \ {0}
    /\ MaxBatch \in Nat /\ MaxTicks \in Nat
    /\ "redis" \notin Senders

VARIABLES
    tick,
    bucket,     \* store -> parts left, and the tick of the last take
    promised,   \* store -> tick at which its last short take was told to return
    granted,    \* store -> tick -> tokens granted
    tokenFaults

tokenVars == <<tick, bucket, promised, granted, tokenFaults>>

NoPromise == -1
BucketStores == Senders \cup {"redis"}
Least(a, b) == IF a < b THEN a ELSE b

\* Mutant: an idle bucket keeps filling.
RefillUncapped(b) == b.parts + (tick - b.at) * PerTick

\* refill: what the bucket holds now, never more than its capacity.
Refill(b) == Least(Capacity * Unit, b.parts + (tick - b.at) * PerTick)

\* takeNow and the script: whole tokens only.
Grants(b, count) == Least(count, Refill(b) \div Unit)
After(b, count) == [parts |-> Refill(b) - Grants(b, count) * Unit, at |-> tick]

\* waitMs: until the next whole token, rounded up; 0 when all were granted.
Wait(b, count) == (Unit - After(b, count).parts + PerTick - 1) \div PerTick

\* The store that answers grants count tokens, or fewer and a time to return.
TakeFrom(s, count) ==
    /\ granted' = [granted EXCEPT ![s][tick] = @ + Grants(bucket[s], count)]
    /\ promised' = [promised EXCEPT
                      ![s] = IF Grants(bucket[s], count) < count
                             THEN tick + Wait(bucket[s], count) ELSE NoPromise]

\* RateBudget.take through Redis.
TakeShared(count) ==
    /\ TakeFrom("redis", count)
    /\ bucket' = [bucket EXCEPT !["redis"] = After(@, count)]
    /\ UNCHANGED <<tick, tokenFaults>>

\* Redis does not answer: this replica's memory grants.
TakeLocal(r, count) ==
    /\ tokenFaults < MaxTokenFaults
    /\ tokenFaults' = tokenFaults + 1
    /\ TakeFrom(r, count)
    /\ bucket' = [bucket EXCEPT ![r] = After(@, count)]
    /\ UNCHANGED tick

\* A command whose answer was lost took the tokens all the same.
TakeUnanswered(count) ==
    /\ tokenFaults < MaxTokenFaults
    /\ tokenFaults' = tokenFaults + 1
    /\ bucket' = [bucket EXCEPT !["redis"] = After(@, count)]
    /\ promised' = [promised EXCEPT !["redis"] = NoPromise]
    /\ UNCHANGED <<tick, granted>>

\* The clock.
BucketTick ==
    /\ tick < MaxTicks
    /\ tick' = tick + 1
    /\ UNCHANGED <<bucket, promised, granted, tokenFaults>>

-----------------------------------------------------------------------------
TokenInit ==
    /\ tick = 0
    /\ bucket = [s \in BucketStores |-> [parts |-> Capacity * Unit, at |-> 0]]
    /\ promised = [s \in BucketStores |-> NoPromise]
    /\ granted = [s \in BucketStores |-> [t \in 0..MaxTicks |-> 0]]
    /\ tokenFaults = 0

TokenNext ==
    \/ \E count \in 1..MaxBatch :
          \/ TakeShared(count)
          \/ TakeUnanswered(count)
          \/ \E r \in Senders : TakeLocal(r, count)
    \/ BucketTick

TokenSpec == TokenInit /\ [][TokenNext]_tokenVars

-----------------------------------------------------------------------------
\* In any span of ticks a store grants at most its capacity and what was
\* refilled meanwhile: an idle bucket does not save up a burst.
RateHolds ==
    \A s \in BucketStores, from \in 0..tick :
        \A to \in from..tick :
            Unit * SumFunctionOnSet(granted[s], from..to)
                <= Capacity * Unit + (to - from) * PerTick

\* A delivery deferred by the wait it was told finds a whole token when it
\* comes back, unless another took from the bucket meanwhile.
WaitIsEnough ==
    \A s \in BucketStores :
        promised[s] # NoPromise /\ tick >= promised[s] => Refill(bucket[s]) >= Unit

\* The budget is kept and its waits are honest: neither a burst above the rate
\* nor a delivery sent away for too short a time.
BudgetIsKept == RateHolds /\ WaitIsEnough
=============================================================================
