------------------------------- MODULE MxSlots -------------------------------
(***************************************************************************)
(* How many deliveries to one MX bucket run at once.  Each replica has a   *)
(* lock in memory (mx-throttle.ts); when a Redis backend is installed, a   *)
(* delivery that holds the lock also takes a leased slot of a semaphore    *)
(* shared by all replicas (shared-slots.ts, redis-slots.ts), and falls     *)
(* back to a semaphore in its own memory when Redis does not answer.       *)
(* One bucket is modelled: buckets do not share state.                     *)
(***************************************************************************)
EXTENDS Integers, Sequences, FiniteSets

CONSTANTS
    Replicas,       \* processes
    SlotCalls,      \* calls of withMxLock, one holder id each
    ReplicaOf,      \* the process each delivery runs in
    MaxSlots,       \* MX_MAX_CONCURRENT
    MaxSlotFaults   \* bound: crashes, shutdowns and commands without an answer

ASSUME MxConstants ==
    /\ ReplicaOf \in [SlotCalls -> Replicas]
    /\ MaxSlots \in Nat \ {0}
    /\ MaxSlotFaults \in Nat
    /\ "redis" \notin Replicas

VARIABLES
    slotAt,     \* where each delivery is
    lock,       \* per replica: active, and the deliveries waiting for it
    semaphore,  \* Redis and each replica's memory: holders and the line
    grant,      \* the store that granted a running delivery its slot
    overrun,    \* running deliveries whose shared lease was lost
    installed,  \* replicas whose shared backend is still installed
    slotFaults

slotVars == <<slotAt, lock, semaphore, grant, overrun, installed, slotFaults>>

Places == {"new", "queued", "polling", "running", "done", "gone"}
Empty == [holders |-> {}, line |-> <<>>]
Semaphores == Replicas \cup {"redis"}

At(place) == {d \in SlotCalls : slotAt[d] = place}
Occupants(r) == {d \in At("polling") \cup At("running") : ReplicaOf[d] = r}
NoRepeats(q) == \A i, j \in 1..Len(q) : q[i] = q[j] => i = j
Listed(q, d) == \E i \in 1..Len(q) : q[i] = d
Position(q, d) == CHOOSE i \in 1..Len(q) : q[i] = d
Without(q, d) ==
    IF Listed(q, d)
    THEN [i \in 1..(Len(q) - 1) |-> q[IF i < Position(q, d) THEN i ELSE i + 1]]
    ELSE q

(***************************************************************************)
(* The semaphore, in memory and as the Redis scripts: same transitions.    *)
(***************************************************************************)

\* How many waiters are before d: all of them when it is not in the line.
Ahead(s, d) ==
    IF Listed(s.line, d)
    THEN Position(s.line, d) - 1
    ELSE Len(s.line)

\* A holder keeps its slot; another takes one when fewer wait before it than
\* are free.
Granted(s, d) ==
    LET free == MaxSlots - Cardinality(s.holders) IN
    \/ d \in s.holders
    \/ free > 0 /\ Ahead(s, d) < free

\* The store after acquire: a holder with a fresh lease, or a waiter.
Acquire(s, d) ==
    IF Granted(s, d)
    THEN [holders |-> s.holders \cup {d}, line |-> Without(s.line, d)]
    ELSE [s EXCEPT !.line = IF Listed(@, d) THEN @ ELSE Append(@, d)]

\* The store after release.
Release(s, d) == [holders |-> s.holders \ {d}, line |-> Without(s.line, d)]

(***************************************************************************)
(* The lock of one replica.                                                *)
(***************************************************************************)

\* withSharedSlot: without a shared backend the delivery starts at once.
PastLock(r) == IF r \in installed THEN "polling" ELSE "running"

\* withMxLock: take a place, or wait for one.
WithMxLock(d) ==
    LET r == ReplicaOf[d] IN
    /\ slotAt[d] = "new"
    /\ IF lock[r].active < MaxSlots
       THEN /\ lock' = [lock EXCEPT ![r].active = @ + 1]
            /\ slotAt' = [slotAt EXCEPT ![d] = PastLock(r)]
       ELSE /\ lock' = [lock EXCEPT ![r].queue = Append(@, d)]
            /\ slotAt' = [slotAt EXCEPT ![d] = "queued"]
    /\ UNCHANGED <<semaphore, grant, overrun, installed, slotFaults>>

\* Mutant: the place is handed over and also given back.
UnlockTwice(d) ==
    LET r == ReplicaOf[d]
        waits == lock[r].queue # <<>>
    IN  /\ lock' = [lock EXCEPT
                     ![r] = [active |-> @.active - 1,
                             queue  |-> IF waits THEN Tail(@.queue) ELSE @.queue]]
        /\ slotAt' = [e \in SlotCalls |->
                        IF e = d THEN "done"
                        ELSE IF waits /\ e = Head(lock[r].queue) THEN PastLock(r)
                        ELSE slotAt[e]]

\* Mutant: the place is given back and nobody is woken.
UnlockWakesNobody(d) ==
    LET r == ReplicaOf[d] IN
    /\ lock' = [lock EXCEPT ![r].active = @ - 1]
    /\ slotAt' = [slotAt EXCEPT ![d] = "done"]

\* withMxLock's finally: hand the place to the next waiter, or give it back.
Unlock(d) ==
    LET r == ReplicaOf[d]
        waits == lock[r].queue # <<>>
    IN  /\ lock' = [lock EXCEPT
                     ![r] = [active |-> IF waits THEN @.active ELSE @.active - 1,
                             queue  |-> IF waits THEN Tail(@.queue) ELSE @.queue]]
        /\ slotAt' = [e \in SlotCalls |->
                        IF e = d THEN "done"
                        ELSE IF waits /\ e = Head(lock[r].queue) THEN PastLock(r)
                        ELSE slotAt[e]]

(***************************************************************************)
(* waitForSlot: one poll.                                                  *)
(***************************************************************************)

\* The delivery goes on with a slot of store s, or waits for the next poll.
Polled(s, d) ==
    IF Granted(semaphore[s], d)
    THEN /\ slotAt' = [slotAt EXCEPT ![d] = "running"]
         /\ grant' = [grant EXCEPT ![d] = s]
    ELSE UNCHANGED <<slotAt, grant>>

\* Redis answers; or no backend is installed any more and memory answers.
Poll(d) ==
    LET r == ReplicaOf[d]
        s == IF r \in installed THEN "redis" ELSE r
    IN  /\ slotAt[d] = "polling"
        /\ Polled(s, d)
        /\ semaphore' = [semaphore EXCEPT ![s] = Acquire(@, d)]
        /\ UNCHANGED <<lock, overrun, installed, slotFaults>>

\* Redis does not answer: the command may have been applied or not, and so
\* may the release sent after it; this replica's memory decides.
PollUnanswered(d) ==
    LET r == ReplicaOf[d] IN
    /\ slotAt[d] = "polling"
    /\ r \in installed
    /\ slotFaults < MaxSlotFaults
    /\ slotFaults' = slotFaults + 1
    /\ Polled(r, d)
    /\ \E s \in {semaphore["redis"], Acquire(semaphore["redis"], d),
                 Release(semaphore["redis"], d)} :
          semaphore' = [semaphore EXCEPT !["redis"] = s, ![r] = Acquire(@, d)]
    /\ UNCHANGED <<lock, overrun, installed>>

(***************************************************************************)
(* The end of a session.                                                   *)
(***************************************************************************)

\* storeOf: a shared grant has no store once the backend is closed.
StoreOf(d) ==
    IF grant[d] = "redis" /\ ReplicaOf[d] \notin installed THEN "none" ELSE grant[d]

\* fn settles: the slot is released where it was granted, then the lock.
Finish(d) ==
    /\ slotAt[d] = "running"
    /\ semaphore' = [s \in Semaphores |->
                       IF s = StoreOf(d) THEN Release(semaphore[s], d)
                       ELSE semaphore[s]]
    /\ grant' = [grant EXCEPT ![d] = "none"]
    /\ overrun' = overrun \ {d}
    /\ Unlock(d)
    /\ UNCHANGED <<installed, slotFaults>>

\* The same when Redis does not get the release.
FinishUnreleased(d) ==
    /\ slotAt[d] = "running"
    /\ StoreOf(d) = "redis"
    /\ slotFaults < MaxSlotFaults
    /\ slotFaults' = slotFaults + 1
    /\ grant' = [grant EXCEPT ![d] = "none"]
    /\ overrun' = overrun \ {d}
    /\ Unlock(d)
    /\ UNCHANGED <<semaphore, installed>>

(***************************************************************************)
(* Time, and what goes wrong.                                              *)
(***************************************************************************)

\* keepRenewed keeps a lease alive while its store answers.
Renewed(s, d) == slotAt[d] = "running" /\ StoreOf(d) = s

\* A lease that nobody renews ends.
LeaseEnds(s, d) ==
    /\ d \in semaphore[s].holders
    /\ ~Renewed(s, d)
    /\ semaphore' = [semaphore EXCEPT ![s].holders = @ \ {d}]
    /\ overrun' = IF slotAt[d] = "running" /\ grant[d] = s
                  THEN overrun \cup {d} ELSE overrun
    /\ UNCHANGED <<slotAt, lock, grant, installed, slotFaults>>

\* Redis is away for a whole lease: the session goes on without its slot.
LeaseLost(d) ==
    /\ Renewed("redis", d)
    /\ d \in semaphore["redis"].holders
    /\ slotFaults < MaxSlotFaults
    /\ slotFaults' = slotFaults + 1
    /\ semaphore' = [semaphore EXCEPT !["redis"].holders = @ \ {d}]
    /\ overrun' = overrun \cup {d}
    /\ UNCHANGED <<slotAt, lock, grant, installed>>

\* A place in a line that is no longer polled ends.
WaitEnds(s, d) ==
    LET r == ReplicaOf[d] IN
    /\ Listed(semaphore[s].line, d)
    /\ ~(slotAt[d] = "polling" /\ s = (IF r \in installed THEN "redis" ELSE r))
    /\ semaphore' = [semaphore EXCEPT ![s].line = Without(@, d)]
    /\ UNCHANGED <<slotAt, lock, grant, overrun, installed, slotFaults>>

\* A process dies with its lock, its memory and its sessions.
CrashReplica(r) ==
    /\ slotFaults < MaxSlotFaults
    /\ slotFaults' = slotFaults + 1
    /\ slotAt' = [d \in SlotCalls |->
                    IF ReplicaOf[d] = r /\ slotAt[d] # "done" THEN "gone"
                    ELSE slotAt[d]]
    /\ lock' = [lock EXCEPT ![r] = [active |-> 0, queue |-> <<>>]]
    /\ semaphore' = [semaphore EXCEPT ![r] = Empty]
    /\ grant' = [d \in SlotCalls |->
                   IF ReplicaOf[d] = r THEN "none" ELSE grant[d]]
    /\ overrun' = {d \in overrun : ReplicaOf[d] # r}
    /\ UNCHANGED installed

\* closeSharedStore, at shutdown, while sessions still run.
CloseSharedStore(r) ==
    /\ r \in installed
    /\ slotFaults < MaxSlotFaults
    /\ slotFaults' = slotFaults + 1
    /\ installed' = installed \ {r}
    /\ UNCHANGED <<slotAt, lock, semaphore, grant, overrun>>

-----------------------------------------------------------------------------
SlotInit ==
    /\ slotAt = [d \in SlotCalls |-> "new"]
    /\ lock = [r \in Replicas |-> [active |-> 0, queue |-> <<>>]]
    /\ semaphore = [s \in Semaphores |-> Empty]
    /\ grant = [d \in SlotCalls |-> "none"]
    /\ overrun = {}
    /\ installed \in {{}, Replicas}
    /\ slotFaults = 0

DeliveryStep(d) ==
    \/ WithMxLock(d)
    \/ Poll(d)
    \/ PollUnanswered(d)
    \/ Finish(d)
    \/ FinishUnreleased(d)
    \/ LeaseLost(d)
    \/ \E s \in Semaphores : LeaseEnds(s, d) \/ WaitEnds(s, d)

SlotNext ==
    \/ \E d \in SlotCalls : DeliveryStep(d)
    \/ \E r \in Replicas : CrashReplica(r) \/ CloseSharedStore(r)

\* Polls repeat on a timer, a session ends (every SMTP step has a timeout),
\* and clocks advance.
SlotFairness ==
    \A d \in SlotCalls :
        /\ WF_slotVars(Poll(d))
        /\ WF_slotVars(Finish(d))
        /\ WF_slotVars(\E s \in Semaphores : LeaseEnds(s, d))
        /\ WF_slotVars(\E s \in Semaphores : WaitEnds(s, d))

SlotSpec == SlotInit /\ [][SlotNext]_slotVars /\ SlotFairness

-----------------------------------------------------------------------------
\* Types; nobody waits twice in a lock or in a line.
SlotTypeOK ==
    /\ slotAt \in [SlotCalls -> Places]
    /\ \A r \in Replicas :
          /\ lock[r].active \in Nat
          /\ lock[r].queue \in Seq(SlotCalls)
          /\ NoRepeats(lock[r].queue)
    /\ \A s \in Semaphores :
          /\ semaphore[s].holders \subseteq SlotCalls
          /\ semaphore[s].line \in Seq(SlotCalls)
          /\ NoRepeats(semaphore[s].line)
    /\ grant \in [SlotCalls -> Semaphores \cup {"none"}]
    /\ overrun \subseteq At("running")
    /\ installed \subseteq Replicas
    /\ slotFaults \in 0..MaxSlotFaults

\* withMxLock hands a place over without counting it again: active is the
\* number of deliveries past the lock, never more than the limit, and nobody
\* waits while a place is free.
LockCountsSessions ==
    \A r \in Replicas :
        /\ lock[r].active = Cardinality(Occupants(r))
        /\ lock[r].active <= MaxSlots
        /\ lock[r].queue # <<>> => lock[r].active = MaxSlots

\* Sessions that hold a live shared slot never exceed the limit, whatever
\* crashes, times out or is released late; a session runs without one only
\* when Redis failed it, so without a failure the limit holds across replicas.
SharedLimit ==
    LET shared == {d \in At("running") : grant[d] = "redis"} \ overrun IN
    /\ Cardinality(shared) <= MaxSlots
    /\ slotFaults = 0 /\ installed # {} => At("running") = shared

\* A delivery that waits, for the lock or for a shared slot, runs in the end
\* (or its process dies), however many slots a crash or a lost answer leaked.
EveryDeliveryRuns ==
    \A d \in SlotCalls :
        slotAt[d] \in {"queued", "polling"} ~> slotAt[d] \in {"running", "gone"}

\* The lock and the shared semaphore count the sessions that really run, so
\* neither lets more through than its limit nor keeps anybody out for nothing.
SlotsAreCounted == SlotTypeOK /\ LockCountsSessions /\ SharedLimit
=============================================================================
