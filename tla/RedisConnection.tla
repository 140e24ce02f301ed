--------------------------- MODULE RedisConnection ---------------------------
(***************************************************************************)
(* One replica's Redis connection, reconnected on demand (redis-store.ts). *)
(* Commands run concurrently over the current client; a client that hangs  *)
(* is dropped by the first of its commands that times out.                 *)
(***************************************************************************)
EXTENDS Integers, FiniteSets

CONSTANTS
    Commands,
    MaxClients      \* bound: clients opened

VARIABLES
    client,     \* number of the current client
    live,       \* clients whose connection is open
    connecting, \* the one connect in progress, if any
    retryAt,    \* a failed connect's pause is running
    downSince,  \* an outage was reported and not yet a recovery
    command,    \* per command: waiting, sent on a client, done or failed
    hung        \* clients whose server no longer answers

redisVars == <<client, live, connecting, retryAt, downSince, command, hung>>

IdleCommand == [at |-> "idle", on |-> 0]
SentOn(n) == {c \in Commands : command[c] = [at |-> "sent", on |-> n]}
Settle(cs, to) ==
    command' = [c \in Commands |-> IF c \in cs THEN [at |-> to, on |-> 0] ELSE command[c]]
AwaitConnect == {c \in Commands : command[c].at = "waiting"}

\* send: over an open client, after the connect in progress, after one it
\* starts, or not at all while the pause runs.
Send(c) ==
    /\ command[c] = IdleCommand
    /\ IF client \in live
       THEN /\ command' = [command EXCEPT ![c] = [at |-> "sent", on |-> client]]
            /\ UNCHANGED connecting
       ELSE IF connecting \/ ~retryAt
       THEN Settle({c}, "waiting") /\ connecting' = TRUE
       ELSE Settle({c}, "failed") /\ UNCHANGED connecting
    /\ UNCHANGED <<client, live, retryAt, downSince, hung>>

\* connect resolves: markUp, and the waiting commands go out on a connection
\* that answers.
Connected ==
    /\ connecting
    /\ connecting' = FALSE
    /\ live' = live \cup {client}
    /\ hung' = hung \ {client}
    /\ retryAt' = FALSE
    /\ downSince' = FALSE
    /\ command' = [c \in Commands |->
                     IF c \in AwaitConnect THEN [at |-> "sent", on |-> client]
                     ELSE command[c]]
    /\ UNCHANGED client

\* Mutant: only the command that started the connect fails.
ConnectFailsForOne ==
    /\ connecting
    /\ client < MaxClients
    /\ connecting' = FALSE
    /\ retryAt' = TRUE
    /\ downSince' = TRUE
    /\ client' = client + 1
    /\ \E c \in AwaitConnect : Settle({c}, "failed")
    /\ UNCHANGED <<live, hung>>

\* connect rejects: a pause, a fresh client, and every waiter fails.
ConnectFails ==
    /\ connecting
    /\ client < MaxClients
    /\ connecting' = FALSE
    /\ retryAt' = TRUE
    /\ downSince' = TRUE
    /\ client' = client + 1
    /\ Settle(AwaitConnect, "failed")
    /\ UNCHANGED <<live, hung>>

\* The pause ends.
RetryDue ==
    /\ retryAt
    /\ retryAt' = FALSE
    /\ UNCHANGED <<client, live, connecting, downSince, command, hung>>

\* A reply.
Reply(c) ==
    /\ command[c].at = "sent"
    /\ command[c].on \in live \ hung
    /\ Settle({c}, "done")
    /\ UNCHANGED <<client, live, connecting, retryAt, downSince, hung>>

\* The server stops answering on this client.
Hang ==
    /\ client \in live \ hung
    /\ hung' = hung \cup {client}
    /\ UNCHANGED <<client, live, connecting, retryAt, downSince, command>>

\* A command times out: its client is dropped, if it is still the current one.
TimedOut(c) ==
    LET n == command[c].on IN
    /\ command[c].at = "sent"
    /\ n \in hung
    /\ client < MaxClients
    /\ downSince' = TRUE
    /\ IF n = client
       THEN /\ client' = client + 1
            /\ live' = live \ {n}
            /\ retryAt' = TRUE
       ELSE UNCHANGED <<client, live, retryAt>>
    /\ Settle({c}, "failed")
    /\ UNCHANGED <<connecting, hung>>

\* The server closes the connection: onclose, and its commands are rejected.
Closed ==
    /\ client \in live
    /\ live' = live \ {client}
    /\ downSince' = TRUE
    /\ Settle(SentOn(client), "failed")
    /\ UNCHANGED <<client, connecting, retryAt, hung>>

-----------------------------------------------------------------------------
RedisInit ==
    /\ client = 1
    /\ live = {}
    /\ connecting = FALSE
    /\ retryAt = FALSE
    /\ downSince = FALSE
    /\ command = [c \in Commands |-> IdleCommand]
    /\ hung = {}

RedisNext ==
    \/ Connected
    \/ ConnectFails
    \/ RetryDue
    \/ Hang
    \/ Closed
    \/ \E c \in Commands : Send(c) \/ Reply(c) \/ TimedOut(c)

RedisSpec == RedisInit /\ [][RedisNext]_redisVars

-----------------------------------------------------------------------------
\* A command never waits for a connect that nobody runs, and a connect runs
\* only while there is no open client: every waiter is answered by it.
WaitersHaveConnect ==
    /\ AwaitConnect # {} => connecting
    /\ connecting => client \notin live

\* An open client that answers is dropped only by its server: a command that
\* timed out on an earlier client leaves its successor alone.
HealthyClientStays == client' # client => client \notin live \ hung

\* The client in use is the one a command can rely on: nobody waits for a
\* connect that does not run, and no healthy client is thrown away.
ConnectionIsSound == [][WaitersHaveConnect' /\ HealthyClientStays]_redisVars
=============================================================================
