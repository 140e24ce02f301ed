---------------------------- MODULE MCMigrations ----------------------------
(* Values of the migrations' constants for TLC. *)
EXTENDS Migrations

\* Three containers start together: on an empty database, one of them with an
\* older image; on a schema from before the journal.
MCDeploys == {[journal |-> [p |-> 2, q |-> 3, r |-> 3], legacy |-> 0],
              [journal |-> [p |-> 3, q |-> 3, r |-> 3], legacy |-> 3]}
=============================================================================
