---------------------------- MODULE MCEmailQueue ----------------------------
(* Small instances of the send queue for TLC. *)
EXTENDS EmailQueue, TLC

\* Two steps of backoff: 5 minutes, then 15.
MCSchedule == <<1, 2>>

\* Processes are interchangeable.
Symmetry == Permutations(Workers)
=============================================================================
