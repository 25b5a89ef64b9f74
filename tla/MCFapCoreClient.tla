--------------------------- MODULE MCFapCoreClient ---------------------------
(* Two tasks against a FAP-Core that is up, as one commit, or down. *)
EXTENDS FapCoreClient

CONSTANTS p, q, a

MCTasks   == {p, q}
MCCommits == {a}
==============================================================================
