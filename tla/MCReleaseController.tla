------------------------- MODULE MCReleaseController -------------------------
(* Instances of ReleaseController for TLC. *)
EXTENDS ReleaseController, TLC

CONSTANTS old, main1, main2

\* A commit from before /live, and two merges on main.
MCShas     == {old, main1, main2}
MCReleases == {main1, main2}

\* The two merges are interchangeable.
MergeSymmetry == Permutations(MCReleases)
==============================================================================
