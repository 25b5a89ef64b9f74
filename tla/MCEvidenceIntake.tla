-------------------------- MODULE MCEvidenceIntake --------------------------
(* Instances of EvidenceIntake for TLC. *)
EXTENDS EvidenceIntake

CONSTANTS c1, c2

MCClaims   == {c1, c2}
MCEnrolled == {c1}
MCSolar    == {40, 100}
MCCore     == {60}

\* Every status and several scores, whatever the source.
MCAnything ==
    {Observation("consensus", "OK", s) : s \in {0, 50, 85, 100}}
        \union {Observation("consensus", status, 0) : status \in Statuses \ {"OK"}}

\* The engine alone, on every envelope of at most four such observations: a discrepancy
\* costs its penalty and rules out STRICT; the override below finds nothing to do.
ASSUME FusionAssumption ==
    \A n \in 0 .. 4 : \A obs \in [1 .. n -> MCAnything] : Verdict(obs) = Graded(obs)
==============================================================================
