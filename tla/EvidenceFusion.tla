--------------------------- MODULE EvidenceFusion ---------------------------
(***************************************************************************)
(* fusion.py: what the observations of one claim come to.  A confidence is *)
(* given in hundredths; what is fused from n observations is given in      *)
(* parts of 100^n, so that nothing is rounded before a threshold decides.  *)
(***************************************************************************)
EXTENDS Integers, Sequences, FiniteSets

Statuses == {"OK", "DEGRADED", "FAILED", "DISCREPANCY"}

Sources == {"solar_temporal", "weather", "device", "consensus"}

Observations == [source : Sources, status : Statuses, confidence : 0 .. 100]

Verdicts == {"STRICT", "PROBABLE", "SUSPICIOUS", "QUARANTINE"}

\* The product of a sequence of numbers.
Product(s) ==
    LET p[n \in 0 .. Len(s)] == IF n = 0 THEN 1 ELSE p[n - 1] * s[n]
    IN  p[Len(s)]

\* What each observation leaves in doubt, in hundredths.
Doubts(obs) ==
    [i \in DOMAIN obs |-> IF obs[i].status = "OK" THEN 100 - obs[i].confidence ELSE 100]

\* The whole that an envelope's confidence is a part of, and a hundredth of it.
Whole(obs) == Product([i \in DOMAIN obs |-> 100])
Percent(obs) == Whole(obs) \div 100

Mean(obs) ==            \* mutant: the confidences of those that are OK are averaged
    LET ok == SelectSeq(obs, LAMBDA o : o.status = "OK")
        sum[n \in 0 .. Len(ok)] == IF n = 0 THEN 0 ELSE sum[n - 1] + ok[n].confidence
    IN  IF ok = <<>> THEN 0 ELSE (sum[Len(ok)] * Percent(obs)) \div Len(ok)

\* Independent observations multiply their doubts: 1 - product(1 - c).
Base(obs) == Whole(obs) - Product(Doubts(obs))

Count(obs, status) == Cardinality({i \in DOMAIN obs : obs[i].status = status})

CostWithoutFailed(obs) ==       \* mutant: a failed source is simply left out
    10 * Count(obs, "DEGRADED") + 20 * Count(obs, "DISCREPANCY")

\* The penalty, in hundredths.
Cost(obs) ==
    15 * Count(obs, "FAILED") + 10 * Count(obs, "DEGRADED") + 20 * Count(obs, "DISCREPANCY")

Remaining(obs) ==       \* mutant: the penalties may cost more than there is
    Base(obs) - Cost(obs) * Percent(obs)

Confidence(obs) ==
    LET left == Base(obs) - Cost(obs) * Percent(obs)
    IN  IF left > 0 THEN left ELSE 0

Disputed(obs) == \E i \in DOMAIN obs : obs[i].status = "DISCREPANCY"

\* The verdict of the thresholds.  Without observations there is no confidence.
Graded(obs) ==
    LET AtLeast(k) == obs # <<>> /\ Confidence(obs) >= k * Percent(obs) IN
    CASE AtLeast(90) /\ ~Disputed(obs)                  -> "STRICT"
      [] AtLeast(70) /\ (Disputed(obs) \/ ~AtLeast(90)) -> "PROBABLE"
      [] AtLeast(40) /\ ~AtLeast(70)                    -> "SUSPICIOUS"
      [] OTHER                                          -> "QUARANTINE"

\* The override below the thresholds finds no STRICT among the disputed.
Verdict(obs) ==
    IF Disputed(obs) /\ Graded(obs) = "STRICT" THEN "SUSPICIOUS" ELSE Graded(obs)
==============================================================================
