------------------------- MODULE EvidenceIntakeProofs -------------------------
(***************************************************************************)
(* Theorems about EvidenceFusion, for every envelope of observations, and  *)
(* about EvidenceIntake, for any claims, scores, cache lifetime, latency   *)
(* and length of the run.                                                  *)
(***************************************************************************)
EXTENDS EvidenceIntake, SequenceTheorems, FiniteSetTheorems, WellFoundedInduction, TLAPS

\* Induction up to n, over a set of numbers.
LEMMA Induction ==
    ASSUME NEW n \in Nat, NEW G, 0 \in G, \A k \in 1 .. n : k - 1 \in G => k \in G
    PROVE  \A k \in 0 .. n : k \in G
  <1> DEFINE T == (0 .. n) \ G
  <1> SUFFICES ASSUME T # {} PROVE FALSE
    OBVIOUS
  <1>1. T \subseteq Nat
    OBVIOUS
  <1>2. \A x, y \in Nat : y < x => <<y, x>> \in OpToRel(<, Nat)
    BY Zenon DEF OpToRel
  <1>3. PICK x \in T : \A y \in T : ~ (<<y, x>> \in OpToRel(<, Nat))
    <2> HIDE DEF T
    <2> QED
      BY <1>1, NatLessThanWellFounded, WFMin
  <1>4. \A y \in T : ~(y < x)
    <2> HIDE DEF T
    <2> QED
      BY <1>1, <1>2, <1>3
  <1>5. x # 0 /\ x \in 1 .. n /\ x - 1 \in 0 .. n /\ x - 1 < x
    OBVIOUS
  <1>6. x - 1 \in G
    BY <1>4, <1>5
  <1> QED
    BY <1>5, <1>6

\* The products p of the first numbers of s, n at most.
Prefixes(s, n, p) ==
    /\ p \in [0 .. n -> Int]
    /\ p[0] = 1
    /\ \A k \in 1 .. n : p[k] = p[k - 1] * s[k]

\* The recursion of Product has a solution,
LEMMA PrefixesExist ==
    ASSUME NEW s \in Seq(Int)
    PROVE  \E p : Prefixes(s, Len(s), p)
  <1> DEFINE G == {n \in 0 .. Len(s) : \E p : Prefixes(s, n, p)}
  <1>1. Len(s) \in Nat /\ \A n \in 1 .. Len(s) : s[n] \in Int
    OBVIOUS
  <1>2. 0 \in G
    <2>1. Prefixes(s, 0, [k \in 0 .. 0 |-> 1])
      BY DEF Prefixes
    <2> QED
      BY <1>1, <2>1
  <1>3. ASSUME NEW n \in 1 .. Len(s), n - 1 \in G PROVE n \in G
    <2>1. PICK p : Prefixes(s, n - 1, p)
      BY <1>3
    <2> DEFINE q == [k \in 0 .. n |-> IF k = n THEN p[n - 1] * s[n] ELSE p[k]]
    <2>2. q \in [0 .. n -> Int] /\ q[0] = 1
      BY <1>1, <2>1 DEF Prefixes
    <2>3. ASSUME NEW k \in 1 .. n PROVE q[k] = q[k - 1] * s[k]
      <3>1. k - 1 \in 0 .. n /\ k - 1 # n
        BY <1>1
      <3>2. CASE k = n
        BY <3>1, <3>2
      <3>3. CASE k # n
        <4>1. k \in 1 .. n - 1
          BY <1>1, <3>3
        <4> QED
          BY <2>1, <3>1, <3>3, <4>1 DEF Prefixes
      <3> QED
        BY <3>2, <3>3
    <2> HIDE DEF q
    <2>4. Prefixes(s, n, q)
      BY <2>2, <2>3 DEF Prefixes
    <2> QED
      BY <1>1, <2>4
  <1> HIDE DEF G
  <1>4. \A n \in 0 .. Len(s) : n \in G
    BY <1>1, <1>2, <1>3, Induction, Zenon
  <1>5. Len(s) \in G
    BY <1>1, <1>4
  <1> QED
    BY <1>5 DEF G

\* and one only, so that Product is what it says.
LEMMA ProductIsDefined ==
    ASSUME NEW s \in Seq(Int)
    PROVE  \E p : Prefixes(s, Len(s), p) /\ Product(s) = p[Len(s)]
  <1> DEFINE Solves(p) == p = [n \in 0 .. Len(s) |-> IF n = 0 THEN 1 ELSE p[n - 1] * s[n]]
             r == CHOOSE p : Solves(p)
  <1>1. Len(s) \in Nat
    OBVIOUS
  <1>2. PICK q : Prefixes(s, Len(s), q)
    BY PrefixesExist
  <1>3. Solves(q)
    BY <1>1, <1>2 DEF Prefixes
  <1>4. Solves(r)
    BY <1>3
  <1>5. Product(s) = r[Len(s)]
    BY DEF Product
  <1> HIDE DEF r
  <1> DEFINE G == {n \in 0 .. Len(s) : r[n] = q[n]}
  <1>6. 0 \in G
    BY <1>1, <1>2, <1>4 DEF Prefixes
  <1>7. ASSUME NEW n \in 1 .. Len(s), n - 1 \in G PROVE n \in G
    BY <1>1, <1>2, <1>4, <1>7 DEF Prefixes
  <1>8. \A n \in 0 .. Len(s) : n \in G
    <2> HIDE DEF G
    <2> QED
      BY <1>1, <1>6, <1>7, Induction, Zenon
  <1> QED
    BY <1>1, <1>2, <1>5, <1>8

LEMMA TimesGrows ==
    ASSUME NEW a \in Nat, NEW b \in Nat, NEW c \in Nat, NEW d \in Nat, a <= b, c <= d
    PROVE  a * c \in Nat /\ b * d \in Nat /\ a * c <= b * d
  OBVIOUS

\* The larger the factors, the larger the product.
LEMMA ProductGrows ==
    ASSUME NEW s \in Seq(Nat), NEW t \in Seq(Nat), Len(s) = Len(t),
           \A n \in 1 .. Len(s) : s[n] <= t[n]
    PROVE  Product(s) \in Nat /\ Product(t) \in Nat /\ Product(s) <= Product(t)
  <1>1. Len(s) \in Nat /\ \A n \in 1 .. Len(s) : s[n] \in Nat /\ t[n] \in Nat
    OBVIOUS
  <1>2. PICK p : Prefixes(s, Len(s), p) /\ Product(s) = p[Len(s)]
    BY ProductIsDefined
  <1>3. PICK q : Prefixes(t, Len(t), q) /\ Product(t) = q[Len(t)]
    BY ProductIsDefined
  <1> DEFINE G == {n \in 0 .. Len(s) : p[n] \in Nat /\ q[n] \in Nat /\ p[n] <= q[n]}
  <1>4. 0 \in G
    BY <1>1, <1>2, <1>3 DEF Prefixes
  <1>5. ASSUME NEW n \in 1 .. Len(s), n - 1 \in G PROVE n \in G
    <2>1. p[n - 1] \in Nat /\ q[n - 1] \in Nat /\ p[n - 1] <= q[n - 1]
      BY <1>5
    <2>2. p[n] = p[n - 1] * s[n] /\ q[n] = q[n - 1] * t[n]
      BY <1>2, <1>3 DEF Prefixes
    <2>3. s[n] \in Nat /\ t[n] \in Nat /\ s[n] <= t[n]
      BY <1>1
    <2>4. p[n - 1] * s[n] \in Nat /\ q[n - 1] * t[n] \in Nat /\ p[n - 1] * s[n] <= q[n - 1] * t[n]
      BY <2>1, <2>3, TimesGrows, Zenon
    <2> QED
      BY <1>1, <2>2, <2>4
  <1>6. \A n \in 0 .. Len(s) : n \in G
    <2> HIDE DEF G
    <2> QED
      BY <1>1, <1>4, <1>5, Induction, Zenon
  <1>7. Len(s) \in G
    BY <1>1, <1>6
  <1> QED
    BY <1>2, <1>3, <1>7

-------------------------------------------------------------------------------
LEMMA Hundredths ==
    /\ 100 \in Nat /\ 0 \in 0 .. 100
    /\ \A c \in 0 .. 100 : c \in Nat /\ c <= 100 /\ 100 - c \in 0 .. 100
  OBVIOUS

\* The factors of an envelope.
LEMMA DoubtsType ==
    ASSUME NEW obs \in Seq(Observations)
    PROVE  /\ Doubts(obs) \in Seq(Nat) /\ Len(Doubts(obs)) = Len(obs)
           /\ [i \in DOMAIN obs |-> 100] \in Seq(Nat)
           /\ Len([i \in DOMAIN obs |-> 100]) = Len(obs)
           /\ \A n \in 1 .. Len(obs) : Doubts(obs)[n] \in 0 .. 100
  <1>1. Len(obs) \in Nat /\ DOMAIN obs = 1 .. Len(obs)
    BY LenProperties
  <1>2. \A i \in DOMAIN obs : obs[i] \in Observations
    BY <1>1, ElementOfSeq
  <1>3. \A i \in DOMAIN obs : obs[i].confidence \in 0 .. 100
    BY <1>2 DEF Observations
  <1>4. ASSUME NEW i \in 1 .. Len(obs) PROVE Doubts(obs)[i] \in 0 .. 100
    <2>1. \/ Doubts(obs)[i] = 100 - obs[i].confidence
          \/ Doubts(obs)[i] = 100
      BY <1>1 DEF Doubts
    <2>2. obs[i].confidence \in 0 .. 100
      BY <1>1, <1>3, Zenon
    <2>3. 100 \in 0 .. 100
      OBVIOUS
    <2> QED
      BY <2>1, <2>2, <2>3, Hundredths, Zenon
  <1>5. Doubts(obs) \in [1 .. Len(obs) -> Nat]
    <2>1. Doubts(obs) = [i \in 1 .. Len(obs) |-> Doubts(obs)[i]]
      BY <1>1 DEF Doubts
    <2>2. \A i \in 1 .. Len(obs) : Doubts(obs)[i] \in Nat
      BY <1>4, Hundredths, Zenon
    <2> QED
      BY <2>1, <2>2, Zenon
  <1>6. [i \in DOMAIN obs |-> 100] \in [1 .. Len(obs) -> Nat]
    BY <1>1, Hundredths, Zenon
  <1> QED
    BY <1>1, <1>4, <1>5, <1>6, SeqDef, LenProperties

\* What is left in doubt is a part of the whole,
LEMMA DoubtIsPart ==
    ASSUME NEW obs \in Seq(Observations)
    PROVE  Whole(obs) \in Nat /\ Base(obs) \in 0 .. Whole(obs)
  <1> DEFINE hundreds == [i \in DOMAIN obs |-> 100]
  <1>1. /\ hundreds \in Seq(Nat) /\ Len(hundreds) = Len(obs)
        /\ Doubts(obs) \in Seq(Nat) /\ Len(Doubts(obs)) = Len(obs)
    BY DoubtsType
  <1>2. \A n \in 1 .. Len(Doubts(obs)) : Doubts(obs)[n] <= hundreds[n]
    <2>1. \A n \in 1 .. Len(obs) : Doubts(obs)[n] \in 0 .. 100 /\ n \in DOMAIN obs
      BY DoubtsType, LenProperties
    <2>2. \A n \in 1 .. Len(obs) : hundreds[n] = 100
      BY <2>1, Zenon
    <2> HIDE DEF hundreds
    <2> QED
      BY <1>1, <2>1, <2>2, Hundredths, Zenon
  <1> HIDE DEF hundreds
  <1>3. /\ Product(Doubts(obs)) \in Nat /\ Product(hundreds) \in Nat
        /\ Product(Doubts(obs)) <= Product(hundreds)
    BY <1>1, <1>2, ProductGrows
  <1> QED
    BY <1>3 DEF Whole, Base, hundreds

\* which has hundredths, as soon as there is an observation.
LEMMA WholeInHundredths ==
    ASSUME NEW obs \in Seq(Observations), obs # <<>>
    PROVE  Percent(obs) \in Nat \ {0} /\ Whole(obs) = 100 * Percent(obs)
  <1> DEFINE hundreds == [i \in DOMAIN obs |-> 100]
  <1>1. /\ hundreds \in Seq(Int) /\ Len(hundreds) = Len(obs)
        /\ Len(obs) \in Nat \ {0} /\ \A n \in 1 .. Len(obs) : hundreds[n] = 100
    BY DoubtsType, EmptySeq, LenProperties
  <1> HIDE DEF hundreds
  <1>2. PICK p : Prefixes(hundreds, Len(obs), p) /\ Product(hundreds) = p[Len(obs)]
    BY <1>1, ProductIsDefined
  <1> DEFINE G == {n \in 0 .. Len(obs) : p[n] \in Nat \ {0}}
  <1>3. /\ p[0] = 1 /\ p \in [0 .. Len(obs) -> Int]
        /\ \A n \in 1 .. Len(obs) : n - 1 \in 0 .. Len(obs) /\ p[n] = p[n - 1] * 100
    <2>1. \A n \in 1 .. Len(obs) : n - 1 \in 0 .. Len(obs)
      BY <1>1
    <2>2. \A n \in 1 .. Len(obs) : p[n] = p[n - 1] * hundreds[n] /\ hundreds[n] = 100
      BY <1>1, <1>2 DEF Prefixes
    <2> QED
      BY <1>2, <2>1, <2>2 DEF Prefixes
  <1>4. 0 \in G
    BY <1>1, <1>3
  <1>5. \A n \in 1 .. Len(obs) : n - 1 \in G => n \in G
    BY <1>1, <1>3
  <1>6. \A n \in 0 .. Len(obs) : n \in G
    <2> HIDE DEF G
    <2>1. Len(obs) \in Nat
      BY <1>1
    <2> QED
      BY <1>4, <1>5, <2>1, Induction, Zenon
  <1>7. Len(obs) \in 1 .. Len(obs) /\ Len(obs) - 1 \in G
    BY <1>1, <1>6
  <1>8. p[Len(obs) - 1] \in Nat \ {0} /\ p[Len(obs)] = p[Len(obs) - 1] * 100
    BY <1>3, <1>7
  <1> QED
    BY <1>2, <1>8 DEF Whole, Percent, hundreds

\* The observations that have a property can be counted.
LEMMA Counts ==
    ASSUME NEW obs \in Seq(Observations), NEW S \in SUBSET DOMAIN obs
    PROVE  IsFiniteSet(S) /\ Cardinality(S) \in Nat
  <1>1. IsFiniteSet(DOMAIN obs)
    BY LenProperties, FS_Interval
  <1> QED
    BY <1>1, FS_Subset, FS_CardinalityType

LEMMA CountType ==
    ASSUME NEW obs \in Seq(Observations)
    PROVE  /\ \A status : Count(obs, status) \in Nat
           /\ Cost(obs) \in Nat
  <1>1. ASSUME NEW status PROVE Count(obs, status) \in Nat
    BY Counts DEF Count
  <1> QED
    BY <1>1 DEF Cost

\* The fused confidence is one: no penalty takes it below nothing.
THEOREM ConfidenceIsOne ==
    ASSUME NEW obs \in Seq(Observations)
    PROVE  Confidence(obs) \in 0 .. Whole(obs)
  <1>1. Whole(obs) \in Nat /\ Base(obs) \in 0 .. Whole(obs) /\ Cost(obs) \in Nat
    BY DoubtIsPart, CountType
  <1>2. Percent(obs) \in Nat
    BY <1>1 DEF Percent
  <1>3. Cost(obs) * Percent(obs) \in Nat
    BY <1>1, <1>2, TimesGrows
  <1> QED
    BY <1>1, <1>3 DEF Confidence

LEMMA CostGrows ==
    ASSUME NEW f \in Nat, NEW d \in Nat, NEW t \in Nat,
           NEW ff \in Nat, NEW dd \in Nat, NEW tt \in Nat, f <= ff, d <= dd, t <= tt
    PROVE  /\ 15 * f + 10 * d + 20 * t \in Nat
           /\ 15 * ff + 10 * dd + 20 * tt \in Nat
           /\ 15 * f + 10 * d + 20 * t <= 15 * ff + 10 * dd + 20 * tt
  OBVIOUS

\* Had a source that failed been OK without any confidence, the doubts would be the same
\* and the cost no more.
THEOREM NothingGained ==
    ASSUME NEW obs \in Seq(Observations), NEW i \in DOMAIN obs, obs[i].status # "OK"
    PROVE  GainsNothing(obs, i)
  <1> DEFINE better == [obs EXCEPT ![i].status = "OK", ![i].confidence = 0]
  <1>1. /\ DOMAIN obs = 1 .. Len(obs) /\ Len(obs) \in Nat
        /\ \A j \in DOMAIN obs : obs[j] \in Observations
    BY LenProperties, ElementOfSeq
  <1>2. /\ DOMAIN better = DOMAIN obs
        /\ \A j \in DOMAIN obs : j # i => better[j] = obs[j]
        /\ better[i] = [obs[i] EXCEPT !.status = "OK", !.confidence = 0]
    OBVIOUS
  <1>3. better = [j \in DOMAIN obs |-> better[j]]
    OBVIOUS
  <1> HIDE DEF better
  <1>4. better[i] \in Observations /\ better[i].status = "OK" /\ better[i].confidence = 0
    <2>1. obs[i] \in Observations
      BY <1>1
    <2> QED
      <3>1. "OK" \in Statuses /\ 0 \in 0 .. 100
        BY Zenon, Hundredths DEF Statuses
      <3>2. PICK C : 0 \in C /\ Observations = [source : Sources, status : Statuses, confidence : C]
        BY <3>1, Zenon DEF Observations
      <3> QED
        BY <1>2, <2>1, <3>1, <3>2
  <1>5. better \in Seq(Observations)
    <2>1. \A j \in 1 .. Len(obs) : better[j] \in Observations
      BY <1>1, <1>2, <1>4, Zenon
    <2>2. better \in [1 .. Len(obs) -> Observations]
      BY <1>1, <1>3, <2>1, Zenon
    <2> QED
      BY <1>1, <2>2, SeqDef
  <1>6. Doubts(better) = Doubts(obs)
    <2>1. \A j \in DOMAIN obs :
             (IF better[j].status = "OK" THEN 100 - better[j].confidence ELSE 100)
                 = (IF obs[j].status = "OK" THEN 100 - obs[j].confidence ELSE 100)
      <3>1. 100 - 0 = 100
        OBVIOUS
      <3> QED
        BY <1>2, <1>4, <3>1, Zenon
    <2> QED
      BY <1>2, <2>1, Zenon DEF Doubts
  <1>7. Whole(better) = Whole(obs) /\ Base(better) = Base(obs) /\ Percent(better) = Percent(obs)
    BY <1>2, <1>6, Zenon DEF Whole, Base, Percent
  <1>8. ASSUME NEW status, status # "OK"
        PROVE  Count(better, status) <= Count(obs, status)
    <2> DEFINE S == {j \in DOMAIN obs : obs[j].status = status}
               T == {j \in DOMAIN better : better[j].status = status}
    <2>1. T \in SUBSET S
      BY <1>2, <1>8, <1>4, Zenon
    <2>2. IsFiniteSet(S)
      BY Counts
    <2>3. Cardinality(T) <= Cardinality(S)
      BY <2>1, <2>2, FS_Subset, Zenon
    <2> QED
      BY <2>3 DEF Count
  <1>9. Cost(better) \in Nat /\ Cost(obs) \in Nat /\ Cost(better) <= Cost(obs)
    <2>1. \A status : Count(better, status) \in Nat /\ Count(obs, status) \in Nat
      BY <1>5, CountType, Zenon
    <2>2. /\ Count(better, "FAILED") <= Count(obs, "FAILED")
          /\ Count(better, "DEGRADED") <= Count(obs, "DEGRADED")
          /\ Count(better, "DISCREPANCY") <= Count(obs, "DISCREPANCY")
      BY <1>8, Zenon
    <2> QED
      BY <2>1, <2>2, CostGrows, Zenon DEF Cost
  <1>10. Percent(obs) \in Nat /\ Base(obs) \in Nat
    BY DoubtIsPart DEF Percent
  <1>11. /\ Cost(better) * Percent(obs) \in Nat /\ Cost(obs) * Percent(obs) \in Nat
         /\ Cost(better) * Percent(obs) <= Cost(obs) * Percent(obs)
    <2>1. Percent(obs) <= Percent(obs)
      BY <1>10
    <2> QED
      BY <1>9, <1>10, <2>1, TimesGrows, Zenon
  <1>12. Confidence(better) >= Confidence(obs)
    BY <1>7, <1>10, <1>11 DEF Confidence
  <1> QED
    BY <1>12 DEF GainsNothing, better

\* A cost of ten hundredths, at most, is one degraded source.
LEMMA CheapIsOneDegraded ==
    ASSUME NEW f \in Nat, NEW d \in Nat, NEW t \in Nat,
           15 * f + 10 * d + 20 * t <= 10
    PROVE  f = 0 /\ t = 0 /\ d <= 1
  OBVIOUS

LEMMA WhatNinetyLeave ==
    ASSUME NEW whole \in Nat, NEW percent \in Nat \ {0}, whole = 100 * percent,
           NEW base \in 0 .. whole, NEW cost \in Nat, base - cost * percent >= 90 * percent
    PROVE  cost <= 10
  <1> SUFFICES ASSUME cost >= 11 PROVE FALSE
    OBVIOUS
  <1>1. 11 * percent <= cost * percent /\ cost * percent \in Nat
    BY TimesGrows
  <1> QED
    BY <1>1

\* The override below the thresholds never changes a verdict: they give STRICT to no
\* disputed claim, so one may stay PROBABLE.
THEOREM OverrideChangesNothing ==
    ASSUME NEW obs
    PROVE  Verdict(obs) = Graded(obs)
  <1>1. Disputed(obs) => Graded(obs) # "STRICT"
    BY Zenon DEF Graded
  <1> QED
    BY <1>1 DEF Verdict

\* However good the other witnesses, STRICT is out of reach once a source failed, once one
\* is disputed, or once two are degraded.
THEOREM StrictNeedsWitnesses ==
    ASSUME NEW obs \in Seq(Observations), Verdict(obs) = "STRICT"
    PROVE  /\ \A i \in DOMAIN obs : obs[i].status # "FAILED"
           /\ Cardinality({i \in DOMAIN obs : obs[i].status # "OK"}) <= 1
  <1>1. obs # <<>> /\ Confidence(obs) >= 90 * Percent(obs)
    BY Zenon DEF Verdict, Graded
  <1>2. /\ Percent(obs) \in Nat \ {0} /\ Whole(obs) = 100 * Percent(obs)
        /\ Whole(obs) \in Nat /\ Base(obs) \in 0 .. Whole(obs) /\ Cost(obs) \in Nat
    BY <1>1, WholeInHundredths, DoubtIsPart, CountType, Zenon
  <1>3. Base(obs) - Cost(obs) * Percent(obs) >= 90 * Percent(obs)
    <2>1. Confidence(obs) = 0 \/ Confidence(obs) = Base(obs) - Cost(obs) * Percent(obs)
      BY DEF Confidence
    <2>2. Confidence(obs) # 0
      BY <1>1, <1>2
    <2> QED
      BY <1>1, <2>1, <2>2
  <1>4. Cost(obs) <= 10
    BY <1>2, <1>3, WhatNinetyLeave, Zenon
  <1>5. Count(obs, "FAILED") = 0 /\ Count(obs, "DISCREPANCY") = 0 /\ Count(obs, "DEGRADED") <= 1
    BY <1>4, CountType, CheapIsOneDegraded, Zenon DEF Cost
  <1>6. ASSUME NEW status, Count(obs, status) = 0
        PROVE  \A i \in DOMAIN obs : obs[i].status # status
    <2> DEFINE S == {i \in DOMAIN obs : obs[i].status = status}
    <2>1. IsFiniteSet(S) /\ Cardinality(S) = 0
      BY <1>6, Counts DEF Count
    <2>2. S = {}
      BY <2>1, FS_EmptySet, Zenon
    <2> QED
      BY <2>2
  <1>7. \A i \in DOMAIN obs : obs[i].status # "FAILED" /\ obs[i].status # "DISCREPANCY"
    BY <1>5, <1>6
  <1>8. \A i \in DOMAIN obs : obs[i].status \in Statuses
    <2>1. \A i \in DOMAIN obs : obs[i] \in Observations
      BY LenProperties, ElementOfSeq
    <2> QED
      BY <2>1 DEF Observations
  <1>9. {i \in DOMAIN obs : obs[i].status # "OK"} = {i \in DOMAIN obs : obs[i].status = "DEGRADED"}
    BY <1>7, <1>8 DEF Statuses
  <1> QED
    BY <1>5, <1>7, <1>9 DEF Count

-------------------------------------------------------------------------------
\* The inductive invariant, first of the solar cache and the requests for it: the list in
\* the cache was sent a request before it was stored, at most; no request outlives its
\* timeout.
Times ==
    /\ clock \in Time
    /\ cache \in Entries \union {Nothing}
    /\ phase \in [Claims -> {"idle", "weather", "core", "fused", "raised"} \union Waiting]
    /\ reply \in [Claims -> Replies \union {Nothing}]
    /\ asked \in [Claims -> Time]
    /\ basis \in [Claims -> [body : Lists, age : Time] \union {Nothing}]
    /\ \A c \in Claims : phase[c] = "fetched" <=> reply[c] # Nothing

ListsAreRecent ==
    /\ cache # Nothing =>
          cache.at <= clock /\ cache.expires <= cache.at + Latency + TTL
    /\ \A c \in Claims : phase[c] \in Waiting =>
          asked[c] <= clock /\ clock <= asked[c] + Latency
    /\ \A c \in Claims : phase[c] = "fetched" =>
          asked[c] <= reply[c].at /\ reply[c].at <= clock

TInv == Times /\ ListsAreRecent /\ OutcomesAreRecent

\* Then of the observations: which there are, by phase; those that are not OK counted; and
\* the verdict theirs.
Missed(obs, s) == \E i \in DOMAIN obs : obs[i].source = s /\ obs[i].status # "OK"
MissedBy(s) == {c \in Claims : Missed(observations[c], s)}

Gathered ==
    /\ observations \in [Claims -> Seq(Observations)]
    /\ \A c \in Claims : phase[c] \in {"idle", "raised"} \union Waiting => observations[c] = <<>>
    /\ \A c \in Claims : phase[c] \in {"weather", "core"} =>
          \A i \in DOMAIN observations[c] :
              /\ observations[c][i].source # "consensus"
              /\ phase[c] = "weather" => observations[c][i].source = "solar_temporal"

Tallied ==
    /\ degraded \in [Sources -> Nat]
    /\ \A s \in Sources \ {"consensus"} :
          IsFiniteSet(MissedBy(s)) /\ degraded[s] = Cardinality(MissedBy(s))

Judged ==
    /\ verdict \in [Claims -> Verdicts \union {Nothing}]
    /\ \A c \in Claims : verdict[c] # Nothing =>
          phase[c] = "fused" /\ verdict[c] = Verdict(observations[c])

OInv == Gathered /\ Tallied /\ Judged

IInv == TInv /\ OInv

-------------------------------------------------------------------------------
LEMMA Parameters ==
    /\ TTL \in Nat /\ Latency \in Nat /\ MaxTime \in Nat
    /\ SolarScores \subseteq 0 .. 100 /\ CoreScores \subseteq 0 .. 100
    /\ Nothing \notin Replies /\ Nothing \notin Entries /\ Nothing \notin Verdicts
  BY TimeAssumption, ScoresAssumption, NothingAssumption

\* What a step does to one claim's phase, whatever it does to the rest.
Moves(c, from, to) ==
    /\ phase[c] \in from
    /\ \E p \in to : phase' = [phase EXCEPT ![c] = p]

\* A claim that asks nothing of NOAA any more changes nothing of what is recent.
LEMMA MoveOnIsTimely ==
    ASSUME TInv, NEW c \in Claims,
           Moves(c, {"idle", "weather", "core"}, {"weather", "raised", "core", "fused"}),
           UNCHANGED <<clock, cache, reply, asked>>,
           \/ UNCHANGED basis
           \/ \E body \in Lists, age \in Time :
                 /\ age <= TTL + Latency
                 /\ basis' = [basis EXCEPT ![c] = [body |-> body, age |-> age]]
    PROVE  TInv'
  <1>1. /\ phase' \in [Claims -> {"idle", "weather", "core", "fused", "raised"} \union Waiting]
        /\ \A d \in Claims : d # c => phase'[d] = phase[d]
        /\ phase[c] \notin Waiting /\ phase'[c] \notin Waiting
    BY DEF TInv, Times, Moves, Waiting
  <1>2. basis' \in [Claims -> [body : Lists, age : Time] \union {Nothing}]
    BY DEF TInv, Times
  <1>3. Times'
    BY <1>1, <1>2 DEF TInv, Times, Waiting
  <1>4. ListsAreRecent'
    BY <1>1 DEF TInv, ListsAreRecent, Waiting
  <1>5. OutcomesAreRecent'
    BY DEF TInv, Times, OutcomesAreRecent
  <1> QED
    BY <1>3, <1>4, <1>5 DEF TInv

LEMMA EvaluateMoves ==
    ASSUME NEW c \in Claims, NEW body, NEW at, Evaluate(c, body, at)
    PROVE  /\ \E p \in {"weather", "raised"} : phase' = [phase EXCEPT ![c] = p]
           /\ basis' = [basis EXCEPT ![c] = [body |-> body, age |-> clock - at]]
  BY DEF Evaluate, ObserveSolar

LEMMA ReadCacheIsTimely ==
    ASSUME TInv, NEW c \in Claims, ReadCache(c)
    PROVE  TInv'
  <1> USE Parameters
  <1>1. /\ cache \in Entries /\ clock < cache.expires /\ clock \in Time
        /\ cache.at <= clock /\ cache.expires <= cache.at + Latency + TTL
    BY DEF ReadCache, Fresh, TInv, Times, ListsAreRecent
  <1>2. /\ cache.body \in Lists /\ cache.at \in Nat /\ cache.expires \in Nat
        /\ clock - cache.at \in Time /\ clock - cache.at <= TTL + Latency
    BY <1>1 DEF Entries, Time
  <1>3. /\ Moves(c, {"idle", "weather", "core"}, {"weather", "raised", "core", "fused"})
        /\ basis' = [basis EXCEPT ![c] = [body |-> cache.body, age |-> clock - cache.at]]
    BY EvaluateMoves DEF ReadCache, Moves
  <1> QED
    BY <1>2, <1>3, MoveOnIsTimely DEF ReadCache

\* Time goes by: no request outlives its timeout.
LEMMA TimeIsKept ==
    ASSUME TInv, TimePasses,
           UNCHANGED <<cache, reply, asked, basis>>,
           \/ UNCHANGED phase
           \/ \E c \in Claims : Moves(c, {"idle"}, {"weather"})
    PROVE  TInv'
  <1> USE Parameters
  <1>1. clock' \in Time /\ clock' = clock + 1 /\ clock \in Nat
    BY DEF TimePasses, TInv, Times, Time
  <1>2. /\ phase' \in [Claims -> {"idle", "weather", "core", "fused", "raised"} \union Waiting]
        /\ \A d \in Claims : phase[d] \in Waiting \/ phase'[d] \in Waiting => phase'[d] = phase[d]
    BY DEF TInv, Times, Moves, Waiting
  <1>3. \A d \in Claims : (phase'[d] = "fetched") <=> (phase[d] = "fetched")
    BY <1>2 DEF Waiting
  <1>4. Times'
    BY <1>1, <1>2, <1>3 DEF TInv, Times
  <1>5. ListsAreRecent'
    <2>1. cache # Nothing => cache.at <= clock'
      BY <1>1 DEF TInv, Times, ListsAreRecent, Entries, Time
    <2>2. \A d \in Claims : phase'[d] \in Waiting => asked[d] <= clock' /\ clock' <= asked[d] + Latency
      <3> SUFFICES ASSUME NEW d \in Claims, phase'[d] \in Waiting
                   PROVE  asked[d] <= clock' /\ clock' <= asked[d] + Latency
        OBVIOUS
      <3>1. asked[d] \in Nat /\ asked[d] <= clock /\ clock < asked[d] + Latency
        BY <1>2 DEF TInv, Times, Time, ListsAreRecent, TimePasses
      <3> QED
        BY <1>1, <3>1
    <2>3. \A d \in Claims : phase'[d] = "fetched" => asked[d] <= reply[d].at /\ reply[d].at <= clock'
      <3> SUFFICES ASSUME NEW d \in Claims, phase'[d] = "fetched"
                   PROVE  asked[d] <= reply[d].at /\ reply[d].at <= clock'
        OBVIOUS
      <3>1. reply[d] \in Replies /\ asked[d] <= reply[d].at /\ reply[d].at <= clock
        BY <1>3 DEF TInv, Times, ListsAreRecent
      <3> QED
        BY <1>1, <3>1 DEF Replies, Time
    <2> QED
      BY <2>1, <2>2, <2>3 DEF TInv, ListsAreRecent
  <1>6. OutcomesAreRecent'
    BY DEF TInv, OutcomesAreRecent
  <1> QED
    BY <1>4, <1>5, <1>6 DEF TInv

LEMMA AskNoaaIsTimely ==
    ASSUME TInv, NEW c \in Claims, AskNoaa(c)
    PROVE  TInv'
  <1> USE Parameters
  <1>1. /\ phase' = [phase EXCEPT ![c] = "fetch"] /\ asked' = [asked EXCEPT ![c] = clock]
        /\ phase[c] = "idle" /\ clock \in Nat /\ clock \in Time
        /\ UNCHANGED <<clock, cache, reply, basis>>
    BY DEF AskNoaa, TInv, Times, Time
  <1>2. Times'
    BY <1>1 DEF TInv, Times, Waiting
  <1>3. ListsAreRecent'
    BY <1>1 DEF TInv, Times, ListsAreRecent, Waiting
  <1>4. OutcomesAreRecent'
    BY <1>1 DEF TInv, OutcomesAreRecent
  <1> QED
    BY <1>2, <1>3, <1>4 DEF TInv

LEMMA NoaaAnswersIsTimely ==
    ASSUME TInv, NEW c \in Claims, NEW body \in Lists, NoaaAnswers(c, body)
    PROVE  TInv'
  <1> USE Parameters
  <1> DEFINE list == [body |-> body, at |-> clock]
  <1>1. /\ phase' = [phase EXCEPT ![c] = "fetched"] /\ reply' = [reply EXCEPT ![c] = list]
        /\ phase[c] = "fetch" /\ list \in Replies /\ list.at = clock /\ clock \in Nat
        /\ UNCHANGED <<clock, cache, asked, basis>>
    BY DEF NoaaAnswers, TInv, Times, Time, Replies
  <1> HIDE DEF list
  <1>2. Times'
    BY <1>1 DEF TInv, Times, Waiting
  <1>3. ListsAreRecent'
    BY <1>1 DEF TInv, Times, ListsAreRecent, Waiting
  <1>4. OutcomesAreRecent'
    BY <1>1 DEF TInv, OutcomesAreRecent
  <1> QED
    BY <1>2, <1>3, <1>4 DEF TInv

\* What arrives was sent after it was asked for, and is stored before the timeout.
LEMMA FetchReturnsIsTimely ==
    ASSUME TInv, NEW c \in Claims, FetchReturns(c)
    PROVE  TInv'
  <1> USE Parameters
  <1>1. /\ phase[c] = "fetched" /\ reply[c] \in Replies
        /\ cache' = [body |-> reply[c].body, at |-> reply[c].at, expires |-> clock + TTL]
        /\ reply' = [reply EXCEPT ![c] = Nothing] /\ asked' = [asked EXCEPT ![c] = 0]
        /\ clock' = clock
    BY DEF FetchReturns, TInv, Times
  <1>2. /\ asked[c] \in Nat /\ clock \in Time /\ clock \in Nat
        /\ asked[c] <= reply[c].at /\ reply[c].at <= clock /\ clock <= asked[c] + Latency
        /\ reply[c].at \in Time /\ reply[c].at \in Nat /\ reply[c].body \in Lists
    BY <1>1 DEF TInv, Times, ListsAreRecent, Waiting, Time, Replies
  <1>3. clock - reply[c].at \in Time /\ clock - reply[c].at <= Latency /\ clock - reply[c].at \in Nat
    BY <1>2 DEF Time
  <1>4. PICK p \in {"weather", "raised"} : phase' = [phase EXCEPT ![c] = p]
    BY EvaluateMoves DEF FetchReturns
  <1>5. basis' = [basis EXCEPT ![c] = [body |-> reply[c].body, age |-> clock - reply[c].at]]
    BY EvaluateMoves DEF FetchReturns
  <1>6. Times'
    <2>1. cache' \in Entries /\ 0 \in Time
      BY <1>1, <1>2 DEF Entries, Time
    <2>2. /\ phase' \in [Claims -> {"idle", "weather", "core", "fused", "raised"} \union Waiting]
          /\ reply' \in [Claims -> Replies \union {Nothing}]
          /\ asked' \in [Claims -> Time]
      BY <1>1, <1>4, <2>1 DEF TInv, Times
    <2>3. basis' \in [Claims -> [body : Lists, age : Time] \union {Nothing}]
      BY <1>2, <1>3, <1>5 DEF TInv, Times
    <2>4. \A d \in Claims : phase'[d] = "fetched" <=> reply'[d] # Nothing
      BY <1>1, <1>4 DEF TInv, Times
    <2> QED
      BY <1>1, <1>2, <2>1, <2>2, <2>3, <2>4 DEF Times
  <1>7. ListsAreRecent'
    <2>1. cache'.at <= clock' /\ cache'.expires <= cache'.at + Latency + TTL
      BY <1>1, <1>2
    <2>2. \A d \in Claims : d # c => phase'[d] = phase[d] /\ asked'[d] = asked[d] /\ reply'[d] = reply[d]
      BY <1>1, <1>4 DEF TInv, Times
    <2>3. phase'[c] \notin Waiting /\ phase'[c] # "fetched"
      BY <1>4 DEF TInv, Times, Waiting
    <2> QED
      BY <1>1, <2>1, <2>2, <2>3 DEF TInv, ListsAreRecent
  <1>8. OutcomesAreRecent'
    BY <1>3, <1>5 DEF TInv, Times, OutcomesAreRecent
  <1> QED
    BY <1>6, <1>7, <1>8 DEF TInv

LEMMA FetchFailsIsTimely ==
    ASSUME TInv, NEW c \in Claims, FetchFails(c)
    PROVE  TInv'
  <1> USE Parameters
  <1>1. /\ phase[c] \in Waiting /\ phase' = [phase EXCEPT ![c] = "weather"]
        /\ reply' = [reply EXCEPT ![c] = Nothing] /\ asked' = [asked EXCEPT ![c] = 0]
        /\ UNCHANGED <<clock, cache, basis>> /\ 0 \in Time
    BY DEF FetchFails, Unavailable, ObserveSolar, Time
  <1>2. Times'
    BY <1>1 DEF TInv, Times
  <1>3. ListsAreRecent'
    BY <1>1 DEF TInv, Times, ListsAreRecent, Waiting
  <1>4. OutcomesAreRecent'
    BY <1>1 DEF TInv, OutcomesAreRecent
  <1> QED
    BY <1>2, <1>3, <1>4 DEF TInv

\* So the solar observations of every claim rest on what is recent, in any order of answers.
LEMMA StepIsTimely == TInv /\ [Next]_vars => TInv'
  <1> SUFFICES ASSUME TInv, [Next]_vars PROVE TInv'
    OBVIOUS
  <1>1. ASSUME NEW c \in Claims, LoseCache(c) PROVE TInv'
    <2>1. Moves(c, {"idle"}, {"weather"}) /\ UNCHANGED basis
      BY <1>1 DEF LoseCache, Unavailable, ObserveSolar, Moves
    <2> QED
      BY <1>1, <2>1, TimeIsKept DEF LoseCache
  <1>2. ASSUME NEW c \in Claims, NEW available \in BOOLEAN, ObserveWeather(c, available) PROVE TInv'
    <2>1. Moves(c, {"idle", "weather", "core"}, {"weather", "raised", "core", "fused"})
      BY <1>2 DEF ObserveWeather, Moves
    <2> QED
      BY <1>2, <2>1, MoveOnIsTimely DEF ObserveWeather
  <1>3. ASSUME NEW c \in Claims, NEW o \in CoreObservations, Fuse(c, o) PROVE TInv'
    <2>1. Moves(c, {"idle", "weather", "core"}, {"weather", "raised", "core", "fused"})
      BY <1>3 DEF Fuse, Moves
    <2> QED
      BY <1>3, <2>1, MoveOnIsTimely DEF Fuse
  <1>4. CASE Tick
    BY <1>4, TimeIsKept DEF Tick
  <1>5. CASE UNCHANGED vars
    BY <1>5 DEF vars, TInv, Times, ListsAreRecent, OutcomesAreRecent
  <1>6. ASSUME NEW c \in Claims, Handle(c) PROVE TInv'
    BY <1>6, <1>1, <1>2, <1>3, ReadCacheIsTimely, AskNoaaIsTimely, NoaaAnswersIsTimely,
       FetchReturnsIsTimely, FetchFailsIsTimely DEF Handle
  <1> QED
    BY <1>4, <1>5, <1>6 DEF Next

-------------------------------------------------------------------------------
LEMMA MissedInEither ==
    ASSUME NEW obs \in Seq(Observations), NEW more \in Seq(Observations), NEW s
    PROVE  /\ obs \o more \in Seq(Observations)
           /\ Missed(obs \o more, s) <=> Missed(obs, s) \/ Missed(more, s)
  <1> DEFINE n == Len(obs)
             both == obs \o more
  <1>1. /\ both \in Seq(Observations) /\ Len(both) = n + Len(more)
        /\ \A i \in 1 .. Len(both) : both[i] = IF i <= n THEN obs[i] ELSE more[i - n]
        /\ n \in Nat /\ Len(more) \in Nat
        /\ DOMAIN both = 1 .. Len(both) /\ DOMAIN obs = 1 .. n /\ DOMAIN more = 1 .. Len(more)
    BY ConcatProperties, LenProperties
  <1> HIDE DEF n, both
  <1>2. ASSUME Missed(both, s) PROVE Missed(obs, s) \/ Missed(more, s)
    <2>1. PICK i \in 1 .. Len(both) : both[i].source = s /\ both[i].status # "OK"
      BY <1>1, <1>2 DEF Missed
    <2>2. CASE i <= n
      BY <1>1, <2>1, <2>2 DEF Missed
    <2>3. CASE ~(i <= n)
      <3>1. i - n \in DOMAIN more /\ both[i] = more[i - n]
        BY <1>1, <2>1, <2>3
      <3> QED
        BY <2>1, <3>1 DEF Missed
    <2> QED
      BY <2>2, <2>3
  <1>3. ASSUME Missed(obs, s) PROVE Missed(both, s)
    <2>1. PICK i \in 1 .. n : obs[i].source = s /\ obs[i].status # "OK"
      BY <1>1, <1>3 DEF Missed
    <2>2. i \in DOMAIN both /\ both[i] = obs[i]
      BY <1>1
    <2> QED
      BY <2>1, <2>2 DEF Missed
  <1>4. ASSUME Missed(more, s) PROVE Missed(both, s)
    <2>1. PICK i \in 1 .. Len(more) : more[i].source = s /\ more[i].status # "OK"
      BY <1>1, <1>4 DEF Missed
    <2>2. i + n \in DOMAIN both /\ i + n \in 1 .. Len(both) /\ ~(i + n <= n) /\ (i + n) - n = i
      BY <1>1
    <2>3. both[i + n] = more[i]
      BY <1>1, <2>2
    <2> QED
      BY <2>1, <2>2, <2>3 DEF Missed
  <1> QED
    BY <1>1, <1>2, <1>3, <1>4 DEF both

LEMMA OneOfEither ==
    ASSUME NEW obs \in Seq(Observations), NEW more \in Seq(Observations),
           NEW i \in DOMAIN (obs \o more)
    PROVE  \/ \E j \in DOMAIN obs : (obs \o more)[i] = obs[j]
           \/ \E j \in DOMAIN more : (obs \o more)[i] = more[j]
  <1> DEFINE n == Len(obs)
  <1>1. /\ i \in 1 .. n + Len(more) /\ n \in Nat /\ Len(more) \in Nat
        /\ (obs \o more)[i] = IF i <= n THEN obs[i] ELSE more[i - n]
        /\ DOMAIN obs = 1 .. n /\ DOMAIN more = 1 .. Len(more)
    BY ConcatProperties, LenProperties
  <1> HIDE DEF n
  <1>2. CASE i <= n
    BY <1>1, <1>2
  <1>3. CASE ~(i <= n)
    <2>1. i - n \in DOMAIN more
      BY <1>1, <1>3
    <2> QED
      BY <1>1, <1>3, <2>1
  <1> QED
    BY <1>2, <1>3

\* Each source is observed once for a claim, so that one more observation of a source that
\* is not OK is one more claim that goes without it.
LEMMA AddTallies ==
    ASSUME OInv, NEW c \in Claims, NEW seen \in Seq(Observations), Add(c, seen),
           \A i, j \in DOMAIN seen : seen[i].source = seen[j].source => i = j,
           \A i \in DOMAIN seen, j \in DOMAIN observations[c] :
               seen[i].source # observations[c][j].source
    PROVE  /\ observations' \in [Claims -> Seq(Observations)]
           /\ observations'[c] = observations[c] \o seen
           /\ \A d \in Claims : d # c => observations'[d] = observations[d]
           /\ Tallied'
  <1>1. /\ observations \in [Claims -> Seq(Observations)]
        /\ observations[c] \in Seq(Observations)
        /\ observations' = [observations EXCEPT ![c] = observations[c] \o seen]
        /\ degraded' = Counted(seen) /\ degraded \in [Sources -> Nat]
    BY DEF OInv, Gathered, Tallied, Add
  <1>2. observations[c] \o seen \in Seq(Observations)
    BY <1>1, MissedInEither
  <1>3. /\ observations' \in [Claims -> Seq(Observations)]
        /\ observations'[c] = observations[c] \o seen
        /\ \A d \in Claims : d # c => observations'[d] = observations[d]
    BY <1>1, <1>2, Zenon
  <1> DEFINE N(s) == {i \in DOMAIN seen : seen[i].source = s /\ seen[i].status # "OK"}
  <1>4. \A s \in Sources : degraded'[s] = degraded[s] + Cardinality(N(s))
    BY <1>1 DEF Counted
  <1>5. \A s \in Sources : IsFiniteSet(N(s)) /\ Cardinality(N(s)) \in Nat
    BY Counts
  <1>6. degraded' \in [Sources -> Nat]
    <2>1. \A s \in Sources : degraded[s] \in Nat /\ degraded'[s] \in Nat
      <3> HIDE DEF N
      <3> QED
        BY <1>1, <1>4, <1>5
    <2>2. degraded' = [s \in Sources |-> degraded'[s]]
      BY <1>1 DEF Counted
    <2> QED
      BY <2>1, <2>2, Zenon
  <1>7. ASSUME NEW s \in Sources \ {"consensus"}
        PROVE  IsFiniteSet(MissedBy(s)') /\ degraded'[s] = Cardinality(MissedBy(s)')
    <2>1. /\ IsFiniteSet(MissedBy(s)) /\ degraded[s] = Cardinality(MissedBy(s))
          /\ Cardinality(MissedBy(s)) \in Nat
      BY FS_CardinalityType DEF OInv, Tallied
    <2>2. \A d \in Claims : d # c => (d \in MissedBy(s)' <=> d \in MissedBy(s))
      BY <1>3, Zenon DEF MissedBy
    <2>3. c \in MissedBy(s)' <=> c \in MissedBy(s) \/ Missed(seen, s)
      BY <1>1, <1>3, MissedInEither DEF MissedBy
    <2>4. MissedBy(s) \subseteq Claims /\ MissedBy(s)' \subseteq Claims
      BY DEF MissedBy
    <2>5. CASE ~Missed(seen, s)
      <3>1. N(s) = {}
        BY <2>5 DEF Missed
      <3>2. degraded'[s] = degraded[s]
        BY <1>4, <2>1, <3>1, FS_EmptySet
      <3>3. MissedBy(s)' = MissedBy(s)
        <4>1. \A d \in Claims : d \in MissedBy(s)' <=> d \in MissedBy(s)
          BY <2>2, <2>3, <2>5, Zenon
        <4> QED
          BY <2>4, <4>1, Zenon
      <3> QED
        BY <2>1, <3>2, <3>3
    <2>6. CASE Missed(seen, s)
      <3>1. PICK i \in DOMAIN seen : seen[i].source = s /\ seen[i].status # "OK"
        BY <2>6 DEF Missed
      <3>2. N(s) = {i}
        BY <3>1
      <3>3. degraded'[s] = degraded[s] + 1
        BY <1>4, <3>2, FS_Singleton
      <3>4. c \notin MissedBy(s)
        BY <3>1 DEF MissedBy, Missed
      <3>5. MissedBy(s)' = MissedBy(s) \union {c}
        BY <2>2, <2>3, <2>4, <2>6
      <3>6. /\ IsFiniteSet(MissedBy(s) \union {c})
            /\ Cardinality(MissedBy(s) \union {c}) = Cardinality(MissedBy(s)) + 1
        BY <2>1, <3>4, FS_AddElement
      <3> QED
        BY <2>1, <3>3, <3>5, <3>6
    <2> QED
      BY <2>5, <2>6
  <1> QED
    BY <1>3, <1>6, <1>7 DEF Tallied

LEMMA ObservationIsOne ==
    ASSUME NEW source \in Sources, NEW status \in Statuses, NEW confidence \in 0 .. 100
    PROVE  Observation(source, status, confidence) \in Observations
  BY DEF Observation, Observations

LEMMA OneObservation ==
    ASSUME NEW o \in Observations
    PROVE  /\ <<o>> \in Seq(Observations) /\ DOMAIN <<o>> = {1} /\ <<o>>[1] = o
  OBVIOUS

\* What a claim that is not judged does not do.
LEMMA UnjudgedStays ==
    ASSUME TInv, Judged, NEW c \in Claims, phase[c] # "fused", UNCHANGED verdict,
           \E p : phase' = [phase EXCEPT ![c] = p],
           \A d \in Claims : d # c => observations'[d] = observations[d]
    PROVE  Judged'
  <1>1. \A d \in Claims : verdict[d] # Nothing => d # c
    BY DEF Judged
  <1>2. \A d \in Claims : d # c => phase'[d] = phase[d]
    BY DEF TInv, Times
  <1> QED
    BY <1>1, <1>2 DEF Judged

\* What a claim has gathered is its own affair.
LEMMA ThisGathers ==
    ASSUME Gathered, NEW c \in Claims, observations' \in [Claims -> Seq(Observations)],
           \A d \in Claims : d # c => phase'[d] = phase[d] /\ observations'[d] = observations[d],
           \/ phase'[c] = "fused"
           \/ /\ phase'[c] = "core"
              /\ \A i \in DOMAIN observations'[c] : observations'[c][i].source # "consensus"
           \/ /\ phase'[c] = "weather"
              /\ \A i \in DOMAIN observations'[c] : observations'[c][i].source = "solar_temporal"
    PROVE  Gathered'
  <1>1. phase'[c] \notin {"idle", "raised"} \union Waiting
    BY DEF Waiting
  <1>2. \A i \in DOMAIN observations'[c] :
           phase'[c] \in {"weather", "core"} =>
              /\ observations'[c][i].source # "consensus"
              /\ phase'[c] = "weather" => observations'[c][i].source = "solar_temporal"
    OBVIOUS
  <1>3. ASSUME NEW d \in Claims, phase'[d] \in {"idle", "raised"} \union Waiting
        PROVE  observations'[d] = <<>>
    BY <1>1, <1>3, Zenon DEF Gathered
  <1>4. ASSUME NEW d \in Claims, phase'[d] \in {"weather", "core"}, NEW i \in DOMAIN observations'[d]
        PROVE  /\ observations'[d][i].source # "consensus"
               /\ phase'[d] = "weather" => observations'[d][i].source = "solar_temporal"
    <2>1. CASE d = c
      BY <1>2, <1>4, <2>1
    <2>2. CASE d # c
      <3>1. phase'[d] = phase[d] /\ observations'[d] = observations[d]
        BY <2>2
      <3> QED
        BY <1>4, <3>1 DEF Gathered
    <2> QED
      BY <2>1, <2>2
  <1> QED
    BY <1>3, <1>4 DEF Gathered

\* The solar observation is the first.
LEMMA ObserveSolarIsCounted ==
    ASSUME TInv, OInv, NEW c \in Claims, phase[c] \in {"idle", "fetch", "fetched"},
           NEW status \in {"OK", "DEGRADED"}, NEW confidence \in 0 .. 100,
           ObserveSolar(c, status, confidence), UNCHANGED verdict
    PROVE  OInv'
  <1> DEFINE o == Observation("solar_temporal", status, confidence)
  <1>1. o \in Observations /\ o.source = "solar_temporal"
    BY ObservationIsOne DEF Sources, Statuses, Observation
  <1>2. observations[c] = <<>>
    BY DEF OInv, Gathered, Waiting
  <1>3. Add(c, <<o>>) /\ phase' = [phase EXCEPT ![c] = "weather"]
    BY DEF ObserveSolar
  <1> HIDE DEF o
  <1>4. /\ observations' \in [Claims -> Seq(Observations)]
        /\ observations'[c] = observations[c] \o <<o>>
        /\ \A d \in Claims : d # c => observations'[d] = observations[d]
        /\ Tallied'
    <2>1. <<o>> \in Seq(Observations) /\ DOMAIN <<o>> = {1} /\ DOMAIN observations[c] = {}
      BY <1>1, <1>2, OneObservation
    <2> QED
      BY <1>3, <2>1, AddTallies
  <1>5. observations'[c] = <<o>>
    BY <1>1, <1>2, <1>4
  <1>6. Gathered'
    <2>1. \A d \in Claims : d # c => phase'[d] = phase[d]
      BY <1>3 DEF TInv, Times
    <2>2. phase'[c] = "weather"
      BY <1>3 DEF TInv, Times
    <2>3. \A i \in DOMAIN observations'[c] : observations'[c][i].source = "solar_temporal"
      BY <1>1, <1>5, OneObservation
    <2> QED
      BY <1>4, <2>1, <2>2, <2>3, ThisGathers DEF OInv
  <1>7. Judged'
    BY <1>3, <1>4, UnjudgedStays DEF OInv
  <1> QED
    BY <1>4, <1>6, <1>7 DEF OInv

\* A claim that waits for NOAA, or raises, observes nothing.
LEMMA WaitingObservesNothing ==
    ASSUME TInv, OInv, NEW c \in Claims, phase[c] \in {"idle", "fetch", "fetched"},
           \E p \in {"fetch", "fetched", "raised"} : phase' = [phase EXCEPT ![c] = p],
           UNCHANGED <<observations, degraded, verdict>>
    PROVE  OInv'
  <1>1. /\ \A d \in Claims : d # c => phase'[d] = phase[d]
        /\ phase'[c] \in {"fetch", "fetched", "raised"}
    BY DEF TInv, Times
  <1>2. Gathered'
    BY <1>1 DEF OInv, Gathered, Waiting
  <1>3. Tallied'
    BY DEF OInv, Tallied, MissedBy
  <1>4. Judged'
    BY UnjudgedStays DEF OInv
  <1> QED
    BY <1>2, <1>3, <1>4 DEF OInv

LEMMA EvaluateIsCounted ==
    ASSUME TInv, OInv, NEW c \in Claims, phase[c] \in {"idle", "fetch", "fetched"},
           NEW body, NEW at, Evaluate(c, body, at), UNCHANGED verdict
    PROVE  OInv'
  <1>1. CASE ObserveSolar(c, "DEGRADED", 0)
    BY <1>1, Hundredths, ObserveSolarIsCounted
  <1>2. CASE \E s \in SolarScores : ObserveSolar(c, "OK", s)
    BY <1>2, Parameters, ObserveSolarIsCounted
  <1>3. CASE phase' = [phase EXCEPT ![c] = "raised"] /\ UNCHANGED <<observations, degraded>>
    BY <1>3, WaitingObservesNothing
  <1> QED
    BY <1>1, <1>2, <1>3 DEF Evaluate

LEMMA LocalScores == {0, 30, 50, 85} \subseteq 0 .. 100
  OBVIOUS

\* The weather and the device are next, whatever they say.
LEMMA ObserveWeatherIsCounted ==
    ASSUME TInv, OInv, NEW c \in Claims, NEW available \in BOOLEAN, ObserveWeather(c, available)
    PROVE  OInv'
  <1>1. PICK w, d \in Observations :
            /\ w.source = "weather" /\ d.source = "device"
            /\ Add(c, <<w, d>>)
    <2> DEFINE w == IF available THEN Observation("weather", "OK", 50)
                    ELSE Observation("weather", "DEGRADED", 0)
               d == IF c \in Enrolled THEN Observation("device", "OK", 85)
                    ELSE Observation("device", "DEGRADED", 30)
    <2>1. Add(c, <<w, d>>)
      BY DEF ObserveWeather
    <2>2. {"weather", "device"} \subseteq Sources /\ {"OK", "DEGRADED"} \subseteq Statuses
      BY DEF Sources, Statuses
    <2>3. w \in Observations /\ d \in Observations
      BY <2>2, LocalScores, ObservationIsOne, Zenon
    <2>4. w.source = "weather" /\ d.source = "device"
      BY DEF Observation
    <2> HIDE DEF w, d
    <2> QED
      BY <2>1, <2>3, <2>4
  <1> DEFINE seen == <<w, d>>
             obs == observations[c]
  <1>2. /\ phase[c] = "weather" /\ phase' = [phase EXCEPT ![c] = "core"]
        /\ UNCHANGED verdict
    BY DEF ObserveWeather
  <1>3. /\ seen \in Seq(Observations) /\ DOMAIN seen = {1, 2}
        /\ seen[1].source = "weather" /\ seen[2].source = "device"
    BY <1>1
  <1>4. /\ obs \in Seq(Observations)
        /\ \A i \in DOMAIN obs : obs[i].source = "solar_temporal"
    BY <1>2 DEF OInv, Gathered
  <1> HIDE DEF seen, obs
  <1>5. /\ observations' \in [Claims -> Seq(Observations)]
        /\ observations'[c] = obs \o seen
        /\ \A e \in Claims : e # c => observations'[e] = observations[e]
        /\ Tallied'
    <2>1. Add(c, seen)
      BY <1>1 DEF seen
    <2>2. \A i, j \in DOMAIN seen : seen[i].source = seen[j].source => i = j
      BY <1>3
    <2>3. \A i \in DOMAIN seen, j \in DOMAIN observations[c] :
              seen[i].source # observations[c][j].source
      BY <1>3, <1>4 DEF obs
    <2> QED
      BY <1>3, <2>1, <2>2, <2>3, AddTallies DEF obs
  <1>6. Gathered'
    <2>1. \A e \in Claims : e # c => phase'[e] = phase[e]
      BY <1>2 DEF TInv, Times
    <2>2. phase'[c] = "core"
      BY <1>2 DEF TInv, Times
    <2>3. \A i \in DOMAIN (obs \o seen) : (obs \o seen)[i].source # "consensus"
      BY <1>3, <1>4, OneOfEither
    <2>4. \A i \in DOMAIN observations'[c] : observations'[c][i].source # "consensus"
      BY <1>5, <2>3, Zenon
    <2> QED
      BY <1>5, <2>1, <2>2, <2>4, ThisGathers DEF OInv
  <1>7. Judged'
    BY <1>2, <1>5, UnjudgedStays DEF OInv
  <1> QED
    BY <1>5, <1>6, <1>7 DEF OInv

LEMMA VerdictIsOne == \A obs : Verdict(obs) \in Verdicts
  BY Zenon DEF Verdict, Graded, Verdicts

\* FAP-Core's observation is the last, and not counted here; the verdict is of all.
LEMMA FuseIsJudged ==
    ASSUME TInv, OInv, NEW c \in Claims, NEW o \in CoreObservations, Fuse(c, o)
    PROVE  OInv'
  <1> DEFINE obs == observations[c]
  <1>1. o \in Observations /\ o.source = "consensus"
    <2>1. \A status \in {"OK", "DEGRADED", "FAILED"}, s \in 0 .. 100 :
             /\ Observation("consensus", status, s) \in Observations
             /\ Observation("consensus", status, s).source = "consensus"
      BY ObservationIsOne, Zenon DEF Observation, Sources, Statuses
    <2>2. PICK status \in {"OK", "DEGRADED", "FAILED"}, s \in 0 .. 100 :
              o = Observation("consensus", status, s)
      <3>1. CASE o = Observation("consensus", "FAILED", 0)
        BY <3>1, Hundredths, Zenon
      <3>2. CASE \E status \in {"OK", "DEGRADED"}, s \in CoreScores :
                     o = Observation("consensus", status, s)
        BY <3>2, Parameters, Zenon
      <3>3. \/ o = Observation("consensus", "FAILED", 0)
            \/ \E status \in {"OK", "DEGRADED"}, s \in CoreScores :
                   o = Observation("consensus", status, s)
        <4> HIDE DEF Observation
        <4> QED
          BY DEF CoreObservations
      <3> QED
        BY <3>1, <3>2, <3>3, Zenon
    <2> QED
      BY <2>1, <2>2, Zenon
  <1>2. /\ phase[c] = "core" /\ phase' = [phase EXCEPT ![c] = "fused"]
        /\ observations' = [observations EXCEPT ![c] = Append(obs, o)]
        /\ verdict' = [verdict EXCEPT ![c] = Verdict(observations'[c])]
        /\ degraded' = degraded
    BY DEF Fuse
  <1>3. /\ obs \in Seq(Observations) /\ observations \in [Claims -> Seq(Observations)]
        /\ verdict \in [Claims -> Verdicts \union {Nothing}]
    BY DEF OInv, Gathered, Judged
  <1>4. Append(obs, o) = obs \o <<o>> /\ <<o>> \in Seq(Observations)
    BY <1>1, <1>3, AppendIsConcat, OneObservation
  <1>5. Append(obs, o) \in Seq(Observations)
    BY <1>3, <1>4, MissedInEither
  <1> HIDE DEF obs
  <1>6. /\ observations' \in [Claims -> Seq(Observations)]
        /\ observations'[c] = Append(obs, o)
        /\ \A d \in Claims : d # c => observations'[d] = observations[d]
    BY <1>2, <1>3, <1>5, Zenon
  <1>7. \A d \in Claims : d # c => phase'[d] = phase[d]
    BY <1>2 DEF TInv, Times
  <1>8. phase'[c] = "fused"
    BY <1>2 DEF TInv, Times
  <1>9. Gathered'
    BY <1>6, <1>7, <1>8, ThisGathers DEF OInv
  <1>10. Tallied'
    <2>1. ASSUME NEW s \in Sources \ {"consensus"} PROVE MissedBy(s)' = MissedBy(s)
      <3>1. ~Missed(<<o>>, s)
        BY <1>1, OneObservation DEF Missed
      <3>2. Missed(obs \o <<o>>, s) <=> Missed(obs, s) \/ Missed(<<o>>, s)
        BY <1>3, <1>4, MissedInEither
      <3>3. Missed(Append(obs, o), s) <=> Missed(obs, s)
        BY <1>4, <3>1, <3>2
      <3>4. \A d \in Claims : d \in MissedBy(s)' <=> d \in MissedBy(s)
        BY <1>6, <3>3, Zenon DEF MissedBy, obs
      <3> QED
        BY <3>4, Zenon DEF MissedBy
    <2> QED
      BY <1>2, <2>1 DEF OInv, Tallied
  <1>11. Judged'
    <2>1. Verdict(observations'[c]) \in Verdicts
      BY VerdictIsOne, Zenon
    <2>2. /\ verdict' \in [Claims -> Verdicts \union {Nothing}]
          /\ verdict'[c] = Verdict(observations'[c])
          /\ \A d \in Claims : d # c => verdict'[d] = verdict[d]
      BY <1>2, <1>3, <2>1, Zenon
    <2>3. \A d \in Claims : verdict'[d] # Nothing =>
              phase'[d] = "fused" /\ verdict'[d] = Verdict(observations'[d])
      BY <1>6, <1>7, <1>8, <2>2 DEF OInv, Judged
    <2> QED
      BY <2>2, <2>3 DEF Judged
  <1> QED
    BY <1>9, <1>10, <1>11 DEF OInv

\* So the counters and the verdicts say what the observations come to.
LEMMA StepIsCounted == TInv /\ OInv /\ [Next]_vars => OInv'
  <1> SUFFICES ASSUME TInv, OInv, [Next]_vars PROVE OInv'
    OBVIOUS
  <1>1. ASSUME NEW c \in Claims, ReadCache(c) \/ FetchReturns(c) PROVE OInv'
    BY <1>1, EvaluateIsCounted DEF ReadCache, FetchReturns
  <1>2. ASSUME NEW c \in Claims, LoseCache(c) \/ FetchFails(c) PROVE OInv'
    <2>1. phase[c] \in {"idle", "fetch", "fetched"} /\ UNCHANGED verdict
      BY <1>2 DEF LoseCache, FetchFails, Waiting
    <2>2. ObserveSolar(c, "DEGRADED", 0) /\ 0 \in 0 .. 100
      BY <1>2 DEF LoseCache, FetchFails, Unavailable
    <2> QED
      BY <2>1, <2>2, ObserveSolarIsCounted
  <1>3. ASSUME NEW c \in Claims, AskNoaa(c) \/ \E body \in Lists : NoaaAnswers(c, body)
        PROVE  OInv'
    BY <1>3, WaitingObservesNothing DEF AskNoaa, NoaaAnswers
  <1>4. CASE Tick \/ UNCHANGED vars
    <2>1. UNCHANGED <<phase, observations, degraded, verdict>>
      BY <1>4 DEF Tick, vars
    <2> QED
      BY <2>1 DEF OInv, Gathered, Tallied, MissedBy, Judged
  <1>5. ASSUME NEW c \in Claims, Handle(c) PROVE OInv'
    BY <1>5, <1>1, <1>2, <1>3, ObserveWeatherIsCounted, FuseIsJudged DEF Handle
  <1> QED
    BY <1>4, <1>5 DEF Next

LEMMA InitFits == Init => IInv
  <1> SUFFICES ASSUME Init PROVE IInv
    OBVIOUS
  <1>1. TInv
    BY Parameters DEF Init, TInv, Times, ListsAreRecent, OutcomesAreRecent, Time, Waiting
  <1>2. \A c \in Claims : observations[c] = <<>> /\ phase[c] = "idle" /\ verdict[c] = Nothing
    BY DEF Init
  <1>3. Gathered
    <2>1. observations \in [Claims -> Seq(Observations)]
      BY EmptySeq DEF Init
    <2> QED
      BY <1>2, <2>1 DEF Gathered
  <1>4. Tallied
    <2>1. degraded \in [Sources -> Nat] /\ \A s \in Sources : degraded[s] = 0
      BY DEF Init
    <2>2. \A s : MissedBy(s) = {}
      BY <1>2, EmptySeq DEF MissedBy, Missed
    <2> QED
      BY <2>1, <2>2, FS_EmptySet DEF Tallied
  <1>5. Judged
    BY <1>2 DEF Init, Judged
  <1> QED
    BY <1>1, <1>3, <1>4, <1>5 DEF IInv, OInv

-------------------------------------------------------------------------------
\* For any claims, scores, cache lifetime and latency, the invariant holds throughout.
THEOREM IntakeInvariant == Spec => []IInv
  <1>1. IInv /\ [Next]_vars => IInv'
    BY StepIsTimely, StepIsCounted DEF IInv
  <1> QED
    BY InitFits, <1>1, PTL DEF Spec

\* Every variable keeps its type, and what is fused from the observations of a claim, some
\* or all of them, is a confidence.
THEOREM TypeCorrect == Spec => []TypeOK
  <1>1. IInv => TypeOK
    BY ConfidenceIsOne DEF IInv, TInv, Times, OInv, Gathered, Tallied, Judged, TypeOK
  <1> QED
    BY <1>1, IntakeInvariant, PTL

\* No outcome of the solar source rests on a list older than the cache's lifetime and one
\* request, in whatever order the answers arrive and overwrite each other.
THEOREM OutcomesStayRecent == Spec => []OutcomesAreRecent
  <1>1. IInv => OutcomesAreRecent
    BY DEF IInv, TInv
  <1> QED
    BY <1>1, IntakeInvariant, PTL

\* The counters of the local sources agree with the observations of the claims.
THEOREM DegradationsAlwaysAgree == Spec => []DegradationsAgree
  <1>1. IInv => DegradationsAgree
    BY Zenon DEF IInv, OInv, Tallied, MissedBy, Missed, DegradationsAgree
  <1> QED
    BY <1>1, IntakeInvariant, PTL

\* No fused claim would be worse off if a source that did not answer well had.
THEOREM FailuresNeverHelp == Spec => []FailureNeverHelps
  <1>1. IInv => FailureNeverHelps
    BY NothingGained DEF IInv, OInv, Gathered, FailureNeverHelps
  <1> QED
    BY <1>1, IntakeInvariant, PTL

\* STRICT is only ever said of a claim without a failed source, and with one that was not
\* OK at most.
THEOREM StrictStaysCorroborated == Spec => []StrictIsCorroborated
  <1>1. IInv => StrictIsCorroborated
    <2> SUFFICES ASSUME IInv, NEW c \in Claims, verdict[c] = "STRICT"
                 PROVE  /\ \A i \in DOMAIN observations[c] : observations[c][i].status # "FAILED"
                        /\ Cardinality({i \in DOMAIN observations[c] :
                                           observations[c][i].status # "OK"}) <= 1
      BY DEF StrictIsCorroborated
    <2>1. "STRICT" # Nothing
      BY Parameters DEF Verdicts
    <2>2. observations[c] \in Seq(Observations) /\ Verdict(observations[c]) = "STRICT"
      BY <2>1 DEF IInv, OInv, Gathered, Judged
    <2> QED
      BY <2>2, StrictNeedsWitnesses
  <1> QED
    BY <1>1, IntakeInvariant, PTL
=============================================================================
