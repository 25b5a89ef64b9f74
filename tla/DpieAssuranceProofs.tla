------------------------ MODULE DpieAssuranceProofs ------------------------
(***************************************************************************)
(* What DpieAssurance decides, for every transition, proof and context.    *)
(***************************************************************************)
EXTENDS DpieAssurance, TLAPS

\* The cases of an evaluation.
LEMMA Cases ==
    ASSUME NEW t, t.value \in States, t.material \in BOOLEAN, NEW consequence
    PROVE  /\ t.value \in Unsettled =>
                 Evaluate(t, consequence) = Result("UNKNOWN", "DEFER", "NONE")
           /\ t.value \in Valid /\ ~t.material =>
                 Evaluate(t, consequence) = Result("PRESERVED", "AUTHORIZED", "NONE")
           /\ t.value \in {"CHANGED", "INVALIDATED"} /\ ~t.material =>
                 Evaluate(t, consequence) = Result(t.value, "DEFER", "PRESERVATION_UNESTABLISHED")
           /\ t.value \notin Unsettled /\ t.material /\ Established(t) =>
                 Evaluate(t, consequence) = Result("PRESERVED", "AUTHORIZED", "NONE")
           /\ t.value \notin Unsettled /\ t.material /\ ~Established(t) =>
                 Evaluate(t, consequence) =
                     Result("INVALIDATED", Refusal(consequence), Failure(t))
  BY DEF Evaluate, States, Unsettled, Valid

LEMMA ResultFields ==
    ASSUME NEW s, NEW d, NEW f
    PROVE  Result(s, d, f).state = s /\ Result(s, d, f).decision = d /\ Result(s, d, f).failure = f
  BY DEF Result

LEMMA Refusals ==
    ASSUME NEW consequence
    PROVE  Refusal(consequence) \in {"DENY", "QUARANTINE"}
  BY DEF Refusal

\* The governing invariant of docs/DPIE_ASSURANCE_GATEWAY.md: over a material
\* transition a property is held preserved exactly if its source is settled and a
\* valid proof establishes it; no consequence class and no state of the source
\* stands in for the proof.  (The source need not be valid: a proof carries
\* a CHANGED or INVALIDATED property over.)
THEOREM GoverningInvariant ==
    ASSUME NEW t, t.value \in States, t.material = TRUE, NEW consequence
    PROVE  /\ Evaluate(t, consequence).decision = "AUTHORIZED"
                 <=> t.value \notin Unsettled /\ Established(t)
           /\ Evaluate(t, consequence).state = "PRESERVED"
                 <=> t.value \notin Unsettled /\ Established(t)
  <1>1. CASE t.value \in Unsettled
    <2>1. Evaluate(t, consequence) = Result("UNKNOWN", "DEFER", "NONE")
      BY <1>1, Cases
    <2> QED
      BY <1>1, <2>1, ResultFields
  <1>2. CASE t.value \notin Unsettled /\ Established(t)
    <2>1. Evaluate(t, consequence) = Result("PRESERVED", "AUTHORIZED", "NONE")
      BY <1>2, Cases
    <2> QED
      BY <1>2, <2>1, ResultFields
  <1>3. CASE t.value \notin Unsettled /\ ~Established(t)
    <2>1. Evaluate(t, consequence) = Result("INVALIDATED", Refusal(consequence), Failure(t))
      BY <1>3, Cases
    <2> QED
      BY <1>3, <2>1, ResultFields, Refusals
  <1> QED
    BY <1>1, <1>2, <1>3

\* A proof establishes preservation for the transition and the rule it was made
\* for, and for no other: whatever else two transitions differ in, one proof
\* establishes both only if they have one name and one rule, version and authority.
THEOREM ProofsAreBound ==
    ASSUME NEW t, NEW u, t.proof = u.proof, Established(t), Established(u)
    PROVE  /\ t.id = u.id
           /\ t.property = u.property
           /\ t.target.rule.rule_id = u.target.rule.rule_id
           /\ t.target.rule.version = u.target.rule.version
           /\ t.target.rule.authority = u.target.rule.authority
  BY DEF Established, Bound

\* A refusal names something that is so.  A mismatch of jurisdiction, time or rule
\* is one; MISAPPLICATION means another purpose or scope than the source's or the
\* proof's; and PRESERVATION_UNESTABLISHED is said only if nothing changed.
THEOREM FailuresAreTrue ==
    ASSUME NEW t, t.value \in States \ Unsettled, t.material = TRUE, NEW consequence,
           NEW f, f = Evaluate(t, consequence).failure
    PROVE  /\ f = "AUTHORITY_MISMATCH" => t.proof.authority # t.target.rule.authority
           /\ f = "MISAPPLICATION" =>
                 \/ t.source.purpose # t.target.purpose \/ t.source.scope # t.target.scope
                 \/ HasProof(t) /\ ~InContext(t.proof, t)
           /\ f = "JURISDICTION_MISMATCH" => t.source.jurisdiction # t.target.jurisdiction
           /\ f = "TEMPORAL_MISMATCH" => t.source.at # t.target.at
           /\ f = "RULE_MISMATCH" => t.source.rule # t.target.rule
           /\ f = "PRESERVATION_UNESTABLISHED" =>
                 /\ t.source.purpose = t.target.purpose /\ t.source.scope = t.target.scope
                 /\ t.source.jurisdiction = t.target.jurisdiction
                 /\ t.source.at = t.target.at /\ t.source.rule = t.target.rule
           /\ f = "NONE" <=> Established(t)
  <1>1. CASE Established(t)
    <2>1. f = "NONE"
      <3>1. Evaluate(t, consequence) = Result("PRESERVED", "AUTHORIZED", "NONE")
        BY <1>1, Cases
      <3> QED
        BY <3>1, ResultFields
    <2> QED
      BY <1>1, <2>1
  <1>2. CASE ~Established(t)
    <2>1. f = Failure(t)
      <3>1. Evaluate(t, consequence) = Result("INVALIDATED", Refusal(consequence), Failure(t))
        BY <1>2, Cases
      <3> QED
        BY <3>1, ResultFields
    <2> QED
      BY <1>2, <2>1 DEF Failure, InContext
  <1> QED
    BY <1>1, <1>2

\* The consequence class decides only how hard a refusal is: it turns QUARANTINE
\* into DENY, and changes no state, no failure and no authorization.
THEOREM ConsequenceNeverAuthorizes ==
    ASSUME NEW t, t.value \in States, t.material \in BOOLEAN, NEW consequence,
           NEW r, r = Evaluate(t, consequence), NEW s, s = Evaluate(t, "standard")
    PROVE  /\ r.state = s.state /\ r.failure = s.failure
           /\ r.decision = IF s.decision = "QUARANTINE" THEN Refusal(consequence) ELSE s.decision
  <1>1. CASE t.value \notin Unsettled /\ t.material /\ ~Established(t)
    <2>1. /\ r = Result("INVALIDATED", Refusal(consequence), Failure(t))
          /\ s = Result("INVALIDATED", "QUARANTINE", Failure(t))
      BY <1>1, Cases DEF Refusal
    <2> QED
      BY <2>1, ResultFields
  <1>2. CASE ~(t.value \notin Unsettled /\ t.material /\ ~Established(t))
    <2>1. r = s /\ s.decision # "QUARANTINE"
      <3>1. CASE t.value \in Unsettled
        BY <3>1, Cases, ResultFields
      <3>2. CASE t.value \notin Unsettled /\ t.material
        <4>1. /\ r = Result("PRESERVED", "AUTHORIZED", "NONE")
              /\ s = Result("PRESERVED", "AUTHORIZED", "NONE")
          BY <3>2, <1>2, Cases
        <4> QED
          BY <4>1, ResultFields
      <3>3. CASE t.value \in Valid /\ ~t.material
        BY <3>3, Cases, ResultFields
      <3>4. CASE t.value \in {"CHANGED", "INVALIDATED"} /\ ~t.material
        BY <3>4, Cases, ResultFields
      <3> QED
        BY <3>1, <3>2, <3>3, <3>4 DEF States, Unsettled, Valid
    <2> QED
      BY <2>1
  <1> QED
    BY <1>1, <1>2

\* The Governor, given what an evaluation found, comes to the evaluation's own
\* decision, with one exception: of an immaterial transition from a source that
\* is settled but not valid the evaluation defers, and the Governor refuses.
THEOREM GovernorAgrees ==
    ASSUME NEW t, t.value \in States, t.material \in BOOLEAN, NEW consequence,
           NEW r, r = Evaluate(t, consequence)
    PROVE  Govern(r.state, r.failure, consequence) = r.decision
              <=> ~(t.value \in {"CHANGED", "INVALIDATED"} /\ ~t.material)
  <1>1. CASE t.value \in Unsettled
    <2>1. r.state = "UNKNOWN" /\ r.decision = "DEFER"
      BY <1>1, Cases, ResultFields
    <2> QED
      BY <1>1, <2>1 DEF Govern, Unsettled
  <1>2. CASE \/ t.value \in Valid /\ ~t.material
             \/ t.value \notin Unsettled /\ t.material /\ Established(t)
    <2>1. r.state = "PRESERVED" /\ r.decision = "AUTHORIZED" /\ r.failure = "NONE"
      <3>1. r = Result("PRESERVED", "AUTHORIZED", "NONE")
        BY <1>2, Cases
      <3> QED
        BY <3>1, ResultFields
    <2> QED
      BY <1>2, <2>1 DEF Govern, Valid
  <1>3. CASE t.value \notin Unsettled /\ t.material /\ ~Established(t)
    <2>1. r.state = "INVALIDATED" /\ r.decision = Refusal(consequence)
      <3>1. r = Result("INVALIDATED", Refusal(consequence), Failure(t))
        BY <1>3, Cases
      <3> QED
        BY <3>1, ResultFields
    <2> QED
      BY <1>3, <2>1 DEF Govern
  <1>4. CASE t.value \in {"CHANGED", "INVALIDATED"} /\ ~t.material
    <2>1. /\ r.state \in {"CHANGED", "INVALIDATED"} /\ r.decision = "DEFER"
      BY <1>4, Cases, ResultFields
    <2>2. Govern(r.state, r.failure, consequence) = Refusal(consequence)
      BY <2>1 DEF Govern
    <2> QED
      BY <1>4, <2>1, <2>2, Refusals
  <1> QED
    BY <1>1, <1>2, <1>3, <1>4 DEF States, Unsettled, Valid

\* A composition is authorized exactly if both parts are valid and their relation
\* is established, and the parts may be exchanged.
THEOREM CompositionNeedsBoth ==
    ASSUME NEW left \in States, NEW right \in States, NEW related \in BOOLEAN
    PROVE  /\ Compose(left, right, related).decision = "AUTHORIZED"
                 <=> left \in Valid /\ right \in Valid /\ related
           /\ Compose(left, right, related) = Compose(right, left, related)
  <1>1. CASE left \in Unsettled \/ right \in Unsettled
    <2>1. /\ Compose(left, right, related) = Result("UNKNOWN", "DEFER", "NONE")
          /\ Compose(right, left, related) = Result("UNKNOWN", "DEFER", "NONE")
      BY <1>1 DEF Compose
    <2> QED
      BY <1>1, <2>1, ResultFields DEF Unsettled, Valid
  <1>2. CASE left \notin Unsettled /\ right \notin Unsettled /\ ~related
    <2>1. /\ Compose(left, right, related) =
                Result("UNKNOWN", "QUARANTINE", "COMPOSITION_UNRESOLVED")
          /\ Compose(right, left, related) =
                Result("UNKNOWN", "QUARANTINE", "COMPOSITION_UNRESOLVED")
      BY <1>2 DEF Compose
    <2> QED
      BY <1>2, <2>1, ResultFields
  <1>3. CASE left \notin Unsettled /\ right \notin Unsettled /\ related
    <2> DEFINE R == IF left \in Valid /\ right \in Valid
                    THEN Result("PRESERVED", "AUTHORIZED", "NONE")
                    ELSE Result("UNKNOWN", "DEFER", "NONE")
    <2>1. Compose(left, right, related) = R /\ Compose(right, left, related) = R
      BY <1>3 DEF Compose
    <2>2. R.decision = "AUTHORIZED" <=> left \in Valid /\ right \in Valid
      BY ResultFields
    <2> HIDE DEF R
    <2> QED
      BY <1>3, <2>1, <2>2
  <1> QED
    BY <1>1, <1>2, <1>3

\* On the compatibility path a property nobody listed is taken over only if all
\* that are listed are valid, and what is refused there is refused outright.
THEOREM CompatNeverInvents ==
    ASSUME NEW t, {"property", "value", "material"} \subseteq DOMAIN t,
           t.material \in BOOLEAN, NEW properties,
           \A n \in DOMAIN properties : properties[n] \in States
    PROVE  /\ EvaluateCompat(t, properties).decision \in {"AUTHORIZED", "DEFER", "DENY"}
           /\ EvaluateCompat(t, properties).decision = "AUTHORIZED"
                    /\ t.property \notin DOMAIN properties
                 => DOMAIN properties # {} /\ \A n \in DOMAIN properties : properties[n] \in Valid
  <1> DEFINE u == [t EXCEPT !.value = Inferred(properties, t.property)]
  <1>0. u.value = Inferred(properties, t.property) /\ u.material = t.material
    OBVIOUS
  <1>1. EvaluateCompat(t, properties) = Evaluate(u, "critical")
    BY DEF EvaluateCompat
  <1> HIDE DEF u
  <1>2. u.value \in States /\ u.material \in BOOLEAN
    BY <1>0 DEF Inferred, States
  <1>3. Evaluate(u, "critical").decision \in {"AUTHORIZED", "DEFER", "DENY"}
    <2>1. CASE u.value \in Unsettled
      <3>1. Evaluate(u, "critical") = Result("UNKNOWN", "DEFER", "NONE")
        BY <2>1, <1>2, Cases
      <3> QED
        BY <3>1, ResultFields
    <2>2. CASE u.value \notin Unsettled /\ u.material /\ ~Established(u)
      <3>1. Evaluate(u, "critical") = Result("INVALIDATED", "DENY", Failure(u))
        BY <2>2, <1>2, Cases DEF Refusal
      <3> QED
        BY <3>1, ResultFields
    <2>3. CASE \/ u.value \in Valid /\ ~u.material
               \/ u.value \notin Unsettled /\ u.material /\ Established(u)
      <3>1. Evaluate(u, "critical") = Result("PRESERVED", "AUTHORIZED", "NONE")
        BY <2>3, <1>2, Cases
      <3> QED
        BY <3>1, ResultFields
    <2>4. CASE u.value \in {"CHANGED", "INVALIDATED"} /\ ~u.material
      <3>1. Evaluate(u, "critical") = Result(u.value, "DEFER", "PRESERVATION_UNESTABLISHED")
        BY <2>4, <1>2, Cases
      <3> QED
        BY <3>1, ResultFields
    <2> QED
      BY <2>1, <2>2, <2>3, <2>4, <1>2 DEF States, Unsettled, Valid
  <1>4. ASSUME t.property \notin DOMAIN properties,
               ~(DOMAIN properties # {} /\ \A n \in DOMAIN properties : properties[n] \in Valid)
        PROVE  Evaluate(u, "critical").decision # "AUTHORIZED"
    <2>1. u.value = "UNKNOWN"
      BY <1>4, <1>0 DEF Inferred
    <2>2. Evaluate(u, "critical") = Result("UNKNOWN", "DEFER", "NONE")
      BY <2>1, <1>2, Cases DEF Unsettled
    <2> QED
      BY <2>2, ResultFields
  <1> QED
    BY <1>1, <1>3, <1>4

\* The program's own demonstration (dpie_assurance.py, and its tests): a perfect
\* artifact, used for another purpose than it was verified for, is denied as misapplied.
THEOREM DemoIsMisapplied ==
    Evaluate(Demo, "critical") = Result("INVALIDATED", "DENY", "MISAPPLICATION")
  <1>1. /\ Demo.value = "PRESERVED" /\ Demo.material = TRUE /\ Demo.proof = Nothing
        /\ Demo.source.purpose # Demo.target.purpose
    BY DEF Demo, DemoState
  <1>2. ~HasProof(Demo)
    BY <1>1 DEF HasProof
  <1>3. Failure(Demo) = "MISAPPLICATION"
    BY <1>1, <1>2 DEF Failure
  <1>4. ~Established(Demo)
    BY <1>2 DEF Established
  <1>5. Demo.value \in States /\ Demo.value \notin Unsettled /\ Demo.material \in BOOLEAN
    BY <1>1 DEF States, Unsettled
  <1>6. Evaluate(Demo, "critical") = Result("INVALIDATED", Refusal("critical"), Failure(Demo))
    BY <1>1, <1>4, <1>5, Cases
  <1> QED
    BY <1>3, <1>6 DEF Refusal

\* A proof that claims no more than it must.
ProofFor(t) ==
    [property |-> t.property, transition_id |-> t.id,
     rule_id |-> t.target.rule.rule_id, rule_version |-> t.target.rule.version,
     authority |-> t.target.rule.authority, evidence |-> TRUE, valid |-> TRUE,
     source_purpose |-> Nothing, target_purpose |-> Nothing,
     source_scope |-> Nothing, target_scope |-> Nothing,
     source_jurisdiction |-> Nothing, target_jurisdiction |-> Nothing]

\* Preservation can be established: whatever changes between source and target, under
\* a rule in effect there is a proof that carries the property over, so what the
\* engine refuses it refuses for want of a proof.
THEOREM ProofSuffices ==
    ASSUME NEW t, {"id", "property", "value", "material", "source", "target", "proof"} = DOMAIN t,
           Effective(t), ProofFor(t) # Nothing,
           NEW u, u = [t EXCEPT !.proof = ProofFor(t)]
    PROVE  Established(u)
  <1>1. u.id = t.id /\ u.property = t.property /\ u.target = t.target
    OBVIOUS
  <1>2. u.proof = ProofFor(t)
    OBVIOUS
  <1>3. HasProof(u) /\ u.proof.property = u.property
    BY <1>1, <1>2 DEF HasProof, ProofFor
  <1>4. Bound(u.proof, u) /\ InContext(u.proof, u)
    BY <1>1, <1>2 DEF Bound, InContext, Declares, ProofFor
  <1>5. Effective(u)
    BY <1>1 DEF Effective
  <1> QED
    BY <1>3, <1>4, <1>5 DEF Established
==============================================================================
