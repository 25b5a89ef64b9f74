---------------------------- MODULE DpieAssurance ----------------------------
(***************************************************************************)
(* dpie_assurance.py, dpie_composition.py and governor.py: what becomes of *)
(* one assurance property over a transition, over a composition, and under *)
(* a consequence class.                                                    *)
(*                                                                         *)
(* A transition t is the code's Transition seen from one property:         *)
(*   id, property, material (the property is declared material),           *)
(*   value  (the property's state at the source; UNKNOWN if it has none),  *)
(*   source and target, each with purpose, scope, jurisdiction, at, rule,  *)
(*   proof  (the preservation proof filed for the property, or Nothing).   *)
(* A rule has rule_id, version, authority, jurisdiction, effective_at.     *)
(* A proof has property, transition_id, rule_id, rule_version, authority,  *)
(* evidence (it has references), valid, and declares a purpose, scope and  *)
(* jurisdiction of source and target, each of which may be Nothing.        *)
(***************************************************************************)
EXTENDS Integers

CONSTANT Nothing        \* None

States == {"PRESERVED", "CHANGED", "INVALIDATED", "UNKNOWN", "CONTRADICTED", "VALID"}

Decisions == {"AUTHORIZED", "DEFER", "QUARANTINE", "DENY"}

Unsettled == {"UNKNOWN", "CONTRADICTED"}

\* _is_valid_source
Valid == {"PRESERVED", "VALID"}

Result(state, decision, failure) ==
    [state |-> state, decision |-> decision, failure |-> failure]

-------------------------------------------------------------------------------
Declares(declared, actual) == declared \in {Nothing, actual}

\* The proof names this transition and the target's rule, and has evidence.
Bound(p, t) ==
    /\ p.transition_id = t.id
    /\ p.rule_id = t.target.rule.rule_id
    /\ p.rule_version = t.target.rule.version
    /\ p.authority = t.target.rule.authority
    /\ p.evidence

\* The target's rule is not of a later time than the target.
Effective(t) ==
    \/ t.target.rule.effective_at = Nothing
    \/ t.target.at = Nothing
    \/ t.target.rule.effective_at <= t.target.at

\* Whatever context the proof declares is the transition's.
InContext(p, t) ==
    /\ Declares(p.source_purpose, t.source.purpose)
    /\ Declares(p.target_purpose, t.target.purpose)
    /\ Declares(p.source_scope, t.source.scope)
    /\ Declares(p.target_scope, t.target.scope)
    /\ Declares(p.source_jurisdiction, t.source.jurisdiction)
    /\ Declares(p.target_jurisdiction, t.target.jurisdiction)

HasProof(t) == t.proof # Nothing /\ t.proof.valid

\* preservation_established
Established(t) ==
    /\ HasProof(t)
    /\ t.proof.property = t.property
    /\ Bound(t.proof, t)
    /\ Effective(t)
    /\ InContext(t.proof, t)

\* The first thing wrong with a material transition that is not established.
Failure(t) ==
    IF HasProof(t) /\ t.proof.authority # t.target.rule.authority THEN "AUTHORITY_MISMATCH"
    ELSE IF t.source.purpose # t.target.purpose \/ t.source.scope # t.target.scope
         THEN "MISAPPLICATION"
    ELSE IF t.source.jurisdiction # t.target.jurisdiction THEN "JURISDICTION_MISMATCH"
    ELSE IF t.source.at # t.target.at THEN "TEMPORAL_MISMATCH"
    ELSE IF t.source.rule # t.target.rule THEN "RULE_MISMATCH"
    ELSE IF HasProof(t) /\ (\/ ~Declares(t.proof.target_purpose, t.target.purpose)
                            \/ ~Declares(t.proof.target_scope, t.target.scope))
         THEN "MISAPPLICATION"
    ELSE "PRESERVATION_UNESTABLISHED"

Refusal(consequence) == IF consequence = "critical" THEN "DENY" ELSE "QUARANTINE"

\* evaluate_transition
Evaluate(t, consequence) ==
    CASE t.value \in Unsettled -> Result("UNKNOWN", "DEFER", "NONE")
      [] t.value \notin Unsettled /\ ~t.material ->
            IF t.value \in Valid THEN Result("PRESERVED", "AUTHORIZED", "NONE")
            ELSE Result(t.value, "DEFER", "PRESERVATION_UNESTABLISHED")
      [] t.value \notin Unsettled /\ t.material ->
            IF Established(t) THEN Result("PRESERVED", "AUTHORIZED", "NONE")
            ELSE Result("INVALIDATED", Refusal(consequence), Failure(t))

-------------------------------------------------------------------------------
\* _compat_to_transition: properties is a function from the names listed to their
\* states; a name that is not listed is inferred from those that are.
Inferred(properties, name) ==
    CASE name \in DOMAIN properties -> properties[name]
      [] name \notin DOMAIN properties /\ DOMAIN properties # {}
            /\ (\A n \in DOMAIN properties : properties[n] \in Valid) -> "PRESERVED"
      [] OTHER -> "UNKNOWN"

\* evaluate_compat_transition: every consequence is critical.
EvaluateCompat(t, properties) ==
    Evaluate([t EXCEPT !.value = Inferred(properties, t.property)], "critical")

\* evaluate_composition
Compose(left, right, related) ==
    CASE left \in Unsettled \/ right \in Unsettled -> Result("UNKNOWN", "DEFER", "NONE")
      [] {left, right} \intersect Unsettled = {} /\ ~related ->
            Result("UNKNOWN", "QUARANTINE", "COMPOSITION_UNRESOLVED")
      [] {left, right} \intersect Unsettled = {} /\ related ->
            IF left \in Valid /\ right \in Valid THEN Result("PRESERVED", "AUTHORIZED", "NONE")
            ELSE Result("UNKNOWN", "DEFER", "NONE")

\* govern
Govern(state, failure, consequence) ==
    CASE state = "UNKNOWN" -> "DEFER"
      [] state = "PRESERVED" /\ failure = "NONE" -> "AUTHORIZED"
      [] state # "UNKNOWN" /\ ~(state = "PRESERVED" /\ failure = "NONE") -> Refusal(consequence)

-------------------------------------------------------------------------------
\* perfect_artifact_misapplication_demo: nothing changed but the purpose.
DemoRule == [rule_id |-> "carrier-default", version |-> "1", authority |-> "carrier-authority",
             jurisdiction |-> "TX", effective_at |-> Nothing]

DemoState(purpose) ==
    [purpose |-> purpose, scope |-> "auto", jurisdiction |-> "TX", at |-> 14, rule |-> DemoRule]

Demo == [id |-> "T1", property |-> "applicability", material |-> TRUE, value |-> "PRESERVED",
         source |-> DemoState("claim-adjustment"), target |-> DemoState("litigation-discovery"),
         proof |-> Nothing]
==============================================================================
