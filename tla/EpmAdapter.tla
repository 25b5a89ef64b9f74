----------------------------- MODULE EpmAdapter -----------------------------
(***************************************************************************)
(* What becomes of one claim's result in the context its caller wants to   *)
(* use it in: _production_assurance_context (api.py), the assessment of    *)
(* dpie_runtime.py and epm_fap_adapter.py, and the translation of          *)
(* epm_fap_semantics.py.  The pinned epm package evaluates the transition; *)
(* it does what dpie_assurance.py does, but for a proof's validity, which  *)
(* takes a boundary that has validated it.                                 *)
(*                                                                         *)
(*   body    : purpose, scope, jurisdiction, at, rule_id, rule_version,    *)
(*             rule_authority (the downstream_ fields, Nothing if not      *)
(*             given), consequence, proof                                  *)
(*   request : evidence_id, availability, required, source, target,        *)
(*             consequence, proof                                          *)
(*   a context has the first seven fields of a body.                       *)
(***************************************************************************)
EXTENDS ReceiptTrust, DpieAssurance

Default(given, default) == IF given = Nothing THEN default ELSE given

\* The context every claim is verified in.
Source(received_at) ==
    [purpose        |-> CarrierDefault.purpose,
     scope          |-> CarrierDefault.scope,
     jurisdiction   |-> CarrierDefault.jurisdiction,
     at             |-> received_at,
     rule_id        |-> CarrierDefault.rule_id,
     rule_version   |-> CarrierDefault.rule_version,
     rule_authority |-> CarrierDefault.rule_authority]

\* The context the result is to be used in; what is not said is as at the source.
Target(body, received_at) ==
    [field \in DOMAIN Source(received_at) |-> Default(body[field], Source(received_at)[field])]

\* _production_assurance_context and assess_request_context
Request(body, evidence_id, availability, received_at) ==
    [evidence_id |-> evidence_id, availability |-> availability, required |-> TRUE,
     source |-> Source(received_at), target |-> Target(body, received_at),
     consequence |-> body.consequence, proof |-> body.proof]

-------------------------------------------------------------------------------
\* A context as the engine sees it: its rule holds there, from that time on.
StateIn(context) ==
    [purpose |-> context.purpose, scope |-> context.scope,
     jurisdiction |-> context.jurisdiction, at |-> context.at,
     rule |-> [rule_id |-> context.rule_id, version |-> context.rule_version,
               authority |-> context.rule_authority, jurisdiction |-> context.jurisdiction,
               effective_at |-> context.at]]

\* preservation_proof_from_mapping: the caller's mapping, never boundary_validated.  One
\* whose evidence_refs cannot be iterated raises: VerifyClaim's AssessRaises.
ProofFrom(raw, id) ==
    IF raw = Nothing THEN Nothing
    ELSE [raw EXCEPT !.property      = Default(@, "applicability"),
                     !.transition_id = Default(@, id),
                     !.valid         = FALSE]

\* envelope_from_fap_transition, seen from "applicability".
Transition(request, vouched) ==
    [id       |-> request.evidence_id,
     property |-> "applicability",
     material |-> request.source # request.target,
     value    |-> SourceState(vouched, request.evidence_id,
                      [field \in DOMAIN CarrierDefault |-> request.source[field]]),
     source   |-> StateIn(request.source),
     target   |-> StateIn(request.target),
     proof    |-> ProofFrom(request.proof, request.evidence_id)]

\* assess_temporal_availability of epm, as its tests here have it.
Temporal(availability, evidence_id, at) ==
    IF availability = Nothing THEN "UNKNOWN"
    ELSE IF ~availability.attested \/ availability.evidence_id # evidence_id THEN "UNKNOWN"
    ELSE IF availability.available_at > at THEN "UNAVAILABLE"
    ELSE "AVAILABLE"

\* assess_fap_via_epm_envelope.  Only old callers name an evidence_available_at.
AssessFap(request, vouched) ==
    LET temporal == Temporal(request.availability, request.evidence_id, request.target.at) IN
    IF temporal = "UNAVAILABLE"
        THEN Result("INVALIDATED", Refusal(request.consequence), "TEMPORAL_MISMATCH")
    ELSE IF temporal = "UNKNOWN" /\ request.required
        THEN Result("UNKNOWN", "DEFER", "TEMPORAL_MISMATCH")
    ELSE Evaluate(Transition(request, vouched), request.consequence)
==============================================================================
