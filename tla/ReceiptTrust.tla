---------------------------- MODULE ReceiptTrust ----------------------------
(***************************************************************************)
(* The two receipts of the FAP-Core boundary.  epm_fap_availability.py     *)
(* attests that a claim's evidence was here when the request arrived;      *)
(* epm_fap_trust.py validates the receipt FAP-Core answers with against    *)
(* that, the answer it came in and the runtime seen; and                   *)
(* epm_fap_semantics.py gives the result a standing.                       *)
(*                                                                         *)
(*   request : authenticated, named (neither id is blank), hashed (a       *)
(*             SHA-256 digest), evidence_id, received_at, observed_at      *)
(*   local   : evidence_id, available_at, observed_at, attested (source,   *)
(*             provenance and attestation are filled in and validated)     *)
(*   receipt : canonical (it is there, with exactly the schema's fields,   *)
(*             the expected versions, source, authority, method and        *)
(*             producer, and text where text is due), attested,            *)
(*             selfValidated, evidence_id, provenance_ref, basis,          *)
(*             commit_sha, available_at, observed_at, receipt_id           *)
(*   response: artifact_id, provenance_hash                                *)
(*   runtime : healthy (it is a healthy fap-core), expectedRepo, git_commit*)
(*   context : purpose, scope, jurisdiction, rule_id, rule_version,        *)
(*             rule_authority                                              *)
(*                                                                         *)
(* Times are integers, in seconds.  A time has one spelling, and all are   *)
(* timezone-aware: a naive one is refused as one that is no time is.       *)
(***************************************************************************)
EXTENDS Integers

MaxReceiptAge == 300
MaxClockSkew  == 5
MaxFutureSkew == 60

-------------------------------------------------------------------------------
\* ingest_fap_authenticated_request raises unless
Admits(request) ==
    /\ request.authenticated
    /\ request.named
    /\ request.hashed
    /\ request.observed_at >= request.received_at

\* and returns
Availability(request) ==
    [evidence_id |-> request.evidence_id, available_at |-> request.received_at,
     observed_at |-> request.observed_at, attested |-> TRUE]

\* _trusted_local_availability
TrustedLocal(local, evidence_id) ==
    /\ local.evidence_id = evidence_id
    /\ local.observed_at >= local.available_at
    /\ local.attested

-------------------------------------------------------------------------------
\* SHA-256 of the parts, taken as injective: no evidence id, time or commit holds a
\* colon that could be taken for the separator of another split.
ReceiptId(evidence_id, provenance_ref, observed_at, commit_sha) ==
    <<evidence_id, provenance_ref, observed_at, commit_sha>>

\* The receipt is about the evidence and the answer it came with.
AboutThis(receipt, response, local) ==
    /\ receipt.evidence_id = response.artifact_id
    /\ TrustedLocal(local, receipt.evidence_id)
    /\ receipt.provenance_ref = response.provenance_hash
    /\ receipt.basis = receipt.provenance_ref

\* FAP-Core attests its verification and leaves the boundary to this side.
Attested(receipt) == receipt.attested /\ ~receipt.selfValidated

FromRuntime(receipt, runtime) ==
    /\ runtime.healthy
    /\ runtime.expectedRepo
    /\ runtime.git_commit = receipt.commit_sha

Timely(receipt, local, now) ==
    /\ receipt.observed_at >= receipt.available_at
    /\ receipt.available_at + MaxClockSkew >= local.available_at
    /\ receipt.observed_at <= now + MaxFutureSkew
    /\ now - receipt.observed_at <= MaxReceiptAge

\* validate_fap_evidence_receipt does not raise
Validate(receipt, response, runtime, local, now) ==
    /\ receipt.canonical
    /\ AboutThis(receipt, response, local)
    /\ Attested(receipt)
    /\ FromRuntime(receipt, runtime)
    /\ Timely(receipt, local, now)
    /\ receipt.receipt_id = ReceiptId(receipt.evidence_id, receipt.provenance_ref,
                                      receipt.observed_at, receipt.commit_sha)

\* The boundary it returns counts by the evidence it vouches for; no boundary vouches
\* for none.
Vouched(receipt, response, runtime, local, now) ==
    IF Validate(receipt, response, runtime, local, now) THEN {receipt.evidence_id} ELSE {}

-------------------------------------------------------------------------------
CarrierDefault ==
    [purpose |-> "claim-verification", scope |-> "claim", jurisdiction |-> "TX",
     rule_id |-> "carrier-default", rule_version |-> "1", rule_authority |-> "carrier-authority"]

\* source_state_from_fap, establishes_source_context: the state of each of the four
\* source properties.
SourceState(vouched, evidence_id, context) ==
    IF evidence_id \in vouched /\ context = CarrierDefault THEN "PRESERVED" ELSE "UNKNOWN"
==============================================================================
