------------------------- MODULE ReceiptTrustProofs -------------------------
(***************************************************************************)
(* What ReceiptTrust accepts, for every receipt, runtime, clock and        *)
(* context.                                                                *)
(***************************************************************************)
EXTENDS ReceiptTrust, TLAPS

\* Ingestion and validation, two modules with checks of their own, agree: what the
\* first attests the second trusts, for the evidence of the request and no other.
THEOREM IngestedIsTrusted ==
    ASSUME NEW request, NEW e, Admits(request)
    PROVE  TrustedLocal(Availability(request), e) <=> e = request.evidence_id
  BY DEF Admits, Availability, TrustedLocal

\* A valid receipt is about a verification that ended after its request arrived, but
\* for the allowed skew, and not long before now; so it is not one of a request that
\* ended more than the skew before this one.
THEOREM ValidIsOfThisRequest ==
    ASSUME NEW receipt, NEW response, NEW runtime, NEW local, NEW now \in Int,
           receipt.observed_at \in Int, receipt.available_at \in Int, local.available_at \in Int,
           Validate(receipt, response, runtime, local, now)
    PROVE  /\ receipt.evidence_id = local.evidence_id
           /\ receipt.observed_at + MaxClockSkew >= local.available_at
           /\ now - receipt.observed_at \in -MaxFutureSkew .. MaxReceiptAge
           /\ now - local.available_at >= -(MaxFutureSkew + MaxClockSkew)
  BY DEF Validate, AboutThis, TrustedLocal, Timely, MaxReceiptAge, MaxClockSkew, MaxFutureSkew

\* One receipt, one evidence, one answer and one commit: validated a second time,
\* wherever its id is met again, it says the same of the same, within the width of
\* the window.  What else a receipt may differ in is its availability time.
THEOREM ReceiptsAreBound ==
    ASSUME NEW r1, NEW p1, NEW run1, NEW l1, NEW now1 \in Int, r1.observed_at \in Int,
           NEW r2, NEW p2, NEW run2, NEW l2, NEW now2 \in Int, r2.observed_at \in Int,
           Validate(r1, p1, run1, l1, now1), Validate(r2, p2, run2, l2, now2),
           r1.receipt_id = r2.receipt_id
    PROVE  /\ l1.evidence_id = l2.evidence_id
           /\ p1.provenance_hash = p2.provenance_hash
           /\ run1.git_commit = run2.git_commit
           /\ r1.observed_at = r2.observed_at
           /\ now2 - now1 <= MaxReceiptAge + MaxFutureSkew
  <1>1. /\ r1.evidence_id = r2.evidence_id
        /\ r1.provenance_ref = r2.provenance_ref
        /\ r1.observed_at = r2.observed_at
        /\ r1.commit_sha = r2.commit_sha
    <2>1. ReceiptId(r1.evidence_id, r1.provenance_ref, r1.observed_at, r1.commit_sha)
            = ReceiptId(r2.evidence_id, r2.provenance_ref, r2.observed_at, r2.commit_sha)
      BY DEF Validate
    <2> QED
      BY <2>1 DEF ReceiptId
  <1>2. now2 - now1 <= MaxReceiptAge + MaxFutureSkew
    BY <1>1 DEF Validate, Timely, MaxReceiptAge, MaxFutureSkew
  <1> QED
    BY <1>1, <1>2 DEF Validate, AboutThis, TrustedLocal, FromRuntime

\* The window is wide enough for the program's own latencies.  FAP-Core's clock may
\* be up to MaxClockSkew behind and MaxFutureSkew ahead: a verification that began
\* after the request arrived is timely until it is MaxReceiptAge - MaxClockSkew old.
THEOREM PromptIsTimely ==
    ASSUME NEW arrived \in Int, NEW began \in Int, NEW ended \in Int, NEW now \in Int,
           arrived <= began, began <= ended, ended <= now,
           now - ended <= MaxReceiptAge - MaxClockSkew,
           NEW skew \in -MaxClockSkew .. MaxFutureSkew,
           NEW receipt, receipt.available_at = began + skew, receipt.observed_at = ended + skew,
           NEW local, local.available_at = arrived
    PROVE  Timely(receipt, local, now)
  BY DEF Timely, MaxReceiptAge, MaxClockSkew, MaxFutureSkew

\* What the window lets through besides, whenever a verification began and ended and
\* whatever FAP-Core's clock shows.  A clock further behind than MaxClockSkew passes
\* only by as much as the verification began after the request arrived, and one
\* further ahead than MaxFutureSkew only by as much as the answer is old.  With a
\* clock in the allowed range, an answer FAP-Core gave before is held fresh only if
\* its verification began at most MaxClockSkew + MaxFutureSkew before the request
\* arrived and ended at most MaxReceiptAge + MaxFutureSkew ago.
THEOREM SkewIsBounded ==
    ASSUME NEW arrived \in Int, NEW began \in Int, NEW ended \in Int, NEW now \in Int,
           NEW skew \in Int,
           NEW receipt, receipt.available_at = began + skew, receipt.observed_at = ended + skew,
           NEW local, local.available_at = arrived,
           Timely(receipt, local, now)
    PROVE  /\ skew >= -MaxClockSkew - (began - arrived)
           /\ skew <= MaxFutureSkew + (now - ended)
           /\ skew \in -MaxClockSkew .. MaxFutureSkew =>
                 /\ arrived - began <= MaxClockSkew + MaxFutureSkew
                 /\ now - ended <= MaxReceiptAge + MaxFutureSkew
  BY DEF Timely, MaxReceiptAge, MaxClockSkew, MaxFutureSkew

\* No source is taken as preserved but in the carrier's own context, under a receipt
\* whose evidence is the claim's and whose commit is the one a healthy runtime reported,
\* and which does not vouch for itself.
THEOREM SourceNeedsBoundary ==
    ASSUME NEW receipt, NEW response, NEW runtime, NEW local, NEW now, NEW e, NEW context,
           SourceState(Vouched(receipt, response, runtime, local, now), e, context) = "PRESERVED"
    PROVE  /\ context = CarrierDefault
           /\ e = local.evidence_id
           /\ e = response.artifact_id
           /\ runtime.healthy /\ runtime.git_commit = receipt.commit_sha
           /\ ~receipt.selfValidated
  <1>1. e \in Vouched(receipt, response, runtime, local, now) /\ context = CarrierDefault
    BY DEF SourceState
  <1>2. Validate(receipt, response, runtime, local, now) /\ e = receipt.evidence_id
    BY <1>1 DEF Vouched
  <1> QED
    BY <1>1, <1>2 DEF Validate, AboutThis, TrustedLocal, Attested, FromRuntime
==============================================================================
