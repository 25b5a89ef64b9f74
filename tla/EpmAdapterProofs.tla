-------------------------- MODULE EpmAdapterProofs --------------------------
(***************************************************************************)
(* What can and what cannot authorize a claim on the production path, for  *)
(* every body, receipt and time.                                           *)
(***************************************************************************)
EXTENDS EpmAdapter, TLAPS

ContextFields ==
    {"purpose", "scope", "jurisdiction", "at", "rule_id", "rule_version", "rule_authority"}

LEMMA SourceIsCarriers ==
    ASSUME NEW received_at
    PROVE  /\ DOMAIN Source(received_at) = ContextFields
           /\ [field \in DOMAIN CarrierDefault |-> Source(received_at)[field]] = CarrierDefault
           /\ Source(received_at).at = received_at
  BY DEF Source, ContextFields, CarrierDefault

\* The state a claim's result has at its source.
LEMMA ValueAtSource ==
    ASSUME NEW body, NEW e, NEW availability, NEW received_at, NEW vouched,
           NEW t, t = Transition(Request(body, e, availability, received_at), vouched)
    PROVE  /\ t.value = IF e \in vouched THEN "PRESERVED" ELSE "UNKNOWN"
           /\ t.material = (Source(received_at) # Target(body, received_at))
           /\ t.proof = ProofFrom(body.proof, e)
  <1>1. t.value = SourceState(vouched, e,
                     [field \in DOMAIN CarrierDefault |-> Source(received_at)[field]])
    BY DEF Transition, Request
  <1>2. t.value = IF e \in vouched THEN "PRESERVED" ELSE "UNKNOWN"
    BY <1>1, SourceIsCarriers DEF SourceState
  <1>3. t.material = (Source(received_at) # Target(body, received_at))
    BY DEF Transition, Request
  <1>4. t.proof = ProofFrom(body.proof, e)
    BY DEF Transition, Request
  <1> QED
    BY <1>2, <1>3, <1>4

\* A proof in the body of a request establishes nothing, whatever it says.
LEMMA RawProofs ==
    ASSUME NEW t, NEW raw, NEW id, t.proof = ProofFrom(raw, id),
           raw # Nothing => "valid" \in DOMAIN raw /\ raw = [f \in DOMAIN raw |-> raw[f]]
    PROVE  ~HasProof(t) /\ ~Established(t)
  BY DEF HasProof, Established, ProofFrom

LEMMA Fields ==
    ASSUME NEW s, NEW d, NEW f
    PROVE  Result(s, d, f).state = s /\ Result(s, d, f).decision = d
  BY DEF Result

\* What evaluation comes to on this path, from which no proof can lead elsewhere.
LEMMA Evaluated ==
    ASSUME NEW t, t.value \in {"PRESERVED", "UNKNOWN"}, t.material \in BOOLEAN, ~Established(t),
           NEW consequence
    PROVE  Evaluate(t, consequence).decision =
             IF t.value = "UNKNOWN" THEN "DEFER"
             ELSE IF t.material THEN Refusal(consequence) ELSE "AUTHORIZED"
  <1>1. CASE t.value = "UNKNOWN"
    BY <1>1, Fields DEF Evaluate, Unsettled
  <1>2. CASE t.value = "PRESERVED" /\ t.material
    <2>1. Evaluate(t, consequence) = Result("INVALIDATED", Refusal(consequence), Failure(t))
      BY <1>2 DEF Evaluate, Unsettled
    <2> QED
      BY <1>2, <2>1, Fields
  <1>3. CASE t.value = "PRESERVED" /\ ~t.material
    <2>1. Evaluate(t, consequence) = Result("PRESERVED", "AUTHORIZED", "NONE")
      BY <1>3 DEF Evaluate, Unsettled, Valid
    <2> QED
      BY <1>3, <2>1, Fields
  <1> QED
    BY <1>1, <1>2, <1>3

\* The availability a claim's own request attests.
IsIngested(availability, e, received_at) ==
    /\ availability # Nothing
    /\ \E q : /\ Admits(q) /\ q.evidence_id = e /\ q.received_at = received_at
             /\ availability = Availability(q)

IsMapping(raw) == raw # Nothing => "valid" \in DOMAIN raw /\ raw = [f \in DOMAIN raw |-> raw[f]]

LEMMA TimeOfTarget ==
    ASSUME NEW availability, NEW e, NEW received_at \in Int, NEW at \in Int,
           IsIngested(availability, e, received_at)
    PROVE  Temporal(availability, e, at) = IF at < received_at THEN "UNAVAILABLE" ELSE "AVAILABLE"
  <1>1. /\ availability.attested = TRUE /\ availability.evidence_id = e
        /\ availability.available_at = received_at /\ availability # Nothing
    BY DEF IsIngested, Availability
  <1> QED
    BY <1>1 DEF Temporal

\* What the service decides of a claim, whole: a use before the request was here is
\* refused, a claim FAP-Core's validated receipt does not vouch for is deferred, a use
\* in any other context than the carrier's own is refused, and only what is left is
\* authorized.  Neither score nor verdict nor the caller's proof has a part in it.
THEOREM Decided ==
    ASSUME NEW body, IsMapping(body.proof), NEW e, NEW received_at \in Int,
           NEW availability, IsIngested(availability, e, received_at),
           Target(body, received_at).at \in Int, NEW vouched
    PROVE  AssessFap(Request(body, e, availability, received_at), vouched).decision =
             IF Target(body, received_at).at < received_at THEN Refusal(body.consequence)
             ELSE IF e \notin vouched THEN "DEFER"
             ELSE IF Target(body, received_at) # Source(received_at) THEN Refusal(body.consequence)
             ELSE "AUTHORIZED"
  <1> DEFINE r == Request(body, e, availability, received_at)
             t == Transition(r, vouched)
             at == Target(body, received_at).at
  <1>1. /\ r.availability = availability /\ r.evidence_id = e /\ r.target.at = at
        /\ r.consequence = body.consequence
    BY DEF Request
  <1>2. Temporal(r.availability, r.evidence_id, r.target.at)
          = IF at < received_at THEN "UNAVAILABLE" ELSE "AVAILABLE"
    BY <1>1, TimeOfTarget
  <1>3. CASE at < received_at
    <2>1. AssessFap(r, vouched) = Result("INVALIDATED", Refusal(body.consequence), "TEMPORAL_MISMATCH")
      BY <1>1, <1>2, <1>3 DEF AssessFap
    <2> QED
      BY <1>3, <2>1, Fields
  <1>4. CASE ~(at < received_at)
    <2>1. AssessFap(r, vouched) = Evaluate(t, body.consequence)
      BY <1>1, <1>2, <1>4 DEF AssessFap
    <2>2. /\ t.value = IF e \in vouched THEN "PRESERVED" ELSE "UNKNOWN"
          /\ t.material = (Source(received_at) # Target(body, received_at))
          /\ t.proof = ProofFrom(body.proof, e)
      BY ValueAtSource
    <2> HIDE DEF t, r
    <2>3. ~Established(t)
      BY <2>2, RawProofs DEF IsMapping
    <2>4. t.value \in {"PRESERVED", "UNKNOWN"} /\ t.material \in BOOLEAN
      BY <2>2
    <2>5. Evaluate(t, body.consequence).decision =
             IF t.value = "UNKNOWN" THEN "DEFER"
             ELSE IF t.material THEN Refusal(body.consequence) ELSE "AUTHORIZED"
      BY <2>3, <2>4, Evaluated
    <2>6. AssessFap(r, vouched).decision =
             IF e \notin vouched THEN "DEFER"
             ELSE IF Target(body, received_at) # Source(received_at) THEN Refusal(body.consequence)
             ELSE "AUTHORIZED"
      BY <2>1, <2>2, <2>5
    <2> QED
      BY <1>4, <2>6 DEF r
  <1> QED
    BY <1>3, <1>4

\* So an authorization means that a validated receipt vouches for this claim's own
\* evidence, and that its result is used exactly where and when it was made, under the
\* rule it was made under.
THEOREM AuthorizedIsUnchanged ==
    ASSUME NEW body, IsMapping(body.proof), NEW e, NEW received_at \in Int,
           NEW availability, IsIngested(availability, e, received_at),
           Target(body, received_at).at \in Int, NEW vouched
    PROVE  AssessFap(Request(body, e, availability, received_at), vouched).decision = "AUTHORIZED"
             <=> e \in vouched /\ Target(body, received_at) = Source(received_at)
  <1>1. Target(body, received_at) = Source(received_at) => Target(body, received_at).at = received_at
    BY SourceIsCarriers
  <1>2. Refusal(body.consequence) # "AUTHORIZED"
    BY DEF Refusal
  <1> QED
    BY <1>1, <1>2, Decided

\* The determination the ledger keeps is made without the validated boundary: for what
\* the service authorized, and for what it refused as used elsewhere, it says DEFER;
\* only a use before the request was here is on record as refused.
THEOREM RecordedWithoutBoundary ==
    ASSUME NEW body, IsMapping(body.proof), NEW e, NEW received_at \in Int,
           NEW availability, IsIngested(availability, e, received_at),
           Target(body, received_at).at \in Int
    PROVE  AssessFap(Request(body, e, availability, received_at), {}).decision =
             IF Target(body, received_at).at < received_at THEN Refusal(body.consequence)
             ELSE "DEFER"
  BY Decided
==============================================================================
