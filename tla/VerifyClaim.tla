----------------------------- MODULE VerifyClaim -----------------------------
(***************************************************************************)
(* api.py: /verify and /verify/batch on one event loop.                    *)
(*                                                                         *)
(* A task is one HTTP request: a single claim, or a batch worked off in    *)
(* order.  The handler gives way to other tasks only where it awaits an    *)
(* answer (local sources, FAP-Core's /verify, FAP-Core's /auth/check), so  *)
(* a step is what runs between two awaits: from the last answer to the     *)
(* response, decision, counters and ledger included, nothing else runs.    *)
(* FAP-Core is another service that answers late, wrongly or not at all,   *)
(* and is redeployed while claims are in flight.                           *)
(***************************************************************************)
EXTENDS Integers, FiniteSets

CONSTANTS
    Claims, Tasks,
    TaskOf,         \* the request a claim came in
    Position,       \* its place in that request's list
    Commits,        \* the commits FAP-Core may run
    Inputs,         \* the request bodies, as far as they steer the handler
    Replies,        \* the /verify bodies FAP-Core may send
    Nothing         \* None

AllInputs ==
    [media    : BOOLEAN,                        \* media_hash is there
     target   : {"receipt", "past", "later"},   \* downstream_at against the receipt
     changed  : BOOLEAN,                        \* another purpose, scope, rule, ...
     critical : BOOLEAN,                        \* downstream_consequence
     proof    : {"none", "raw", "malformed"}]   \* preservation_proof

AllReplies ==
    [receipt : BOOLEAN,     \* the receipt passes every check but the runtime's
     commit  : Commits,     \* receipt.producer.commit_sha
     score   : BOOLEAN,     \* total_score is a number in [0, 1]
     rest    : BOOLEAN]     \* what the 200 response is built from is well formed

\* What /auth/check says of the FAP-Core that answers.
Identities == [commit : Commits, healthy : BOOLEAN]

Decisions == {"AUTHORIZED", "DEFER", "QUARANTINE", "DENY"}

\* The ledger record names the claim whose context it was serialised from.
AllRecords == [context : Claims, decision : Decisions]

ASSUME TaskOfAssumption   == TaskOf \in [Claims -> Tasks]
ASSUME PositionAssumption == Position \in [Claims -> Nat]
ASSUME InputsAssumption   == Inputs \subseteq AllInputs
ASSUME RepliesAssumption  == Replies \subseteq AllReplies
ASSUME NothingAssumption  ==
    /\ Nothing \notin Claims \union AllReplies \union Identities
    /\ Nothing \notin Decisions \union AllRecords \union Nat

ClaimsOf(t) == {c \in Claims : TaskOf[c] = t}

Before(d, c) == TaskOf[d] = TaskOf[c] /\ Position[d] < Position[c]

\* Every request has a last claim, and places in it are distinct.
ASSUME BatchAssumption ==
    /\ \A t \in Tasks :
          \E c \in ClaimsOf(t) : \A d \in ClaimsOf(t) : d = c \/ Before(d, c)
    /\ \A c, d \in Claims : TaskOf[c] = TaskOf[d] => c = d \/ Before(c, d) \/ Before(d, c)

VARIABLES
    core,           \* the FAP-Core now running: its commit and health
    identityCache,  \* _identity_cache of the shared FapCoreClient
    input,          \* the body of each claim
    phase,          \* what the handler of each claim waits for
    reply,          \* fap_result, from the moment FAP-Core sent it
    identity,       \* the /auth/check body on its way to a claim
    context,        \* dpie_context._current, one value per task
    decision,       \* dpie_result, the decision enforced
    audit,          \* the dpie part of the ledger record
    answer,         \* the status code; for an error in a batch the one /verify gives
    metrics,        \* epm_observability
    reported        \* history: every identity FAP-Core reported

vars == <<core, identityCache, input, phase, reply, identity, context, decision,
          audit, answer, metrics, reported>>

-------------------------------------------------------------------------------
\* The handler is past set_context and before clear_context.
InFlight == {"sources", "core", "verified", "identity", "identified"}

Init ==
    /\ core \in Identities
    /\ identityCache = Nothing
    /\ input \in [Claims -> Inputs]
    /\ phase = [c \in Claims |-> "sent"]
    /\ reply = [c \in Claims |-> Nothing]
    /\ identity = [c \in Claims |-> Nothing]
    /\ context = [t \in Tasks |-> Nothing]
    /\ decision = [c \in Claims |-> Nothing]
    /\ audit = [c \in Claims |-> Nothing]
    /\ answer = [c \in Claims |-> Nothing]
    /\ metrics = [total |-> 0, blocked |-> 0, core |-> 0, trust |-> 0, identity |-> 0]
    /\ reported = {}

-------------------------------------------------------------------------------
\* The transition into the target context is material.
Material(in) == in.changed \/ in.target = "later"

ProofTrusted(in) == in.proof = "raw"      \* mutant: the caller's own word is taken

\* preservation_proof_from_mapping: a raw mapping cannot validate itself.
ProofValidated(in) == FALSE

\* The decision for an unusable transition.
Refusal(in) == IF in.critical THEN "DENY" ELSE "QUARANTINE"

\* assess_request_context: availability first, then the source state the
\* trusted boundary establishes, then the transition.  fail_closed only ever
\* comes with a decision that is not AUTHORIZED.
Assess(in, trusted) ==
    CASE in.target = "past"                    -> Refusal(in)
      [] in.target # "past" /\ ~trusted        -> "DEFER"
      [] OTHER -> IF Material(in) /\ ~ProofValidated(in)
                  THEN Refusal(in) ELSE "AUTHORIZED"

\* Building the envelope raises: evidence_refs of the proof is not iterable.
AssessRaises(in) == in.target # "past" /\ in.proof = "malformed"

AnyHealthy(r, id) == r.receipt /\ id.healthy      \* mutant: the SHA is not compared

\* validate_fap_evidence_receipt, against the runtime identity observed.
Validated(r, id) == r.receipt /\ id.healthy /\ id.commit = r.commit

OneSlot(t, c) == [s \in Tasks |-> c]      \* mutant: a module global, no ContextVar

\* dpie_context._current.set, in the task of the handler.
SetContext(t, c) == [context EXCEPT ![t] = c]

\* envelope.to_audit_payload(): the determination is assessed again, from the
\* task's context and without the trusted boundary.
\* Without a context the record has no determination.
Recorded(t) ==
    IF context[t] = Nothing THEN Nothing
    ELSE [context |-> context[t], decision |-> Assess(input[context[t]], FALSE)]

CountedBack(m, d, connected) ==          \* mutant: an authorization takes a block back
    [m EXCEPT !.total = @ + 1, !.blocked = @ + IF d = "AUTHORIZED" THEN -1 ELSE 1]

\* record_epm_decision on top of the degradations recorded before it.
Counted(m, d, connected) ==
    [m EXCEPT !.total = @ + 1,
              !.blocked = @ + IF d = "AUTHORIZED" THEN 0 ELSE 1,
              !.core = @ + IF connected THEN 0 ELSE 1]

\* The status codes of a claim that has its ledger record.  Without a usable
\* score FAP-Core's body was thrown away, and the response is built without it.
Codes(d, r) ==
    CASE d = "DENY"                   -> {403}
      [] d \in {"DEFER", "QUARANTINE"} -> {409}
      [] OTHER -> IF r.score /\ ~r.rest THEN {400, 500} ELSE {200}

\* The handler is left, by return or by raise, through its finally block.
Leave(c, code) ==
    /\ answer' = [answer EXCEPT ![c] = code]
    /\ context' = SetContext(TaskOf[c], Nothing)
    /\ phase' = [phase EXCEPT ![c] = "done"]

-------------------------------------------------------------------------------
\* The body is validated: the model validator of each claim sets the context,
\* and the last one of the list stays.
Parse(t) ==
    /\ \A c \in ClaimsOf(t) : phase[c] = "sent"
    /\ phase' = [c \in Claims |-> IF TaskOf[c] = t THEN "parsed" ELSE phase[c]]
    /\ \E c \in ClaimsOf(t) :
          /\ \A d \in ClaimsOf(t) : d = c \/ Before(d, c)
          /\ context' = SetContext(t, c)
    /\ UNCHANGED <<core, identityCache, input, reply, identity, decision, audit,
                   answer, metrics, reported>>

MyTurnAfterSuccess(c) ==      \* mutant: the first failure ends the batch
    /\ phase[c] = "parsed"
    /\ \A d \in Claims : Before(d, c) => answer[d] = 200

\* A batch works its claims off one after the other, whatever became of them.
MyTurn(c) == phase[c] = "parsed" /\ \A d \in Claims : Before(d, c) => phase[d] = "done"

\* 422: no media_hash to bind the evidence to.
Reject(c) ==
    /\ MyTurn(c)
    /\ ~input[c].media
    /\ Leave(c, 422)
    /\ UNCHANGED <<core, identityCache, input, reply, identity, decision, audit,
                   metrics, reported>>

\* ingest_fap_authenticated_request raises: the X-Request-ID is blank, or the clock
\* has been set back since the request came.
IngestRaises(c) ==
    /\ MyTurn(c)
    /\ input[c].media
    /\ Leave(c, 400)
    /\ UNCHANGED <<core, identityCache, input, reply, identity, decision, audit,
                   metrics, reported>>

Begin(c) ==
    /\ MyTurn(c)
    /\ input[c].media
    /\ context' = SetContext(TaskOf[c], c)
    /\ phase' = [phase EXCEPT ![c] = "sources"]
    /\ UNCHANGED <<core, identityCache, input, reply, identity, decision, audit,
                   answer, metrics, reported>>

\* Evaluating the solar source raises: EvidenceIntake says when.
SourcesRaise(c) ==
    /\ phase[c] = "sources"
    /\ \E code \in {400, 500} : Leave(c, code)
    /\ UNCHANGED <<core, identityCache, input, reply, identity, decision, audit,
                   metrics, reported>>

\* Solar, weather and device have been observed; /verify is posted.
ObserveLocally(c) ==
    /\ phase[c] = "sources"
    /\ phase' = [phase EXCEPT ![c] = "core"]
    /\ UNCHANGED <<core, identityCache, input, reply, identity, context, decision,
                   audit, answer, metrics, reported>>

\* FAP-Core answers /verify; the answer is on its way.
CoreVerifies(c, r) ==
    /\ phase[c] = "core"
    /\ reply' = [reply EXCEPT ![c] = r]
    /\ phase' = [phase EXCEPT ![c] = "verified"]
    /\ UNCHANGED <<core, identityCache, input, identity, context, decision, audit,
                   answer, metrics, reported>>

-------------------------------------------------------------------------------
\* The status codes if the report or the ledger raises: 400 for a ValueError, as
\* encoding a report is whose verdict, FAP-Core's, has a lone surrogate in it.
LateCodes(c, connected) ==
    {500} \union IF connected /\ reply[c].score THEN {400} ELSE {}

\* From the last answer to the response: the decision is made and counted, the
\* ledger record written, the code chosen.  Assessing, the report or the ledger
\* may raise instead; what raises after the decision leaves it counted and not
\* recorded.
Conclude(c, trusted, connected, m) ==
    LET d == Assess(input[c], trusted) IN
    \/ /\ AssessRaises(input[c])
       /\ metrics' = m
       /\ Leave(c, 500)
       /\ UNCHANGED <<decision, audit>>
    \/ /\ ~AssessRaises(input[c])
       /\ decision' = [decision EXCEPT ![c] = d]
       /\ metrics' = Counted(m, d, connected)
       /\ \/ /\ audit' = [audit EXCEPT ![c] = Recorded(TaskOf[c])]
             /\ \E code \in Codes(d, reply[c]) : Leave(c, code)
          \/ /\ \E code \in LateCodes(c, connected) : Leave(c, code)
             /\ UNCHANGED audit

\* FAP-Core's body and the identity are at hand.  A score that cannot be read
\* raises after the boundary was validated and leaves it in place.
ConcludeWith(c, id) ==
    LET trusted == Validated(reply[c], id) IN
    Conclude(c, trusted, TRUE,
             [metrics EXCEPT !.trust = @ + IF trusted THEN 0 ELSE 1,
                             !.core = @ + IF reply[c].score THEN 0 ELSE 1])

\* The answer of /verify arrives.  A cached identity is used at once.
VerifyReturns(c) ==
    /\ phase[c] = "verified"
    /\ \/ /\ identityCache # Nothing
          /\ ConcludeWith(c, identityCache)
       \/ /\ identityCache = Nothing
          /\ phase' = [phase EXCEPT ![c] = "identity"]
          /\ UNCHANGED <<context, decision, audit, answer, metrics>>
    /\ UNCHANGED <<core, identityCache, input, reply, identity, reported>>

\* /verify fails, times out or sends no object: FapCoreUnavailable.
VerifyFails(c) ==
    /\ phase[c] \in {"core", "verified"}
    /\ reply' = [reply EXCEPT ![c] = Nothing]
    /\ Conclude(c, FALSE, FALSE, [metrics EXCEPT !.core = @ + 1])
    /\ UNCHANGED <<core, identityCache, input, identity, reported>>

\* FAP-Core answers /auth/check; the answer is on its way.
CoreIdentifies(c) ==
    /\ phase[c] = "identity"
    /\ identity' = [identity EXCEPT ![c] = core]
    /\ reported' = reported \union {core}
    /\ phase' = [phase EXCEPT ![c] = "identified"]
    /\ UNCHANGED <<core, identityCache, input, reply, context, decision, audit,
                   answer, metrics>>

\* The identity arrives and is cached, whatever its health.
IdentityReturns(c) ==
    /\ phase[c] = "identified"
    /\ identityCache' = identity[c]
    /\ ConcludeWith(c, identity[c])
    /\ UNCHANGED <<core, input, reply, identity, reported>>

IdentityFails(c) ==
    /\ phase[c] \in {"identity", "identified"}
    /\ Conclude(c, FALSE, TRUE,
                [metrics EXCEPT !.identity = @ + 1,
                                !.core = @ + IF reply[c].score THEN 0 ELSE 1])
    /\ UNCHANGED <<core, identityCache, input, reply, identity, reported>>

-------------------------------------------------------------------------------
\* The cached identity is older than health_success_ttl_seconds.
ExpireIdentity ==
    /\ identityCache # Nothing
    /\ identityCache' = Nothing
    /\ UNCHANGED <<core, input, phase, reply, identity, context, decision, audit,
                   answer, metrics, reported>>

\* Another FAP-Core takes over, or the running one changes health.
Redeploy ==
    /\ core' \in Identities \ {core}
    /\ UNCHANGED <<identityCache, input, phase, reply, identity, context, decision,
                   audit, answer, metrics, reported>>

\* The steps that bring a claim to its answer.
Handle(c) ==
    \/ Parse(TaskOf[c]) \/ Reject(c) \/ IngestRaises(c) \/ Begin(c)
    \/ SourcesRaise(c) \/ ObserveLocally(c)
    \/ \E r \in Replies : CoreVerifies(c, r)
    \/ VerifyReturns(c) \/ VerifyFails(c)
    \/ CoreIdentifies(c) \/ IdentityReturns(c) \/ IdentityFails(c)

Next ==
    \/ \E c \in Claims : Handle(c)
    \/ ExpireIdentity
    \/ Redeploy

Spec == Init /\ [][Next]_vars

\* Requests arrive, tasks run, and httpx gives up on FAP-Core after 30 seconds.
FairSpec == Spec /\ \A c \in Claims : WF_vars(Handle(c))
-------------------------------------------------------------------------------
(***************************************************************************)
(* Properties                                                              *)
(***************************************************************************)
Counters == {"total", "blocked", "core", "trust", "identity"}

\* Every variable has its type, and a claim that waits with FAP-Core's body in
\* hand has that body.
TypeOK ==
    /\ core \in Identities
    /\ identityCache \in Identities \union {Nothing}
    /\ input \in [Claims -> Inputs]
    /\ phase \in [Claims -> {"sent", "parsed", "done"} \union InFlight]
    /\ reply \in [Claims -> Replies \union {Nothing}]
    /\ identity \in [Claims -> Identities \union {Nothing}]
    /\ context \in [Tasks -> Claims \union {Nothing}]
    /\ decision \in [Claims -> Decisions \union {Nothing}]
    /\ audit \in [Claims -> AllRecords \union {Nothing}]
    /\ answer \in [Claims -> {200, 400, 403, 409, 422, 500, Nothing}]
    /\ metrics \in [Counters -> Nat]
    /\ reported \subseteq Identities
    /\ \A c \in Claims :
          /\ phase[c] \in {"verified", "identity", "identified"} => reply[c] # Nothing
          /\ phase[c] = "identified" => identity[c] # Nothing

\* A claim is authorized only for the context it was verified in, and only when
\* FAP-Core sent it a valid receipt of a commit that a healthy FAP-Core itself
\* reported to run: no score, raw proof, cached or late answer replaces one of
\* these.
AuthorizedIsEarned ==
    \A c \in Claims :
        decision[c] = "AUTHORIZED" =>
            /\ input[c].media
            /\ input[c].target = "receipt" /\ ~input[c].changed
            /\ reply[c] # Nothing /\ reply[c].receipt
            /\ [commit |-> reply[c].commit, healthy |-> TRUE] \in reported

\* A claim whose answer is a decision, 200, 403 or 409, was decided and is in the
\* ledger, whatever failed on the way; a claim that failed is answered 400, 422
\* or 500.  And what is in the ledger of any claim is a determination made from its
\* own context, not from that of another claim of the batch or of a request handled
\* in between, and of what was not decided only ever a deferral.
AnswersAreOnRecord ==
    \A c \in Claims :
        /\ answer[c] \in {200, 403, 409} => decision[c] # Nothing /\ audit[c] # Nothing
        /\ audit[c] # Nothing =>
              /\ audit[c].context = c
              /\ audit[c].decision \in {decision[c], "DEFER"}

\* What the ledger records is the decision that was enforced.
EnforcedIsRecorded ==
    \A c \in Claims : audit[c] # Nothing => audit[c].decision = decision[c]

\* A claim counts FAP-Core as degraded at most once.
CoreCountedOnce ==
    metrics.core <= Cardinality({c \in Claims : phase[c] = "done"})

\* Every claim is answered, whatever became of the others in its batch and of
\* FAP-Core.
ClaimsAnswered == \A c \in Claims : <>(answer[c] # Nothing)

-------------------------------------------------------------------------------
(***************************************************************************)
(* The inductive invariant behind AuthorizedIsEarned and                   *)
(* AnswersAreOnRecord.                                                     *)
(***************************************************************************)
\* What is decided, recorded or answered is done, and only that.
OnlyDoneIsDecided ==
    \A c \in Claims :
        phase[c] # "done" => decision[c] = Nothing /\ audit[c] = Nothing /\ answer[c] = Nothing

\* The claims of one request are handled in their order.
InOrder ==
    \A c, d \in Claims :
        Before(d, c) /\ phase[c] \in InFlight \union {"done"} => phase[d] = "done"

\* While a claim is handled its task's context is its own.
ContextIsOwn == \A c \in Claims : phase[c] \in InFlight => context[TaskOf[c]] = c

MediaIsThere == \A c \in Claims : phase[c] \in InFlight => input[c].media

\* An identity that is cached or on its way was reported.
IdentitiesAreReported ==
    /\ identityCache # Nothing => identityCache \in reported
    /\ \A c \in Claims : identity[c] # Nothing => identity[c] \in reported

\* A record is made from the claim's own context.
RecordsAreOwn ==
    \A c \in Claims :
        audit[c] # Nothing =>
            audit[c].context = c /\ audit[c].decision \in {decision[c], "DEFER"}

VInv ==
    /\ TypeOK
    /\ AuthorizedIsEarned
    /\ AnswersAreOnRecord
    /\ OnlyDoneIsDecided
    /\ InOrder
    /\ ContextIsOwn
    /\ MediaIsThere
    /\ IdentitiesAreReported
    /\ RecordsAreOwn
==============================================================================
