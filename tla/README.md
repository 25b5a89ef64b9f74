# FAP-Insurance: specifications, model checking and proofs

FAP-Insurance verifies insurance claims: a FastAPI service takes a claim, observes local
sources, asks the FAP-Core service, decides by EPM rules whether the result may be relied on in
the target context, and writes every decided claim into a hash-chained SQLite ledger. A release
controller brings exact commits into production on Render. These modules state and check what
has to stay right in that when threads, requests, FAP-Core, Render and dying processes interleave.

## The system

| Component | State | Operations | What is hard | What makes it correct |
|---|---|---|---|---|
| audit ledger (`audit.py`) | `audit_records`, `merkle_roots`, one connection per thread, `_chain_lock` | store, five reads, integrity report, Merkle root | lock and SQLite's own lock, failing statements, open transactions, restarts, alteration from outside | one chain without forks, the report names the altered rows, failed stores stay failed |
| claim handlers (`api.py`, `models.py`, `dpie_context.py`, `evidence.py`) | the task's context, the record, the answer | `/verify`, `/verify/batch` | requests interleaved at awaits, batch isolation, partial failure | authorization is earned, an answer that is a decision is on record as its own |
| FAP-Core boundary (`epm_fap_trust.py`, `epm_fap_adapter.py`, `epm_fap_semantics.py`, `dpie_runtime.py`) | none | validate a receipt, assess a transition | which answer is checked against which runtime | no score, raw proof or stale identity authorizes |
| FAP-Core client (`oracles.py`) | identity and health caches, a lock | `verify`, `runtime_identity`, `health` | late answers, expiry, redeployment | a cached identity was reported; failure is observed again |
| observability (`epm_observability.py`) | counters | record, snapshot | double counting | one count per event |
| release controller (`ops/render_release.py`) | Render's deploys and service settings, the attestation | `release()` | lost answers, late deploys, auto-deploy, death between calls | what was attested is served, a rollback wins |
| assurance engine (`dpie_assurance.py`, `dpie_composition.py`, `governor.py`) | none | evaluate, compose, decide | many cases | preservation is never assumed |
| evidence availability (`epm_fap_availability.py`) | none | attest that evidence was here | two modules' checks have to agree | what one attests the other trusts, for this evidence only |
| solar and weather (`solar_oracle.py`, `reality_anchor.py`) | a solar cache shared by all requests | observe | overlapping fetches, expiry, unreadable lists | no outdated list, a failed source is one not heard |
| fusion (`fusion.py`) | none | fused verdict | penalties, thresholds, floats | failure never helps, STRICT has its witnesses |
| reports, configuration, authentication, logging, entry points | constants, files | reads, formatting | - | - |

The handlers call the sources and the client (awaits), the boundary and the assurance engine (plain calls), the
counters (plain calls) and the ledger (plain calls on the event-loop thread). The context travels
from the body's validator to the ledger record through a `ContextVar`. FAP-Core and Render are
other services; the `epm` package is a pinned dependency whose results are modelled from how the
code uses them.

## Modules

| Module | Models |
|---|---|
| `HashChain` | the hash chain and its integrity report as operators on sequences of rows |
| `AuditChain` | the abstract ledger: an append-only chain, acknowledged records come from it |
| `AuditLedger` | `audit.py`, one SQL statement or lock operation per step |
| `MerkleTree` | the tree under a Merkle root, with its odd leaf |
| `VerifyClaim` | `/verify` and `/verify/batch`, one stretch between two awaits per step |
| `EvidenceFusion` | `fusion.py` as operators |
| `EvidenceIntake` | a claim's four observations and their fusion, with the shared solar cache |
| `FapCoreClient` | the client's two caches, its lock and the clock, one stretch between two awaits per step |
| `DpieAssurance` | evaluation, composition, Governor and compatibility entry point as operators |
| `ReceiptTrust` | the request receipt and FAP-Core's receipt, check by check |
| `EpmAdapter` | one claim's assessment, field by field; composes `ReceiptTrust` and `DpieAssurance` |
| `ReleaseController` | `release()`, one call, probe or write per step, and Render |
| `...Proofs` | theorems: of `AuditLedger` (and `MerkleTree`), `VerifyClaim`, `FapCoreClient`, `DpieAssurance`, `ReceiptTrust`, `EpmAdapter`, `ReleaseController`, `EvidenceIntake` (and `EvidenceFusion`) |
| `MC...` | the instances TLC checks |

### The ledger

`rows` are the committed records in id order, `txn[t]` the transaction on the connection of
thread `t`, `writeLock` SQLite's write lock, `chainLock` is `_chain_lock`. `StoreBegin` ..
`StoreReturn` are the statements of `store_verification` in order; `InsertFails` and `CommitFails`
are the statements raising, with what SQLite leaves behind: a failed INSERT may keep the
transaction and its lock, a failed COMMIT in WAL mode rolls back. Every entry point begins with
`_init_db`, whose `executescript` commits an open transaction (`InitDb`); whether that can
commit a record whose store was reported as failed is what `NoLateCommit` is about. `EditRow` is
an UPDATE from outside. `Restart` keeps only what was committed. SHA-256 is idealised as
injective: a hash is the sequence of contents it commits to. In `AuditLedger` a root is the set of
its leaves; that `MerkleTree` tells distinct leaves in order apart is theorem `RootTells`, and the
assumption `RootTellsLeaves` of `MCAuditLedger`, which TLC evaluates for up to five leaves. It would
not hold of a list with a repeated leaf, since an odd last one is paired with itself; the code reads
each record once, and keeps the count beside the root (`RootAndCountTell`). The verdict stands for the hashed columns an edit may alter; `request_id` is not hashed by the code and is kept apart. What
the report cannot see is not claimed: the removal of the newest rows, and changes to the columns no
hash is over (`request_id`, `report_hash`, `report_location`). `EditRow` alters a hashed column.

### Claims

`phase[c]` is the await a handler is at, `context[t]` the context of the request's task. From the
last answer of FAP-Core to the response the code awaits nothing, so decision, counters, ledger
record and status code are one step (`Conclude`); a failure of that stretch is a disjunct of it.
What raises after the decision, in the report or the ledger, leaves it counted and not recorded. It
is answered 500, or 400 for a ValueError (`LateCodes`): a lone surrogate in FAP-Core's verdict
reaches the report, whose encoding at `audit.py:190` raises a UnicodeEncodeError.
A body is reduced to what steers the handler: media hash present, the target time against the
receipt's, whether the target context differs, consequence, and the kind of preservation proof. A
FAP-Core answer is reduced to whether the receipt passes every check but the runtime's, the commit
it names, and whether score and remainder are well formed. `Assess` is evaluated twice, as in the
code: with the validated boundary for the decision, without it for the record.

What may raise before FAP-Core is asked is a step of its own: the clock set back, or a blank
request id, between receipt and ingestion (`IngestRaises`), and a local source (`SourcesRaise`).

Left out: the observations and their degradation counters, which are `EvidenceIntake`'s; latency,
failure and state counters, rate limits, disconnecting clients, and batches of more than ten
claims, which are refused whole. `fail_closed` accompanies only decisions that are not AUTHORIZED.
One server process is modelled for its lifetime.

### Receipts, assessment and assurance

Three modules have no state: they are the functions the handlers decide with, over records whose
fields their headers list. `ReceiptTrust` has `epm_fap_availability.py` (`Admits`, `Availability`),
`epm_fap_trust.py` (`Validate` and its parts) and the standing `epm_fap_semantics.py` gives a
result (`SourceState`); times are integers, the receipt id is a hash taken as injective, and the
window is the code's (at most 300 s old, at most 60 s ahead, 5 s between the two ingress clocks).
The canonical JSON the id is computed over is not modelled. `DpieAssurance` follows
`dpie_assurance.py` case by case. `EpmAdapter` puts a body's `downstream_` fields, its availability
and the boundary together as `api.py`, `dpie_runtime.py` and `epm_fap_adapter.py` do. The `epm`
package that evaluates in production is not part of this repository; it is taken to do what
`dpie_assurance.py` does, but that a proof's `valid` also takes a boundary that validated it,
as the tests here have it. The branch for `evidence_available_at` is reached by old callers only
and left out.

`VerifyClaim` decides by the few cases that steer a handler. That its `Assess` is `EpmAdapter`'s is
the assumption `AssessmentAgrees` of `MCVerifyClaim`, evaluated over every body, with and
without a boundary, whichever field of the context changes, and theorem `AssessmentIsAdapters` for
every body, time and boundary.

### Evidence intake

`phase[c]` is the await a claim is at: NOAA's list, the weather, FAP-Core. `cache` is the one entry
of `_solar_cache`, which has a lifetime and no lock. `in` and `[]` of the cache both read the timer,
so an entry may expire between the two (`LoseCache`), and the `KeyError` is caught as an
unavailable source. A list is cached before anything looks at it, an empty or an unreadable one too
(`FetchReturns`). A list is reduced to whether its records can be read; a readable one may or may
not have a record near the claimed time, an unreadable one may or may not be found out. Two
outcomes in the code do not occur: solar FAILED, as a claimed time that far ahead is refused with
the body, and weather FAILED, as `check_weather` never raises. `degraded` holds the local sources'
counters.

`EvidenceFusion` computes in integers: confidences in hundredths, what n observations come to in
parts of 100^n (`Whole`), a hundredth of which is `Percent`; an empty envelope has no confidence and
is QUARANTINE. So a threshold is met or not, where the code's floats may err in the last digit.
STRICT with FAP-Core's receipt untrusted is possible only for a base confidence of exactly 1. The confidence
the envelope computes for itself as it is filled is overwritten by fusion's. The override for a
discrepancy below the thresholds (`fusion.py:106`) never finds anything to change:
`FusionAssumption` of `MCEvidenceIntake` evaluates it on every envelope of up to four observations,
and `OverrideChangesNothing` proves it of every envelope.

### The client

`pc[p]` is the await a task is at, `queue` the holder of `_health_lock` and the tasks waiting for it
(asyncio grants its locks in order). `LookUpHealth`, `HoldLock` and `KeepHealth` are `health` up to
the lock, from the lock to the request, and from the answer on; a lookup also drops an expired entry,
as `_cached_health` does. `LookUpIdentity` and `KeepIdentity` are `runtime_identity`, which has no
lock and keeps no failure. An answer is FAP-Core's state at the moment it was given, and is kept
together with that moment, so that `AnswersAreRecent` can speak of its age; `Latency` bounds a request
and stands for httpx's timeouts, which bound its phases. The cache is modelled for the one base URL
the service uses, and `health`'s Boolean together with the commit that ran, which the code does not
see. `CoreAnswers`, `CoreChanges` and `Tick` are the world outside. At this commit no
endpoint calls `health` (the tests do): `/health` uses `runtime_identity` (`api.py:515`), and so asks
a FAP-Core that is down once per probe.

### Releases

`job` holds the locals of `release()`; each call to Render is a step that may succeed, fail
without effect (`Raise`, `RollbackFails`) or have its effect and lose its answer. Effects come
before the failure is seen; a request that takes effect after the controller gave up on it is not
modelled. The preflight's three attempts with two consecutive successes are steps of their own.
What the runtime's health says of FAP-Core comes from a cache of its own and is arbitrary.
The `except` branch restores the probe path, requests the rollback, waits, probes and writes; `Die`
ends the controller anywhere, and the next release then meets what it left. Of Render two things
are assumed, both external to the repository: deploys go live in the order they were requested,
one at a time, and only when the runtime answers on the health check path. One controller runs at
a time, which the workflow's concurrency group guarantees; manual deploys are outside the accepted
path (`ops/PRODUCTION_RELEASE.md`).

## What is checked

| Run | Instance | Distinct states | Shows |
|---|---|---|---|
| `audit_threads` | 2 threads, 2 stores, 2 evidence ids, 2 verdicts, 1 root, fair threads | 105,518 | no fork, breaks are exactly the edits, failed stores stay failed, a root taken while the other thread stores covers what it counts, calls return |
| `audit_calls` | 1 thread, 3 stores, 2 under one request id | 88,587 | an acknowledged record is read as it was returned or not at all, roots cover what they count where ids skip a record, reads are gated |
| `verify_single` | 2 requests, 7 bodies, 4 answers, 2 commits | 3,010,652 | authorization is earned |
| `verify_batch` | a batch of 2 and a single claim, 2 bodies, 2 answers, 1 commit, fair | 323,490 | every claim is answered, answers that are decisions (200, 403, 409) are on record, and records are made from their own claim's context |
| `evidence_intake` | 2 claims, one enrolled, one cache of lifetime 2, latency 1, clock to 4 | 420,870 | no observation rests on an outdated list, failure never helps, STRICT is corroborated, counters agree |
| `client_caches` | 2 tasks, lifetimes 1 (success) and 3 (failure), latency 1, clock to 4, fair | 288,460 | no answer outlives its lifetime and a latency, probes are spaced, calls return |
| `release_two` | 2 releases, 3 commits, 1 push, page of 2 deploys | 3,227,918 | what returned as verified is served, rollbacks can land and are final |
| `release_live` | 1 release, fair | 70,322 | a release ends |
| `verify_recorded`, `verify_counted`, `solar_raises`, `release_preflight` | | | violated, see below |

Bounds. Two threads and two stores are enough for a fork, a lost lock or a late commit (each needs
one other thread); they also let a store fall between the leaves a root reads and its commit. A third record is
needed for a root whose ids skip one, and so for the second instance. Symmetry is used over evidence ids, over the two calls of one request, and over the
merges a release may be of, where nothing chooses among them, and never with liveness. Two requests
interleave in every way at their awaits; the batch of two has a claim before and one after each
failure; identities are `verify_single`'s question, so the batch has one commit. Two commits make
every stale or mixed identity. Two tasks give a holder and a waiter of the lock, and two identities arriving out of order; a clock to 4
lets a failure expire and be asked for again; since no commit is told from another by the cache, one
commit and an outage are enough. Two claims miss the solar cache together, are answered out of
order and reuse each other's list; a clock to 4 lets an entry of lifetime 2 expire and be fetched anew. Two solar scores and one of FAP-Core
reach every verdict. Two releases let one meet what the other left behind; a page of two deploys
lets the live one fall off it. `CHECK_DEADLOCK FALSE` is set where the system may stop: with no
release left to dispatch, and with every claim fused and the clock at its bound.

Fairness. A thread inside a call goes on (its statements end or run into the busy timeout). A claim's
handler goes on: the event loop runs ready tasks, and httpx gives up on FAP-Core after
30 seconds, so weak fairness is on the handler, including its failure, and never on FAP-Core. The
same holds of the client's tasks, whose cancellation is not fair. The controller goes on: its calls have a
timeout and its waits a deadline; nothing is assumed of Render.

Disagreements found, each shown by a run of its own:

- `verify_recorded`: `evidence.py:94-98` assesses again without the validated boundary, so the
  ledger says DEFER where the handler enforced AUTHORIZED, QUARANTINE or DENY. The docstring
  (`evidence.py:75`) promises "the EPM determination".
- `verify_counted`: a claim whose `/verify` call failed counts FAP-Core as degraded twice
  (`api.py:376` and `epm_observability.py:54-55`); the counters' own test expects one.
- `solar_raises`: the solar source's docstring says "Never raises" (`solar_oracle.py:99`), but
  reading the list and the logarithm stand outside its `try` (lines 140 and 153). A record that is
  no object, or a nearest one whose flux is no number or a negative one, ends the claim; and since
  the list is cached before it is read, so it does for every claim that comes to that record until the entry expires.
- `release_preflight`: a failing preflight, or any failure before it, still requests a rollback
  deploy (`render_release.py:504-507`), though the preflight is documented to come "before
  production mutation" (`render_release.py:200`).

## What is proved

For every value of the constants allowed by the named assumptions:

| Theorem | States |
|---|---|
| `AuditLedgerProofs!TypeCorrect` | `TypeOK` |
| `AuditLedgerProofs!Invariance` | `IInv`, the inductive invariant |
| `AuditLedgerProofs!BreaksExact` | `BreaksAreEdits` |
| `AuditLedgerProofs!Refinement` | `ImplementsChain` |
| `AuditLedgerProofs!KeptThroughout` | `Kept`: evidence ids and hashes are told apart, acknowledged records and roots are of records |
| `AuditLedgerProofs!AckedStaysReadable` | `AckedReadable` |
| `AuditLedgerProofs!RootsAlwaysCover` | `RootsCover` |
| `AuditLedgerProofs!RootAndCountTell` | a root and its count tell any digests and their order |
| `AuditLedgerProofs!RootTells` | a root alone tells distinct digests and their order, of whatever number |
| `VerifyClaimProofs!VInvariance` | `VInv`, the inductive invariant |
| `VerifyClaimProofs!VTypeCorrect` | `TypeOK` |
| `VerifyClaimProofs!AuthorizationIsEarned` | `AuthorizedIsEarned` |
| `VerifyClaimProofs!AnswersRecorded` | `AnswersAreOnRecord` |
| `VerifyClaimProofs!AssessmentIsAdapters` | the handler's assessment is `EpmAdapter`'s |
| `AuditLedgerProofs!NothingCommittedLate` | `NoLateCommit` |
| `AuditLedgerProofs!ReadsStayGated` | `ReadsAreGated` |
| `FapCoreClientProofs!Invariance` | `CInv`, the inductive invariant |
| `FapCoreClientProofs!TypeCorrect` | `TypeOK`, no waiter for the lock lost or doubled |
| `FapCoreClientProofs!AnswersStayRecent` | `AnswersAreRecent` |
| `FapCoreClientProofs!ProbesStaySpaced` | `ProbesAreSpaced` |
| `DpieAssuranceProofs!GoverningInvariant` | over a material transition, authorized exactly if the source is settled and a valid proof establishes it |
| `DpieAssuranceProofs!ProofsAreBound` | one proof, two transitions: one id, property, rule, version and authority |
| `DpieAssuranceProofs!FailuresAreTrue` | the failure a refusal names is so |
| `DpieAssuranceProofs!ConsequenceNeverAuthorizes` | the consequence turns QUARANTINE into DENY and nothing else |
| `DpieAssuranceProofs!GovernorAgrees` | the Governor decides as the evaluation, but for immaterial transitions from a settled source that is not valid |
| `DpieAssuranceProofs!CompositionNeedsBoth` | a composition needs both parts valid and related |
| `DpieAssuranceProofs!CompatNeverInvents` | the compatibility path infers only from properties that are all valid |
| `DpieAssuranceProofs!DemoIsMisapplied` | the program's demonstration is a denied misapplication |
| `DpieAssuranceProofs!ProofSuffices` | under a rule in effect, a proof can carry any settled source over |
| `ReceiptTrustProofs!IngestedIsTrusted` | ingestion's attestation is trusted, for this evidence only |
| `ReceiptTrustProofs!ValidIsOfThisRequest` | a valid receipt is of this evidence and of this request's time |
| `ReceiptTrustProofs!ReceiptsAreBound` | one receipt id: one evidence, answer, commit and observation |
| `ReceiptTrustProofs!PromptIsTimely`, `SkewIsBounded` | every clock skew in the allowed range lets a prompt answer pass; how far beyond it one may still pass, and how early or old what passes may be |
| `ReceiptTrustProofs!SourceNeedsBoundary` | no source property holds without a boundary for this evidence |
| `EpmAdapterProofs!Decided` | the whole decision about a claim, in closed form |
| `EpmAdapterProofs!AuthorizedIsUnchanged` | authorized exactly if vouched for and used in its source context |
| `EpmAdapterProofs!RecordedWithoutBoundary` | what the ledger keeps is DEFER, but for a use before receipt |
| `ReleaseControllerProofs!Invariance` | `RInv`, the inductive invariant |
| `ReleaseControllerProofs!TypeCorrect` | `TypeOK`, at most one deploy live |
| `ReleaseControllerProofs!VerifiedStaysServed` | `VerifiedIsServed` |
| `ReleaseControllerProofs!ProbeKeepsFitting` | `ProbeFitsRuntime` |
| `ReleaseControllerProofs!RollbackStaysFinal` | `RolledBackIsFinal` |
| `EvidenceIntakeProofs!IntakeInvariant` | `IInv`, the inductive invariant |
| `EvidenceIntakeProofs!TypeCorrect` | `TypeOK` |
| `EvidenceIntakeProofs!OutcomesStayRecent` | `OutcomesAreRecent` |
| `EvidenceIntakeProofs!DegradationsAlwaysAgree` | `DegradationsAgree` |
| `EvidenceIntakeProofs!FailuresNeverHelp` | `FailureNeverHelps` |
| `EvidenceIntakeProofs!StrictStaysCorroborated` | `StrictIsCorroborated` |
| `EvidenceIntakeProofs!ConfidenceIsOne` | the confidence of every envelope, however many its observations, is between 0 and 1 |
| `EvidenceIntakeProofs!NothingGained` | in every envelope, what is not OK gives no more than an OK of no confidence |
| `EvidenceIntakeProofs!StrictNeedsWitnesses` | every STRICT envelope has no failed source and at most one that is not OK |
| `EvidenceIntakeProofs!OverrideChangesNothing` | the override for a discrepancy changes no verdict |

The ledger. That breaks are edits is not inductive: it needs that the hash a thread is about to
insert is over the present head (`HeadIsFresh`), which needs the lock to be exclusive over
read-head, insert and commit (`CriticalIsExclusive`), that the pending row is the one the thread's
locals describe (`PendingIsOwn`), and that edits leave hashes alone (`EditsKeepHashes`). From these
every stored record is linked to the one before (`StoredIsLinked`), so a recomputed hash differs
exactly where the content does, and a commit is a step of `AuditChain`.

While the ledger is not compromised, an acknowledged record is the row its evidence id finds, as
it was returned, and one its request id finds; once compromised, every authoritative read refuses
(`ReadsStayGated`), by design. It holds because breaks are exactly the edits (`BreaksExact`), so
that without a break the row is unaltered, because no two records ever get one evidence id
(`EvidenceIsUnique`: the UNIQUE column is looked at with the write lock, which is kept until the commit), and
edits leave ids alone. A root covers what it counts because the hash of a record commits to as many
contents as there are records up to it (`HashesCountRecords`), so distinct ids have distinct hashes; what
a thread read for its root stays true while it waits for the write lock (`RootsAreOfRecords`), for records
are only added.

Under the root, a level of the tree tells the one below it if both have one length, or if no
digest is repeated: then an odd last pair, the same twice, is like no pair of the other level. Levels
over distinct digests are distinct, since a pair is told by its left half. From one root one can
so go down two trees together; should one be higher, the leaves of the other would be pairs, which
the digest of a record is not.

The handlers. Authorization needs a trusted boundary, which is made from an identity that is cached
or on its way; `IdentitiesAreReported` carries over any expiry, redeployment or late answer that it
was reported. That the record is made from the claim's own context needs `ContextIsOwn`, which other
claims of the same task could break and `InOrder` says they are not in flight; `OnlyDoneIsDecided`
closes the argument. The converse of `AnswersRecorded` is not claimed: a claim decided and counted
may fail before its record and is then answered 400 or 500.

The client. An answer is recent because what is kept expires a lifetime after it arrived and no
request took longer than the latency (`RequestsAreShort`, `KeptIsShort`); a failed identity is never
kept, which is why one lifetime is enough for it. Probes are spaced because the lock's queue is
exactly the tasks at it, in order and each once (`QueueFits`; cancelling may take one out of the
middle), and because health is forgotten only when it has expired (`LastIsKept`).

The assessment. `Decided` reduces `EpmAdapter` to three questions: did the evidence arrive before its
use, is there a boundary for it, is the target the source context. No score, verdict or proof of a
body is among them: a raw proof is never valid (`RawProofs`), so that over a material
transition nothing establishes preservation. The same theorem read without a boundary is
`RecordedWithoutBoundary`, the general form of what `verify_recorded` shows. `ProofSuffices` states
what `dpie_assurance.py` does and a reader may not expect: a valid proof makes even a CHANGED or
INVALIDATED source property PRESERVED.

That a handler may be modelled by a few cases of a body is `AssessmentIsAdapters`: whatever the
fields, the target is the source context exactly if neither its time is later nor another field
differs, and `Decided` asks no more.

Releases. None of the three properties is inductive. Deploys finish in the order they were
requested, so before a live one everything is over (`LiveEndsOlder`); once auto-deploy is off, nothing
comes after the deploy a release requested (`DeployIsLast`), nor until the next release after it
returned (`ReturnedStands`), and after a rollback nothing of its release (`RollbackIsLast`,
`SeenLiveIsAlone`). That is `VerifiedIsServed` and `RolledBackIsFinal`. The probe fits because the
controller knows the path it found (`PathIsKnown`), under which the previous deploy was live
(`PreviousFits`), and puts it back before it rolls back. `RunsInOrder` keeps the
deploys and attestations of a release apart from a later one's.

Evidence. A list is stored in the cache at most a latency after it was given (`ListsAreRecent`, the
argument of the client), so who reads it in its lifetime has a recent outcome, in whatever order
overlapping fetches arrive. A claim observes each source once, in the phase that is the source's own
(`Gathered`), and is counted then (`Tallied`), so the counters are the claims. What fusion promises is
proved of every envelope of any length: the product of doubts is at most the whole, by induction over a
set of numbers (the lemmas `Induction`, which rest on a least member, in place of the library's induction over
a predicate, which no prover here can instantiate). A source that is not OK leaves all doubt in place and
costs; as an OK without confidence it would leave the same doubt and cost nothing. STRICT leaves at most
ten hundredths for penalties, which is one degraded source and no failed one.

Assumptions. Each theorem holds for any sets and numbers that satisfy the assumptions named in its
module: that None is none of the values it stands beside, that the claims of a request have an order,
that bounds are numbers. TLC evaluates every one of them on the instances. `RootTells` also takes it that
the digest of a record is not the digest of a pair, as an injective hash has it: one is over a
JSON object, the other over two digests.

Only model-checked: every liveness property (`CallReturns`, `ClaimsAnswered`, `CallsReturn`,
`ReleaseEnds`), as the proof system has no ENABLED and no fairness reasoning here. RECURSIVE operators
are beyond it too; the modules that are proved about write their two recursions (`Product`,
`Levels`) as functions, and the lemmas that such a function exists come first.

## Not modelled

- Reports (`report_generator.py`, `report_templates.py`): the formatting of one stored record.
- Configuration, authentication and logging: constants read at start, the comparison of a key, the
  text of log lines. The handlers are modelled from the authenticated request on.
- Entry points and facades (`main.py`, `render_app.py`, `pricing.py`, `epm_engine.py`): they start the
  application or re-export names.
- Middleware and rate limits, latency, failure and state counters, `/live`, `/epm/metrics`, `/demo` and
  `/pricing`: they read what is modelled, or constants, and steer nothing.
- `reality_anchor.check_solar` and `cross_validate`: no production path calls them. It also means
  that no claim has a DISCREPANCY; `EvidenceFusion` has it all the same.
- The readings behind an observation (flux to confidence, tolerance of the nearest record): a score
  from a small set.

## Plan

1. An abstract specification of a release (one runtime serves, the promised commit or the previous
   one) and `ReleaseController` shown to implement it.
2. Action properties: what a step of one claim may never do to another's record, what a release may
   never do to an earlier one's attestation.
