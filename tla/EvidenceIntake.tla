--------------------------- MODULE EvidenceIntake ---------------------------
(***************************************************************************)
(* api.py, _process_single_claim up to the fused verdict, for claims that  *)
(* run as tasks of one event loop: solar (solar_oracle.py), weather        *)
(* (reality_anchor.py), device and FAP-Core are observed in this order,    *)
(* and the observations fused.  The tasks share the solar cache, which     *)
(* keeps one NOAA answer for TTL and is filled without a lock.  A step is  *)
(* what runs between two awaits.                                           *)
(***************************************************************************)
EXTENDS EvidenceFusion

CONSTANTS
    Claims,
    Enrolled,       \* the claims with an enrollment_id
    TTL,            \* SOLAR_CACHE_TTL_SECONDS
    Latency,        \* how long httpx waits for NOAA
    SolarScores,    \* what a flux may come to, in hundredths
    CoreScores,     \* what FAP-Core's total_score may be, in hundredths
    MaxTime,        \* bound of the clock
    Nothing         \* None

ASSUME EnrolledAssumption == Enrolled \subseteq Claims
ASSUME TimeAssumption     == TTL \in Nat \ {0} /\ Latency \in Nat /\ MaxTime \in Nat
ASSUME ScoresAssumption   == SolarScores \subseteq 0 .. 100 /\ CoreScores \subseteq 0 .. 100

Time == 0 .. MaxTime

\* The lists NOAA may send: records, one of them unreadable (no object, or no
\* flux a logarithm exists of), or no record at all.
Lists == {"records", "unreadable", "empty"}

Replies == [body : Lists, at : Time]

Entries == [body : Lists, at : Time, expires : Nat]

ASSUME NothingAssumption  == Nothing \notin Replies \union Entries \union Verdicts

VARIABLES
    clock,
    cache,          \* _solar_cache["swpc:full"]
    phase,          \* what each claim waits for
    reply,          \* NOAA's list on its way to a claim
    asked,          \* when a waiting claim asked NOAA
    observations,   \* envelope.observations
    verdict,        \* the fused verdict
    degraded,       \* source_degradation of the local sources
    basis           \* history: the list a claim read, and how old it was

vars == <<clock, cache, phase, reply, asked, observations, verdict, degraded, basis>>

Waiting == {"fetch", "fetched"}

Init ==
    /\ clock = 0
    /\ cache = Nothing
    /\ phase = [c \in Claims |-> "idle"]
    /\ reply = [c \in Claims |-> Nothing]
    /\ asked = [c \in Claims |-> 0]
    /\ observations = [c \in Claims |-> <<>>]
    /\ verdict = [c \in Claims |-> Nothing]
    /\ degraded = [s \in Sources |-> 0]
    /\ basis = [c \in Claims |-> Nothing]

-------------------------------------------------------------------------------
Observation(source, status, confidence) ==
    [source |-> source, status |-> status, confidence |-> confidence]

CountedTwice(seen) ==       \* mutant: the handler and the source both count
    [s \in Sources |-> degraded[s]
        + 2 * Cardinality({i \in DOMAIN seen : seen[i].source = s /\ seen[i].status # "OK"})]

\* record_source_degradation, once for each source that was not OK.
Counted(seen) ==
    [s \in Sources |-> degraded[s]
        + Cardinality({i \in DOMAIN seen : seen[i].source = s /\ seen[i].status # "OK"})]

\* envelope.add_observation for each of seen, and the counters.
Add(c, seen) ==
    /\ observations' = [observations EXCEPT ![c] = @ \o seen]
    /\ degraded' = Counted(seen)

\* The solar observation is made, and the weather asked for.
ObserveSolar(c, status, confidence) ==
    /\ Add(c, <<Observation("solar_temporal", status, confidence)>>)
    /\ phase' = [phase EXCEPT ![c] = "weather"]

\* evaluate_solar_correlation with a list in hand: the record nearest to the
\* claimed time may be there or not.  _find_flux and the logarithm stand outside
\* the try, so that a record they cannot read raises through the handler.
Evaluate(c, body, at) ==
    /\ basis' = [basis EXCEPT ![c] = [body |-> body, age |-> clock - at]]
    /\ \/ ObserveSolar(c, "DEGRADED", 0)
       \/ /\ body # "empty"
          /\ \E s \in SolarScores : ObserveSolar(c, "OK", s)
       \/ /\ body = "unreadable"
          /\ phase' = [phase EXCEPT ![c] = "raised"]
          /\ UNCHANGED <<observations, degraded>>

\* The lookup, or the fetch, raises inside the try.
Unavailable(c) ==
    /\ ObserveSolar(c, "DEGRADED", 0)
    /\ UNCHANGED basis

\* The clock goes on, but no request outlives its timeout.
TimePasses ==
    /\ clock < MaxTime
    /\ \A c \in Claims : phase[c] \in Waiting => clock < asked[c] + Latency
    /\ clock' = clock + 1

FreshForever(e) == e # Nothing        \* mutant: a plain dict

\* TTLCache: an entry is there until it expires.
Fresh(e) == e # Nothing /\ clock < e.expires

-------------------------------------------------------------------------------
\* Hit.
ReadCache(c) ==
    /\ phase[c] = "idle"
    /\ Fresh(cache)
    /\ Evaluate(c, cache.body, cache.at)
    /\ UNCHANGED <<clock, cache, reply, asked, verdict>>

\* The entry expires between `in` and `[]`: KeyError.
LoseCache(c) ==
    /\ phase[c] = "idle"
    /\ Fresh(cache)
    /\ TimePasses
    /\ clock' >= cache.expires
    /\ Unavailable(c)
    /\ UNCHANGED <<cache, reply, asked, verdict>>

\* Miss: NOAA is asked, whoever else may be asking.
AskNoaa(c) ==
    /\ phase[c] = "idle"
    /\ ~Fresh(cache)
    /\ phase' = [phase EXCEPT ![c] = "fetch"]
    /\ asked' = [asked EXCEPT ![c] = clock]
    /\ UNCHANGED <<clock, cache, reply, observations, verdict, degraded, basis>>

NoaaAnswers(c, body) ==
    /\ phase[c] = "fetch"
    /\ reply' = [reply EXCEPT ![c] = [body |-> body, at |-> clock]]
    /\ phase' = [phase EXCEPT ![c] = "fetched"]
    /\ UNCHANGED <<clock, cache, asked, observations, verdict, degraded, basis>>

\* The list arrives and is kept, over any other and whatever is in it.
FetchReturns(c) ==
    /\ phase[c] = "fetched"
    /\ cache' = [body |-> reply[c].body, at |-> reply[c].at, expires |-> clock + TTL]
    /\ reply' = [reply EXCEPT ![c] = Nothing]
    /\ asked' = [asked EXCEPT ![c] = 0]
    /\ Evaluate(c, reply[c].body, reply[c].at)
    /\ UNCHANGED <<clock, verdict>>

\* A timeout, an error status, no JSON, or no list.
FetchFails(c) ==
    /\ phase[c] \in Waiting
    /\ reply' = [reply EXCEPT ![c] = Nothing]
    /\ asked' = [asked EXCEPT ![c] = 0]
    /\ Unavailable(c)
    /\ UNCHANGED <<clock, cache, verdict>>

\* check_weather returns, never raising; the device is looked at next.
ObserveWeather(c, available) ==
    /\ phase[c] = "weather"
    /\ Add(c, <<IF available THEN Observation("weather", "OK", 50)
                ELSE Observation("weather", "DEGRADED", 0),
                IF c \in Enrolled THEN Observation("device", "OK", 85)
                ELSE Observation("device", "DEGRADED", 30)>>)
    /\ phase' = [phase EXCEPT ![c] = "core"]
    /\ UNCHANGED <<clock, cache, reply, asked, verdict, basis>>

\* FAP-Core's score counts when its boundary was validated; without an answer, or
\* with a score that is none, the observation fails.  VerifyClaim has the awaits
\* in it, and FAP-Core's counters.
CoreObservations ==
    {Observation("consensus", status, s) : status \in {"OK", "DEGRADED"}, s \in CoreScores}
        \union {Observation("consensus", "FAILED", 0)}

\* The last observation, and fusion.evaluate over all of them.
Fuse(c, o) ==
    /\ phase[c] = "core"
    /\ observations' = [observations EXCEPT ![c] = Append(@, o)]
    /\ verdict' = [verdict EXCEPT ![c] = Verdict(observations'[c])]
    /\ phase' = [phase EXCEPT ![c] = "fused"]
    /\ UNCHANGED <<clock, cache, reply, asked, degraded, basis>>

Tick ==
    /\ TimePasses
    /\ UNCHANGED <<cache, phase, reply, asked, observations, verdict, degraded, basis>>

Handle(c) ==
    \/ ReadCache(c) \/ LoseCache(c) \/ AskNoaa(c)
    \/ \E body \in Lists : NoaaAnswers(c, body)
    \/ FetchReturns(c) \/ FetchFails(c)
    \/ \E available \in BOOLEAN : ObserveWeather(c, available)
    \/ \E o \in CoreObservations : Fuse(c, o)

Next == (\E c \in Claims : Handle(c)) \/ Tick

Spec == Init /\ [][Next]_vars
-------------------------------------------------------------------------------
(***************************************************************************)
(* Properties                                                              *)
(***************************************************************************)
\* Every variable has its type, and the fused confidence is one.
TypeOK ==
    /\ clock \in Time
    /\ cache \in Entries \union {Nothing}
    /\ phase \in [Claims -> {"idle", "weather", "core", "fused", "raised"} \union Waiting]
    /\ reply \in [Claims -> Replies \union {Nothing}]
    /\ asked \in [Claims -> Time]
    /\ \A c \in Claims : observations[c] \in Seq(Observations)
    /\ \A c \in Claims : Confidence(observations[c]) \in 0 .. Whole(observations[c])
    /\ verdict \in [Claims -> Verdicts \union {Nothing}]
    /\ degraded \in [Sources -> Nat]
    /\ basis \in [Claims -> [body : Lists, age : Time] \union {Nothing}]
    /\ \A c \in Claims : phase[c] = "fetched" <=> reply[c] # Nothing

\* However the fetches of several claims overlap, and in whatever order they
\* arrive, no solar observation (and no failure of one) rests on a list NOAA sent
\* longer ago than the cache's lifetime and one request.
OutcomesAreRecent ==
    \A c \in Claims : basis[c] # Nothing => basis[c].age <= TTL + Latency

\* Had an observation that is not OK been OK, with no confidence at all, the fused
\* confidence would be no lower.
GainsNothing(obs, i) ==
    Confidence([obs EXCEPT ![i].status = "OK", ![i].confidence = 0]) >= Confidence(obs)

\* A source that did not answer well never makes a claim look better.
FailureNeverHelps ==
    \A c \in Claims : phase[c] = "fused" =>
        \A i \in DOMAIN observations[c] :
            observations[c][i].status # "OK" => GainsNothing(observations[c], i)

\* Behind a STRICT verdict no source failed and at most one was not OK, whatever
\* the scores of the others: one perfect witness does not make up for two.
StrictIsCorroborated ==
    \A c \in Claims : verdict[c] = "STRICT" =>
        /\ \A i \in DOMAIN observations[c] : observations[c][i].status # "FAILED"
        /\ Cardinality({i \in DOMAIN observations[c] : observations[c][i].status # "OK"}) <= 1

\* The counters of the local sources say how many claims went without them, the
\* claims that later fail included.
DegradationsAgree ==
    \A s \in Sources \ {"consensus"} :
        degraded[s] = Cardinality({c \in Claims : \E i \in DOMAIN observations[c] :
                         observations[c][i].source = s /\ observations[c][i].status # "OK"})

\* Evaluating the solar source never raises.
SolarNeverRaises == \A c \in Claims : phase[c] # "raised"
==============================================================================
