---------------------------- MODULE FapCoreClient ----------------------------
(***************************************************************************)
(* oracles.py: FapCoreClient, shared by all tasks of the event loop, and   *)
(* its clock.  health() keeps what it last observed, a success for a short *)
(* and a failure for a longer time, and asks FAP-Core under a lock;        *)
(* runtime_identity() keeps successes only and has no lock.                *)
(*                                                                         *)
(* Of FAP-Core's state health() returns only whether it is Down; the       *)
(* commit it ran is kept with it in the model only.                        *)
(*                                                                         *)
(* A step is what a task does between two awaits.  An answer is FAP-Core's *)
(* state at the moment it is given, and may arrive later; what is kept of  *)
(* it remembers that moment, so that its age can be spoken of.             *)
(***************************************************************************)
EXTENDS Naturals, Sequences, SequencesExt

CONSTANTS
    Tasks,
    Commits,            \* the commits FAP-Core may run
    Down,               \* FAP-Core does not answer, or not with success
    Nothing,            \* None
    SuccessLifetime,    \* health_success_ttl_seconds
    FailureLifetime,    \* health_failure_ttl_seconds
    Latency,            \* the longest a request to FAP-Core takes
    MaxTime             \* bound on the clock

ASSUME DownAssumption    == Down \notin Commits
ASSUME TimeAssumption    ==
    {SuccessLifetime, FailureLifetime, Latency, MaxTime} \subseteq Nat

VARIABLES
    now,            \* time.monotonic()
    core,           \* what FAP-Core is: a commit that runs, or Down
    healthCache,    \* _health_cache
    identityCache,  \* _identity_cache
    queue,          \* _health_lock: its holder and those waiting, in order
    pc,             \* the await each task is at
    asked,          \* when its request was sent, 0 without one
    reply,          \* the answer on its way to it
    result,         \* what its call returned
    validUntil      \* history: the lifetime of the health observed last

vars == <<now, core, healthCache, identityCache, queue, pc, asked, reply, result,
          validUntil>>

-------------------------------------------------------------------------------
Times == 0 .. MaxTime

Observations == [value : Commits \union {Down}, at : Times]
Entries == [value : Commits \union {Down}, at : Times, expires : Nat]

ASSUME NothingAssumption == Nothing \notin Observations \union Entries

InHealth   == {"health", "queued", "asking", "answered"}
InIdentity == {"identity", "idAsking", "idAnswered"}

\* The tasks that have, or wait for, _health_lock.
Locking == {"queued", "asking", "answered"}

\* A request to FAP-Core is under way.
Pending == {"asking", "answered", "idAsking", "idAnswered"}

Init ==
    /\ now = 0
    /\ core \in Commits \union {Down}
    /\ healthCache = Nothing
    /\ identityCache = Nothing
    /\ queue = <<>>
    /\ pc = [p \in Tasks |-> "idle"]
    /\ asked = [p \in Tasks |-> 0]
    /\ reply = [p \in Tasks |-> Nothing]
    /\ result = [p \in Tasks |-> Nothing]
    /\ validUntil = 0

-------------------------------------------------------------------------------
\* A kept answer is used until it expires.
Hit(entry) == entry # Nothing /\ now < entry.expires

Observed(entry) == [value |-> entry.value, at |-> entry.at]

SwappedLifetime(value) ==       \* mutant: the two lifetimes are mixed up
    IF value = Down THEN SuccessLifetime ELSE FailureLifetime

\* How long health keeps what it observed.
Lifetime(value) == IF value = Down THEN FailureLifetime ELSE SuccessLifetime

Kept(observation, lifetime) ==
    [value |-> observation.value, at |-> observation.at, expires |-> now + lifetime]

Goto(p, label) == pc' = [pc EXCEPT ![p] = label]

Return(p, observation) ==
    /\ result' = [result EXCEPT ![p] = observation]
    /\ Goto(p, "idle")

Ask(p, label) ==
    /\ asked' = [asked EXCEPT ![p] = now]
    /\ Goto(p, label)

\* The request of p is over.
Over(p) ==
    /\ asked' = [asked EXCEPT ![p] = 0]
    /\ reply' = [reply EXCEPT ![p] = Nothing]

Call(p, operation) ==
    /\ pc[p] = "idle"
    /\ Goto(p, operation)
    /\ result' = [result EXCEPT ![p] = Nothing]
    /\ UNCHANGED <<now, core, healthCache, identityCache, queue, asked, reply, validUntil>>

\* health up to the lock.
LookUpHealth(p) ==
    /\ pc[p] = "health"
    /\ \/ /\ Hit(healthCache)
          /\ Return(p, Observed(healthCache))
          /\ UNCHANGED <<healthCache, queue>>
       \/ /\ ~Hit(healthCache)
          /\ healthCache' = Nothing
          /\ queue' = Append(queue, p)
          /\ Goto(p, "queued")
          /\ UNCHANGED result
    /\ UNCHANGED <<now, core, identityCache, asked, reply, validUntil>>

NotLookedAgain == FALSE         \* mutant: no second look under the lock

\* Another task has asked while this one waited for the lock.
KeptMeanwhile == Hit(healthCache)

\* The lock is p's: the cache is looked at again, then FAP-Core is asked.
HoldLock(p) ==
    /\ pc[p] = "queued"
    /\ Head(queue) = p
    /\ \/ /\ KeptMeanwhile
          /\ Return(p, Observed(healthCache))
          /\ queue' = Tail(queue)
          /\ UNCHANGED <<healthCache, asked>>
       \/ /\ ~KeptMeanwhile
          /\ healthCache' = Nothing
          /\ Ask(p, "asking")
          /\ UNCHANGED <<queue, result>>
    /\ UNCHANGED <<now, core, identityCache, reply, validUntil>>

\* The answer to health, or its failure, is kept and returned.
KeepHealth(p) ==
    /\ pc[p] = "answered"
    /\ healthCache' = Kept(reply[p], Lifetime(reply[p].value))
    /\ validUntil' = now + Lifetime(reply[p].value)
    /\ Return(p, reply[p])
    /\ queue' = Tail(queue)
    /\ Over(p)
    /\ UNCHANGED <<now, core, identityCache>>

LookUpIdentity(p) ==
    /\ pc[p] = "identity"
    /\ \/ /\ Hit(identityCache)
          /\ Return(p, Observed(identityCache))
          /\ UNCHANGED asked
       \/ /\ ~Hit(identityCache)
          /\ Ask(p, "idAsking")
          /\ UNCHANGED result
    /\ UNCHANGED <<now, core, healthCache, identityCache, queue, reply, validUntil>>

\* An identity is kept, the newest arrival over any other; a failure is not.
KeepIdentity(p) ==
    /\ pc[p] = "idAnswered"
    /\ identityCache' = IF reply[p].value = Down THEN identityCache
                        ELSE Kept(reply[p], SuccessLifetime)
    /\ Return(p, reply[p])
    /\ Over(p)
    /\ UNCHANGED <<now, core, healthCache, queue, validUntil>>

LockKept(p) == queue            \* mutant: the lock is not a with-block

LockPassedOn(p) ==            \* mutant: whoever is cancelled releases, waiters too
    IF \E i \in DOMAIN queue : queue[i] = p THEN Tail(queue) ELSE queue

\* The lock and its waiters once p is out of them.
LockWithout(p) ==
    IF \E i \in DOMAIN queue : queue[i] = p
    THEN RemoveAt(queue, CHOOSE i \in DOMAIN queue : queue[i] = p)
    ELSE queue

\* The task is cancelled at an await; async with gives up the lock.
Cancel(p) ==
    /\ pc[p] \in Locking \union Pending
    /\ queue' = LockWithout(p)
    /\ Over(p)
    /\ Goto(p, "idle")
    /\ UNCHANGED <<now, core, healthCache, identityCache, result, validUntil>>

-------------------------------------------------------------------------------
\* FAP-Core, or whatever fails on the way to it, gives its answer.
CoreAnswers(p) ==
    /\ pc[p] \in {"asking", "idAsking"}
    /\ reply' = [reply EXCEPT ![p] = [value |-> core, at |-> now]]
    /\ Goto(p, IF pc[p] = "asking" THEN "answered" ELSE "idAnswered")
    /\ UNCHANGED <<now, core, healthCache, identityCache, queue, asked, result, validUntil>>

CoreChanges ==
    /\ core' \in (Commits \union {Down}) \ {core}
    /\ UNCHANGED <<now, healthCache, identityCache, queue, pc, asked, reply, result,
                   validUntil>>

Tick ==
    /\ now < MaxTime
    /\ \A p \in Tasks : pc[p] \in Pending => now < asked[p] + Latency
    /\ now' = now + 1
    /\ UNCHANGED <<core, healthCache, identityCache, queue, pc, asked, reply, result,
                   validUntil>>

\* What takes the call of a task further.
Proceed(p) ==
    \/ LookUpHealth(p) \/ HoldLock(p) \/ KeepHealth(p)
    \/ LookUpIdentity(p) \/ KeepIdentity(p)
    \/ CoreAnswers(p)

Next ==
    \/ \E p \in Tasks :
          \/ Proceed(p) \/ Cancel(p)
          \/ \E operation \in {"health", "identity"} : Call(p, operation)
    \/ CoreChanges
    \/ Tick

Spec == Init /\ [][Next]_vars

\* The event loop runs every ready task, and httpx ends every request.
FairSpec == Spec /\ \A p \in Tasks : WF_vars(Proceed(p))
-------------------------------------------------------------------------------
(***************************************************************************)
(* Properties                                                              *)
(***************************************************************************)
\* Every variable has its type, and the lock's queue is the tasks that have or
\* wait for it, each once, the first alone being past the acquisition.
TypeOK ==
    /\ now \in Times
    /\ core \in Commits \union {Down}
    /\ healthCache \in Entries \union {Nothing}
    /\ identityCache \in Entries \union {Nothing}
    /\ queue \in Seq(Tasks)
    /\ pc \in [Tasks -> {"idle"} \union InHealth \union InIdentity]
    /\ asked \in [Tasks -> Times]
    /\ reply \in [Tasks -> Observations \union {Nothing}]
    /\ result \in [Tasks -> Observations \union {Nothing}]
    /\ validUntil \in Nat
    /\ \A p \in Tasks :
          /\ pc[p] \in Locking <=> \E i \in DOMAIN queue : queue[i] = p
          /\ pc[p] \in {"asking", "answered"} => queue[1] = p
          /\ pc[p] \in {"answered", "idAnswered"} <=> reply[p] # Nothing
    /\ \A i, j \in DOMAIN queue : queue[i] = queue[j] => i = j

\* What a call returns was so a bounded time ago: a success, of health or of
\* identity, at most its lifetime and one latency, a failure at most the failure
\* lifetime and one latency.  So no outage is hidden and no recovery missed for
\* longer, however calls, late answers and changes of FAP-Core interleave.
AnswersAreRecent ==
    [][\A p \in Tasks :
         result'[p] # result[p] /\ result'[p] # Nothing =>
            now <= result'[p].at + Latency
                     + IF result'[p].value = Down THEN FailureLifetime
                       ELSE SuccessLifetime]_vars

\* FAP-Core's health is asked for by one task at a time, and not while the
\* observation made last still lives: readiness probes are not amplified.
ProbesAreSpaced ==
    [][\A p \in Tasks :
         pc[p] # "asking" /\ pc'[p] = "asking" =>
            /\ now >= validUntil
            /\ \A q \in Tasks : pc[q] \notin {"asking", "answered"}]_vars

\* Every call returns or is cancelled, whoever holds the lock and whoever is
\* cancelled with it.
CallsReturn == \A p \in Tasks : pc[p] # "idle" ~> pc[p] = "idle"
==============================================================================
