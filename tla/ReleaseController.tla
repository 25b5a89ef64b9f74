--------------------------- MODULE ReleaseController ---------------------------
(***************************************************************************)
(* ops/render_release.py: release() against Render.                        *)
(*                                                                         *)
(* The release workflow runs one controller at a time; a controller may    *)
(* die between any two calls.  A step is one call to Render, one probe or  *)
(* one write.  A call that fails may have had its effect: the answer is    *)
(* lost, the request is not.  Render builds deploys and switches           *)
(* production over on its own, one after the other in the order they were  *)
(* asked for, and only to a runtime that answers on the health check path. *)
(***************************************************************************)
EXTENDS Naturals, Sequences, FiniteSets

CONSTANTS
    Shas,           \* commits
    Releases,       \* those an operator dispatches: they implement /live
    Nothing,        \* None
    PageSize,       \* deploys on the page current_live_deploy reads
    MaxRuns,        \* bound on the releases dispatched
    MaxPushes       \* bound on the deploys Render starts by itself

ASSUME ReleasesAssumption == Releases \subseteq Shas
ASSUME BoundsAssumption   == PageSize \in Nat /\ MaxRuns \in Nat /\ MaxPushes \in Nat

VARIABLES
    deploys,        \* Render's deploys, oldest first
    path,           \* healthCheckPath of the service
    autoDeploy,     \* Render deploys what is pushed to main
    pc,             \* where the controller is
    job,            \* its locals
    runs,           \* the releases dispatched so far
    attested,       \* release-attestation.json of each run
    returned        \* history: the runs whose release() returned

vars == <<deploys, path, autoDeploy, pc, job, runs, attested, returned>>

-------------------------------------------------------------------------------
Paths == {"/health", "/live", "/other"}

ASSUME NothingAssumption  == Nothing \notin Shas \union Paths

Deploys == [sha : Shas, status : {"building", "live", "ended"}, run : Nat]

Outcomes == {"none", "requested", "unproven", "proven", "failed"}

\* The locals of release().  Deploys are named by their place, 0 being None.
Jobs == [sha         : Shas,
         previous    : Nat,                     \* previous_id
         previousSha : Shas \union {Nothing},
         service     : Paths \union {Nothing},  \* healthCheckPath as get_service had it
         original    : Paths \union {Nothing},  \* original_health_path
         tries       : 0 .. 2,                  \* of the preflight, so far
         streak      : 0 .. 2,                  \* its consecutive successes
         deploy      : Nat,                     \* deploy_id
         rollback    : Nat,                     \* rollback_id
         outcome     : Outcomes,                \* rollback_status
         pathStuck   : BOOLEAN]                 \* health_path_restore_error

\* What an attestation says, as far as it is not the same for all of them.
Attestations == [result   : {"verified", "failed"},
                 sha      : Shas,
                 deploy   : Nat,
                 rollback : Nat,
                 outcome  : Outcomes]

\* The states inside the try statement; an exception leads to "restore".
TryPcs == {"service", "preflight", "disable", "trigger", "wait", "runtime", "setPath"}
Pcs == {"idle", "previous", "write", "restore", "rollback", "rollbackWait",
        "rollbackHealth", "writeFailed"} \union TryPcs

NewJob(sha) ==
    [sha |-> sha, previous |-> 0, previousSha |-> Nothing, service |-> Nothing,
     original |-> Nothing, tries |-> 0, streak |-> 0, deploy |-> 0, rollback |-> 0,
     outcome |-> "none", pathStuck |-> FALSE]

IsLive(i) == i \in DOMAIN deploys /\ deploys[i].status = "live"

\* A commit from before /live was there cannot be live under that probe.
Serves(sha, probe) == probe = "/live" => sha \in Releases

Init ==
    /\ path \in Paths
    /\ \/ deploys = <<>>
       \/ \E sha \in Shas :
             /\ Serves(sha, path)
             /\ deploys = <<[sha |-> sha, status |-> "live", run |-> 0]>>
    /\ autoDeploy \in BOOLEAN
    /\ pc = "idle"
    /\ job = Nothing
    /\ runs = 0
    /\ attested = [r \in 1 .. MaxRuns |-> Nothing]
    /\ returned = {}

-------------------------------------------------------------------------------
\* A deploy of the commit is asked for; Render appends it.
Asked(sha, run) == Append(deploys, [sha |-> sha, status |-> "building", run |-> run])

Newest == Len(deploys) + 1

Goto(label) == pc' = label

\* The process ends, and its locals with it.
End == pc' = "idle" /\ job' = Nothing

\* release() is entered, its environment complete.
Dispatch(sha) ==
    /\ pc = "idle"
    /\ runs < MaxRuns
    /\ runs' = runs + 1
    /\ job' = NewJob(sha)
    /\ Goto("previous")
    /\ UNCHANGED <<deploys, path, autoDeploy, attested, returned>>

\* current_live_deploy: the newest live deploy of one page, if there is one.
\* Its commit may be missing.
ReadPrevious ==
    /\ pc = "previous"
    /\ LET page == {i \in DOMAIN deploys : i + PageSize > Len(deploys)} IN
       \/ /\ \A i \in page : ~IsLive(i)
          /\ UNCHANGED job
       \/ \E i \in page :
             /\ IsLive(i)
             /\ \E sha \in {deploys[i].sha, Nothing} :
                   job' = [job EXCEPT !.previous = i, !.previousSha = sha]
    /\ Goto("service")
    /\ UNCHANGED <<deploys, path, autoDeploy, runs, attested, returned>>

\* No page: release() raises before there is anything to attest.
ReadPreviousFails ==
    /\ pc = "previous"
    /\ End
    /\ UNCHANGED <<deploys, path, autoDeploy, runs, attested, returned>>

\* get_service, with the expected branch and repository.
ReadService ==
    /\ pc = "service"
    /\ job' = [job EXCEPT !.service = path]
    /\ Goto("preflight")
    /\ UNCHANGED <<deploys, path, autoDeploy, runs, attested, returned>>

OneTryMore(tried) == tried <= 3     \* mutant: attempts counted from zero

\* The preflight goes on after a failure.
MoreTries(tried) == tried < 3

\* One of three attempts of verify_dependency_preflight; two successes in a row
\* end it, and the health check path is looked at.
Preflight(healthy) ==
    /\ pc = "preflight"
    /\ LET streak == IF healthy THEN job.streak + 1 ELSE 0
           tried  == job.tries + 1
       IN
       \/ /\ streak >= 2
          /\ job' = [job EXCEPT !.tries = 0, !.streak = streak, !.original = job.service]
          /\ Goto(IF job.service \in {"/health", "/live"} THEN "disable" ELSE "restore")
       \/ /\ streak < 2 /\ MoreTries(tried)
          /\ job' = [job EXCEPT !.tries = tried, !.streak = streak]
          /\ Goto("preflight")
       \/ /\ streak < 2 /\ ~MoreTries(tried)
          /\ job' = [job EXCEPT !.tries = 0, !.streak = 0]
          /\ Goto("restore")
    /\ UNCHANGED <<deploys, path, autoDeploy, runs, attested, returned>>

AutoDeployStays == autoDeploy       \* mutant: the webhook is left in place

\* autoDeploy once the PATCH of disable_autodeploy has had its effect.
AutoDeployOff == FALSE

\* disable_autodeploy, answered or its answer lost.
DisableAutoDeploy ==
    /\ pc = "disable"
    /\ autoDeploy' = AutoDeployOff
    /\ Goto("trigger") \/ Goto("restore")
    /\ UNCHANGED <<deploys, path, job, runs, attested, returned>>

\* trigger_deploy.  Render may take another commit than the one asked for, and
\* names the commit in its answer or leaves it out.
TriggerDeploy(sha) ==
    /\ pc = "trigger"
    /\ deploys' = Asked(sha, runs)
    /\ \/ /\ job' = [job EXCEPT !.deploy = Newest]
          /\ Goto("wait") \/ (sha # job.sha /\ Goto("restore"))
       \/ UNCHANGED job /\ Goto("restore")
    /\ UNCHANGED <<path, autoDeploy, runs, attested, returned>>

NotFailed(i) == i \in DOMAIN deploys /\ deploys[i].status # "ended"   \* mutant

\* What wait_for_live takes for success.
ReportedLive(i) == IsLive(i)

SeeLive ==
    /\ pc = "wait"
    /\ ReportedLive(job.deploy)
    /\ deploys[job.deploy].sha = job.sha
    /\ Goto("runtime")
    /\ UNCHANGED <<deploys, path, autoDeploy, job, runs, attested, returned>>

\* The runtime that answers at the health URL runs this commit.
Answers(sha) == \E i \in DOMAIN deploys : IsLive(i) /\ deploys[i].sha = sha

\* verify_runtime_health: one probe in which everything matches.  What the
\* runtime says of FAP-Core comes from its own cache, and may be anything.
ProveRuntime ==
    /\ pc = "runtime"
    /\ Answers(job.sha)
    /\ Goto("setPath")
    /\ UNCHANGED <<deploys, path, autoDeploy, job, runs, attested, returned>>

\* set_health_check_path("/live"): answered with the path it established, or
\* its answer lost.
SetPath ==
    /\ pc = "setPath"
    /\ path' = "/live"
    /\ Goto("write") \/ Goto("restore")
    /\ UNCHANGED <<deploys, autoDeploy, job, runs, attested, returned>>

Attest(result) ==
    attested' = [attested EXCEPT ![runs] =
        [result |-> result, sha |-> job.sha, deploy |-> job.deploy,
         rollback |-> job.rollback, outcome |-> job.outcome]]

\* write_attestation of a verified release, and the return.
Return ==
    /\ pc = "write"
    /\ Attest("verified")
    /\ returned' = returned \union {runs}
    /\ End
    /\ UNCHANGED <<deploys, path, autoDeploy, runs>>

\* It raises, the file written (the job summary is not) or not.
ReturnFails ==
    /\ pc = "write"
    /\ Attest("verified") \/ UNCHANGED attested
    /\ Goto("restore")
    /\ UNCHANGED <<deploys, path, autoDeploy, job, runs, returned>>

TriesButWait == TryPcs \ {"wait"}       \* mutant: wait_for_live has no deadline

\* Where an exception may come up: a refused or failed call, a wrong branch,
\* repository, path or commit, a failed deploy, a deadline.
MayRaise == TryPcs

Raise ==
    /\ pc \in MayRaise
    /\ Goto("restore")
    /\ UNCHANGED <<deploys, path, autoDeploy, job, runs, attested, returned>>

-------------------------------------------------------------------------------
NeverRestored == FALSE          \* mutant

\* The path may have been changed by this release.
PathToRestore == job.original # Nothing /\ job.original # "/live"

\* There is another, known commit to go back to.
CanRollBack ==
    job.previous # 0 /\ job.previousSha # Nothing /\ job.previousSha # job.sha

AfterRestore == IF CanRollBack THEN "rollback" ELSE "writeFailed"

\* The except branch: the path first; a failed PATCH is noted and passed over.
Restore ==
    /\ pc = "restore"
    /\ \/ PathToRestore /\ path' = job.original /\ UNCHANGED job
       \/ /\ PathToRestore
          /\ path' \in {path, job.original}
          /\ job' = [job EXCEPT !.pathStuck = TRUE]
       \/ ~PathToRestore /\ UNCHANGED <<path, job>>
    /\ Goto(AfterRestore)
    /\ UNCHANGED <<deploys, autoDeploy, runs, attested, returned>>

\* The rollback's deploy is followed, is not named by Render, or the answer is
\* lost.
Rollback ==
    /\ pc = "rollback"
    /\ deploys' = Asked(deploys[job.previous].sha, runs)
    /\ \/ job' = [job EXCEPT !.rollback = Newest] /\ Goto("rollbackWait")
       \/ job' = [job EXCEPT !.outcome = "requested"] /\ Goto("writeFailed")
       \/ job' = [job EXCEPT !.outcome = "failed"] /\ Goto("writeFailed")
    /\ UNCHANGED <<path, autoDeploy, runs, attested, returned>>

SeeRollbackLive ==
    /\ pc = "rollbackWait"
    /\ ReportedLive(job.rollback)
    /\ job' = [job EXCEPT !.outcome = "unproven"]
    /\ Goto("rollbackHealth")
    /\ UNCHANGED <<deploys, path, autoDeploy, runs, attested, returned>>

\* The rollback is refused, its deploy fails, or the wait is over.
RollbackFails ==
    /\ pc \in {"rollback", "rollbackWait"}
    /\ job' = [job EXCEPT !.outcome = "failed"]
    /\ Goto("writeFailed")
    /\ UNCHANGED <<deploys, path, autoDeploy, runs, attested, returned>>

\* verify_rollback_health, proved or not.
ProveRollback ==
    /\ pc = "rollbackHealth"
    /\ \/ Answers(job.previousSha) /\ job' = [job EXCEPT !.outcome = "proven"]
       \/ UNCHANGED job
    /\ Goto("writeFailed")
    /\ UNCHANGED <<deploys, path, autoDeploy, runs, attested, returned>>

\* write_attestation of a failed release, itself failing or not, and the raise.
RaiseFailed ==
    /\ pc = "writeFailed"
    /\ Attest("failed") \/ UNCHANGED attested
    /\ End
    /\ UNCHANGED <<deploys, path, autoDeploy, runs, returned>>

\* The job is cancelled or its runner lost.
Die ==
    /\ pc # "idle"
    /\ End
    /\ UNCHANGED <<deploys, path, autoDeploy, runs, attested, returned>>

-------------------------------------------------------------------------------
\* Production is switched to the oldest deploy being built, if its runtime
\* answers on the health check path.
GoLive(i) ==
    /\ deploys[i].status = "building"
    /\ Serves(deploys[i].sha, path)
    /\ \A j \in 1 .. i - 1 : deploys[j].status # "building"
    /\ deploys' = [j \in DOMAIN deploys |->
           IF j = i THEN [deploys[j] EXCEPT !.status = "live"]
           ELSE IF IsLive(j) THEN [deploys[j] EXCEPT !.status = "ended"]
           ELSE deploys[j]]
    /\ UNCHANGED <<path, autoDeploy, pc, job, runs, attested, returned>>

\* The build, the start or the health check fails, or the deploy is cancelled.
DeployFails(i) ==
    /\ deploys[i].status = "building"
    /\ deploys' = [deploys EXCEPT ![i].status = "ended"]
    /\ UNCHANGED <<path, autoDeploy, pc, job, runs, attested, returned>>

\* Main moves while Render deploys by itself.
Push(sha) ==
    /\ autoDeploy
    /\ Cardinality({i \in DOMAIN deploys : deploys[i].run = 0}) <= MaxPushes
    /\ deploys' = Asked(sha, 0)
    /\ UNCHANGED <<path, autoDeploy, pc, job, runs, attested, returned>>

\* What the controller does once it runs.
Step ==
    \/ ReadPrevious \/ ReadPreviousFails \/ ReadService
    \/ \E healthy \in BOOLEAN : Preflight(healthy)
    \/ DisableAutoDeploy
    \/ \E sha \in Shas : TriggerDeploy(sha)
    \/ SeeLive \/ ProveRuntime \/ SetPath \/ Return \/ ReturnFails \/ Raise
    \/ Restore \/ Rollback \/ SeeRollbackLive \/ RollbackFails \/ ProveRollback
    \/ RaiseFailed

Next ==
    \/ \E sha \in Releases : Dispatch(sha)
    \/ Step
    \/ Die
    \/ \E i \in DOMAIN deploys : GoLive(i) \/ DeployFails(i)
    \/ \E sha \in Releases : Push(sha)

Spec == Init /\ [][Next]_vars

\* The controller runs on: its calls time out after 30 seconds, its waits after
\* 2, 5 or 15 minutes.  Nothing is assumed of Render.
FairSpec == Spec /\ WF_vars(Step)
-------------------------------------------------------------------------------
(***************************************************************************)
(* Properties                                                              *)
(***************************************************************************)
\* Every variable has its type, deploys are named by their place, and at most
\* one of them is live.
TypeOK ==
    /\ deploys \in Seq(Deploys)
    /\ path \in Paths
    /\ autoDeploy \in BOOLEAN
    /\ pc \in Pcs
    /\ IF pc = "idle" THEN job = Nothing ELSE job \in Jobs
    /\ runs \in 0 .. MaxRuns
    /\ attested \in [1 .. MaxRuns -> Attestations \union {Nothing}]
    /\ returned \subseteq 1 .. runs
    /\ pc # "idle" =>
          {job.previous, job.deploy, job.rollback} \subseteq {0} \union DOMAIN deploys
    /\ \A i, j \in DOMAIN deploys : IsLive(i) /\ IsLive(j) => i = j

\* After a release returned as verified and until the next is dispatched, the
\* deploy it attested is what production serves: nothing that was queued at
\* Render before it, pushed during it or left behind by a controller that died
\* replaces it, and the probe is /live.
VerifiedIsServed ==
    pc = "idle" /\ runs \in returned =>
        /\ attested[runs].result = "verified"
        /\ IsLive(attested[runs].deploy)
        /\ deploys[attested[runs].deploy].sha = attested[runs].sha
        /\ path = "/live"

\* Production never runs a commit that has no /live under the /live probe, and
\* the deploy of a rollback is never kept from going live by that probe unless
\* restoring the path failed.
ProbeFitsRuntime ==
    /\ \A i \in DOMAIN deploys : IsLive(i) => Serves(deploys[i].sha, path)
    /\ pc = "rollbackWait" /\ ~job.pathStuck =>
          Serves(deploys[job.rollback].sha, path)

\* Once a failed release saw its rollback live, no deploy it caused, followed or
\* lost, can reach production any more.
RolledBackIsFinal ==
    \A r \in 1 .. runs :
        attested[r] # Nothing /\ attested[r].outcome \in {"unproven", "proven"} =>
            \A i \in DOMAIN deploys :
                deploys[i].run = r /\ i # attested[r].rollback =>
                    deploys[i].status = "ended"

\* A release asks Render for no deploy before its preflight has passed.
PreflightFirst ==
    pc # "idle" =>
        \A i \in DOMAIN deploys : deploys[i].run = runs => job.streak >= 2

\* A release that was begun ends, whatever Render does or fails to do.
ReleaseEnds == pc # "idle" ~> pc = "idle"
==============================================================================
