------------------------ MODULE ReleaseControllerProofs ------------------------
(***************************************************************************)
(* Theorems about ReleaseController: for any commits, any number of        *)
(* releases, pushes and deploys, and any page.                             *)
(***************************************************************************)
EXTENDS ReleaseController, SequenceTheorems, TLAPS

\* The parts of the inductive invariant.  The variables have their types;
Types ==
    /\ deploys \in Seq(Deploys)
    /\ path \in Paths
    /\ autoDeploy \in BOOLEAN
    /\ pc \in Pcs
    /\ IF pc = "idle" THEN job = Nothing ELSE job \in Jobs
    /\ runs \in 0 .. MaxRuns
    /\ attested \in [1 .. MaxRuns -> Attestations \union {Nothing}]
    /\ returned \subseteq 1 .. runs

\* what the controller holds on to is there;
NamedAreThere ==
    pc # "idle" => {job.previous, job.deploy, job.rollback} \subseteq {0} \union DOMAIN deploys

\* before a live deploy everything is over, so that Render serves one at a time;
LiveEndsOlder ==
    \A i, j \in DOMAIN deploys : i < j /\ IsLive(j) => deploys[i].status = "ended"

\* what is live can be live;
LiveFits == \A i \in DOMAIN deploys : IsLive(i) => Serves(deploys[i].sha, path)

\* no deploy and no attestation is of a release to come, and the present one, of a
\* commit with /live, has not returned;
RunsInOrder ==
    /\ \A i \in DOMAIN deploys : deploys[i].run <= runs
    /\ \A r \in 1 .. MaxRuns : runs < r => attested[r] = Nothing
    /\ pc # "idle" => runs # 0 /\ runs \notin returned /\ job.sha \in Releases

\* once Render's own deploys are off, nothing comes after the controller's;
DeployIsLast ==
    /\ pc \in {"trigger", "wait", "runtime", "setPath", "write"} => ~autoDeploy
    /\ pc \in {"wait", "runtime", "setPath", "write"} => job.deploy = Len(deploys)
    /\ pc \in {"runtime", "setPath", "write"} =>
          IsLive(job.deploy) /\ deploys[job.deploy].sha = job.sha
    /\ pc = "write" => path = "/live"

\* nor after a release that returned, until the next;
ReturnedStands ==
    pc = "idle" /\ runs \in returned =>
        /\ attested[runs].result = "verified"
        /\ attested[runs].deploy = Len(deploys)
        /\ IsLive(Len(deploys))
        /\ deploys[Len(deploys)].sha = attested[runs].sha
        /\ path = "/live"
        /\ ~autoDeploy

\* the controller knows the path it found, and has put it back before it rolls back;
PathIsKnown ==
    pc # "idle" =>
        /\ job.original \in {Nothing, job.service}
        /\ pc \in {"previous", "service"} => job.service = Nothing
        /\ pc \in {"preflight", "disable", "trigger", "wait", "runtime", "setPath"} =>
              job.service = path
        /\ pc \in {"disable", "trigger", "wait", "runtime", "setPath", "write"} =>
              job.original # Nothing
        /\ pc \in {"rollback", "rollbackWait"} /\ PathToRestore /\ ~job.pathStuck =>
              path = job.original

\* the preflight ends with its second success in a row;
StreakIsShort == pc \in {"previous", "service", "preflight"} => job.streak < 2

\* under that path the deploy to go back to was live;
PreviousFits ==
    pc # "idle" /\ job.previous # 0 =>
        Serves(deploys[job.previous].sha, IF job.original = Nothing THEN path ELSE job.original)

\* the rollback is of its commit, and the last this release asks for;
RollbackIsLast ==
    /\ pc = "rollback" => CanRollBack
    /\ pc \in {"rollbackWait", "rollbackHealth"} =>
          /\ job.previous # 0 /\ job.rollback # 0
          /\ deploys[job.rollback].sha = deploys[job.previous].sha
          /\ \A i \in DOMAIN deploys : job.rollback < i => deploys[i].run # runs

\* seen live, it leaves nothing of this release behind, and only then is that attested.
SeenLiveIsAlone ==
    pc # "idle" =>
        /\ job.outcome \in {"unproven", "proven"} =>
              /\ pc \in {"rollbackHealth", "writeFailed"}
              /\ \A i \in DOMAIN deploys :
                    deploys[i].run = runs /\ i # job.rollback => deploys[i].status = "ended"
        /\ pc = "rollbackHealth" => job.outcome = "unproven"
        /\ attested[runs] # Nothing => attested[runs].outcome \notin {"unproven", "proven"}

RInv ==
    /\ Types /\ NamedAreThere /\ LiveEndsOlder /\ LiveFits /\ RunsInOrder
    /\ DeployIsLast /\ ReturnedStands /\ PathIsKnown /\ StreakIsShort
    /\ PreviousFits /\ RollbackIsLast /\ SeenLiveIsAlone /\ RolledBackIsFinal

-------------------------------------------------------------------------------
LEMMA Constants ==
    /\ Releases \subseteq Shas
    /\ Nothing \notin Shas /\ Nothing \notin Paths
    /\ MaxRuns \in Nat
  BY ReleasesAssumption, NothingAssumption, BoundsAssumption

\* A step of the controller that changes nothing but where it is and its locals.
Quiet == UNCHANGED <<deploys, path, autoDeploy, runs, attested, returned>>

LEMMA QuietKeeps ==
    ASSUME RInv, Quiet
    PROVE  LiveEndsOlder' /\ LiveFits' /\ RolledBackIsFinal'
  <1>1. LiveEndsOlder' /\ LiveFits'
    BY DEF RInv, Quiet, LiveEndsOlder, LiveFits, IsLive
  <1>2. RolledBackIsFinal'
    BY DEF RInv, Quiet, RolledBackIsFinal
  <1> QED
    BY <1>1, <1>2

LEMMA DeploysInRow ==
    ASSUME RInv
    PROVE  /\ Len(deploys) \in Nat /\ DOMAIN deploys = 1 .. Len(deploys)
           /\ \A i \in DOMAIN deploys :
                 /\ deploys[i] \in Deploys
                 /\ deploys[i].sha \in Shas /\ deploys[i].run \in Nat
                 /\ deploys[i].status \in {"building", "live", "ended"}
  <1>1. deploys \in Seq(Deploys)
    BY DEF RInv, Types
  <1>2. /\ Len(deploys) \in Nat /\ DOMAIN deploys = 1 .. Len(deploys)
        /\ \A i \in DOMAIN deploys : deploys[i] \in Deploys
    BY <1>1, LenProperties
  <1> QED
    BY <1>2 DEF Deploys

LEMMA QuietTypes ==
    ASSUME RInv, Quiet, pc' \in Pcs \ {"idle"}, job' \in Jobs
    PROVE  Types'
  BY DEF RInv, Quiet, Types

LEMMA JobType ==
    ASSUME RInv, pc # "idle"
    PROVE  job \in Jobs
  BY DEF RInv, Types

\* The controller ends without a word.
LEMMA EndFits ==
    ASSUME RInv, pc # "idle", End, Quiet
    PROVE  RInv'
  <1>1. Types' /\ NamedAreThere'
    BY DEF RInv, Types, Quiet, End, NamedAreThere, Pcs
  <1>2. RunsInOrder' /\ DeployIsLast' /\ ReturnedStands'
    BY DEF RInv, Quiet, End, RunsInOrder, DeployIsLast, ReturnedStands
  <1>3. PathIsKnown' /\ StreakIsShort' /\ PreviousFits' /\ RollbackIsLast' /\ SeenLiveIsAlone'
    BY DEF RInv, Quiet, End, PathIsKnown, StreakIsShort, PreviousFits, RollbackIsLast,
       SeenLiveIsAlone
  <1> QED
    BY <1>1, <1>2, <1>3, QuietKeeps DEF RInv

\* It goes on to the except branch.
LEMMA RestoreNext ==
    ASSUME RInv, pc \in TryPcs \union {"write"}, Goto("restore"), job' = job, Quiet
    PROVE  RInv'
  <1>1. Types' /\ NamedAreThere'
    BY DEF RInv, Types, Quiet, Goto, NamedAreThere, Pcs, TryPcs
  <1>2. RunsInOrder' /\ DeployIsLast' /\ ReturnedStands'
    BY DEF RInv, Quiet, Goto, RunsInOrder, DeployIsLast, ReturnedStands, TryPcs
  <1>3. PathIsKnown' /\ StreakIsShort' /\ PreviousFits'
    BY DEF RInv, Quiet, Goto, PathIsKnown, StreakIsShort, PreviousFits, TryPcs
  <1>4. RollbackIsLast' /\ SeenLiveIsAlone'
    BY DEF RInv, Quiet, Goto, RollbackIsLast, SeenLiveIsAlone, TryPcs
  <1> QED
    BY <1>1, <1>2, <1>3, <1>4, QuietKeeps DEF RInv

-------------------------------------------------------------------------------
\* Whatever path, commit and auto-deploy setting the first release finds, the initial
\* states fit.
THEOREM InitFits == Init => RInv
  <1> SUFFICES ASSUME Init PROVE RInv
    OBVIOUS
  <1> USE Constants
  <1>1. Types
    <2>1. ASSUME NEW sha \in Shas
          PROVE  <<[sha |-> sha, status |-> "live", run |-> 0]>> \in Seq(Deploys)
      BY DEF Deploys
    <2>2. deploys \in Seq(Deploys)
      BY <2>1, EmptySeq DEF Init
    <2> QED
      BY <2>2 DEF Init, Types, Pcs
  <1>2. LiveEndsOlder /\ LiveFits
    BY DEF Init, LiveEndsOlder, LiveFits, IsLive
  <1>3. NamedAreThere /\ RunsInOrder /\ DeployIsLast /\ ReturnedStands
    BY DEF Init, NamedAreThere, RunsInOrder, DeployIsLast, ReturnedStands
  <1>4. /\ PathIsKnown /\ StreakIsShort /\ PreviousFits /\ RollbackIsLast /\ SeenLiveIsAlone
        /\ RolledBackIsFinal
    BY DEF Init, PathIsKnown, StreakIsShort, PreviousFits, RollbackIsLast, SeenLiveIsAlone,
       RolledBackIsFinal
  <1> QED
    BY <1>1, <1>2, <1>3, <1>4 DEF RInv

LEMMA ReadPreviousFits ==
    ASSUME RInv, ReadPrevious
    PROVE  RInv'
  <1>1. Quiet /\ pc = "previous" /\ pc' = "service" /\ job \in Jobs
    BY JobType DEF Quiet, ReadPrevious, Goto
  <1>2. \/ job' = job
        \/ \E i \in Nat, sha \in Shas \union {Nothing} :
              /\ i \in DOMAIN deploys /\ IsLive(i)
              /\ job' = [job EXCEPT !.previous = i, !.previousSha = sha]
    <2>1. CASE job' = job
      BY <2>1
    <2>2. CASE \E i \in DOMAIN deploys : IsLive(i) /\ \E sha \in {deploys[i].sha, Nothing} :
                  job' = [job EXCEPT !.previous = i, !.previousSha = sha]
      <3>1. PICK i \in DOMAIN deploys : IsLive(i) /\ \E sha \in {deploys[i].sha, Nothing} :
                  job' = [job EXCEPT !.previous = i, !.previousSha = sha]
        BY <2>2
      <3>2. i \in Nat /\ deploys[i].sha \in Shas
        BY DeploysInRow
      <3> QED
        BY <3>1, <3>2
    <2> QED
      BY <2>1, <2>2 DEF ReadPrevious
  <1>3. job' \in Jobs
    BY <1>1, <1>2, DeploysInRow DEF Jobs
  <1>4. Types'
    BY <1>1, <1>3, QuietTypes DEF Pcs, TryPcs
  <1>5. NamedAreThere'
    <2>1. DOMAIN deploys' = DOMAIN deploys
      BY <1>1 DEF Quiet
    <2>2. job'.previous \in {0} \union DOMAIN deploys
      BY <1>1, <1>2 DEF RInv, NamedAreThere, Jobs
    <2>3. {job'.deploy, job'.rollback} \subseteq {0} \union DOMAIN deploys
      BY <1>1, <1>2 DEF RInv, NamedAreThere, Jobs
    <2> QED
      BY <2>1, <2>2, <2>3 DEF NamedAreThere
  <1>6. RunsInOrder' /\ DeployIsLast' /\ ReturnedStands'
    BY <1>1, <1>2 DEF RInv, Quiet, RunsInOrder, DeployIsLast, ReturnedStands, Jobs
  <1>7. PathIsKnown' /\ StreakIsShort' /\ PreviousFits'
    BY <1>1, <1>2 DEF RInv, Quiet, PathIsKnown, StreakIsShort, PreviousFits, Jobs, LiveFits
  <1>8. RollbackIsLast' /\ SeenLiveIsAlone'
    BY <1>1, <1>2 DEF RInv, Quiet, RollbackIsLast, SeenLiveIsAlone, Jobs
  <1> QED
    BY <1>1, <1>4, <1>5, <1>6, <1>7, <1>8, QuietKeeps DEF RInv

LEMMA ReadServiceFits ==
    ASSUME RInv, ReadService
    PROVE  RInv'
  <1>1. Quiet /\ pc # "idle" /\ pc' \in Pcs \ {"idle"}
    BY DEF Quiet, ReadService, Goto, Pcs, TryPcs
  <1>2. job' \in Jobs
    BY <1>1, JobType DEF ReadService, Jobs, RInv, Types
  <1>3. Types'
    BY <1>1, <1>2, QuietTypes
  <1>4. NamedAreThere'
    BY JobType, <1>1 DEF RInv, NamedAreThere, Jobs, Quiet, ReadService, Goto
  <1>5. RunsInOrder' /\ DeployIsLast' /\ ReturnedStands'
    BY <1>1, JobType DEF RInv, Quiet, RunsInOrder, DeployIsLast, ReturnedStands, ReadService,
       Goto, Jobs
  <1>6. PathIsKnown' /\ StreakIsShort' /\ PreviousFits'
    BY <1>1, JobType, Constants DEF RInv, Quiet, PathIsKnown, StreakIsShort, PreviousFits,
       ReadService, Goto, Jobs
  <1>7. RollbackIsLast' /\ SeenLiveIsAlone'
    BY <1>1, JobType DEF RInv, Quiet, RollbackIsLast, SeenLiveIsAlone, ReadService, Goto, Jobs
  <1> QED
    BY <1>1, <1>2, <1>3, <1>4, <1>5, <1>6, <1>7, QuietKeeps DEF RInv

LEMMA PreflightFits ==
    ASSUME RInv, NEW healthy \in BOOLEAN, Preflight(healthy)
    PROVE  RInv'
  <1>1. Quiet /\ pc = "preflight" /\ pc' \in {"preflight", "disable", "restore"} /\ job \in Jobs
    BY JobType DEF Quiet, Preflight, Goto
  <1>2. \E tries, streak \in 0 .. 2, original \in {job.original, job.service} :
            /\ job' = [job EXCEPT !.tries = tries, !.streak = streak, !.original = original]
            /\ pc' = "disable" => original = job.service
            /\ pc' = "preflight" => streak < 2
    <2> DEFINE streak == IF healthy THEN job.streak + 1 ELSE 0
               tried == job.tries + 1
               Jobs3(t, s, o) == [job EXCEPT !.tries = t, !.streak = s, !.original = o]
    <2>1. streak \in 0 .. 2 /\ tried \in 1 .. 3
      BY <1>1 DEF Jobs, RInv, StreakIsShort
    <2>2. /\ [job EXCEPT !.tries = tried, !.streak = streak] = Jobs3(tried, streak, job.original)
          /\ [job EXCEPT !.tries = 0, !.streak = 0] = Jobs3(0, 0, job.original)
      BY <1>1 DEF Jobs
    <2>3. \/ job' = Jobs3(0, streak, job.service) /\ pc' # "preflight"
          \/ /\ tried \in 0 .. 2 /\ streak < 2
             /\ job' = Jobs3(tried, streak, job.original) /\ pc' = "preflight"
          \/ job' = Jobs3(0, 0, job.original) /\ pc' = "restore"
      BY <2>1, <2>2 DEF Preflight, MoreTries, Goto
    <2> HIDE DEF streak, tried
    <2>4. CASE job' = Jobs3(0, streak, job.service) /\ pc' # "preflight"
      <3>1. 0 \in 0 .. 2 /\ job.service \in {job.original, job.service}
        OBVIOUS
      <3>2. /\ job' = [job EXCEPT !.tries = 0, !.streak = streak, !.original = job.service]
            /\ (pc' = "disable" => job.service = job.service)
            /\ (pc' = "preflight" => streak < 2)
        BY <2>4
      <3> QED
        BY <2>1, <3>1, <3>2
    <2>5. CASE /\ tried \in 0 .. 2 /\ streak < 2
               /\ job' = Jobs3(tried, streak, job.original) /\ pc' = "preflight"
      BY <2>1, <2>5
    <2>6. CASE job' = Jobs3(0, 0, job.original) /\ pc' = "restore"
      BY <2>6
    <2> QED
      BY <2>3, <2>4, <2>5, <2>6
  <1>3. job' \in Jobs
    BY <1>1, <1>2 DEF Jobs
  <1>4. Types'
    BY <1>1, <1>3, QuietTypes DEF Pcs, TryPcs
  <1>5. NamedAreThere'
    BY <1>1, <1>2 DEF RInv, NamedAreThere, Jobs, Quiet
  <1>6. RunsInOrder' /\ DeployIsLast' /\ ReturnedStands'
    BY <1>1, <1>2 DEF RInv, Quiet, RunsInOrder, DeployIsLast, ReturnedStands, Jobs
  <1>7. PathIsKnown' /\ StreakIsShort' /\ PreviousFits'
    BY <1>1, <1>2, Constants DEF RInv, Types, Quiet, PathIsKnown, StreakIsShort, PreviousFits,
       Jobs
  <1>8. RollbackIsLast' /\ SeenLiveIsAlone'
    BY <1>1, <1>2 DEF RInv, Quiet, RollbackIsLast, SeenLiveIsAlone, Jobs
  <1> QED
    BY <1>1, <1>4, <1>5, <1>6, <1>7, <1>8, QuietKeeps DEF RInv

LEMMA SeeLiveFits ==
    ASSUME RInv, SeeLive
    PROVE  RInv'
  <1>1. Quiet /\ pc # "idle" /\ pc' \in Pcs \ {"idle"}
    BY DEF Quiet, SeeLive, Goto, Pcs, TryPcs
  <1>2. job' \in Jobs
    BY <1>1, JobType DEF SeeLive
  <1>3. Types'
    BY <1>1, <1>2, QuietTypes
  <1>4. NamedAreThere'
    BY JobType, <1>1 DEF RInv, NamedAreThere, Jobs, Quiet, SeeLive, Goto
  <1>5. RunsInOrder' /\ DeployIsLast' /\ ReturnedStands'
    BY <1>1, JobType DEF RInv, Quiet, RunsInOrder, DeployIsLast, ReturnedStands, SeeLive,
       Goto, Jobs, ReportedLive, IsLive
  <1>6. PathIsKnown' /\ StreakIsShort' /\ PreviousFits'
    BY <1>1, JobType, Constants DEF RInv, Quiet, PathIsKnown, StreakIsShort, PreviousFits,
       SeeLive, Goto, Jobs
  <1>7. RollbackIsLast' /\ SeenLiveIsAlone'
    BY <1>1, JobType DEF RInv, Quiet, RollbackIsLast, SeenLiveIsAlone, SeeLive, Goto, Jobs
  <1> QED
    BY <1>1, <1>2, <1>3, <1>4, <1>5, <1>6, <1>7, QuietKeeps DEF RInv

LEMMA ProveRuntimeFits ==
    ASSUME RInv, ProveRuntime
    PROVE  RInv'
  <1>1. Quiet /\ pc # "idle" /\ pc' \in Pcs \ {"idle"}
    BY DEF Quiet, ProveRuntime, Goto, Pcs, TryPcs
  <1>2. job' \in Jobs
    BY <1>1, JobType DEF ProveRuntime
  <1>3. Types'
    BY <1>1, <1>2, QuietTypes
  <1>4. NamedAreThere'
    BY JobType, <1>1 DEF RInv, NamedAreThere, Jobs, Quiet, ProveRuntime, Goto
  <1>5. RunsInOrder' /\ DeployIsLast' /\ ReturnedStands'
    BY <1>1, JobType DEF RInv, Quiet, RunsInOrder, DeployIsLast, ReturnedStands, ProveRuntime,
       Goto, Jobs, IsLive
  <1>6. PathIsKnown' /\ StreakIsShort' /\ PreviousFits'
    BY <1>1, JobType, Constants DEF RInv, Quiet, PathIsKnown, StreakIsShort, PreviousFits,
       ProveRuntime, Goto, Jobs
  <1>7. RollbackIsLast' /\ SeenLiveIsAlone'
    BY <1>1, JobType DEF RInv, Quiet, RollbackIsLast, SeenLiveIsAlone, ProveRuntime, Goto, Jobs
  <1> QED
    BY <1>1, <1>2, <1>3, <1>4, <1>5, <1>6, <1>7, QuietKeeps DEF RInv

LEMMA SeeRollbackLiveFits ==
    ASSUME RInv, SeeRollbackLive
    PROVE  RInv'
  <1>1. Quiet /\ pc # "idle" /\ pc' \in Pcs \ {"idle"}
    BY DEF Quiet, SeeRollbackLive, Goto, Pcs, TryPcs
  <1>2. job' \in Jobs
    BY <1>1, JobType DEF SeeRollbackLive, Jobs, Outcomes
  <1>3. Types'
    BY <1>1, <1>2, QuietTypes
  <1>4. NamedAreThere'
    BY JobType, <1>1 DEF RInv, NamedAreThere, Jobs, Quiet, SeeRollbackLive, Goto
  <1>5. RunsInOrder' /\ DeployIsLast' /\ ReturnedStands'
    BY <1>1, JobType DEF RInv, Quiet, RunsInOrder, DeployIsLast, ReturnedStands,
       SeeRollbackLive, Goto, Jobs
  <1>6. PathIsKnown' /\ StreakIsShort' /\ PreviousFits'
    BY <1>1, JobType, Constants DEF RInv, Quiet, PathIsKnown, StreakIsShort, PreviousFits,
       SeeRollbackLive, Goto, Jobs, PathToRestore
  <1>7. RollbackIsLast' /\ SeenLiveIsAlone'
    BY <1>1, JobType DEF RInv, Quiet, RollbackIsLast, SeenLiveIsAlone, SeeRollbackLive, Goto,
       Jobs, ReportedLive, IsLive, LiveEndsOlder, Types
  <1> QED
    BY <1>1, <1>2, <1>3, <1>4, <1>5, <1>6, <1>7, QuietKeeps DEF RInv

LEMMA RollbackFailsFits ==
    ASSUME RInv, RollbackFails
    PROVE  RInv'
  <1>1. Quiet /\ pc # "idle" /\ pc' \in Pcs \ {"idle"}
    BY DEF Quiet, RollbackFails, Goto, Pcs, TryPcs
  <1>2. job' \in Jobs
    BY <1>1, JobType DEF RollbackFails, Jobs, Outcomes
  <1>3. Types'
    BY <1>1, <1>2, QuietTypes
  <1>4. NamedAreThere'
    BY JobType, <1>1 DEF RInv, NamedAreThere, Jobs, Quiet, RollbackFails, Goto
  <1>5. RunsInOrder' /\ DeployIsLast' /\ ReturnedStands'
    BY <1>1, JobType DEF RInv, Quiet, RunsInOrder, DeployIsLast, ReturnedStands,
       RollbackFails, Goto, Jobs
  <1>6. PathIsKnown' /\ StreakIsShort' /\ PreviousFits'
    BY <1>1, JobType, Constants DEF RInv, Quiet, PathIsKnown, StreakIsShort, PreviousFits,
       RollbackFails, Goto, Jobs, PathToRestore
  <1>7. RollbackIsLast' /\ SeenLiveIsAlone'
    BY <1>1, JobType DEF RInv, Quiet, RollbackIsLast, SeenLiveIsAlone, RollbackFails, Goto, Jobs
  <1> QED
    BY <1>1, <1>2, <1>3, <1>4, <1>5, <1>6, <1>7, QuietKeeps DEF RInv

LEMMA ProveRollbackFits ==
    ASSUME RInv, ProveRollback
    PROVE  RInv'
  <1>1. Quiet /\ pc # "idle" /\ pc' \in Pcs \ {"idle"}
    BY DEF Quiet, ProveRollback, Goto, Pcs, TryPcs
  <1>2. job' \in Jobs
    BY <1>1, JobType DEF ProveRollback, Jobs, Outcomes
  <1>3. Types'
    BY <1>1, <1>2, QuietTypes
  <1>4. NamedAreThere'
    BY JobType, <1>1 DEF RInv, NamedAreThere, Jobs, Quiet, ProveRollback, Goto
  <1>5. RunsInOrder' /\ DeployIsLast' /\ ReturnedStands'
    BY <1>1, JobType DEF RInv, Quiet, RunsInOrder, DeployIsLast, ReturnedStands,
       ProveRollback, Goto, Jobs
  <1>6. PathIsKnown' /\ StreakIsShort' /\ PreviousFits'
    BY <1>1, JobType, Constants DEF RInv, Quiet, PathIsKnown, StreakIsShort, PreviousFits,
       ProveRollback, Goto, Jobs, PathToRestore
  <1>7. RollbackIsLast' /\ SeenLiveIsAlone'
    BY <1>1, JobType DEF RInv, Quiet, RollbackIsLast, SeenLiveIsAlone, ProveRollback, Goto, Jobs
  <1> QED
    BY <1>1, <1>2, <1>3, <1>4, <1>5, <1>6, <1>7, QuietKeeps DEF RInv

-------------------------------------------------------------------------------
LEMMA DispatchFits ==
    ASSUME RInv, NEW sha \in Releases, Dispatch(sha)
    PROVE  RInv'
  <1>1. /\ pc = "idle" /\ pc' = "previous" /\ job' = NewJob(sha) /\ sha \in Shas
        /\ runs' = runs + 1 /\ runs' \in 1 .. MaxRuns /\ runs \in Nat
        /\ UNCHANGED <<deploys, path, autoDeploy, attested, returned>>
    BY Constants DEF Dispatch, Goto, RInv, Types
  <1>2. job' \in Jobs
    BY <1>1 DEF NewJob, Jobs, Outcomes
  <1>3. Types'
    BY <1>1, <1>2 DEF RInv, Types, Pcs
  <1>4. NamedAreThere' /\ LiveEndsOlder' /\ LiveFits'
    BY <1>1 DEF RInv, NamedAreThere, LiveEndsOlder, LiveFits, IsLive, NewJob
  <1>5. RunsInOrder' /\ DeployIsLast' /\ ReturnedStands'
    <2>1. runs' \notin returned' /\ attested[runs'] = Nothing
      BY <1>1 DEF RInv, Types, RunsInOrder
    <2>2. \A i \in DOMAIN deploys : deploys[i].run <= runs'
      BY <1>1, DeploysInRow DEF RInv, RunsInOrder
    <2> QED
      BY <1>1, <2>1, <2>2 DEF RInv, RunsInOrder, DeployIsLast, ReturnedStands, NewJob
  <1>6. PathIsKnown' /\ StreakIsShort' /\ PreviousFits' /\ RollbackIsLast'
    BY <1>1 DEF PathIsKnown, StreakIsShort, PreviousFits, RollbackIsLast, NewJob
  <1>7. attested[runs'] = Nothing
    BY <1>1 DEF RInv, RunsInOrder
  <1>8. SeenLiveIsAlone' /\ RolledBackIsFinal'
    BY <1>1, <1>7 DEF RInv, SeenLiveIsAlone, RolledBackIsFinal, NewJob
  <1> QED
    BY <1>3, <1>4, <1>5, <1>6, <1>8 DEF RInv

LEMMA DisableAutoDeployFits ==
    ASSUME RInv, DisableAutoDeploy
    PROVE  RInv'
  <1>1. /\ pc = "disable" /\ pc' \in {"trigger", "restore"} /\ autoDeploy' = FALSE
        /\ UNCHANGED <<deploys, path, job, runs, attested, returned>>
    BY DEF DisableAutoDeploy, Goto, AutoDeployOff
  <1>2. Types' /\ NamedAreThere'
    BY <1>1 DEF RInv, Types, NamedAreThere, Pcs, TryPcs
  <1>3. LiveEndsOlder' /\ LiveFits' /\ RolledBackIsFinal'
    BY <1>1 DEF RInv, LiveEndsOlder, LiveFits, IsLive, RolledBackIsFinal
  <1>4. RunsInOrder' /\ DeployIsLast' /\ ReturnedStands'
    BY <1>1 DEF RInv, RunsInOrder, DeployIsLast, ReturnedStands
  <1>5. PathIsKnown' /\ StreakIsShort' /\ PreviousFits' /\ RollbackIsLast' /\ SeenLiveIsAlone'
    BY <1>1 DEF RInv, PathIsKnown, StreakIsShort, PreviousFits, RollbackIsLast, SeenLiveIsAlone
  <1> QED
    BY <1>2, <1>3, <1>4, <1>5 DEF RInv

\* The path becomes /live while the one live deploy is of a commit that has it.
LEMMA SetPathFits ==
    ASSUME RInv, SetPath
    PROVE  RInv'
  <1>1. /\ pc = "setPath" /\ pc' \in {"write", "restore"} /\ path' = "/live"
        /\ UNCHANGED <<deploys, autoDeploy, job, runs, attested, returned>>
    BY DEF SetPath, Goto
  <1>2. Types' /\ NamedAreThere'
    BY <1>1 DEF RInv, Types, NamedAreThere, Pcs, TryPcs, Paths
  <1>3. LiveFits'
    <2>1. \A i \in DOMAIN deploys : IsLive(i) => i = Len(deploys)
      BY <1>1, DeploysInRow DEF RInv, LiveEndsOlder, DeployIsLast, IsLive
    <2>2. \A i \in DOMAIN deploys : IsLive(i) => deploys[i].sha \in Releases
      BY <1>1, <2>1 DEF RInv, DeployIsLast, RunsInOrder
    <2> QED
      BY <1>1, <2>2 DEF LiveFits, IsLive, Serves
  <1>4. LiveEndsOlder' /\ RolledBackIsFinal'
    BY <1>1 DEF RInv, LiveEndsOlder, IsLive, RolledBackIsFinal
  <1>5. RunsInOrder' /\ DeployIsLast' /\ ReturnedStands'
    BY <1>1 DEF RInv, RunsInOrder, DeployIsLast, ReturnedStands, IsLive
  <1>6. PathIsKnown' /\ StreakIsShort' /\ PreviousFits'
    BY <1>1 DEF RInv, PathIsKnown, StreakIsShort, PreviousFits
  <1>7. RollbackIsLast' /\ SeenLiveIsAlone'
    BY <1>1 DEF RInv, RollbackIsLast, SeenLiveIsAlone
  <1> QED
    BY <1>2, <1>3, <1>4, <1>5, <1>6, <1>7 DEF RInv

LEMMA RestoreFits ==
    ASSUME RInv, Restore
    PROVE  RInv'
  <1>1. /\ pc = "restore" /\ pc' = AfterRestore /\ job \in Jobs
        /\ pc' \in {"rollback", "writeFailed"}
        /\ UNCHANGED <<deploys, autoDeploy, runs, attested, returned>>
    BY JobType DEF Restore, Goto, AfterRestore
  <1>2. /\ path' = path \/ (PathToRestore /\ path' = job.original)
        /\ job' = job \/ job' = [job EXCEPT !.pathStuck = TRUE]
        /\ PathToRestore /\ ~job'.pathStuck => path' = job.original
    BY <1>1 DEF Restore, Jobs
  <1>3. job' \in Jobs
    BY <1>1, <1>2 DEF Jobs
  <1>4. /\ job'.previous = job.previous /\ job'.previousSha = job.previousSha
        /\ job'.sha = job.sha /\ job'.service = job.service /\ job'.original = job.original
        /\ job'.deploy = job.deploy /\ job'.rollback = job.rollback
        /\ job'.outcome = job.outcome
    BY <1>1, <1>2 DEF Jobs
  <1>5. Types'
    BY <1>1, <1>2, <1>3, Constants DEF RInv, Types, Pcs, Jobs, PathToRestore
  <1>6. NamedAreThere' /\ LiveEndsOlder' /\ RolledBackIsFinal'
    BY <1>1, <1>4 DEF RInv, NamedAreThere, LiveEndsOlder, IsLive, RolledBackIsFinal
  <1>7. LiveFits'
    BY <1>1, <1>2 DEF RInv, LiveFits, IsLive, PathToRestore, Serves
  <1>8. RunsInOrder' /\ DeployIsLast' /\ ReturnedStands'
    BY <1>1, <1>4 DEF RInv, RunsInOrder, DeployIsLast, ReturnedStands
  <1>9. PathIsKnown' /\ StreakIsShort'
    <2>1. PathToRestore' <=> PathToRestore
      BY <1>4 DEF PathToRestore
    <2> QED
      BY <1>1, <1>2, <1>4, <2>1 DEF RInv, PathIsKnown, StreakIsShort
  <1>10. PreviousFits'
    BY <1>1, <1>2, <1>4 DEF RInv, PreviousFits, PathToRestore
  <1>11. RollbackIsLast' /\ SeenLiveIsAlone'
    BY <1>1, <1>4 DEF RInv, RollbackIsLast, SeenLiveIsAlone, AfterRestore, CanRollBack
  <1> QED
    BY <1>5, <1>6, <1>7, <1>8, <1>9, <1>10, <1>11 DEF RInv

-------------------------------------------------------------------------------
\* What the three that attest leave alone.
LEMMA AttestFits ==
    ASSUME RInv, pc # "idle", UNCHANGED <<deploys, path, autoDeploy, runs>>,
           NEW result \in {"verified", "failed"}, Attest(result) \/ UNCHANGED attested
    PROVE  /\ attested' \in [1 .. MaxRuns -> Attestations \union {Nothing}]
           /\ \A r \in 1 .. MaxRuns : r # runs => attested'[r] = attested[r]
           /\ Attest(result) => attested'[runs] =
                 [result |-> result, sha |-> job.sha, deploy |-> job.deploy,
                  rollback |-> job.rollback, outcome |-> job.outcome]
           /\ LiveEndsOlder' /\ LiveFits'
  <1>1. runs \in 1 .. MaxRuns /\ attested \in [1 .. MaxRuns -> Attestations \union {Nothing}]
    BY DEF RInv, Types, RunsInOrder
  <1>2. [result |-> result, sha |-> job.sha, deploy |-> job.deploy,
         rollback |-> job.rollback, outcome |-> job.outcome] \in Attestations
    BY JobType DEF Jobs, Attestations
  <1>3. LiveEndsOlder' /\ LiveFits'
    BY DEF RInv, LiveEndsOlder, LiveFits, IsLive
  <1> QED
    BY <1>1, <1>2, <1>3 DEF Attest

\* A release finally rolled back stays so while the deploys do, but for the one attested.
LEMMA OthersStayFinal ==
    ASSUME RInv, runs \in 1 .. MaxRuns, UNCHANGED <<deploys, runs>>,
           \A r \in 1 .. MaxRuns : r # runs => attested'[r] = attested[r],
           attested'[runs] # Nothing /\ attested'[runs].outcome \in {"unproven", "proven"} =>
               \A i \in DOMAIN deploys :
                   deploys[i].run = runs /\ i # attested'[runs].rollback =>
                       deploys[i].status = "ended"
    PROVE  RolledBackIsFinal'
  <1> SUFFICES ASSUME NEW r \in 1 .. runs, attested'[r] # Nothing,
                      attested'[r].outcome \in {"unproven", "proven"},
                      NEW i \in DOMAIN deploys, deploys[i].run = r, i # attested'[r].rollback
               PROVE  deploys[i].status = "ended"
    BY DEF RolledBackIsFinal
  <1>1. CASE r = runs
    BY <1>1
  <1>2. CASE r # runs
    <2>1. attested'[r] = attested[r]
      BY <1>2, Constants
    <2> QED
      BY <2>1 DEF RInv, RolledBackIsFinal
  <1> QED
    BY <1>1, <1>2

LEMMA ReturnFits ==
    ASSUME RInv, Return
    PROVE  RInv'
  <1>1. /\ pc = "write" /\ pc' = "idle" /\ job' = Nothing /\ Attest("verified")
        /\ returned' = returned \union {runs} /\ runs \in 1 .. MaxRuns
        /\ UNCHANGED <<deploys, path, autoDeploy, runs>>
    BY DEF Return, End, RInv, Types, RunsInOrder
  <1>2. /\ attested' \in [1 .. MaxRuns -> Attestations \union {Nothing}]
        /\ \A r \in 1 .. MaxRuns : r # runs => attested'[r] = attested[r]
        /\ attested'[runs] = [result |-> "verified", sha |-> job.sha, deploy |-> job.deploy,
                              rollback |-> job.rollback, outcome |-> job.outcome]
        /\ LiveEndsOlder' /\ LiveFits'
    BY <1>1, AttestFits
  <1>3. Types'
    BY <1>1, <1>2 DEF RInv, Types, Pcs
  <1>4. RunsInOrder' /\ DeployIsLast'
    BY <1>1, <1>2 DEF RInv, Types, RunsInOrder, DeployIsLast
  <1>5. ReturnedStands'
    BY <1>1, <1>2 DEF RInv, DeployIsLast, ReturnedStands, IsLive
  <1>6. NamedAreThere' /\ PathIsKnown' /\ StreakIsShort' /\ PreviousFits' /\ RollbackIsLast'
    BY <1>1 DEF NamedAreThere, PathIsKnown, StreakIsShort, PreviousFits, RollbackIsLast
  <1>7. attested'[runs].outcome \notin {"unproven", "proven"}
    BY <1>1, <1>2 DEF RInv, SeenLiveIsAlone
  <1>8. SeenLiveIsAlone' /\ RolledBackIsFinal'
    BY <1>1, <1>2, <1>7, OthersStayFinal DEF SeenLiveIsAlone
  <1> QED
    BY <1>2, <1>3, <1>4, <1>5, <1>6, <1>8 DEF RInv

LEMMA ReturnFailsFits ==
    ASSUME RInv, ReturnFails
    PROVE  RInv'
  <1>1. /\ pc = "write" /\ pc' = "restore" /\ runs \in 1 .. MaxRuns
        /\ Attest("verified") \/ UNCHANGED attested
        /\ UNCHANGED <<deploys, path, autoDeploy, job, runs, returned>>
    BY DEF ReturnFails, Goto, RInv, Types, RunsInOrder
  <1>2. /\ attested' \in [1 .. MaxRuns -> Attestations \union {Nothing}]
        /\ \A r \in 1 .. MaxRuns : r # runs => attested'[r] = attested[r]
        /\ \/ attested'[runs] = attested[runs]
           \/ attested'[runs] = [result |-> "verified", sha |-> job.sha, deploy |-> job.deploy,
                                 rollback |-> job.rollback, outcome |-> job.outcome]
        /\ LiveEndsOlder' /\ LiveFits'
    BY <1>1, AttestFits
  <1>3. Types' /\ NamedAreThere'
    BY <1>1, <1>2 DEF RInv, Types, NamedAreThere, Pcs, TryPcs
  <1>4. RunsInOrder' /\ DeployIsLast' /\ ReturnedStands'
    BY <1>1, <1>2 DEF RInv, Types, RunsInOrder, DeployIsLast, ReturnedStands
  <1>5. PathIsKnown' /\ StreakIsShort' /\ PreviousFits' /\ RollbackIsLast'
    BY <1>1 DEF RInv, PathIsKnown, StreakIsShort, PreviousFits, RollbackIsLast
  <1>6. attested'[runs] # Nothing => attested'[runs].outcome \notin {"unproven", "proven"}
    BY <1>1, <1>2 DEF RInv, SeenLiveIsAlone
  <1>7. SeenLiveIsAlone' /\ RolledBackIsFinal'
    BY <1>1, <1>2, <1>6, OthersStayFinal DEF RInv, SeenLiveIsAlone
  <1> QED
    BY <1>2, <1>3, <1>4, <1>5, <1>7 DEF RInv

\* The one step that attests a rollback: nothing of its release is left by then.
LEMMA RaiseFailedFits ==
    ASSUME RInv, RaiseFailed
    PROVE  RInv'
  <1>1. /\ pc = "writeFailed" /\ pc' = "idle" /\ job' = Nothing /\ runs \in 1 .. MaxRuns
        /\ Attest("failed") \/ UNCHANGED attested
        /\ UNCHANGED <<deploys, path, autoDeploy, runs, returned>>
    BY DEF RaiseFailed, End, RInv, Types, RunsInOrder
  <1>2. /\ attested' \in [1 .. MaxRuns -> Attestations \union {Nothing}]
        /\ \A r \in 1 .. MaxRuns : r # runs => attested'[r] = attested[r]
        /\ \/ attested'[runs] = attested[runs]
           \/ attested'[runs] = [result |-> "failed", sha |-> job.sha, deploy |-> job.deploy,
                                 rollback |-> job.rollback, outcome |-> job.outcome]
        /\ LiveEndsOlder' /\ LiveFits'
    BY <1>1, AttestFits
  <1>3. Types' /\ NamedAreThere'
    BY <1>1, <1>2 DEF RInv, Types, NamedAreThere, Pcs
  <1>4. RunsInOrder' /\ DeployIsLast' /\ ReturnedStands'
    BY <1>1, <1>2 DEF RInv, Types, RunsInOrder, DeployIsLast, ReturnedStands
  <1>5. PathIsKnown' /\ StreakIsShort' /\ PreviousFits' /\ RollbackIsLast' /\ SeenLiveIsAlone'
    BY <1>1 DEF PathIsKnown, StreakIsShort, PreviousFits, RollbackIsLast, SeenLiveIsAlone
  <1>6. RolledBackIsFinal'
    BY <1>1, <1>2, OthersStayFinal DEF RInv, SeenLiveIsAlone
  <1> QED
    BY <1>2, <1>3, <1>4, <1>5, <1>6 DEF RInv

-------------------------------------------------------------------------------
\* A deploy is asked for: it is the last, and no other changes.
Grows(sha, run) ==
    /\ deploys' \in Seq(Deploys)
    /\ Len(deploys') = Newest
    /\ DOMAIN deploys' = DOMAIN deploys \union {Newest}
    /\ \A i \in DOMAIN deploys : deploys'[i] = deploys[i] /\ i < Newest
    /\ deploys'[Newest] = [sha |-> sha, status |-> "building", run |-> run]
    /\ Newest \in Nat \ {0} /\ Newest \notin DOMAIN deploys

LEMMA AskedGrows ==
    ASSUME RInv, NEW sha \in Shas, NEW run \in Nat, deploys' = Asked(sha, run)
    PROVE  Grows(sha, run)
  <1> DEFINE d == [sha |-> sha, status |-> "building", run |-> run]
  <1>1. deploys \in Seq(Deploys) /\ d \in Deploys /\ deploys' = Append(deploys, d)
    BY DEF RInv, Types, Deploys, Asked
  <1>2. /\ deploys' \in Seq(Deploys) /\ Len(deploys') = Len(deploys) + 1
        /\ deploys'[Len(deploys) + 1] = d
        /\ \A i \in 1 .. Len(deploys) : deploys'[i] = deploys[i]
    BY <1>1, AppendProperties
  <1>3. DOMAIN deploys' = 1 .. Len(deploys) + 1
    BY <1>2, LenProperties
  <1> QED
    BY <1>2, <1>3, DeploysInRow DEF Newest, Grows

LEMMA GrownKeeps ==
    ASSUME RInv, NEW sha \in Shas, NEW run \in Nat, Grows(sha, run),
           UNCHANGED <<path, runs, attested>>,
           run \in 1 .. runs /\ attested[run] # Nothing =>
               attested[run].outcome \notin {"unproven", "proven"}
    PROVE  LiveEndsOlder' /\ LiveFits' /\ RolledBackIsFinal'
  <1>1. LiveEndsOlder'
    <2> SUFFICES ASSUME NEW i \in DOMAIN deploys', NEW j \in DOMAIN deploys', i < j, IsLive(j)'
                 PROVE  deploys'[i].status = "ended"
      BY DEF LiveEndsOlder
    <2>1. j \in DOMAIN deploys /\ IsLive(j)
      BY DEF IsLive, Grows
    <2>2. i \in DOMAIN deploys
      BY <2>1, DeploysInRow DEF Grows
    <2> QED
      BY <2>1, <2>2 DEF RInv, LiveEndsOlder, Grows
  <1>2. LiveFits'
    BY DEF RInv, LiveFits, IsLive, Grows
  <1>3. RolledBackIsFinal'
    <2> SUFFICES ASSUME NEW r \in 1 .. runs, attested[r] # Nothing,
                        attested[r].outcome \in {"unproven", "proven"},
                        NEW i \in DOMAIN deploys', deploys'[i].run = r, i # attested[r].rollback
                 PROVE  deploys'[i].status = "ended"
      BY DEF RolledBackIsFinal
    <2>1. i # Newest
      BY DEF Grows
    <2> QED
      BY <2>1 DEF RInv, RolledBackIsFinal, Grows
  <1> QED
    BY <1>1, <1>2, <1>3

LEMMA TriggerDeployFits ==
    ASSUME RInv, NEW sha \in Shas, TriggerDeploy(sha)
    PROVE  RInv'
  <1>1. /\ pc = "trigger" /\ pc' \in {"wait", "restore"} /\ job \in Jobs
        /\ runs \in 1 .. MaxRuns /\ Grows(sha, runs)
        /\ UNCHANGED <<path, autoDeploy, runs, attested, returned>>
    BY JobType, AskedGrows DEF TriggerDeploy, Goto, RInv, Types, RunsInOrder
  <1>2. /\ job' = job \/ job' = [job EXCEPT !.deploy = Newest]
        /\ pc' = "wait" => job' = [job EXCEPT !.deploy = Newest]
    BY <1>1 DEF TriggerDeploy, Goto
  <1>3. job' \in Jobs
    BY <1>1, <1>2 DEF Grows, Jobs
  <1>4. Types'
    BY <1>1, <1>3 DEF Grows, RInv, Types, Pcs, TryPcs
  <1>5. NamedAreThere'
    BY <1>1, <1>2 DEF Grows, RInv, NamedAreThere, Jobs
  <1>6. RunsInOrder' /\ DeployIsLast' /\ ReturnedStands'
    BY <1>1, <1>2 DEF Grows, RInv, RunsInOrder, DeployIsLast, ReturnedStands, Jobs
  <1>7. PathIsKnown' /\ StreakIsShort'
    BY <1>1, <1>2 DEF RInv, PathIsKnown, StreakIsShort, Jobs
  <1>8. PreviousFits'
    BY <1>1, <1>2 DEF Grows, RInv, NamedAreThere, PreviousFits, Jobs
  <1>9. RollbackIsLast' /\ SeenLiveIsAlone'
    BY <1>1, <1>2 DEF RInv, RollbackIsLast, SeenLiveIsAlone, Jobs
  <1>10. attested[runs] # Nothing => attested[runs].outcome \notin {"unproven", "proven"}
    BY <1>1 DEF RInv, SeenLiveIsAlone
  <1>11. LiveEndsOlder' /\ LiveFits' /\ RolledBackIsFinal'
    BY <1>1, <1>10, GrownKeeps
  <1> QED
    BY <1>4, <1>5, <1>6, <1>7, <1>8, <1>9, <1>11 DEF RInv

LEMMA RollbackFits ==
    ASSUME RInv, Rollback
    PROVE  RInv'
  <1> DEFINE sha == deploys[job.previous].sha
  <1>1. /\ pc = "rollback" /\ pc' \in {"rollbackWait", "writeFailed"} /\ job \in Jobs
        /\ runs \in 1 .. MaxRuns /\ deploys' = Asked(sha, runs) /\ runs \in Nat
        /\ UNCHANGED <<path, autoDeploy, runs, attested, returned>>
    BY JobType DEF Rollback, Goto, RInv, Types, RunsInOrder
  <1>2. /\ job.previous \in DOMAIN deploys /\ job.previous # 0 /\ sha \in Shas
        /\ Grows(sha, runs)
    BY <1>1, DeploysInRow, AskedGrows DEF RInv, NamedAreThere, RollbackIsLast, CanRollBack
  <1>3. /\ \/ job' = [job EXCEPT !.rollback = Newest]
           \/ job' = [job EXCEPT !.outcome = "requested"]
           \/ job' = [job EXCEPT !.outcome = "failed"]
        /\ pc' = "rollbackWait" => job' = [job EXCEPT !.rollback = Newest]
    BY <1>1 DEF Rollback, Goto
  <1> HIDE DEF sha
  <1>4. job' \in Jobs
    BY <1>1, <1>2, <1>3 DEF Grows, Jobs, Outcomes
  <1>5. Types'
    BY <1>1, <1>2, <1>4 DEF Grows, RInv, Types, Pcs
  <1>6. NamedAreThere'
    BY <1>1, <1>2, <1>3 DEF Grows, RInv, NamedAreThere, Jobs
  <1>7. RunsInOrder' /\ DeployIsLast' /\ ReturnedStands'
    BY <1>1, <1>2, <1>3 DEF Grows, RInv, RunsInOrder, DeployIsLast, ReturnedStands, Jobs
  <1>8. PathIsKnown' /\ StreakIsShort'
    BY <1>1, <1>3 DEF RInv, PathIsKnown, StreakIsShort, PathToRestore, Jobs
  <1>9. PreviousFits'
    BY <1>1, <1>2, <1>3 DEF Grows, RInv, PreviousFits, Jobs
  <1>10. RollbackIsLast'
    BY <1>1, <1>2, <1>3 DEF Grows, RollbackIsLast, Jobs, sha
  <1>11. SeenLiveIsAlone'
    BY <1>1, <1>3 DEF RInv, SeenLiveIsAlone, Jobs
  <1>12. attested[runs] # Nothing => attested[runs].outcome \notin {"unproven", "proven"}
    BY <1>1 DEF RInv, SeenLiveIsAlone
  <1>13. LiveEndsOlder' /\ LiveFits' /\ RolledBackIsFinal'
    BY <1>1, <1>2, <1>12, GrownKeeps
  <1> QED
    BY <1>5, <1>6, <1>7, <1>8, <1>9, <1>10, <1>11, <1>13 DEF RInv

LEMMA PushFits ==
    ASSUME RInv, NEW sha \in Releases, Push(sha)
    PROVE  RInv'
  <1>1. /\ autoDeploy = TRUE /\ Grows(sha, 0) /\ sha \in Shas
        /\ runs \in Nat
        /\ UNCHANGED <<path, autoDeploy, pc, job, runs, attested, returned>>
    BY Constants, AskedGrows DEF Push, RInv, Types
  <1>2. Types' /\ NamedAreThere'
    BY <1>1 DEF Grows, RInv, Types, NamedAreThere
  <1>3. RunsInOrder' /\ DeployIsLast' /\ ReturnedStands'
    BY <1>1 DEF Grows, RInv, RunsInOrder, DeployIsLast, ReturnedStands
  <1>4. PathIsKnown' /\ StreakIsShort' /\ PreviousFits'
    BY <1>1 DEF Grows, RInv, PathIsKnown, StreakIsShort, PreviousFits, NamedAreThere,
                           PathToRestore
  <1>5. RollbackIsLast'
    BY <1>1 DEF Grows, RInv, RollbackIsLast, NamedAreThere, RunsInOrder, CanRollBack
  <1>6. SeenLiveIsAlone'
    BY <1>1 DEF Grows, RInv, SeenLiveIsAlone, RunsInOrder
  <1>7. LiveEndsOlder' /\ LiveFits' /\ RolledBackIsFinal'
    BY <1>1, GrownKeeps
  <1> QED
    BY <1>2, <1>3, <1>4, <1>5, <1>6, <1>7 DEF RInv

-------------------------------------------------------------------------------
\* Render moves a deploy on: none is lost, and what is over stays so.
Moves ==
    /\ deploys' \in Seq(Deploys)
    /\ Len(deploys') = Len(deploys) /\ DOMAIN deploys' = DOMAIN deploys
    /\ \A j \in DOMAIN deploys :
          /\ deploys'[j].sha = deploys[j].sha /\ deploys'[j].run = deploys[j].run
          /\ deploys[j].status = "ended" => deploys'[j].status = "ended"
    /\ UNCHANGED <<path, autoDeploy, pc, job, runs, attested, returned>>

\* Where every deploy but the last must be over, Render has nothing to move.
LEMMA MovesKeep ==
    ASSUME RInv, Moves, LiveEndsOlder', LiveFits',
           IsLive(Len(deploys)) => deploys'[Len(deploys)] = deploys[Len(deploys)]
    PROVE  RInv'
  <1>1. Types' /\ NamedAreThere'
    BY DEF RInv, Types, NamedAreThere, Moves
  <1>2. RunsInOrder'
    BY DEF RInv, RunsInOrder, Moves
  <1>3. DeployIsLast' /\ ReturnedStands'
    BY DEF RInv, DeployIsLast, ReturnedStands, IsLive, Moves
  <1>4. PathIsKnown' /\ StreakIsShort'
    BY DEF RInv, PathIsKnown, StreakIsShort, PathToRestore, Moves
  <1>5. PreviousFits'
    BY DEF RInv, PreviousFits, NamedAreThere, Moves
  <1>6. RollbackIsLast'
    BY DEF RInv, RollbackIsLast, NamedAreThere, CanRollBack, Moves
  <1>7. SeenLiveIsAlone' /\ RolledBackIsFinal'
    BY DEF RInv, SeenLiveIsAlone, RolledBackIsFinal, Moves
  <1> QED
    BY <1>1, <1>2, <1>3, <1>4, <1>5, <1>6, <1>7 DEF RInv

LEMMA GoLiveFits ==
    ASSUME RInv, NEW i \in DOMAIN deploys, GoLive(i)
    PROVE  RInv'
  <1> USE DeploysInRow
  <1>1. Moves
    <2>1. deploys' = [j \in 1 .. Len(deploys) |-> deploys'[j]]
      BY DEF GoLive
    <2>2. \A j \in 1 .. Len(deploys) : deploys'[j] \in Deploys
      BY DEF GoLive, Deploys
    <2>3. deploys' \in Seq(Deploys) /\ Len(deploys') = Len(deploys)
      <3>1. deploys' \in [1 .. Len(deploys) -> Deploys]
        BY <2>1, <2>2
      <3> QED
        BY <3>1, SeqDef, LenProperties
    <2>4. \A j \in DOMAIN deploys :
             /\ deploys'[j].sha = deploys[j].sha /\ deploys'[j].run = deploys[j].run
             /\ deploys[j].status = "ended" => deploys'[j].status = "ended"
      BY DEF GoLive, Deploys, IsLive
    <2> QED
      BY <2>1, <2>3, <2>4 DEF GoLive, Moves
  <1>2. \A j \in DOMAIN deploys : IsLive(j)' <=> j = i
    BY <1>1 DEF GoLive, IsLive, Deploys, Moves
  <1>3. LiveEndsOlder'
    <2> SUFFICES ASSUME NEW j \in DOMAIN deploys, j < i
                 PROVE  deploys'[j].status = "ended"
      BY <1>1, <1>2 DEF LiveEndsOlder, Moves
    <2>1. deploys[j].status # "building" /\ j # i
      BY DEF GoLive
    <2> QED
      BY <2>1 DEF GoLive, IsLive, Deploys
  <1>4. LiveFits'
    BY <1>1, <1>2 DEF LiveFits, GoLive, Moves, Serves
  <1>5. ~IsLive(Len(deploys))
    BY DEF RInv, LiveEndsOlder, GoLive, IsLive
  <1> QED
    BY <1>1, <1>3, <1>4, <1>5, MovesKeep

LEMMA DeployFailsFits ==
    ASSUME RInv, NEW i \in DOMAIN deploys, DeployFails(i)
    PROVE  RInv'
  <1> USE DeploysInRow
  <1>1. /\ deploys[i].status = "building"
        /\ deploys' = [deploys EXCEPT ![i].status = "ended"]
        /\ [deploys[i] EXCEPT !.status = "ended"] \in Deploys
    BY DEF DeployFails, Deploys
  <1>2. Moves
    <2>1. deploys' = [deploys EXCEPT ![i] = [deploys[i] EXCEPT !.status = "ended"]]
      BY <1>1
    <2>2. deploys' \in Seq(Deploys) /\ Len(deploys') = Len(deploys)
      BY <1>1, <2>1, ExceptSeq DEF RInv, Types
    <2>3. \A j \in DOMAIN deploys :
             /\ deploys'[j].sha = deploys[j].sha /\ deploys'[j].run = deploys[j].run
             /\ deploys[j].status = "ended" => deploys'[j].status = "ended"
      BY <1>1 DEF Deploys
    <2> QED
      BY <1>1, <2>2, <2>3 DEF DeployFails, Moves
  <1>3. \A j \in DOMAIN deploys : IsLive(j)' <=> IsLive(j)
    BY <1>1, <1>2 DEF IsLive, Moves, Deploys
  <1>4. LiveEndsOlder' /\ LiveFits'
    BY <1>2, <1>3 DEF RInv, LiveEndsOlder, LiveFits, Moves, Serves
  <1>5. IsLive(Len(deploys)) => deploys'[Len(deploys)] = deploys[Len(deploys)]
    BY <1>1 DEF IsLive
  <1> QED
    BY <1>2, <1>4, <1>5, MovesKeep

-------------------------------------------------------------------------------
\* Whatever the controller and Render do, and wherever the controller dies, the next
\* state fits.
THEOREM StepFits == RInv /\ [Next]_vars => RInv'
  <1> SUFFICES ASSUME RInv, [Next]_vars PROVE RInv'
    OBVIOUS
  <1>1. CASE \E sha \in Releases : Dispatch(sha)
    BY <1>1, DispatchFits
  <1>2. CASE Step
    <2>1. CASE \E healthy \in BOOLEAN : Preflight(healthy)
      BY <2>1, PreflightFits
    <2>2. CASE \E sha \in Shas : TriggerDeploy(sha)
      BY <2>2, TriggerDeployFits
    <2>3. CASE ReadPreviousFails
      BY <2>3, EndFits DEF ReadPreviousFails, Quiet
    <2>4. CASE Raise
      BY <2>4, RestoreNext DEF Raise, MayRaise, Quiet
    <2> QED
      BY <1>2, <2>1, <2>2, <2>3, <2>4, ReadPreviousFits, ReadServiceFits, DisableAutoDeployFits,
         SeeLiveFits, ProveRuntimeFits, SetPathFits, ReturnFits, ReturnFailsFits, RestoreFits,
         RollbackFits, SeeRollbackLiveFits, RollbackFailsFits, ProveRollbackFits,
         RaiseFailedFits DEF Step
  <1>3. CASE Die
    BY <1>3, EndFits DEF Die, Quiet
  <1>4. CASE \E i \in DOMAIN deploys : GoLive(i) \/ DeployFails(i)
    BY <1>4, GoLiveFits, DeployFailsFits
  <1>5. CASE \E sha \in Releases : Push(sha)
    BY <1>5, PushFits
  <1>6. CASE UNCHANGED vars
    <2>1. UNCHANGED <<pc, job>> /\ Quiet
      BY <1>6 DEF vars, Quiet
    <2>2. Types' /\ NamedAreThere' /\ RunsInOrder' /\ DeployIsLast' /\ ReturnedStands'
      BY <2>1 DEF RInv, Types, NamedAreThere, RunsInOrder, DeployIsLast, ReturnedStands, Quiet,
                  IsLive
    <2>3. /\ PathIsKnown' /\ StreakIsShort' /\ PreviousFits' /\ RollbackIsLast'
          /\ SeenLiveIsAlone'
      BY <2>1 DEF RInv, PathIsKnown, StreakIsShort, PreviousFits, RollbackIsLast,
         SeenLiveIsAlone,
                  PathToRestore, CanRollBack, Quiet
    <2> QED
      BY <2>1, <2>2, <2>3, QuietKeeps DEF RInv
  <1> QED
    BY <1>1, <1>2, <1>3, <1>4, <1>5, <1>6 DEF Next

\* So the invariant holds throughout, for any commits, releases, pushes and page.
THEOREM Invariance == Spec => []RInv
  BY InitFits, StepFits, PTL DEF Spec

\* Every variable keeps its type, the deploys release() holds on to exist, and Render
\* never has two live ones.
THEOREM TypeCorrect == Spec => []TypeOK
  <1>1. RInv => TypeOK
    <2> SUFFICES ASSUME RInv PROVE TypeOK
      OBVIOUS
    <2>1. \A i, j \in DOMAIN deploys : IsLive(i) /\ IsLive(j) => i = j
      <3> SUFFICES ASSUME NEW i \in DOMAIN deploys, NEW j \in DOMAIN deploys,
                          IsLive(i), IsLive(j)
                   PROVE  ~(i < j) /\ ~(j < i)
        BY DeploysInRow
      <3> QED
        BY DEF RInv, LiveEndsOlder, IsLive
    <2> QED
      BY <2>1 DEF RInv, Types, NamedAreThere, TypeOK
  <1> QED
    BY <1>1, Invariance, PTL

\* What release() returned as verified is what production serves, under /live, until the
\* next release: its deploy is the last Render was asked for, and Render deploys nothing
\* by itself any more.
THEOREM VerifiedStaysServed == Spec => []VerifiedIsServed
  <1>1. RInv => VerifiedIsServed
    BY DEF RInv, ReturnedStands, VerifiedIsServed
  <1> QED
    BY <1>1, Invariance, PTL

\* Production never runs a commit without /live under that probe; and since the path is
\* put back before the rollback is asked for, the probe lets the rollback's deploy pass.
THEOREM ProbeKeepsFitting == Spec => []ProbeFitsRuntime
  <1>1. RInv => ProbeFitsRuntime
    <2> SUFFICES ASSUME RInv, pc = "rollbackWait", ~job.pathStuck
                 PROVE  Serves(deploys[job.rollback].sha, path)
      BY DEF RInv, LiveFits, ProbeFitsRuntime
    <2>1. /\ deploys[job.rollback].sha = deploys[job.previous].sha
          /\ Serves(deploys[job.previous].sha,
                    IF job.original = Nothing THEN path ELSE job.original)
      BY DEF RInv, RollbackIsLast, PreviousFits
    <2>2. CASE PathToRestore
      BY <2>1, <2>2 DEF RInv, PathIsKnown, PathToRestore
    <2>3. CASE ~PathToRestore
      BY <2>1, <2>3 DEF PathToRestore, Serves
    <2> QED
      BY <2>2, <2>3
  <1> QED
    BY <1>1, Invariance, PTL

\* Once a release attested that its rollback was seen live, everything else it asked
\* Render for is over for good, the deploys whose answers were lost included.
THEOREM RollbackStaysFinal == Spec => []RolledBackIsFinal
  <1>1. RInv => RolledBackIsFinal
    BY DEF RInv
  <1> QED
    BY <1>1, Invariance, PTL
===============================================================================
