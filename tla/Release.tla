------------------------------- MODULE Release -------------------------------
(***************************************************************************)
(* The workflows that build the two images and deploy them.  A run of      *)
(* build-and-stage.yml pushes both images under the tag of its commit,     *)
(* uploads a manifest that names tags and digests, and deploys to stage;   *)
(* deploy-production.yml deploys the manifest of a run somebody chooses.   *)
(*                                                                         *)
(* A run can be run again: another attempt builds the same commit anew.    *)
(* An image is named by the attempt that built it, as its digest would.    *)
(* The registry and the hosts are modelled as the workflows use them.      *)
(***************************************************************************)
EXTENDS Naturals

CONSTANTS
  Runs,          \* the runs of build-and-stage.yml
  CommitOf,      \* the commit of each
  None,          \* nothing deployed, pulled or pushed
  RunAgain,      \* bound: the runs that are run again
  MaxAttempts,   \* bound: the attempts of these
  MaxFaults      \* bound: the jobs that fail

Images == {"orders-api", "payments"}
Environments == {"stage", "production"}
Commits == {CommitOf[r] : r \in Runs}
Builds == [run : Runs, attempt : 1..MaxAttempts]
Deployments == [run : Runs, images : [Images -> Builds]]

ASSUME ReleaseAssumption ==
  /\ MaxAttempts \in Nat /\ MaxFaults \in Nat
  /\ None \notin Runs \union Builds \union Deployments

VARIABLES
  job,        \* where the build job of each run is
  attempt,    \* which attempt it is, 0 before the first
  registry,   \* the build behind each tag of each image
  manifest,   \* the attempt whose manifest is the run's artifact, 0 for none
  deploying,  \* the run being deployed to each environment
  pulled,     \* the images that deployment has pulled
  running,    \* the run and the images each environment runs
  faults      \* how many jobs have failed

buildVars == <<job, attempt, registry, manifest>>
deployVars == <<deploying, pulled, running>>
vars == <<buildVars, deployVars, faults>>

NothingPulled == [i \in Images |-> None]

\* Every variable has its type.
TypeOK ==
  /\ job \in [Runs -> {"idle", "orders-api", "payments", "manifest", "done", "failed"}]
  /\ attempt \in [Runs -> 0..MaxAttempts]
  /\ registry \in [Images -> [Commits -> Builds \union {None}]]
  /\ manifest \in [Runs -> 0..MaxAttempts]
  /\ deploying \in [Environments -> Runs \union {None}]
  /\ pulled \in [Environments -> [Images -> Builds \union {None}]]
  /\ running \in [Environments -> Deployments \union {None}]
  /\ faults \in 0..MaxFaults

Init ==
  /\ job = [r \in Runs |-> "idle"]
  /\ attempt = [r \in Runs |-> 0]
  /\ registry = [i \in Images |-> [c \in Commits |-> None]]
  /\ manifest = [r \in Runs |-> 0]
  /\ deploying = [e \in Environments |-> None]
  /\ pulled = [e \in Environments |-> NothingPulled]
  /\ running = [e \in Environments |-> None]
  /\ faults = 0
-----------------------------------------------------------------------------
\* (mutant) Every build is pushed as the latest one.
LatestTag(r) == CHOOSE c \in Commits : TRUE

\* IMAGE_TAG: sha-${{ github.sha }}.
TagOf(r) == CommitOf[r]

\* A push to develop starts a run; afterwards somebody may run it again.  Runs do not wait
\* for each other: the workflow names no concurrency group.
StartBuild(r) ==
  /\ job[r] \in {"idle", "done", "failed"}
  /\ attempt[r] < MaxAttempts /\ (attempt[r] > 0 => r \in RunAgain)
  /\ deploying["stage"] # r
  /\ attempt' = [attempt EXCEPT ![r] = @ + 1]
  /\ job' = [job EXCEPT ![r] = "orders-api"]
  /\ UNCHANGED <<registry, manifest, deployVars, faults>>

\* docker/build-push-action moves the tag to what it has just built, first orders-api's, then
\* payments'.
PushImage(r, i) ==
  /\ job[r] = i
  /\ registry' = [registry EXCEPT ![i][TagOf(r)] = [run |-> r, attempt |-> attempt[r]]]
  /\ job' = [job EXCEPT ![r] = IF i = "orders-api" THEN "payments" ELSE "manifest"]
  /\ UNCHANGED <<attempt, manifest, deployVars, faults>>

UploadManifest(r) ==
  /\ job[r] = "manifest"
  /\ manifest' = [manifest EXCEPT ![r] = attempt[r]]
  /\ job' = [job EXCEPT ![r] = "done"]
  /\ UNCHANGED <<attempt, registry, deployVars, faults>>

\* A step fails, and the steps after it are skipped; what was pushed stays.
BuildFails(r) ==
  /\ job[r] \in Images \union {"manifest"} /\ faults < MaxFaults
  /\ job' = [job EXCEPT ![r] = "failed"]
  /\ faults' = faults + 1
  /\ UNCHANGED <<attempt, registry, manifest, deployVars>>
-----------------------------------------------------------------------------
\* The stage job needs the build job of its run; production needs a manifest (test -f).  A
\* host deploys one thing at a time: stage has one runner, production a concurrency group.
BeginDeploy(e, r) ==
  /\ deploying[e] = None
  /\ manifest[r] # 0
  /\ e = "stage" => job[r] = "done"
  /\ deploying' = [deploying EXCEPT ![e] = r]
  /\ UNCHANGED <<buildVars, pulled, running, faults>>

\* docker-compose pull: each image by the tag in the manifest.  The digest is only printed.
Pull(e, i) ==
  /\ deploying[e] # None
  /\ pulled[e][i] = None
  /\ pulled' = [pulled EXCEPT ![e][i] = registry[i][TagOf(deploying[e])]]
  /\ UNCHANGED <<buildVars, deploying, running, faults>>

\* docker-compose down, once everything is pulled ...
Down(e) ==
  /\ deploying[e] # None
  /\ \A i \in Images : pulled[e][i] # None
  /\ running[e] # None
  /\ running' = [running EXCEPT ![e] = None]
  /\ UNCHANGED <<buildVars, deploying, pulled, faults>>

\* What up starts is what the environment runs from then on.
Started(e, images) ==
  /\ running' = [running EXCEPT ![e] = [run |-> deploying[e], images |-> images]]
  /\ deploying' = [deploying EXCEPT ![e] = None]
  /\ pulled' = [pulled EXCEPT ![e] = NothingPulled]

\* (mutant) Production takes the payments image of its own manifest and stage's orders-api.
UpStagesOrders(e) ==
  /\ deploying[e] # None
  /\ \A i \in Images : pulled[e][i] # None
  /\ running[e] = None
  /\ Started(e, [pulled[e] EXCEPT !["orders-api"] =
                   IF running["stage"] = None THEN @ ELSE running["stage"].images["orders-api"]])
  /\ UNCHANGED <<buildVars, faults>>

\* ... and docker-compose up.
Up(e) ==
  /\ deploying[e] # None
  /\ \A i \in Images : pulled[e][i] # None
  /\ running[e] = None
  /\ Started(e, pulled[e])
  /\ UNCHANGED <<buildVars, faults>>

\* A step of the deployment fails; nothing brings back what was taken down.
DeployFails(e) ==
  /\ deploying[e] # None /\ faults < MaxFaults
  /\ deploying' = [deploying EXCEPT ![e] = None]
  /\ pulled' = [pulled EXCEPT ![e] = NothingPulled]
  /\ faults' = faults + 1
  /\ UNCHANGED <<buildVars, running>>
-----------------------------------------------------------------------------
Build(r) ==
  StartBuild(r) \/ UploadManifest(r) \/ BuildFails(r) \/ \E i \in Images : PushImage(r, i)

Deploy(e) ==
  \/ \E r \in Runs : BeginDeploy(e, r)
  \/ \E i \in Images : Pull(e, i)
  \/ Down(e) \/ Up(e) \/ DeployFails(e)

Next == (\E r \in Runs : Build(r)) \/ (\E e \in Environments : Deploy(e))

Spec == Init /\ [][Next]_vars
-----------------------------------------------------------------------------
\* An environment never runs images of two commits, nor of another commit than the one that was
\* deployed, however builds and deployments overlap.
OneCommit ==
  \A e \in Environments : running[e] # None =>
    \A i \in Images : CommitOf[running[e].images[i].run] = CommitOf[running[e].run]

BuiltOnce(r) ==
  attempt[r] = 1 /\ \A s \in Runs \ {r} : CommitOf[s] = CommitOf[r] => attempt[s] = 0

\* As long as its commit is built once, what an environment runs are the images of the manifest,
\* so production runs what stage ran.
ExactUnlessRebuilt ==
  \A e \in Environments : running[e] # None =>
    LET r == running[e].run
    IN  BuiltOnce(r) => \A i \in Images :
          running[e].images[i] = [run |-> r, attempt |-> manifest[r]]
=============================================================================
