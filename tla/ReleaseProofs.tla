--------------------------- MODULE ReleaseProofs ---------------------------
(***************************************************************************)
(* Theorems about Release, for any runs, commits, attempts and failures.   *)
(***************************************************************************)
EXTENDS Release, TLAPS

\* A build that has happened, of commit c.
BuildOf(b, c) == b \in Builds /\ CommitOf[b.run] = c /\ b.attempt <= attempt[b.run]

\* A tag only ever points to builds of its commit.
TagsByCommit ==
  \A i \in Images, c \in Commits : registry[i][c] # None => BuildOf(registry[i][c], c)

\* What is pulled is of the commit that is being deployed.
PulledByCommit ==
  \A e \in Environments, i \in Images : pulled[e][i] # None =>
    deploying[e] # None /\ BuildOf(pulled[e][i], CommitOf[deploying[e]])

\* What runs is of the commit that was deployed.
RunningByCommit ==
  \A e \in Environments : running[e] # None =>
    \A i \in Images : BuildOf(running[e].images[i], CommitOf[running[e].run])

\* Nothing is built, recorded or deployed before its time.
AttemptsInOrder ==
  /\ \A r \in Runs : (job[r] # "idle" => attempt[r] >= 1) /\ manifest[r] <= attempt[r]
  /\ \A e \in Environments :
       /\ deploying[e] # None => manifest[deploying[e]] # 0
       /\ running[e] # None => manifest[running[e].run] # 0

ReleaseInv ==
  /\ TypeOK
  /\ TagsByCommit
  /\ PulledByCommit
  /\ RunningByCommit
  /\ AttemptsInOrder

\* The invariant holds at the start.
LEMMA InvAtStart == Init => ReleaseInv
<1> SUFFICES ASSUME Init PROVE ReleaseInv
  OBVIOUS
<1> USE ReleaseAssumption
<1>1. TypeOK
  BY DEF Init, TypeOK, NothingPulled, Images, Environments
<1>2. TagsByCommit /\ PulledByCommit /\ RunningByCommit /\ AttemptsInOrder
  BY DEF Init, NothingPulled, TagsByCommit, PulledByCommit, RunningByCommit, AttemptsInOrder
<1> QED BY <1>1, <1>2 DEF ReleaseInv

\* The build job starts, uploads its manifest, or fails: no tag moves.
LEMMA JobStep ==
  ASSUME ReleaseInv, NEW r \in Runs, StartBuild(r) \/ UploadManifest(r) \/ BuildFails(r)
  PROVE  ReleaseInv'
<1> USE ReleaseAssumption
<1>0. TypeOK /\ AttemptsInOrder
  BY DEF ReleaseInv
<1>1. /\ UNCHANGED <<registry, deploying, pulled, running>>
      /\ \/ /\ attempt[r] < MaxAttempts /\ attempt' = [attempt EXCEPT ![r] = @ + 1]
            /\ job' = [job EXCEPT ![r] = "orders-api"] /\ UNCHANGED <<manifest, faults>>
         \/ /\ job[r] = "manifest" /\ manifest' = [manifest EXCEPT ![r] = attempt[r]]
            /\ job' = [job EXCEPT ![r] = "done"] /\ UNCHANGED <<attempt, faults>>
         \/ /\ job[r] # "idle" /\ job' = [job EXCEPT ![r] = "failed"]
            /\ faults < MaxFaults /\ faults' = faults + 1 /\ UNCHANGED <<attempt, manifest>>
  BY DEF StartBuild, UploadManifest, BuildFails, deployVars, Images
<1>2. TypeOK'
  <2>1. job' \in [Runs -> {"idle", "orders-api", "payments", "manifest", "done", "failed"}]
    BY <1>0, <1>1 DEF TypeOK
  <2>2. attempt' \in [Runs -> 0..MaxAttempts] /\ manifest' \in [Runs -> 0..MaxAttempts]
    <3>1. attempt[r] \in 0..MaxAttempts
      BY <1>0 DEF TypeOK
    <3>2. attempt[r] < MaxAttempts => attempt[r] + 1 \in 0..MaxAttempts
      BY <3>1
    <3>3. attempt' = attempt \/ attempt' = [attempt EXCEPT ![r] = attempt[r] + 1]
      BY <1>1
    <3>4. manifest' = manifest \/ manifest' = [manifest EXCEPT ![r] = attempt[r]]
      BY <1>1
    <3>5. attempt' # attempt => attempt[r] < MaxAttempts
      BY <1>1
    <3> QED BY <1>0, <3>1, <3>2, <3>3, <3>4, <3>5 DEF TypeOK
  <2>3. faults' \in 0..MaxFaults
    BY <1>0, <1>1 DEF TypeOK
  <2> QED BY <1>0, <1>1, <2>1, <2>2, <2>3 DEF TypeOK
<1>3. \A s \in Runs : attempt[s] <= attempt'[s]
  BY <1>0, <1>1 DEF TypeOK
<1>4. \A b, c : BuildOf(b, c) => BuildOf(b, c)'
  <2> SUFFICES ASSUME NEW b, NEW c, BuildOf(b, c) PROVE BuildOf(b, c)'
    OBVIOUS
  <2>1. b.run \in Runs /\ b.attempt \in Nat
    BY DEF BuildOf, Builds
  <2>2. b.attempt <= attempt'[b.run]
    BY <1>0, <1>2, <1>3, <2>1 DEF BuildOf, TypeOK
  <2> QED BY <2>2 DEF BuildOf
<1>5. TagsByCommit' /\ PulledByCommit' /\ RunningByCommit'
  BY <1>1, <1>4 DEF ReleaseInv, TagsByCommit, PulledByCommit, RunningByCommit
<1>6. \A s \in Runs : (job'[s] # "idle" => attempt'[s] >= 1) /\ manifest'[s] <= attempt'[s]
  BY <1>0, <1>1 DEF TypeOK, AttemptsInOrder
<1>7. \A s \in Runs : manifest[s] # 0 => manifest'[s] # 0
  BY <1>0, <1>1 DEF TypeOK, AttemptsInOrder
<1>8. AttemptsInOrder'
  <2>1. \A e \in Environments :
          /\ deploying[e] # None => deploying[e] \in Runs
          /\ running[e] # None => running[e].run \in Runs
    BY <1>0 DEF TypeOK, Deployments
  <2> QED BY <1>0, <1>1, <1>6, <1>7, <2>1 DEF AttemptsInOrder
<1> QED BY <1>2, <1>5, <1>8 DEF ReleaseInv

\* A push moves the tag of the run's commit to a build of that commit.
LEMMA PushStep ==
  ASSUME ReleaseInv, NEW r \in Runs, NEW i \in Images, PushImage(r, i)
  PROVE  ReleaseInv'
<1> USE ReleaseAssumption
<1> DEFINE b == [run |-> r, attempt |-> attempt[r]]
<1>0. TypeOK /\ AttemptsInOrder
  BY DEF ReleaseInv
<1>1. /\ UNCHANGED <<attempt, manifest, deploying, pulled, running, faults>>
      /\ job[r] = i /\ registry' = [registry EXCEPT ![i][CommitOf[r]] = b]
      /\ \E s \in {"payments", "manifest"} : job' = [job EXCEPT ![r] = s]
  BY DEF PushImage, TagOf, deployVars
<1>2. CommitOf[r] \in Commits /\ BuildOf(b, CommitOf[r])
  BY <1>0, <1>1 DEF Commits, BuildOf, Builds, AttemptsInOrder, TypeOK, Images
<1>3. b \in Builds
  BY <1>2 DEF BuildOf
<1> HIDE DEF b
<1>4. TypeOK'
  <2>1. registry' \in [Images -> [Commits -> Builds \union {None}]]
    BY <1>0, <1>1, <1>2, <1>3 DEF TypeOK
  <2> QED BY <1>0, <1>1, <2>1 DEF TypeOK
<1>5. \A x, c : BuildOf(x, c)' <=> BuildOf(x, c)
  BY <1>1 DEF BuildOf
<1>6. TagsByCommit'
  <2>1. \A j \in Images, c \in Commits :
          registry'[j][c] = IF j = i /\ c = CommitOf[r] THEN b ELSE registry[j][c]
    BY <1>0, <1>1, <1>2 DEF TypeOK
  <2> QED BY <1>2, <1>5, <2>1 DEF ReleaseInv, TagsByCommit
<1>7. PulledByCommit' /\ RunningByCommit'
  BY <1>1, <1>5 DEF ReleaseInv, PulledByCommit, RunningByCommit
<1>8. AttemptsInOrder'
  BY <1>0, <1>1 DEF AttemptsInOrder, TypeOK, Images
<1> QED BY <1>4, <1>6, <1>7, <1>8 DEF ReleaseInv
-----------------------------------------------------------------------------
\* A deployment begins, pulls, or ends without success.
LEMMA PullStep ==
  ASSUME ReleaseInv, NEW e \in Environments,
         \/ \E r \in Runs : BeginDeploy(e, r)
         \/ \E i \in Images : Pull(e, i)
         \/ Down(e) \/ DeployFails(e)
  PROVE  ReleaseInv'
<1> USE ReleaseAssumption
<1>0. TypeOK /\ AttemptsInOrder /\ TagsByCommit /\ PulledByCommit /\ RunningByCommit
  BY DEF ReleaseInv
<1>1. /\ UNCHANGED <<job, attempt, registry, manifest>>
      /\ faults' \in 0..MaxFaults
      /\ running' = running \/ running' = [running EXCEPT ![e] = None]
  BY <1>0 DEF BeginDeploy, Pull, Down, DeployFails, buildVars, TypeOK
<1>2. \A x, c : BuildOf(x, c)' <=> BuildOf(x, c)
  BY <1>1 DEF BuildOf
<1>3. \A d \in Environments : running'[d] # None => running'[d] = running[d]
  BY <1>0, <1>1 DEF TypeOK
<1>4. TagsByCommit' /\ RunningByCommit'
  BY <1>0, <1>1, <1>2, <1>3 DEF TagsByCommit, RunningByCommit
<1>5. running' \in [Environments -> Deployments \union {None}]
  BY <1>0, <1>1 DEF TypeOK
<1>6. ASSUME NEW r \in Runs, BeginDeploy(e, r) PROVE ReleaseInv'
  <2>1. /\ deploying[e] = None /\ manifest[r] # 0 /\ pulled' = pulled
        /\ deploying' = [deploying EXCEPT ![e] = r]
    BY <1>6 DEF BeginDeploy
  <2>2. TypeOK'
    BY <1>0, <1>1, <1>5, <2>1 DEF TypeOK
  <2>3. PulledByCommit'
    BY <1>0, <1>1, <1>2, <2>1 DEF TypeOK, PulledByCommit
  <2>4. AttemptsInOrder'
    BY <1>0, <1>1, <1>3, <2>1 DEF TypeOK, AttemptsInOrder
  <2> QED BY <1>4, <2>2, <2>3, <2>4 DEF ReleaseInv
<1>7. ASSUME NEW i \in Images, Pull(e, i) PROVE ReleaseInv'
  <2> DEFINE c == CommitOf[deploying[e]]
  <2>1. /\ deploying[e] \in Runs /\ deploying' = deploying
        /\ pulled' = [pulled EXCEPT ![e][i] = registry[i][c]]
    <3>1. deploying[e] \in Runs \union {None} /\ deploying[e] # None
      BY <1>0, <1>7 DEF Pull, TypeOK
    <3>2. pulled' = [pulled EXCEPT ![e][i] = registry[i][CommitOf[deploying[e]]]]
      BY <1>7 DEF Pull, TagOf
    <3> QED BY <1>7, <3>1, <3>2 DEF Pull
  <2>2. c \in Commits /\ registry[i][c] \in Builds \union {None}
    <3>1. c \in Commits
      BY <2>1 DEF Commits
    <3>2. registry[i] \in [Commits -> Builds \union {None}]
      BY <1>0 DEF TypeOK
    <3> HIDE DEF c
    <3> QED BY <3>1, <3>2
  <2>3. registry[i][c] # None => BuildOf(registry[i][c], c)
    BY <1>0, <2>2 DEF TagsByCommit
  <2> HIDE DEF c
  <2>4. TypeOK'
    <3>1. pulled' \in [Environments -> [Images -> Builds \union {None}]]
      <4>1. pulled \in [Environments -> [Images -> Builds \union {None}]]
        BY <1>0 DEF TypeOK
      <4> QED BY <2>1, <2>2, <4>1
    <3>2. UNCHANGED <<job, attempt, registry, manifest, deploying>>
      BY <1>1, <2>1
    <3> QED BY <1>0, <1>1, <1>5, <3>1, <3>2 DEF TypeOK
  <2>5. \A d \in Environments, j \in Images :
          pulled'[d][j] = IF d = e /\ j = i THEN registry[i][c] ELSE pulled[d][j]
    BY <1>0, <2>1 DEF TypeOK
  <2>6. PulledByCommit'
    BY <1>0, <1>2, <2>1, <2>3, <2>5 DEF PulledByCommit, c
  <2>7. AttemptsInOrder'
    BY <1>0, <1>1, <1>3, <2>1 DEF TypeOK, AttemptsInOrder
  <2> QED BY <1>4, <2>4, <2>6, <2>7 DEF ReleaseInv
<1>8. CASE Down(e)
  <2>1. UNCHANGED <<deploying, pulled>>
    BY <1>8 DEF Down
  <2>2. TypeOK'
    BY <1>0, <1>1, <1>5, <2>1 DEF TypeOK
  <2>3. PulledByCommit' /\ AttemptsInOrder'
    BY <1>0, <1>1, <1>2, <1>3, <2>1 DEF PulledByCommit, AttemptsInOrder
  <2> QED BY <1>4, <2>2, <2>3 DEF ReleaseInv
<1>9. CASE DeployFails(e)
  <2>1. /\ deploying' = [deploying EXCEPT ![e] = None]
        /\ pulled' = [pulled EXCEPT ![e] = NothingPulled]
    BY <1>9 DEF DeployFails
  <2>2. TypeOK'
    BY <1>0, <1>1, <1>5, <2>1 DEF TypeOK, NothingPulled
  <2>3. PulledByCommit' /\ AttemptsInOrder'
    BY <1>0, <1>1, <1>2, <1>3, <2>1 DEF TypeOK, PulledByCommit, AttemptsInOrder, NothingPulled
  <2> QED BY <1>4, <2>2, <2>3 DEF ReleaseInv
<1> QED BY <1>6, <1>7, <1>8, <1>9

\* What is started is what was pulled.
LEMMA UpStep ==
  ASSUME ReleaseInv, NEW e \in Environments, Up(e)
  PROVE  ReleaseInv'
<1> USE ReleaseAssumption
<1> DEFINE d == [run |-> deploying[e], images |-> pulled[e]]
<1>0. TypeOK /\ AttemptsInOrder /\ TagsByCommit /\ PulledByCommit /\ RunningByCommit
  BY DEF ReleaseInv
<1>1. /\ UNCHANGED <<job, attempt, registry, manifest, faults>>
      /\ running' = [running EXCEPT ![e] = d]
      /\ deploying' = [deploying EXCEPT ![e] = None]
      /\ pulled' = [pulled EXCEPT ![e] = NothingPulled]
  BY DEF Up, Started, buildVars
<1>2. deploying[e] \in Runs /\ pulled[e] \in [Images -> Builds]
  BY <1>0 DEF Up, TypeOK
<1>3. d \in Deployments
  BY <1>2 DEF Deployments
<1>4. TypeOK'
  BY <1>0, <1>1, <1>3 DEF TypeOK, NothingPulled
<1>5. \A x, c : BuildOf(x, c)' <=> BuildOf(x, c)
  BY <1>1 DEF BuildOf
<1>6. \A i \in Images : BuildOf(d.images[i], CommitOf[d.run])
  BY <1>0, <1>2 DEF PulledByCommit, Up
<1>7. RunningByCommit'
  BY <1>0, <1>1, <1>5, <1>6 DEF RunningByCommit, TypeOK
<1>8. TagsByCommit' /\ PulledByCommit'
  BY <1>0, <1>1, <1>5 DEF TagsByCommit, PulledByCommit, TypeOK, NothingPulled
<1>9. AttemptsInOrder'
  BY <1>0, <1>1, <1>2 DEF AttemptsInOrder, TypeOK
<1> QED BY <1>4, <1>7, <1>8, <1>9 DEF ReleaseInv

\* Every step keeps the invariant.
LEMMA InvStep == ReleaseInv /\ [Next]_vars => ReleaseInv'
<1> SUFFICES ASSUME ReleaseInv, [Next]_vars PROVE ReleaseInv'
  OBVIOUS
<1>1. ASSUME NEW r \in Runs, Build(r) PROVE ReleaseInv'
  BY <1>1, JobStep, PushStep DEF Build
<1>2. ASSUME NEW e \in Environments, Deploy(e) PROVE ReleaseInv'
  BY <1>2, PullStep, UpStep DEF Deploy
<1>3. CASE UNCHANGED vars
  BY <1>3 DEF vars, buildVars, deployVars, ReleaseInv, TypeOK, TagsByCommit, PulledByCommit,
     RunningByCommit, AttemptsInOrder, BuildOf
<1> QED BY <1>1, <1>2, <1>3 DEF Next

\* The invariant holds throughout.
LEMMA InvAlways == Spec => []ReleaseInv
BY InvAtStart, InvStep, PTL DEF Spec
-----------------------------------------------------------------------------
\* Every variable of the pipeline keeps its type: nothing is started that was not pulled.
THEOREM ReleaseTypeCorrect == Spec => []TypeOK
<1>1. ReleaseInv => TypeOK
  BY DEF ReleaseInv
<1> QED BY <1>1, InvAlways, PTL

\* Images are pulled by the tag of a commit: stage and production never run images of two
\* commits at once, however many runs and deployments overlap or fail.
THEOREM CommitsNotMixed == Spec => []OneCommit
<1>1. ReleaseInv => OneCommit
  BY DEF ReleaseInv, RunningByCommit, BuildOf, OneCommit
<1> QED BY <1>1, InvAlways, PTL

\* The tag of a commit that is built once is as good as the digest: production runs the images
\* that the manifest records.
THEOREM ExactIfBuiltOnce == Spec => []ExactUnlessRebuilt
<1>1. ASSUME ReleaseInv, NEW e \in Environments, running[e] # None, BuiltOnce(running[e].run),
             NEW i \in Images
      PROVE  running[e].images[i] = [run |-> running[e].run, attempt |-> manifest[running[e].run]]
  <2> DEFINE r == running[e].run
             b == running[e].images[i]
  <2>1. r \in Runs /\ manifest[r] \in Nat /\ manifest[r] # 0 /\ manifest[r] <= attempt[r]
    BY <1>1, ReleaseAssumption DEF ReleaseInv, TypeOK, AttemptsInOrder, Deployments
  <2>2. b \in Builds /\ CommitOf[b.run] = CommitOf[r] /\ b.attempt <= attempt[b.run]
    BY <1>1 DEF ReleaseInv, RunningByCommit, BuildOf
  <2>3. attempt[r] = 1 /\ \A s \in Runs \ {r} : CommitOf[s] = CommitOf[r] => attempt[s] = 0
    BY <1>1 DEF BuiltOnce
  <2> HIDE DEF r, b
  <2>4. b.run \in Runs /\ b.attempt \in Nat /\ b.attempt >= 1
        /\ b = [run |-> b.run, attempt |-> b.attempt]
    BY <2>2, ReleaseAssumption DEF Builds
  <2>5. b.run = r
    BY <2>2, <2>3, <2>4
  <2>6. b.attempt = 1 /\ manifest[r] = 1
    BY <2>1, <2>2, <2>3, <2>4, <2>5
  <2>7. b = [run |-> r, attempt |-> manifest[r]]
    BY <2>4, <2>5, <2>6
  <2> QED BY <2>7 DEF r, b
<1>2. ReleaseInv => ExactUnlessRebuilt
  BY <1>1 DEF ExactUnlessRebuilt
<1> QED BY <1>2, InvAlways, PTL
=============================================================================
