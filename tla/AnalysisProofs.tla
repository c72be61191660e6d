--------------------------- MODULE AnalysisProofs ---------------------------
(***************************************************************************)
(* Proofs about an analysis and what is learned from it, for any number of *)
(* jobs, callers, components and requests and any limits.                  *)
(*                                                                         *)
(* The job: what its tasks own, that the runner is called once, that       *)
(* outcomes are final, and the two capacity bounds.                        *)
(* The runner's worker: it never holds the material of two callers         *)
(* (SourceContained).                                                      *)
(* The inventory: the intelligence an assessment cites is about the        *)
(* inventory it names (EvidenceMatchesInventory).                          *)
(* The advisories: nothing is called clean that the provider did not show  *)
(* clean (NoFalseClean), and no refresh loses a finding it had no answer   *)
(* about (FindingsKept).                                                   *)
(***************************************************************************)
EXTENDS ProjectAudit, IsolatedWorker, InventoryEvidence, AdvisoryIntelligence,
        FiniteSetTheorems, TLAPS

\* A task that may still write to its record never finds another outcome
\* there than a cancellation or a deletion; one that has written is final.
TaskOwnsRecord ==
    \A j \in Jobs :
        /\ task[j] \in {"scheduled", "waiting", "granted", "starting", "working", "raised"}
            => status[j] \in Inflight \union {"cancelled", "deleted"}
        /\ task[j] = "done" => status[j] \in Terminal \union {"deleted"}

\* A job that was posted to the runner is past the states that lead there.
CalledIsPast ==
    \A j \in Jobs :
        \/ calls[j] = 0
        \/ /\ calls[j] = 1
           /\ status[j] \notin {"none", "queued"}
           /\ task[j] \notin {"scheduled", "waiting", "granted", "starting"}

\* Outside a live process there are no tasks but the ones startup has
\* scheduled, and what startup has not scheduled yet awaits it.
RestartIsClean ==
    /\ phase = "down" => \A j \in Jobs : task[j] = "idle"
    /\ phase = "boot" =>
        /\ workspace = {}
        /\ \A j \in Jobs :
            /\ task[j] \in {"idle", "scheduled"}
            /\ status[j] \in Inflight /\ task[j] = "idle"
                => status[j] = "queued" /\ IsProjectJob(j)

JobInv ==
    /\ TaskOwnsRecord
    /\ CalledIsPast
    /\ RestartIsClean
    /\ NoOrphanWorkspace
    /\ InflightHasTask

AuditInv == TypeOK /\ ConcurrencyBound /\ JobInv /\ OneActivePerProject /\ LimitsHold

-----------------------------------------------------------------------------
\* The first state.
LEMMA JobInit == Init => JobInv
  BY AuditConstants
  DEF Init, JobInv, TaskOwnsRecord, CalledIsPast, RestartIsClean, NoOrphanWorkspace,
      InflightHasTask, InflightJobs, Inflight, Terminal

\* Every step keeps what tasks own.
LEMMA JobStep == ASSUME TypeOK, JobInv, [Next]_vars PROVE JobInv'
  <1> USE DEF JobInv, TaskOwnsRecord, CalledIsPast, RestartIsClean, NoOrphanWorkspace,
              InflightHasTask, InflightJobs, Inflight, Terminal, IsProjectJob
  <1>1. ASSUME NEW j \in Jobs, NEW p \in Projects, LaunchAnalysis(j, p) PROVE JobInv'
    BY <1>1 DEF LaunchAnalysis, MayLaunch, TypeOK, Bind
  <1>2. ASSUME NEW j \in Jobs, NEW p \in Projects, CrashInLaunch(j, p) PROVE JobInv'
    BY <1>2 DEF CrashInLaunch, MayLaunch, ProcessGone, TypeOK
  <1>3. ASSUME NEW j \in Jobs, NEW p \in SbomProjects, LaunchSbom(j, p) PROVE JobInv'
    BY <1>3 DEF LaunchSbom, MayLaunch, TypeOK
  <1>4. ASSUME NEW j \in Jobs, NEW o \in Owners, LaunchFileAudit(j, o) PROVE JobInv'
    BY <1>4 DEF LaunchFileAudit, TypeOK
  <1>5. ASSUME NEW j \in Jobs, CancelAnalysis(j) PROVE JobInv'
    BY <1>5 DEF CancelAnalysis, TypeOK, Registered
  <1>6. ASSUME NEW j \in Jobs, DeleteJob(j) PROVE JobInv'
    BY <1>6 DEF DeleteJob, TypeOK
  <1>7. ASSUME NEW j \in Jobs, StartTask(j) PROVE JobInv'
    BY <1>7 DEF StartTask, TypeOK
  <1>8. ASSUME NEW j \in Jobs, Acquire(j) PROVE JobInv'
    BY <1>8 DEF Acquire, TypeOK
  <1>9. ASSUME NEW j \in Jobs, BeginWork(j) PROVE JobInv'
    BY <1>9 DEF BeginWork, TypeOK
  <1>10. ASSUME NEW j \in Jobs, CancelWhileWaiting(j) PROVE JobInv'
    BY <1>10 DEF CancelWhileWaiting, Over, Cancelled, TypeOK
  <1>11. ASSUME NEW j \in Jobs, RunWork(j) PROVE JobInv'
    BY <1>11 DEF RunWork, Updated, TypeOK
  <1>12. ASSUME NEW j \in Jobs, RunnerAnswers(j) PROVE JobInv'
    BY <1>12 DEF RunnerAnswers, Updated, TypeOK
  <1>13. ASSUME NEW j \in Jobs, StopWork(j) PROVE JobInv'
    BY <1>13 DEF StopWork, Over, Cancelled, TypeOK
  <1>14. ASSUME NEW j \in Jobs, FinishTask(j) PROVE JobInv'
    BY <1>14 DEF FinishTask, Over, TypeOK
  <1>15. ASSUME NEW j \in Jobs, ResumeQueued(j) PROVE JobInv'
    BY <1>15 DEF ResumeQueued, AwaitsResume, TypeOK
  <1>16. ASSUME NEW p \in AllProjects, DeleteSource(p) PROVE JobInv'
    BY <1>16 DEF DeleteSource
  <1>17. ASSUME Crash PROVE JobInv'
    BY <1>17 DEF Crash, ProcessGone
  <1>18. ASSUME Shutdown PROVE JobInv'
    BY <1>18 DEF Shutdown, ProcessGone, Recovered, Interrupted, TypeOK
  <1>19. ASSUME BootRecover PROVE JobInv'
    BY <1>19 DEF BootRecover, Recovered, Interrupted, TypeOK
  <1>20. ASSUME BootDone PROVE JobInv'
    BY <1>20 DEF BootDone, AwaitsResume
  <1>21. ASSUME UNCHANGED vars PROVE JobInv'
    BY <1>21 DEF vars
  <1> QED
    BY <1>1, <1>2, <1>3, <1>4, <1>5, <1>6, <1>7, <1>8, <1>9, <1>10, <1>11, <1>12, <1>13,
       <1>14, <1>15, <1>16, <1>17, <1>18, <1>19, <1>20, <1>21 DEF Next, TaskStep

-----------------------------------------------------------------------------
\* Sets of jobs are finite.
LEMMA JobSets == ASSUME NEW S \in SUBSET Jobs PROVE IsFiniteSet(S) /\ Cardinality(S) \in Nat
  BY AuditConstants, FS_Subset, FS_CardinalityType

\* A task that joins the holders of the semaphore takes a permit, one that
\* leaves them gives back at most one.
LEMMA PermitsStep ==
    ASSUME ConcurrencyBound, permits \in 0..MaxConcurrency, permits' \in Int, 0 <= permits',
           \/ Holders' = Holders /\ permits' <= permits
           \/ \E j \in Jobs \ Holders : Holders' = Holders \union {j} /\ permits' = permits - 1
           \/ \E j \in Holders : Holders' = Holders \ {j} /\ permits' <= permits + 1
           \/ Holders' = {} /\ permits' = MaxConcurrency
    PROVE  ConcurrencyBound' /\ permits' \in 0..MaxConcurrency
  <1> /\ Holders \in SUBSET Jobs /\ IsFiniteSet(Holders) /\ Cardinality(Holders) \in Nat
      /\ MaxConcurrency \in Nat
    BY JobSets, AuditConstants DEF Holders
  <1>1. CASE Holders' = Holders /\ permits' <= permits
    BY <1>1 DEF ConcurrencyBound
  <1>2. ASSUME NEW j \in Jobs \ Holders, Holders' = Holders \union {j}, permits' = permits - 1
        PROVE  ConcurrencyBound' /\ permits' \in 0..MaxConcurrency
    <2>1. Cardinality(Holders') = Cardinality(Holders) + 1
      BY <1>2, FS_AddElement
    <2> QED BY <1>2, <2>1 DEF ConcurrencyBound
  <1>3. ASSUME NEW j \in Holders, Holders' = Holders \ {j}, permits' <= permits + 1
        PROVE  ConcurrencyBound' /\ permits' \in 0..MaxConcurrency
    <2>1. Cardinality(Holders') = Cardinality(Holders) - 1
      BY <1>3, FS_RemoveElement
    <2>2. Cardinality(Holders) # 0
      BY FS_EmptySet
    <2> QED BY <1>3, <2>1, <2>2 DEF ConcurrencyBound
  <1>4. CASE Holders' = {} /\ permits' = MaxConcurrency
    <2>1. Cardinality(Holders') = 0
      BY <1>4, FS_EmptySet
    <2> QED BY <1>4, <2>1 DEF ConcurrencyBound
  <1> QED BY <1>1, <1>2, <1>3, <1>4

\* Every step keeps the bound of the semaphore.
LEMMA ConcurrencyStep ==
    ASSUME TypeOK, JobInv, ConcurrencyBound, [Next]_vars
    PROVE  ConcurrencyBound' /\ permits' \in 0..MaxConcurrency
  <1> USE DEF Holders, Holding
  <1> DEFINE Goal == ConcurrencyBound' /\ permits' \in 0..MaxConcurrency
  <1>0. permits \in 0..MaxConcurrency /\ MaxConcurrency \in Nat /\ permits \in Nat
    BY AuditConstants DEF TypeOK
  <1>1. ASSUME NEW j \in Jobs, NEW p \in Projects, LaunchAnalysis(j, p) PROVE Goal
    <2>1. task[j] \notin Holding
      BY <1>1 DEF LaunchAnalysis, MayLaunch, JobInv, TaskOwnsRecord, Inflight, Terminal
    <2> QED BY <1>0, <1>1, <2>1, PermitsStep DEF LaunchAnalysis, TypeOK
  <1>2. ASSUME NEW j \in Jobs, NEW p \in Projects, CrashInLaunch(j, p) PROVE Goal
    BY <1>0, <1>2, PermitsStep DEF CrashInLaunch, ProcessGone
  <1>3. ASSUME NEW j \in Jobs, NEW p \in SbomProjects, LaunchSbom(j, p) PROVE Goal
    BY <1>0, <1>3, PermitsStep DEF LaunchSbom
  <1>4. ASSUME NEW j \in Jobs, NEW o \in Owners, LaunchFileAudit(j, o) PROVE Goal
    <2>1. task[j] \notin Holding
      BY <1>4 DEF LaunchFileAudit, JobInv, TaskOwnsRecord, Inflight, Terminal
    <2> QED BY <1>0, <1>4, <2>1, PermitsStep DEF LaunchFileAudit, TypeOK
  <1>5. ASSUME NEW j \in Jobs, CancelAnalysis(j) \/ DeleteJob(j) PROVE Goal
    BY <1>0, <1>5, PermitsStep DEF CancelAnalysis, DeleteJob
  <1>6. ASSUME NEW j \in Jobs, StartTask(j) \/ BeginWork(j) \/ RunWork(j) \/ RunnerAnswers(j)
                                \/ ResumeQueued(j)
        PROVE  Goal
    <2>1. Holders' = Holders
      BY <1>6 DEF StartTask, BeginWork, RunWork, RunnerAnswers, ResumeQueued, AwaitsResume, TypeOK
    <2>2. permits' = permits
      BY <1>6 DEF StartTask, BeginWork, RunWork, RunnerAnswers, ResumeQueued
    <2> QED BY <1>0, <2>1, <2>2, PermitsStep
  <1>7. ASSUME NEW j \in Jobs, Acquire(j) PROVE Goal
    <2>1. j \notin Holders /\ Holders' = Holders \union {j}
      BY <1>7 DEF Acquire, TypeOK
    <2> QED BY <1>0, <1>7, <2>1, PermitsStep DEF Acquire
  <1>8. ASSUME NEW j \in Jobs, CancelWhileWaiting(j) PROVE Goal
    <2>1. CASE task[j] = "waiting"
      <3>1. Holders' = Holders
        BY <1>8, <2>1 DEF CancelWhileWaiting, Over, TypeOK
      <3> QED BY <1>0, <1>8, <2>1, <3>1, PermitsStep DEF CancelWhileWaiting, PermitsAfterCancelledWait
    <2>2. CASE task[j] = "granted"
      <3>1. j \in Holders /\ Holders' = Holders \ {j}
        BY <1>8, <2>2 DEF CancelWhileWaiting, Over, TypeOK
      <3> QED BY <1>0, <1>8, <2>2, <3>1, PermitsStep DEF CancelWhileWaiting, PermitsAfterCancelledWait
    <2> QED BY <1>8, <2>1, <2>2 DEF CancelWhileWaiting
  <1>9. ASSUME NEW j \in Jobs, StopWork(j) \/ FinishTask(j) PROVE Goal
    <2>1. j \in Holders /\ Holders' = Holders \ {j}
      BY <1>9 DEF StopWork, FinishTask, Over, TypeOK
    <2> QED BY <1>0, <1>9, <2>1, PermitsStep DEF StopWork, FinishTask
  <1>10. ASSUME Crash \/ Shutdown PROVE Goal
    BY <1>0, <1>10, PermitsStep DEF Crash, Shutdown, ProcessGone
  <1>11. ASSUME BootRecover \/ BootDone \/ (\E p \in AllProjects : DeleteSource(p)) \/ UNCHANGED vars
         PROVE  Goal
    BY <1>0, <1>11, PermitsStep DEF BootRecover, BootDone, DeleteSource, vars
  <1> QED
    BY <1>1, <1>2, <1>3, <1>4, <1>5, <1>6, <1>7, <1>8, <1>9, <1>10, <1>11 DEF Next, TaskStep

-----------------------------------------------------------------------------
\* Statuses of the helpers.
LEMMA HelperTypes ==
    ASSUME TypeOK, NEW j \in Jobs
    PROVE  /\ \A s \in Status : Updated(j, s) \in Status
           /\ Cancelled(j) \in Status
           /\ \A s \in Status : Notified(j, s) \in Terminal \union {"none"}
  BY DEF TypeOK, Updated, Cancelled, Notified, Status, Inflight, Terminal

\* Recovery keeps every record a record.
LEMMA RecoveredType == TypeOK => Recovered \in [Jobs -> Status]
  BY DEF TypeOK, Recovered, Status, Inflight, Terminal

\* Every step keeps the types, given the bound of the semaphore.
LEMMA TypeStep ==
    ASSUME TypeOK, permits' \in 0..MaxConcurrency, [Next]_vars
    PROVE  TypeOK'
  <1> USE DEF TypeOK
  <1>0. /\ \A s \in {"queued", "running", "failed", "completed", "cancelled", "cancelling", "deleted"} :
            s \in Status
        /\ \A t \in {"idle", "scheduled", "waiting", "granted", "starting", "working", "done", "raised"} :
            t \in TaskState
    BY DEF Status, Inflight, Terminal, TaskState, Registered
  <1>1. ASSUME NEW j \in Jobs, NEW p \in AllProjects \union {NoProject}, NEW o \in Owners,
               NEW r \in Jobs \union {NoJob}, Bind(j, p, o, r)
        PROVE  binding' \in [Jobs -> Binding]
    BY <1>1 DEF Bind, Binding
  <1>2. ASSUME NEW j \in Jobs, NEW p \in AllProjects,
               \E r \in RetryTargets(p) : Bind(j, p, OwnerOf[p], r)
        PROVE  binding' \in [Jobs -> Binding]
    <2> PICK r \in RetryTargets(p) : Bind(j, p, OwnerOf[p], r)
      BY <1>2
    <2> r \in Jobs \union {NoJob} /\ OwnerOf[p] \in Owners
      BY AuditConstants DEF RetryTargets
    <2> QED BY <1>1
  <1>3. ASSUME NEW j \in Jobs, NEW p \in Projects, LaunchAnalysis(j, p) PROVE TypeOK'
    BY <1>0, <1>2, <1>3 DEF LaunchAnalysis, AllProjects
  <1>4. ASSUME NEW j \in Jobs, NEW p \in Projects, CrashInLaunch(j, p) PROVE TypeOK'
    BY <1>0, <1>2, <1>4, AuditConstants DEF CrashInLaunch, ProcessGone, AllProjects
  <1>5. ASSUME NEW j \in Jobs, NEW p \in SbomProjects, LaunchSbom(j, p) PROVE TypeOK'
    BY <1>0, <1>2, <1>5 DEF LaunchSbom, AllProjects, Terminal
  <1>6. ASSUME NEW j \in Jobs, NEW o \in Owners, LaunchFileAudit(j, o) PROVE TypeOK'
    BY <1>0, <1>1, <1>6 DEF LaunchFileAudit
  <1>7. ASSUME NEW j \in Jobs, CancelAnalysis(j) PROVE TypeOK'
    BY <1>0, <1>7 DEF CancelAnalysis
  <1>8. ASSUME NEW j \in Jobs, DeleteJob(j) \/ StartTask(j) \/ Acquire(j) \/ BeginWork(j) PROVE TypeOK'
    BY <1>0, <1>8 DEF DeleteJob, StartTask, Acquire, BeginWork
  <1>9. ASSUME NEW j \in Jobs, NEW s \in Status, Over(j, s), workspace' \in SUBSET Jobs PROVE TypeOK'
    BY <1>0, <1>9, HelperTypes DEF Over
  <1>10. ASSUME NEW j \in Jobs, CancelWhileWaiting(j) \/ StopWork(j) \/ FinishTask(j) PROVE TypeOK'
    BY <1>0, <1>9, <1>10, HelperTypes DEF CancelWhileWaiting, StopWork, FinishTask
  <1>11. ASSUME NEW j \in Jobs, RunWork(j) PROVE TypeOK'
    BY <1>0, <1>11, HelperTypes DEF RunWork
  <1>12. ASSUME NEW j \in Jobs, RunnerAnswers(j) PROVE TypeOK'
    BY <1>0, <1>12, HelperTypes DEF RunnerAnswers
  <1>13. ASSUME NEW j \in Jobs, ResumeQueued(j) PROVE TypeOK'
    BY <1>0, <1>13 DEF ResumeQueued
  <1>14. ASSUME NEW p \in AllProjects, DeleteSource(p) PROVE TypeOK'
    BY <1>14 DEF DeleteSource
  <1>15. ASSUME Crash \/ BootRecover \/ BootDone PROVE TypeOK'
    BY <1>0, <1>15, RecoveredType, AuditConstants DEF Crash, ProcessGone, BootRecover, BootDone
  <1>16. ASSUME Shutdown PROVE TypeOK'
    <2>1. event' \in [Jobs -> Terminal \union {"none"}]
      BY <1>16, HelperTypes DEF Shutdown
    <2> QED BY <1>0, <1>16, <2>1, RecoveredType, AuditConstants DEF Shutdown, ProcessGone
  <1>17. ASSUME UNCHANGED vars PROVE TypeOK'
    BY <1>17 DEF vars
  <1> QED
    BY <1>3, <1>4, <1>5, <1>6, <1>7, <1>8, <1>10, <1>11, <1>12, <1>13, <1>14, <1>15, <1>16,
       <1>17 DEF Next, TaskStep

-----------------------------------------------------------------------------
\* The jobs in flight change in three ways: one is admitted, under the
\* limits and alone in its project; or some leave; their bindings stay.
LEMMA InflightStep ==
    ASSUME TypeOK, JobInv, [Next]_vars
    PROVE  \/ /\ InflightJobs' \in SUBSET InflightJobs
              /\ \A j \in InflightJobs : binding'[j] = binding[j]
           \/ \E j \in Jobs \ InflightJobs :
              /\ InflightJobs' = InflightJobs \union {j}
              /\ \A k \in InflightJobs : binding'[k] = binding[k]
              /\ AdmissionAvailable(binding'[j].owner)
              /\ binding'[j].project # NoProject => ~HasActiveProjectJob(binding'[j].project)
  <1> DEFINE Leave == /\ InflightJobs' \in SUBSET InflightJobs
                      /\ \A j \in InflightJobs : binding'[j] = binding[j]
             Enter(j) == /\ InflightJobs' = InflightJobs \union {j}
                         /\ \A k \in InflightJobs : binding'[k] = binding[k]
                         /\ AdmissionAvailable(binding'[j].owner)
                         /\ binding'[j].project # NoProject
                                => ~HasActiveProjectJob(binding'[j].project)
  <1> USE DEF InflightJobs, Inflight, Terminal
  <1>1. ASSUME NEW j \in Jobs, NEW p \in Projects, LaunchAnalysis(j, p) \/ CrashInLaunch(j, p)
        PROVE  j \notin InflightJobs /\ Enter(j)
    <2>1. MayLaunch(j, p) /\ status' = [status EXCEPT ![j] = "queued"]
      BY <1>1 DEF LaunchAnalysis, CrashInLaunch
    <2>2. PICK r \in RetryTargets(p) : Bind(j, p, OwnerOf[p], r)
      BY <1>1 DEF LaunchAnalysis, CrashInLaunch
    <2>3. binding'[j].project = p /\ binding'[j].owner = OwnerOf[p]
      BY <2>2 DEF Bind, TypeOK
    <2>4. \A k \in InflightJobs : binding'[k] = binding[k]
      BY <2>1, <2>2 DEF Bind, TypeOK, MayLaunch
    <2>5. j \notin InflightJobs /\ InflightJobs' = InflightJobs \union {j}
      BY <2>1 DEF MayLaunch, TypeOK
    <2> QED BY <2>1, <2>3, <2>4, <2>5 DEF MayLaunch
  <1>2. ASSUME NEW j \in Jobs, NEW o \in Owners, LaunchFileAudit(j, o)
        PROVE  j \notin InflightJobs /\ Enter(j)
    <2>1. binding'[j].project = NoProject /\ binding'[j].owner = o
      BY <1>2 DEF LaunchFileAudit, Bind, TypeOK
    <2>2. \A k \in InflightJobs : binding'[k] = binding[k]
      BY <1>2 DEF LaunchFileAudit, Bind, TypeOK
    <2>3. j \notin InflightJobs /\ InflightJobs' = InflightJobs \union {j}
      BY <1>2 DEF LaunchFileAudit, TypeOK
    <2> QED BY <1>2, <2>1, <2>2, <2>3 DEF LaunchFileAudit
  <1>3. ASSUME NEW j \in Jobs, NEW p \in SbomProjects, LaunchSbom(j, p) PROVE Leave
    BY <1>3 DEF LaunchSbom, MayLaunch, Bind, TypeOK
  <1>4. ASSUME NEW j \in Jobs, CancelAnalysis(j) PROVE Leave
    BY <1>4 DEF CancelAnalysis, TypeOK
  <1>5. ASSUME NEW j \in Jobs, DeleteJob(j) \/ StartTask(j) \/ Acquire(j) \/ BeginWork(j) PROVE Leave
    BY <1>5 DEF DeleteJob, StartTask, Acquire, BeginWork, TypeOK
  <1>6. ASSUME NEW j \in Jobs, CancelWhileWaiting(j) \/ StopWork(j) \/ FinishTask(j) PROVE Leave
    BY <1>6 DEF CancelWhileWaiting, StopWork, FinishTask, Over, Cancelled, TypeOK
  <1>7. ASSUME NEW j \in Jobs, RunWork(j) \/ RunnerAnswers(j) PROVE Leave
    BY <1>7 DEF RunWork, RunnerAnswers, Updated, TypeOK, JobInv, TaskOwnsRecord
  <1>8. ASSUME NEW j \in Jobs, ResumeQueued(j) PROVE Leave
    BY <1>8 DEF ResumeQueued, TypeOK
  <1>9. ASSUME Crash \/ Shutdown \/ BootRecover PROVE Leave
    BY <1>9 DEF Crash, Shutdown, BootRecover, Recovered, TypeOK
  <1>10. ASSUME BootDone \/ (\E p \in AllProjects : DeleteSource(p)) \/ UNCHANGED vars PROVE Leave
    BY <1>10 DEF BootDone, DeleteSource, vars
  <1> QED
    BY <1>1, <1>2, <1>3, <1>4, <1>5, <1>6, <1>7, <1>8, <1>9, <1>10 DEF Next, TaskStep

\* Admission keeps a project to one analysis in flight.
LEMMA OneActiveStep ==
    ASSUME TypeOK, JobInv, OneActivePerProject, [Next]_vars
    PROVE  OneActivePerProject'
  <1>1. CASE /\ InflightJobs' \in SUBSET InflightJobs
             /\ \A j \in InflightJobs : binding'[j] = binding[j]
    BY <1>1 DEF OneActivePerProject, IsProjectJob
  <1>2. ASSUME NEW j \in Jobs \ InflightJobs,
               InflightJobs' = InflightJobs \union {j},
               \A k \in InflightJobs : binding'[k] = binding[k],
               binding'[j].project # NoProject => ~HasActiveProjectJob(binding'[j].project)
        PROVE  OneActivePerProject'
    BY <1>2 DEF OneActivePerProject, IsProjectJob, HasActiveProjectJob
  <1> QED BY <1>1, <1>2, InflightStep

\* A set of jobs in flight that fits a limit still fits after a step that
\* lets one in below the limit.
LEMMA FitsStep ==
    ASSUME NEW S \in SUBSET Jobs, NEW T \in SUBSET Jobs, NEW n \in Nat, Cardinality(S) <= n,
           \/ T \in SUBSET S
           \/ Cardinality(S) < n /\ \E j \in Jobs : T = S \union {j}
    PROVE  Cardinality(T) <= n
  <1> IsFiniteSet(S) /\ Cardinality(S) \in Nat /\ Cardinality(T) \in Nat
    BY JobSets
  <1>1. CASE T \in SUBSET S
    BY <1>1, FS_Subset
  <1>2. ASSUME Cardinality(S) < n, NEW j \in Jobs, T = S \union {j} PROVE Cardinality(T) <= n
    BY <1>2, FS_AddElement
  <1> QED BY <1>1, <1>2

\* Admission keeps the jobs in flight within the limits.
LEMMA AdmissionStep ==
    ASSUME TypeOK, JobInv, LimitsHold, [Next]_vars
    PROVE  LimitsHold'
  <1> DEFINE Of(o) == {j \in InflightJobs : binding[j].owner = o}
  <1>0. /\ MaxInflight \in Nat /\ MaxInflightPerOwner \in Nat
        /\ InflightJobs \in SUBSET Jobs /\ InflightJobs' \in SUBSET Jobs
        /\ \A o \in Owners : Of(o) \in SUBSET Jobs /\ Of(o)' \in SUBSET Jobs
    BY AuditConstants DEF InflightJobs
  <1>1. CASE /\ InflightJobs' \in SUBSET InflightJobs
             /\ \A j \in InflightJobs : binding'[j] = binding[j]
    <2>1. \A o \in Owners : Of(o)' \in SUBSET Of(o)
      BY <1>1
    <2>2. Cardinality(InflightJobs') <= MaxInflight
      BY <1>0, <1>1, FitsStep DEF LimitsHold
    <2>3. ASSUME NEW o \in Owners PROVE Cardinality(Of(o)') <= MaxInflightPerOwner
      BY <1>0, <2>1, FitsStep DEF LimitsHold
    <2> QED BY <2>2, <2>3 DEF LimitsHold
  <1>2. ASSUME NEW j \in Jobs \ InflightJobs,
               InflightJobs' = InflightJobs \union {j},
               \A k \in InflightJobs : binding'[k] = binding[k],
               AdmissionAvailable(binding'[j].owner)
        PROVE  LimitsHold'
    <2>1. Cardinality(InflightJobs') <= MaxInflight
      BY <1>0, <1>2, FitsStep DEF LimitsHold, AdmissionAvailable
    <2>2. ASSUME NEW o \in Owners PROVE Cardinality(Of(o)') <= MaxInflightPerOwner
      <3>1. CASE o = binding'[j].owner
        <4>1. Of(o)' = Of(o) \union {j}
          BY <1>2, <3>1
        <4>2. Cardinality(Of(o)) < MaxInflightPerOwner
          BY <1>2, <3>1 DEF AdmissionAvailable
        <4> QED BY <1>0, <4>1, <4>2, FitsStep DEF LimitsHold
      <3>2. CASE o # binding'[j].owner
        <4>1. Of(o)' \in SUBSET Of(o)
          BY <1>2, <3>2
        <4> QED BY <1>0, <4>1, FitsStep DEF LimitsHold
      <3> QED BY <3>1, <3>2
    <2> QED BY <2>1, <2>2 DEF LimitsHold
  <1> QED BY <1>1, <1>2, InflightStep

-----------------------------------------------------------------------------
\* No step changes the outcome of a terminal record.
LEMMA TerminalStep ==
    ASSUME TypeOK, JobInv, [Next]_vars, NEW k \in Jobs, status[k] \in Terminal
    PROVE  status'[k] \in {status[k], "deleted"}
  <1> USE DEF Terminal, Inflight, TypeOK
  <1>1. ASSUME NEW j \in Jobs, NEW p \in AllProjects,
               LaunchAnalysis(j, p) \/ CrashInLaunch(j, p) \/ LaunchSbom(j, p)
        PROVE  status'[k] = status[k]
    BY <1>1 DEF LaunchAnalysis, CrashInLaunch, LaunchSbom, MayLaunch
  <1>2. ASSUME NEW j \in Jobs, NEW o \in Owners, LaunchFileAudit(j, o) PROVE status'[k] = status[k]
    BY <1>2 DEF LaunchFileAudit
  <1>3. ASSUME NEW j \in Jobs, CancelAnalysis(j) \/ DeleteJob(j) \/ ResumeQueued(j)
        PROVE  status'[k] \in {status[k], "deleted"}
    BY <1>3 DEF CancelAnalysis, DeleteJob, ResumeQueued, AwaitsResume
  <1>4. ASSUME NEW j \in Jobs, StartTask(j) \/ Acquire(j) \/ BeginWork(j) PROVE status'[k] = status[k]
    BY <1>4 DEF StartTask, Acquire, BeginWork
  <1>5. ASSUME NEW j \in Jobs, CancelWhileWaiting(j) \/ StopWork(j) \/ FinishTask(j)
        PROVE  status'[k] = status[k]
    BY <1>5 DEF CancelWhileWaiting, StopWork, FinishTask, Over, Cancelled, JobInv, TaskOwnsRecord
  <1>6. ASSUME NEW j \in Jobs, RunWork(j) \/ RunnerAnswers(j) PROVE status'[k] = status[k]
    BY <1>6 DEF RunWork, RunnerAnswers, Updated, JobInv, TaskOwnsRecord
  <1>7. ASSUME Crash \/ Shutdown \/ BootRecover \/ BootDone \/ UNCHANGED vars
               \/ (\E p \in AllProjects : DeleteSource(p))
        PROVE  status'[k] = status[k]
    BY <1>7 DEF Crash, Shutdown, BootRecover, BootDone, DeleteSource, Recovered, Interrupted, vars
  <1> QED
    BY <1>1, <1>2, <1>3, <1>4, <1>5, <1>6, <1>7 DEF Next, TaskStep, AllProjects

\* The first state satisfies the whole invariant.
LEMMA AuditInit == Init => AuditInv
  <1> SUFFICES ASSUME Init PROVE AuditInv
    OBVIOUS
  <1>1. TypeOK
    <2>1. Unbound \in Binding
      BY AuditConstants DEF Unbound, Binding
    <2> QED BY <2>1, AuditConstants DEF Init, TypeOK, Status, TaskState
  <1>2. Holders = {} /\ InflightJobs = {}
    BY DEF Init, Holders, Holding, InflightJobs, Inflight
  <1>3. Cardinality(Holders) = 0 /\ Cardinality(InflightJobs) = 0
    BY <1>2, FS_EmptySet
  <1>4. \A o \in Owners : {j \in InflightJobs : binding[j].owner = o} = {}
    BY <1>2
  <1> QED
    BY <1>1, <1>2, <1>3, <1>4, JobInit, FS_EmptySet, AuditConstants
    DEF AuditInv, Init, ConcurrencyBound, OneActivePerProject, LimitsHold

\* The invariant is inductive.
LEMMA AuditStep == AuditInv /\ [Next]_vars => AuditInv'
  BY JobStep, ConcurrencyStep, TypeStep, OneActiveStep, AdmissionStep DEF AuditInv

\* Every reachable state satisfies the invariant.
THEOREM AuditInvariant == Spec => []AuditInv
  BY AuditInit, AuditStep, PTL DEF Spec

\* The state stays typed; with it, the semaphore is never released by a task
\* that did not acquire it nor held by more than MaxConcurrency.
THEOREM AuditTypedAndBounded == Spec => [](TypeOK /\ ConcurrencyBound)
  BY AuditInvariant, PTL DEF AuditInv

\* In a live process every job that is queued, running or cancelling has a
\* task that will end it: no cancellation, crash or restart strands it.
THEOREM NothingIsStranded == Spec => []InflightHasTask
  BY AuditInvariant, PTL DEF AuditInv, JobInv

\* A live process has no workspace but those of its running work.
THEOREM WorkspacesAreOwned == Spec => []NoOrphanWorkspace
  BY AuditInvariant, PTL DEF AuditInv, JobInv

\* A job is posted to the runner at most once.
THEOREM CalledAtMostOnce == Spec => []RunnerCalledOnce
  <1>1. AuditInv => RunnerCalledOnce
    BY DEF AuditInv, JobInv, CalledIsPast, RunnerCalledOnce
  <1> QED BY <1>1, AuditInvariant, PTL

\* A project has at most one analysis in flight, and the jobs in flight stay
\* within the global limit and within that of every owner.
THEOREM AdmissionIsBounded == Spec => []AdmissionBound
  BY AuditInvariant, PTL DEF AuditInv, AdmissionBound

\* A terminal record never changes its outcome.
THEOREM OutcomesAreFinal == Spec => TerminalIsFinal
  <1>1. AuditInv /\ [Next]_vars
            => [\A j \in Jobs : status[j] \in Terminal => status'[j] \in {status[j], "deleted"}]_vars
    BY TerminalStep DEF AuditInv
  <1> QED BY <1>1, AuditInvariant, PTL DEF Spec, TerminalIsFinal

-----------------------------------------------------------------------------
(***************************************************************************)
(* The runner's worker (IsolatedWorker).                                   *)
(***************************************************************************)
(* The subprocess belongs to the request that holds the lock, and that     *)
(* request's directory is the only one from its creation to the end of the *)
(* subprocess.                                                             *)
Contained ==
    /\ holder = Nobody <=> progress = "free"
    /\ progress \in {"prepared", "communicating"} => workspaces = {holder}
    /\ worker.state = "running" => progress = "communicating"
    /\ worker.state = "exited" => progress \in {"communicating", "answered", "ending"}
    /\ progress = "answered" => worker.state = "exited"

WorkerInv == WorkerTypeOK /\ Contained

\* The request that starts removes what earlier ones left, whatever ended them.
LEMMA WorkerStep == WorkerInv /\ [WorkerNext]_workerVars => WorkerInv'
  <1> SUFFICES ASSUME WorkerInv, [WorkerNext]_workerVars PROVE WorkerInv'
    OBVIOUS
  <1> USE WorkerAssumption DEF WorkerInv, WorkerTypeOK, Contained
  <1>1. ASSUME NEW c \in Callers, Submit(c) PROVE WorkerInv'
    BY <1>1 DEF Submit
  <1>2. ASSUME NEW c \in Callers, AcquireWorker(c) PROVE WorkerInv'
    BY <1>2 DEF AcquireWorker, Cleaned
  <1>3. CASE Spawn
    <2>1. Gone.state = "none" /\ [Gone EXCEPT !.state = "running"].state = "running"
      BY DEF Gone
    <2> QED BY <1>3, <2>1 DEF Spawn
  <1>4. CASE WorkerExits
    BY <1>4 DEF WorkerExits
  <1>5. CASE WorkerDies
    BY <1>5 DEF WorkerDies
  <1>6. ASSUME NEW w, w.state \in {"none", "running", "exited"}
        PROVE  Terminated(w).state \in {"none", "exited"} /\ (w.state = "exited" => Terminated(w) = w)
               /\ (w.state # "exited" => Terminated(w).state = "none")
    BY <1>6 DEF Terminated, Gone
  <1>7. CASE TimeoutOrCancel
    <2>1. worker'.state \in {"none", "exited"} /\ progress' = "ending"
      BY <1>6, <1>7 DEF TimeoutOrCancel
    <2> QED BY <1>7, <2>1 DEF TimeoutOrCancel
  <1>8. CASE Collect
    BY <1>8 DEF Collect
  <1>9. Gone.state = "none"
    BY DEF Gone
  <1>10. CASE CleanUp
    <2>1. worker'.state = "none"
      BY <1>6, <1>9, <1>10 DEF CleanUp
    <2> QED BY <1>10, <2>1 DEF CleanUp
  <1>11. CASE CleanUpFails
    <2>1. worker'.state = "none"
      BY <1>6, <1>9, <1>11 DEF CleanUpFails
    <2> QED BY <1>11, <2>1 DEF CleanUpFails
  <1>12. CASE Restart
    BY <1>9, <1>12 DEF Restart
  <1>13. CASE Done \/ UNCHANGED workerVars
    BY <1>13 DEF Done, workerVars
  <1> QED BY <1>1, <1>2, <1>3, <1>4, <1>5, <1>7, <1>8, <1>10, <1>11, <1>12, <1>13 DEF WorkerNext

\* One source at a time is on disk while a subprocess parses it, and no
\* subprocess outlives its request.
THEOREM OneSourceAtATime == WorkerSpec => []SourceContained
  <1>1. WorkerInit => WorkerInv
    BY WorkerAssumption DEF WorkerInit, WorkerInv, WorkerTypeOK, Contained, Gone
  <1>2. WorkerInv => SourceContained
    BY DEF WorkerInv, WorkerTypeOK, Contained, SourceContained
  <1> QED BY <1>1, <1>2, WorkerStep, PTL DEF WorkerSpec

-----------------------------------------------------------------------------
(***************************************************************************)
(* The inventory of an analysis (InventoryEvidence).                       *)
(***************************************************************************)
(* What a request read is what the record holds, or a graph came after it. *)
ReadHolds(x) ==
    x # None => /\ {"components", "overtaken"} \subseteq DOMAIN x
                /\ x.overtaken \/ (record # None /\ x.components = record.components)

(* A record without a graph is the inventory of its result, so that saving *)
(* it again does not change it.                                            *)
EvidenceInv ==
    /\ record # None /\ DOMAIN record.receipts = {} => record = AddComponentInventory(result)
    /\ ReadHolds(flight)
    /\ ReadHolds(intel)

\* No save, and no graph once intelligence is stored, changes the components.
LEMMA EvidenceStep == EvidenceInv /\ [EvidenceNext]_evidence => EvidenceInv'
  <1> SUFFICES ASSUME EvidenceInv, [EvidenceNext]_evidence PROVE EvidenceInv'
    OBVIOUS
  <1>1. CASE CompleteAnalysis
    BY <1>1 DEF CompleteAnalysis, EvidenceInv, ReadHolds
  <1>2. CASE SaveRecord
    <2>1. record' = record /\ UNCHANGED <<result, flight, intel>>
      BY <1>2 DEF SaveRecord, SanitizeForStorage, EvidenceInv
    <2> QED BY <2>1 DEF EvidenceInv, ReadHolds
  <1>3. ASSUME NEW g \in Graphs, AttachDependencyGraph(g) PROVE EvidenceInv'
    <2>1. intel = None /\ intel' = None
      BY <1>3 DEF AttachDependencyGraph, AttachmentTarget
    <2>2. g.eco \in DOMAIN record'.receipts
      BY <1>3 DEF AttachDependencyGraph, AttachDependencyGraphProjection
    <2>3. ReadHolds(flight)'
      <3>1. CASE flight = None
        BY <1>3, <3>1 DEF AttachDependencyGraph, ReadHolds
      <3>2. CASE flight # None
        <4>1. flight' = [flight EXCEPT !.overtaken = TRUE] /\ {"components", "overtaken"} \subseteq DOMAIN flight
          BY <1>3, <3>2 DEF AttachDependencyGraph, EvidenceInv, ReadHolds
        <4> QED BY <4>1 DEF ReadHolds
      <3> QED BY <3>1, <3>2
    <2> QED BY <2>1, <2>2, <2>3 DEF EvidenceInv, ReadHolds
  <1>4. CASE BeginCorrelation
    BY <1>4 DEF BeginCorrelation, EvidenceInv, ReadHolds
  <1>5. CASE EndCorrelation
    BY <1>5 DEF EndCorrelation, EvidenceInv, ReadHolds
  <1>6. CASE UNCHANGED evidence
    BY <1>6 DEF evidence, EvidenceInv, ReadHolds
  <1> QED BY <1>1, <1>2, <1>3, <1>4, <1>5, <1>6 DEF EvidenceNext

\* The stored intelligence is about the inventory the record holds.
THEOREM IntelligenceIsAboutInventory == EvidenceSpec => []EvidenceMatchesInventory
  <1>1. EvidenceInit => EvidenceInv
    BY DEF EvidenceInit, EvidenceInv, ReadHolds
  <1>2. EvidenceInv => EvidenceMatchesInventory
    BY DEF EvidenceInv, ReadHolds, EvidenceMatchesInventory
  <1> QED BY <1>1, <1>2, EvidenceStep, PTL DEF EvidenceSpec

-----------------------------------------------------------------------------
(***************************************************************************)
(* A component called clean was clean.                                     *)
(***************************************************************************)
(* Every component these states call not affected had no advisory at an    *)
(* instant at most `slack` before the query.                               *)
Told(told, at, slack) ==
    \A c \in Names : told[c] = "not_affected" => \E t \in cleanAt[c] : at <= t + slack

(* The same of the components an answer lists no advisory of. *)
Lists(body, at) ==
    \A c \in Names \cap DOMAIN body : body[c] = "none" => \E t \in cleanAt[c] : at <= t

SnapshotFields == {"state", "at", "told", "findings"}
SnapshotHolds(x) ==
    x # None =>
        /\ SnapshotFields \subseteq DOMAIN x
        /\ x.at \in Nat
        /\ Told(x.told, x.at, Retention)
        /\ x.state = "ready" => Told(x.told, x.at, Ttl)

EntryHolds(e) == e # None => e.at \in Nat /\ Lists(e.body, e.at)

OsvPhases == {"batch", "send", "wire", "complete"}
OsvFields == {"phase", "kind", "read", "overtaken", "at", "asked", "todo", "told", "findings",
              "answered", "degraded", "stale", "batch"}
BatchFields == {"cached", "looked", "tries", "pages", "body", "hydrating"}

(* What a correlation has gathered. *)
Gathered(r) ==
    /\ OsvFields \subseteq DOMAIN r
    /\ r.at \in Nat /\ r.at <= now
    /\ r.todo \in Seq(SUBSET Names)
    /\ SnapshotHolds(r.read)
    /\ Told(r.told, r.at, Retention)
    /\ ~r.stale => Told(r.told, r.at, Ttl)

(* What it holds of the batch it is asking about. *)
Asking(r) ==
    LET b == r.batch IN
    /\ r.todo # <<>>
    /\ BatchFields \subseteq DOMAIN b
    /\ b.looked \in Nat /\ r.at <= b.looked /\ b.looked <= now
    /\ b.cached # None => EntryHolds(b.cached) /\ b.looked <= b.cached.at + Retention
    /\ b.hydrating \/ r.phase = "complete" => Lists(b.body, b.looked)

RequestHolds(r) ==
    /\ r.phase \in OsvPhases \cup {"idle", "enrich"}
    /\ r.phase \in OsvPhases => Gathered(r)
    /\ r.phase \in OsvPhases \ {"batch"} => Asking(r)
    /\ r.phase = "enrich" =>
          r.read # None /\ SnapshotHolds(r.read) /\ {"phase", "kind", "read", "overtaken"} \subseteq DOMAIN r

Time ==
    /\ now \in Nat
    /\ cleanAt \in [Names -> SUBSET Nat]
    /\ \A c \in Names \ listed : now \in cleanAt[c]

CleanInv ==
    /\ Time
    /\ DOMAIN cache = SUBSET Names /\ \A b \in SUBSET Names : EntryHolds(cache[b])
    /\ DOMAIN req = Slots /\ \A s \in Slots : RequestHolds(req[s])
    /\ SnapshotHolds(snapshot)

\* The configured bounds are numbers.
LEMMA Bounds == BatchSize \in Nat \ {0} /\ Ttl \in Nat /\ Retention \in Nat /\ MaxNow \in Nat
  BY IntelligenceAssumption

\* The identities are finitely many.
LEMMA NamesFinite == IsFiniteSet(Names)
  <1>1. Components \in Seq(Names)
    BY IntelligenceAssumption DEF Names
  <1>2. Len(Components) \in Nat /\ DOMAIN Components = 1..Len(Components)
    BY <1>1
  <1>3. IsFiniteSet(1..Len(Components))
    BY <1>2, FS_Interval
  <1>4. Names = {Components[i] : i \in 1..Len(Components)}
    BY <1>2 DEF Names, ToSet
  <1>5. Components \in Surjection(1..Len(Components), Names)
    BY <1>1, <1>2, <1>4 DEF Surjection
  <1> QED BY <1>3, <1>5, FS_Surjection

\* The batches of a set of identities are sets of identities.
LEMMA BatchesOfNames ==
  ASSUME NEW set, set \subseteq Names
  PROVE  Batches(set) \in Seq(SUBSET Names)
  <1>2. Cardinality(set) \in Nat
    BY NamesFinite, FS_Subset, FS_CardinalityType
  <1> DEFINE n == (Cardinality(set) + BatchSize - 1) \div BatchSize
  <1>3. n \in Nat
    BY <1>2, Bounds
  <1> HIDE DEF n
  <1>4. Batches(set) = [i \in 1..n |-> {c \in set : Position(set, c) \div BatchSize = i - 1}]
    BY DEF Batches, n
  <1> QED BY <1>3, <1>4

\* What held of a request, an answer or a snapshot holds later: the instants
\* at which a component was clean are never taken back.
LEMMA HoldsLater ==
  ASSUME Time, Time', now <= now', \A c \in Names : cleanAt[c] \subseteq cleanAt'[c], NEW x
  PROVE  /\ \A at, slack : Told(x, at, slack) => Told(x, at, slack)'
         /\ \A at : Lists(x, at) => Lists(x, at)'
         /\ SnapshotHolds(x) => SnapshotHolds(x)'
         /\ EntryHolds(x) => EntryHolds(x)'
  <1>1. ASSUME NEW y, NEW at, NEW slack, Told(y, at, slack) PROVE Told(y, at, slack)'
    BY <1>1 DEF Told
  <1>2. ASSUME NEW y, NEW at, Lists(y, at) PROVE Lists(y, at)'
    BY <1>2 DEF Lists
  <1>3. SnapshotHolds(x) => SnapshotHolds(x)'
    BY <1>1 DEF SnapshotHolds
  <1>4. EntryHolds(x) => EntryHolds(x)'
    BY <1>2 DEF EntryHolds
  <1> QED BY <1>1, <1>2, <1>3, <1>4

\* What held of a request holds after a step that adds instants.
LEMMA RequestHoldsLater ==
  ASSUME Time, Time', now <= now', \A c \in Names : cleanAt[c] \subseteq cleanAt'[c], NEW r, RequestHolds(r)
  PROVE  RequestHolds(r)'
  <1>1. Gathered(r) => Gathered(r)'
    <2> SUFFICES ASSUME Gathered(r) PROVE Gathered(r)'
      OBVIOUS
    <2>1. SnapshotHolds(r.read)' /\ Told(r.told, r.at, Retention)' /\ (~r.stale => Told(r.told, r.at, Ttl)')
      BY HoldsLater DEF Gathered
    <2>2. r.at <= now'
      BY DEF Gathered, Time
    <2> QED BY <2>1, <2>2 DEF Gathered
  <1>2. Asking(r) => Asking(r)'
    <2> SUFFICES ASSUME Asking(r) PROVE Asking(r)'
      OBVIOUS
    <2>1. EntryHolds(r.batch.cached) => EntryHolds(r.batch.cached)'
      BY HoldsLater
    <2>2. Lists(r.batch.body, r.batch.looked) => Lists(r.batch.body, r.batch.looked)'
      BY HoldsLater
    <2>3. r.batch.looked <= now'
      BY DEF Asking, Time
    <2> QED BY <2>1, <2>2, <2>3 DEF Asking
  <1>3. SnapshotHolds(r.read) => SnapshotHolds(r.read)'
    BY HoldsLater
  <1> QED BY <1>1, <1>2, <1>3 DEF RequestHolds

\* A failed batch leaves what was gathered.
LEMMA FailedHolds ==
  ASSUME NEW r, Gathered(r), r.todo # <<>>
  PROVE  RequestHolds(Failed(r))
  <1> DEFINE f == Failed(r)
  <1>1. /\ DOMAIN f = DOMAIN r /\ f.phase = "batch" /\ f.at = r.at /\ f.todo = Tail(r.todo)
        /\ f.read = r.read /\ f.told = r.told /\ f.stale = r.stale
    BY DEF Failed, Gathered, OsvFields
  <1>2. Tail(r.todo) \in Seq(SUBSET Names)
    BY DEF Gathered
  <1> HIDE DEF f
  <1>3. Gathered(f)
    BY <1>1, <1>2 DEF Gathered
  <1>4. RequestHolds(f)
    BY <1>1, <1>3 DEF RequestHolds, OsvPhases
  <1> QED BY <1>4 DEF f

\* An answer adds only what it proves.
LEMMA AnsweredHolds ==
  ASSUME NEW r, Gathered(r), r.todo # <<>>, NEW body, NEW stale,
         \A c \in Names \cap DOMAIN body : body[c] = "none" =>
            \E t \in cleanAt[c] : r.at <= t + Retention /\ (~stale => r.at <= t + Ttl)
  PROVE  RequestHolds(Answered(r, body, stale))
  <1> DEFINE f == Answered(r, body, stale)
             told == [c \in Names |-> IF c \in DOMAIN body THEN StateOf(body[c]) ELSE r.told[c]]
  <1>1. /\ DOMAIN f = DOMAIN r /\ f.phase = "batch" /\ f.at = r.at /\ f.todo = Tail(r.todo)
        /\ f.read = r.read /\ f.told = told
    BY DEF Answered, Gathered, OsvFields
  <1>2. ~f.stale => ~r.stale /\ ~stale
    BY DEF Answered, Gathered, OsvFields
  <1>3. Tail(r.todo) \in Seq(SUBSET Names)
    BY DEF Gathered
  <1> HIDE DEF f
  <1>4. \A c \in DOMAIN body : StateOf(body[c]) = "not_affected" => body[c] = "none"
    BY DEF StateOf
  <1>5. Told(told, r.at, Retention)
    BY <1>4 DEF Told, Gathered
  <1>6. ~f.stale => Told(told, r.at, Ttl)
    BY <1>2, <1>4 DEF Told, Gathered
  <1> HIDE DEF told
  <1>7. Gathered(f)
    BY <1>1, <1>3, <1>5, <1>6 DEF Gathered
  <1>8. RequestHolds(f)
    BY <1>1, <1>7 DEF RequestHolds, OsvPhases
  <1> QED BY <1>8 DEF f

\* The retained response is as old as the retention allows.
LEMMA RetainedHolds ==
  ASSUME Time, NEW r, Gathered(r), Asking(r), r.batch.cached # None
  PROVE  RequestHolds(Answered(r, r.batch.cached.body, TRUE))
  <1> DEFINE b == r.batch
  <1>1. \A c \in Names \cap DOMAIN b.cached.body : b.cached.body[c] = "none" =>
            \E t \in cleanAt[c] : r.at <= t + Retention
    <2> SUFFICES ASSUME NEW c \in Names \cap DOMAIN b.cached.body, b.cached.body[c] = "none"
                 PROVE  \E t \in cleanAt[c] : r.at <= t + Retention
      OBVIOUS
    <2>1. PICK t \in cleanAt[c] : b.cached.at <= t
      BY DEF Asking, EntryHolds, Lists
    <2>2. b.looked <= b.cached.at + Retention /\ r.at <= b.looked /\ b.cached.at \in Nat /\ b.looked \in Nat
      BY DEF Asking, EntryHolds
    <2>3. t \in Nat /\ Retention \in Nat /\ r.at \in Nat
      BY Bounds DEF Time, Gathered
    <2> QED BY <2>1, <2>2, <2>3
  <1>2. r.todo # <<>>
    BY DEF Asking
  <1> QED BY <1>1, <1>2, AnsweredHolds

\* A batch without an answer takes the retained response or fails.
LEMMA UnansweredHolds ==
  ASSUME Time, NEW r, Gathered(r), Asking(r)
  PROVE  RequestHolds(Unanswered(r))
  <1>1. CASE r.batch.cached # None
    BY <1>1, RetainedHolds DEF Unanswered
  <1>2. CASE r.batch.cached = None
    BY <1>2, FailedHolds DEF Unanswered, Asking
  <1> QED BY <1>1, <1>2

\* The complete answer was clean after the lookup.
LEMMA CompleteHolds ==
  ASSUME Time, NEW r, Gathered(r), Asking(r), r.phase = "complete"
  PROVE  RequestHolds(Answered(r, r.batch.body, FALSE)) /\ EntryHolds([body |-> r.batch.body, at |-> r.batch.looked])
  <1> DEFINE b == r.batch
  <1>1. Lists(b.body, b.looked) /\ b.looked \in Nat /\ r.at <= b.looked /\ r.todo # <<>> /\ r.at \in Nat
    BY DEF Asking, Gathered
  <1>2. \A c \in Names \cap DOMAIN b.body : b.body[c] = "none" =>
            \E t \in cleanAt[c] : r.at <= t + Retention /\ r.at <= t + Ttl
    <2> SUFFICES ASSUME NEW c \in Names \cap DOMAIN b.body, b.body[c] = "none"
                 PROVE  \E t \in cleanAt[c] : r.at <= t + Retention /\ r.at <= t + Ttl
      OBVIOUS
    <2>1. PICK t \in cleanAt[c] : b.looked <= t
      BY <1>1 DEF Lists
    <2>2. t \in Nat
      BY DEF Time
    <2> QED BY <1>1, <2>1, <2>2, Bounds
  <1>3. RequestHolds(Answered(r, b.body, FALSE))
    BY <1>1, <1>2, AnsweredHolds
  <1>4. EntryHolds([body |-> b.body, at |-> b.looked])
    BY <1>1 DEF EntryHolds
  <1> QED BY <1>3, <1>4

\* Nothing is known at the start.
LEMMA CleanInit == IntelligenceInit => CleanInv
  <1> SUFFICES ASSUME IntelligenceInit PROVE CleanInv
    OBVIOUS
  <1>1. Time
    BY DEF IntelligenceInit, Time
  <1>2. DOMAIN cache = SUBSET Names /\ \A b \in SUBSET Names : EntryHolds(cache[b])
    BY DEF IntelligenceInit, EntryHolds
  <1>3. RequestHolds(Idle)
    BY DEF RequestHolds, Idle, OsvPhases
  <1>4. DOMAIN req = Slots /\ \A s \in Slots : RequestHolds(req[s])
    BY <1>3 DEF IntelligenceInit
  <1>5. SnapshotHolds(snapshot)
    BY DEF IntelligenceInit, SnapshotHolds
  <1> QED BY <1>1, <1>2, <1>4, <1>5 DEF CleanInv

\* A step within one instant, of one request, that stores no snapshot.
LEMMA OneRequest ==
  ASSUME CleanInv, NEW s \in Slots, NEW r, RequestHolds(r), req' = [req EXCEPT ![s] = r],
         DOMAIN cache' = SUBSET Names, \A b \in SUBSET Names : EntryHolds(cache'[b]),
         UNCHANGED <<now, listed, cleanAt, snapshot>>
  PROVE  CleanInv'
  <1>1. Time'
    BY DEF CleanInv, Time
  <1>2. Time /\ now <= now' /\ \A c \in Names : cleanAt[c] \subseteq cleanAt'[c]
    BY DEF CleanInv, Time
  <1>3. \A b \in SUBSET Names : EntryHolds(cache'[b])
    OBVIOUS
  <1>5. \A b \in SUBSET Names : EntryHolds(cache[b])'
    BY <1>3 DEF EntryHolds, Lists
  <1>6. SnapshotHolds(snapshot)'
    BY DEF CleanInv, SnapshotHolds, Told
  <1>7. DOMAIN req' = Slots /\ \A t \in Slots : RequestHolds(req'[t])
    BY DEF CleanInv
  <1>8. ASSUME NEW t \in Slots PROVE RequestHolds(req[t])'
    <2>1. PICK q : q = req'[t]
      OBVIOUS
    <2>2. RequestHolds(q)
      BY <1>7, <2>1
    <2>3. RequestHolds(q)'
      BY <1>1, <1>2, <2>2, RequestHoldsLater
    <2> QED BY <2>1, <2>3
  <1> QED BY <1>1, <1>5, <1>6, <1>7, <1>8 DEF CleanInv

\* A request starts with no component called clean.
LEMMA BeginOsvHolds ==
  ASSUME CleanInv, NEW s \in Slots, BeginOsv(s)
  PROVE  CleanInv'
  <1> DEFINE approved == {c \in Names : IsApproved(c)}
             told == [c \in Names |-> IF c \in approved THEN "unavailable" ELSE "not_correlatable"]
             r == [phase |-> "batch", kind |-> "osv", read |-> snapshot, overtaken |-> FALSE,
                   at |-> now, asked |-> approved, todo |-> Batches(approved), told |-> told,
                   findings |-> {}, answered |-> {}, degraded |-> FALSE, stale |-> FALSE,
                   batch |-> NoBatch]
  <1>1. req' = [req EXCEPT ![s] = r]
    BY DEF BeginOsv
  <1>2. Batches(approved) \in Seq(SUBSET Names)
    BY BatchesOfNames
  <1>3. \A at, slack : Told(told, at, slack)
    BY DEF Told
  <1>4. /\ DOMAIN r = OsvFields /\ r.phase = "batch" /\ r.read = snapshot /\ r.at = now
        /\ r.todo = Batches(approved) /\ r.told = told
    BY DEF OsvFields
  <1> HIDE DEF r, told, approved
  <1>5. Gathered(r)
    BY <1>2, <1>3, <1>4 DEF Gathered, CleanInv, Time
  <1>6. RequestHolds(r)
    BY <1>4, <1>5 DEF RequestHolds, OsvPhases
  <1>7. UNCHANGED <<now, listed, cleanAt, snapshot>> /\ cache' = cache
    BY DEF BeginOsv
  <1>8. DOMAIN cache' = SUBSET Names /\ \A b \in SUBSET Names : EntryHolds(cache'[b])
    BY <1>7 DEF CleanInv
  <1> QED BY <1>1, <1>6, <1>7, <1>8, OneRequest

\* What the cache returns was an answer, and has not outlived its retention.
LEMMA CacheGetHolds ==
  ASSUME CleanInv, NEW batch \in SUBSET Names
  PROVE  /\ EntryHolds(CacheGet(batch))
         /\ CacheGet(batch) # None => now <= CacheGet(batch).at + Retention
  <1>1. EntryHolds(cache[batch])
    BY DEF CleanInv
  <1>2. CASE CacheGet(batch) = None
    BY <1>2 DEF EntryHolds
  <1>3. CASE CacheGet(batch) # None
    <2>1. cache[batch] # None /\ ~(now > cache[batch].at + Retention) /\ CacheGet(batch) = cache[batch]
      BY <1>3 DEF CacheGet
    <2>2. cache[batch].at \in Nat /\ now \in Nat
      BY <1>1, <2>1 DEF EntryHolds, CleanInv, Time
    <2> QED BY <1>1, <2>1, <2>2, Bounds
  <1> QED BY <1>2, <1>3

\* A batch is answered by a fresh response only, and otherwise asked about.
LEMMA AssembleBatchHolds ==
  ASSUME CleanInv, NEW s \in Slots, AssembleBatch(s)
  PROVE  CleanInv'
  <1> DEFINE r == req[s]
             batch == Head(r.todo)
             entry == CacheGet(batch)
             asking == [r EXCEPT !.phase = "send",
                          !.batch = [NoBatch EXCEPT !.cached = entry, !.looked = now,
                                       !.body = [c \in batch |-> "none"]]]
             next == IF \E c \in batch : ~IsApproved(c) THEN Failed(r)
                     ELSE IF IsFresh(entry) THEN Answered(r, entry.body, FALSE) ELSE asking
  <1>1. r.phase = "batch" /\ r.todo # <<>> /\ req' = [req EXCEPT ![s] = next]
    BY DEF AssembleBatch
  <1>2. cache' = IF \E c \in batch : ~IsApproved(c) THEN cache ELSE [cache EXCEPT ![batch] = entry]
    BY DEF AssembleBatch
  <1>3. UNCHANGED <<now, listed, cleanAt, snapshot>>
    BY DEF AssembleBatch
  <1>4. Gathered(r) /\ Time
    BY <1>1 DEF CleanInv, RequestHolds, OsvPhases
  <1>5. batch \in SUBSET Names
    BY <1>1, <1>4 DEF Gathered
  <1>6. EntryHolds(entry) /\ (entry # None => now <= entry.at + Retention)
    BY <1>5, CacheGetHolds
  <1>7. DOMAIN cache' = SUBSET Names /\ \A b \in SUBSET Names : EntryHolds(cache'[b])
    BY <1>2, <1>5, <1>6 DEF CleanInv
  <1>8. RequestHolds(Failed(r))
    BY <1>1, <1>4, FailedHolds
  <1>9. ASSUME IsFresh(entry) PROVE RequestHolds(Answered(r, entry.body, FALSE))
    <2>1. entry # None /\ now <= entry.at + Ttl
      BY <1>9 DEF IsFresh
    <2>2. entry.at \in Nat /\ Lists(entry.body, entry.at) /\ now <= entry.at + Retention
      BY <1>6, <2>1 DEF EntryHolds
    <2> HIDE DEF entry
    <2>3. ASSUME NEW c \in Names \cap DOMAIN entry.body, entry.body[c] = "none"
          PROVE  \E t \in cleanAt[c] : r.at <= t + Retention /\ (~FALSE => r.at <= t + Ttl)
      <3>1. PICK t \in cleanAt[c] : entry.at <= t
        BY <2>2, <2>3 DEF Lists
      <3>2. t \in Nat /\ now \in Nat /\ r.at \in Nat /\ r.at <= now
        BY <1>4 DEF Time, Gathered
      <3>3. r.at <= t + Retention /\ r.at <= t + Ttl
        BY <2>1, <2>2, <3>1, <3>2, Bounds
      <3> QED BY <3>3
    <2> QED BY <1>1, <1>4, <2>3, AnsweredHolds
  <1>10. RequestHolds(asking)
    <2> DEFINE b == asking.batch
    <2>1. /\ DOMAIN asking = DOMAIN r /\ asking.phase = "send" /\ asking.at = r.at
          /\ asking.todo = r.todo /\ asking.read = r.read /\ asking.told = r.told
          /\ asking.stale = r.stale
      BY <1>4 DEF Gathered, OsvFields
    <2>2. b = [NoBatch EXCEPT !.cached = entry, !.looked = now, !.body = [c \in batch |-> "none"]]
      BY <1>4 DEF Gathered, OsvFields
    <2> HIDE DEF asking, entry, batch
    <2>a. b = [cached |-> entry, looked |-> now, tries |-> 0, pages |-> 0,
               body |-> [c \in batch |-> "none"], hydrating |-> FALSE]
      BY <2>2 DEF NoBatch
    <2>3. BatchFields \subseteq DOMAIN b /\ b.looked = now /\ b.cached = entry /\ b.hydrating = FALSE
      BY <2>a DEF BatchFields
    <2>4. Gathered(asking)
      BY <1>4, <2>1 DEF Gathered
    <2>5. Asking(asking)
      BY <1>1, <1>4, <1>6, <2>1, <2>3 DEF Asking, Gathered, Time
    <2> QED BY <2>1, <2>4, <2>5 DEF RequestHolds, OsvPhases
  <1> HIDE DEF asking, entry
  <1>11. RequestHolds(next)
    BY <1>8, <1>9, <1>10
  <1> HIDE DEF next
  <1> QED BY <1>1, <1>3, <1>7, <1>11, OneRequest

\* The request of a batch that is being asked about.
LEMMA AskingSlot ==
  ASSUME CleanInv, NEW s \in Slots, req[s].phase \in {"send", "wire", "complete"}
  PROVE  /\ Time /\ Gathered(req[s]) /\ Asking(req[s]) /\ OsvFields \subseteq DOMAIN req[s]
         /\ BatchFields \subseteq DOMAIN req[s].batch
         /\ DOMAIN cache = SUBSET Names /\ \A b \in SUBSET Names : EntryHolds(cache[b])
         /\ RequestHolds(Unanswered(req[s]))
  <1>1. Time /\ Gathered(req[s]) /\ Asking(req[s])
    BY DEF CleanInv, RequestHolds, OsvPhases
  <1>2. RequestHolds(Unanswered(req[s]))
    BY <1>1, UnansweredHolds
  <1> QED BY <1>1, <1>2 DEF CleanInv, Gathered, Asking

\* Another value of the counters, the body and the phase of a request.
LEMMA AskingOn ==
  ASSUME NEW r, NEW q, Gathered(r), Asking(r),
         DOMAIN q = DOMAIN r, q.phase \in {"send", "wire", "complete"},
         \A f \in OsvFields \ {"phase", "batch"} : q[f] = r[f],
         DOMAIN q.batch = DOMAIN r.batch,
         q.batch.cached = r.batch.cached, q.batch.looked = r.batch.looked,
         q.batch.hydrating \/ q.phase = "complete" => Lists(q.batch.body, q.batch.looked)
  PROVE  RequestHolds(q)
  <1>1. q.at = r.at /\ q.todo = r.todo /\ q.read = r.read /\ q.told = r.told /\ q.stale = r.stale
    BY DEF OsvFields
  <1>2. Gathered(q)
    BY <1>1 DEF Gathered
  <1>3. Asking(q)
    BY <1>1 DEF Asking
  <1> QED BY <1>2, <1>3 DEF RequestHolds, OsvPhases

\* A send that fails uses the retained response; one that starts changes nothing.
LEMMA StartSendHolds ==
  ASSUME CleanInv, NEW s \in Slots, StartSend(s)
  PROVE  CleanInv'
  <1> DEFINE r == req[s]
             q == [r EXCEPT !.phase = "wire", !.batch.tries = 1]
             next == IF CircuitIsOpen \/ Cardinality(Sending) >= Permits THEN Unanswered(r) ELSE q
  <1>1. r.phase = "send" /\ req' = [req EXCEPT ![s] = next] /\ UNCHANGED <<now, listed, cleanAt, cache, snapshot>>
    BY DEF StartSend, CleanInv
  <1>2. /\ Time /\ Gathered(r) /\ Asking(r) /\ OsvFields \subseteq DOMAIN r
        /\ BatchFields \subseteq DOMAIN r.batch
        /\ DOMAIN cache = SUBSET Names /\ \A b \in SUBSET Names : EntryHolds(cache[b])
        /\ RequestHolds(Unanswered(r))
    BY <1>1, AskingSlot
  <1>3. /\ DOMAIN q = DOMAIN r /\ q.phase = "wire" /\ \A f \in OsvFields \ {"phase", "batch"} : q[f] = r[f]
        /\ q.batch = [r.batch EXCEPT !.tries = 1]
    BY <1>2 DEF OsvFields
  <1> HIDE DEF q
  <1>4. /\ DOMAIN q.batch = DOMAIN r.batch /\ q.batch.cached = r.batch.cached
        /\ q.batch.looked = r.batch.looked /\ q.batch.hydrating = r.batch.hydrating /\ q.batch.body = r.batch.body
    BY <1>2, <1>3 DEF BatchFields
  <1>5. q.batch.hydrating \/ q.phase = "complete" => Lists(q.batch.body, q.batch.looked)
    BY <1>2, <1>3, <1>4 DEF Asking
  <1>6. RequestHolds(q)
    BY <1>2, <1>3, <1>4, <1>5, AskingOn
  <1>7. RequestHolds(next)
    BY <1>2, <1>6
  <1> HIDE DEF next
  <1> QED BY <1>1, <1>2, <1>7, OneRequest

\* The pages are all read when no component has more: what none of them listed
\* the provider does not list now.
LEMMA ReceivePageHolds ==
  ASSUME CleanInv, NEW s \in Slots, NEW seen, NEW more, ReceivePage(s, seen, more)
  PROVE  CleanInv'
  <1> DEFINE r == req[s]
             batch == Head(r.todo)
             body == [c \in batch |-> IF c \in seen THEN "listed" ELSE r.batch.body[c]]
             q == [r EXCEPT !.batch.body = body, !.batch.pages = @ + 1,
                     !.batch.hydrating = (more = {}),
                     !.phase = IF more # {} \/ \E c \in batch : body[c] = "listed"
                               THEN "send" ELSE "complete"]
             next == IF IncompletePages(r, more) THEN Unanswered(r) ELSE q
  <1>1. r.phase = "wire" /\ req' = [req EXCEPT ![s] = next] /\ UNCHANGED <<now, listed, cleanAt, cache, snapshot>>
    BY DEF ReceivePage
  <1>2. {c \in batch \cap listed : body[c] = "none"} \subseteq more
    BY DEF ReceivePage
  <1>3. /\ Time /\ Gathered(r) /\ Asking(r) /\ OsvFields \subseteq DOMAIN r
        /\ BatchFields \subseteq DOMAIN r.batch
        /\ DOMAIN cache = SUBSET Names /\ \A b \in SUBSET Names : EntryHolds(cache[b])
        /\ RequestHolds(Unanswered(r))
    BY <1>1, AskingSlot
  <1>4. DOMAIN body = batch
    OBVIOUS
  <1> HIDE DEF body
  <1>5. /\ DOMAIN q = DOMAIN r /\ q.phase \in {"send", "complete"} /\ (q.phase = "complete" => more = {})
        /\ \A f \in OsvFields \ {"phase", "batch"} : q[f] = r[f]
        /\ q.batch = [r.batch EXCEPT !.body = body, !.pages = @ + 1, !.hydrating = (more = {})]
    BY <1>3 DEF OsvFields
  <1> HIDE DEF q
  <1>6. /\ DOMAIN q.batch = DOMAIN r.batch /\ q.batch.cached = r.batch.cached
        /\ q.batch.looked = r.batch.looked /\ q.batch.body = body
        /\ (q.batch.hydrating => more = {})
    BY <1>3, <1>5 DEF BatchFields
  <1>7. ASSUME more = {} PROVE Lists(body, r.batch.looked)
    <2> SUFFICES ASSUME NEW c \in Names \cap DOMAIN body, body[c] = "none"
                 PROVE  \E t \in cleanAt[c] : r.batch.looked <= t
      BY DEF Lists
    <2>1. c \notin listed
      BY <1>2, <1>4, <1>7
    <2>2. now \in cleanAt[c] /\ r.batch.looked <= now
      BY <1>3, <2>1 DEF Time, Asking
    <2> QED BY <2>2
  <1>8. q.batch.hydrating \/ q.phase = "complete" => Lists(q.batch.body, q.batch.looked)
    BY <1>5, <1>6, <1>7
  <1>9. RequestHolds(q)
    BY <1>3, <1>5, <1>6, <1>8, AskingOn
  <1>10. RequestHolds(next)
    BY <1>3, <1>9
  <1> HIDE DEF next
  <1> QED BY <1>1, <1>3, <1>10, OneRequest

\* The details of an advisory never turn a listed component into a clean one.
LEMMA ReceiveDetailsHolds ==
  ASSUME CleanInv, NEW s \in Slots, NEW verdict \in {"affected", "withdrawn", "incomplete"},
         ReceiveDetails(s, verdict)
  PROVE  CleanInv'
  <1> DEFINE r == req[s]
             body == [c \in DOMAIN r.batch.body |->
                        IF r.batch.body[c] = "listed" THEN verdict ELSE r.batch.body[c]]
             q == [r EXCEPT !.phase = "complete", !.batch.body = body]
  <1>1. r.phase = "wire" /\ r.batch.hydrating /\ UNCHANGED <<now, listed, cleanAt, cache, snapshot>>
    BY DEF ReceiveDetails
  <1>2. /\ Time /\ Gathered(r) /\ Asking(r) /\ OsvFields \subseteq DOMAIN r
        /\ BatchFields \subseteq DOMAIN r.batch
        /\ DOMAIN cache = SUBSET Names /\ \A b \in SUBSET Names : EntryHolds(cache[b])
    BY <1>1, AskingSlot
  <1>3. req' = [req EXCEPT ![s] = q]
    BY <1>2 DEF ReceiveDetails, CleanInv, OsvFields, BatchFields
  <1>4. \A c \in DOMAIN body : c \in DOMAIN r.batch.body /\ (body[c] = "none" => r.batch.body[c] = "none")
    OBVIOUS
  <1> HIDE DEF body
  <1>5. /\ DOMAIN q = DOMAIN r /\ q.phase = "complete"
        /\ \A f \in OsvFields \ {"phase", "batch"} : q[f] = r[f]
        /\ q.batch = [r.batch EXCEPT !.body = body]
    BY <1>2 DEF OsvFields
  <1> HIDE DEF q
  <1>6. /\ DOMAIN q.batch = DOMAIN r.batch /\ q.batch.cached = r.batch.cached
        /\ q.batch.looked = r.batch.looked /\ q.batch.body = body
    BY <1>2, <1>5 DEF BatchFields
  <1>7. Lists(body, r.batch.looked)
    BY <1>1, <1>2, <1>4 DEF Asking, Lists
  <1>8. RequestHolds(q)
    BY <1>2, <1>5, <1>6, <1>7, AskingOn
  <1> QED BY <1>1, <1>2, <1>3, <1>8, OneRequest

\* A retry learns nothing.
LEMMA RetrySendHolds ==
  ASSUME CleanInv, NEW s \in Slots, RetrySend(s)
  PROVE  CleanInv'
  <1> DEFINE r == req[s]
             q == [r EXCEPT !.batch.tries = @ + 1]
  <1>1. r.phase = "wire" /\ UNCHANGED <<now, listed, cleanAt, cache, snapshot>> /\ req' = [req EXCEPT ![s] = q]
    BY DEF RetrySend, CleanInv
  <1>2. /\ Time /\ Gathered(r) /\ Asking(r) /\ OsvFields \subseteq DOMAIN r
        /\ BatchFields \subseteq DOMAIN r.batch
        /\ DOMAIN cache = SUBSET Names /\ \A b \in SUBSET Names : EntryHolds(cache[b])
    BY <1>1, AskingSlot
  <1>3. /\ DOMAIN q = DOMAIN r /\ q.phase = r.phase
        /\ \A f \in OsvFields \ {"phase", "batch"} : q[f] = r[f]
        /\ q.batch = [r.batch EXCEPT !.tries = @ + 1]
    BY <1>2 DEF OsvFields
  <1> HIDE DEF q
  <1>4. /\ DOMAIN q.batch = DOMAIN r.batch /\ q.batch.cached = r.batch.cached
        /\ q.batch.looked = r.batch.looked /\ q.batch.body = r.batch.body /\ q.batch.hydrating = r.batch.hydrating
    BY <1>2, <1>3 DEF BatchFields
  <1>5. q.batch.hydrating \/ q.phase = "complete" => Lists(q.batch.body, q.batch.looked)
    BY <1>1, <1>2, <1>3, <1>4 DEF Asking
  <1>6. RequestHolds(q)
    BY <1>1, <1>2, <1>3, <1>4, <1>5, AskingOn
  <1> QED BY <1>1, <1>2, <1>6, OneRequest

\* A send that fails ends its batch without an answer.
LEMMA FailSendHolds ==
  ASSUME CleanInv, NEW s \in Slots, NEW counted, FailSend(s, counted)
  PROVE  CleanInv'
  <1>1. /\ req[s].phase = "wire" /\ UNCHANGED <<now, listed, cleanAt, cache, snapshot>>
        /\ req' = [req EXCEPT ![s] = Unanswered(req[s])]
    BY DEF FailSend, CleanInv
  <1>2. /\ DOMAIN cache = SUBSET Names /\ \A b \in SUBSET Names : EntryHolds(cache[b])
        /\ RequestHolds(Unanswered(req[s]))
    BY <1>1, AskingSlot
  <1> QED BY <1>1, <1>2, OneRequest

\* The answer that is cached is as old as its lookup.
LEMMA CompleteBatchHolds ==
  ASSUME CleanInv, NEW s \in Slots, NEW written \in BOOLEAN, CompleteBatch(s, written)
  PROVE  CleanInv'
  <1> DEFINE r == req[s]
             entry == [body |-> r.batch.body, at |-> r.batch.looked]
             next == IF ~written /\ r.batch.cached # None
                     THEN Answered(r, r.batch.cached.body, TRUE)
                     ELSE Answered(r, r.batch.body, FALSE)
  <1>1. r.phase = "complete" /\ UNCHANGED <<now, listed, cleanAt, snapshot>> /\ req' = [req EXCEPT ![s] = next]
    BY DEF CompleteBatch
  <1>2. cache' = IF written THEN [cache EXCEPT ![Head(r.todo)] = entry] ELSE cache
    BY DEF CompleteBatch
  <1>3. /\ Time /\ Gathered(r) /\ Asking(r)
        /\ DOMAIN cache = SUBSET Names /\ \A b \in SUBSET Names : EntryHolds(cache[b])
    BY <1>1, AskingSlot
  <1>4. RequestHolds(Answered(r, r.batch.body, FALSE)) /\ EntryHolds(entry)
    BY <1>1, <1>3, CompleteHolds
  <1>5. RequestHolds(next)
    BY <1>3, <1>4, RetainedHolds
  <1> HIDE DEF entry, next
  <1>6. DOMAIN cache' = SUBSET Names /\ \A b \in SUBSET Names : EntryHolds(cache'[b])
    BY <1>2, <1>3, <1>4
  <1> QED BY <1>1, <1>5, <1>6, OneRequest

\* A snapshot that is stored leaves the other requests what they hold.
LEMMA StoredHolds ==
  ASSUME CleanInv, NEW s \in Slots, NEW value, SnapshotHolds(value), Stored(s, value),
         UNCHANGED <<now, listed, cleanAt, cache>>
  PROVE  CleanInv'
  <1>1. Time' /\ Time /\ now <= now' /\ \A c \in Names : cleanAt[c] \subseteq cleanAt'[c]
    BY DEF CleanInv, Time
  <1>2. DOMAIN cache' = SUBSET Names /\ \A b \in SUBSET Names : EntryHolds(cache[b])'
    BY DEF CleanInv, EntryHolds, Lists
  <1>3. SnapshotHolds(snapshot)'
    BY DEF Stored, SnapshotHolds, Told
  <1>4. DOMAIN req' = Slots
    BY DEF Stored
  <1>5. RequestHolds(Idle)
    BY DEF RequestHolds, Idle, OsvPhases
  <1>6. ASSUME NEW t \in Slots PROVE RequestHolds(req'[t])
    <2> DEFINE r == req[t]
               q == [r EXCEPT !.overtaken = TRUE]
    <2>1. RequestHolds(r)
      BY DEF CleanInv
    <2>2. CASE t = s \/ r.phase = "idle"
      BY <1>5, <2>2 DEF Stored
    <2>3. CASE t # s /\ r.phase \in OsvPhases
      <3>1. Gathered(r) /\ req'[t] = q
        BY <2>1, <2>3 DEF Stored, RequestHolds, OsvPhases
      <3>2. /\ DOMAIN q = DOMAIN r /\ q.phase = r.phase /\ q.at = r.at /\ q.todo = r.todo
            /\ q.read = r.read /\ q.told = r.told /\ q.stale = r.stale /\ q.batch = r.batch
        BY <3>1 DEF Gathered, OsvFields
      <3> HIDE DEF q
      <3>3. Gathered(q)
        BY <3>1, <3>2 DEF Gathered
      <3>4. Asking(r) => Asking(q)
        BY <3>2 DEF Asking
      <3>5. RequestHolds(q)
        BY <2>1, <2>3, <3>2, <3>3, <3>4 DEF RequestHolds, OsvPhases
      <3> QED BY <3>1, <3>5
    <2>4. CASE t # s /\ r.phase = "enrich"
      <3>1. {"phase", "kind", "read", "overtaken"} \subseteq DOMAIN r /\ req'[t] = q
        BY <2>1, <2>4 DEF Stored, RequestHolds
      <3>2. DOMAIN q = DOMAIN r /\ q.phase = r.phase /\ q.read = r.read
        BY <3>1
      <3> HIDE DEF q
      <3>3. RequestHolds(q)
        BY <2>1, <2>4, <3>1, <3>2 DEF RequestHolds, OsvPhases
      <3> QED BY <3>1, <3>3
    <2> QED BY <2>1, <2>2, <2>3, <2>4 DEF RequestHolds
  <1>7. ASSUME NEW t \in Slots PROVE RequestHolds(req[t])'
    <2>1. PICK q : q = req'[t]
      OBVIOUS
    <2>2. RequestHolds(q)
      BY <1>6, <2>1
    <2>3. RequestHolds(q)'
      BY <1>1, <2>2, RequestHoldsLater
    <2> QED BY <2>1, <2>3
  <1> QED BY <1>1, <1>2, <1>3, <1>4, <1>7 DEF CleanInv

\* The merge with the previous findings keeps the states and the time of the
\* refresh.
LEMMA RetainHolds ==
  ASSUME NEW previous, NEW x, x # None => SnapshotHolds(x), SnapshotFields \subseteq DOMAIN x,
         x.at \in Nat, Told(x.told, x.at, Retention), x.state = "ready" => Told(x.told, x.at, Ttl)
  PROVE  SnapshotHolds(RetainPrevious(previous, x))
  <1> DEFINE y == RetainPrevious(previous, x)
  <1>1. DOMAIN y = DOMAIN x /\ y.at = x.at /\ y.told = x.told /\ y.state = x.state
    BY DEF RetainPrevious, SnapshotFields
  <1> HIDE DEF y
  <1>2. SnapshotHolds(y)
    BY <1>1 DEF SnapshotHolds
  <1> QED BY <1>2 DEF y

\* The stored correlation is what was gathered.
LEMMA StoreOsvHolds ==
  ASSUME CleanInv, NEW s \in Slots, StoreOsv(s)
  PROVE  CleanInv'
  <1> DEFINE r == req[s]
             x == SnapshotOf(r)
  <1>1. r.phase = "batch" /\ Stored(s, RetainPrevious(r.read, x)) /\ UNCHANGED <<now, listed, cleanAt, cache>>
    BY DEF StoreOsv
  <1>2. Gathered(r)
    BY <1>1 DEF CleanInv, RequestHolds, OsvPhases
  <1>3. DOMAIN x = SnapshotFields /\ x.at = r.at /\ x.told = r.told /\ (x.state = "ready" => ~r.stale)
    BY DEF SnapshotOf, SnapshotFields
  <1> HIDE DEF x
  <1>4. SnapshotHolds(RetainPrevious(r.read, x))
    <2>1. x.at \in Nat /\ Told(x.told, x.at, Retention) /\ (x.state = "ready" => Told(x.told, x.at, Ttl))
      BY <1>2, <1>3 DEF Gathered
    <2>2. SnapshotHolds(x)
      BY <1>3, <2>1 DEF SnapshotHolds
    <2> QED BY <1>3, <2>1, <2>2, RetainHolds
  <1> QED BY <1>1, <1>4, StoredHolds

\* A controlled failure calls nothing clean.
LEMMA StoreControlledFailureHolds ==
  ASSUME CleanInv, NEW s \in Slots, StoreControlledFailure(s)
  PROVE  CleanInv'
  <1> DEFINE r == req[s]
             told == [c \in Names |-> IF c \in r.asked THEN "unavailable" ELSE "not_correlatable"]
             x == ControlledFailure(r)
  <1>1. Stored(s, RetainPrevious(r.read, x)) /\ UNCHANGED <<now, listed, cleanAt, cache>>
    BY DEF StoreControlledFailure
  <1>2. DOMAIN x = SnapshotFields /\ x.at = now /\ x.told = told /\ now \in Nat
    BY DEF ControlledFailure, SnapshotFields, CleanInv, Time
  <1>3. \A at, slack : Told(told, at, slack)
    BY DEF Told
  <1> HIDE DEF x, told
  <1>4. SnapshotHolds(x)
    BY <1>2, <1>3 DEF SnapshotHolds
  <1>5. SnapshotHolds(RetainPrevious(r.read, x))
    BY <1>2, <1>3, <1>4, RetainHolds
  <1> QED BY <1>1, <1>5, StoredHolds

\* An enrichment starts from the stored snapshot.
LEMMA BeginEnrichmentHolds ==
  ASSUME CleanInv, NEW s \in Slots, NEW provider, BeginEnrichment(s, provider)
  PROVE  CleanInv'
  <1> DEFINE r == [phase |-> "enrich", kind |-> provider, read |-> snapshot, overtaken |-> FALSE]
  <1>1. /\ req' = [req EXCEPT ![s] = r] /\ UNCHANGED <<now, listed, cleanAt, cache, snapshot>>
        /\ snapshot # None
    BY DEF BeginEnrichment
  <1>2. DOMAIN r = {"phase", "kind", "read", "overtaken"} /\ r.phase = "enrich" /\ r.read = snapshot
    OBVIOUS
  <1> HIDE DEF r
  <1>3. RequestHolds(r)
    BY <1>1, <1>2 DEF RequestHolds, OsvPhases, CleanInv
  <1>4. DOMAIN cache' = SUBSET Names /\ \A b \in SUBSET Names : EntryHolds(cache'[b])
    BY <1>1 DEF CleanInv
  <1> QED BY <1>1, <1>3, <1>4, OneRequest

\* An enrichment changes findings and state, and never makes a snapshot ready.
LEMMA EndEnrichmentHolds ==
  ASSUME CleanInv, NEW s \in Slots, NEW gained, NEW lost, NEW stale \in BOOLEAN,
         EndEnrichment(s, gained, lost, stale)
  PROVE  CleanInv'
  <1> DEFINE read == req[s].read
             all == DOMAIN read.findings
             g == CorroborateGithub(read, gained, lost, stale)
             n == EnrichNvd(read, gained, lost, stale)
             k == CorrelateCisaKev(read, gained = all, stale)
             value == CASE req[s].kind = "github_advisories" -> g [] req[s].kind = "nvd" -> n [] OTHER -> k
  <1>1. req[s].phase = "enrich" /\ Stored(s, value) /\ UNCHANGED <<now, listed, cleanAt, cache>>
    BY DEF EndEnrichment
  <1>2. read # None /\ SnapshotHolds(read)
    BY <1>1 DEF CleanInv, RequestHolds
  <1>3. /\ SnapshotFields \subseteq DOMAIN read /\ read.at \in Nat /\ Told(read.told, read.at, Retention)
        /\ read.state = "ready" => Told(read.told, read.at, Ttl)
    BY <1>2 DEF SnapshotHolds
  <1>4. \A state : Aged(state, stale) = "ready" => state = "ready"
    BY DEF Aged
  <1>5. DOMAIN g = DOMAIN read /\ g.at = read.at /\ g.told = read.told /\ (g.state = "ready" => read.state = "ready")
    BY <1>3, <1>4 DEF CorroborateGithub, SnapshotFields
  <1>6. DOMAIN n = DOMAIN read /\ n.at = read.at /\ n.told = read.told /\ (n.state = "ready" => read.state = "ready")
    BY <1>3, <1>4 DEF EnrichNvd, SnapshotFields
  <1>7. DOMAIN k = DOMAIN read /\ k.at = read.at /\ k.told = read.told /\ (k.state = "ready" => read.state = "ready")
    BY <1>3, <1>4 DEF CorrelateCisaKev, SnapshotFields
  <1> HIDE DEF g, n, k
  <1>8. SnapshotHolds(g) /\ SnapshotHolds(n) /\ SnapshotHolds(k)
    BY <1>3, <1>5, <1>6, <1>7 DEF SnapshotHolds
  <1>9. SnapshotHolds(value)
    BY <1>8
  <1> HIDE DEF value
  <1> QED BY <1>1, <1>9, StoredHolds

\* A step that only adds instants, and changes no request, answer or snapshot.
LEMMA LaterHolds ==
  ASSUME CleanInv, Time', now <= now', \A c \in Names : cleanAt[c] \subseteq cleanAt'[c],
         UNCHANGED <<cache, req, snapshot>>
  PROVE  CleanInv'
  <1>1. Time
    BY DEF CleanInv
  <1>2. SnapshotHolds(snapshot)'
    <2>1. PICK x : x = snapshot
      OBVIOUS
    <2>2. SnapshotHolds(x)'
      BY <1>1, <2>1, HoldsLater DEF CleanInv
    <2> QED BY <2>1, <2>2
  <1>3. ASSUME NEW b \in SUBSET Names PROVE EntryHolds(cache[b])'
    <2>1. PICK x : x = cache[b]
      OBVIOUS
    <2>2. EntryHolds(x)'
      BY <1>1, <2>1, HoldsLater DEF CleanInv
    <2> QED BY <2>1, <2>2
  <1>4. ASSUME NEW s \in Slots PROVE RequestHolds(req[s])'
    <2>1. PICK q : q = req[s]
      OBVIOUS
    <2>2. RequestHolds(q)'
      BY <1>1, <2>1, RequestHoldsLater DEF CleanInv
    <2> QED BY <2>1, <2>2
  <1> QED BY <1>2, <1>3, <1>4 DEF CleanInv

\* A change at the provider opens an instant and closes none.
LEMMA ProviderChangesHolds ==
  ASSUME CleanInv, NEW c \in Names, ProviderChanges(c)
  PROVE  CleanInv'
  <1>1. Time' /\ now <= now' /\ \A d \in Names : cleanAt[d] \subseteq cleanAt'[d]
    BY DEF CleanInv, Time, ProviderChanges
  <1> QED BY <1>1, LaterHolds DEF ProviderChanges

\* Time passes.
LEMMA TickHolds ==
  ASSUME CleanInv, Tick
  PROVE  CleanInv'
  <1>1. Time' /\ now <= now' /\ \A c \in Names : cleanAt[c] \subseteq cleanAt'[c]
    BY DEF CleanInv, Time, Tick
  <1> QED BY <1>1, LaterHolds DEF Tick

\* A stop forgets the requests.
LEMMA StopHolds ==
  ASSUME CleanInv, Stop
  PROVE  CleanInv'
  <1>1. Time'
    BY DEF CleanInv, Time, Stop
  <1>2. RequestHolds(Idle)'
    BY DEF RequestHolds, Idle, OsvPhases
  <1>3. DOMAIN req' = Slots /\ \A s \in Slots : RequestHolds(req[s])'
    BY <1>2 DEF Stop, Idle
  <1>4. SnapshotHolds(snapshot)' /\ DOMAIN cache' = SUBSET Names /\ \A b \in SUBSET Names : EntryHolds(cache[b])'
    BY DEF CleanInv, Stop, SnapshotHolds, EntryHolds, Told, Lists
  <1> QED BY <1>1, <1>3, <1>4 DEF CleanInv

\* Every step keeps the proof behind each clean component.
LEMMA CleanStep == CleanInv /\ [IntelligenceNext]_intelligence => CleanInv'
  <1> SUFFICES ASSUME CleanInv, [IntelligenceNext]_intelligence PROVE CleanInv'
    OBVIOUS
  <1>1. ASSUME UNCHANGED <<now, listed, cleanAt, cache, req, snapshot>> PROVE CleanInv'
    BY <1>1 DEF CleanInv, Time, SnapshotHolds, EntryHolds, RequestHolds, Gathered, Asking, Told, Lists
  <1>2. CASE UNCHANGED intelligence
    BY <1>1, <1>2 DEF intelligence
  <1>3. ASSUME NEW c \in Names, ProposePublicIdentity(c) \/ ApprovePublicIdentity(c) \/ RevokePublicIdentity(c)
        PROVE  CleanInv'
    BY <1>1, <1>3 DEF ProposePublicIdentity, ApprovePublicIdentity, RevokePublicIdentity
  <1> QED BY <1>2, <1>3, BeginOsvHolds, AssembleBatchHolds, StartSendHolds, ReceivePageHolds,
             ReceiveDetailsHolds, RetrySendHolds, FailSendHolds, CompleteBatchHolds, StoreOsvHolds,
             StoreControlledFailureHolds, BeginEnrichmentHolds, EndEnrichmentHolds,
             ProviderChangesHolds, TickHolds, StopHolds DEF IntelligenceNext

\* Failed sends, cut answers, stale responses and overtaken requests never make
\* a component look clean.
THEOREM NeverFalselyClean == IntelligenceSpec => []NoFalseClean
  <1>1. CleanInv => NoFalseClean
    BY DEF CleanInv, SnapshotHolds, Told, NoFalseClean
  <1> QED BY <1>1, CleanInit, CleanStep, PTL DEF IntelligenceSpec

(***************************************************************************)
(* A refresh keeps what it was not told to forget.                         *)
(***************************************************************************)
(* The identities of the batches still to be asked about. *)
Pending(todo) == UNION {todo[i] : i \in DOMAIN todo}

Retained == {"ready", "stale", "degraded"}

SnapshotKept(x) ==
    x # None =>
        /\ x.state \in Retained \cup {"no_correlatable_components"}
        /\ x.state = "no_correlatable_components" => DOMAIN x.findings = {}

(* A correlation accounts for every identity it may ask about, unless it is *)
(* degraded. *)
Accounts(r) ==
    /\ r.kind = "osv" /\ r.todo \in Seq(SUBSET r.asked)
    /\ r.findings \subseteq r.answered /\ r.answered \subseteq r.asked
    /\ ~r.degraded => r.asked \subseteq r.answered \cup Pending(r.todo)

(* Its answers are about the batch they are answers to. *)
AboutBatch(r) ==
    /\ DOMAIN r.batch.body = Head(r.todo)
    /\ r.batch.cached # None => DOMAIN r.batch.cached.body = Head(r.todo)

RequestKept(r) ==
    /\ r.phase \in OsvPhases => Accounts(r)
    /\ r.phase \in OsvPhases \ {"batch"} => AboutBatch(r)
    /\ r.phase = "enrich" => r.kind \in Secondary /\ r.read.state \in Retained
    /\ r.phase # "idle" => (~r.overtaken => r.read = snapshot)

CacheKept(c) == \A b \in SUBSET Names : c[b] # None => DOMAIN c[b].body = b

KeptInv ==
    /\ CleanInv
    /\ CacheKept(cache)
    /\ \A s \in Slots : RequestKept(req[s])
    /\ SnapshotKept(snapshot)

\* A natural number and the quotient of a division.
LEMMA Floor ==
  ASSUME NEW p \in Nat, NEW d \in Nat, d > 0
  PROVE  p \div d \in Nat /\ d * (p \div d) <= p /\ p < d * (p \div d) + d
  BY SMTT(20)

\* The quotients of ordered numbers are ordered.
LEMMA FactorOrder ==
  ASSUME NEW d \in Nat, d > 0, NEW a \in Nat, NEW b \in Nat, d * a < d * b
  PROVE  a < b
  BY SMTT(20)

\* The last batch reaches the last identity.
LEMMA Ceiling ==
  ASSUME NEW p \in Nat, NEW n \in Nat, NEW d \in Nat, d > 0, p < n
  PROVE  p \div d + 1 \in 1 .. (n + d - 1) \div d
  <1> DEFINE q == p \div d
             m == (n + d - 1) \div d
  <1>1. n + d - 1 \in Nat
    OBVIOUS
  <1>2. q \in Nat /\ d * q <= p
    BY Floor
  <1>3. m \in Nat /\ n + d - 1 < d * m + d
    BY <1>1, Floor
  <1> HIDE DEF q, m
  <1>4. d * q \in Nat /\ d * m \in Nat /\ d * q < d * m
    BY <1>2, <1>3
  <1>5. q < m
    BY <1>2, <1>3, <1>4, FactorOrder
  <1> QED BY <1>2, <1>3, <1>5 DEF q, m

\* Every identity of a set is in one of its batches.
LEMMA BatchesCover ==
  ASSUME NEW set, set \subseteq Names
  PROVE  Batches(set) \in Seq(SUBSET set) /\ set \subseteq Pending(Batches(set))
  <1>1. IsFiniteSet(set) /\ Cardinality(set) \in Nat
    BY NamesFinite, FS_Subset, FS_CardinalityType
  <1> DEFINE n == (Cardinality(set) + BatchSize - 1) \div BatchSize
             Part(i) == {c \in set : Position(set, c) \div BatchSize = i - 1}
  <1>2. n \in Nat
    BY <1>1, Bounds
  <1>3. Batches(set) = [i \in 1..n |-> Part(i)]
    BY DEF Batches
  <1>4. ASSUME NEW c \in set PROVE c \in Pending(Batches(set))
    <2> DEFINE before == {d \in set : \E i, j \in DOMAIN Components :
                                i < j /\ Components[i] = d /\ Components[j] = c}
    <2>1. before \subseteq set /\ c \notin before
      BY IntelligenceAssumption
    <2> HIDE DEF before
    <2>2. IsFiniteSet(before) /\ Cardinality(before) < Cardinality(set) /\ Cardinality(before) \in Nat
      <3>1. IsFiniteSet(before) /\ Cardinality(before) <= Cardinality(set)
        BY <1>1, <2>1, FS_Subset
      <3>2. Cardinality(before) = Cardinality(set) => before = set
        BY <1>1, <2>1, FS_Subset
      <3>3. Cardinality(before) \in Nat
        BY <3>1, FS_CardinalityType
      <3> QED BY <1>1, <2>1, <3>1, <3>2, <3>3
    <2>3. Position(set, c) = Cardinality(before)
      BY DEF Position, before
    <2> DEFINE i == Position(set, c) \div BatchSize + 1
    <2>4. i \in 1..n
      BY <1>1, <2>2, <2>3, Ceiling, Bounds
    <2>5. Position(set, c) \div BatchSize \in Nat
      BY <2>2, <2>3, Floor, Bounds
    <2>6. c \in Part(i)
      BY <2>5
    <2> HIDE DEF n, Part, i
    <2>7. i \in DOMAIN Batches(set) /\ Batches(set)[i] = Part(i)
      BY <1>3, <2>4
    <2> QED BY <2>6, <2>7 DEF Pending
  <1>5. \A i \in 1..n : Part(i) \in SUBSET set
    OBVIOUS
  <1> HIDE DEF n, Part
  <1>6. Batches(set) \in Seq(SUBSET set)
    BY <1>2, <1>3, <1>5
  <1> QED BY <1>4, <1>6

\* The batches after the first.
LEMMA PendingTail ==
  ASSUME NEW S, NEW todo \in Seq(SUBSET S), todo # <<>>
  PROVE  /\ Tail(todo) \in Seq(SUBSET S) /\ Head(todo) \subseteq S
         /\ Pending(todo) \subseteq Head(todo) \cup Pending(Tail(todo))
  <1>1. Tail(todo) \in Seq(SUBSET S) /\ Head(todo) = todo[1] /\ Head(todo) \subseteq S
    OBVIOUS
  <1>2. ASSUME NEW i \in DOMAIN todo, i # 1
        PROVE  i - 1 \in DOMAIN Tail(todo) /\ Tail(todo)[i - 1] = todo[i]
    BY <1>2
  <1> QED BY <1>1, <1>2 DEF Pending

\* What a request holds when it goes on to its next batch.
LEMMA FailedKept ==
  ASSUME NEW r, Gathered(r), r.todo # <<>>, RequestKept(r), r.phase \in OsvPhases
  PROVE  RequestKept(Failed(r))
  <1> DEFINE f == Failed(r)
  <1>1. /\ f.phase = "batch" /\ f.todo = Tail(r.todo) /\ f.kind = r.kind /\ f.asked = r.asked
        /\ f.findings = r.findings /\ f.answered = r.answered /\ f.degraded = TRUE
        /\ f.overtaken = r.overtaken /\ f.read = r.read
    BY DEF Failed, Gathered, OsvFields
  <1>2. Accounts(r) /\ r.phase # "idle"
    BY DEF RequestKept, OsvPhases
  <1> HIDE DEF f
  <1>3. f.todo \in Seq(SUBSET f.asked)
    <2>1. r.todo \in Seq(SUBSET r.asked) /\ r.todo # <<>>
      BY <1>2 DEF Accounts
    <2>2. Tail(r.todo) \in Seq(SUBSET r.asked)
      BY ONLY <2>1, PendingTail, Zenon
    <2> QED BY <1>1, <2>2
  <1>4. Accounts(f)
    BY <1>1, <1>2, <1>3 DEF Accounts
  <1>5. RequestKept(f)
    BY <1>1, <1>2, <1>4 DEF RequestKept
  <1> QED BY <1>5 DEF f

\* An answered batch is accounted for.
LEMMA AnsweredKept ==
  ASSUME NEW r, Gathered(r), r.todo # <<>>, RequestKept(r), r.phase \in OsvPhases,
         NEW body, DOMAIN body = Head(r.todo), NEW stale
  PROVE  RequestKept(Answered(r, body, stale))
  <1> DEFINE f == Answered(r, body, stale)
  <1>1. /\ f.phase = "batch" /\ f.todo = Tail(r.todo) /\ f.kind = r.kind /\ f.asked = r.asked
        /\ f.answered = r.answered \cup DOMAIN body
        /\ f.overtaken = r.overtaken /\ f.read = r.read
    BY DEF Answered, Gathered, OsvFields
  <1>2. f.findings \subseteq r.findings \cup DOMAIN body
    BY DEF Answered, Gathered, OsvFields
  <1>3. ~f.degraded => ~r.degraded
    BY DEF Answered, Gathered, OsvFields
  <1>4. Accounts(r) /\ r.phase # "idle"
    BY DEF RequestKept, OsvPhases
  <1> HIDE DEF f
  <1>5. /\ f.todo \in Seq(SUBSET f.asked) /\ Head(r.todo) \subseteq r.asked
        /\ Pending(r.todo) \subseteq Head(r.todo) \cup Pending(f.todo)
    <2>1. r.todo \in Seq(SUBSET r.asked) /\ r.todo # <<>>
      BY <1>4 DEF Accounts
    <2>2. /\ Tail(r.todo) \in Seq(SUBSET r.asked) /\ Head(r.todo) \subseteq r.asked
          /\ Pending(r.todo) \subseteq Head(r.todo) \cup Pending(Tail(r.todo))
      BY ONLY <2>1, PendingTail, Zenon
    <2> QED BY <1>1, <2>2
  <1>6. Accounts(f)
    BY <1>1, <1>2, <1>3, <1>4, <1>5 DEF Accounts
  <1>7. RequestKept(f)
    BY <1>1, <1>4, <1>6 DEF RequestKept
  <1> QED BY <1>7 DEF f

\* A batch without an answer is accounted for or degrades the request.
LEMMA UnansweredKept ==
  ASSUME NEW r, Gathered(r), Asking(r), RequestKept(r), r.phase \in OsvPhases \ {"batch"}
  PROVE  RequestKept(Unanswered(r))
  <1>1. r.todo # <<>> /\ AboutBatch(r)
    BY DEF Asking, RequestKept
  <1>2. CASE r.batch.cached # None
    <2>1. DOMAIN r.batch.cached.body = Head(r.todo)
      BY <1>1, <1>2 DEF AboutBatch
    <2>2. RequestKept(Answered(r, r.batch.cached.body, TRUE))
      BY <1>1, <2>1, AnsweredKept
    <2> QED BY <1>2, <2>2 DEF Unanswered
  <1>3. CASE r.batch.cached = None
    BY <1>1, <1>3, FailedKept DEF Unanswered
  <1> QED BY <1>2, <1>3

\* The same request with another phase and other counters.
LEMMA AskingKept ==
  ASSUME NEW r, NEW q, Gathered(r), Asking(r), RequestKept(r),
         r.phase \in OsvPhases \ {"batch"}, q.phase \in OsvPhases \ {"batch"},
         \A f \in OsvFields \ {"phase", "batch"} : q[f] = r[f],
         q.batch.cached = r.batch.cached, DOMAIN q.batch.body = DOMAIN r.batch.body
  PROVE  RequestKept(q)
  <1>1. /\ q.todo = r.todo /\ q.kind = r.kind /\ q.asked = r.asked /\ q.findings = r.findings
        /\ q.answered = r.answered /\ q.degraded = r.degraded /\ q.overtaken = r.overtaken /\ q.read = r.read
    BY DEF OsvFields
  <1>2. Accounts(q)
    BY <1>1 DEF Accounts, RequestKept
  <1>3. AboutBatch(q)
    BY <1>1 DEF AboutBatch, RequestKept
  <1> QED BY <1>1, <1>2, <1>3 DEF RequestKept, OsvPhases

\* A step of one request that stores no snapshot.
LEMMA OneRequestKept ==
  ASSUME KeptInv, CleanInv', NEW s \in Slots, NEW r, RequestKept(r), req' = [req EXCEPT ![s] = r],
         CacheKept(cache'), UNCHANGED snapshot
  PROVE  KeptInv'
  <1>1. \A x : RequestKept(x) => RequestKept(x)'
    BY DEF RequestKept, Accounts, AboutBatch
  <1>2. \A t \in Slots : RequestKept(req'[t])
    BY DEF KeptInv, CleanInv
  <1>3. ASSUME NEW t \in Slots PROVE RequestKept(req[t])'
    BY <1>1, <1>2 DEF RequestKept, Accounts, AboutBatch
  <1>4. CacheKept(cache)' /\ SnapshotKept(snapshot)'
    BY DEF KeptInv, CacheKept, SnapshotKept
  <1> QED BY <1>3, <1>4 DEF KeptInv

\* A request begins with every approved identity to ask about.
LEMMA BeginOsvKept ==
  ASSUME KeptInv, CleanInv', NEW s \in Slots, BeginOsv(s)
  PROVE  KeptInv'
  <1> DEFINE approved == {c \in Names : IsApproved(c)}
             told == [c \in Names |-> IF c \in approved THEN "unavailable" ELSE "not_correlatable"]
             r == [phase |-> "batch", kind |-> "osv", read |-> snapshot, overtaken |-> FALSE,
                   at |-> now, asked |-> approved, todo |-> Batches(approved), told |-> told,
                   findings |-> {}, answered |-> {}, degraded |-> FALSE, stale |-> FALSE,
                   batch |-> NoBatch]
  <1>1. req' = [req EXCEPT ![s] = r] /\ UNCHANGED <<cache, snapshot>>
    BY DEF BeginOsv
  <1>2. Batches(approved) \in Seq(SUBSET approved) /\ approved \subseteq Pending(Batches(approved))
    BY BatchesCover
  <1>3. /\ r.phase = "batch" /\ r.kind = "osv" /\ r.read = snapshot /\ r.asked = approved
        /\ r.todo = Batches(approved) /\ r.findings = {} /\ r.answered = {}
    OBVIOUS
  <1> HIDE DEF r, told, approved
  <1>4. Accounts(r)
    BY <1>2, <1>3 DEF Accounts
  <1>5. RequestKept(r)
    BY <1>3, <1>4 DEF RequestKept
  <1>6. CacheKept(cache')
    BY <1>1 DEF KeptInv
  <1> QED BY <1>1, <1>5, <1>6, OneRequestKept

\* A batch that is cached, or waits to be sent, is still to be accounted for.
LEMMA AssembleBatchKept ==
  ASSUME KeptInv, CleanInv', NEW s \in Slots, AssembleBatch(s)
  PROVE  KeptInv'
  <1> DEFINE r == req[s]
             batch == Head(r.todo)
             entry == CacheGet(batch)
             asking == [r EXCEPT !.phase = "send",
                          !.batch = [NoBatch EXCEPT !.cached = entry, !.looked = now,
                                       !.body = [c \in batch |-> "none"]]]
             next == IF \E c \in batch : ~IsApproved(c) THEN Failed(r)
                     ELSE IF IsFresh(entry) THEN Answered(r, entry.body, FALSE) ELSE asking
  <1>1. r.phase = "batch" /\ r.todo # <<>> /\ req' = [req EXCEPT ![s] = next] /\ UNCHANGED snapshot
    BY DEF AssembleBatch
  <1>2. cache' = IF \E c \in batch : ~IsApproved(c) THEN cache ELSE [cache EXCEPT ![batch] = entry]
    BY DEF AssembleBatch
  <1>3. CleanInv /\ RequestKept(r) /\ r.phase \in OsvPhases
    BY <1>1 DEF KeptInv, OsvPhases
  <1>4. Gathered(r) /\ DOMAIN cache = SUBSET Names
    BY <1>3 DEF CleanInv, RequestHolds
  <1>5. batch \in SUBSET Names
    BY <1>1, <1>4 DEF Gathered
  <1>6. entry # None => DOMAIN entry.body = batch
    BY <1>5 DEF CacheGet, KeptInv, CacheKept
  <1> HIDE DEF entry, batch
  <1>7. CacheKept(cache')
    BY <1>2, <1>4, <1>5, <1>6 DEF KeptInv, CacheKept
  <1>8. RequestKept(Failed(r))
    BY <1>1, <1>3, <1>4, FailedKept
  <1>9. ASSUME IsFresh(entry) PROVE RequestKept(Answered(r, entry.body, FALSE))
    <2>1. DOMAIN entry.body = Head(r.todo)
      BY <1>6, <1>9 DEF IsFresh, batch
    <2> QED BY <1>1, <1>3, <1>4, <2>1, AnsweredKept
  <1>10. RequestKept(asking)
    <2>1. /\ asking.phase = "send" /\ asking.kind = r.kind /\ asking.asked = r.asked
          /\ asking.todo = r.todo /\ asking.findings = r.findings /\ asking.answered = r.answered
          /\ asking.degraded = r.degraded /\ asking.overtaken = r.overtaken /\ asking.read = r.read
      BY <1>4 DEF Gathered, OsvFields
    <2>2. asking.batch = [NoBatch EXCEPT !.cached = entry, !.looked = now, !.body = [c \in batch |-> "none"]]
      BY <1>4 DEF Gathered, OsvFields
    <2> HIDE DEF asking
    <2>3. asking.batch = [cached |-> entry, looked |-> now, tries |-> 0, pages |-> 0,
                          body |-> [c \in batch |-> "none"], hydrating |-> FALSE]
      BY <2>2 DEF NoBatch
    <2>4. asking.batch.cached = entry /\ DOMAIN asking.batch.body = Head(asking.todo)
      BY <2>1, <2>3 DEF batch
    <2>5. AboutBatch(asking)
      BY <1>6, <2>1, <2>4 DEF AboutBatch, batch
    <2>6. Accounts(asking)
      BY <1>3, <2>1 DEF RequestKept, Accounts
    <2> QED BY <1>1, <1>3, <2>1, <2>5, <2>6 DEF RequestKept, OsvPhases
  <1> HIDE DEF asking
  <1>11. RequestKept(next)
    BY <1>8, <1>9, <1>10
  <1> HIDE DEF next
  <1>12. CleanInv'
    OBVIOUS
  <1> QED BY <1>1, <1>7, <1>11, OneRequestKept

\* The request of a batch that is being asked about.
LEMMA AskingSlotKept ==
  ASSUME KeptInv, NEW s \in Slots, req[s].phase \in {"send", "wire", "complete"}
  PROVE  /\ Gathered(req[s]) /\ Asking(req[s]) /\ RequestKept(req[s]) /\ RequestKept(Unanswered(req[s]))
         /\ req[s].phase \in OsvPhases \ {"batch"} /\ AboutBatch(req[s]) /\ CacheKept(cache)
         /\ OsvFields \subseteq DOMAIN req[s] /\ BatchFields \subseteq DOMAIN req[s].batch
         /\ DOMAIN req = Slots
  <1>1. CleanInv /\ RequestKept(req[s]) /\ req[s].phase \in OsvPhases \ {"batch"} /\ CacheKept(cache)
    BY DEF KeptInv, OsvPhases
  <1>2. Gathered(req[s]) /\ Asking(req[s])
    BY <1>1, AskingSlot
  <1>3. RequestKept(Unanswered(req[s]))
    BY <1>1, <1>2, UnansweredKept
  <1>4. AboutBatch(req[s])
    BY <1>1 DEF RequestKept
  <1> QED BY <1>1, <1>2, <1>3, <1>4 DEF Gathered, Asking, CleanInv

\* A send that is refused ends its batch without an answer.
LEMMA StartSendKept ==
  ASSUME KeptInv, CleanInv', NEW s \in Slots, StartSend(s)
  PROVE  KeptInv'
  <1> DEFINE r == req[s]
             q == [r EXCEPT !.phase = "wire", !.batch.tries = 1]
             next == IF CircuitIsOpen \/ Cardinality(Sending) >= Permits THEN Unanswered(r) ELSE q
  <1>1. r.phase = "send" /\ UNCHANGED <<cache, snapshot>>
    BY DEF StartSend
  <1>2. /\ Gathered(r) /\ Asking(r) /\ RequestKept(r) /\ RequestKept(Unanswered(r))
        /\ r.phase \in OsvPhases \ {"batch"} /\ CacheKept(cache) /\ OsvFields \subseteq DOMAIN r
        /\ BatchFields \subseteq DOMAIN r.batch /\ DOMAIN req = Slots
    BY <1>1, AskingSlotKept
  <1>3. req' = [req EXCEPT ![s] = next]
    BY <1>2 DEF StartSend
  <1>4. /\ q.phase = "wire" /\ \A f \in OsvFields \ {"phase", "batch"} : q[f] = r[f]
        /\ q.batch = [r.batch EXCEPT !.tries = 1]
    BY <1>2 DEF OsvFields
  <1> HIDE DEF q
  <1>5. q.batch.cached = r.batch.cached /\ q.batch.body = r.batch.body
    BY <1>2, <1>4 DEF BatchFields
  <1>6. q.phase \in OsvPhases \ {"batch"}
    BY <1>4 DEF OsvPhases
  <1>7. RequestKept(q)
    BY <1>2, <1>4, <1>5, <1>6, AskingKept
  <1>8. RequestKept(next) /\ CacheKept(cache')
    BY <1>1, <1>2, <1>7
  <1> HIDE DEF next
  <1> QED BY <1>1, <1>3, <1>8, OneRequestKept

\* A page speaks of the components of its batch.
LEMMA ReceivePageKept ==
  ASSUME KeptInv, CleanInv', NEW s \in Slots, NEW seen, NEW more, ReceivePage(s, seen, more)
  PROVE  KeptInv'
  <1> DEFINE r == req[s]
             batch == Head(r.todo)
             body == [c \in batch |-> IF c \in seen THEN "listed" ELSE r.batch.body[c]]
             q == [r EXCEPT !.batch.body = body, !.batch.pages = @ + 1,
                     !.batch.hydrating = (more = {}),
                     !.phase = IF more # {} \/ \E c \in batch : body[c] = "listed"
                               THEN "send" ELSE "complete"]
             next == IF IncompletePages(r, more) THEN Unanswered(r) ELSE q
  <1>1. r.phase = "wire" /\ req' = [req EXCEPT ![s] = next] /\ UNCHANGED <<cache, snapshot>>
    BY DEF ReceivePage
  <1>2. /\ Gathered(r) /\ Asking(r) /\ RequestKept(r) /\ RequestKept(Unanswered(r))
        /\ r.phase \in OsvPhases \ {"batch"} /\ CacheKept(cache) /\ OsvFields \subseteq DOMAIN r
        /\ BatchFields \subseteq DOMAIN r.batch /\ AboutBatch(r)
    BY <1>1, AskingSlotKept
  <1>3. DOMAIN body = DOMAIN r.batch.body
    BY <1>2 DEF AboutBatch
  <1> HIDE DEF body
  <1>4. /\ q.phase \in {"send", "complete"} /\ \A f \in OsvFields \ {"phase", "batch"} : q[f] = r[f]
        /\ q.batch = [r.batch EXCEPT !.body = body, !.pages = @ + 1, !.hydrating = (more = {})]
    BY <1>2 DEF OsvFields
  <1> HIDE DEF q
  <1>5. q.batch.cached = r.batch.cached /\ q.batch.body = body
    BY <1>2, <1>4 DEF BatchFields
  <1>6. q.phase \in OsvPhases \ {"batch"}
    BY <1>4 DEF OsvPhases
  <1>7. RequestKept(q)
    BY <1>2, <1>3, <1>4, <1>5, <1>6, AskingKept
  <1>8. RequestKept(next) /\ CacheKept(cache')
    BY <1>1, <1>2, <1>7
  <1> HIDE DEF next
  <1> QED BY <1>1, <1>8, OneRequestKept

\* The details speak of the components of the batch.
LEMMA ReceiveDetailsKept ==
  ASSUME KeptInv, CleanInv', NEW s \in Slots, NEW verdict, ReceiveDetails(s, verdict)
  PROVE  KeptInv'
  <1> DEFINE r == req[s]
             body == [c \in DOMAIN r.batch.body |->
                        IF r.batch.body[c] = "listed" THEN verdict ELSE r.batch.body[c]]
             q == [r EXCEPT !.phase = "complete", !.batch.body = body]
  <1>1. r.phase = "wire" /\ UNCHANGED <<cache, snapshot>>
    BY DEF ReceiveDetails
  <1>2. /\ Gathered(r) /\ Asking(r) /\ RequestKept(r)
        /\ r.phase \in OsvPhases \ {"batch"} /\ CacheKept(cache) /\ OsvFields \subseteq DOMAIN r
        /\ BatchFields \subseteq DOMAIN r.batch /\ DOMAIN req = Slots
    BY <1>1, AskingSlotKept
  <1>3. req' = [req EXCEPT ![s] = q]
    BY <1>2 DEF ReceiveDetails, OsvFields, BatchFields
  <1>4. DOMAIN body = DOMAIN r.batch.body
    OBVIOUS
  <1> HIDE DEF body
  <1>5. /\ q.phase = "complete" /\ \A f \in OsvFields \ {"phase", "batch"} : q[f] = r[f]
        /\ q.batch = [r.batch EXCEPT !.body = body]
    BY <1>2 DEF OsvFields
  <1> HIDE DEF q
  <1>6. q.batch.cached = r.batch.cached /\ q.batch.body = body
    BY <1>2, <1>5 DEF BatchFields
  <1>7. q.phase \in OsvPhases \ {"batch"}
    BY <1>5 DEF OsvPhases
  <1>8. RequestKept(q)
    BY <1>2, <1>4, <1>5, <1>6, <1>7, AskingKept
  <1>9. CacheKept(cache')
    BY <1>1, <1>2
  <1> QED BY <1>1, <1>3, <1>8, <1>9, OneRequestKept

\* A retry changes the number of tries only.
LEMMA RetrySendKept ==
  ASSUME KeptInv, CleanInv', NEW s \in Slots, RetrySend(s)
  PROVE  KeptInv'
  <1> DEFINE r == req[s]
             q == [r EXCEPT !.batch.tries = @ + 1]
  <1>1. r.phase = "wire" /\ UNCHANGED <<cache, snapshot>>
    BY DEF RetrySend
  <1>2. /\ Gathered(r) /\ Asking(r) /\ RequestKept(r)
        /\ r.phase \in OsvPhases \ {"batch"} /\ CacheKept(cache) /\ OsvFields \subseteq DOMAIN r
        /\ BatchFields \subseteq DOMAIN r.batch /\ DOMAIN req = Slots
    BY <1>1, AskingSlotKept
  <1>3. req' = [req EXCEPT ![s] = q]
    BY <1>2 DEF RetrySend
  <1>4. /\ q.phase = r.phase /\ \A f \in OsvFields \ {"phase", "batch"} : q[f] = r[f]
        /\ q.batch = [r.batch EXCEPT !.tries = @ + 1]
    BY <1>2 DEF OsvFields
  <1> HIDE DEF q
  <1>5. q.batch.cached = r.batch.cached /\ q.batch.body = r.batch.body
    BY <1>2, <1>4 DEF BatchFields
  <1>6. RequestKept(q)
    BY <1>2, <1>4, <1>5, AskingKept
  <1>7. CacheKept(cache')
    BY <1>1, <1>2
  <1> QED BY <1>1, <1>3, <1>6, <1>7, OneRequestKept

\* A send that fails ends its batch without an answer.
LEMMA FailSendKept ==
  ASSUME KeptInv, CleanInv', NEW s \in Slots, NEW counted, FailSend(s, counted)
  PROVE  KeptInv'
  <1>1. req[s].phase = "wire" /\ UNCHANGED <<cache, snapshot>>
    BY DEF FailSend
  <1>2. RequestKept(Unanswered(req[s])) /\ CacheKept(cache) /\ DOMAIN req = Slots
    BY <1>1, AskingSlotKept
  <1>3. req' = [req EXCEPT ![s] = Unanswered(req[s])] /\ CacheKept(cache')
    BY <1>1, <1>2 DEF FailSend
  <1> QED BY <1>1, <1>2, <1>3, OneRequestKept

\* A complete batch is answered, or falls back to the retained response.
LEMMA CompleteBatchKept ==
  ASSUME KeptInv, CleanInv', NEW s \in Slots, NEW written \in BOOLEAN, CompleteBatch(s, written)
  PROVE  KeptInv'
  <1> DEFINE r == req[s]
             entry == [body |-> r.batch.body, at |-> r.batch.looked]
             next == IF ~written /\ r.batch.cached # None
                     THEN Answered(r, r.batch.cached.body, TRUE)
                     ELSE Answered(r, r.batch.body, FALSE)
  <1>1. r.phase = "complete" /\ UNCHANGED snapshot /\ req' = [req EXCEPT ![s] = next]
    BY DEF CompleteBatch
  <1>2. cache' = IF written THEN [cache EXCEPT ![Head(r.todo)] = entry] ELSE cache
    BY DEF CompleteBatch
  <1>3. /\ Gathered(r) /\ Asking(r) /\ RequestKept(r) /\ AboutBatch(r)
        /\ r.phase \in OsvPhases \ {"batch"} /\ CacheKept(cache)
    BY <1>1, AskingSlotKept
  <1>4. r.todo # <<>> /\ r.phase \in OsvPhases /\ DOMAIN r.batch.body = Head(r.todo)
    BY <1>3 DEF Asking, AboutBatch
  <1>5. RequestKept(Answered(r, r.batch.body, FALSE))
    BY <1>3, <1>4, AnsweredKept
  <1>6. ASSUME r.batch.cached # None PROVE RequestKept(Answered(r, r.batch.cached.body, TRUE))
    <2>1. DOMAIN r.batch.cached.body = Head(r.todo)
      BY <1>3, <1>6 DEF AboutBatch
    <2> QED BY <1>3, <1>4, <2>1, AnsweredKept
  <1>7. RequestKept(next)
    BY <1>5, <1>6
  <1>8. DOMAIN entry.body = Head(r.todo)
    BY <1>4
  <1> HIDE DEF entry, next
  <1>9. DOMAIN cache = SUBSET Names
    BY DEF KeptInv, CleanInv
  <1>10. CacheKept(cache')
    BY <1>2, <1>3, <1>8, <1>9 DEF CacheKept
  <1> QED BY <1>1, <1>7, <1>10, OneRequestKept

\* A snapshot that is stored marks the other requests overtaken.
LEMMA StoredKept ==
  ASSUME KeptInv, CleanInv', NEW s \in Slots, NEW value, SnapshotKept(value), Stored(s, value),
         UNCHANGED cache
  PROVE  KeptInv'
  <1>1. CacheKept(cache)' /\ SnapshotKept(snapshot)'
    BY DEF KeptInv, CacheKept, Stored, SnapshotKept
  <1>2. ASSUME NEW t \in Slots PROVE RequestKept(req[t])'
    <2> DEFINE r == req[t]
               q == [r EXCEPT !.overtaken = TRUE]
    <2>1. RequestKept(r) /\ RequestHolds(r)
      BY DEF KeptInv, CleanInv
    <2>2. CASE t = s \/ r.phase = "idle"
      <3>1. req'[t] = Idle
        BY <2>2 DEF Stored
      <3> QED BY <3>1 DEF RequestKept, Idle, OsvPhases
    <2>3. CASE t # s /\ r.phase \in OsvPhases
      <3>1. Gathered(r) /\ req'[t] = q
        BY <2>1, <2>3 DEF Stored, RequestHolds, OsvPhases
      <3>2. /\ q.phase = r.phase /\ q.todo = r.todo /\ q.kind = r.kind /\ q.asked = r.asked
            /\ q.findings = r.findings /\ q.answered = r.answered /\ q.degraded = r.degraded
            /\ q.batch = r.batch /\ q.overtaken = TRUE
        BY <3>1 DEF Gathered, OsvFields
      <3> HIDE DEF q
      <3> QED BY <2>1, <2>3, <3>1, <3>2 DEF RequestKept, Accounts, AboutBatch, OsvPhases
    <2>4. CASE t # s /\ r.phase = "enrich"
      <3>1. {"phase", "kind", "read", "overtaken"} \subseteq DOMAIN r /\ req'[t] = q
        BY <2>1, <2>4 DEF Stored, RequestHolds
      <3>2. q.phase = r.phase /\ q.read = r.read /\ q.kind = r.kind /\ q.overtaken = TRUE
        BY <3>1
      <3> HIDE DEF q
      <3> QED BY <2>1, <2>4, <3>1, <3>2 DEF RequestKept, OsvPhases
    <2> QED BY <2>1, <2>2, <2>3, <2>4 DEF RequestHolds
  <1> QED BY <1>1, <1>2 DEF KeptInv

\* The slot whose snapshot is stored is the one that becomes idle; alone, it
\* still has the stored snapshot.
LEMMA StoredSlot ==
  ASSUME KeptInv, NEW s \in Slots, NEW t \in Slots, NEW value, Stored(t, value),
         req'[s] = Idle, Alone(s)
  PROVE  s = t /\ req[s].read = snapshot
  <1> DEFINE r == req[s]
             q == [r EXCEPT !.overtaken = TRUE]
  <1>1. r.phase # "idle" /\ ~r.overtaken /\ RequestKept(r) /\ RequestHolds(r)
    BY DEF Alone, KeptInv, CleanInv
  <1>2. r.read = snapshot
    BY <1>1 DEF RequestKept
  <1>3. ASSUME s # t PROVE FALSE
    <2>1. req'[s] = q
      BY <1>1, <1>3 DEF Stored
    <2>2. "phase" \in DOMAIN r
      BY <1>1 DEF RequestHolds, Gathered, OsvFields
    <2>3. q.phase = r.phase
      BY <2>2
    <2> QED BY <1>1, <2>1, <2>3 DEF Idle
  <1> QED BY <1>2, <1>3

\* What replaces a snapshot keeps its findings, or their evidence.
Keeps(r, new) ==
    /\ \A c \in DOMAIN snapshot.findings \ DOMAIN new.findings :
          r.kind = "osv" /\ (c \in r.answered \/ c \notin r.asked)
    /\ (r.kind = "osv" /\ new.state = "degraded") =>
          \A c \in DOMAIN snapshot.findings :
              snapshot.findings[c] \cap {"github_advisories", "cisa_kev"} \subseteq new.findings[c]

\* A degraded refresh has every finding of the snapshot it read.
LEMMA RetainKeeps ==
  ASSUME NEW r, NEW x, DOMAIN x = SnapshotFields, x.state = "degraded",
         snapshot # None, SnapshotKept(snapshot)
  PROVE  Keeps(r, RetainPrevious(snapshot, x))
  <1> DEFINE y == RetainPrevious(snapshot, x)
  <1>1. CASE snapshot.state \in Retained
    <2> DEFINE kept == [c \in DOMAIN x.findings \cup DOMAIN snapshot.findings |->
                          IF c \notin DOMAIN snapshot.findings THEN {}
                          ELSE IF c \in DOMAIN x.findings
                               THEN snapshot.findings[c] \cap {"github_advisories", "cisa_kev"}
                               ELSE snapshot.findings[c]]
    <2>1. y = [x EXCEPT !.findings = kept]
      BY <1>1 DEF RetainPrevious, Retained
    <2>2. y.findings = kept
      BY <2>1 DEF SnapshotFields
    <2>3. DOMAIN snapshot.findings \subseteq DOMAIN kept
      OBVIOUS
    <2>4. \A c \in DOMAIN snapshot.findings :
              snapshot.findings[c] \cap {"github_advisories", "cisa_kev"} \subseteq kept[c]
      OBVIOUS
    <2> HIDE DEF y, kept
    <2>5. Keeps(r, y)
      BY <2>2, <2>3, <2>4 DEF Keeps
    <2> QED BY <2>5 DEF y
  <1>2. CASE snapshot.state \notin Retained
    <2>1. DOMAIN snapshot.findings = {}
      BY <1>2 DEF SnapshotKept
    <2> QED BY <2>1 DEF Keeps
  <1> QED BY <1>1, <1>2

\* A correlation that is not degraded has the answer to everything it asked.
LEMMA StoreOsvKept ==
  ASSUME KeptInv, CleanInv', NEW t \in Slots, StoreOsv(t)
  PROVE  /\ KeptInv'
         /\ \A s \in Slots : snapshot # None /\ req'[s] = Idle /\ Alone(s) => Keeps(req[s], snapshot')
  <1> DEFINE r == req[t]
             x == SnapshotOf(r)
             y == RetainPrevious(r.read, x)
  <1>1. r.phase = "batch" /\ r.todo = <<>> /\ Stored(t, y) /\ UNCHANGED cache /\ snapshot' = y
    BY DEF StoreOsv, Stored
  <1>2. Accounts(r) /\ SnapshotKept(snapshot)
    BY <1>1 DEF KeptInv, RequestKept, OsvPhases
  <1>3. Pending(r.todo) = {}
    BY <1>1 DEF Pending
  <1>4. /\ DOMAIN x = SnapshotFields /\ DOMAIN x.findings = r.findings
        /\ x.state \in Retained \cup {"no_correlatable_components"}
        /\ x.state = "no_correlatable_components" => r.asked = {}
        /\ (x.state # "degraded" /\ r.asked # {}) => ~r.degraded
    BY DEF SnapshotOf, SnapshotFields, Retained
  <1>5. SnapshotKept(x)
    BY <1>2, <1>4 DEF SnapshotKept, Accounts
  <1> HIDE DEF x
  <1>6. y.state = x.state /\ (x.state # "degraded" => y = x)
    BY <1>4 DEF RetainPrevious, SnapshotFields
  <1> HIDE DEF y
  <1>7. SnapshotKept(y)
    BY <1>4, <1>5, <1>6 DEF SnapshotKept, Retained
  <1>8. KeptInv'
    BY <1>1, <1>7, StoredKept
  <1>9. ASSUME NEW s \in Slots, snapshot # None, req'[s] = Idle, Alone(s)
        PROVE  Keeps(req[s], snapshot')
    <2>1. s = t /\ r.read = snapshot
      BY <1>1, <1>9, StoredSlot
    <2>2. CASE x.state = "degraded"
      <3>1. Keeps(r, RetainPrevious(snapshot, x))
        BY <1>2, <1>4, <1>9, <2>2, RetainKeeps
      <3> QED BY <1>1, <2>1, <3>1 DEF y
    <2>3. CASE x.state # "degraded"
      <3>1. \A c : c \in r.answered \/ c \notin r.asked
        BY <1>2, <1>3, <1>4, <2>3 DEF Accounts
      <3> QED BY <1>1, <1>2, <1>6, <2>1, <2>3, <3>1 DEF Keeps, Accounts
    <2> QED BY <2>2, <2>3
  <1> QED BY <1>8, <1>9

\* A controlled failure is degraded, and keeps what it read.
LEMMA StoreControlledFailureKept ==
  ASSUME KeptInv, CleanInv', NEW t \in Slots, StoreControlledFailure(t)
  PROVE  /\ KeptInv'
         /\ \A s \in Slots : snapshot # None /\ req'[s] = Idle /\ Alone(s) => Keeps(req[s], snapshot')
  <1> DEFINE r == req[t]
             x == ControlledFailure(r)
             y == RetainPrevious(r.read, x)
  <1>1. Stored(t, y) /\ UNCHANGED cache /\ snapshot' = y /\ SnapshotKept(snapshot)
    BY DEF StoreControlledFailure, Stored, KeptInv
  <1>2. DOMAIN x = SnapshotFields /\ x.state = "degraded"
    BY DEF ControlledFailure, SnapshotFields
  <1> HIDE DEF x
  <1>3. y.state = "degraded"
    BY <1>2 DEF RetainPrevious, SnapshotFields
  <1> HIDE DEF y
  <1>4. SnapshotKept(y)
    BY <1>3 DEF SnapshotKept, Retained
  <1>5. KeptInv'
    BY <1>1, <1>4, StoredKept
  <1>6. ASSUME NEW s \in Slots, snapshot # None, req'[s] = Idle, Alone(s)
        PROVE  Keeps(req[s], snapshot')
    <2>1. s = t /\ r.read = snapshot
      BY <1>1, <1>6, StoredSlot
    <2>2. Keeps(r, RetainPrevious(snapshot, x))
      BY <1>1, <1>2, <1>6, RetainKeeps
    <2> QED BY <1>1, <2>1, <2>2 DEF y
  <1> QED BY <1>5, <1>6

\* An enrichment keeps the findings of the other providers.
LEMMA EndEnrichmentKept ==
  ASSUME KeptInv, CleanInv', NEW t \in Slots, NEW gained, NEW lost, NEW stale \in BOOLEAN,
         EndEnrichment(t, gained, lost, stale)
  PROVE  /\ KeptInv'
         /\ \A s \in Slots : snapshot # None /\ req'[s] = Idle /\ Alone(s) => Keeps(req[s], snapshot')
  <1> DEFINE r == req[t]
             read == r.read
             all == DOMAIN read.findings
             g == CorroborateGithub(read, gained, lost, stale)
             n == EnrichNvd(read, gained, lost, stale)
             k == CorrelateCisaKev(read, gained = all, stale)
             y == CASE r.kind = "github_advisories" -> g [] r.kind = "nvd" -> n [] OTHER -> k
  <1>1. r.phase = "enrich" /\ Stored(t, y) /\ UNCHANGED cache /\ snapshot' = y
    BY DEF EndEnrichment, Stored
  <1>2. SnapshotHolds(read) /\ read # None /\ read.state \in Retained /\ r.kind \in Secondary
    BY <1>1 DEF KeptInv, CleanInv, RequestHolds, RequestKept
  <1>3. SnapshotFields \subseteq DOMAIN read /\ r.kind # "osv"
    BY <1>2, IntelligenceAssumption DEF SnapshotHolds
  <1>4. Aged(read.state, stale) \in Retained
    BY <1>2 DEF Aged, Retained
  <1>5. \A p, G, L : DOMAIN Evidence(read, p, G, L) = all
    BY DEF Evidence
  <1>6. DOMAIN g.findings = all /\ g.state \in Retained
    BY <1>3, <1>4, <1>5 DEF CorroborateGithub, SnapshotFields, Retained
  <1>7. DOMAIN n.findings = all /\ n.state \in Retained
    BY <1>3, <1>4, <1>5 DEF EnrichNvd, SnapshotFields, Retained
  <1>8. DOMAIN k.findings = all /\ k.state \in Retained
    BY <1>3, <1>4, <1>5 DEF CorrelateCisaKev, SnapshotFields, Retained
  <1> HIDE DEF g, n, k
  <1>9. DOMAIN y.findings = all /\ y.state \in Retained
    BY <1>6, <1>7, <1>8
  <1> HIDE DEF y
  <1>10. SnapshotKept(y)
    BY <1>9 DEF SnapshotKept, Retained
  <1>11. KeptInv'
    BY <1>1, <1>10, StoredKept
  <1>12. ASSUME NEW s \in Slots, snapshot # None, req'[s] = Idle, Alone(s)
         PROVE  Keeps(req[s], snapshot')
    <2>1. s = t /\ read = snapshot
      BY <1>1, <1>12, StoredSlot
    <2> QED BY <1>1, <1>3, <1>9, <2>1 DEF Keeps
  <1> QED BY <1>11, <1>12

\* An enrichment reads a snapshot that is ready or degraded.
LEMMA BeginEnrichmentKept ==
  ASSUME KeptInv, CleanInv', NEW s \in Slots, NEW provider \in Secondary, BeginEnrichment(s, provider)
  PROVE  KeptInv'
  <1> DEFINE r == [phase |-> "enrich", kind |-> provider, read |-> snapshot, overtaken |-> FALSE]
  <1>1. /\ req' = [req EXCEPT ![s] = r] /\ UNCHANGED <<cache, snapshot>>
        /\ snapshot.state \in Retained
    BY DEF BeginEnrichment, Retained
  <1>2. RequestKept(r)
    BY <1>1 DEF RequestKept, OsvPhases
  <1>3. CacheKept(cache')
    BY <1>1 DEF KeptInv
  <1> HIDE DEF r
  <1> QED BY <1>1, <1>2, <1>3, OneRequestKept

\* Every step keeps the account of each request and, alone, the findings.
LEMMA KeptStep ==
  ASSUME KeptInv, [IntelligenceNext]_intelligence
  PROVE  /\ KeptInv'
         /\ snapshot' # snapshot => \A s \in Slots :
              snapshot # None /\ req'[s] = Idle /\ Alone(s) => Keeps(req[s], snapshot')
  <1>1. CleanInv'
    BY CleanStep DEF KeptInv
  <1>2. ASSUME UNCHANGED <<cache, req, snapshot>> PROVE KeptInv' /\ snapshot' = snapshot
    BY <1>1, <1>2 DEF KeptInv, CacheKept, RequestKept, Accounts, AboutBatch, SnapshotKept
  <1>3. CASE UNCHANGED intelligence
    BY <1>2, <1>3 DEF intelligence
  <1>4. ASSUME NEW c \in Names, ProposePublicIdentity(c) \/ ApprovePublicIdentity(c)
                                \/ RevokePublicIdentity(c) \/ ProviderChanges(c)
        PROVE  KeptInv' /\ snapshot' = snapshot
    BY <1>2, <1>4 DEF ProposePublicIdentity, ApprovePublicIdentity, RevokePublicIdentity, ProviderChanges
  <1>5. CASE Tick
    BY <1>2, <1>5 DEF Tick
  <1>6. ASSUME Stop PROVE KeptInv' /\ snapshot' = snapshot
    <2>1. \A s \in Slots : RequestKept(req[s])'
      BY <1>6 DEF Stop, RequestKept, Idle, OsvPhases
    <2>2. CacheKept(cache)' /\ SnapshotKept(snapshot)' /\ snapshot' = snapshot
      BY <1>6 DEF Stop, KeptInv, CacheKept, SnapshotKept
    <2> QED BY <1>1, <2>1, <2>2 DEF KeptInv
  <1>7. ASSUME NEW s \in Slots, BeginOsv(s) \/ AssembleBatch(s) \/ StartSend(s) \/ RetrySend(s)
        PROVE  KeptInv' /\ snapshot' = snapshot
    BY <1>1, <1>7, BeginOsvKept, AssembleBatchKept, StartSendKept, RetrySendKept
       DEF BeginOsv, AssembleBatch, StartSend, RetrySend
  <1>8. ASSUME NEW s \in Slots, NEW seen, NEW more, ReceivePage(s, seen, more)
        PROVE  KeptInv' /\ snapshot' = snapshot
    BY <1>1, <1>8, ReceivePageKept DEF ReceivePage
  <1>9. ASSUME NEW s \in Slots, NEW verdict, ReceiveDetails(s, verdict)
        PROVE  KeptInv' /\ snapshot' = snapshot
    BY <1>1, <1>9, ReceiveDetailsKept DEF ReceiveDetails
  <1>10. ASSUME NEW s \in Slots, NEW b \in BOOLEAN, FailSend(s, b) \/ CompleteBatch(s, b)
         PROVE  KeptInv' /\ snapshot' = snapshot
    BY <1>1, <1>10, FailSendKept, CompleteBatchKept DEF FailSend, CompleteBatch
  <1>11. ASSUME NEW s \in Slots, NEW provider \in Secondary, BeginEnrichment(s, provider)
         PROVE  KeptInv' /\ snapshot' = snapshot
    BY <1>1, <1>11, BeginEnrichmentKept DEF BeginEnrichment
  <1> QED BY <1>1, <1>3, <1>4, <1>5, <1>6, <1>7, <1>8, <1>9, <1>10, <1>11,
             StoreOsvKept, StoreControlledFailureKept, EndEnrichmentKept DEF IntelligenceNext

\* At the start there is no request and no snapshot.
LEMMA KeptInit == IntelligenceInit => KeptInv
  BY CleanInit DEF IntelligenceInit, KeptInv, CacheKept, RequestKept, SnapshotKept, Idle, OsvPhases

\* No refresh loses a finding it had no answer about.
THEOREM RefreshKeepsFindings == IntelligenceSpec => FindingsKept
  <1>1. KeptInv /\ [IntelligenceNext]_intelligence => KeptInv'
    BY KeptStep
  <1>2. KeptInv /\ [IntelligenceNext]_intelligence =>
          [\A s \in Slots :
            (snapshot # None /\ snapshot' # snapshot /\ req'[s] = Idle /\ Alone(s)) =>
              /\ \A c \in DOMAIN snapshot.findings \ DOMAIN snapshot'.findings :
                    req[s].kind = "osv" /\ (c \in req[s].answered \/ c \notin req[s].asked)
              /\ (req[s].kind = "osv" /\ snapshot'.state = "degraded") =>
                    \A c \in DOMAIN snapshot.findings :
                        snapshot.findings[c] \cap {"github_advisories", "cisa_kev"}
                            \subseteq snapshot'.findings[c]]_intelligence
    BY KeptStep DEF Keeps
  <1> QED BY <1>1, <1>2, KeptInit, PTL DEF IntelligenceSpec, FindingsKept
=============================================================================
