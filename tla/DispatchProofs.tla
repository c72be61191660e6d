--------------------------- MODULE DispatchProofs ---------------------------
(***************************************************************************)
(* Proofs about the two dispatchers of the service.                        *)
(*                                                                         *)
(* Active executions, for any number of jobs, assets, recurrences,         *)
(* revisions and restarts: who owns a job in flight, that an execution and *)
(* an occurrence contact the runner at most once, that outcomes are final, *)
(* and the admission limits.                                               *)
(* Integration events, for any number of events, any limits, any width of  *)
(* the dispatcher and any retention: the claims of the dispatcher, the     *)
(* attempt limit, and what "delivered" means.                              *)
(***************************************************************************)
EXTENDS ActiveExecution, IntegrationOutbox, FiniteSetTheorems, TLAPS

\* A scheduled job is queued until its task claims it, or was closed before.
ScheduledIsOpen ==
    \A j \in Jobs : task[j] = "scheduled" => status[j] \in {"queued", "cancelled", "deleted"}

\* A job that contacted the runner cannot be claimed nor contact it again.
ContactIsPast ==
    \A j \in Jobs :
        \/ contacts[j] = 0
        \/ contacts[j] = 1 /\ status[j] \notin {"none", "queued"} /\ task[j] # "executing"

\* Nothing of a process survives it.
DownIsIdle == phase = "down" => checking = NoRec /\ \A j \in Jobs : task[j] = "idle"

\* The dispatcher only holds records that have an occurrence left.
TickHasOccurrence ==
    \A r \in Recurrences : r \in batch \/ checking = r => snap[r].occ < MaxOccurrence

\* At most one retained job carries the key of an occurrence.
OneJobPerOccurrence ==
    \A j, k \in Jobs :
        /\ j # k
        /\ binding[j].key = binding[k].key /\ binding[j].key.of # NoRec
        /\ status[j] # "none" /\ status[k] # "none"
        => status[j] = "deleted" \/ status[k] = "deleted"

JobInv ==
    /\ ScheduledIsOpen
    /\ ContactIsPast
    /\ DownIsIdle
    /\ ExecutingIsInflight
    /\ InflightHasTask

ActiveInv ==
    TypeOK /\ TickHasOccurrence /\ JobInv /\ OneJobPerOccurrence /\ AdmissionBound

-----------------------------------------------------------------------------
\* Every step keeps what tasks own.
LEMMA JobStep == ASSUME TypeOK, JobInv, [Next]_vars PROVE JobInv'
  <1> USE ActiveConstants
      DEF JobInv, ScheduledIsOpen, ContactIsPast, DownIsIdle, ExecutingIsInflight, Executing,
          InflightHasTask, Stranded, InflightJobs, Inflight, Terminal, assetVars, recVars, jobVars
  <1>1. ASSUME NEW a \in Assets, Expire(a) \/ Renew(a) PROVE JobInv'
    BY <1>1 DEF Expire, Renew
  <1>2. ASSUME NEW a \in Assets, Revoke(a) PROVE JobInv'
    BY <1>2 DEF Revoke, AfterRevocation, TypeOK
  <1>3. ASSUME NEW a \in Assets, CrashInRevoke(a) PROVE JobInv'
    BY <1>3 DEF CrashInRevoke, ProcessGone
  <1>4. ASSUME NEW j \in Jobs, NEW a \in Assets, NEW c \in Capabilities, Launch(j, a, c) PROVE JobInv'
    <2>1. status[j] = "none" /\ \A k \in Jobs \ {j} : binding'[k] = binding[k]
      BY <1>4 DEF Launch, Create, TypeOK
    <2> QED BY <1>4, <2>1 DEF Launch, TypeOK
  <1>5. ASSUME NEW j \in Jobs, Cancel(j) PROVE JobInv'
    BY <1>5 DEF Cancel, TypeOK
  <1>6. ASSUME NEW j \in Jobs, DeleteJob(j) PROVE JobInv'
    BY <1>6 DEF DeleteJob, TypeOK
  <1>7. ASSUME NEW j \in Jobs, Claim(j) PROVE JobInv'
    BY <1>7 DEF Claim, Claimable, TypeOK
  <1>8. ASSUME NEW j \in Jobs, Contact(j) PROVE JobInv'
    BY <1>8 DEF Contact, TypeOK
  <1>9. ASSUME NEW j \in Jobs, RunnerAnswers(j) PROVE JobInv'
    BY <1>9 DEF RunnerAnswers, TypeOK
  <1>10. ASSUME NEW j \in Jobs, ObserveStop(j) PROVE JobInv'
    BY <1>10 DEF ObserveStop
  <1>11. ASSUME NEW j \in Jobs, Stop(j) \/ Finish(j) PROVE JobInv'
    BY <1>11 DEF Stop, Finish, Over, Updated, TypeOK
  <1>12. ASSUME NEW r \in Recurrences, Arm(r) \/ Disarm(r) \/ CheckDue(r) \/ DispatchDeferred(r)
         PROVE  JobInv'
    BY <1>12 DEF Arm, Disarm, CheckDue, DispatchDeferred
  <1>13. ASSUME NEW r \in Recurrences, NEW j \in Jobs, DispatchNew(r, j) PROVE JobInv'
    <2>1. /\ status[j] = "none"
          /\ \A k \in Jobs \ {j} : binding'[k] = binding[k]
          /\ binding'[j].key.of = r
      BY <1>13 DEF DispatchNew, CreateOccurrence, Create, OccurrenceKey, TypeOK
    <2> QED BY <1>13, <2>1 DEF DispatchNew, CreateOccurrence, TypeOK
  <1>14. ASSUME NEW r \in Recurrences, NEW j \in Jobs, DispatchReplay(r, j) PROVE JobInv'
    BY <1>14 DEF DispatchReplay, TypeOK
  <1>15. ASSUME NEW r \in Recurrences, NEW j \in Jobs, CrashInDispatch(r, j) PROVE JobInv'
    <2>1. status[j] = "none"
      BY <1>15 DEF CrashInDispatch, CreateOccurrence, Create
    <2> QED BY <1>15, <2>1 DEF CrashInDispatch, ProcessGone, TypeOK
  <1>16. ASSUME Crash PROVE JobInv'
    BY <1>16 DEF Crash, ProcessGone
  <1>17. ASSUME Boot PROVE JobInv'
    BY <1>17 DEF Boot, Recovered, TypeOK
  <1>18. ASSUME UNCHANGED vars PROVE JobInv'
    BY <1>18 DEF vars
  <1> QED
    BY <1>1, <1>2, <1>3, <1>4, <1>5, <1>6, <1>7, <1>8, <1>9, <1>10, <1>11, <1>12, <1>13,
       <1>14, <1>15, <1>16, <1>17, <1>18 DEF Next, TaskStep, RecurrenceStep

-----------------------------------------------------------------------------
\* A job that is created is bound to the tuple it is created for.
LEMMA CreateType ==
    ASSUME TypeOK, NEW j \in Jobs, NEW a \in Assets, NEW c \in Capabilities,
           NEW v \in 1..MaxRevision, NEW r \in Jobs \union {NoJob}, NEW k \in Occurrence,
           Create(j, a, c, v, r, k)
    PROVE  binding' \in [Jobs -> Binding]
  BY DEF Create, TypeOK, Binding

\* The keys are occurrences and OwnKey.
LEMMA KeyType ==
    ASSUME TypeOK PROVE OwnKey \in Occurrence /\ \A r \in Recurrences : OccurrenceKey(r) \in Occurrence
  BY ActiveConstants DEF OwnKey, OccurrenceKey, Occurrence, TypeOK, RecRecord

\* The recurrences after each way to change them.
LEMMA RecType ==
    ASSUME TypeOK
    PROVE  /\ \A a \in Assets : SuspendedFor(a) \in [Recurrences -> RecRecord]
           /\ \A r \in Recurrences, s \in RecStatus :
                [rec EXCEPT ![r].status = s] \in [Recurrences -> RecRecord]
           /\ \A r \in Recurrences, s \in RecStatus :
                rec[r].occ < MaxOccurrence =>
                    [rec EXCEPT ![r] = [status |-> s, revision |-> @.revision, occ |-> @.occ + 1]]
                        \in [Recurrences -> RecRecord]
  <1>1. ASSUME NEW x \in RecRecord, NEW s \in RecStatus
        PROVE  /\ [x EXCEPT !.status = s] \in RecRecord
               /\ x.occ < MaxOccurrence =>
                    [status |-> s, revision |-> x.revision, occ |-> x.occ + 1] \in RecRecord
    <2>1. x.occ < MaxOccurrence => x.occ + 1 \in 0..MaxOccurrence
      BY ActiveConstants DEF RecRecord
    <2> QED BY <2>1 DEF RecRecord
  <1>2. ASSUME NEW r \in Recurrences, NEW x \in RecRecord
        PROVE  [rec EXCEPT ![r] = x] \in [Recurrences -> RecRecord]
    BY DEF TypeOK
  <1>3. \A r \in Recurrences : rec[r] \in RecRecord
    BY DEF TypeOK
  <1>4. "suspended" \in RecStatus
    BY DEF RecStatus
  <1>5. ASSUME NEW a \in Assets PROVE SuspendedFor(a) \in [Recurrences -> RecRecord]
    BY <1>1, <1>3, <1>4 DEF SuspendedFor
  <1>6. ASSUME NEW r \in Recurrences, NEW s \in RecStatus
        PROVE  [rec EXCEPT ![r].status = s] \in [Recurrences -> RecRecord]
    <2>1. [rec EXCEPT ![r].status = s] = [rec EXCEPT ![r] = [rec[r] EXCEPT !.status = s]]
      BY DEF TypeOK
    <2> QED BY <1>1, <1>2, <1>3, <2>1
  <1>7. ASSUME NEW r \in Recurrences, NEW s \in RecStatus, rec[r].occ < MaxOccurrence
        PROVE  [rec EXCEPT ![r] = [status |-> s, revision |-> @.revision, occ |-> @.occ + 1]]
                    \in [Recurrences -> RecRecord]
    BY <1>1, <1>2, <1>3, <1>7
  <1> QED BY <1>5, <1>6, <1>7

\* Every step keeps the types.
LEMMA TypeStep == ASSUME TypeOK, TickHasOccurrence, [Next]_vars PROVE TypeOK'
  <1> USE DEF assetVars, recVars, jobVars
  <1>0. /\ \A s \in Inflight \union Terminal \union {"deleted"} : s \in Status
        /\ \A t \in {"idle", "scheduled", "executing", "calling", "answered", "broken"} : t \in TaskState
        /\ \A s \in {"active", "suspended", "disarmed"} : s \in RecStatus
        /\ Blank \in [Recurrences -> RecRecord]
        /\ \A todo : Listed(todo, snap) \in [Recurrences -> RecRecord]
        /\ \A j \in Jobs : AfterRevocation(j) \in Status /\ Recovered(j) \in Status
        /\ "queued" \in Status /\ "failed" \in Status /\ "running" \in Status
        /\ "cancelled" \in Status /\ "cancelling" \in Status /\ "deleted" \in Status
        /\ MaxRevision \in Nat /\ MaxOccurrence \in Nat /\ MaxRestarts \in Nat
    <2>1. Blank \in [Recurrences -> RecRecord]
      BY ActiveConstants DEF Blank, RecRecord, RecStatus
    <2>2. \A todo : Listed(todo, snap) \in [Recurrences -> RecRecord]
      BY <2>1 DEF Listed, TypeOK
    <2> QED
      BY ActiveConstants, <2>1, <2>2
      DEF Status, Inflight, Terminal, TaskState, Executing, RecStatus, AfterRevocation, Recovered, TypeOK
  <1>1. ASSUME NEW a \in Assets, Expire(a) PROVE TypeOK'
    BY <1>1 DEF Expire, TypeOK
  <1>2. ASSUME NEW a \in Assets, Renew(a) PROVE TypeOK'
    <2>1. rec' \in [Recurrences -> RecRecord]
      BY <1>2, RecType DEF Renew
    <2> QED BY <1>0, <1>2, <2>1 DEF Renew, TypeOK
  <1>3. ASSUME NEW a \in Assets, Revoke(a) PROVE TypeOK'
    <2>1. rec' \in [Recurrences -> RecRecord]
      BY <1>3, RecType DEF Revoke
    <2>2. status' \in [Jobs -> Status]
      BY <1>0, <1>3 DEF Revoke, TypeOK
    <2> QED BY <1>3, <2>1, <2>2 DEF Revoke, TypeOK
  <1>4. ASSUME NEW a \in Assets, CrashInRevoke(a) PROVE TypeOK'
    BY <1>0, <1>4 DEF CrashInRevoke, ProcessGone, TypeOK
  <1>5. ASSUME NEW j \in Jobs, NEW a \in Assets, NEW c \in Capabilities, Launch(j, a, c) PROVE TypeOK'
    <2>1. PICK r \in RetryTargets(a, c) : Create(j, a, c, revision[a], r, OwnKey)
      BY <1>5 DEF Launch
    <2>2. r \in Jobs \union {NoJob} /\ revision[a] \in 1..MaxRevision
      BY DEF RetryTargets, TypeOK
    <2>3. binding' \in [Jobs -> Binding]
      BY <2>1, <2>2, CreateType, KeyType
    <2> QED BY <1>0, <1>5, <2>3 DEF Launch, TypeOK
  <1>6. ASSUME NEW j \in Jobs, Cancel(j) \/ DeleteJob(j) PROVE TypeOK'
    BY <1>0, <1>6 DEF Cancel, DeleteJob, TypeOK, Inflight
  <1>7. ASSUME NEW j \in Jobs, Claim(j) PROVE TypeOK'
    BY <1>0, <1>7 DEF Claim, TypeOK
  <1>8. ASSUME NEW j \in Jobs, Contact(j) \/ RunnerAnswers(j) \/ ObserveStop(j) PROVE TypeOK'
    BY <1>0, <1>8 DEF Contact, RunnerAnswers, ObserveStop, TypeOK
  <1>9. ASSUME NEW j \in Jobs, Stop(j) \/ Finish(j) PROVE TypeOK'
    <2>1. PICK s \in Status : Over(j, s)
      BY <1>0, <1>9 DEF Stop, Finish, Terminal
    <2>2. Updated(j, s) \in Status
      BY <1>0 DEF Updated
    <2> QED BY <1>0, <2>1, <2>2 DEF Over, TypeOK
  <1>10. ASSUME NEW r \in Recurrences, Arm(r) PROVE TypeOK'
    <2>1. rec' \in [Recurrences -> RecRecord]
      <3>1. [status |-> "active", revision |-> revision[AssetOf[r]], occ |-> rec[r].occ + 1] \in RecRecord
        <4>1. rec[r].occ + 1 \in 0..MaxOccurrence
          BY <1>0, <1>10 DEF Arm, TypeOK, RecRecord
        <4>2. revision[AssetOf[r]] \in 1..MaxRevision
          BY ActiveConstants DEF TypeOK
        <4> QED BY <1>0, <4>1, <4>2 DEF RecRecord
      <3> QED BY <1>10, <3>1 DEF Arm, TypeOK
    <2> QED BY <1>10, <2>1 DEF Arm, TypeOK
  <1>11. ASSUME NEW r \in Recurrences, Disarm(r) PROVE TypeOK'
    <2>1. rec' \in [Recurrences -> RecRecord]
      BY <1>0, <1>11, RecType DEF Disarm
    <2> QED BY <1>11, <2>1 DEF Disarm, TypeOK
  <1>12. ASSUME NEW r \in Recurrences, CheckDue(r) PROVE TypeOK'
    <2>1. rec' \in [Recurrences -> RecRecord]
      <3>1. rec' = rec \/ rec' = [rec EXCEPT ![r].status = "suspended"]
        BY <1>12 DEF CheckDue
      <3>2. rec \in [Recurrences -> RecRecord]
        BY DEF TypeOK
      <3> QED BY <1>0, <3>1, <3>2, RecType
    <2>2. snap' \in [Recurrences -> RecRecord]
      BY <1>0, <1>12 DEF CheckDue, Listed, TypeOK
    <2> QED BY <1>12, <2>1, <2>2 DEF CheckDue, Due, TypeOK
  <1>13. ASSUME NEW r \in Recurrences, Deferred(r) PROVE rec' \in [Recurrences -> RecRecord]
    <2>1. rec' = rec \/ rec' = [rec EXCEPT ![r].status = "suspended"]
      BY <1>13 DEF Deferred
    <2>2. rec \in [Recurrences -> RecRecord]
      BY DEF TypeOK
    <2> QED BY <1>0, <2>1, <2>2, RecType
  <1>14. ASSUME NEW r \in Recurrences, checking = r, Dispatched(r)
         PROVE  rec' \in [Recurrences -> RecRecord]
    <2>1. rec[r].occ < MaxOccurrence
      BY <1>14 DEF Dispatched, Unchanged, TickHasOccurrence
    <2> QED BY <1>0, <1>14, <2>1, RecType DEF Dispatched
  <1>15. ASSUME NEW r \in Recurrences, DispatchDeferred(r) PROVE TypeOK'
    BY <1>0, <1>13, <1>15 DEF DispatchDeferred, TypeOK
  <1>16. ASSUME NEW r \in Recurrences, NEW j \in Jobs, CreateOccurrence(r, j)
         PROVE  binding' \in [Jobs -> Binding]
    <2>1. AssetOf[r] \in Assets /\ CapabilityOf[r] \in Capabilities /\ snap[r].revision \in 1..MaxRevision
      BY ActiveConstants DEF TypeOK, RecRecord
    <2> QED BY <1>16, <2>1, CreateType, KeyType DEF CreateOccurrence
  <1>17. ASSUME NEW r \in Recurrences, NEW j \in Jobs, DispatchNew(r, j) PROVE TypeOK'
    <2>1. rec' \in [Recurrences -> RecRecord]
      BY <1>13, <1>14, <1>17 DEF DispatchNew, CreateOccurrence
    <2>2. binding' \in [Jobs -> Binding]
      BY <1>16, <1>17 DEF DispatchNew
    <2> QED BY <1>0, <1>17, <2>1, <2>2 DEF DispatchNew, TypeOK
  <1>18. ASSUME NEW r \in Recurrences, NEW j \in Jobs, DispatchReplay(r, j) PROVE TypeOK'
    <2>1. rec' \in [Recurrences -> RecRecord]
      BY <1>13, <1>14, <1>18 DEF DispatchReplay
    <2> QED BY <1>0, <1>18, <2>1 DEF DispatchReplay, TypeOK
  <1>19. ASSUME NEW r \in Recurrences, NEW j \in Jobs, CrashInDispatch(r, j) PROVE TypeOK'
    <2>1. binding' \in [Jobs -> Binding]
      BY <1>16, <1>19 DEF CrashInDispatch
    <2>2. status' \in [Jobs -> Status]
      BY <1>0, <1>19 DEF CrashInDispatch, TypeOK
    <2> QED BY <1>0, <1>19, <2>1, <2>2 DEF CrashInDispatch, ProcessGone, TypeOK
  <1>20. ASSUME Crash PROVE TypeOK'
    BY <1>0, <1>20 DEF Crash, ProcessGone, TypeOK
  <1>21. ASSUME Boot PROVE TypeOK'
    BY <1>0, <1>21 DEF Boot, TypeOK
  <1>22. ASSUME UNCHANGED vars PROVE TypeOK'
    BY <1>22 DEF vars, TypeOK
  <1> QED
    BY <1>1, <1>2, <1>3, <1>4, <1>5, <1>6, <1>7, <1>8, <1>9, <1>10, <1>11, <1>12, <1>15, <1>17,
       <1>18, <1>19, <1>20, <1>21, <1>22 DEF Next, TaskStep, RecurrenceStep

\* A tick lists only records with an occurrence left, and keeps its list.
LEMMA TickStep == ASSUME TypeOK, TickHasOccurrence, [Next]_vars PROVE TickHasOccurrence'
  <1> USE ActiveConstants DEF TickHasOccurrence, assetVars, recVars, jobVars
  <1>1. ASSUME NEW r \in Recurrences, CheckDue(r) PROVE TickHasOccurrence'
    BY <1>1 DEF CheckDue, Due, Listed
  <1>2. ASSUME NEW r \in Recurrences, Arm(r) \/ Disarm(r) \/ DispatchDeferred(r) PROVE TickHasOccurrence'
    BY <1>2 DEF Arm, Disarm, DispatchDeferred, Listed
  <1>3. ASSUME NEW r \in Recurrences, NEW j \in Jobs,
               DispatchNew(r, j) \/ DispatchReplay(r, j) \/ CrashInDispatch(r, j)
        PROVE  TickHasOccurrence'
    BY <1>3 DEF DispatchNew, DispatchReplay, CrashInDispatch, ProcessGone, Listed
  <1>4. ASSUME NEW a \in Assets, Expire(a) \/ Renew(a) \/ Revoke(a) \/ CrashInRevoke(a)
        PROVE  TickHasOccurrence'
    BY <1>4 DEF Expire, Renew, Revoke, CrashInRevoke, ProcessGone
  <1>5. ASSUME NEW j \in Jobs, NEW a \in Assets, NEW c \in Capabilities, Launch(j, a, c)
        PROVE  TickHasOccurrence'
    BY <1>5 DEF Launch
  <1>6. ASSUME NEW j \in Jobs, Cancel(j) \/ DeleteJob(j) \/ TaskStep(j) PROVE TickHasOccurrence'
    BY <1>6 DEF Cancel, DeleteJob, TaskStep, Claim, Contact, RunnerAnswers, ObserveStop, Stop, Finish, Over
  <1>7. ASSUME Crash \/ Boot \/ UNCHANGED vars PROVE TickHasOccurrence'
    BY <1>7 DEF Crash, ProcessGone, Boot, vars
  <1> QED BY <1>1, <1>2, <1>3, <1>4, <1>5, <1>6, <1>7 DEF Next, RecurrenceStep

-----------------------------------------------------------------------------
\* What a step may do to the record of a job that exists already.
Ages(k) ==
    /\ binding'[k] = binding[k]
    /\ status[k] \in {"none", "deleted"} => status'[k] = status[k]
    /\ status[k] \in Terminal => status'[k] \in {status[k], "deleted"}
    /\ status[k] \in Inflight => status'[k] \in Inflight \union Terminal

\* What a step does that creates the record of a job: within the limits, and
\* for an occurrence only if no retained record has its key.
Enters(j) ==
    /\ status[j] = "none"
    /\ AdmissionAvailable(binding'[j].asset, binding'[j].capability)
    /\ binding'[j].key.of # NoRec => Existing(binding'[j].key) = {}
    /\ \A k \in Jobs \ {j} : Ages(k)

\* A step creates one record or lets the records there are age.
LEMMA RecordStep ==
    ASSUME TypeOK, JobInv, [Next]_vars
    PROVE  (\A k \in Jobs : Ages(k)) \/ (\E j \in Jobs : Enters(j))
  <1> DEFINE Age == \A k \in Jobs : Ages(k)
  <1> USE ActiveConstants DEF Ages, Inflight, Terminal, assetVars, recVars, jobVars
  <1>0. status \in [Jobs -> Status] /\ binding \in [Jobs -> Binding]
    BY DEF TypeOK
  <1>1. ASSUME NEW j \in Jobs, NEW a \in Assets, NEW c \in Capabilities, NEW v, NEW r, NEW k,
               Create(j, a, c, v, r, k), NEW s, status' = [status EXCEPT ![j] = s],
               k.of # NoRec => Existing(k) = {}
        PROVE  Enters(j)
    <2>1. binding'[j].asset = a /\ binding'[j].capability = c /\ binding'[j].key = k
      BY <1>0, <1>1 DEF Create
    <2>2. \A i \in Jobs \ {j} : binding'[i] = binding[i] /\ status'[i] = status[i]
      BY <1>0, <1>1 DEF Create
    <2> QED BY <1>1, <2>1, <2>2 DEF Create, Enters
  <1>2. ASSUME NEW j \in Jobs, NEW a \in Assets, NEW c \in Capabilities, Launch(j, a, c)
        PROVE  Enters(j)
    <2>1. PICK r \in RetryTargets(a, c) : Create(j, a, c, revision[a], r, OwnKey)
      BY <1>2 DEF Launch
    <2>2. OwnKey.of = NoRec
      BY DEF OwnKey
    <2> QED BY <1>1, <1>2, <2>1, <2>2 DEF Launch
  <1>3. ASSUME NEW r \in Recurrences, NEW j \in Jobs, DispatchNew(r, j) \/ CrashInDispatch(r, j)
        PROVE  Enters(j)
    <2>1. CreateOccurrence(r, j) /\ status' = [status EXCEPT ![j] = "queued"]
      BY <1>3 DEF DispatchNew, CrashInDispatch
    <2> QED BY <1>1, <2>1 DEF CreateOccurrence
  <1>4. ASSUME NEW a \in Assets, Expire(a) \/ Renew(a) \/ CrashInRevoke(a) PROVE Age
    BY <1>0, <1>4 DEF Expire, Renew, CrashInRevoke
  <1>5. ASSUME NEW a \in Assets, Revoke(a) PROVE Age
    BY <1>0, <1>5 DEF Revoke, AfterRevocation
  <1>6. ASSUME NEW j \in Jobs, Cancel(j) \/ DeleteJob(j) PROVE Age
    BY <1>0, <1>6 DEF Cancel, DeleteJob
  <1>7. ASSUME NEW j \in Jobs, Claim(j) PROVE Age
    BY <1>0, <1>7 DEF Claim, Claimable
  <1>8. ASSUME NEW j \in Jobs, Contact(j) \/ RunnerAnswers(j) \/ ObserveStop(j) PROVE Age
    BY <1>0, <1>8 DEF Contact, RunnerAnswers, ObserveStop
  <1>9. ASSUME NEW j \in Jobs, Stop(j) \/ Finish(j) PROVE Age
    <2>1. status[j] \in {"running", "cancelling"}
      BY <1>9 DEF Stop, Finish, Executing, JobInv, ExecutingIsInflight
    <2>2. PICK s \in Terminal : Over(j, s)
      BY <1>9 DEF Stop, Finish
    <2> QED BY <1>0, <2>1, <2>2 DEF Over, Updated
  <1>10. ASSUME NEW r \in Recurrences, Arm(r) \/ Disarm(r) \/ CheckDue(r) \/ DispatchDeferred(r)
         PROVE  Age
    BY <1>0, <1>10 DEF Arm, Disarm, CheckDue, DispatchDeferred
  <1>11. ASSUME NEW r \in Recurrences, NEW j \in Jobs, DispatchReplay(r, j) PROVE Age
    BY <1>0, <1>11 DEF DispatchReplay
  <1>12. ASSUME Boot PROVE Age
    BY <1>0, <1>12 DEF Boot, Recovered
  <1>13. ASSUME Crash \/ UNCHANGED vars PROVE Age
    BY <1>0, <1>13 DEF Crash, vars
  <1> QED
    BY <1>2, <1>3, <1>4, <1>5, <1>6, <1>7, <1>8, <1>9, <1>10, <1>11, <1>12, <1>13
    DEF Next, TaskStep, RecurrenceStep

\* At most one retained record per occurrence.
LEMMA OccurrenceStep ==
    ASSUME TypeOK, JobInv, OneJobPerOccurrence, [Next]_vars PROVE OneJobPerOccurrence'
  <1> DEFINE Clash(j, k) == /\ binding[j].key = binding[k].key /\ binding[j].key.of # NoRec
                            /\ status[j] \notin {"none", "deleted"}
                            /\ status[k] \notin {"none", "deleted"}
  <1>1. \A j, k \in Jobs : j # k => ~Clash(j, k)
    BY DEF OneJobPerOccurrence
  <1>2. ASSUME NEW j \in Jobs, NEW k \in Jobs, j # k, Ages(j), Ages(k) PROVE ~Clash(j, k)'
    BY <1>1, <1>2 DEF Ages, TypeOK, Status
  <1>3. ASSUME NEW j \in Jobs, NEW k \in Jobs, j # k, Enters(j) PROVE ~Clash(j, k)'
    <2>1. Ages(k) /\ (binding'[j].key.of # NoRec => Existing(binding'[j].key) = {})
      BY <1>3 DEF Enters
    <2>2. ASSUME Clash(j, k)' PROVE FALSE
      <3>1. k \in Existing(binding'[j].key)
        BY <2>1, <2>2 DEF Ages, Existing
      <3> QED BY <2>1, <2>2, <3>1
    <2> QED BY <2>2
  <1>4. \A j, k \in Jobs : j # k => ~Clash(j, k)'
    <2>1. CASE \A k \in Jobs : Ages(k)
      BY <1>2, <2>1
    <2>2. ASSUME NEW i \in Jobs, Enters(i) PROVE \A j, k \in Jobs : j # k => ~Clash(j, k)'
      <3> TAKE j, k \in Jobs
      <3>1. CASE i = j
        BY <1>3, <2>2, <3>1
      <3>2. CASE i = k
        <4>1. j # k => ~Clash(k, j)'
          BY <1>3, <2>2, <3>2
        <4> QED BY <4>1
      <3>3. CASE i # j /\ i # k
        BY <1>2, <2>2, <3>3 DEF Enters
      <3> QED BY <3>1, <3>2, <3>3
    <2> QED BY <2>1, <2>2, RecordStep
  <1> QED BY <1>4 DEF OneJobPerOccurrence

-----------------------------------------------------------------------------
\* A set of jobs that fits a limit still fits when one joins it below the
\* limit.
LEMMA FitsStep ==
    ASSUME NEW S \in SUBSET Jobs, NEW T \in SUBSET Jobs, NEW n \in Nat, Cardinality(S) <= n,
           \/ T \in SUBSET S
           \/ Cardinality(S) < n /\ \E j \in Jobs : T \in SUBSET (S \union {j})
    PROVE  Cardinality(T) <= n
  <1> IsFiniteSet(S) /\ Cardinality(S) \in Nat /\ Cardinality(T) \in Nat
    BY ActiveConstants, FS_Subset, FS_CardinalityType
  <1>1. CASE T \in SUBSET S
    BY <1>1, FS_Subset
  <1>2. ASSUME Cardinality(S) < n, NEW j \in Jobs, T \in SUBSET (S \union {j}) PROVE Cardinality(T) <= n
    <2>1. /\ IsFiniteSet(S \union {j})
          /\ Cardinality(S \union {j}) \in Nat /\ Cardinality(S \union {j}) <= Cardinality(S) + 1
      <3>1. /\ IsFiniteSet(S \union {j})
            /\ Cardinality(S \union {j}) = IF j \in S THEN Cardinality(S) ELSE Cardinality(S) + 1
        BY FS_AddElement
      <3> QED BY <3>1
    <2>2. Cardinality(T) <= Cardinality(S \union {j})
      BY <1>2, <2>1, FS_Subset
    <2> QED BY <1>2, <2>1, <2>2
  <1> QED BY <1>1, <1>2

\* Admission keeps the jobs in flight within the four limits.
LEMMA AdmissionStep ==
    ASSUME TypeOK, JobInv, AdmissionBound, [Next]_vars PROVE AdmissionBound'
  <1> DEFINE OfOrg(a) == {j \in InflightJobs : OrgOf[binding[j].asset] = OrgOf[a]}
             OfAsset(a) == {j \in InflightJobs : binding[j].asset = a}
             OfCapability(c) == {j \in InflightJobs : binding[j].capability = c}
  <1> USE DEF Inflight, Terminal
  <1>0. /\ MaxActive \in Nat /\ MaxPerOrg \in Nat /\ MaxPerAsset \in Nat /\ MaxPerCapability \in Nat
        /\ InflightJobs \in SUBSET Jobs /\ InflightJobs' \in SUBSET Jobs
    BY ActiveConstants DEF InflightJobs
  <1>1. ASSUME NEW k \in Jobs, Ages(k), k \in InflightJobs'
        PROVE  k \in InflightJobs /\ binding'[k] = binding[k]
    BY <1>1 DEF Ages, InflightJobs, TypeOK, Status
  <1>2. CASE \A k \in Jobs : Ages(k)
    <2>1. InflightJobs' \in SUBSET InflightJobs /\ \A k \in InflightJobs' : binding'[k] = binding[k]
      BY <1>0, <1>1, <1>2
    <2>2. Cardinality(InflightJobs') <= MaxActive
      BY <1>0, <2>1, FitsStep DEF AdmissionBound
    <2>3. ASSUME NEW a \in Assets
          PROVE  Cardinality(OfOrg(a)') <= MaxPerOrg /\ Cardinality(OfAsset(a)') <= MaxPerAsset
      <3>1. OfOrg(a)' \in SUBSET OfOrg(a) /\ OfAsset(a)' \in SUBSET OfAsset(a)
        BY <2>1
      <3>2. OfOrg(a) \in SUBSET Jobs /\ OfAsset(a) \in SUBSET Jobs
        BY <1>0
      <3>3. OfOrg(a)' \in SUBSET Jobs /\ OfAsset(a)' \in SUBSET Jobs
        BY <3>1, <3>2
      <3>4. Cardinality(OfOrg(a)) <= MaxPerOrg /\ Cardinality(OfAsset(a)) <= MaxPerAsset
        BY DEF AdmissionBound
      <3> HIDE DEF OfOrg, OfAsset
      <3> QED BY <1>0, <3>1, <3>2, <3>3, <3>4, FitsStep
    <2>4. ASSUME NEW c \in Capabilities PROVE Cardinality(OfCapability(c)') <= MaxPerCapability
      <3>1. OfCapability(c)' \in SUBSET OfCapability(c) /\ OfCapability(c) \in SUBSET Jobs
        BY <1>0, <2>1
      <3>2. Cardinality(OfCapability(c)) <= MaxPerCapability
        BY DEF AdmissionBound
      <3> HIDE DEF OfCapability
      <3> QED BY <1>0, <3>1, <3>2, FitsStep
    <2> QED BY <2>2, <2>3, <2>4 DEF AdmissionBound
  <1>3. ASSUME NEW i \in Jobs, Enters(i) PROVE AdmissionBound'
    <2>1. /\ InflightJobs' \in SUBSET (InflightJobs \union {i})
          /\ \A k \in InflightJobs' \ {i} : k \in InflightJobs /\ binding'[k] = binding[k]
      BY <1>0, <1>1, <1>3 DEF Enters
    <2>2. AdmissionAvailable(binding'[i].asset, binding'[i].capability)
      BY <1>3 DEF Enters
    <2>3. Cardinality(InflightJobs') <= MaxActive
      BY <1>0, <2>1, <2>2, FitsStep DEF AdmissionAvailable, AdmissionBound
    <2>4. ASSUME NEW a \in Assets
          PROVE  Cardinality(OfOrg(a)') <= MaxPerOrg /\ Cardinality(OfAsset(a)') <= MaxPerAsset
      <3>1. /\ OfOrg(a) \in SUBSET Jobs /\ OfAsset(a) \in SUBSET Jobs
            /\ OfOrg(a)' \in SUBSET Jobs /\ OfAsset(a)' \in SUBSET Jobs
        BY <1>0
      <3>2. Cardinality(OfOrg(a)) <= MaxPerOrg /\ Cardinality(OfAsset(a)) <= MaxPerAsset
        BY DEF AdmissionBound
      <3>3. \/ OfOrg(a)' \in SUBSET OfOrg(a)
            \/ Cardinality(OfOrg(a)) < MaxPerOrg /\ OfOrg(a)' \in SUBSET (OfOrg(a) \union {i})
        <4>1. CASE OrgOf[binding'[i].asset] = OrgOf[a]
          BY <2>1, <2>2, <4>1 DEF AdmissionAvailable
        <4>2. CASE OrgOf[binding'[i].asset] # OrgOf[a]
          BY <2>1, <4>2
        <4> QED BY <4>1, <4>2
      <3>4. \/ OfAsset(a)' \in SUBSET OfAsset(a)
            \/ Cardinality(OfAsset(a)) < MaxPerAsset /\ OfAsset(a)' \in SUBSET (OfAsset(a) \union {i})
        <4>1. CASE binding'[i].asset = a
          BY <2>1, <2>2, <4>1 DEF AdmissionAvailable
        <4>2. CASE binding'[i].asset # a
          BY <2>1, <4>2
        <4> QED BY <4>1, <4>2
      <3> HIDE DEF OfOrg, OfAsset
      <3> QED BY <1>0, <3>1, <3>2, <3>3, <3>4, FitsStep
    <2>5. ASSUME NEW c \in Capabilities PROVE Cardinality(OfCapability(c)') <= MaxPerCapability
      <3>1. OfCapability(c) \in SUBSET Jobs /\ OfCapability(c)' \in SUBSET Jobs
        BY <1>0
      <3>2. Cardinality(OfCapability(c)) <= MaxPerCapability
        BY DEF AdmissionBound
      <3>3. \/ OfCapability(c)' \in SUBSET OfCapability(c)
            \/ /\ Cardinality(OfCapability(c)) < MaxPerCapability
               /\ OfCapability(c)' \in SUBSET (OfCapability(c) \union {i})
        <4>1. CASE binding'[i].capability = c
          BY <2>1, <2>2, <4>1 DEF AdmissionAvailable
        <4>2. CASE binding'[i].capability # c
          BY <2>1, <4>2
        <4> QED BY <4>1, <4>2
      <3> HIDE DEF OfCapability
      <3> QED BY <1>0, <3>1, <3>2, <3>3, FitsStep
    <2> QED BY <2>3, <2>4, <2>5 DEF AdmissionBound
  <1> QED BY <1>2, <1>3, RecordStep

-----------------------------------------------------------------------------
\* The first state satisfies the whole invariant.
LEMMA ActiveInit == Init => ActiveInv
  <1> SUFFICES ASSUME Init PROVE ActiveInv
    OBVIOUS
  <1> USE ActiveConstants
  <1>1. PICK a \in Assets, c \in Capabilities :
            binding = [j \in Jobs |-> [asset |-> a, capability |-> c, revision |-> 1,
                                       retry |-> NoJob, key |-> OwnKey]]
    BY DEF Init
  <1>2. binding \in [Jobs -> Binding]
    BY <1>1 DEF Binding, OwnKey, Occurrence
  <1>3. rec \in [Recurrences -> RecRecord] /\ snap \in [Recurrences -> RecRecord]
    BY DEF Init, Blank, RecRecord, RecStatus
  <1>4. TypeOK
    BY <1>2, <1>3 DEF Init, TypeOK, Status, TaskState
  <1>5. TickHasOccurrence /\ OneJobPerOccurrence
    BY DEF Init, TickHasOccurrence, OneJobPerOccurrence
  <1>6. JobInv
    BY DEF Init, JobInv, ScheduledIsOpen, ContactIsPast, DownIsIdle, ExecutingIsInflight, Executing,
           InflightHasTask, InflightJobs, Inflight
  <1>7. InflightJobs = {}
    BY DEF Init, InflightJobs, Inflight
  <1>8. ASSUME NEW S \in SUBSET InflightJobs PROVE Cardinality(S) = 0
    BY <1>7, FS_EmptySet
  <1>9. AdmissionBound
    BY <1>8 DEF AdmissionBound
  <1> QED BY <1>4, <1>5, <1>6, <1>9 DEF ActiveInv

\* The invariant is inductive.
LEMMA ActiveStep == ActiveInv /\ [Next]_vars => ActiveInv'
  BY JobStep, TypeStep, TickStep, OccurrenceStep, AdmissionStep DEF ActiveInv

\* Every reachable state satisfies the invariant.
THEOREM ActiveInvariant == Spec => []ActiveInv
  BY ActiveInit, ActiveStep, PTL DEF Spec

\* The registry, the recurrences and the job records stay typed.
THEOREM ActiveTyped == Spec => []TypeOK
  BY ActiveInvariant, PTL DEF ActiveInv

\* In a live process every queued, running or cancelling execution has the
\* task that will end it, unless a recurrence created it and then failed to
\* record the dispatch.
THEOREM NothingElseIsStranded == Spec => []InflightHasTask
  BY ActiveInvariant, PTL DEF ActiveInv, JobInv

\* A cancellation, a revocation or a restart never closes the record, and so
\* never frees the capacity, of an execution whose task still runs.
THEOREM LiveExecutionIsCounted == Spec => []ExecutingIsInflight
  BY ActiveInvariant, PTL DEF ActiveInv, JobInv

\* An execution contacts the runner at most once.
THEOREM ContactsAtMostOnce == Spec => []ContactedOnce
  <1>1. ActiveInv => ContactedOnce
    BY DEF ActiveInv, JobInv, ContactIsPast, ContactedOnce
  <1> QED BY <1>1, ActiveInvariant, PTL

\* An occurrence of a recurrence contacts the runner at most once while its
\* record is retained, although job and recurrence are saved apart.
THEOREM OccurrenceContactsOnce == Spec => []OccurrenceRunsOnce
  <1>1. ActiveInv => OccurrenceRunsOnce
    BY DEF ActiveInv, JobInv, ContactIsPast, OneJobPerOccurrence, OccurrenceRunsOnce
  <1> QED BY <1>1, ActiveInvariant, PTL

\* Jobs in flight stay within the limits of the installation, of every
\* organization, of every asset and of every capability.
THEOREM AdmissionIsBounded == Spec => []AdmissionBound
  BY ActiveInvariant, PTL DEF ActiveInv

\* A terminal record never changes its outcome.
THEOREM OutcomesAreFinal == Spec => TerminalIsFinal
  <1>1. ActiveInv /\ [Next]_vars
            => [\A j \in Jobs : status[j] \in Terminal => status'[j] \in {status[j], "deleted"}]_vars
    <2>1. ASSUME ActiveInv, [Next]_vars, NEW j \in Jobs, status[j] \in Terminal
          PROVE  status'[j] \in {status[j], "deleted"}
      <3>1. CASE \A k \in Jobs : Ages(k)
        BY <2>1, <3>1 DEF Ages
      <3>2. ASSUME NEW i \in Jobs, Enters(i) PROVE status'[j] \in {status[j], "deleted"}
        BY <2>1, <3>2 DEF Enters, Ages, Terminal
      <3> QED BY <2>1, <3>1, <3>2, RecordStep DEF ActiveInv
    <2> QED BY <2>1
  <1> QED BY <1>1, ActiveInvariant, PTL DEF Spec, TerminalIsFinal

-----------------------------------------------------------------------------
\* A recurrence read as occurrence n under revision v is now x: it has moved
\* on since, or is at that occurrence still and bound to that revision.
Follows(x, n, v) == x.occ > n \/ (x.occ = n /\ x.revision = v)

\* The dispatcher holds records that were armed when it listed them.
TickReadArmed ==
    \A r \in Recurrences :
        r \in batch \/ checking = r =>
            snap[r].status = "active" /\ Follows(rec[r], snap[r].occ, snap[r].revision)

\* The job of an occurrence carries the revision the recurrence had then.
JobReadRevision ==
    \A j \in Jobs, r \in Recurrences :
        binding[j].key.of = r => Follows(rec[r], binding[j].key.number, binding[j].revision)

\* A recurrence never goes back, and is bound to another revision only with
\* another occurrence.
LEMMA RecurrenceMoves ==
    ASSUME TypeOK, TickHasOccurrence, [Next]_vars, NEW r \in Recurrences
    PROVE  /\ rec'[r].occ \in Nat
           /\ \/ rec'[r].occ > rec[r].occ
              \/ rec'[r].occ = rec[r].occ /\ rec'[r].revision = rec[r].revision
  <1> USE DEF assetVars, recVars, jobVars
  <1>0. /\ rec \in [Recurrences -> RecRecord] /\ rec[r].occ \in Nat /\ rec[r].revision \in Nat
        /\ MaxOccurrence \in Nat
    BY ActiveConstants DEF TypeOK, RecRecord
  <1> DEFINE Goal == rec'[r].occ \in Nat /\ (\/ rec'[r].occ > rec[r].occ
                                             \/ rec'[r].occ = rec[r].occ /\ rec'[r].revision = rec[r].revision)
  <1>1. ASSUME \/ rec' = rec
               \/ \E q \in Recurrences, t \in RecStatus : rec' = [rec EXCEPT ![q].status = t]
        PROVE  Goal
    BY <1>0, <1>1 DEF RecRecord
  <1>2. ASSUME NEW a \in Assets, Renew(a) \/ Revoke(a) PROVE Goal
    BY <1>0, <1>2 DEF Renew, Revoke, SuspendedFor, RecRecord
  <1>3. ASSUME NEW a \in Assets, Expire(a) \/ CrashInRevoke(a) PROVE Goal
    BY <1>1, <1>3 DEF Expire, CrashInRevoke
  <1>4. ASSUME NEW j \in Jobs, \/ Cancel(j) \/ DeleteJob(j) \/ TaskStep(j)
                               \/ \E a \in Assets, c \in Capabilities : Launch(j, a, c)
        PROVE  Goal
    BY <1>1, <1>4
    DEF Cancel, DeleteJob, TaskStep, Claim, Contact, RunnerAnswers, ObserveStop, Stop, Finish, Over, Launch
  <1>5. ASSUME NEW q \in Recurrences, Arm(q) PROVE Goal
    BY <1>0, <1>5 DEF Arm
  <1>6. ASSUME NEW q \in Recurrences, Disarm(q) \/ CheckDue(q) \/ DispatchDeferred(q) PROVE Goal
    <2>1. "suspended" \in RecStatus /\ "disarmed" \in RecStatus
      BY DEF RecStatus
    <2> QED BY <1>1, <1>6, <2>1 DEF Disarm, CheckDue, DispatchDeferred, Deferred
  <1>7. ASSUME NEW q \in Recurrences, Dispatched(q) PROVE Goal
    BY <1>0, <1>7 DEF Dispatched
  <1>8. ASSUME NEW q \in Recurrences, Deferred(q) PROVE Goal
    <2>1. "suspended" \in RecStatus
      BY DEF RecStatus
    <2> QED BY <1>1, <1>8, <2>1 DEF Deferred
  <1>9. ASSUME NEW q \in Recurrences, NEW j \in Jobs,
               DispatchNew(q, j) \/ DispatchReplay(q, j) \/ CrashInDispatch(q, j)
        PROVE  Goal
    BY <1>1, <1>7, <1>8, <1>9 DEF DispatchNew, DispatchReplay, CrashInDispatch
  <1>10. ASSUME Crash \/ Boot \/ UNCHANGED vars PROVE Goal
    BY <1>1, <1>10 DEF Crash, Boot, vars
  <1> HIDE DEF Goal
  <1>11. Goal
    BY <1>2, <1>3, <1>4, <1>5, <1>6, <1>9, <1>10 DEF Next, RecurrenceStep
  <1> QED BY <1>11 DEF Goal

\* What was read once stays read.
LEMMA FollowsStep ==
    ASSUME TypeOK, TickHasOccurrence, [Next]_vars
    PROVE  \A r \in Recurrences, n \in Nat : \A v : Follows(rec[r], n, v) => Follows(rec'[r], n, v)
  <1>1. \A r \in Recurrences : rec[r].occ \in Nat
    BY ActiveConstants DEF TypeOK, RecRecord
  <1> QED BY <1>1, RecurrenceMoves DEF Follows

\* A tick holds records that were armed when it listed them.
LEMMA TickReadStep ==
    ASSUME TypeOK, TickHasOccurrence, TickReadArmed, [Next]_vars PROVE TickReadArmed'
  <1> USE ActiveConstants DEF assetVars, recVars, jobVars
  <1>0. ASSUME NEW r \in Recurrences
        PROVE  snap[r].occ \in Nat /\ Follows(rec[r], rec[r].occ, rec[r].revision) /\ r # NoRec
    BY DEF TypeOK, RecRecord, Follows
  <1>1. ASSUME batch' \subseteq batch, checking' \in {checking, NoRec},
               snap' = snap \/ (batch' = {} /\ checking' = NoRec)
        PROVE  TickReadArmed'
    BY <1>0, <1>1, FollowsStep DEF TickReadArmed
  <1>2. ASSUME NEW q \in Recurrences, CheckDue(q) PROVE TickReadArmed'
    <2>1. ASSUME NEW r \in Recurrences, r \in batch' \/ checking' = r
          PROVE  snap'[r].status = "active" /\ Follows(rec'[r], snap'[r].occ, snap'[r].revision)
      <3>1. /\ \/ snap' = snap /\ batch # {} /\ r \in batch
               \/ snap' = rec /\ rec[r].status = "active"
        BY <1>0, <1>2, <2>1 DEF CheckDue, Due, Listed
      <3>2. snap'[r].status = "active" /\ Follows(rec[r], snap'[r].occ, snap'[r].revision)
        BY <1>0, <3>1 DEF TickReadArmed
      <3>3. snap'[r].occ \in Nat
        BY <3>1 DEF TypeOK, RecRecord
      <3> QED BY <3>2, <3>3, FollowsStep
    <2> QED BY <2>1 DEF TickReadArmed
  <1>3. ASSUME NEW q \in Recurrences,
               \/ Arm(q) \/ Disarm(q) \/ DispatchDeferred(q)
               \/ \E j \in Jobs : DispatchNew(q, j) \/ DispatchReplay(q, j) \/ CrashInDispatch(q, j)
        PROVE  TickReadArmed'
    BY <1>1, <1>3 DEF Arm, Disarm, DispatchDeferred, DispatchNew, DispatchReplay, CrashInDispatch,
                      ProcessGone, Listed
  <1>4. ASSUME NEW a \in Assets, Expire(a) \/ Renew(a) \/ Revoke(a) \/ CrashInRevoke(a)
        PROVE  TickReadArmed'
    BY <1>1, <1>4 DEF Expire, Renew, Revoke, CrashInRevoke, ProcessGone
  <1>5. ASSUME NEW j \in Jobs, \/ Cancel(j) \/ DeleteJob(j) \/ TaskStep(j)
                               \/ \E a \in Assets, c \in Capabilities : Launch(j, a, c)
        PROVE  TickReadArmed'
    BY <1>1, <1>5
    DEF Cancel, DeleteJob, TaskStep, Claim, Contact, RunnerAnswers, ObserveStop, Stop, Finish, Over, Launch
  <1>6. ASSUME Crash \/ Boot \/ UNCHANGED vars PROVE TickReadArmed'
    BY <1>1, <1>6 DEF Crash, ProcessGone, Boot, vars
  <1> QED BY <1>2, <1>3, <1>4, <1>5, <1>6 DEF Next, RecurrenceStep

\* A job of an occurrence is created from the record the tick listed.
LEMMA JobReadStep ==
    ASSUME TypeOK, TickHasOccurrence, TickReadArmed, JobReadRevision, [Next]_vars
    PROVE  JobReadRevision'
  <1> USE ActiveConstants DEF assetVars, recVars, jobVars
  <1>0. /\ binding \in [Jobs -> Binding]
        /\ \A j \in Jobs : binding[j].key.number \in Nat
        /\ \A r \in Recurrences : snap[r].occ \in Nat /\ r # NoRec
    BY DEF TypeOK, RecRecord, Binding, Occurrence
  <1>1. ASSUME NEW j \in Jobs, \A k \in Jobs \ {j} : binding'[k] = binding[k],
               \A r \in Recurrences :
                    binding'[j].key.of = r => Follows(rec'[r], binding'[j].key.number, binding'[j].revision)
        PROVE  JobReadRevision'
    BY <1>0, <1>1, FollowsStep DEF JobReadRevision
  <1>2. ASSUME binding' = binding PROVE JobReadRevision'
    BY <1>0, <1>2, FollowsStep DEF JobReadRevision
  <1>3. ASSUME NEW j \in Jobs, NEW a \in Assets, NEW c \in Capabilities, Launch(j, a, c)
        PROVE  JobReadRevision'
    <2>1. PICK r \in RetryTargets(a, c) : Create(j, a, c, revision[a], r, OwnKey)
      BY <1>3 DEF Launch
    <2>2. binding'[j].key.of = NoRec /\ \A k \in Jobs \ {j} : binding'[k] = binding[k]
      BY <1>0, <2>1 DEF Create, OwnKey
    <2> QED BY <1>0, <1>1, <2>2
  <1>4. ASSUME NEW q \in Recurrences, NEW j \in Jobs, CreateOccurrence(q, j)
        PROVE  JobReadRevision'
    <2>1. /\ binding'[j].key.of = q /\ binding'[j].key.number = snap[q].occ
          /\ binding'[j].revision = snap[q].revision
          /\ \A k \in Jobs \ {j} : binding'[k] = binding[k]
          /\ checking = q
      BY <1>0, <1>4 DEF CreateOccurrence, Create, OccurrenceKey
    <2>2. Follows(rec'[q], snap[q].occ, snap[q].revision)
      BY <1>0, <2>1, FollowsStep DEF TickReadArmed
    <2> QED BY <1>1, <2>1, <2>2
  <1>5. ASSUME NEW q \in Recurrences,
               \/ Arm(q) \/ Disarm(q) \/ CheckDue(q) \/ DispatchDeferred(q)
               \/ \E j \in Jobs : DispatchNew(q, j) \/ DispatchReplay(q, j) \/ CrashInDispatch(q, j)
        PROVE  JobReadRevision'
    BY <1>2, <1>4, <1>5
    DEF Arm, Disarm, CheckDue, DispatchDeferred, DispatchNew, DispatchReplay, CrashInDispatch
  <1>6. ASSUME NEW a \in Assets, Expire(a) \/ Renew(a) \/ Revoke(a) \/ CrashInRevoke(a)
        PROVE  JobReadRevision'
    BY <1>2, <1>6 DEF Expire, Renew, Revoke, CrashInRevoke
  <1>7. ASSUME NEW j \in Jobs, Cancel(j) \/ DeleteJob(j) \/ TaskStep(j) PROVE JobReadRevision'
    BY <1>2, <1>7
    DEF Cancel, DeleteJob, TaskStep, Claim, Contact, RunnerAnswers, ObserveStop, Stop, Finish, Over
  <1>8. ASSUME Crash \/ Boot \/ UNCHANGED vars PROVE JobReadRevision'
    BY <1>2, <1>8 DEF Crash, Boot, vars
  <1> QED BY <1>3, <1>5, <1>6, <1>7, <1>8 DEF Next, RecurrenceStep

\* What ticks and jobs carry agrees with the recurrences in every state.
THEOREM ReadsAreKept == Spec => [](TickReadArmed /\ JobReadRevision)
  <1>1. Init => TickReadArmed /\ JobReadRevision
    BY ActiveConstants DEF Init, TickReadArmed, JobReadRevision, OwnKey
  <1>2. ActiveInv /\ (TickReadArmed /\ JobReadRevision) /\ [Next]_vars
            => (TickReadArmed /\ JobReadRevision)'
    BY TickReadStep, JobReadStep DEF ActiveInv
  <1> QED BY <1>1, <1>2, ActiveInvariant, PTL DEF Spec

\* A live process schedules the job of a recurrence only while the recurrence
\* is armed for the revision the job carries, also when the job was created by
\* an earlier tick or process: record_dispatch compares the record with the
\* one listed before the health check.
THEOREM DispatchesOnlyArmed == Spec => DispatchOnlyArmed
  <1> DEFINE Armed == \A j \in Jobs, r \in Recurrences :
                        /\ phase = "up" /\ task[j] = "idle" /\ task'[j] = "scheduled"
                        /\ binding'[j].key.of = r
                        => rec[r].status = "active" /\ rec[r].revision = binding'[j].revision
  <1>1. ASSUME ActiveInv, TickReadArmed, JobReadRevision, [Next]_vars PROVE Armed
    <2> SUFFICES ASSUME NEW j \in Jobs, NEW r \in Recurrences,
                        phase = "up", task[j] = "idle", task'[j] = "scheduled", binding'[j].key.of = r
                 PROVE  rec[r].status = "active" /\ rec[r].revision = binding'[j].revision
      OBVIOUS
    <2> USE <1>1, ActiveConstants DEF assetVars, recVars, jobVars
    <2>0. TypeOK /\ task \in [Jobs -> TaskState] /\ binding \in [Jobs -> Binding]
      BY DEF ActiveInv, TypeOK
    <2>1. ASSUME NEW i \in Jobs, NEW a \in Assets, NEW c \in Capabilities, Launch(i, a, c) PROVE FALSE
      <3>1. PICK t \in RetryTargets(a, c) : Create(i, a, c, revision[a], t, OwnKey)
        BY <2>1 DEF Launch
      <3>2. i = j
        BY <2>0, <2>1 DEF Launch
      <3> QED BY <2>0, <3>1, <3>2 DEF Create, OwnKey
    <2>2. ASSUME NEW q \in Recurrences, NEW i \in Jobs, DispatchNew(q, i)
          PROVE  rec[r].status = "active" /\ rec[r].revision = binding'[j].revision
      <3>1. i = j /\ Dispatched(q) /\ CreateOccurrence(q, i)
        BY <2>0, <2>2 DEF DispatchNew
      <3>2. binding'[j].key.of = q /\ binding'[j].revision = snap[q].revision /\ checking = q
        BY <2>0, <3>1 DEF CreateOccurrence, Create, OccurrenceKey
      <3> QED BY <3>1, <3>2 DEF Dispatched, Unchanged, TickReadArmed
    <2>3. ASSUME NEW q \in Recurrences, NEW i \in Jobs, DispatchReplay(q, i)
          PROVE  rec[r].status = "active" /\ rec[r].revision = binding'[j].revision
      <3>1. i = j /\ Dispatched(q) /\ checking = q /\ i \in Existing(OccurrenceKey(q)) /\ binding' = binding
        BY <2>0, <2>3 DEF DispatchReplay
      <3>2. binding[j].key.of = q /\ binding[j].key.number = snap[q].occ /\ q = r
        BY <3>1 DEF Existing, OccurrenceKey
      <3>3. Follows(rec[r], rec[r].occ, binding[j].revision) /\ rec[r].status = "active"
        BY <3>1, <3>2 DEF JobReadRevision, TickReadArmed, Dispatched, Unchanged
      <3>4. rec[r].occ \in Nat
        BY <2>0 DEF TypeOK, RecRecord
      <3> QED BY <3>1, <3>3, <3>4 DEF Follows
    <2>4. ASSUME NEW i \in Jobs, Cancel(i) \/ DeleteJob(i) \/ TaskStep(i) PROVE FALSE
      BY <2>0, <2>4
      DEF Cancel, DeleteJob, TaskStep, Claim, Contact, RunnerAnswers, ObserveStop, Stop, Finish, Over
    <2>5. ASSUME NEW q \in Recurrences,
                 \/ Arm(q) \/ Disarm(q) \/ CheckDue(q) \/ DispatchDeferred(q)
                 \/ \E i \in Jobs : CrashInDispatch(q, i)
          PROVE  FALSE
      BY <2>5 DEF Arm, Disarm, CheckDue, DispatchDeferred, CrashInDispatch, ProcessGone
    <2>6. ASSUME NEW a \in Assets, Expire(a) \/ Renew(a) \/ Revoke(a) \/ CrashInRevoke(a) PROVE FALSE
      BY <2>6 DEF Expire, Renew, Revoke, CrashInRevoke, ProcessGone
    <2>7. ASSUME Crash \/ Boot \/ UNCHANGED vars PROVE FALSE
      BY <2>7 DEF Crash, ProcessGone, Boot, vars
    <2> QED BY <2>1, <2>2, <2>3, <2>4, <2>5, <2>6, <2>7 DEF Next, RecurrenceStep
  <1>2. ActiveInv /\ (TickReadArmed /\ JobReadRevision) /\ [Next]_vars => [Armed]_vars
    BY <1>1
  <1> QED BY <1>2, ActiveInvariant, ReadsAreKept, PTL DEF Spec, DispatchOnlyArmed

-----------------------------------------------------------------------------
\* An answer 2xx in hand means that the receiver persisted the event.  With
\* it, DeliveredWasReceived is inductive.
AcceptedWasReceived == \A e \in Events : call[e] = "accepted" => e \in received

OutboxInv ==
    /\ OutboxTypeOK
    /\ ClaimHeld
    /\ AttemptLeft
    /\ AcceptedWasReceived
    /\ DeliveredWasReceived

-----------------------------------------------------------------------------
\* Counting a row down keeps its type.
LEMMA OlderType == ASSUME NEW r \in Row PROVE Older(r) \in Row
  <1>1. MaxAge \in Nat
    BY OutboxConstants DEF MaxAge
  <1>2. ASSUME NEW n \in Nat, NEW x \in 0..n PROVE Greatest0(x) \in 0..n
    BY DEF Greatest0
  <1>3. Greatest0(r.wait) \in 0..MaxBackoff /\ Greatest0(r.lease) \in 0..Lease
    BY <1>2, OutboxConstants DEF Row
  <1>4. Least(MaxAge, r.age + 1) \in 0..MaxAge
    BY <1>1 DEF Row, Least
  <1>5. ASSUME NEW w \in 0..MaxBackoff, NEW l \in 0..Lease, NEW g \in 0..MaxAge
        PROVE  [r EXCEPT !.wait = w, !.lease = l, !.age = g] \in Row
    BY DEF Row
  <1> QED BY <1>3, <1>4, <1>5 DEF Older

\* record_result keeps the type of a row that has an attempt left.
LEMMA SettleType ==
    ASSUME NEW r \in Row, r.attempts < MaxAttempts, NEW a \in Answer
    PROVE  Settle(r, a) \in Row
  <1>1. r.attempts + 1 \in 1..MaxAttempts
    BY OutboxConstants DEF Row
  <1>2. Backoff[r.attempts + 1] \in 0..MaxBackoff
    BY <1>1, OutboxConstants
  <1>3. MaxAge \in Nat
    BY OutboxConstants DEF MaxAge
  <1>4. ASSUME NEW s \in RowState, NEW n \in 0..MaxAttempts, NEW w \in 0..MaxBackoff,
               NEW l \in 0..Lease, NEW g \in 0..MaxAge
        PROVE  /\ [r EXCEPT !.state = s, !.attempts = n, !.wait = w, !.lease = l, !.age = g] \in Row
               /\ [r EXCEPT !.state = s, !.attempts = n, !.lease = l, !.wait = w] \in Row
               /\ [r EXCEPT !.state = s, !.attempts = n, !.wait = w, !.lease = l] \in Row
    BY DEF Row
  <1>5. 0 \in 0..MaxBackoff /\ 0 \in 0..Lease /\ 0 \in 0..MaxAge /\ r.attempts + 1 \in 0..MaxAttempts
    BY <1>1, <1>3, OutboxConstants
  <1>6. "delivered" \in RowState /\ "pending" \in RowState /\ "dead" \in RowState
    BY DEF RowState
  <1> QED BY <1>2, <1>4, <1>5, <1>6 DEF Settle

\* Replaying a row keeps its type.
LEMMA ReplayedType == ASSUME NEW r \in Row PROVE Replayed(r) \in Row
  <1>1. ASSUME NEW s \in RowState, NEW n \in 0..MaxAttempts, NEW w \in 0..MaxBackoff, NEW l \in 0..Lease
        PROVE  [r EXCEPT !.state = s, !.attempts = n, !.wait = w, !.lease = l] \in Row
    BY DEF Row
  <1>2. 0 \in 0..MaxAttempts /\ 0 \in 0..MaxBackoff /\ 0 \in 0..Lease /\ "pending" \in RowState
    BY OutboxConstants DEF RowState
  <1> QED BY <1>1, <1>2 DEF Replayed

\* Claiming a row and reaping its lease keep its type.
LEMMA ClaimType ==
    ASSUME NEW r \in Row
    PROVE  /\ [r EXCEPT !.state = "delivering", !.lease = Lease] \in Row
           /\ [r EXCEPT !.state = "pending"] \in Row
  <1>1. ASSUME NEW s \in RowState, NEW l \in 0..Lease
        PROVE  [r EXCEPT !.state = s, !.lease = l] \in Row /\ [r EXCEPT !.state = s] \in Row
    BY DEF Row
  <1>2. Lease \in 0..Lease /\ "pending" \in RowState /\ "delivering" \in RowState
    BY OutboxConstants DEF RowState
  <1> QED BY <1>1, <1>2

\* A missing row and a new one are rows.
LEMMA NewRowType == Absent \in Row /\ NewRow \in Row
  <1>1. MaxAge \in Nat
    BY OutboxConstants DEF MaxAge
  <1> QED BY <1>1, OutboxConstants DEF Absent, NewRow, Row, RowState

\* What a drain does to one row: nothing, or it claims it, or it returns an
\* expired claim to the queue.  Attempts are never touched.
LEMMA DrainRow ==
    ASSUME OutboxTypeOK, Drain, NEW f \in Events
    PROVE  /\ rows'[f].attempts = rows[f].attempts
           /\ \/ rows'[f] = rows[f] /\ call'[f] = call[f]
              \/ f \in DueRows /\ rows'[f].state = "delivering"
              \/ f \in DueRows /\ rows'[f].state = "pending" /\ call'[f] = call[f]
  <1> PICK S \in SUBSET DueRows :
        /\ rows' = [e \in Events |->
             IF e \in S THEN [rows[e] EXCEPT !.state = "delivering", !.lease = Lease]
             ELSE IF LeaseOver(rows[e]) THEN [rows[e] EXCEPT !.state = "pending"]
             ELSE rows[e]]
        /\ call' = [e \in Events |-> IF e \in S THEN "sending" ELSE call[e]]
    BY DEF Drain
  <1> rows[f] \in Row
    BY DEF OutboxTypeOK
  <1>1. CASE f \in S
    <2>1. rows'[f] = [rows[f] EXCEPT !.state = "delivering", !.lease = Lease]
      BY <1>1
    <2>2. rows'[f].state = "delivering" /\ rows'[f].attempts = rows[f].attempts
      BY <2>1 DEF Row
    <2> QED BY <1>1, <2>2
  <1>2. CASE f \notin S /\ LeaseOver(rows[f])
    <2>1. rows'[f] = [rows[f] EXCEPT !.state = "pending"] /\ call'[f] = call[f]
      BY <1>2
    <2>2. rows'[f].state = "pending" /\ rows'[f].attempts = rows[f].attempts
      BY <2>1 DEF Row
    <2> QED BY <1>2, <2>1, <2>2 DEF DueRows
  <1>3. CASE f \notin S /\ ~LeaseOver(rows[f])
    BY <1>3
  <1> QED BY <1>1, <1>2, <1>3

\* The initial state satisfies the invariant.
LEMMA OutboxStarts == OutboxInit => OutboxInv
  BY OutboxConstants, NewRowType
     DEF OutboxInit, OutboxInv, OutboxTypeOK, ClaimHeld, AttemptLeft, AcceptedWasReceived,
         DeliveredWasReceived, NoPreflight, Call, Answer, Absent

\* Every step of the outbox preserves the type invariant.
LEMMA OutboxTypeStep == OutboxInv /\ [OutboxNext]_outboxVars => OutboxTypeOK'
  <1> SUFFICES ASSUME OutboxInv, [OutboxNext]_outboxVars PROVE OutboxTypeOK'
    OBVIOUS
  <1> USE DEF OutboxInv, OutboxTypeOK
  <1>1. ASSUME NEW e \in Events, Enqueue(e) PROVE OutboxTypeOK'
    <2>1. Purged \in [Events -> Row]
      BY NewRowType DEF Purged
    <2> QED BY <1>1, <2>1, NewRowType DEF Enqueue
  <1>2. ASSUME NEW e \in Events, Deliver(e) PROVE OutboxTypeOK'
    BY <1>2 DEF Deliver, Call, Answer
  <1>3. ASSUME NEW e \in Events, RecordResult(e) PROVE OutboxTypeOK'
    <2>1. Settle(rows[e], call[e]) \in Row
      BY <1>3, SettleType DEF RecordResult, AttemptLeft
    <2> QED BY <1>3, <2>1 DEF RecordResult, Call
  <1>4. CASE Drain
    <2> PICK S \in SUBSET DueRows :
          /\ rows' = [e \in Events |->
               IF e \in S THEN [rows[e] EXCEPT !.state = "delivering", !.lease = Lease]
               ELSE IF LeaseOver(rows[e]) THEN [rows[e] EXCEPT !.state = "pending"]
               ELSE rows[e]]
          /\ call' = [e \in Events |-> IF e \in S THEN "sending" ELSE call[e]]
      BY <1>4 DEF Drain
    <2>2. rows' \in [Events -> Row]
      BY ClaimType
    <2>3. call' \in [Events -> Call]
      BY DEF Call
    <2> QED BY <1>4, <2>2, <2>3 DEF Drain
  <1>5. CASE ReplayPreflight
    <2>1. DeadSelection \in SUBSET Events
      BY DEF DeadSelection, Dead
    <2> QED BY <1>5, <2>1, OutboxConstants DEF ReplayPreflight
  <1>6. CASE ReplayDead
    <2>1. rows' \in [Events -> Row]
      BY <1>6, ReplayedType DEF ReplayDead
    <2> QED BY <1>6, <2>1 DEF ReplayDead
  <1>7. CASE Tick
    <2>1. rows' \in [Events -> Row]
      BY <1>7, OlderType DEF Tick
    <2>2. preflight' \in [sel: SUBSET Events, age: 0..(ReplayTTL + 1)]
      <3>1. Least(ReplayTTL + 1, preflight.age + 1) \in 0..(ReplayTTL + 1)
        BY OutboxConstants DEF Least
      <3> QED BY <1>7, <3>1 DEF Tick
    <2> QED BY <1>7, <2>1, <2>2 DEF Tick
  <1>8. CASE OutboxCrash
    BY <1>8, OutboxConstants DEF OutboxCrash, Call
  <1>9. CASE UNCHANGED outboxVars
    BY <1>9 DEF outboxVars
  <1> QED BY <1>1, <1>2, <1>3, <1>4, <1>5, <1>6, <1>7, <1>8, <1>9 DEF OutboxNext

\* While a delivery is awaited its row stays claimed: the only step that
\* reaps leases is a drain, and it starts when no delivery is awaited.
LEMMA ClaimStep == OutboxInv /\ [OutboxNext]_outboxVars => ClaimHeld'
  <1> SUFFICES ASSUME OutboxInv, [OutboxNext]_outboxVars, NEW f \in Events, call'[f] # "idle"
               PROVE  rows'[f].state = "delivering"
    BY DEF ClaimHeld
  <1> USE DEF OutboxInv, OutboxTypeOK, ClaimHeld
  <1>1. ASSUME NEW e \in Events, Enqueue(e) PROVE rows'[f].state = "delivering"
    <2>1. rows[f].state = "delivering" /\ Purged[f] = rows[f]
      BY <1>1 DEF Enqueue, Purged, Expired
    <2> QED BY <1>1, <2>1 DEF Enqueue, Purged
  <1>2. ASSUME NEW e \in Events, Deliver(e) PROVE rows'[f].state = "delivering"
    BY <1>2 DEF Deliver, Answer
  <1>3. ASSUME NEW e \in Events, RecordResult(e) PROVE rows'[f].state = "delivering"
    BY <1>3 DEF RecordResult
  <1>4. CASE Drain
    <2>1. call[f] = "idle"
      BY <1>4 DEF Drain, DispatcherFree, Idle
    <2> QED BY <1>4, <2>1, DrainRow
  <1>5. CASE ReplayPreflight
    BY <1>5 DEF ReplayPreflight
  <1>6. CASE ReplayDead
    <2>1. f \notin DeadSelection
      BY <1>6 DEF ReplayDead, DeadSelection, Dead
    <2> QED BY <1>6, <2>1 DEF ReplayDead
  <1>7. CASE Tick
    BY <1>7 DEF Tick, Older, Row
  <1>8. CASE OutboxCrash
    BY <1>8 DEF OutboxCrash
  <1>9. CASE UNCHANGED outboxVars
    BY <1>9 DEF outboxVars
  <1> QED BY <1>1, <1>2, <1>3, <1>4, <1>5, <1>6, <1>7, <1>8, <1>9 DEF OutboxNext

\* A row that may be posted again has an attempt left.
LEMMA AttemptStep == OutboxInv /\ [OutboxNext]_outboxVars => AttemptLeft'
  <1> SUFFICES ASSUME OutboxInv, [OutboxNext]_outboxVars, NEW f \in Events,
                      rows'[f].state \in {"pending", "delivering"}
               PROVE  rows'[f].attempts < MaxAttempts
    BY DEF AttemptLeft
  <1> USE DEF OutboxInv, OutboxTypeOK, AttemptLeft
  <1>1. ASSUME NEW e \in Events, Enqueue(e) PROVE rows'[f].attempts < MaxAttempts
    <2>1. rows'[f] \in {rows[f], Absent, NewRow}
      BY <1>1 DEF Enqueue, Purged
    <2>2. Absent.state = "absent" /\ NewRow.attempts = 0
      BY DEF Absent, NewRow
    <2> QED BY <2>1, <2>2, OutboxConstants
  <1>2. ASSUME NEW e \in Events, Deliver(e) PROVE rows'[f].attempts < MaxAttempts
    BY <1>2 DEF Deliver
  <1>3. ASSUME NEW e \in Events, RecordResult(e) PROVE rows'[f].attempts < MaxAttempts
    <2>1. CASE e = f
      <3>1. rows'[f] = Settle(rows[f], call[f])
        BY <1>3, <2>1 DEF RecordResult
      <3>2. rows[f].attempts + 1 < MaxAttempts /\ rows'[f].attempts = rows[f].attempts + 1
        BY <3>1 DEF Settle, Row
      <3> QED BY <3>2
    <2>2. CASE e # f
      BY <1>3, <2>2 DEF RecordResult
    <2> QED BY <2>1, <2>2
  <1>4. CASE Drain
    <2>1. /\ rows'[f].attempts = rows[f].attempts
          /\ rows[f].state \in {"pending", "delivering"}
      BY <1>4, DrainRow DEF DueRows, LeaseOver
    <2> QED BY <2>1
  <1>5. CASE ReplayPreflight
    BY <1>5 DEF ReplayPreflight
  <1>6. CASE ReplayDead
    <2>1. CASE f \in DeadSelection
      <3>1. rows'[f] = Replayed(rows[f])
        BY <1>6, <2>1 DEF ReplayDead
      <3> QED BY <3>1, OutboxConstants DEF Replayed, Row
    <2>2. CASE f \notin DeadSelection
      BY <1>6, <2>2 DEF ReplayDead
    <2> QED BY <2>1, <2>2
  <1>7. CASE Tick
    <2>1. rows'[f].attempts = rows[f].attempts /\ rows'[f].state = rows[f].state
      BY <1>7 DEF Tick, Older, Row
    <2> QED BY <2>1
  <1>8. CASE OutboxCrash
    BY <1>8 DEF OutboxCrash
  <1>9. CASE UNCHANGED outboxVars
    BY <1>9 DEF outboxVars
  <1> QED BY <1>1, <1>2, <1>3, <1>4, <1>5, <1>6, <1>7, <1>8, <1>9 DEF OutboxNext

\* An answer 2xx comes from a receiver that has the event.
LEMMA AcceptedStep == OutboxInv /\ [OutboxNext]_outboxVars => AcceptedWasReceived'
  <1> SUFFICES ASSUME OutboxInv, [OutboxNext]_outboxVars, NEW f \in Events, call'[f] = "accepted"
               PROVE  f \in received'
    BY DEF AcceptedWasReceived
  <1> USE DEF OutboxInv, OutboxTypeOK, AcceptedWasReceived
  <1>1. ASSUME NEW e \in Events, Enqueue(e) PROVE f \in received'
    BY <1>1 DEF Enqueue
  <1>2. ASSUME NEW e \in Events, Deliver(e) PROVE f \in received'
    BY <1>2 DEF Deliver
  <1>3. ASSUME NEW e \in Events, RecordResult(e) PROVE f \in received'
    BY <1>3 DEF RecordResult
  <1>4. CASE Drain
    BY <1>4 DEF Drain
  <1>5. CASE ReplayPreflight \/ ReplayDead \/ Tick
    BY <1>5 DEF ReplayPreflight, ReplayDead, Tick
  <1>6. CASE OutboxCrash
    BY <1>6 DEF OutboxCrash
  <1>7. CASE UNCHANGED outboxVars
    BY <1>7 DEF outboxVars
  <1> QED BY <1>1, <1>2, <1>3, <1>4, <1>5, <1>6, <1>7 DEF OutboxNext

\* A row becomes delivered only by a 2xx answer.
LEMMA DeliveredStep == OutboxInv /\ [OutboxNext]_outboxVars => DeliveredWasReceived'
  <1> SUFFICES ASSUME OutboxInv, [OutboxNext]_outboxVars, NEW f \in Events, rows'[f].state = "delivered"
               PROVE  f \in received'
    BY DEF DeliveredWasReceived
  <1> USE DEF OutboxInv, OutboxTypeOK, DeliveredWasReceived
  <1>1. ASSUME NEW e \in Events, Enqueue(e) PROVE f \in received'
    <2>1. rows'[f] \in {rows[f], Absent, NewRow}
      BY <1>1 DEF Enqueue, Purged
    <2>2. Absent.state # "delivered" /\ NewRow.state # "delivered"
      BY DEF Absent, NewRow
    <2> QED BY <1>1, <2>1, <2>2 DEF Enqueue
  <1>2. ASSUME NEW e \in Events, Deliver(e) PROVE f \in received'
    BY <1>2 DEF Deliver
  <1>3. ASSUME NEW e \in Events, RecordResult(e) PROVE f \in received'
    <2>1. CASE e = f
      <3>1. rows'[f] = Settle(rows[f], call[f])
        BY <1>3, <2>1 DEF RecordResult
      <3>2. call[f] = "accepted"
        BY <3>1 DEF Settle, Row
      <3> QED BY <1>3, <3>2 DEF RecordResult, AcceptedWasReceived
    <2>2. CASE e # f
      BY <1>3, <2>2 DEF RecordResult
    <2> QED BY <2>1, <2>2
  <1>4. CASE Drain
    BY <1>4, DrainRow DEF Drain
  <1>5. CASE ReplayPreflight
    BY <1>5 DEF ReplayPreflight
  <1>6. CASE ReplayDead
    BY <1>6 DEF ReplayDead, Replayed, Row
  <1>7. CASE Tick
    BY <1>7 DEF Tick, Older, Row
  <1>8. CASE OutboxCrash
    BY <1>8 DEF OutboxCrash
  <1>9. CASE UNCHANGED outboxVars
    BY <1>9 DEF outboxVars
  <1> QED BY <1>1, <1>2, <1>3, <1>4, <1>5, <1>6, <1>7, <1>8, <1>9 DEF OutboxNext

\* The inductive invariant of the outbox.
LEMMA OutboxInvariant == OutboxSpec => []OutboxInv
  <1>1. OutboxInv /\ [OutboxNext]_outboxVars => OutboxInv'
    BY OutboxTypeStep, ClaimStep, AttemptStep, AcceptedStep, DeliveredStep DEF OutboxInv
  <1> QED BY <1>1, OutboxStarts, PTL DEF OutboxSpec

\* Every reachable state of the outbox has its type: in particular no retry
\* delay exceeds its cap and no attempt count the limit of the SQL table.
THEOREM OutboxTyped == OutboxSpec => []OutboxTypeOK
  BY OutboxInvariant, PTL DEF OutboxInv

\* record_result of integration_events.py never raises delivery_claim_lost,
\* however long a delivery takes compared with the lease.
THEOREM ClaimsAreHeld == OutboxSpec => []ClaimHeld
  BY OutboxInvariant, PTL DEF OutboxInv

\* The limit on attempts is never exceeded, replays of dead rows included.
THEOREM AttemptsAreBounded == OutboxSpec => []AttemptLeft
  BY OutboxInvariant, PTL DEF OutboxInv

\* "delivered" is recorded only for events the receiver persisted.
THEOREM DeliveredIsHonest == OutboxSpec => []DeliveredWasReceived
  BY OutboxInvariant, PTL DEF OutboxInv

\* Retention of the outbox deletes only delivered and dead rows, so an event
\* that still waits for its delivery is never dropped.
THEOREM PendingIsNeverDropped == OutboxSpec => OnlyTerminalRowsVanish
  <1>1. ASSUME OutboxInv, [OutboxNext]_outboxVars, NEW f \in Events,
               rows[f].state # "absent", rows'[f].state = "absent"
        PROVE  rows[f].state \in {"delivered", "dead"}
    <2> USE <1>1 DEF OutboxInv, OutboxTypeOK
    <2>1. ASSUME NEW e \in Events, Enqueue(e) PROVE rows[f].state \in {"delivered", "dead"}
      <3>1. NewRow.state # "absent"
        BY DEF NewRow, Absent
      <3>2. Purged[f] # rows[f]
        BY <2>1, <3>1 DEF Enqueue, Purged
      <3> QED BY <3>2 DEF Purged, Expired
    <2>2. ASSUME NEW e \in Events, RecordResult(e) PROVE FALSE
      <3>1. Settle(rows[e], call[e]).state # "absent"
        BY DEF Settle, Row
      <3> QED BY <2>2, <3>1 DEF RecordResult
    <2>3. CASE Drain
      BY <2>3, DrainRow
    <2>4. CASE ReplayDead
      BY <2>4 DEF ReplayDead, Replayed, Row
    <2>5. CASE Tick
      BY <2>5 DEF Tick, Older, Row
    <2>6. CASE ReplayPreflight \/ OutboxCrash \/ UNCHANGED outboxVars \/ \E e \in Events : Deliver(e)
      BY <2>6 DEF ReplayPreflight, OutboxCrash, outboxVars, Deliver
    <2> QED BY <2>1, <2>2, <2>3, <2>4, <2>5, <2>6 DEF OutboxNext
  <1>2. OutboxInv /\ [OutboxNext]_outboxVars =>
          [\A e \in Events : rows[e].state # "absent" /\ rows'[e].state = "absent"
                                => rows[e].state \in {"delivered", "dead"}]_outboxVars
    BY <1>1
  <1> QED BY <1>2, OutboxInvariant, PTL DEF OutboxSpec, OnlyTerminalRowsVanish
=============================================================================
