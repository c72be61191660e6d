-------------------------- MODULE RiskTrendsProofs --------------------------
(***************************************************************************)
(* The trend index implements CurrentView, for any organizations, analyses *)
(* and findings, any sample size and any number of writes, requests and    *)
(* faults.                                                                 *)
(*                                                                         *)
(* A revision stamps what was read under it.  The argument is that no      *)
(* stamp comes back: whatever happens to the clock, a revision that an     *)
(* owner's sources have after a write was never theirs before it.          *)
(***************************************************************************)
EXTENDS RiskTrends, TLAPS

-----------------------------------------------------------------------------
(* The inductive invariant.                                                *)

ClockType ==
  /\ raw \in Nat
  /\ clock \in [ok : BOOLEAN, epoch : Nat, covered : Nat, generation : [Owners -> Nat]]
  /\ clock.covered <= raw
  /\ writer \in Owners \union {Nobody}

IndexType ==
  /\ DOMAIN jobs = Owners /\ jobs = [o \in Owners |-> jobs[o]]
  /\ rows = [o \in Owners |-> rows[o]]
  /\ worker = [at |-> worker.at, owner |-> worker.owner, pass |-> worker.pass, claimed |-> worker.claimed,
               before |-> worker.before, current |-> worker.current, read |-> worker.read,
               detached |-> worker.detached]
  /\ worker.read = [jobs |-> worker.read.jobs, decisions |-> worker.read.decisions]

(* The clock does not cover the owner's last write, and what it will say   *)
(* next is another generation of the owner's or another epoch.             *)
Uncovered(o) == clock.covered < raw /\ (writer \in {o, Nobody} \/ clock.covered < raw - 1)

(* What was read under a revision of the owner's is what the sources say   *)
(* for as long as that revision may still be theirs.                       *)
Stamped(o, revision, read) ==
  \/ revision = <<"none", 0, 0>>
  \/ \E r \in 0..raw : revision = <<"fallback", r, 0>> /\ (r = raw => read = jobs[o])
  \/ \E e \in 0..clock.epoch, g \in Nat :
       /\ revision = <<"owner", e, g>>
       /\ e = clock.epoch => g <= clock.generation[o]
       /\ e = clock.epoch /\ g = clock.generation[o] => read = jobs[o] \/ Uncovered(o)

(* A revision that was the owner's, of sources that are still to be read.  *)
Issued(o, revision) == Stamped(o, revision, jobs[o])

RowsStamped == \A o \in Owners : Stamped(o, rows[o].revision, rows[o].of.jobs)

WorkerStamped ==
  worker.owner \in Owners =>
    /\ Issued(worker.owner, worker.before)
    /\ worker.at = "after" => Stamped(worker.owner, worker.before, worker.read.jobs)

TrendsInv == ClockType /\ IndexType /\ RowsStamped /\ WorkerStamped

-----------------------------------------------------------------------------
(* What a step of the sources does to a stamp.                             *)

\* The revision an owner's sources have now stamps what they say now (revision()).
LEMMA RevisionStamps ==
  ASSUME ClockType, NEW o \in Owners
  PROVE  Issued(o, Revision(o))
  BY DEF ClockType, Issued, Stamped, Revision

\* What carries the current revision is what the sources say.
LEMMA CurrentIsRead ==
  ASSUME ClockType, NEW o \in Owners, NEW v, NEW read, Stamped(o, v, read), v = Revision(o)
  PROVE  read = jobs[o]
  BY DEF ClockType, Stamped, Revision, Uncovered

\* Stamps outlive every step that leaves sources, clock and writer alone.
LEMMA StampKept ==
  ASSUME UNCHANGED <<jobs, raw, clock, writer>>, NEW o, NEW v, NEW read, Stamped(o, v, read)
  PROVE  Stamped(o, v, read)'
  BY DEF Stamped, Uncovered

\* A write: the raw revision is new and the clock does not cover it yet.
LEMMA StampWritten ==
  ASSUME ClockType, NEW w \in Owners \union {Nobody}, writer = Nobody, writer' = w,
         raw' = raw + 1, UNCHANGED clock, NEW o \in Owners, o # w => jobs'[o] = jobs[o],
         NEW v, NEW read, Stamped(o, v, read)
  PROVE  Stamped(o, v, read)'
  BY DEF ClockType, Stamped, Uncovered

\* The clock's file is replaced: no revision of the old epoch comes back.
LEMMA StampReset ==
  ASSUME ClockType, ClockReset, UNCHANGED <<jobs, raw>>, NEW o \in Owners,
         NEW v, NEW read, Stamped(o, v, read)
  PROVE  Stamped(o, v, read)'
  BY DEF ClockType, Stamped, Uncovered, ClockReset, FreshClock

\* record_mutation(): another generation of the writer's, which is the only one whose
\* sources changed since the clock covered them, or another epoch, or nothing.
LEMMA StampRecorded ==
  ASSUME ClockType, NEW fails \in BOOLEAN, NEW stuck \in BOOLEAN, RecordMutation(fails, stuck),
         NEW o \in Owners, NEW v, NEW read, Stamped(o, v, read)
  PROVE  Stamped(o, v, read)'
  <1>1. UNCHANGED <<jobs, raw>> /\ writer \in Owners /\ writer' = Nobody
    BY DEF RecordMutation, ClockType
  <1>2. CASE ClockReset
    BY <1>1, <1>2, StampReset
  <1>3. CASE clock.covered = raw - 1
             /\ clock' = [clock EXCEPT !.covered = raw, !.generation = [clock.generation EXCEPT ![writer] = @ + 1]]
    <2>1. clock'.epoch = clock.epoch /\ clock'.covered = raw
          /\ clock'.generation = [clock.generation EXCEPT ![writer] = @ + 1]
      BY <1>3 DEF ClockType
    <2>2. clock.covered = raw - 1
      BY <1>3
    <2> QED BY <1>1, <2>1, <2>2, BoundsAssumption DEF ClockType, Stamped, Uncovered
  <1>4. CASE UNCHANGED clock
    BY <1>1, <1>4 DEF ClockType, Stamped, Uncovered
  <1> QED BY <1>2, <1>3, <1>4 DEF RecordMutation

\* Neither a lost clock nor a stopped process brings a stamp back.
LEMMA StampStopped ==
  ASSUME ClockType, UNCHANGED <<jobs, raw>>, writer' \in {writer, Nobody},
         clock'.epoch = clock.epoch, clock'.covered = clock.covered,
         clock'.generation = clock.generation,
         NEW o \in Owners, NEW v, NEW read, Stamped(o, v, read)
  PROVE  Stamped(o, v, read)'
  BY DEF ClockType, Stamped, Uncovered

-----------------------------------------------------------------------------
(* The steps.                                                              *)

Carried == \A o \in Owners : \A v, read : Stamped(o, v, read) => Stamped(o, v, read)'

\* Sources and clock move while the index and its thread do not, or the process ends.
LEMMA SourcesMove ==
  ASSUME TrendsInv, ClockType', jobs' = [o \in Owners |-> jobs'[o]], Carried, UNCHANGED rows,
         worker' \in {worker, Idle}
  PROVE  TrendsInv'
  <1>1. IndexType'
    BY DEF TrendsInv, IndexType, Idle, NoSources
  <1>2. RowsStamped'
    BY DEF TrendsInv, RowsStamped, Carried
  <1>3. WorkerStamped'
    <2> SUFFICES ASSUME worker'.owner \in Owners
                 PROVE  /\ Issued(worker.owner, worker.before)'
                        /\ worker'.at = "after" =>
                             Stamped(worker.owner, worker.before, worker.read.jobs)'
      BY DEF WorkerStamped
    <2>1. CASE worker' = Idle
      BY <2>1 DEF Idle, Issued, Stamped
    <2>2. CASE worker' = worker
      <3>1. Stamped(worker.owner, worker.before, jobs[worker.owner])'
        <4>1. \E read : Stamped(worker.owner, worker.before, read)'
          BY <2>2 DEF TrendsInv, WorkerStamped, Issued, Carried
        <4> QED BY <2>2, <4>1 DEF Stamped
      <3> QED BY <2>2, <3>1 DEF TrendsInv, WorkerStamped, Issued, Carried
    <2> QED BY <2>1, <2>2
  <1> QED BY <1>1, <1>2, <1>3 DEF TrendsInv

\* A write concerns one organization.
LEMMA OneWritten ==
  ASSUME IndexType, NEW o \in Owners, NEW x, jobs' = [jobs EXCEPT ![o] = x]
  PROVE  /\ jobs' = [p \in Owners |-> jobs'[p]]
         /\ \A p \in Owners \ {o} : jobs'[p] = jobs[p]
  BY DEF IndexType

\* Organizations write, the clock records it or fails, files are lost and the process
\* stops and starts.
LEMMA SourceSteps ==
  ASSUME TrendsInv,
         \/ Mutation
         \/ \E fails, stuck \in BOOLEAN : RecordMutation(fails, stuck)
         \/ LoseClock \/ Crash \/ \E fails \in BOOLEAN : Restart(fails)
  PROVE  TrendsInv'
  <1> USE BoundsAssumption
  <1>1. CASE \E o \in Owners \union {Nobody} :
               /\ writer = Nobody /\ writer' = o /\ raw' = raw + 1
               /\ UNCHANGED <<clock, rows, worker>>
               /\ jobs' = [p \in Owners |-> jobs'[p]]
               /\ \A p \in Owners \ {o} : jobs'[p] = jobs[p]
    <2>1. ClockType'
      BY <1>1 DEF TrendsInv, ClockType
    <2>2. Carried
      BY <1>1, StampWritten DEF TrendsInv, Carried
    <2> QED BY <1>1, <2>1, <2>2, SourcesMove
  <1>2. CASE Mutation
    <2>1. CASE SaveOtherJob
      BY <1>1, <2>1 DEF SaveOtherJob, index, process, TrendsInv, IndexType
    <2>2. ASSUME NEW o \in Owners, NEW a \in Analyses, SaveJob(o, a)
          PROVE  TrendsInv'
      <3>1. \E x : jobs' = [jobs EXCEPT ![o] = x]
        BY <2>2, Zenon DEF SaveJob
      <3>2. writer = Nobody /\ writer' = o /\ raw' = raw + 1 /\ UNCHANGED <<clock, rows, worker>>
        BY <2>2 DEF SaveJob, Write, index, process
      <3>3. /\ jobs' = [p \in Owners |-> jobs'[p]]
            /\ \A p \in Owners \ {o} : jobs'[p] = jobs[p]
        <4>1. IndexType
          BY DEF TrendsInv
        <4>2. PICK x : jobs' = [jobs EXCEPT ![o] = x]
          BY <3>1
        <4> QED BY <4>1, <4>2, OneWritten
      <3> QED BY <1>1, <3>2, <3>3, Zenon
    <2>3. ASSUME NEW o \in Owners, DeleteJob(o)
          PROVE  TrendsInv'
      <3>1. \E x : jobs' = [jobs EXCEPT ![o] = x]
        BY <2>3, Zenon DEF DeleteJob
      <3>2. writer = Nobody /\ writer' = o /\ raw' = raw + 1 /\ UNCHANGED <<clock, rows, worker>>
        BY <2>3 DEF DeleteJob, Write, index, process
      <3>3. /\ jobs' = [p \in Owners |-> jobs'[p]]
            /\ \A p \in Owners \ {o} : jobs'[p] = jobs[p]
        <4>1. IndexType
          BY DEF TrendsInv
        <4>2. PICK x : jobs' = [jobs EXCEPT ![o] = x]
          BY <3>1
        <4> QED BY <4>1, <4>2, OneWritten
      <3> QED BY <1>1, <3>2, <3>3, Zenon
    <2>4. ASSUME NEW o \in Owners, NEW f, PutSnapshot(o, {f})
          PROVE  TrendsInv'
      <3>1. \E x : jobs' = [jobs EXCEPT ![o] = x]
        BY <2>4, Zenon DEF PutSnapshot
      <3>2. writer = Nobody /\ writer' = o /\ raw' = raw + 1 /\ UNCHANGED <<clock, rows, worker>>
        BY <2>4 DEF PutSnapshot, Write, index, process
      <3>3. /\ jobs' = [p \in Owners |-> jobs'[p]]
            /\ \A p \in Owners \ {o} : jobs'[p] = jobs[p]
        <4>1. IndexType
          BY DEF TrendsInv
        <4>2. PICK x : jobs' = [jobs EXCEPT ![o] = x]
          BY <3>1
        <4> QED BY <4>1, <4>2, OneWritten
      <3> QED BY <1>1, <3>2, <3>3, Zenon
    <2>5. ASSUME NEW o \in Owners, NEW f, Decide(o, f, "accepted")
          PROVE  TrendsInv'
      BY <1>1, <2>5 DEF Decide, Write, index, process, TrendsInv, IndexType
    <2> QED BY <1>2, <2>1, <2>2, <2>3, <2>4, <2>5 DEF Mutation
  <1>3. ASSUME NEW fails \in BOOLEAN, NEW stuck \in BOOLEAN, RecordMutation(fails, stuck)
        PROVE  TrendsInv'
    <2>1. UNCHANGED <<jobs, raw, rows, worker>> /\ writer \in Owners /\ writer' = Nobody
      BY <1>3 DEF RecordMutation, index, process, TrendsInv, ClockType
    <2>2. ClockType'
      <3>1. CASE ClockReset
        BY <2>1, <3>1 DEF TrendsInv, ClockType, ClockReset, FreshClock
      <3>2. CASE clock' = [clock EXCEPT !.covered = raw,
                                        !.generation = [clock.generation EXCEPT ![writer] = @ + 1]]
        <4> DEFINE G == [clock.generation EXCEPT ![writer] = @ + 1]
        <4>1. G \in [Owners -> Nat]
          BY <2>1 DEF TrendsInv, ClockType
        <4> HIDE DEF G
        <4>2. clock' = [ok |-> clock.ok, epoch |-> clock.epoch, covered |-> raw, generation |-> G]
          BY <3>2 DEF TrendsInv, ClockType, G
        <4> QED BY <2>1, <4>1, <4>2 DEF TrendsInv, ClockType
      <3>3. CASE UNCHANGED clock
        BY <2>1, <3>3 DEF TrendsInv, ClockType
      <3> QED BY <1>3, <3>1, <3>2, <3>3 DEF RecordMutation
    <2>3. Carried
      BY <1>3, StampRecorded DEF TrendsInv, Carried
    <2> QED BY <2>1, <2>2, <2>3, SourcesMove DEF TrendsInv, IndexType
  <1>4. CASE LoseClock \/ Crash
    <2>1. /\ UNCHANGED <<jobs, raw, rows>> /\ writer' \in {writer, Nobody}
          /\ worker' \in {worker, Idle}
          /\ clock' \in {clock, [clock EXCEPT !.ok = FALSE]}
      BY <1>4 DEF LoseClock, Crash, index, process
    <2>2. ClockType' /\ clock'.epoch = clock.epoch /\ clock'.covered = clock.covered
          /\ clock'.generation = clock.generation
      BY <2>1 DEF TrendsInv, ClockType
    <2>3. Carried
      BY <2>1, <2>2, StampStopped DEF TrendsInv, Carried
    <2> QED BY <2>1, <2>2, <2>3, SourcesMove DEF TrendsInv, IndexType
  <1>5. ASSUME NEW fails \in BOOLEAN, Restart(fails)
        PROVE  TrendsInv'
    <2>1. UNCHANGED <<jobs, raw, writer, rows, worker>>
      BY <1>5 DEF Restart
    <2>2. CASE ClockReset
      <3>1. ClockType'
        BY <2>1, <2>2 DEF TrendsInv, ClockType, ClockReset, FreshClock
      <3>2. Carried
        BY <2>1, <2>2, StampReset DEF TrendsInv, Carried
      <3> QED BY <2>1, <3>1, <3>2, SourcesMove DEF TrendsInv, IndexType
    <2>3. CASE UNCHANGED clock
      <3>1. ClockType'
        BY <2>1, <2>3 DEF TrendsInv, ClockType
      <3>2. Carried
        BY <2>1, <2>3, StampKept DEF Carried
      <3> QED BY <2>1, <3>1, <3>2, SourcesMove DEF TrendsInv, IndexType
    <2> QED BY <1>5, <2>2, <2>3 DEF Restart
  <1> QED BY <1>2, <1>3, <1>4, <1>5

(* What a request or the thread may do to the rows and to the thread: drop *)
(* rows or publish what is stamped, and read under a revision.             *)
RowsFollow ==
  \A o \in Owners : \/ rows'[o] \in {rows[o], Unpublished}
                    \/ Stamped(o, rows'[o].revision, rows'[o].of.jobs)

WorkerFollows ==
  worker'.owner \in Owners =>
    \/ worker'.before = <<"none", 0, 0>>
    \/ /\ Issued(worker'.owner, worker'.before)
       /\ worker'.at = "after" => Stamped(worker'.owner, worker'.before, worker'.read.jobs)

\* Requests and the refresh thread leave the sources and their clock alone.
LEMMA IndexMoves ==
  ASSUME TrendsInv, UNCHANGED <<jobs, raw, clock, writer>>, IndexType', RowsFollow, WorkerFollows
  PROVE  TrendsInv'
  <1>1. ClockType'
    BY DEF TrendsInv, ClockType
  <1>2. RowsStamped'
    <2> SUFFICES ASSUME NEW o \in Owners
                 PROVE  Stamped(o, rows[o].revision, rows[o].of.jobs)'
      BY DEF RowsStamped
    <2>1. CASE rows'[o] = Unpublished
      BY <2>1 DEF Unpublished, Stamped
    <2>2. CASE Stamped(o, rows'[o].revision, rows'[o].of.jobs)
      BY <2>2 DEF Stamped, Uncovered
    <2> QED BY <2>1, <2>2 DEF RowsFollow, TrendsInv, RowsStamped
  <1>3. WorkerStamped'
    <2> SUFFICES ASSUME worker'.owner \in Owners
                 PROVE  /\ Issued(worker.owner, worker.before)'
                        /\ worker'.at = "after" =>
                             Stamped(worker.owner, worker.before, worker.read.jobs)'
      BY DEF WorkerStamped
    <2>1. CASE worker'.before = <<"none", 0, 0>>
      BY <2>1 DEF Issued, Stamped
    <2> QED BY <2>1 DEF WorkerFollows, Issued, Stamped, Uncovered
  <1> QED BY <1>1, <1>2, <1>3, IndexType' DEF TrendsInv

\* A request asks for a refresh, is answered, or drops what its sample contradicts; a
\* database that fails drops everything.
LEMMA RequestSteps ==
  ASSUME TrendsInv,
         \/ \E o \in Watched, kind \in Kinds, fails \in BOOLEAN : Request(o, kind, fails)
         \/ Answer \/ Discard
  PROVE  TrendsInv'
  <1> DEFINE Dropped == /\ UNCHANGED <<jobs, raw, clock, writer>>
                        /\ rows' \in {rows, EmptyRows} \/ \E o : rows' = [rows EXCEPT ![o] = Unpublished]
                        /\ worker' \in {worker, DetachedWorker}
  <1>1. Dropped
    <2>1. ASSUME NEW o, NEW kind, NEW fails \in BOOLEAN, Request(o, kind, fails)
          PROVE  Dropped
      <3>1. rows' \in {rows, EmptyRows} /\ worker' \in {worker, DetachedWorker}
        BY <2>1 DEF Request
      <3> QED BY <2>1, <3>1 DEF Request, sources
    <2>2. ASSUME Answer PROVE Dropped
      BY <2>2 DEF Answer, sources, index
    <2>3. ASSUME Discard PROVE Dropped
      <3>1. \E o : rows' = [rows EXCEPT ![o] = Unpublished]
        BY <2>3 DEF Discard
      <3> QED BY <2>3, <3>1 DEF Discard, sources
    <2> QED BY <2>1, <2>2, <2>3
  <1>2. rows' = [o \in Owners |-> rows'[o]]
    BY <1>1 DEF TrendsInv, IndexType, EmptyRows
  <1>3. RowsFollow
    BY <1>1 DEF RowsFollow, TrendsInv, IndexType, EmptyRows
  <1>4. /\ worker'.owner = worker.owner /\ worker'.before = worker.before
        /\ worker'.at = worker.at /\ worker'.read = worker.read
        /\ worker' = [at |-> worker'.at, owner |-> worker'.owner, pass |-> worker'.pass,
                      claimed |-> worker'.claimed, before |-> worker'.before,
                      current |-> worker'.current, read |-> worker'.read,
                      detached |-> worker'.detached]
    BY <1>1 DEF TrendsInv, IndexType, DetachedWorker
  <1>5. IndexType'
    BY <1>1, <1>2, <1>4 DEF TrendsInv, IndexType
  <1>6. WorkerFollows
    BY <1>4 DEF WorkerFollows, TrendsInv, WorkerStamped
  <1> QED BY <1>1, <1>3, <1>5, <1>6, IndexMoves

(* A thread that has read nothing under its revision, or nothing new.      *)
Fresh == worker'.before = <<"none", 0, 0>>
Same == /\ worker'.owner = worker.owner /\ worker'.before = worker.before
        /\ worker'.at # "after"

WellFormed == /\ worker' = [at |-> worker'.at, owner |-> worker'.owner, pass |-> worker'.pass,
                            claimed |-> worker'.claimed, before |-> worker'.before,
                            current |-> worker'.current, read |-> worker'.read,
                            detached |-> worker'.detached]
              /\ worker'.read = [jobs |-> worker'.read.jobs, decisions |-> worker'.read.decisions]

\* The refresh thread: revision, scan, the revision again, and the commit.
LEMMA WorkerSteps ==
  ASSUME TrendsInv, WorkerStep
  PROVE  TrendsInv'
  <1> DEFINE Still == UNCHANGED <<jobs, raw, clock, writer>>
  <1>1. ASSUME Still, UNCHANGED rows, WellFormed, Fresh \/ Same
        PROVE  TrendsInv'
    <2>1. IndexType'
      BY <1>1 DEF WellFormed, TrendsInv, IndexType
    <2>2. RowsFollow
      BY <1>1 DEF RowsFollow
    <2>3. WorkerFollows
      BY <1>1 DEF WorkerFollows, Fresh, Same, TrendsInv, WorkerStamped
    <2> QED BY <1>1, <2>1, <2>2, <2>3, IndexMoves
  <1>0. ASSUME NEW at, NEW o, NEW pass,
               \/ worker' = [Idle EXCEPT !.at = at, !.owner = o, !.pass = pass]
               \/ worker' = [Idle EXCEPT !.at = at, !.owner = o]
               \/ worker' = Idle
        PROVE  WellFormed /\ Fresh
    <2>1. ASSUME NEW a, NEW u, NEW n,
                 worker' = [at |-> a, owner |-> u, pass |-> n, claimed |-> <<"none", 0, 0>>,
                            before |-> <<"none", 0, 0>>, current |-> <<"none", 0, 0>>,
                            read |-> NoSources, detached |-> FALSE]
          PROVE  WellFormed /\ Fresh
      BY <2>1 DEF WellFormed, Fresh, NoSources
    <2>2. CASE worker' = Idle
      BY <2>1, <2>2 DEF Idle
    <2>3. CASE worker' = [Idle EXCEPT !.at = at, !.owner = o]
      BY <2>1, <2>3 DEF Idle
    <2>4. CASE worker' = [Idle EXCEPT !.at = at, !.owner = o, !.pass = pass]
      BY <2>1, <2>4 DEF Idle
    <2> QED BY <1>0, <2>2, <2>3, <2>4
  <1>2. ASSUME NEW again, NextPass(again)
        PROVE  WellFormed /\ Fresh
    BY <1>2, <1>0 DEF NextPass
  <1>3. ASSUME NEW at, at # "after", Goto(at)
        PROVE  WellFormed /\ Same
    BY <1>3 DEF Goto, WellFormed, Same, TrendsInv, IndexType
  <1>4. CASE StartTask \/ EndTask
    <2>1. Still /\ UNCHANGED rows
      BY <1>4 DEF StartTask, EndTask, sources, index
    <2>2. WellFormed /\ Fresh
      BY <1>4, <1>0 DEF StartTask, EndTask
    <2> QED BY <1>1, <2>1, <2>2
  <1>5. CASE Claim
    <2>1. Still /\ UNCHANGED rows
      BY <1>5 DEF Claim, sources
    <2>2. CASE worker' = [worker EXCEPT !.at = "early", !.claimed = refresh[worker.owner].desired]
      BY <1>1, <2>1, <2>2 DEF WellFormed, Same, TrendsInv, IndexType
    <2>3. CASE NextPass(FALSE)
      BY <1>1, <1>2, <2>1, <2>3
    <2> QED BY <1>5, <2>2, <2>3 DEF Claim
  <1>6. CASE ReadEarly
    <2>1. Still /\ UNCHANGED rows
      BY <1>6 DEF ReadEarly, WorkerOnly, sources, index
    <2>2. WellFormed /\ Same
      BY <1>6 DEF ReadEarly, WellFormed, Same, TrendsInv, IndexType
    <2> QED BY <1>1, <2>1, <2>2
  <1>7. CASE RevisionBefore
    <2>1. Still /\ UNCHANGED rows
      BY <1>7 DEF RevisionBefore, WorkerOnly, sources, index
    <2>2. WellFormed /\ worker'.owner = worker.owner /\ worker'.before = Revision(worker.owner)
          /\ worker'.at = "scan"
      BY <1>7 DEF RevisionBefore, WellFormed, TrendsInv, IndexType
    <2>3. IndexType'
      BY <2>1, <2>2 DEF WellFormed, TrendsInv, IndexType
    <2>4. RowsFollow /\ WorkerFollows
      BY <2>1, <2>2, RevisionStamps DEF RowsFollow, WorkerFollows, TrendsInv
    <2> QED BY <2>1, <2>3, <2>4, IndexMoves
  <1>8. CASE Scan
    <2>1. Still /\ UNCHANGED rows
      BY <1>8 DEF Scan, WorkerOnly, sources, index
    <2>2. WellFormed /\ worker'.owner = worker.owner /\ worker'.before = worker.before
          /\ worker'.read.jobs = jobs[worker.owner]
      BY <1>8 DEF Scan, WellFormed, TrendsInv, IndexType
    <2>3. IndexType'
      BY <2>1, <2>2 DEF WellFormed, TrendsInv, IndexType
    <2>4. RowsFollow /\ WorkerFollows
      BY <2>1, <2>2 DEF RowsFollow, WorkerFollows, TrendsInv, WorkerStamped, Issued
    <2> QED BY <2>1, <2>3, <2>4, IndexMoves
  <1>9. CASE ScanFails
    <2>1. Still /\ UNCHANGED rows
      BY <1>9 DEF ScanFails, sources, index
    <2>2. WellFormed /\ Same
      BY <1>3, <1>9 DEF ScanFails
    <2> QED BY <1>1, <2>1, <2>2
  <1>10. CASE Publish
    <2>1. Still /\ WellFormed /\ Same
      BY <1>3, <1>10 DEF Publish, sources
    <2>2. CASE UNCHANGED rows
      BY <1>1, <2>1, <2>2
    <2>3. CASE rows' = [rows EXCEPT ![worker.owner] = [revision |-> worker.before, of |-> worker.read]]
      <3>1. IndexType'
        BY <2>1, <2>3 DEF WellFormed, TrendsInv, IndexType
      <3>2. RowsFollow
        BY <1>10, <2>3 DEF Publish, RowsFollow, TrendsInv, IndexType, WorkerStamped
      <3>3. WorkerFollows
        BY <2>1 DEF WorkerFollows, Same, TrendsInv, WorkerStamped
      <3> QED BY <2>1, <3>1, <3>2, <3>3, IndexMoves
    <2> QED BY <1>10, <2>2, <2>3 DEF Publish, Published
  <1>11. CASE Settle
    <2>1. Still /\ UNCHANGED rows
      BY <1>11 DEF Settle, WorkerOnly, sources, index
    <2>2. WellFormed /\ Same
      BY <1>11 DEF Settle, WellFormed, Same, TrendsInv, IndexType
    <2> QED BY <1>1, <2>1, <2>2
  <1>12. CASE Complete \/ Fail
    <2>1. Still /\ UNCHANGED rows
      BY <1>12 DEF Complete, Fail, sources
    <2>2. Goto("failing") \/ \E again : NextPass(again)
      BY <1>12 DEF Complete, Fail
    <2> QED BY <1>1, <1>2, <1>3, <2>1, <2>2
  <1> QED BY <1>4, <1>5, <1>6, <1>7, <1>8, <1>9, <1>10, <1>11, <1>12 DEF WorkerStep

-----------------------------------------------------------------------------
(* The theorems.                                                           *)

\* An installation in use, published already or never asked for.
LEMMA TrendsStart == Init => TrendsInv
  <1> SUFFICES ASSUME Init PROVE TrendsInv
    OBVIOUS
  <1>1. /\ raw = 1 /\ clock = FreshClock(0, 1) /\ writer = Nobody /\ worker = Idle
        /\ jobs = [o \in Owners |-> jobs[o]]
        /\ \/ rows = EmptyRows
           \/ rows = [o \in Owners |-> [revision |-> Revision(o), of |-> [jobs |-> jobs[o], decisions |-> {}]]]
    BY DEF Init
  <1>2. ClockType
    BY <1>1 DEF ClockType, FreshClock
  <1>3. IndexType
    BY <1>1 DEF IndexType, EmptyRows, Idle, NoSources
  <1>4. RowsStamped
    BY <1>1, <1>2, RevisionStamps DEF RowsStamped, EmptyRows, Unpublished, Issued, Stamped
  <1>5. WorkerStamped
    BY <1>1 DEF WorkerStamped, Idle, Issued, Stamped
  <1> QED BY <1>2, <1>3, <1>4, <1>5 DEF TrendsInv

\* Every step keeps the stamps.
LEMMA TrendsStep == TrendsInv /\ [Next]_vars => TrendsInv'
  <1> SUFFICES ASSUME TrendsInv, [Next]_vars PROVE TrendsInv'
    OBVIOUS
  <1>1. CASE UNCHANGED vars
    <2>1. UNCHANGED <<jobs, raw, clock, writer, rows, worker>>
      BY <1>1 DEF vars, sources, index, process
    <2> QED BY <2>1 DEF TrendsInv, ClockType, IndexType, RowsStamped, WorkerStamped, Issued, Stamped, Uncovered
  <1> QED BY <1>1, SourceSteps, RequestSteps, WorkerSteps DEF Next

\* The stamps: what a publication or a scan was read from is what the sources say while
\* its revision can still be theirs (risk_trend_source_clock.py revision,
\* record_mutation, recover; project_risk_trend_index.py rebuild).
THEOREM TrendsInvariant == Spec => []TrendsInv
  <1>1. Init => TrendsInv
    BY TrendsStart
  <1>2. TrendsInv /\ [Next]_vars => TrendsInv'
    BY TrendsStep
  <1> QED BY <1>1, <1>2, PTL DEF Spec

\* What is labelled current is what the sources say.
LEMMA LabelsAreTrue ==
  ASSUME TrendsInv
  PROVE  \A o \in Owners : Labelled[o] \in {jobs[o], Nobody}
  BY CurrentIsRead DEF TrendsInv, RowsStamped, Labelled, IsCurrent

\* A write of a source withdraws every label: the revision it leads to stamps nothing.
LEMMA WritesUnlabel ==
  ASSUME TrendsInv, raw' = raw + 1, UNCHANGED <<clock, rows>>, NEW o \in Owners
  PROVE  Labelled'[o] = Nobody
  <1>1. Revision(o)' = <<"fallback", raw + 1, 0>>
    BY DEF TrendsInv, ClockType, Revision
  <1>2. rows[o].revision # <<"fallback", raw + 1, 0>>
    BY DEF TrendsInv, ClockType, RowsStamped, Stamped
  <1> QED BY <1>1, <1>2 DEF Labelled, IsCurrent

\* Every step is a write of one owner's source, a change of labels, or invisible.
LEMMA TrendsRefines ==
  ASSUME TrendsInv, TrendsInv', [Next]_vars
  PROVE  [View!Next]_(View!vars)
  <1>1. \A o \in Owners : Labelled'[o] \in {jobs'[o], Nobody}
    <2> SUFFICES ASSUME NEW o \in Owners PROVE Labelled'[o] \in {jobs'[o], Nobody}
      OBVIOUS
    <2>1. Labelled'[o] = IF rows'[o] # Unpublished /\ rows'[o].revision = Revision(o)'
                           THEN rows'[o].of.jobs ELSE Nobody
      BY DEF Labelled, IsCurrent
    <2>2. rows'[o].revision = Revision(o)' => rows'[o].of.jobs = jobs'[o]
      BY DEF TrendsInv, RowsStamped, ClockType, Stamped, Revision, Uncovered
    <2> QED BY <2>1, <2>2
  <1>2. CASE UNCHANGED jobs
    BY <1>1, <1>2 DEF View!Next, View!Relabel
  <1>3. ASSUME NEW o \in Owners, Write(o), jobs' # jobs, \A p \in Owners \ {o} : jobs'[p] = jobs[p]
        PROVE  View!Next
    <2>1. \A p \in Owners : Labelled'[p] = Nobody
      BY <1>3, WritesUnlabel DEF Write, index
    <2> QED BY <1>3, <2>1 DEF View!Next, View!Mutate
  <1>4. CASE Mutation
    <2>1. CASE SaveOtherJob
      BY <1>2, <2>1 DEF SaveOtherJob
    <2>2. ASSUME NEW o \in Owners, Write(o), \E x : jobs' = [jobs EXCEPT ![o] = x]
          PROVE  [View!Next]_(View!vars)
      BY <1>2, <1>3, <2>2, OneWritten DEF TrendsInv
    <2>3. ASSUME NEW o \in Owners, NEW a, SaveJob(o, a)
          PROVE  [View!Next]_(View!vars)
      <3>1. Write(o) /\ \E x : jobs' = [jobs EXCEPT ![o] = x]
        BY <2>3, Zenon DEF SaveJob
      <3> QED BY <2>2, <3>1
    <2>4. ASSUME NEW o \in Owners, DeleteJob(o)
          PROVE  [View!Next]_(View!vars)
      <3>1. Write(o) /\ \E x : jobs' = [jobs EXCEPT ![o] = x]
        BY <2>4, Zenon DEF DeleteJob
      <3> QED BY <2>2, <3>1
    <2>5. ASSUME NEW o \in Owners, NEW f, PutSnapshot(o, {f})
          PROVE  [View!Next]_(View!vars)
      <3>1. Write(o) /\ \E x : jobs' = [jobs EXCEPT ![o] = x]
        BY <2>5, Zenon DEF PutSnapshot
      <3> QED BY <2>2, <3>1
    <2>6. ASSUME NEW o \in Owners, NEW f, Decide(o, f, "accepted")
          PROVE  [View!Next]_(View!vars)
      BY <1>2, <2>6 DEF Decide
    <2> QED BY <1>4, <2>1, <2>3, <2>4, <2>5, <2>6, BoundsAssumption DEF Mutation
  <1>5. CASE ~Mutation
    <2>1. UNCHANGED jobs
      BY <1>5 DEF Next, vars, sources, RecordMutation, LoseClock, Request, Answer, Discard, WorkerStep,
                  StartTask, Claim, ReadEarly, RevisionBefore, Scan, ScanFails, Publish, Settle,
                  Complete, Fail, EndTask, WorkerOnly, Crash, Restart
    <2> QED BY <1>2, <2>1
  <1> QED BY <1>4, <1>5

\* The trend index implements CurrentView: the analyses and snapshots behind what is
\* labelled current are the retained ones, whatever is written while the index is rebuilt
\* and whatever happens to the clock (read, refresh_once, record_mutation).
THEOREM IndexImplementsView == Spec => CurrentIsAuthority
  <1>1. Init => View!Init
    BY TrendsStart, LabelsAreTrue DEF View!Init
  <1>2. TrendsInv /\ TrendsInv' /\ [Next]_vars => [View!Next]_(View!vars)
    BY TrendsRefines
  <1> QED BY <1>1, <1>2, TrendsInvariant, PTL DEF Spec, View!Spec, CurrentIsAuthority
=============================================================================
