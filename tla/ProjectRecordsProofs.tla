------------------------ MODULE ProjectRecordsProofs ------------------------
(***************************************************************************)
(* Proofs about the records of a project, for any uploads, contents, keys, *)
(* commits and analyses, any snapshot limit, any number of restarts, with  *)
(* and without writes that fail in a live process: admissions never clash  *)
(* (AdmissionsHold), a deletion is alone and complete (DeletionHolds), and *)
(* the history of a living project only grows (HistoryKept).               *)
(*                                                                         *)
(* Handlers are operators from one disk to the disks they may leave, so    *)
(* the invariant is a predicate of a disk (Sound) that each operator keeps,*)
(* plus what a crash adds to it (Calm, Settled, Restartable).              *)
(***************************************************************************)
EXTENDS ProjectRecords, FiniteSetTheorems, TLAPS

\* The sources a snapshot or an interrupted admission refers to are there, or
\* were removed by their owner.
Retained(d, f) == d.file[f] \notin {"absent", "discarded"}

\* What an interrupted admission found when it was reserved, until its snapshot
\* is appended: room in the history and a commit of its own.
AdmissionOpen(d, k) ==
    /\ d.op[k].file \in Files /\ d.op[k].job \in Jobs /\ Retained(d, d.op[k].file)
    /\ ~Recorded(d, k) =>
         /\ Cardinality(d.project.snaps) < MaxSnapshots
         /\ \A s \in d.project.snaps : s.commit = d.op[k].commit => s.commit = NoCommit

Identity(S) ==
    \A s, t \in S : s # t => /\ s.id # t.id /\ Digest[s.file] # Digest[t.file]
                             /\ s.commit = t.commit => s.commit = NoCommit

DiskType(d) ==
    /\ d \in Disk /\ IsFiniteSet(d.project.snaps)
    /\ Cardinality(d.project.snaps) <= MaxSnapshots
    /\ \A k \in OpIds : d.op[k].status # "none" => d.op[k].job \in Jobs

PendingSound(d) ==
    \A k \in Pending(d) : AdmissionOpen(d, k) /\ \A l \in Pending(d) : l = k

SnapshotsSound(d) ==
    Identity(d.project.snaps) /\ \A s \in d.project.snaps : Retained(d, s.file)

DeletionSound(d) ==
    /\ d.deleting => /\ ~HasActive(d) /\ Pending(d) = {} /\ Present(d) \subseteq d.doomed
                     /\ d.project.state # "none"
    /\ d.project.state = "gone" /\ ~d.deleting =>
         /\ Present(d) = {} /\ d.traces = {} /\ \A k \in OpIds : d.op[k] = NoOperation
    /\ d.project.state = "none" =>
         (\A j \in Jobs : d.job[j].status = "none") /\ Pending(d) = {}

\* The files of a project, in any phase of the process.
Sound(d) == DiskType(d) /\ PendingSound(d) /\ SnapshotsSound(d) /\ DeletionSound(d)

\* Where no write fails in a live process.  Whatever a crash interrupts, the
\* admission it leaves with an analysis can be completed at the next start.
Owed(d, k) == d.job[d.op[k].job].status \in Gone
Able(d, k) == d.file[d.op[k].file] = "kept" /\ Bound(d, k)

Restartable(d) == \A k \in Pending(d) : Owed(d, k) \/ Able(d, k)

\* Startup completes what it can, and otherwise only lacks the room for it.
Settled(d) == \A k \in Pending(d) : Owed(d, k) /\ (Able(d, k) => Recorded(d, k))

\* In service an admission that can still be completed finds nothing running.
SingleActive(d) ==
    \A i, j \in Jobs : {d.job[i].status, d.job[j].status} \subseteq Inflight => i = j
Calm(d) ==
    /\ SingleActive(d) /\ Settled(d)
    /\ \A k \in Pending(d) : Able(d, k) => ~HasActive(d)

ProcessType ==
    /\ sched \subseteq Jobs /\ refreshing \subseteq Jobs
    /\ phase \in {"down", "admissions", "jobs", "up"}
    /\ restarts \in 0..MaxRestarts /\ writesFail \in BOOLEAN

RecordsInv ==
    /\ Sound(disk) /\ ProcessType
    /\ ~writesFail => /\ Restartable(disk)
                      /\ phase = "jobs" => Settled(disk)
                      /\ phase = "up" => Calm(disk)

-----------------------------------------------------------------------------
(* Disks that differ in a few records.                                     *)

\* Nothing an admission reads or writes refers to f.
Unreferenced(d, f) ==
    /\ \A s \in d.project.snaps : s.file # f
    /\ \A k \in Pending(d) : d.op[k].file # f

Unclaimed(d, f) == \A k \in Pending(d) : d.op[k].file # f

\* The predicates depend on the records they name.
LEMMA SameRecords ==
  ASSUME NEW d, NEW e, e.project = d.project, e.op = d.op, e.job = d.job
  PROVE  /\ Pending(e) = Pending(d) /\ Present(e) = Present(d)
         /\ (HasActive(e) <=> HasActive(d)) /\ (SingleActive(e) <=> SingleActive(d))
         /\ \A k \in OpIds : /\ Recorded(e, k) <=> Recorded(d, k)
                             /\ Bound(e, k) <=> Bound(d, k)
                             /\ Owed(e, k) <=> Owed(d, k)
  BY DEF Pending, Present, HasActive, SingleActive, Recorded, Bound, Owed

\* A calm disk survives a crash.
LEMMA CalmRestarts == ASSUME NEW d, Calm(d) PROVE Restartable(d) /\ Settled(d)
  BY DEF Calm, Settled, Restartable

\* The CI route's own removal takes the bytes from whoever names them.
Removes(v) == v \in {"absent", "discarded"}

\* A write of one upload, record by record.
FileWritten(d, f, v, e) ==
    /\ e \in Disk /\ e.project = d.project /\ e.op = d.op /\ e.job = d.job /\ e.deleting = d.deleting
    /\ e.doomed = d.doomed /\ e.traces = d.traces /\ e.file = [d.file EXCEPT ![f] = v]

\* A write of one upload is a record of the same type.
LEMMA FileWrite ==
  ASSUME NEW d \in Disk, NEW f \in Files, NEW v \in FileState
  PROVE  FileWritten(d, f, v, [d EXCEPT !.file[f] = v])
  <1>1. /\ d.file \in [Files -> FileState]
        /\ [d EXCEPT !.file[f] = v] = [d EXCEPT !.file = [d.file EXCEPT ![f] = v]]
    BY DEF Disk
  <1> QED BY <1>1 DEF Disk, FileWritten

\* An upload, its removal, or the end of an upload nothing refers to.
LEMMA FileChange ==
  ASSUME NEW d, Sound(d), NEW f \in Files, NEW v \in FileState, Removes(v) => Unreferenced(d, f),
         NEW e, FileWritten(d, f, v, e)
  PROVE  /\ Sound(e)
         /\ Calm(d) /\ (v # "kept" \/ Unclaimed(d, f)) => Calm(e)
  <1>1. /\ d \in Disk /\ d.file \in [Files -> FileState]
    BY DEF Sound, DiskType, Disk
  <1>2. /\ e \in Disk /\ e.project = d.project /\ e.op = d.op /\ e.job = d.job /\ e.deleting = d.deleting
        /\ e.doomed = d.doomed /\ e.traces = d.traces /\ e.file = [d.file EXCEPT ![f] = v]
    BY DEF FileWritten
  <1>3. \A g \in Files : e.file[g] = IF g = f THEN v ELSE d.file[g]
    BY <1>1, <1>2
  <1>0. /\ Pending(e) = Pending(d) /\ (SingleActive(e) <=> SingleActive(d)) /\ (HasActive(e) <=> HasActive(d))
        /\ \A k \in OpIds : /\ Recorded(e, k) <=> Recorded(d, k)
                            /\ Bound(e, k) <=> Bound(d, k)
                            /\ Owed(e, k) <=> Owed(d, k)
    BY <1>2, SameRecords
  <1>4. ASSUME NEW g \in Files, Retained(d, g), g = f => ~Removes(v) PROVE Retained(e, g)
    BY <1>3, <1>4 DEF Retained, Removes
  <1>5. \A s \in d.project.snaps : s.file \in Files
    BY <1>1 DEF Disk, Project, Snapshot
  <1>6. SnapshotsSound(e)
    BY <1>2, <1>4, <1>5 DEF Sound, SnapshotsSound, Unreferenced
  <1>7. PendingSound(e)
    <2>1. ASSUME NEW k \in Pending(d) PROVE AdmissionOpen(e, k)
      <3>1. d.op[k].file \in Files /\ Retained(d, d.op[k].file)
        BY DEF Sound, PendingSound, AdmissionOpen
      <3>2. Retained(e, d.op[k].file)
        BY <1>4, <3>1 DEF Unreferenced
      <3>3. k \in OpIds
        BY DEF Pending
      <3> QED BY <1>0, <1>2, <3>2, <3>3 DEF Sound, PendingSound, AdmissionOpen
    <2> QED BY <1>0, <2>1 DEF Sound, PendingSound
  <1>8. DeletionSound(e)
    BY <1>2, SameRecords DEF Sound, DeletionSound
  <1>9. Sound(e)
    BY <1>2, <1>6, <1>7, <1>8 DEF Sound, DiskType
  <1>10. ASSUME Calm(d), v # "kept" \/ Unclaimed(d, f) PROVE Calm(e)
    <2>1. ASSUME NEW k \in Pending(d), Able(e, k) PROVE Able(d, k) /\ k \in OpIds
      <3>1. d.op[k].file \in Files /\ k \in OpIds
        BY DEF Sound, PendingSound, AdmissionOpen, Pending
      <3> QED BY <1>0, <1>2, <1>3, <1>10, <2>1, <3>1 DEF Able, Unclaimed
    <2>2. \A k \in Pending(d) : k \in OpIds
      BY DEF Pending
    <2> QED BY <1>0, <1>10, <2>1, <2>2 DEF Calm, Settled
  <1> QED BY <1>2, <1>9, <1>10

\* Analyses that advance, end or are removed: none becomes active.
Wane(J, K) ==
    \A j \in Jobs : /\ K[j].status \in Inflight => J[j].status \in Inflight
                    /\ J[j].status \in Gone => K[j].status = J[j].status
                    /\ J[j].status = "none" <=> K[j].status = "none"

\* An analysis that ends leaves a sound and calm disk.
LEMMA JobChange ==
  ASSUME NEW d, Sound(d), NEW e \in Disk, e.file = d.file, e.project = d.project, e.op = d.op,
         e.deleting = d.deleting, e.doomed = d.doomed, e.traces = d.traces, Wane(d.job, e.job)
  PROVE  /\ Sound(e) /\ (SingleActive(d) => SingleActive(e)) /\ (HasActive(e) => HasActive(d))
         /\ Settled(d) => Settled(e)
         /\ Calm(d) => Calm(e)
  <1>1. /\ Pending(e) = Pending(d) /\ Present(e) \subseteq Present(d)
        /\ HasActive(e) => HasActive(d)
        /\ SingleActive(d) => SingleActive(e)
    BY DEF Pending, Present, HasActive, SingleActive, Wane
  <1>2. \A k \in OpIds : (Recorded(e, k) <=> Recorded(d, k)) /\ (Able(e, k) <=> Able(d, k))
    BY DEF Recorded, Able, Bound
  <1>3. \A k \in Pending(d) : k \in OpIds /\ d.op[k].job \in Jobs
    BY DEF Sound, PendingSound, AdmissionOpen, Pending
  <1>4. \A k \in Pending(d) : Owed(d, k) => Owed(e, k)
    BY <1>3 DEF Owed, Wane
  <1>5. PendingSound(e) /\ SnapshotsSound(e)
    BY <1>1, <1>2, <1>3 DEF Sound, PendingSound, AdmissionOpen, SnapshotsSound, Retained
  <1>6. DeletionSound(e)
    <2>1. (\A j \in Jobs : d.job[j].status = "none") => \A j \in Jobs : e.job[j].status = "none"
      BY DEF Wane
    <2> QED BY <1>1, <2>1 DEF Sound, DeletionSound
  <1>7. Sound(e)
    BY <1>5, <1>6 DEF Sound, DiskType
  <1> QED BY <1>1, <1>2, <1>3, <1>4, <1>7 DEF Calm, Settled

\* Derived records: intelligence, and what a visible project is annotated with.
LEMMA AsideChange ==
  ASSUME NEW d, Sound(d), NEW e \in Disk, e.file = d.file, e.project = d.project, e.op = d.op,
         e.job = d.job, e.deleting = d.deleting, e.doomed = d.doomed,
         e.traces = d.traces \/ Visible(d)
  PROVE  Sound(e) /\ (Calm(d) => Calm(e))
  <1>1. \A k \in Pending(d) : k \in OpIds
    BY DEF Pending
  <1>2. \A k \in OpIds : Able(e, k) <=> Able(d, k)
    BY SameRecords DEF Able
  <1>3. PendingSound(e) /\ SnapshotsSound(e)
    BY <1>1, SameRecords DEF Sound, PendingSound, AdmissionOpen, SnapshotsSound, Retained
  <1>4. DeletionSound(e)
    BY SameRecords DEF Sound, DeletionSound, Visible
  <1>5. Sound(e)
    BY <1>3, <1>4 DEF Sound, DiskType
  <1> QED BY <1>1, <1>2, <1>5, SameRecords DEF Calm, Settled

-----------------------------------------------------------------------------
(* Writes of a project that is served.                                     *)

\* The project while it is neither being deleted nor gone.
LEMMA PendingVisible == ASSUME NEW d, Sound(d), Pending(d) # {} PROVE Visible(d)
  <1>1. ~d.deleting
    BY DEF Sound, DeletionSound
  <1>2. d.project.state \in {"none", "kept", "gone"}
    BY DEF Sound, DiskType, Disk, Project
  <1>3. d.project.state # "gone"
    BY <1>1 DEF Sound, DeletionSound, Pending, NoOperation
  <1>4. d.project.state # "none"
    BY DEF Sound, DeletionSound
  <1> QED BY <1>1, <1>2, <1>3, <1>4 DEF Visible

\* A saved project: its snapshots are sound and an interrupted admission is
\* recorded in it, or its snapshots are the same.
LEMMA ProjectChange ==
  ASSUME NEW d, Sound(d), ~d.deleting, NEW p \in Project, p.state = "kept",
         IsFiniteSet(p.snaps), Cardinality(p.snaps) <= MaxSnapshots,
         Identity(p.snaps), \A s \in p.snaps : Retained(d, s.file),
         \A k \in Pending(d) : p.snaps = d.project.snaps \/ \E s \in p.snaps : s.id = d.op[k].job,
         NEW e, e = [d EXCEPT !.project = p]
  PROVE  /\ Sound(e) /\ Visible(e) /\ e.project = p /\ e.file = d.file /\ e.op = d.op /\ e.job = d.job
         /\ e.deleting = d.deleting
  <1>1. /\ e \in Disk /\ e.project = p /\ e.file = d.file /\ e.op = d.op /\ e.job = d.job
        /\ e.deleting = d.deleting
    BY DEF Sound, DiskType, Disk
  <1>2. Pending(e) = Pending(d)
    BY <1>1 DEF Pending
  <1>3. SnapshotsSound(e)
    BY <1>1 DEF SnapshotsSound, Retained
  <1>4. PendingSound(e)
    <2>1. ASSUME NEW k \in Pending(d) PROVE AdmissionOpen(e, k)
      <3>1. AdmissionOpen(d, k)
        BY DEF Sound, PendingSound
      <3>2. CASE Recorded(e, k)
        BY <1>1, <3>1, <3>2 DEF AdmissionOpen, Retained
      <3>3. CASE ~Recorded(e, k)
        <4>1. p.snaps = d.project.snaps /\ ~Recorded(d, k)
          BY <1>1, <3>3 DEF Recorded
        <4> QED BY <1>1, <3>1, <4>1 DEF AdmissionOpen, Retained
      <3> QED BY <3>2, <3>3
    <2> QED BY <1>2, <2>1 DEF Sound, PendingSound
  <1>5. DeletionSound(e)
    BY <1>1 DEF DeletionSound
  <1> QED BY <1>1, <1>3, <1>4, <1>5 DEF Sound, DiskType, Visible

\* A write of one analysis, record by record.
LEMMA JobWrite ==
  ASSUME NEW d \in Disk, NEW j \in Jobs, NEW r \in Analysis
  PROVE  LET e == [d EXCEPT !.job[j] = r]
         IN /\ e \in Disk /\ e.project = d.project /\ e.file = d.file /\ e.op = d.op
            /\ e.deleting = d.deleting /\ e.doomed = d.doomed /\ e.traces = d.traces /\ e.intel = d.intel
            /\ e.job[j] = r /\ \A i \in Jobs \ {j} : e.job[i] = d.job[i]
  <1> DEFINE e == [d EXCEPT !.job[j] = r]
             J == [d.job EXCEPT ![j] = r]
  <1>1. d.job \in [Jobs -> Analysis] /\ J \in [Jobs -> Analysis]
    BY DEF Disk
  <1>2. J[j] = r /\ \A i \in Jobs \ {j} : J[i] = d.job[i]
    BY <1>1
  <1>3. e = [d EXCEPT !.job = J]
    OBVIOUS
  <1> HIDE DEF J, e
  <1>4. /\ e \in Disk /\ e.project = d.project /\ e.file = d.file /\ e.op = d.op
        /\ e.deleting = d.deleting /\ e.doomed = d.doomed /\ e.traces = d.traces /\ e.intel = d.intel
        /\ e.job = J
    BY <1>1, <1>3 DEF Disk
  <1>5. /\ e \in Disk /\ e.project = d.project /\ e.file = d.file /\ e.op = d.op
        /\ e.deleting = d.deleting /\ e.doomed = d.doomed /\ e.traces = d.traces /\ e.intel = d.intel
        /\ e.job[j] = r /\ \A i \in Jobs \ {j} : e.job[i] = d.job[i]
    BY <1>2, <1>4
  <1> QED BY <1>5 DEF e

\* A saved analysis of a project that is served.
LEMMA JobAdded ==
  ASSUME NEW d, Sound(d), Visible(d), NEW e \in Disk, e.project = d.project, e.file = d.file, e.op = d.op,
         e.deleting = d.deleting
  PROVE  Sound(e) /\ Visible(e)
  <1>1. Pending(e) = Pending(d)
    BY DEF Pending
  <1>2. PendingSound(e) /\ SnapshotsSound(e)
    BY <1>1 DEF Sound, PendingSound, AdmissionOpen, Recorded, SnapshotsSound, Retained
  <1>3. DeletionSound(e) /\ Visible(e)
    BY DEF DeletionSound, Visible
  <1> QED BY <1>2, <1>3 DEF Sound, DiskType

\* What admit checks before it reserves r.
Reservable(d, r) ==
    /\ r.file \in Files /\ r.job \in Jobs /\ Retained(d, r.file)
    /\ Cardinality(d.project.snaps) < MaxSnapshots
    /\ \A s \in d.project.snaps : s.commit = r.commit => s.commit = NoCommit

\* A saved journal entry, the only one that may be pending.
LEMMA OpChange ==
  ASSUME NEW d, Sound(d), Visible(d), NEW k \in OpIds, NEW r \in Operation, Pending(d) \subseteq {k},
         NEW e, e = [d EXCEPT !.op[k] = r], r.job \in Jobs,
         r.status = "pending" => Reservable(d, r)
  PROVE  /\ Sound(e) /\ Visible(e) /\ e.project = d.project /\ e.file = d.file /\ e.job = d.job
         /\ e.deleting = d.deleting /\ e.op[k] = r
         /\ r.status = "pending" => Pending(e) = {k}
         /\ r.status # "pending" => Pending(e) = {}
  <1>1. d \in Disk /\ d.op \in [OpIds -> Operation] /\ e = [d EXCEPT !.op = [d.op EXCEPT ![k] = r]]
    BY DEF Sound, DiskType, Disk
  <1>2. /\ e \in Disk /\ e.project = d.project /\ e.file = d.file /\ e.job = d.job
        /\ e.deleting = d.deleting /\ e.op = [d.op EXCEPT ![k] = r]
    BY <1>1 DEF Disk
  <1>3. e.op[k] = r /\ \A l \in OpIds \ {k} : e.op[l] = d.op[l]
    BY <1>1, <1>2
  <1>4. /\ r.status = "pending" => Pending(e) = {k}
        /\ r.status # "pending" => Pending(e) = {}
    BY <1>3 DEF Pending
  <1>5. PendingSound(e)
    BY <1>2, <1>3, <1>4 DEF PendingSound, AdmissionOpen, Retained, Reservable
  <1>6. SnapshotsSound(e)
    BY <1>2 DEF Sound, SnapshotsSound, Retained
  <1>7. DeletionSound(e) /\ Visible(e)
    BY <1>2 DEF DeletionSound, Visible
  <1> QED BY <1>2, <1>3, <1>4, <1>5, <1>6, <1>7 DEF Sound, DiskType

\* What a history may become.
Grows(S, T) ==
    \A s \in S : \E t \in T : s.id = t.id /\ s.file = t.file /\ s.commit \in {NoCommit, t.commit}

\* Histories grow step by step.
LEMMA GrowsIs ==
  /\ \A S : Grows(S, S)
  /\ \A S, T : S \subseteq T => Grows(S, T)
  /\ \A S, T, U : Grows(S, T) /\ Grows(T, U) => Grows(S, U)
  <1>1. ASSUME NEW S, NEW T, NEW U, Grows(S, T), Grows(T, U) PROVE Grows(S, U)
    <2>1. ASSUME NEW s \in S
          PROVE  \E u \in U : s.id = u.id /\ s.file = u.file /\ s.commit \in {NoCommit, u.commit}
      <3>1. PICK t \in T : s.id = t.id /\ s.file = t.file /\ s.commit \in {NoCommit, t.commit}
        BY <1>1 DEF Grows
      <3>2. PICK u \in U : t.id = u.id /\ t.file = u.file /\ t.commit \in {NoCommit, u.commit}
        BY <1>1 DEF Grows
      <3> QED BY <3>1, <3>2
    <2> QED BY <2>1 DEF Grows
  <1> QED BY <1>1 DEF Grows

-----------------------------------------------------------------------------
(* The admission journal.                                                  *)

\* The snapshot of an interrupted admission joins the history under an
\* identity, a content and a commit of its own.
LEMMA AppendedIs ==
  ASSUME NEW d, Sound(d), NEW k \in Pending(d), ~Recorded(d, k), Bound(d, k)
  PROVE  /\ IsFiniteSet(Appended(d, d.op[k])) /\ Cardinality(Appended(d, d.op[k])) <= MaxSnapshots
         /\ Appended(d, d.op[k]) \subseteq Snapshot /\ Identity(Appended(d, d.op[k]))
         /\ d.project.snaps \subseteq Appended(d, d.op[k])
         /\ \E s \in Appended(d, d.op[k]) : s.id = d.op[k].job
         /\ \A s \in Appended(d, d.op[k]) :
              Retained(d, s.file) /\ (s \in d.project.snaps \/ s.file = d.op[k].file)
  <1> DEFINE o == d.op[k]
             x == [id |-> o.job, file |-> o.file, commit |-> o.commit]
             S == d.project.snaps
  <1>1. /\ o.file \in Files /\ o.job \in Jobs /\ Retained(d, o.file) /\ Cardinality(S) < MaxSnapshots
        /\ \A s \in S : s.commit = o.commit => s.commit = NoCommit
    BY DEF Sound, PendingSound, AdmissionOpen
  <1>2. o \in Operation /\ S \subseteq Snapshot /\ IsFiniteSet(S)
    BY DEF Sound, DiskType, Disk, Project, Pending
  <1>3. x \in Snapshot
    BY <1>1, <1>2 DEF Snapshot, Operation
  <1>4. /\ IsFiniteSet(S \cup {x})
        /\ Cardinality(S \cup {x}) = IF x \in S THEN Cardinality(S) ELSE Cardinality(S) + 1
    BY <1>2, FS_AddElement
  <1>5. Cardinality(S) \in Nat
    BY <1>2, FS_CardinalityType
  <1>6. Cardinality(S \cup {x}) <= MaxSnapshots
    BY <1>1, <1>4, <1>5, BoundsAssumption
  <1>7. \A s \in S : s.id # x.id /\ Digest[s.file] # Digest[x.file]
    BY DEF Recorded, Bound
  <1>8. \A s \in S : s.commit = x.commit => s.commit = NoCommit
    BY <1>1
  <1>9. Identity(S) /\ \A s \in S : Retained(d, s.file)
    BY DEF Sound, SnapshotsSound
  <1>10. Appended(d, o) = S \cup {x}
    BY DEF Appended
  <1>11. x.id = o.job /\ x.file = o.file
    OBVIOUS
  <1> HIDE DEF x
  <1>12. Identity(S \cup {x})
    BY <1>7, <1>8, <1>9 DEF Identity
  <1> HIDE DEF S, o
  <1>13. \A s \in S \cup {x} : Retained(d, s.file) /\ (s \in S \/ s.file = o.file)
    BY <1>1, <1>9, <1>11
  <1> QED BY <1>2, <1>3, <1>4, <1>6, <1>10, <1>11, <1>12, <1>13 DEF S, o

\* The fields of a disk that every write of a recovery keeps.
Follows(d, e) ==
    /\ Sound(e) /\ Visible(e) /\ e.file = d.file /\ e.deleting = d.deleting
    /\ Grows(d.project.snaps, e.project.snaps)

\* What the three writes of a recovery leave, one after the other.
RecoverWrites(d, k) ==
    LET made == Recover(d, k)
        o    == d.op[k]
    IN /\ \A n \in 1..3 : /\ Follows(d, made[n])
                          /\ \A s \in made[n].project.snaps : s \in d.project.snaps \/ s.file = o.file
       /\ \A n \in 1..2 : /\ made[n].op = d.op
                          /\ Recorded(made[n], k) /\ made[n].project.latest = o.job
       /\ made[1].job = d.job /\ (Recorded(d, k) => made[1] = d)
       /\ Pending(made[3]) = {} /\ made[3].job = made[2].job
       /\ made[2].job[o.job].status \notin Gone
       /\ \A i \in Jobs \ {o.job} : made[2].job[i] = d.job[i]
       /\ Owed(d, k) => made[2].job[o.job] = [status |-> "queued", file |-> o.file]

\* A recovery whose snapshot fits the project keeps the disk sound.
LEMMA RecoverIs ==
  ASSUME NEW d, Sound(d), NEW k \in Pending(d), Bound(d, k)
  PROVE  RecoverWrites(d, k)
  <1> DEFINE o == d.op[k]
             p == [state |-> "kept", current |-> o.file, latest |-> o.job, snaps |-> Appended(d, o)]
             one == IF Recorded(d, k) THEN d ELSE [d EXCEPT !.project = p]
             two == IF d.job[o.job].status \in Gone
                    THEN [one EXCEPT !.job[o.job] = [status |-> "queued", file |-> o.file]]
                    ELSE one
             three == [two EXCEPT !.op[k].status = "completed"]
  <1>0. Recover(d, k) = <<one, two, three>>
    BY DEF Recover
  <1>1. /\ k \in OpIds /\ Visible(d) /\ Pending(d) = {k} /\ d \in Disk
        /\ o \in Operation /\ o.file \in Files /\ o.job \in Jobs
    <2>1. k \in OpIds /\ Visible(d) /\ d \in Disk
      BY PendingVisible DEF Pending, Sound, DiskType
    <2>2. o \in Operation
      BY <2>1 DEF Disk
    <2> QED BY <2>1, <2>2 DEF Sound, PendingSound, AdmissionOpen
  <1>2. /\ Sound(one) /\ Visible(one) /\ one.file = d.file /\ one.deleting = d.deleting
        /\ d.project.snaps \subseteq one.project.snaps
        /\ \A s \in one.project.snaps : s \in d.project.snaps \/ s.file = o.file
        /\ one.op = d.op /\ one.job = d.job
        /\ Recorded(one, k) /\ one.project.latest = o.job
    <2>1. CASE Recorded(d, k)
      BY <1>1, <2>1 DEF Bound
    <2>2. CASE ~Recorded(d, k)
      <3> DEFINE A == Appended(d, o)
      <3>1. /\ IsFiniteSet(A) /\ Cardinality(A) <= MaxSnapshots /\ A \subseteq Snapshot /\ Identity(A)
            /\ d.project.snaps \subseteq A /\ \E s \in A : s.id = o.job
            /\ \A s \in A : Retained(d, s.file) /\ (s \in d.project.snaps \/ s.file = o.file)
        BY <2>2, AppendedIs
      <3> HIDE DEF A
      <3>2. p = [state |-> "kept", current |-> o.file, latest |-> o.job, snaps |-> A]
        BY DEF A
      <3>3. p \in Project /\ p.state = "kept" /\ p.snaps = A /\ p.latest = o.job
        BY <1>1, <3>1, <3>2 DEF Project
      <3> HIDE DEF p
      <3>4. one = [d EXCEPT !.project = p]
        BY <2>2
      <3> HIDE DEF one, o
      <3>5. ~d.deleting
        BY <1>1 DEF Visible
      <3>6. \A l \in Pending(d) : p.snaps = d.project.snaps \/ \E s \in p.snaps : s.id = d.op[l].job
        BY <1>1, <3>1, <3>3 DEF o
      <3>7. /\ Sound(one) /\ Visible(one) /\ one.project = p /\ one.file = d.file /\ one.op = d.op
            /\ one.job = d.job /\ one.deleting = d.deleting
        BY <3>1, <3>3, <3>4, <3>5, <3>6, ProjectChange
      <3>8. Recorded(one, k)
        BY <3>1, <3>3, <3>7 DEF Recorded, o
      <3> QED BY <3>1, <3>3, <3>7, <3>8
    <2> QED BY <2>1, <2>2
  <1> HIDE DEF one
  <1>3. /\ Sound(two) /\ Visible(two) /\ two.file = one.file /\ two.project = one.project
        /\ two.op = d.op /\ two.deleting = one.deleting
        /\ two.job[o.job].status \notin Gone
        /\ \A i \in Jobs \ {o.job} : two.job[i] = d.job[i]
        /\ Owed(d, k) => two.job[o.job] = [status |-> "queued", file |-> o.file]
    <2>1. CASE d.job[o.job].status \in Gone
      <3> DEFINE r == [status |-> "queued", file |-> o.file]
      <3>0. r \in Analysis /\ r.status = "queued"
        BY <1>1 DEF Analysis, Inflight
      <3>1. two = [one EXCEPT !.job[o.job] = r] /\ o.job \in Jobs /\ one \in Disk
        BY <1>1, <1>2, <2>1 DEF Sound, DiskType
      <3> HIDE DEF two, o, r
      <3>2. /\ two \in Disk /\ two.project = one.project /\ two.file = one.file
            /\ two.op = one.op /\ two.deleting = one.deleting
            /\ two.job[o.job] = r
            /\ \A i \in Jobs \ {o.job} : two.job[i] = one.job[i]
        BY <3>0, <3>1, JobWrite
      <3>3. Sound(two) /\ Visible(two)
        BY <1>2, <3>2, JobAdded
      <3> QED BY <1>2, <3>0, <3>2, <3>3 DEF Gone, r
    <2>2. CASE d.job[o.job].status \notin Gone
      BY <1>2, <2>2 DEF Owed
    <2> QED BY <2>1, <2>2
  <1> HIDE DEF two
  <1>4. /\ Sound(three) /\ Visible(three) /\ three.project = two.project /\ three.file = two.file
        /\ three.job = two.job /\ three.deleting = two.deleting /\ Pending(three) = {}
    <2> DEFINE r == [o EXCEPT !.status = "completed"]
    <2>1. r \in Operation /\ r.status = "completed" /\ r.job \in Jobs
      BY <1>1 DEF Operation
    <2>2. three = [two EXCEPT !.op[k] = r]
      <3>1. two.op[k] = o
        BY <1>3
      <3> QED BY <3>1
    <2>3. Pending(two) = Pending(d)
      BY <1>3 DEF Pending
    <2> HIDE DEF r, three
    <2> QED BY <1>1, <1>3, <2>1, <2>2, <2>3, OpChange
  <1> HIDE DEF three, o
  <1>5. Recorded(two, k)
    BY <1>2, <1>3 DEF Recorded
  <1>6. Follows(d, one) /\ Follows(d, two) /\ Follows(d, three)
    BY <1>2, <1>3, <1>4, GrowsIs DEF Follows
  <1>7. /\ Recover(d, k)[1] = one /\ Recover(d, k)[2] = two /\ Recover(d, k)[3] = three
        /\ Recorded(d, k) => one = d
    BY <1>0 DEF one
  <1> QED BY <1>2, <1>3, <1>4, <1>5, <1>6, <1>7 DEF o, RecoverWrites

\* The ends of a recovery.
LEMMA RecoverEndsAre ==
  ASSUME NEW d, NEW k, NEW room, NEW o, o \in RecoverEnds(d, k, room)
  PROVE  \/ o.disk = d /\ o.reply = "conflict" /\ d.file[d.op[k].file] # "kept"
         \/ o.disk = d /\ o.reply = "error" /\ ~Bound(d, k)
         \/ /\ Able(d, k) /\ o.reply = "stopped"
            /\ o.disk = d \/ \E n \in 1..2 : o.disk = Recover(d, k)[n]
         \/ Able(d, k) /\ o.reply = "conflict" /\ o.disk = Recover(d, k)[1] /\ Owed(d, k) /\ ~room
         \/ Able(d, k) /\ o.reply = "queued" /\ o.disk = Recover(d, k)[3] /\ o.job = d.op[k].job
  <1>1. CASE d.file[d.op[k].file] # "kept"
    BY <1>1 DEF RecoverEnds, Ends
  <1>2. CASE d.file[d.op[k].file] = "kept" /\ ~Bound(d, k)
    BY <1>2 DEF RecoverEnds, Ends
  <1>3. CASE d.file[d.op[k].file] = "kept" /\ Bound(d, k)
    <2> DEFINE made == Recover(d, k)
    <2>1. \/ o = Ends(d, "stopped", NoJob)
          \/ Owed(d, k) /\ ~room /\ o = Ends(made[1], "conflict", NoJob)
          \/ \E n \in 1..2 : o = Ends(made[n], "stopped", NoJob)
          \/ o = Ends(made[3], "queued", d.op[k].job)
      BY <1>3 DEF RecoverEnds, Owed
    <2> HIDE DEF made
    <2>2. Able(d, k)
      BY <1>3 DEF Able
    <2>3. CASE \E n \in 1..2 : o = Ends(made[n], "stopped", NoJob)
      BY <2>2, <2>3 DEF Ends, made
    <2> QED BY <2>1, <2>2, <2>3 DEF Ends, made
  <1> QED BY <1>1, <1>2, <1>3

\* What an admission may do to a disk, whatever its reply.
Outcome(d, f, o) ==
    /\ Sound(o.disk) /\ o.disk.file = d.file /\ o.disk.deleting = d.deleting
    /\ o.disk.project.state = d.project.state /\ Grows(d.project.snaps, o.disk.project.snaps)
    /\ Restartable(d) => Restartable(o.disk)
    /\ Calm(d) /\ o.reply # "stopped" => Calm(o.disk)
    /\ o.reply \in {"queued", "replayed"} => o.job \in Jobs
    /\ /\ Unreferenced(d, f)
       /\ o.reply = "conflict" \/ (o.reply \in {"queued", "replayed"} /\ o.disk.job[o.job].file # f)
       => Unreferenced(o.disk, f)

\* A disk left as it was.
LEMMA OutcomeSame ==
  ASSUME NEW d, Sound(d), NEW f, NEW o, o.disk = d, o.reply \in {"queued", "replayed"} => o.job \in Jobs
  PROVE  Outcome(d, f, o)
  BY GrowsIs DEF Outcome

\* The completed admission is the only analysis in flight.
LEMMA QueuedIsCalm ==
  ASSUME NEW d, Sound(d), NEW k \in Pending(d), Bound(d, k), ~HasActive(d)
  PROVE  Calm(Recover(d, k)[3])
  <1>0. RecoverWrites(d, k)
    BY RecoverIs
  <1>1. \A i \in Jobs \ {d.op[k].job} : Recover(d, k)[3].job[i] = d.job[i]
    BY <1>0 DEF RecoverWrites
  <1>2. \A i \in Jobs : d.job[i].status \notin Inflight
    BY DEF HasActive
  <1>3. SingleActive(Recover(d, k)[3])
    BY <1>1, <1>2 DEF SingleActive
  <1>4. Pending(Recover(d, k)[3]) = {}
    BY <1>0 DEF RecoverWrites
  <1> QED BY <1>3, <1>4 DEF Calm, Settled

\* A recovery keeps the disk sound; in service it keeps it calm, and at startup
\* it settles it.
LEMMA RecoverEndsIs ==
  ASSUME NEW d, Sound(d), NEW k \in Pending(d), NEW room \in BOOLEAN, NEW f \in Files,
         NEW o \in RecoverEnds(d, k, room)
  PROVE  /\ Outcome(d, f, o) /\ (Unreferenced(d, f) => Unreferenced(o.disk, f))
         /\ Restartable(d) /\ o.reply # "stopped" => Settled(o.disk)
         /\ o.reply = "queued" => Visible(o.disk) /\ Pending(o.disk) = {}
  <1>0. /\ k \in OpIds /\ Visible(d) /\ \A l \in Pending(d) : l = k
    BY PendingVisible DEF Pending, Sound, PendingSound
  <1>1. CASE /\ o.disk = d /\ o.reply \in {"conflict", "error", "stopped"}
             /\ o.reply = "stopped" \/ ~Able(d, k)
    <2>1. Restartable(d) /\ o.reply # "stopped" => Settled(d)
      BY <1>0, <1>1 DEF Restartable, Settled
    <2> QED BY <1>1, <2>1, OutcomeSame
  <1>2. ASSUME NEW n \in 1..3, Able(d, k), o.disk = Recover(d, k)[n],
               \/ o.reply = "stopped" /\ n \in 1..2
               \/ o.reply = "conflict" /\ n = 1 /\ Owed(d, k)
               \/ o.reply = "queued" /\ n = 3 /\ o.job = d.op[k].job
        PROVE  /\ Outcome(d, f, o) /\ (Unreferenced(d, f) => Unreferenced(o.disk, f))
               /\ Restartable(d) /\ o.reply # "stopped" => Settled(o.disk)
               /\ o.reply = "queued" => Visible(o.disk) /\ Pending(o.disk) = {}
    <2> DEFINE e == Recover(d, k)[n]
    <2>0. Bound(d, k) /\ d.file[d.op[k].file] = "kept" /\ RecoverWrites(d, k)
      BY <1>2, RecoverIs DEF Able
    <2>1. Follows(d, e) /\ \A s \in e.project.snaps : s \in d.project.snaps \/ s.file = d.op[k].file
      BY <2>0 DEF RecoverWrites
    <2>2. n = 3 => Pending(e) = {}
      BY <2>0 DEF RecoverWrites
    <2>3. n # 3 => /\ e.op = d.op /\ Recorded(e, k) /\ e.project.latest = d.op[k].job /\ Pending(e) = Pending(d)
      <3>1. n # 3 => e.op = d.op /\ Recorded(e, k) /\ e.project.latest = d.op[k].job
        BY <2>0 DEF RecoverWrites
      <3> QED BY <3>1 DEF Pending
    <2>4. n = 1 => e.job = d.job /\ (Recorded(d, k) => e = d)
      BY <2>0 DEF RecoverWrites
    <2>5. Calm(d) => Owed(d, k) /\ Recorded(d, k) /\ ~HasActive(d)
      BY <1>2 DEF Calm, Settled
    <2>6. Calm(d) /\ n = 3 => Calm(e)
      BY <2>0, <2>5, QueuedIsCalm
    <2> HIDE DEF e
    <2>7. Restartable(e)
      <3>1. n # 3 => Able(e, k)
        BY <2>0, <2>1, <2>3 DEF Able, Bound, Follows
      <3> QED BY <1>0, <2>2, <2>3, <3>1 DEF Restartable
    <2>8. o.reply # "stopped" => Settled(e)
      <3>1. n = 1 => (Owed(e, k) <=> Owed(d, k))
        BY <2>3, <2>4 DEF Owed
      <3> QED BY <1>0, <1>2, <2>2, <2>3, <3>1 DEF Settled
    <2>9. Unreferenced(d, f) => Unreferenced(e, f)
      BY <2>1, <2>2, <2>3 DEF Unreferenced
    <2>10. o.disk = e /\ Visible(e) /\ e.project.state = d.project.state
      BY <1>0, <1>2, <2>1 DEF e, Follows, Visible
    <2>11. Calm(d) /\ o.reply # "stopped" => Calm(e)
      BY <1>2, <2>4, <2>5, <2>6
    <2>12. Outcome(d, f, o)
      <3>1. o.reply \in {"queued", "replayed"} => o.job \in Jobs
        BY <1>2 DEF Sound, PendingSound, AdmissionOpen
      <3> QED BY <2>1, <2>7, <2>9, <2>10, <2>11, <3>1 DEF Outcome, Follows
    <2> QED BY <1>2, <2>2, <2>8, <2>9, <2>10, <2>12
  <1> QED BY <1>1, <1>2, RecoverEndsAre DEF Able

-----------------------------------------------------------------------------
(* Admissions the journal has not seen.                                    *)

\* The snapshots once s is attributed to the commit c.
Attributed(S, s, c) == (S \ {s}) \cup {[s EXCEPT !.commit = c]}

\* An attribution keeps the identity of every snapshot: no other one claims
\* the commit (the conflicts admit raises first).
LEMMA AttributedIs ==
  ASSUME NEW d, Sound(d), NEW f, NEW c \in Commits, ~CommitConflict(d, f, c), NEW s \in SameContent(d, f)
  PROVE  LET A == Attributed(d.project.snaps, s, c)
         IN /\ A \subseteq Snapshot /\ IsFiniteSet(A) /\ Cardinality(A) <= MaxSnapshots
            /\ Identity(A) /\ Grows(d.project.snaps, A)
            /\ \A t \in A : \E u \in d.project.snaps : t.file = u.file
  <1> DEFINE S == d.project.snaps
             x == [s EXCEPT !.commit = c]
  <1>1. /\ S \subseteq Snapshot /\ IsFiniteSet(S) /\ Cardinality(S) <= MaxSnapshots /\ Identity(S)
        /\ s \in S /\ Digest[s.file] = Digest[f]
    BY DEF Sound, DiskType, Disk, Project, SnapshotsSound, SameContent
  <1>2. x \in Snapshot /\ x.id = s.id /\ x.file = s.file /\ x.commit = c
    BY <1>1 DEF Snapshot
  <1>3. s.commit \in {NoCommit, c}
    BY DEF CommitConflict
  <1>4. \A u \in S : u.commit = c => u = s
    <2>1. \A u \in S : u.commit = c => Digest[u.file] = Digest[f]
      BY DEF CommitConflict
    <2> QED BY <1>1, <2>1 DEF Identity
  <1>5. Attributed(S, s, c) = (S \ {s}) \cup {x}
    BY DEF Attributed
  <1> HIDE DEF x, S
  <1>6. IsFiniteSet(S \ {s}) /\ Cardinality(S \ {s}) = Cardinality(S) - 1 /\ Cardinality(S) \in Nat
    BY <1>1, FS_RemoveElement, FS_CardinalityType
  <1>7. /\ IsFiniteSet((S \ {s}) \cup {x})
        /\ \/ Cardinality((S \ {s}) \cup {x}) = Cardinality(S \ {s})
           \/ Cardinality((S \ {s}) \cup {x}) = Cardinality(S \ {s}) + 1
    BY <1>6, FS_AddElement
  <1>8. Cardinality((S \ {s}) \cup {x}) <= MaxSnapshots
    BY <1>1, <1>6, <1>7, BoundsAssumption
  <1>9. Identity((S \ {s}) \cup {x})
    <2>1. \A t \in S \ {s} : /\ t.id # x.id /\ x.id # t.id
                             /\ Digest[t.file] # Digest[x.file] /\ Digest[x.file] # Digest[t.file]
                             /\ t.commit # x.commit
      BY <1>1, <1>2, <1>4 DEF Identity
    <2> QED BY <1>1, <2>1 DEF Identity
  <1>10. Grows(S, (S \ {s}) \cup {x})
    BY <1>2, <1>3 DEF Grows
  <1>11. \A t \in (S \ {s}) \cup {x} : \E u \in S : t.file = u.file
    BY <1>1, <1>2
  <1> QED BY <1>1, <1>2, <1>5, <1>7, <1>8, <1>9, <1>10, <1>11 DEF S

\* A disk whose journal is idle is calm while one analysis runs.
LEMMA IdleIsCalm ==
  ASSUME NEW d, Pending(d) = {}
  PROVE  Restartable(d) /\ Settled(d) /\ (Calm(d) <=> SingleActive(d))
  BY DEF Restartable, Settled, Calm

\* Content the project holds is attributed, and the identity bound to an analysis.
LEMMA AttributeEndsIs ==
  ASSUME NEW d, Sound(d), Visible(d), Pending(d) = {}, NEW k \in OpIds, NEW f \in Files,
         NEW c \in Commits, ~CommitConflict(d, f, c), SameContent(d, f) # {},
         NEW o \in AttributeEnds(d, k, f, c)
  PROVE  Outcome(d, f, o)
  <1> DEFINE s   == CHOOSE s \in SameContent(d, f) : TRUE
             A   == Attributed(d.project.snaps, s, c)
             p   == [d.project EXCEPT !.snaps = A]
             one == [d EXCEPT !.project = p]
             w(j) == [status |-> "completed", file |-> s.file, commit |-> c, job |-> j]
             two(j) == [one EXCEPT !.op[k] = w(j)]
             its == {j \in Jobs : d.job[j].status \notin Gone /\ d.job[j].file = s.file}
  <1>1. s \in SameContent(d, f)
    OBVIOUS
  <1>2. \/ o.disk = d /\ o.reply \in {"error", "stopped"}
        \/ o.disk = one /\ o.reply = "stopped"
        \/ \E j \in its : o.disk = two(j) /\ o.reply = "replayed" /\ o.job = j
    <2>1. \/ o = Ends(d, "error", NoJob) \/ o = Ends(d, "stopped", NoJob) \/ o = Ends(one, "stopped", NoJob)
          \/ \E j \in its : o = Ends(two(j), "replayed", j)
      BY DEF AttributeEnds, Attributed
    <2> HIDE DEF one, two, its
    <2> QED BY <2>1 DEF Ends
  <1>3. s \in Snapshot /\ d.project \in Project /\ d \in Disk /\ d.project.state = "kept"
    BY <1>1 DEF SameContent, Sound, DiskType, Disk, Project, Visible
  <1> HIDE DEF s
  <1>4. /\ A \subseteq Snapshot /\ IsFiniteSet(A) /\ Cardinality(A) <= MaxSnapshots
        /\ Identity(A) /\ Grows(d.project.snaps, A)
        /\ \A t \in A : \E u \in d.project.snaps : t.file = u.file
    BY <1>1, AttributedIs
  <1> HIDE DEF A
  <1>5. p \in Project /\ p.state = "kept" /\ p.snaps = A
    BY <1>3, <1>4 DEF Project
  <1> HIDE DEF p
  <1>6. \A t \in A : Retained(d, t.file)
    BY <1>4 DEF Sound, SnapshotsSound
  <1>7. /\ Sound(one) /\ Visible(one) /\ one.project = p /\ one.file = d.file /\ one.op = d.op
        /\ one.job = d.job /\ one.deleting = d.deleting
    BY <1>4, <1>5, <1>6, ProjectChange DEF Visible
  <1> HIDE DEF one
  <1>8. Pending(one) = {} /\ (SingleActive(one) <=> SingleActive(d))
    BY <1>7 DEF Pending, SingleActive
  <1>9. ASSUME NEW e, Sound(e), Visible(e), Pending(e) = {}, e.project = p, e.file = d.file, e.job = d.job,
               e.deleting = d.deleting, o.disk = e, o.reply \in {"queued", "replayed"} => o.job \in Jobs
        PROVE  Outcome(d, f, o)
    <2>1. Restartable(e) /\ (Calm(d) => Calm(e))
      BY <1>9, IdleIsCalm DEF SingleActive
    <2>2. Unreferenced(d, f) => Unreferenced(e, f)
      BY <1>4, <1>5, <1>9 DEF Unreferenced
    <2>3. Grows(d.project.snaps, e.project.snaps) /\ e.project.state = d.project.state
      BY <1>3, <1>4, <1>5, <1>9
    <2> QED BY <1>9, <2>1, <2>2, <2>3 DEF Outcome
  <1>10. ASSUME NEW j \in its, o.disk = two(j), o.job = j PROVE Outcome(d, f, o)
    <2>1. w(j) \in Operation /\ w(j).status = "completed" /\ w(j).job \in Jobs /\ j \in Jobs
      BY <1>3, <1>10 DEF Operation, Snapshot
    <2> HIDE DEF w
    <2>2. /\ Sound(two(j)) /\ Visible(two(j)) /\ two(j).project = one.project /\ two(j).file = one.file
          /\ two(j).job = one.job /\ two(j).deleting = one.deleting /\ Pending(two(j)) = {}
      BY <1>7, <1>8, <2>1, OpChange
    <2> HIDE DEF two
    <2> QED BY <1>7, <1>9, <1>10, <2>1, <2>2
  <1> QED BY <1>2, <1>7, <1>8, <1>9, <1>10, OutcomeSame

\* A reservation is the only interrupted admission.
LEMMA ReservedIs ==
  ASSUME NEW d, Sound(d), Visible(d), Pending(d) = {}, NEW k \in OpIds, NEW r \in Operation,
         r.status = "pending", Reservable(d, r), NEW e, e = [d EXCEPT !.op[k] = r]
  PROVE  /\ Sound(e) /\ Visible(e) /\ e.project = d.project /\ e.file = d.file /\ e.job = d.job
         /\ e.deleting = d.deleting /\ Pending(e) = {k}
  <1>1. Pending(d) \subseteq {k}
    OBVIOUS
  <1>2. (r.status = "pending" => Reservable(d, r)) /\ r.job \in Jobs
    BY DEF Reservable
  <1>3. Sound(e) /\ Visible(e) /\ Pending(e) = {k}
    BY <1>1, <1>2, OpChange
  <1>4. e.project = d.project /\ e.file = d.file /\ e.job = d.job /\ e.deleting = d.deleting
    BY <1>1, <1>2, OpChange
  <1> QED BY <1>3, <1>4

\* The in-flight limits are reached.
Roomless(room) == ~room

\* A reserved admission of new content is open, and ends as a recovery of it.
LEMMA ReserveEndsIs ==
  ASSUME NEW d, Sound(d), Visible(d), Pending(d) = {}, NEW k \in OpIds, NEW f \in Files,
         NEW c \in Commits \cup {NoCommit}, ~HasActive(d), ~HistoryFull(d), d.file[f] = "kept",
         c # NoCommit => ~CommitConflict(d, f, c), SameContent(d, f) = {},
         NEW j \in Unused(d), NEW room \in BOOLEAN, ~Roomless(room),
         NEW o \in RecoverEnds(Reserved(d, k, f, c, j), k, room)
  PROVE  Outcome(d, f, o)
  <1> DEFINE r == [status |-> "pending", file |-> f, commit |-> c, job |-> j]
             R == [d EXCEPT !.op[k] = r]
  <1>0. Reserved(d, k, f, c, j) = R
    BY DEF Reserved
  <1>1. j \in Jobs /\ d.job[j].status = "none"
    BY DEF Unused
  <1>2. r \in Operation /\ r.status = "pending" /\ r.file = f /\ r.commit = c /\ r.job = j
    BY <1>1 DEF Operation
  <1> HIDE DEF r
  <1>3. Retained(d, f)
    BY DEF Retained
  <1>4. Cardinality(d.project.snaps) < MaxSnapshots
    <2>1. Cardinality(d.project.snaps) \in Nat
      BY FS_CardinalityType DEF Sound, DiskType
    <2> QED BY <2>1, BoundsAssumption DEF HistoryFull
  <1>5. \A s \in d.project.snaps : s.commit = c => s.commit = NoCommit
    BY DEF CommitConflict, SameContent
  <1>6. /\ Sound(R) /\ Visible(R) /\ R.project = d.project /\ R.file = d.file /\ R.job = d.job
        /\ R.deleting = d.deleting /\ R.op[k] = r /\ Pending(R) = {k}
    <2>1. Reservable(d, r)
      BY <1>1, <1>2, <1>3, <1>4, <1>5 DEF Reservable
    <2>2. R = [d EXCEPT !.op[k] = r]
      OBVIOUS
    <2> HIDE DEF R
    <2>3. /\ Sound(R) /\ Visible(R) /\ R.project = d.project /\ R.file = d.file /\ R.job = d.job
          /\ R.deleting = d.deleting /\ Pending(R) = {k}
      BY <1>2, <2>1, <2>2, ReservedIs
    <2>4. R.op[k] = r
      BY <2>2 DEF Sound, DiskType, Disk
    <2> QED BY <2>3, <2>4
  <1> HIDE DEF R
  <1>7. ~HasActive(R) /\ Owed(R, k)
    BY <1>1, <1>2, <1>6 DEF HasActive, Owed, Gone
  <1>8. R.file[R.op[k].file] = "kept"
    BY <1>2, <1>6
  <1>9. Restartable(R)
    BY <1>6, <1>7 DEF Restartable
  <1>10. \/ o.disk = R /\ o.reply = "error" /\ ~Bound(R, k)
         \/ Able(R, k) /\ o.reply = "stopped" /\ (o.disk = R \/ \E n \in 1..2 : o.disk = Recover(R, k)[n])
         \/ Able(R, k) /\ o.reply = "queued" /\ o.disk = Recover(R, k)[3] /\ o.job = j
    <2>1. o \in RecoverEnds(R, k, room)
      BY <1>0
    <2>2. \/ o.disk = R /\ o.reply = "conflict" /\ R.file[R.op[k].file] # "kept"
          \/ o.disk = R /\ o.reply = "error" /\ ~Bound(R, k)
          \/ /\ Able(R, k) /\ o.reply = "stopped"
             /\ o.disk = R \/ \E n \in 1..2 : o.disk = Recover(R, k)[n]
          \/ Able(R, k) /\ o.reply = "conflict" /\ o.disk = Recover(R, k)[1] /\ Owed(R, k) /\ ~room
          \/ Able(R, k) /\ o.reply = "queued" /\ o.disk = Recover(R, k)[3] /\ o.job = R.op[k].job
      BY <2>1, RecoverEndsAre
    <2> QED BY <1>2, <1>6, <1>8, <2>2 DEF Roomless
  <1>11. Outcome(R, f, o)
    BY <1>0, <1>6, RecoverEndsIs
  <1>12. Restartable(o.disk)
    BY <1>9, <1>11 DEF Outcome
  <1>13. o.reply # "stopped" => Calm(o.disk)
    <2>1. ~Bound(R, k) => Calm(R)
      BY <1>6, <1>7 DEF Calm, Settled, SingleActive, Able, HasActive
    <2>2. Bound(R, k) => Calm(Recover(R, k)[3])
      BY <1>6, <1>7, QueuedIsCalm
    <2> QED BY <1>10, <2>1, <2>2 DEF Able
  <1>14. ~(o.reply = "conflict" \/ (o.reply \in {"queued", "replayed"} /\ o.disk.job[o.job].file # f))
    <2>1. ASSUME Bound(R, k) PROVE Recover(R, k)[3].job[j].file = f
      <3>1. RecoverWrites(R, k)
        BY <1>6, <2>1, RecoverIs
      <3>2. Recover(R, k)[3].job[j] = [status |-> "queued", file |-> f]
        BY <1>2, <1>6, <1>7, <3>1 DEF RecoverWrites
      <3> QED BY <3>2
    <2> QED BY <1>10, <2>1 DEF Able
  <1> QED BY <1>6, <1>11, <1>12, <1>13, <1>14 DEF Outcome

\* An admission the journal has not seen keeps the disk sound and calm.
LEMMA FreshEndsIs ==
  ASSUME NEW d, Sound(d), Visible(d), Pending(d) = {}, NEW k \in OpIds, NEW f \in Files,
         NEW c \in Commits \cup {NoCommit}, NEW room \in BOOLEAN, NEW o \in FreshEnds(d, k, f, c, room)
  PROVE  Outcome(d, f, o)
  <1> DEFINE refused == \/ HasActive(d) \/ ~room \/ HistoryFull(d) \/ d.file[f] # "kept"
                        \/ c # NoCommit /\ CommitConflict(d, f, c)
                        \/ c = NoCommit /\ SameContent(d, f) # {}
  <1>1. CASE refused
    <2>1. o = Ends(d, "conflict", NoJob)
      BY <1>1 DEF FreshEnds
    <2> QED BY <2>1, OutcomeSame DEF Ends
  <1>2. CASE ~refused /\ SameContent(d, f) # {}
    <2>1. o \in AttributeEnds(d, k, f, c) /\ c \in Commits /\ ~CommitConflict(d, f, c)
      BY <1>2 DEF FreshEnds
    <2> QED BY <1>2, <2>1, AttributeEndsIs
  <1>3. CASE ~refused /\ SameContent(d, f) = {}
    <2>1. \/ o = Ends(d, "stopped", NoJob)
          \/ \E j \in Unused(d) : o \in RecoverEnds(Reserved(d, k, f, c, j), k, room)
      BY <1>3 DEF FreshEnds
    <2>2. ~Roomless(room) /\ ~HasActive(d) /\ ~HistoryFull(d) /\ d.file[f] = "kept"
          /\ (c # NoCommit => ~CommitConflict(d, f, c))
      BY <1>3 DEF Roomless
    <2>3. CASE o = Ends(d, "stopped", NoJob)
      BY <2>3, OutcomeSame DEF Ends
    <2>4. ASSUME NEW j \in Unused(d), o \in RecoverEnds(Reserved(d, k, f, c, j), k, room)
          PROVE  Outcome(d, f, o)
      BY <1>3, <2>2, <2>4, ReserveEndsIs
    <2> QED BY <2>1, <2>3, <2>4
  <1> QED BY <1>1, <1>2, <1>3

\* A new admission first completes what the journal holds.
LEMMA AfterPendingIs ==
  ASSUME NEW d, Sound(d), Visible(d), NEW k \in OpIds, NEW f \in Files,
         NEW c \in Commits \cup {NoCommit}, NEW room \in BOOLEAN, NEW o \in AfterPendingEnds(d, k, f, c, room)
  PROVE  Outcome(d, f, o)
  <1>1. CASE Pending(d) = {}
    <2>1. o \in FreshEnds(d, k, f, c, room)
      BY <1>1 DEF AfterPendingEnds
    <2> QED BY <1>1, <2>1, FreshEndsIs
  <1>2. CASE Pending(d) # {}
    <2>1. PICK p \in Pending(d) : \E q \in RecoverEnds(d, p, room) :
             o \in IF q.reply = "queued" THEN FreshEnds(q.disk, k, f, c, room) ELSE {q}
      BY <1>2 DEF AfterPendingEnds
    <2>2. PICK q \in RecoverEnds(d, p, room) :
             o \in IF q.reply = "queued" THEN FreshEnds(q.disk, k, f, c, room) ELSE {q}
      BY <2>1
    <2>3. /\ Outcome(d, f, q) /\ (Unreferenced(d, f) => Unreferenced(q.disk, f))
          /\ q.reply = "queued" => Visible(q.disk) /\ Pending(q.disk) = {}
      BY RecoverEndsIs
    <2>4. CASE q.reply # "queued"
      BY <2>2, <2>3, <2>4
    <2>5. CASE q.reply = "queued"
      <3>1. o \in FreshEnds(q.disk, k, f, c, room)
        BY <2>2, <2>5
      <3>2. Sound(q.disk)
        BY <2>3 DEF Outcome
      <3>3. Outcome(q.disk, f, o)
        BY <2>3, <2>5, <3>1, <3>2, FreshEndsIs
      <3>4. Grows(d.project.snaps, o.disk.project.snaps)
        BY <2>3, <3>3, GrowsIs DEF Outcome
      <3>5. /\ Restartable(d) => Restartable(o.disk)
            /\ Calm(d) /\ o.reply # "stopped" => Calm(o.disk)
        BY <2>3, <2>5, <3>3 DEF Outcome
      <3> QED BY <2>3, <3>3, <3>4, <3>5 DEF Outcome
    <2> QED BY <2>4, <2>5
  <1> QED BY <1>1, <1>2

\* Every admission keeps the disk sound, what a restart needs, and its calm.
LEMMA AdmitIs ==
  ASSUME NEW d, Sound(d), NEW k \in OpIds, NEW f \in Files,
         NEW c \in Commits \cup {NoCommit}, NEW room \in BOOLEAN, NEW o \in AdmitEnds(d, k, f, c, room)
  PROVE  Outcome(d, f, o)
  <1>1. CASE ~Visible(d)
    <2>1. o = Ends(d, "conflict", NoJob)
      BY <1>1 DEF AdmitEnds
    <2> QED BY <2>1, OutcomeSame DEF Ends
  <1>2. CASE Visible(d) /\ d.op[k].status # "none"
    <2>1. o \in ReplayEnds(d, k, f, room)
      BY <1>2 DEF AdmitEnds
    <2>2. CASE d.op[k].status = "pending" /\ o \in RecoverEnds(d, k, room)
      <3>1. k \in Pending(d)
        BY <2>2 DEF Pending
      <3> QED BY <2>2, <3>1, RecoverEndsIs
    <2>3. \/ o.disk = d /\ (o.reply = "conflict" \/ o.job \in Jobs)
          \/ d.op[k].status = "pending" /\ o \in RecoverEnds(d, k, room)
      <3> DEFINE w == d.op[k]
      <3>1. CASE k \in Keys /\ w.file # f
        <4>1. o = Ends(d, "conflict", NoJob)
          BY <2>1, <3>1 DEF ReplayEnds
        <4> QED BY <4>1 DEF Ends
      <3>2. CASE (k \notin Keys \/ w.file = f) /\ w.status = "pending"
        BY <2>1, <3>2 DEF ReplayEnds
      <3>3. CASE (k \notin Keys \/ w.file = f) /\ w.status # "pending"
        <4>1. o = Ends(d, "conflict", NoJob) \/ o = Ends(d, "replayed", w.job)
          BY <2>1, <3>3 DEF ReplayEnds
        <4>2. w.job \in Jobs
          BY <1>2 DEF Sound, DiskType
        <4> QED BY <4>1, <4>2 DEF Ends
      <3> QED BY <3>1, <3>2, <3>3
    <2> QED BY <2>2, <2>3, OutcomeSame
  <1>3. CASE Visible(d) /\ d.op[k].status = "none"
    <2>1. o \in AfterPendingEnds(d, k, f, c, room)
      BY <1>3 DEF AdmitEnds
    <2> QED BY <1>3, <2>1, AfterPendingIs
  <1> QED BY <1>1, <1>2, <1>3

-----------------------------------------------------------------------------
(* Handlers as steps of the process.                                       *)

\* What a handler may leave where the process dies or a write fails, and what
\* it leaves when it ends in a live process.
Restarts(d) == Sound(d) /\ (~writesFail => Restartable(d))
Serves(d)   == Sound(d) /\ (~writesFail => Calm(d))

\* The invariant of a handler's end.
LEMMA LivesKeeps ==
  ASSUME RecordsInv, phase = "up", NEW d, Serves(d), NEW s, s \subseteq Jobs, Lives(d, s)
  PROVE  RecordsInv'
  <1>1. Calm(d) => Restartable(d)
    BY CalmRestarts
  <1> QED BY <1>1 DEF RecordsInv, ProcessType, Serves, Lives

\* The invariant after a crash.
LEMMA DiesKeeps ==
  ASSUME RecordsInv, NEW d, Restarts(d), Dies(d)
  PROVE  RecordsInv'
  BY BoundsAssumption DEF RecordsInv, ProcessType, Restarts, Dies

\* The invariant after a handler that stops.
LEMMA StopsKeeps ==
  ASSUME RecordsInv, phase = "up", NEW d, Restarts(d), Stops(d)
  PROVE  RecordsInv'
  <1>1. CASE writesFail /\ Lives(d, sched)
    <2>1. Serves(d) /\ sched \subseteq Jobs
      BY <1>1 DEF Restarts, Serves, RecordsInv, ProcessType
    <2> QED BY <1>1, <2>1, LivesKeeps
  <1>2. CASE Dies(d)
    BY <1>2, DiesKeeps
  <1> QED BY <1>1, <1>2 DEF Stops

\* The disk in service.
LEMMA InService ==
  ASSUME RecordsInv, phase = "up"
  PROVE  Serves(disk) /\ Restarts(disk) /\ sched \subseteq Jobs /\ refreshing \subseteq Jobs
  BY DEF RecordsInv, ProcessType, Serves, Restarts

\* The history of a project that lives on.
KeepsHistory(d, e) ==
    d.project.state = "kept" /\ e.project.state = "kept" => Grows(d.project.snaps, e.project.snaps)

\* A disk whose snapshots are the same.
LEMMA SameHistory == ASSUME NEW d, NEW e, e.project.snaps = d.project.snaps PROVE KeepsHistory(d, e)
  BY GrowsIs DEF KeepsHistory

\* An upload that is not there is named by nothing.
LEMMA AbsentIs == ASSUME NEW d, Sound(d), NEW f \in Files, d.file[f] = "absent" PROVE Unreferenced(d, f)
  BY DEF Sound, SnapshotsSound, PendingSound, AdmissionOpen, Retained, Unreferenced

\* An upload arrives.
LEMMA KeptIs ==
  ASSUME NEW d, Sound(d), NEW f \in Files, Unclaimed(d, f)
  PROVE  /\ Sound(Kept(d, f)) /\ (Calm(d) => Calm(Kept(d, f))) /\ (Restartable(d) => Restartable(Kept(d, f)))
         /\ FileWritten(d, f, "kept", Kept(d, f))
  <1> DEFINE e == Kept(d, f)
  <1>1. "kept" \in FileState /\ ~Removes("kept") /\ d \in Disk
    BY DEF FileState, Removes, Sound, DiskType
  <1>2. FileWritten(d, f, "kept", e)
    BY <1>1, FileWrite DEF Kept
  <1> HIDE DEF e
  <1>3. /\ e.project = d.project /\ e.op = d.op /\ e.job = d.job /\ e.deleting = d.deleting
        /\ e.file = [d.file EXCEPT ![f] = "kept"]
    BY <1>2 DEF FileWritten
  <1>4. Sound(e) /\ (Calm(d) => Calm(e))
    BY <1>1, <1>2, FileChange
  <1>5. ASSUME Restartable(d) PROVE Restartable(e)
    <2>1. ASSUME NEW k \in Pending(d) PROVE Owed(e, k) \/ Able(e, k)
      <3>1. k \in OpIds /\ d.op[k].file \in Files /\ d.op[k].file # f
        BY DEF Sound, PendingSound, AdmissionOpen, Pending, Unclaimed
      <3>2. d.file \in [Files -> FileState]
        BY DEF Sound, DiskType, Disk
      <3>3. e.file[d.op[k].file] = d.file[d.op[k].file]
        BY <1>3, <3>1, <3>2
      <3>4. (Owed(e, k) <=> Owed(d, k)) /\ (Bound(e, k) <=> Bound(d, k))
        BY <1>3, <3>1, SameRecords
      <3> QED BY <1>3, <1>5, <3>3, <3>4 DEF Restartable, Able
    <2>2. Pending(e) = Pending(d)
      BY <1>3 DEF Pending
    <2> QED BY <2>1, <2>2 DEF Restartable
  <1> QED BY <1>2, <1>4, <1>5 DEF e

\* Uploads and their removal.
LEMMA UploadKeeps ==
  ASSUME RecordsInv, NEW f \in Files, Upload(f) PROVE RecordsInv' /\ KeepsHistory(disk, disk')
  <1>1. phase = "up" /\ disk.file[f] = "absent" /\ Lives(Kept(disk, f), sched)
    BY DEF Upload
  <1>2. Serves(disk) /\ sched \subseteq Jobs /\ Sound(disk)
    BY <1>1, InService DEF Serves
  <1>3. /\ Sound(Kept(disk, f)) /\ (Calm(disk) => Calm(Kept(disk, f)))
        /\ Kept(disk, f).project = disk.project
    BY <1>1, <1>2, AbsentIs, KeptIs DEF FileWritten, Unreferenced, Unclaimed
  <1>4. Serves(Kept(disk, f))
    BY <1>2, <1>3 DEF Serves
  <1>5. RecordsInv'
    BY <1>1, <1>2, <1>4, LivesKeeps
  <1>6. disk' = Kept(disk, f)
    BY <1>1 DEF Lives
  <1> QED BY <1>3, <1>5, <1>6, SameHistory

\* DELETE /files and the expiry of an upload, journal or not.
LEMMA DeleteFileKeeps ==
  ASSUME RecordsInv, NEW f \in Files, DeleteFile(f) PROVE RecordsInv' /\ KeepsHistory(disk, disk')
  <1> DEFINE e == [disk EXCEPT !.file[f] = "deleted"]
  <1>1. phase = "up" /\ Lives(e, sched) /\ "deleted" \in FileState /\ ~Removes("deleted")
    BY DEF DeleteFile, FileState, Removes
  <1>2. Serves(disk) /\ sched \subseteq Jobs /\ Sound(disk) /\ disk \in Disk
    BY <1>1, InService DEF Serves, Sound, DiskType
  <1>3. FileWritten(disk, f, "deleted", e)
    BY <1>1, <1>2, FileWrite
  <1> HIDE DEF e
  <1>4. Sound(e) /\ e.project = disk.project /\ (Calm(disk) => Calm(e))
    <2>1. Sound(e) /\ (Calm(disk) => Calm(e))
      BY <1>1, <1>2, <1>3, FileChange
    <2> QED BY <1>3, <2>1 DEF FileWritten
  <1>5. Serves(e)
    BY <1>2, <1>4 DEF Serves
  <1>6. RecordsInv'
    BY <1>1, <1>2, <1>5, LivesKeeps
  <1>7. disk' = e
    BY <1>1 DEF Lives
  <1> QED BY <1>4, <1>6, <1>7, SameHistory

\* An admission in service.
LEMMA AddSnapshotKeeps ==
  ASSUME RecordsInv, NEW k \in Keys, NEW f \in Files, AddSnapshot(k, f)
  PROVE  RecordsInv' /\ KeepsHistory(disk, disk')
  <1>1. PICK room \in BOOLEAN : \E o \in AdmitEnds(disk, k, f, NoCommit, room) :
             \/ o.reply = "stopped" /\ Stops(o.disk)
             \/ o.reply \in {"conflict", "error"} /\ Lives(o.disk, sched)
             \/ o.reply \in {"queued", "replayed"} /\ Lives(o.disk, sched \cup Queued(o.disk, o.job))
    BY DEF AddSnapshot
  <1>2. PICK o \in AdmitEnds(disk, k, f, NoCommit, room) :
             \/ o.reply = "stopped" /\ Stops(o.disk)
             \/ o.reply \in {"conflict", "error"} /\ Lives(o.disk, sched)
             \/ o.reply \in {"queued", "replayed"} /\ Lives(o.disk, sched \cup Queued(o.disk, o.job))
    BY <1>1
  <1> DEFINE e == o.disk
  <1>3. phase = "up" /\ k \in OpIds
    BY DEF AddSnapshot, OpIds
  <1>4. Serves(disk) /\ Restarts(disk) /\ sched \subseteq Jobs /\ Sound(disk)
    BY <1>3, InService DEF Serves
  <1>5. Outcome(disk, f, o)
    BY <1>3, <1>4, AdmitIs
  <1>6. Restarts(e) /\ (o.reply # "stopped" => Serves(e)) /\ KeepsHistory(disk, e)
    BY <1>4, <1>5 DEF Outcome, Restarts, Serves, KeepsHistory
  <1>7. disk' = e
    BY <1>2 DEF Stops, Lives, Dies
  <1> HIDE DEF e
  <1>8. ASSUME o.reply = "stopped", Stops(e) PROVE RecordsInv'
    BY <1>3, <1>6, <1>8, StopsKeeps
  <1>9. ASSUME NEW s, s \subseteq Jobs, o.reply # "stopped", Lives(e, s) PROVE RecordsInv'
    BY <1>3, <1>6, <1>9, LivesKeeps
  <1>10. o.reply \in {"queued", "replayed"} => Queued(e, o.job) \subseteq Jobs
    BY <1>5 DEF Outcome, Queued
  <1>11. RecordsInv'
    BY <1>2, <1>4, <1>8, <1>9, <1>10 DEF e
  <1> QED BY <1>6, <1>7, <1>11

\* The upload the CI route removes is one that nothing names.
LEMMA CleanedIs ==
  ASSUME NEW d, NEW f \in Files, Unreferenced(d, f), NEW o, Outcome(d, f, o)
  PROVE  /\ Sound(Cleaned(o, f)) /\ Cleaned(o, f).project = o.disk.project
         /\ Calm(o.disk) => Calm(Cleaned(o, f))
         /\ o.reply = "stopped" => Cleaned(o, f) = o.disk
  <1> DEFINE taken == \/ o.reply = "conflict"
                      \/ o.reply \in {"queued", "replayed"} /\ o.disk.job[o.job].file # f
             e == [o.disk EXCEPT !.file[f] = "discarded"]
  <1>1. Sound(o.disk) /\ o.disk \in Disk
    BY DEF Outcome, Sound, DiskType
  <1>2. CASE ~taken
    BY <1>1, <1>2 DEF Cleaned
  <1>3. CASE taken
    <2>1. Cleaned(o, f) = e /\ o.reply # "stopped"
      BY <1>3 DEF Cleaned
    <2>2. Unreferenced(o.disk, f)
      BY <1>3 DEF Outcome
    <2>3. FileWritten(o.disk, f, "discarded", e) /\ "discarded" \in FileState
      <3>1. "discarded" \in FileState
        BY DEF FileState
      <3> QED BY <1>1, <3>1, FileWrite
    <2> HIDE DEF e
    <2>4. Sound(e) /\ (Calm(o.disk) => Calm(e))
      BY <1>1, <2>2, <2>3, FileChange
    <2>5. e.project = o.disk.project
      BY <2>3 DEF FileWritten
    <2> QED BY <2>1, <2>4, <2>5
  <1> QED BY <1>2, <1>3

\* A CI submission: upload, admission, cleanup.
LEMMA CiSnapshotKeeps ==
  ASSUME RecordsInv, NEW c \in Commits, NEW f \in Files, CiSnapshot(c, f)
  PROVE  RecordsInv' /\ KeepsHistory(disk, disk')
  <1> DEFINE d == Kept(disk, f)
             k == <<c, Digest[f]>>
             Ending(o) == \/ o.reply = "stopped" /\ Stops(Cleaned(o, f))
                          \/ Dies(o.disk)
                          \/ /\ o.reply # "stopped"
                             /\ Lives(Cleaned(o, f),
                                      sched \cup (IF o.reply = "queued" THEN Queued(o.disk, o.job) ELSE {}))
  <1>1. phase = "up" /\ disk.file[f] = "absent" /\ k \in OpIds
    BY DigestAssumption DEF CiSnapshot, OpIds
  <1>2. PICK room \in BOOLEAN : \E o \in AdmitEnds(d, k, f, c, room) : Ending(o)
    BY DEF CiSnapshot
  <1>3. PICK o \in AdmitEnds(d, k, f, c, room) : Ending(o)
    BY <1>2
  <1>4. Serves(disk) /\ Restarts(disk) /\ sched \subseteq Jobs /\ Sound(disk) /\ Unreferenced(disk, f)
    BY <1>1, InService, AbsentIs DEF Serves
  <1>5. /\ Sound(d) /\ (Calm(disk) => Calm(d)) /\ (Restartable(disk) => Restartable(d))
        /\ d.project = disk.project /\ d.op = disk.op
    BY <1>4, KeptIs DEF FileWritten, Unreferenced, Unclaimed
  <1> HIDE DEF d, k
  <1>6. Unreferenced(d, f)
    BY <1>4, <1>5 DEF Unreferenced, Pending
  <1>7. Outcome(d, f, o)
    BY <1>1, <1>5, AdmitIs
  <1> DEFINE e == Cleaned(o, f)
  <1>8. /\ Sound(e) /\ e.project = o.disk.project /\ (Calm(o.disk) => Calm(e))
        /\ o.reply = "stopped" => e = o.disk
    BY <1>6, <1>7, CleanedIs
  <1> HIDE DEF e
  <1>9. /\ Restarts(o.disk) /\ (o.reply # "stopped" => Serves(e))
        /\ o.reply = "stopped" => Restarts(e)
        /\ KeepsHistory(disk, o.disk) /\ KeepsHistory(disk, e)
    BY <1>4, <1>5, <1>7, <1>8 DEF Outcome, Restarts, Serves, KeepsHistory
  <1>10. CASE o.reply = "stopped" /\ Stops(e)
    <2>1. disk' = e
      BY <1>10 DEF Stops, Lives, Dies
    <2>2. RecordsInv'
      BY <1>1, <1>9, <1>10, StopsKeeps
    <2> QED BY <1>9, <2>1, <2>2
  <1>11. CASE Dies(o.disk)
    <2>1. disk' = o.disk
      BY <1>11 DEF Dies
    <2>2. RecordsInv'
      BY <1>9, <1>11, DiesKeeps
    <2> QED BY <1>9, <2>1, <2>2
  <1>12. ASSUME NEW s, s \subseteq Jobs, o.reply # "stopped", Lives(e, s)
         PROVE  RecordsInv' /\ KeepsHistory(disk, disk')
    <2>1. disk' = e
      BY <1>12 DEF Lives
    <2>2. RecordsInv'
      BY <1>1, <1>9, <1>12, LivesKeeps
    <2> QED BY <1>9, <2>1, <2>2
  <1>13. sched \cup (IF o.reply = "queued" THEN Queued(o.disk, o.job) ELSE {}) \subseteq Jobs
    BY <1>4, <1>7 DEF Outcome, Queued
  <1> QED BY <1>3, <1>10, <1>11, <1>12, <1>13 DEF e

\* One analysis of a live process advances, ends or is removed.
LEMMA OneJobKeeps ==
  ASSUME RecordsInv, phase = "up", NEW j \in Jobs, NEW v \in Terminal \cup Inflight \cup {"deleted"},
         disk.job[j].status \in Terminal \cup Inflight,
         v \in Inflight => disk.job[j].status \in Inflight,
         NEW s, s \subseteq Jobs, Lives([disk EXCEPT !.job[j].status = v], s)
  PROVE  RecordsInv' /\ KeepsHistory(disk, disk')
  <1> DEFINE r == [disk.job[j] EXCEPT !.status = v]
             e == [disk EXCEPT !.job[j] = r]
  <1>0. Lives(e, s)
    OBVIOUS
  <1>1. Serves(disk) /\ Sound(disk) /\ disk \in Disk /\ disk.job[j] \in Analysis
    BY InService DEF Serves, Sound, DiskType, Disk
  <1>2. r \in Analysis /\ r.status = v
    BY <1>1 DEF Analysis, Gone
  <1> HIDE DEF r
  <1>3. /\ e \in Disk /\ e.project = disk.project /\ e.file = disk.file /\ e.op = disk.op
        /\ e.deleting = disk.deleting /\ e.doomed = disk.doomed /\ e.traces = disk.traces
        /\ e.job[j] = r /\ \A i \in Jobs \ {j} : e.job[i] = disk.job[i]
    BY <1>1, <1>2, JobWrite
  <1> HIDE DEF e
  <1>4. Wane(disk.job, e.job)
    BY <1>2, <1>3 DEF Wane, Terminal, Inflight, Gone
  <1>5. Sound(e) /\ (Calm(disk) => Calm(e))
    BY <1>1, <1>3, <1>4, JobChange
  <1>6. Serves(e)
    BY <1>1, <1>5 DEF Serves
  <1>7. RecordsInv'
    BY <1>0, <1>6, LivesKeeps
  <1>8. disk' = e
    BY <1>0 DEF Lives
  <1> QED BY <1>3, <1>7, <1>8, SameHistory

\* The retention of results: the intelligence, then the record.
LEMMA ExpireJobKeeps ==
  ASSUME RecordsInv, NEW j \in Jobs, ExpireJob(j) PROVE RecordsInv' /\ KeepsHistory(disk, disk')
  <1> DEFINE r == [disk.job[j] EXCEPT !.status = "deleted"]
             d == [disk EXCEPT !.job[j] = r]
             I == disk.intel \ {j}
             e == [d EXCEPT !.intel = I]
  <1>1. phase = "up" /\ disk.job[j].status \in Terminal
        /\ Lives([disk EXCEPT !.intel = disk.intel \ {j}, !.job[j].status = "deleted"], sched)
    BY DEF ExpireJob
  <1>2. Serves(disk) /\ Sound(disk) /\ disk \in Disk /\ disk.job[j] \in Analysis /\ sched \subseteq Jobs
    BY <1>1, InService DEF Serves, Sound, DiskType, Disk
  <1>3. r \in Analysis /\ r.status = "deleted"
    BY <1>2 DEF Analysis, Gone
  <1>4. [disk EXCEPT !.intel = disk.intel \ {j}, !.job[j].status = "deleted"] = e
    BY <1>2 DEF Disk
  <1> HIDE DEF r
  <1>5. /\ d \in Disk /\ d.project = disk.project /\ d.file = disk.file /\ d.op = disk.op
        /\ d.deleting = disk.deleting /\ d.doomed = disk.doomed /\ d.traces = disk.traces
        /\ d.intel = disk.intel
        /\ d.job[j] = r /\ \A i \in Jobs \ {j} : d.job[i] = disk.job[i]
    BY <1>2, <1>3, JobWrite
  <1> HIDE DEF d
  <1>6. I \subseteq Jobs
    BY <1>2 DEF Disk
  <1> HIDE DEF I
  <1>7. /\ e \in Disk /\ e.project = d.project /\ e.file = d.file /\ e.op = d.op /\ e.job = d.job
        /\ e.deleting = d.deleting /\ e.doomed = d.doomed /\ e.traces = d.traces
    BY <1>5, <1>6 DEF Disk
  <1>8. Lives(e, sched)
    BY <1>1, <1>4
  <1> HIDE DEF e
  <1>9. Wane(disk.job, e.job)
    BY <1>1, <1>3, <1>5, <1>7 DEF Wane, Terminal, Inflight, Gone
  <1>10. Sound(e) /\ (Calm(disk) => Calm(e))
    BY <1>2, <1>5, <1>7, <1>9, JobChange
  <1>11. Serves(e)
    BY <1>2, <1>10 DEF Serves
  <1>12. RecordsInv'
    BY <1>1, <1>2, <1>8, <1>11, LivesKeeps
  <1>13. disk' = e
    BY <1>8 DEF Lives
  <1> QED BY <1>5, <1>7, <1>12, <1>13, SameHistory

\* A step that leaves the records alone, or only annotates them.
LEMMA AsideKeeps ==
  ASSUME RecordsInv, phase = "up", NEW e \in Disk, disk' = e, sched' \subseteq Jobs, refreshing' \subseteq Jobs,
         UNCHANGED <<phase, restarts, writesFail>>,
         e.file = disk.file, e.project = disk.project, e.op = disk.op, e.job = disk.job,
         e.deleting = disk.deleting, e.doomed = disk.doomed, e.traces = disk.traces \/ Visible(disk)
  PROVE  RecordsInv' /\ KeepsHistory(disk, disk')
  <1>1. Serves(disk) /\ Sound(disk)
    BY InService DEF Serves
  <1>2. Sound(e) /\ (Calm(disk) => Calm(e))
    BY <1>1, AsideChange
  <1>3. Calm(e) => Restartable(e)
    BY CalmRestarts
  <1>4. RecordsInv'
    BY <1>1, <1>2, <1>3 DEF RecordsInv, ProcessType, Serves
  <1> QED BY <1>4, SameHistory

\* An advisory lookup starts, or stores its snapshot after any delay.
LEMMA RefreshKeeps ==
  ASSUME RecordsInv, NEW j \in Jobs, StartRefresh(j) \/ EndRefresh(j)
  PROVE  RecordsInv' /\ KeepsHistory(disk, disk')
  <1>1. phase = "up"
    BY DEF StartRefresh, EndRefresh
  <1>2. disk \in Disk /\ sched \subseteq Jobs /\ refreshing \subseteq Jobs
    BY <1>1, InService DEF Serves, Sound, DiskType
  <1>3. CASE StartRefresh(j)
    <2>1. disk' = disk /\ sched' = sched /\ refreshing' \subseteq Jobs /\ UNCHANGED <<phase, restarts, writesFail>>
      BY <1>2, <1>3 DEF StartRefresh
    <2> QED BY <1>1, <1>2, <2>1, AsideKeeps
  <1>4. CASE EndRefresh(j)
    <2> DEFINE I == disk.intel \cup {j}
               e == [disk EXCEPT !.intel = I]
    <2>1. disk' = e /\ sched' = sched /\ refreshing' \subseteq Jobs /\ UNCHANGED <<phase, restarts, writesFail>>
      BY <1>2, <1>4 DEF EndRefresh
    <2>2. I \subseteq Jobs
      BY <1>2 DEF Disk
    <2> HIDE DEF I
    <2>3. /\ e \in Disk /\ e.file = disk.file /\ e.project = disk.project /\ e.op = disk.op /\ e.job = disk.job
          /\ e.deleting = disk.deleting /\ e.doomed = disk.doomed /\ e.traces = disk.traces
      BY <1>2, <2>2 DEF Disk
    <2> HIDE DEF e
    <2> QED BY <1>1, <1>2, <2>1, <2>3, AsideKeeps
  <1> QED BY <1>3, <1>4

\* A decision or a reminder on a visible project.
LEMMA TraceKeeps ==
  ASSUME RecordsInv, NEW t \in Traces, Trace(t) PROVE RecordsInv' /\ KeepsHistory(disk, disk')
  <1> DEFINE T == disk.traces \cup {t}
             e == [disk EXCEPT !.traces = T]
  <1>1. phase = "up" /\ Visible(disk) /\ Lives(e, sched)
    BY DEF Trace
  <1>2. disk \in Disk /\ sched \subseteq Jobs /\ refreshing \subseteq Jobs
    BY <1>1, InService DEF Serves, Sound, DiskType
  <1>3. T \subseteq Traces
    BY <1>2 DEF Disk
  <1> HIDE DEF T
  <1>4. /\ e \in Disk /\ e.file = disk.file /\ e.project = disk.project /\ e.op = disk.op /\ e.job = disk.job
        /\ e.deleting = disk.deleting /\ e.doomed = disk.doomed
    BY <1>2, <1>3 DEF Disk
  <1> HIDE DEF e
  <1>5. disk' = e /\ sched' = sched /\ refreshing' = refreshing /\ UNCHANGED <<phase, restarts, writesFail>>
    BY <1>1 DEF Lives
  <1> QED BY <1>1, <1>2, <1>4, <1>5, AsideKeeps

\* The project and its first analysis, write by write.
LEMMA CreatedIs ==
  ASSUME NEW d, Sound(d), d.project.state = "none", NEW f \in Files, d.file[f] = "kept",
         NEW c \in Commits \cup {NoCommit}, NEW j \in Jobs, NEW n \in 1..3
  PROVE  Sound(Created(d, f, c, j)[n]) /\ Calm(Created(d, f, c, j)[n])
  <1> DEFINE x == [id |-> NoJob, file |-> f, commit |-> c]
             S == {x}
             p == [state |-> "kept", snaps |-> S, current |-> f, latest |-> NoJob]
             q == [p EXCEPT !.latest = j]
             r == [status |-> "queued", file |-> f]
             one == [d EXCEPT !.project = p]
             two == [one EXCEPT !.job[j] = r]
             three == [two EXCEPT !.project = q]
  <1>0. Created(d, f, c, j) = <<one, two, three>>
    BY DEF Created
  <1>1. /\ ~d.deleting /\ Pending(d) = {} /\ \A i \in Jobs : d.job[i].status = "none"
    BY DEF Sound, DeletionSound
  <1>2. x \in Snapshot /\ x.file = f
    BY DEF Snapshot
  <1> HIDE DEF x
  <1>3. /\ p \in Project /\ p.state = "kept" /\ p.snaps = S
        /\ q \in Project /\ q.state = "kept" /\ q.snaps = S
    BY <1>2 DEF Project
  <1>4. /\ IsFiniteSet(S) /\ Cardinality(S) <= MaxSnapshots /\ Identity(S)
        /\ \A s \in S : Retained(d, s.file)
    <2>1. IsFiniteSet(S) /\ Cardinality(S) = 1
      BY FS_Singleton
    <2> QED BY <1>2, <2>1, BoundsAssumption DEF Identity, Retained
  <1> HIDE DEF S, p, q
  <1>5. /\ Sound(one) /\ Visible(one) /\ one.project = p /\ one.file = d.file /\ one.op = d.op
        /\ one.job = d.job /\ one.deleting = d.deleting
    BY <1>1, <1>3, <1>4, ProjectChange
  <1> HIDE DEF one
  <1>6. r \in Analysis
    BY DEF Analysis, Inflight
  <1> HIDE DEF r
  <1>7. /\ two \in Disk /\ two.project = one.project /\ two.file = one.file /\ two.op = one.op
        /\ two.deleting = one.deleting /\ \A i \in Jobs \ {j} : two.job[i] = one.job[i]
    BY <1>5, <1>6, JobWrite DEF Sound, DiskType
  <1> HIDE DEF two
  <1>8. Sound(two) /\ Visible(two)
    BY <1>5, <1>7, JobAdded
  <1>9. Pending(one) = {} /\ Pending(two) = {}
    BY <1>1, <1>5, <1>7 DEF Pending
  <1>10. \A s \in S : Retained(two, s.file)
    BY <1>4, <1>5, <1>7 DEF Retained
  <1>11. /\ Sound(three) /\ three.op = two.op /\ three.job = two.job
    BY <1>3, <1>4, <1>8, <1>9, <1>10, ProjectChange DEF Visible
  <1> HIDE DEF three
  <1>12. Pending(three) = {}
    BY <1>9, <1>11 DEF Pending
  <1>13. SingleActive(one) /\ SingleActive(two) /\ SingleActive(three)
    BY <1>1, <1>5, <1>7, <1>11 DEF SingleActive, Inflight
  <1>14. /\ Sound(one) /\ Calm(one) /\ Sound(two) /\ Calm(two) /\ Sound(three) /\ Calm(three)
    BY <1>5, <1>8, <1>9, <1>11, <1>12, <1>13, IdleIsCalm
  <1> QED BY <1>0, <1>14

\* POST /projects or a Git import, wherever it stops.
LEMMA CreateKeeps ==
  ASSUME RecordsInv, NEW f \in Files, NEW c \in Commits \cup {NoCommit}, NEW j \in Jobs, Create(f, c, j)
  PROVE  RecordsInv' /\ KeepsHistory(disk, disk')
  <1> DEFINE d == Kept(disk, f)
             made == Created(d, f, c, j)
  <1>1. /\ phase = "up" /\ disk.project.state = "none" /\ j \in Jobs
        /\ \/ Lives(made[3], sched \cup {j})
           \/ \E n \in 1..2 : Stops(made[n])
           \/ Lives(made[1], sched)
    BY DEF Create
  <1>2. Serves(disk) /\ Restarts(disk) /\ sched \subseteq Jobs /\ Sound(disk)
    BY <1>1, InService DEF Serves
  <1>3. Unclaimed(disk, f)
    BY <1>1, <1>2 DEF Sound, DeletionSound, Unclaimed
  <1>4. Sound(d) /\ d.project = disk.project /\ d.file[f] = "kept"
    <2>1. Sound(d) /\ FileWritten(disk, f, "kept", d)
      BY <1>2, <1>3, KeptIs
    <2>2. disk.file \in [Files -> FileState]
      BY <1>2 DEF Sound, DiskType, Disk
    <2> QED BY <2>1, <2>2 DEF FileWritten
  <1> HIDE DEF d
  <1>5. \A n \in 1..3 : Sound(made[n]) /\ Calm(made[n])
    BY <1>1, <1>4, CreatedIs
  <1> HIDE DEF made
  <1>6. \A n \in 1..3 : Serves(made[n]) /\ Restarts(made[n])
    BY <1>5, CalmRestarts DEF Serves, Restarts
  <1>7. KeepsHistory(disk, disk')
    BY <1>1 DEF KeepsHistory
  <1>8. ASSUME NEW s, s \subseteq Jobs, NEW n \in 1..3, Lives(made[n], s) PROVE RecordsInv'
    BY <1>1, <1>6, <1>8, LivesKeeps
  <1>9. ASSUME NEW n \in 1..2, Stops(made[n]) PROVE RecordsInv'
    BY <1>1, <1>6, <1>9, StopsKeeps
  <1> QED BY <1>1, <1>2, <1>7, <1>8, <1>9

\* A repeated analysis: the journal it does not look at cannot be completed
\* after it, since the latest analysis is another one.
LEMMA LaunchKeeps ==
  ASSUME RecordsInv, NEW j \in Jobs, Launch(j) PROVE RecordsInv' /\ KeepsHistory(disk, disk')
  <1> DEFINE r == [status |-> "queued", file |-> disk.project.current]
             one == [disk EXCEPT !.job[j] = r]
             p == [one.project EXCEPT !.latest = j]
             two == [one EXCEPT !.project = p]
  <1>1. /\ phase = "up" /\ Visible(disk) /\ j \in Unused(disk) /\ ~HasActive(disk)
        /\ Lives(two, sched \cup {j}) \/ Stops(one)
    BY DEF Launch, Launched
  <1>2. /\ Serves(disk) /\ Restarts(disk) /\ sched \subseteq Jobs /\ Sound(disk) /\ disk \in Disk
        /\ disk.project \in Project
    BY <1>1, InService DEF Serves, Sound, DiskType, Disk
  <1>3. disk.job[j].status = "none" /\ \A k \in OpIds : disk.op[k].job # j
    BY <1>1 DEF Unused
  <1>4. r \in Analysis
    BY <1>2 DEF Analysis, Inflight, Project
  <1> HIDE DEF r
  <1>5. /\ one \in Disk /\ one.project = disk.project /\ one.file = disk.file /\ one.op = disk.op
        /\ one.deleting = disk.deleting /\ \A i \in Jobs \ {j} : one.job[i] = disk.job[i]
    BY <1>2, <1>4, JobWrite
  <1> HIDE DEF one
  <1>6. Sound(one) /\ Visible(one)
    BY <1>1, <1>2, <1>5, JobAdded
  <1>7. /\ p \in Project /\ p.state = "kept" /\ p.snaps = disk.project.snaps /\ p.latest = j
        /\ one.project.snaps = p.snaps
    BY <1>1, <1>2, <1>5 DEF Project, Visible
  <1> HIDE DEF p
  <1>8. /\ IsFiniteSet(p.snaps) /\ Cardinality(p.snaps) <= MaxSnapshots
        /\ Identity(p.snaps) /\ \A s \in p.snaps : Retained(one, s.file)
    BY <1>6, <1>7 DEF Sound, DiskType, SnapshotsSound
  <1>9. /\ Sound(two) /\ two.project = p /\ two.file = one.file /\ two.op = one.op /\ two.job = one.job
    BY <1>6, <1>7, <1>8, ProjectChange DEF Visible
  <1> HIDE DEF two
  <1>10. \A k \in Pending(disk) : k \in OpIds /\ disk.op[k].job \in Jobs \ {j}
    BY <1>2, <1>3 DEF Pending, Sound, PendingSound, AdmissionOpen
  <1>11. Pending(one) = Pending(disk) /\ Pending(two) = Pending(disk)
    BY <1>5, <1>9 DEF Pending
  <1>12. \A k \in Pending(disk) : Owed(disk, k) => Owed(one, k) /\ Owed(two, k)
    BY <1>5, <1>9, <1>10 DEF Owed
  <1>13. Calm(disk) => Restartable(one)
    BY <1>11, <1>12 DEF Calm, Settled, Restartable
  <1>14. Calm(disk) => Calm(two)
    <2>1. SingleActive(two)
      BY <1>1, <1>5, <1>9 DEF SingleActive, HasActive
    <2>2. ASSUME Calm(disk), NEW k \in Pending(disk) PROVE ~Able(two, k)
      <3>1. (Recorded(two, k) <=> Recorded(disk, k)) /\ (Able(disk, k) => Recorded(disk, k))
        BY <1>5, <1>7, <1>9, <2>2 DEF Recorded, Calm, Settled
      <3>2. CASE Recorded(two, k)
        BY <1>5, <1>7, <1>9, <1>10, <3>2 DEF Able, Bound
      <3>3. CASE ~Recorded(two, k)
        BY <1>5, <1>7, <1>9, <3>1, <3>3 DEF Able, Bound
      <3> QED BY <3>2, <3>3
    <2> QED BY <1>11, <1>12, <2>1, <2>2 DEF Calm, Settled
  <1>15. Restarts(one) /\ Serves(two)
    BY <1>2, <1>6, <1>9, <1>13, <1>14 DEF Serves, Restarts
  <1>16. CASE Lives(two, sched \cup {j})
    <2>1. RecordsInv'
      BY <1>1, <1>2, <1>15, <1>16, LivesKeeps
    <2>2. disk' = two
      BY <1>16 DEF Lives
    <2> QED BY <1>7, <1>9, <2>1, <2>2, SameHistory
  <1>17. CASE Stops(one)
    <2>1. RecordsInv'
      BY <1>1, <1>15, <1>17, StopsKeeps
    <2>2. disk' = one
      BY <1>17 DEF Stops, Lives, Dies
    <2> QED BY <1>5, <2>1, <2>2, SameHistory
  <1> QED BY <1>1, <1>16, <1>17

-----------------------------------------------------------------------------
(* Deletion.                                                               *)

\* A write of a deletion under its marker.
LEMMA DeletionWrite ==
  ASSUME NEW d, Sound(d), NEW e \in Disk, e.deleting, e.file = d.file,
         e.project = d.project \/ e.project.snaps = {}, e.project.state # "none",
         ~HasActive(e), Pending(e) = {}, Present(e) \subseteq e.doomed,
         \A k \in OpIds : e.op[k] = d.op[k] \/ e.op[k] = NoOperation
  PROVE  Sound(e) /\ Calm(e)
  <1>1. IsFiniteSet({}) /\ Cardinality({}) = 0
    BY FS_EmptySet
  <1>2. IsFiniteSet(e.project.snaps) /\ Cardinality(e.project.snaps) <= MaxSnapshots
    <2>1. CASE e.project = d.project
      BY <2>1 DEF Sound, DiskType
    <2>2. CASE e.project.snaps = {}
      BY <1>1, <2>2, BoundsAssumption
    <2> QED BY <2>1, <2>2
  <1>3. \A k \in OpIds : e.op[k].status # "none" => e.op[k].job \in Jobs
    BY DEF Sound, DiskType, NoOperation
  <1>4. PendingSound(e) /\ SnapshotsSound(e)
    BY DEF Sound, PendingSound, SnapshotsSound, Identity, Retained
  <1>5. DeletionSound(e)
    BY DEF DeletionSound
  <1>6. SingleActive(e)
    BY DEF SingleActive, HasActive
  <1> QED BY <1>2, <1>3, <1>4, <1>5, <1>6, IdleIsCalm DEF Sound, DiskType

\* The marker is written over a quiet project.
LEMMA PreparedIs ==
  ASSUME NEW d, Sound(d), MayPrepare(d)
  PROVE  Sound(Prepared(d)) /\ Prepared(d).deleting /\ Prepared(d).project = d.project
  <1> DEFINE D == Present(d)
             e == [d EXCEPT !.deleting = TRUE, !.doomed = D]
  <1>1. Prepared(d) = e
    BY DEF Prepared
  <1>2. D \subseteq Jobs /\ d \in Disk
    BY DEF Present, Sound, DiskType
  <1> HIDE DEF D
  <1>3. /\ e \in Disk /\ e.deleting /\ e.file = d.file /\ e.project = d.project /\ e.op = d.op
        /\ e.job = d.job /\ e.doomed = D
    BY <1>2 DEF Disk
  <1> HIDE DEF e
  <1>4. ~HasActive(e) /\ Pending(e) = {} /\ Present(e) \subseteq e.doomed /\ e.project.state # "none"
    BY <1>3, SameRecords DEF MayPrepare, D
  <1>5. Sound(e)
    BY <1>3, <1>4, DeletionWrite
  <1> QED BY <1>1, <1>3, <1>5

\* The analyses of J are removed, with some of the intelligence.
PurgedTo(d, J, e) ==
    /\ e \in Disk /\ e.file = d.file /\ e.project = d.project /\ e.op = d.op
    /\ e.deleting = d.deleting /\ e.doomed = d.doomed /\ e.traces = d.traces
    /\ \A j \in Jobs : e.job[j].status = IF j \in J THEN "deleted" ELSE d.job[j].status

\* Removing analyses touches their records and their intelligence only.
LEMMA PurgedIs ==
  ASSUME NEW d \in Disk, NEW J, NEW i
  PROVE  PurgedTo(d, J, Purged(d, J)) /\ PurgedTo(d, J, [Purged(d, J) EXCEPT !.intel = @ \ {i}])
  <1> DEFINE K == [j \in Jobs |-> IF j \in J THEN [d.job[j] EXCEPT !.status = "deleted"] ELSE d.job[j]]
             L == d.intel \ J
             c == [d EXCEPT !.intel = L, !.job = K]
             M == c.intel \ {i}
             e == [c EXCEPT !.intel = M]
  <1>1. Purged(d, J) = c /\ [Purged(d, J) EXCEPT !.intel = @ \ {i}] = e
    BY DEF Purged
  <1>2. \A j \in Jobs : /\ [d.job[j] EXCEPT !.status = "deleted"] \in Analysis
                        /\ [d.job[j] EXCEPT !.status = "deleted"].status = "deleted"
                        /\ d.job[j] \in Analysis
    BY DEF Disk, Analysis, Gone
  <1>3. K \in [Jobs -> Analysis] /\ \A j \in Jobs : K[j].status = IF j \in J THEN "deleted" ELSE d.job[j].status
    BY <1>2
  <1>4. L \subseteq Jobs
    BY DEF Disk
  <1> HIDE DEF K, L
  <1>5. /\ c \in Disk /\ c.file = d.file /\ c.project = d.project /\ c.op = d.op /\ c.job = K
        /\ c.deleting = d.deleting /\ c.doomed = d.doomed /\ c.traces = d.traces
    BY <1>3, <1>4 DEF Disk
  <1> HIDE DEF c
  <1>6. M \subseteq Jobs
    BY <1>5 DEF Disk
  <1> HIDE DEF M
  <1>7. /\ e \in Disk /\ e.file = d.file /\ e.project = d.project /\ e.op = d.op /\ e.job = K
        /\ e.deleting = d.deleting /\ e.doomed = d.doomed /\ e.traces = d.traces
    BY <1>5, <1>6 DEF Disk
  <1> HIDE DEF e
  <1>8. PurgedTo(d, J, c) /\ PurgedTo(d, J, e)
    BY <1>3, <1>5, <1>7 DEF PurgedTo
  <1> QED BY <1>1, <1>8

\* What a deletion may leave before its last write.
Deletes(d, e) ==
    /\ Sound(e) /\ Calm(e) /\ e.deleting /\ e.doomed = d.doomed /\ KeepsHistory(d, e)

\* The analyses go first.
LEMMA PurgeDeletes ==
  ASSUME NEW d, Sound(d), d.deleting, NEW J, NEW e, PurgedTo(d, J, e)
  PROVE  Deletes(d, e) /\ Present(e) \subseteq d.doomed \ J
  <1>1. ~HasActive(d) /\ Pending(d) = {} /\ Present(d) \subseteq d.doomed /\ d.project.state # "none"
    BY DEF Sound, DeletionSound
  <1>2. /\ e \in Disk /\ e.file = d.file /\ e.project = d.project /\ e.op = d.op
        /\ e.deleting = d.deleting /\ e.doomed = d.doomed
        /\ \A j \in Jobs : e.job[j].status = IF j \in J THEN "deleted" ELSE d.job[j].status
    BY DEF PurgedTo
  <1>3. ~HasActive(e) /\ Pending(e) = {}
    BY <1>1, <1>2 DEF HasActive, Pending, Inflight
  <1>4. Present(e) \subseteq d.doomed \ J
    BY <1>1, <1>2 DEF Present, Gone
  <1>5. Sound(e) /\ Calm(e)
    BY <1>1, <1>2, <1>3, <1>4, DeletionWrite
  <1> QED BY <1>2, <1>4, <1>5, SameHistory DEF Deletes

\* Every stop of the cascade leaves the marker, its end leaves nothing.
LEMMA CascadeIs ==
  ASSUME NEW d, Sound(d), d.deleting
  PROVE  /\ \A n \in 1..5 : Deletes(d, Cascade(d)[n])
         /\ Sound(Cascade(d)[6]) /\ Calm(Cascade(d)[6]) /\ KeepsHistory(d, Cascade(d)[6])
  <1> DEFINE one == Purged(d, d.doomed)
             T == one.traces \ {"decisions"}
             two == [one EXCEPT !.traces = T]
             W == JournalsRemoved(d)
             three == [two EXCEPT !.op = W]
             p == [state |-> "gone", snaps |-> {}, current |-> NoFile, latest |-> NoJob]
             four == [three EXCEPT !.project = p]
             U == four.traces \ {"inbox"}
             five == [four EXCEPT !.traces = U]
             six == [five EXCEPT !.deleting = FALSE, !.doomed = {}]
  <1>0. Cascade(d) = <<one, two, three, four, five, six>>
    BY DEF Cascade
  <1>1. PurgedTo(d, d.doomed, one) /\ d.project.state # "none"
    BY PurgedIs DEF Sound, DiskType, DeletionSound
  <1>2. Deletes(d, one) /\ Present(one) = {}
    BY <1>1, PurgeDeletes
  <1>3. one \in Disk /\ one.project = d.project /\ one.traces \subseteq Traces
    BY <1>1 DEF PurgedTo, Disk
  <1>4. /\ Sound(one) /\ ~HasActive(one) /\ Pending(one) = {} /\ one.deleting /\ one.doomed = d.doomed
    BY <1>2 DEF Deletes, Sound, DeletionSound
  <1> HIDE DEF one
  <1>5. ASSUME NEW e \in Disk, e.file = one.file, e.job = one.job, e.deleting, e.doomed = d.doomed,
               e.op = one.op \/ e.op = W,
               e.project = one.project \/ e.project = p
        PROVE  Deletes(d, e) /\ Present(e) = {}
    <2>1. ~HasActive(e) /\ Present(e) = {}
      BY <1>2, <1>4, <1>5 DEF HasActive, Present
    <2>2. \A k \in OpIds : e.op[k] = one.op[k] \/ e.op[k] = NoOperation
      BY <1>5 DEF JournalsRemoved
    <2>3. Pending(e) = {}
      BY <1>4, <2>2 DEF Pending, NoOperation
    <2>4. e.project = one.project \/ e.project.snaps = {}
      BY <1>5
    <2>5. e.project.state # "none"
      BY <1>1, <1>3, <1>5
    <2>6. Sound(e) /\ Calm(e)
      BY <1>4, <1>5, <2>1, <2>2, <2>3, <2>4, <2>5, DeletionWrite
    <2>7. KeepsHistory(d, e)
      BY <1>3, <1>5, GrowsIs DEF KeepsHistory
    <2> QED BY <1>5, <2>1, <2>6, <2>7 DEF Deletes
  <1>6. T \subseteq Traces /\ "decisions" \notin T
    BY <1>3
  <1> HIDE DEF T
  <1>7. /\ two \in Disk /\ two.file = one.file /\ two.job = one.job /\ two.deleting = one.deleting
        /\ two.doomed = one.doomed /\ two.op = one.op /\ two.project = one.project /\ two.traces = T
    BY <1>3, <1>6 DEF Disk
  <1> HIDE DEF two
  <1>8. W \in [OpIds -> Operation] /\ \A k \in OpIds : W[k] = NoOperation
    BY DEF JournalsRemoved, NoOperation, Operation
  <1> HIDE DEF W
  <1>9. /\ three \in Disk /\ three.file = two.file /\ three.job = two.job /\ three.deleting = two.deleting
        /\ three.doomed = two.doomed /\ three.op = W /\ three.project = two.project /\ three.traces = T
    BY <1>7, <1>8 DEF Disk
  <1> HIDE DEF three
  <1>10. p \in Project /\ p.snaps = {} /\ p.state = "gone"
    BY DEF Project
  <1> HIDE DEF p
  <1>11. /\ four \in Disk /\ four.file = three.file /\ four.job = three.job /\ four.deleting = three.deleting
         /\ four.doomed = three.doomed /\ four.op = W /\ four.project = p /\ four.traces = T
    BY <1>9, <1>10 DEF Disk
  <1> HIDE DEF four
  <1>12. U = {} /\ U \subseteq Traces
    BY <1>6, <1>11, BoundsAssumption
  <1> HIDE DEF U
  <1>13. /\ five \in Disk /\ five.file = four.file /\ five.job = four.job /\ five.deleting = four.deleting
         /\ five.doomed = four.doomed /\ five.op = W /\ five.project = p /\ five.traces = {}
    BY <1>11, <1>12 DEF Disk
  <1> HIDE DEF five
  <1>14. /\ six \in Disk /\ six.file = five.file /\ six.job = five.job /\ ~six.deleting
         /\ six.op = W /\ six.project = p /\ six.traces = {}
    BY <1>13 DEF Disk
  <1> HIDE DEF six
  <1>15. /\ Deletes(d, two) /\ Deletes(d, three) /\ Deletes(d, four) /\ Deletes(d, five) /\ Present(five) = {}
    <2>1. Deletes(d, two)
      BY <1>4, <1>5, <1>7
    <2>2. Deletes(d, three)
      BY <1>4, <1>5, <1>7, <1>9
    <2>3. Deletes(d, four)
      BY <1>4, <1>5, <1>7, <1>9, <1>11
    <2>4. Deletes(d, five) /\ Present(five) = {}
      BY <1>4, <1>5, <1>7, <1>9, <1>11, <1>13
    <2> QED BY <2>1, <2>2, <2>3, <2>4
  <1>16. Sound(six) /\ Calm(six)
    <2>1. Sound(five) /\ Calm(five)
      BY <1>15 DEF Deletes
    <2>2. Present(six) = {}
      BY <1>14, <1>15 DEF Present
    <2>3. Pending(six) = {} /\ SingleActive(six)
      BY <1>8, <1>14, <2>1 DEF Pending, NoOperation, SingleActive, Calm
    <2>4. DeletionSound(six)
      BY <1>8, <1>10, <1>14, <2>2 DEF DeletionSound
    <2>5. DiskType(six)
      BY <1>13, <1>14, <2>1 DEF Sound, DiskType
    <2>6. PendingSound(six) /\ SnapshotsSound(six)
      BY <1>10, <1>14, <2>3 DEF PendingSound, SnapshotsSound, Identity
    <2> QED BY <2>3, <2>4, <2>5, <2>6, IdleIsCalm DEF Sound
  <1>17. KeepsHistory(d, six)
    BY <1>10, <1>14 DEF KeepsHistory
  <1> QED BY <1>0, <1>2, <1>15, <1>16, <1>17

\* Wherever a deletion stops, its marker holds.
LEMMA PartialIs ==
  ASSUME NEW d, Sound(d), d.deleting, NEW e \in Partial(d) PROVE Deletes(d, e)
  <1>1. \/ e = d
        \/ \E J \in SUBSET d.doomed, j \in d.doomed : e = [Purged(d, J) EXCEPT !.intel = @ \ {j}]
        \/ \E n \in 1..5 : e = Cascade(d)[n]
    BY DEF Partial
  <1>2. CASE e = d
    <2>1. ~HasActive(d) /\ Pending(d) = {}
      BY DEF Sound, DeletionSound
    <2>2. Calm(d)
      BY <2>1, IdleIsCalm DEF SingleActive, HasActive
    <2> QED BY <1>2, <2>2, SameHistory DEF Deletes
  <1>3. ASSUME NEW J, NEW j, e = [Purged(d, J) EXCEPT !.intel = @ \ {j}] PROVE Deletes(d, e)
    <2>1. PurgedTo(d, J, e)
      BY <1>3, PurgedIs DEF Sound, DiskType
    <2> QED BY <2>1, PurgeDeletes
  <1>4. CASE \E n \in 1..5 : e = Cascade(d)[n]
    BY <1>4, CascadeIs
  <1> QED BY <1>1, <1>2, <1>3, <1>4

\* DELETE /projects/{id} prepares a cascade or resumes one, wherever it stops.
LEMMA DeleteProjectKeeps ==
  ASSUME RecordsInv, DeleteProject PROVE RecordsInv' /\ KeepsHistory(disk, disk')
  <1> DEFINE d == IF disk.deleting THEN disk ELSE Prepared(disk)
  <1>1. /\ phase = "up" /\ (disk.deleting \/ MayPrepare(disk))
        /\ Lives(Cascade(d)[6], sched) \/ \E e \in Partial(d) : Stops(e)
    BY DEF DeleteProject
  <1>2. Sound(disk) /\ sched \subseteq Jobs
    BY <1>1, InService DEF Serves
  <1>3. Sound(d) /\ d.deleting /\ d.project = disk.project
    BY <1>1, <1>2, PreparedIs
  <1> HIDE DEF d
  <1>4. ASSUME NEW e, KeepsHistory(d, e) PROVE KeepsHistory(disk, e)
    BY <1>3, <1>4 DEF KeepsHistory
  <1>5. CASE Lives(Cascade(d)[6], sched)
    <2> DEFINE e == Cascade(d)[6]
    <2>1. Sound(e) /\ Calm(e) /\ KeepsHistory(d, e)
      BY <1>3, CascadeIs
    <2>2. Lives(e, sched)
      BY <1>5
    <2> HIDE DEF e
    <2>3. Serves(e)
      BY <2>1 DEF Serves
    <2>4. RecordsInv'
      BY <1>1, <1>2, <2>2, <2>3, LivesKeeps
    <2>5. disk' = e
      BY <2>2 DEF Lives
    <2> QED BY <1>4, <2>1, <2>4, <2>5
  <1>6. ASSUME NEW e \in Partial(d), Stops(e) PROVE RecordsInv' /\ KeepsHistory(disk, disk')
    <2>1. Sound(e) /\ Calm(e) /\ KeepsHistory(d, e)
      BY <1>3, PartialIs DEF Deletes
    <2>2. Restarts(e)
      BY <2>1, CalmRestarts DEF Restarts
    <2>3. RecordsInv'
      BY <1>1, <1>6, <2>2, StopsKeeps
    <2>4. disk' = e
      BY <1>6 DEF Stops, Lives, Dies
    <2> QED BY <1>4, <2>1, <2>3, <2>4
  <1> QED BY <1>1, <1>5, <1>6

-----------------------------------------------------------------------------
(* Startup.                                                                *)

\* A phase of the startup.
LEMMA BootsKeeps ==
  ASSUME RecordsInv, NEW d, Restarts(d), NEW next \in {"admissions", "jobs"},
         ~writesFail /\ next = "jobs" => Settled(d), Boots(d, next)
  PROVE  RecordsInv'
  BY DEF RecordsInv, ProcessType, Restarts, Boots

\* Startup resumes the cascade a marker names, or dies in it again.
LEMMA BootDeletionsKeeps ==
  ASSUME RecordsInv, BootDeletions PROVE RecordsInv' /\ KeepsHistory(disk, disk')
  <1>1. Sound(disk) /\ Restarts(disk)
    BY DEF RecordsInv, Restarts
  <1>2. ASSUME NEW e, Restarts(e), KeepsHistory(disk, e), Boots(e, "admissions") \/ Dies(e)
        PROVE  RecordsInv' /\ KeepsHistory(disk, disk')
    <2>1. CASE Boots(e, "admissions")
      <3>1. RecordsInv'
        BY <1>2, <2>1, BootsKeeps
      <3>2. disk' = e
        BY <2>1 DEF Boots
      <3> QED BY <1>2, <3>1, <3>2
    <2>2. CASE Dies(e)
      <3>1. RecordsInv'
        BY <1>2, <2>2, DiesKeeps
      <3>2. disk' = e
        BY <2>2 DEF Dies
      <3> QED BY <1>2, <3>1, <3>2
    <2> QED BY <1>2, <2>1, <2>2
  <1>3. CASE ~disk.deleting
    <2>1. Boots(disk, "admissions") /\ KeepsHistory(disk, disk)
      BY <1>3, SameHistory DEF BootDeletions
    <2> QED BY <1>1, <1>2, <2>1
  <1>4. CASE disk.deleting
    <2>1. ASSUME NEW e, Sound(e), Calm(e) PROVE Restarts(e)
      BY <2>1, CalmRestarts DEF Restarts
    <2>2. \/ Boots(Cascade(disk)[6], "admissions")
          \/ \E e \in Partial(disk) : Boots(e, "admissions") \/ Dies(e)
      BY <1>4 DEF BootDeletions
    <2>3. Restarts(Cascade(disk)[6]) /\ KeepsHistory(disk, Cascade(disk)[6])
      BY <1>1, <1>4, <2>1, CascadeIs
    <2>4. \A e \in Partial(disk) : Restarts(e) /\ KeepsHistory(disk, e)
      BY <1>1, <1>4, <2>1, PartialIs DEF Deletes
    <2> QED BY <1>2, <2>2, <2>3, <2>4
  <1> QED BY <1>3, <1>4

\* Startup completes the interrupted admission, or defers it for lack of room.
LEMMA BootAdmissionsKeeps ==
  ASSUME RecordsInv, BootAdmissions PROVE RecordsInv' /\ KeepsHistory(disk, disk')
  <1>1. Sound(disk) /\ Restarts(disk)
    BY DEF RecordsInv, Restarts
  <1>2. CASE ~(Visible(disk) /\ Pending(disk) # {})
    <2>1. Boots(disk, "jobs")
      BY <1>2 DEF BootAdmissions
    <2>2. Pending(disk) = {}
      BY <1>1, <1>2, PendingVisible
    <2>3. Settled(disk)
      BY <2>2, IdleIsCalm
    <2>4. RecordsInv'
      BY <1>1, <2>1, <2>3, BootsKeeps
    <2>5. disk' = disk
      BY <2>1 DEF Boots
    <2> QED BY <2>4, <2>5, SameHistory
  <1>3. CASE Visible(disk) /\ Pending(disk) # {}
    <2>1. PICK k \in Pending(disk), room \in BOOLEAN : \E o \in RecoverEnds(disk, k, room) :
              \/ Boots(o.disk, "jobs") /\ (o.reply = "stopped" => writesFail)
              \/ Dies(o.disk)
      BY <1>3 DEF BootAdmissions
    <2>2. PICK o \in RecoverEnds(disk, k, room) :
              \/ Boots(o.disk, "jobs") /\ (o.reply = "stopped" => writesFail)
              \/ Dies(o.disk)
      BY <2>1
    <2> DEFINE e == o.disk
               f == disk.op[k].file
    <2>3. f \in Files
      BY <1>1 DEF Sound, PendingSound, AdmissionOpen
    <2>4. Outcome(disk, f, o) /\ (Restartable(disk) /\ o.reply # "stopped" => Settled(e))
      <3> HIDE DEF f
      <3> QED BY <1>1, <2>3, RecoverEndsIs
    <2>5. Restarts(e) /\ KeepsHistory(disk, e)
      BY <1>1, <2>4 DEF Outcome, Restarts, KeepsHistory
    <2>6. CASE Boots(e, "jobs") /\ (o.reply = "stopped" => writesFail)
      <3>1. ~writesFail => Settled(e)
        BY <1>1, <2>4, <2>6 DEF Restarts
      <3> HIDE DEF e
      <3>2. RecordsInv'
        BY <2>5, <2>6, <3>1, BootsKeeps
      <3>3. disk' = e
        BY <2>6 DEF Boots
      <3> QED BY <2>5, <3>2, <3>3
    <2>7. CASE Dies(e)
      <3> HIDE DEF e
      <3>1. RecordsInv'
        BY <2>5, <2>7, DiesKeeps
      <3>2. disk' = e
        BY <2>7 DEF Dies
      <3> QED BY <2>5, <3>1, <3>2
    <2> QED BY <2>2, <2>6, <2>7
  <1> QED BY <1>2, <1>3

\* The queue resumes the latest analysis and no other one, and an admission that
\* waits for room is not the latest one's.
LEMMA BootJobsKeeps ==
  ASSUME RecordsInv, BootJobs PROVE RecordsInv' /\ KeepsHistory(disk, disk')
  <1> DEFINE K == [j \in Jobs |-> IF disk.job[j].status \in Inflight /\ ~Resumable(disk, j)
                                  THEN [disk.job[j] EXCEPT !.status = "failed"] ELSE disk.job[j]]
             e == [disk EXCEPT !.job = K]
  <1>1. /\ phase = "jobs" /\ disk' = e /\ sched' \subseteq Jobs /\ phase' = "up"
        /\ UNCHANGED <<refreshing, restarts, writesFail>>
    BY DEF BootJobs
  <1>2. Sound(disk) /\ disk \in Disk /\ (~writesFail => Settled(disk))
    BY <1>1 DEF RecordsInv, Sound, DiskType
  <1>3. \A j \in Jobs : /\ [disk.job[j] EXCEPT !.status = "failed"] \in Analysis
                        /\ [disk.job[j] EXCEPT !.status = "failed"].status = "failed"
                        /\ disk.job[j] \in Analysis
    BY <1>2 DEF Disk, Analysis, Terminal
  <1>4. /\ K \in [Jobs -> Analysis]
        /\ \A j \in Jobs : K[j].status = IF disk.job[j].status \in Inflight /\ ~Resumable(disk, j)
                                         THEN "failed" ELSE disk.job[j].status
    BY <1>3
  <1> HIDE DEF K
  <1>5. /\ e \in Disk /\ e.file = disk.file /\ e.project = disk.project /\ e.op = disk.op /\ e.job = K
        /\ e.deleting = disk.deleting /\ e.doomed = disk.doomed /\ e.traces = disk.traces
    BY <1>2, <1>4 DEF Disk
  <1> HIDE DEF e
  <1>6. Wane(disk.job, e.job)
    BY <1>4, <1>5 DEF Wane, Inflight, Gone
  <1>7. Sound(e) /\ (Settled(disk) => Settled(e))
    BY <1>2, <1>5, <1>6, JobChange
  <1>8. \A j \in Jobs : e.job[j].status \in Inflight =>
            e.project.latest = j /\ disk.job[j].status = "queued"
    BY <1>4, <1>5 DEF Resumable, Inflight
  <1>9. SingleActive(e)
    BY <1>8 DEF SingleActive
  <1>10. ASSUME Settled(disk) PROVE Calm(e)
    <2>1. Settled(e)
      BY <1>7, <1>10
    <2>2. ASSUME NEW k \in Pending(e), Able(e, k), HasActive(e) PROVE FALSE
      <3>1. PICK j \in Jobs : e.job[j].status \in Inflight
        BY <2>2 DEF HasActive
      <3>2. Recorded(e, k) /\ Owed(e, k)
        BY <2>1, <2>2 DEF Settled
      <3>3. e.project.latest = e.op[k].job
        BY <2>2, <3>2 DEF Able, Bound
      <3> QED BY <1>8, <3>1, <3>2, <3>3 DEF Owed, Inflight, Gone
    <2> QED BY <1>9, <2>1, <2>2 DEF Calm
  <1>11. Calm(e) => Restartable(e)
    BY CalmRestarts
  <1>12. RecordsInv'
    BY <1>1, <1>2, <1>7, <1>10, <1>11 DEF RecordsInv, ProcessType
  <1> QED BY <1>1, <1>5, <1>12, SameHistory

\* A crash between two requests.
LEMMA CrashKeeps ==
  ASSUME RecordsInv, Crash PROVE RecordsInv' /\ KeepsHistory(disk, disk')
  <1>1. Restarts(disk) /\ Dies(disk)
    BY DEF Crash, RecordsInv, Restarts
  <1>2. RecordsInv'
    BY <1>1, DiesKeeps
  <1>3. disk' = disk
    BY <1>1 DEF Dies
  <1> QED BY <1>2, <1>3, SameHistory

-----------------------------------------------------------------------------
(* The theorems.                                                           *)

\* No file yet, no project, nothing to do.
LEMMA InitSound == Init => RecordsInv
  <1> SUFFICES ASSUME Init PROVE RecordsInv
    OBVIOUS
  <1>1. /\ disk.project.state = "none" /\ disk.project.snaps = {} /\ ~disk.deleting
        /\ \A k \in OpIds : disk.op[k].status = "none"
        /\ \A j \in Jobs : disk.job[j].status = "none"
    BY DEF Init, NoOperation
  <1>2. disk \in Disk
    <2>1. [f \in Files |-> "absent"] \in [Files -> FileState]
      BY DEF FileState
    <2>2. [state |-> "none", snaps |-> {}, current |-> NoFile, latest |-> NoJob] \in Project
      BY DEF Project
    <2>3. [k \in OpIds |-> NoOperation] \in [OpIds -> Operation]
      BY DEF Operation, NoOperation
    <2>4. [j \in Jobs |-> [status |-> "none", file |-> NoFile]] \in [Jobs -> Analysis]
      BY DEF Analysis, Gone
    <2> QED BY <2>1, <2>2, <2>3, <2>4 DEF Init, Disk
  <1>3. IsFiniteSet(disk.project.snaps) /\ Cardinality(disk.project.snaps) <= MaxSnapshots
    BY <1>1, FS_EmptySet, BoundsAssumption
  <1>4. Pending(disk) = {} /\ SingleActive(disk)
    BY <1>1 DEF Pending, SingleActive, Inflight
  <1>5. Sound(disk)
    BY <1>1, <1>2, <1>3, <1>4
       DEF Sound, DiskType, PendingSound, SnapshotsSound, Identity, DeletionSound
  <1>6. Restartable(disk) /\ Settled(disk) /\ Calm(disk)
    BY <1>4, IdleIsCalm
  <1>7. ProcessType
    BY BoundsAssumption DEF Init, ProcessType
  <1> QED BY <1>5, <1>6, <1>7 DEF RecordsInv

\* Every step keeps the invariant and the history.
LEMMA StepKeeps == RecordsInv /\ [Next]_vars => RecordsInv' /\ KeepsHistory(disk, disk')
  <1> SUFFICES ASSUME RecordsInv, [Next]_vars PROVE RecordsInv' /\ KeepsHistory(disk, disk')
    OBVIOUS
  <1>1. CASE UNCHANGED vars
    <2>1. RecordsInv'
      BY <1>1 DEF vars, RecordsInv, ProcessType
    <2>2. disk' = disk
      BY <1>1 DEF vars
    <2> QED BY <2>1, <2>2, SameHistory
  <1>2. ASSUME NEW f \in Files, Upload(f) \/ DeleteFile(f) PROVE RecordsInv' /\ KeepsHistory(disk, disk')
    BY <1>2, UploadKeeps, DeleteFileKeeps
  <1>3. ASSUME NEW j \in Jobs, Start(j) \/ Cancel(j) \/ DeleteJob(j) \/ ExpireJob(j)
        PROVE  RecordsInv' /\ KeepsHistory(disk, disk')
    <2>1. sched \subseteq Jobs
      BY DEF RecordsInv, ProcessType
    <2>2. CASE Start(j)
      <3>1. /\ phase = "up" /\ disk.job[j].status \in Inflight
            /\ Lives([disk EXCEPT !.job[j].status = "running"], sched) /\ "running" \in Inflight
        BY <2>2 DEF Start, Inflight
      <3> QED BY <2>1, <3>1, OneJobKeeps
    <2>3. CASE Cancel(j)
      <3>1. /\ phase = "up" /\ disk.job[j].status \in Inflight
            /\ Lives([disk EXCEPT !.job[j].status = "failed"], sched \ {j})
            /\ "failed" \in Terminal /\ "failed" \notin Inflight
        BY <2>3 DEF Cancel, Inflight, Terminal
      <3> QED BY <2>1, <3>1, OneJobKeeps
    <2>4. CASE DeleteJob(j)
      <3>1. /\ phase = "up" /\ disk.job[j].status \in Terminal
            /\ Lives([disk EXCEPT !.job[j].status = "deleted"], sched) /\ "deleted" \notin Inflight
        BY <2>4 DEF DeleteJob, Inflight
      <3> QED BY <2>1, <3>1, OneJobKeeps
    <2> QED BY <1>3, <2>2, <2>3, <2>4, ExpireJobKeeps
  <1>4. ASSUME NEW j \in Jobs, NEW s \in Terminal, Finish(j, s) PROVE RecordsInv' /\ KeepsHistory(disk, disk')
    <2>1. /\ phase = "up" /\ disk.job[j].status \in Inflight
          /\ Lives([disk EXCEPT !.job[j].status = s], sched \ {j})
          /\ s \notin Inflight /\ sched \ {j} \subseteq Jobs
      BY <1>4 DEF Finish, Inflight, Terminal, RecordsInv, ProcessType
    <2> QED BY <2>1, OneJobKeeps
  <1> QED
    BY <1>1, <1>2, <1>3, <1>4, CreateKeeps, LaunchKeeps, AddSnapshotKeeps, CiSnapshotKeeps,
       RefreshKeeps, TraceKeeps, DeleteProjectKeeps, BootDeletionsKeeps, BootAdmissionsKeeps,
       BootJobsKeeps, CrashKeeps DEF Next

\* The records of a project are sound in every phase; where no write fails in a
\* live process, a crash at any point leaves an admission the next start can
\* complete, and in service an open admission never meets a running analysis.
THEOREM RecordsInvariant == Spec => []RecordsInv
  <1>1. RecordsInv /\ [Next]_vars => RecordsInv'
    BY StepKeeps
  <1> QED BY InitSound, <1>1, PTL DEF Spec

\* What the invariant says of admissions and of deletions.
LEMMA RecordsImply == RecordsInv => AdmissionsHold /\ DeletionHolds
  <1> SUFFICES ASSUME RecordsInv PROVE AdmissionsHold /\ DeletionHolds
    OBVIOUS
  <1>1. Sound(disk) /\ ProcessType
    BY DEF RecordsInv
  <1>2. TypeOK
    BY <1>1 DEF TypeOK, Sound, DiskType, ProcessType
  <1>3. OnePending
    BY <1>1 DEF OnePending, Sound, PendingSound
  <1>4. OneActive
    BY DEF RecordsInv, OneActive, Calm, SingleActive
  <1>5. SnapshotIdentity
    BY <1>1 DEF SnapshotIdentity, Sound, SnapshotsSound, Identity
  <1>6. NoSourceDiscarded
    BY <1>1 DEF NoSourceDiscarded, Sound, SnapshotsSound, PendingSound, AdmissionOpen, Retained
  <1>7. DeletionHolds
    BY <1>1 DEF DeletionHolds, QuietWhileDeleting, DeletionIsComplete, Sound, DeletionSound
  <1> QED BY <1>2, <1>3, <1>4, <1>5, <1>6, <1>7 DEF AdmissionsHold

\* Through failed writes, crashes, CI retries and attributions: one interrupted
\* admission at most, one analysis in service, snapshots with identities of
\* their own, and no source removed by the CI route that something still names.
THEOREM AdmissionsNeverClash == Spec => []AdmissionsHold
  BY RecordsInvariant, RecordsImply, PTL

\* From its marker to its end a deletion is alone with the records, and wherever
\* it was interrupted its end leaves no analysis, journal, decision or reminder.
THEOREM DeletionIsAloneAndComplete == Spec => []DeletionHolds
  BY RecordsInvariant, RecordsImply, PTL

\* No step of a handler, a restart or a retry takes a snapshot, its source or its
\* commit from a project that lives on.
THEOREM HistoryOnlyGrows == Spec => HistoryKept
  <1>1. RecordsInv /\ [Next]_vars =>
          [disk.project.state = "kept" /\ disk'.project.state = "kept" =>
             \A s \in disk.project.snaps : \E t \in disk'.project.snaps :
                 s.id = t.id /\ s.file = t.file /\ s.commit \in {NoCommit, t.commit}]_vars
    BY StepKeeps DEF KeepsHistory, Grows
  <1> QED BY RecordsInvariant, <1>1, PTL DEF Spec, HistoryKept
=============================================================================
