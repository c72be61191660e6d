----------------------- MODULE RemediationPlansProofs -----------------------
(***************************************************************************)
(* Proofs about the durable remediation plans, for any plans, keys,        *)
(* filters, limits, number of pages, revisions and restarts, and whatever  *)
(* places a crash may cut: a published plan is one revision of the         *)
(* portfolio, only a completed plan has an artifact, a key names one       *)
(* record, and a cancellation is never undone.                             *)
(***************************************************************************)
EXTENDS RemediationPlans, TLAPS

\* The steps of build_remediation_plan between claim() and complete().
Claimed == {"check", "next", "verify", "publish"}

\* A thread reads its revision first, then its pages, and the index only
\* grows: a base equal to the index at the end was the index all along.
ThreadRead ==
    \A p \in Plans :
        /\ thread[p].at = "first" => thread[p].base <= portfolio
        /\ thread[p].at \in {"claim"} \cup Claimed =>
               thread[p].base <= thread[p].cursor /\ thread[p].cursor <= portfolio
        /\ thread[p].at = "publish" => thread[p].base = thread[p].cursor
        /\ thread[p].at = "next" => thread[p].pages # Pages

\* The running record is the one its thread claimed; no thread survives the
\* process.
ThreadOwns ==
    \A p \in Plans :
        /\ thread[p].at \in Claimed /\ disk.plan[p].status = "running" =>
               disk.plan[p].base = thread[p].base
        /\ phase = "down" => thread[p].at = "none"

\* As long as recovery can run: a file is the artifact of a completed plan, or
\* what a crash inside complete() left for the next startup.
ArtifactOwned ==
    ~disk.temp => \A p \in Plans : disk.artifact[p] # NoArtifact =>
        \/ disk.plan[p].status = "completed"
        \/ disk.plan[p].status = "running" /\ phase = "down"

PlansInv ==
    /\ TypeOK /\ ThreadRead /\ ThreadOwns /\ ArtifactOwned
    /\ PublishedIsOneRevision /\ OneRecordPerKey

-----------------------------------------------------------------------------
(* The life of one plan: its record r and artifact x become s and y.       *)

\* The record and the artifact of plan p become r and x.
Upd(d, p, r, x) ==
    [plan |-> [d.plan EXCEPT ![p] = r], artifact |-> [d.artifact EXCEPT ![p] = x],
     temp |-> d.temp]

\* The writes that leave the identity of the record alone.
Aged(r, x, s, y) ==
    /\ s.status = r.status /\ s.base = r.base
    /\ y = x \/ (r.status = "completed" /\ y = NoArtifact)
Shut(r, x, s, y) ==
    /\ y = NoArtifact /\ s.base = r.base
    /\ \/ r.status \in Inflight /\ s.status \in {"cancelled", "failed"}
       \/ r.status = "completed" /\ s.status = "expired"
Asked(r, x, s, y) ==
    /\ y = x /\ s.base = r.base
    /\ \/ r.status = "queued" /\ s.status = "cancelled"
       \/ r.status = "running" /\ s.status = "cancelling"
Requeued(r, x, s, y) ==
    r.status = "running" /\ s.status = "queued" /\ y = NoArtifact

\* What the clock, a close or a cut expiry does to a record it keeps.
Kept(r, x, s, y) == s.key = r.key /\ (Aged(r, x, s, y) \/ Shut(r, x, s, y))

\* _purge_history_unlocked.
Gone(r, s, y) == r.status \in Closed /\ s.status = "absent" /\ y = NoArtifact

\* What one step of the system may do to plan p.
PlanMove(p) ==
    LET r == disk.plan[p]   x == disk.artifact[p]
        s == disk'.plan[p]  y == disk'.artifact[p]
    IN \/ Kept(r, x, s, y) \/ Gone(r, s, y)
       \/ s.key = r.key /\ Asked(r, x, s, y) /\ phase = "up"
       \/ s.key = r.key /\ Requeued(r, x, s, y) /\ phase = "down"
       \/ /\ r.status = "absent" /\ s.status = "queued" /\ y = x /\ thread[p].at = "none"
          /\ \A q \in Plans : disk'.plan[q].status # "absent" /\ disk'.plan[q].key = s.key => q = p
       \/ /\ r.status = "queued" /\ s.status = "running" /\ s.key = r.key /\ y = x
          /\ thread[p].at = "claim" /\ s.base = thread[p].base
          /\ thread' = [thread EXCEPT ![p] = [thread[p] EXCEPT !.at = "check"]]
       \/ /\ r.status = "running" /\ s.status = "completed" /\ s.key = r.key /\ s.base = r.base
          /\ thread[p].at = "publish" /\ y = Built(p)
       \/ /\ r.status = "running" /\ s = r /\ y = Built(p) /\ phase' = "down"

\* What every step does to the files.
DiskMove ==
    /\ disk' \in Disk /\ (disk.temp => disk'.temp)
    /\ \A p \in Plans : PlanMove(p)

-----------------------------------------------------------------------------
(* The operators of the store.                                             *)

\* An absent record is a record.
LEMMA AbsentIs == Absent \in Record /\ Absent.status = "absent"
  BY PlanBoundsAssumption DEF Absent, Record, Status, Revision

\* The sentinel of a missing file is no artifact.
LEMMA NoArtifactIs == NoArtifact \notin Artifact
  BY PlanBoundsAssumption DEF NoArtifact, Artifact, Revision

\* A write of one plan leaves the others alone.
LEMMA UpdIs ==
  ASSUME NEW d \in Disk, NEW p \in Plans, NEW r \in Record, NEW x \in Artifact \cup {NoArtifact}
  PROVE  /\ Upd(d, p, r, x) \in Disk
         /\ Upd(d, p, r, x).temp = d.temp
         /\ Upd(d, p, r, x).plan[p] = r /\ Upd(d, p, r, x).artifact[p] = x
         /\ \A q \in Plans \ {p} : /\ Upd(d, p, r, x).plan[q] = d.plan[q]
                                   /\ Upd(d, p, r, x).artifact[q] = d.artifact[q]
  BY DEF Upd, Disk

\* A record with a new status and a new updated_at.
LEMMA MarkedRecord ==
  ASSUME NEW r \in Record, NEW s \in Status
  PROVE  /\ [r EXCEPT !.status = s, !.old = FALSE] \in Record
         /\ [r EXCEPT !.status = s, !.old = FALSE].status = s
         /\ [r EXCEPT !.status = s, !.old = FALSE].key = r.key
         /\ [r EXCEPT !.status = s, !.old = FALSE].base = r.base
         /\ [r EXCEPT !.status = s, !.old = FALSE].recoveries = r.recoveries
  BY DEF Record

\* Marked() and Unpublished() as writes of one plan.
LEMMA MarkedIs ==
  ASSUME NEW d \in Disk, NEW p \in Plans, NEW s \in Status
  PROVE  /\ Marked(d, p, s) = Upd(d, p, [d.plan[p] EXCEPT !.status = s, !.old = FALSE], d.artifact[p])
         /\ Unpublished(d, p) = Upd(d, p, d.plan[p], NoArtifact)
         /\ Marked(Unpublished(d, p), p, s)
              = Upd(d, p, [d.plan[p] EXCEPT !.status = s, !.old = FALSE], NoArtifact)
  <1>1. d = [plan |-> d.plan, artifact |-> d.artifact, temp |-> d.temp]
        /\ d.plan \in [Plans -> Record] /\ d.artifact \in [Plans -> Artifact \cup {NoArtifact}]
    BY DEF Disk
  <1>2. ASSUME NEW e \in Disk
        PROVE  Marked(e, p, s) = Upd(e, p, [e.plan[p] EXCEPT !.status = s, !.old = FALSE], e.artifact[p])
    <2>1. Marked(e, p, s) = [e EXCEPT !.plan = [e.plan EXCEPT ![p] = [e.plan[p] EXCEPT !.status = s, !.old = FALSE]]]
      BY DEF Marked, Disk, Record
    <2> QED BY <2>1 DEF Upd, Disk
  <1>3. Unpublished(d, p) = Upd(d, p, d.plan[p], NoArtifact)
    <2>1. Unpublished(d, p) = [d EXCEPT !.artifact = [d.artifact EXCEPT ![p] = NoArtifact]]
      BY DEF Unpublished, Disk
    <2>2. [d.plan EXCEPT ![p] = d.plan[p]] = d.plan
      BY <1>1
    <2> QED BY <1>1, <2>1, <2>2 DEF Upd
  <1>4. Unpublished(d, p) \in Disk /\ Unpublished(d, p).plan[p] = d.plan[p]
        /\ Unpublished(d, p).artifact[p] = NoArtifact
    BY <1>1, <1>3, UpdIs
  <1>5. Marked(Unpublished(d, p), p, s)
          = Upd(Unpublished(d, p), p, [d.plan[p] EXCEPT !.status = s, !.old = FALSE], NoArtifact)
    BY <1>2, <1>4
  <1>6. Upd(Unpublished(d, p), p, [d.plan[p] EXCEPT !.status = s, !.old = FALSE], NoArtifact)
          = Upd(d, p, [d.plan[p] EXCEPT !.status = s, !.old = FALSE], NoArtifact)
    BY <1>1, <1>3 DEF Upd
  <1> QED BY <1>2, <1>3, <1>5, <1>6

\* Expiry closes a completed plan that is past its time, and no other.
LEMMA ExpiredIs ==
  ASSUME NEW d \in Disk, NEW p \in Plans
  PROVE  /\ Expired(d, p) \in Disk /\ Expired(d, p).temp = d.temp
         /\ \A q \in Plans \ {p} : /\ Expired(d, p).plan[q] = d.plan[q]
                                   /\ Expired(d, p).artifact[q] = d.artifact[q]
         /\ \/ Expired(d, p).plan[p] = d.plan[p] /\ Expired(d, p).artifact[p] = d.artifact[p]
            \/ /\ Kept(d.plan[p], d.artifact[p], Expired(d, p).plan[p], Expired(d, p).artifact[p])
               /\ d.plan[p].status = "completed" /\ ~Expired(d, p).plan[p].old
  <1> DEFINE r == [d.plan[p] EXCEPT !.status = "expired", !.old = FALSE]
  <1>0. d.plan[p] \in Record /\ d.artifact[p] \in Artifact \cup {NoArtifact} /\ "expired" \in Status
    BY DEF Disk, Status, Closed
  <1>1. CASE d.plan[p].status = "completed" /\ d.plan[p].old
    <2>1. Expired(d, p) = Upd(d, p, r, NoArtifact)
      BY <1>0, <1>1, MarkedIs DEF Expired
    <2>2. r \in Record /\ r.status = "expired" /\ r.key = d.plan[p].key /\ r.base = d.plan[p].base
      BY <1>0, MarkedRecord
    <2>3. ~r.old
      BY <1>0 DEF Record
    <2> HIDE DEF r
    <2> QED BY <1>1, <2>1, <2>2, <2>3, UpdIs DEF Kept, Shut
  <1>2. CASE ~(d.plan[p].status = "completed" /\ d.plan[p].old)
    BY <1>2 DEF Expired
  <1> QED BY <1>1, <1>2

\* The purge drops closed plans past their time, and nothing else.
LEMMA PurgedIs ==
  ASSUME NEW d \in Disk
  PROVE  /\ Purged(d) \in Disk /\ Purged(d).temp = d.temp
         /\ \A q \in Plans :
              IF d.plan[q].status \in Closed /\ d.plan[q].old
              THEN Purged(d).plan[q] = Absent /\ Purged(d).artifact[q] = NoArtifact
              ELSE Purged(d).plan[q] = d.plan[q] /\ Purged(d).artifact[q] = d.artifact[q]
  <1> DEFINE gone == {p \in Plans : d.plan[p].status \in Closed /\ d.plan[p].old}
             P == [p \in Plans |-> IF p \in gone THEN Absent ELSE d.plan[p]]
             A == [p \in Plans |-> IF p \in gone THEN NoArtifact ELSE d.artifact[p]]
  <1>1. P \in [Plans -> Record] /\ A \in [Plans -> Artifact \cup {NoArtifact}]
    BY AbsentIs DEF Disk
  <1>2. Purged(d) = [d EXCEPT !.plan = P, !.artifact = A]
    BY DEF Purged
  <1>3. Purged(d) \in Disk /\ Purged(d).temp = d.temp /\ Purged(d).plan = P /\ Purged(d).artifact = A
    <2> HIDE DEF P, A
    <2> QED BY <1>1, <1>2 DEF Disk
  <1> QED BY <1>3

\* The listing expires every plan before it purges.
LEMMA ExpiredAllIs ==
  ASSUME NEW d \in Disk
  PROVE  /\ ExpiredAll(d) \in Disk /\ ExpiredAll(d).temp = d.temp
         /\ \A q \in Plans : /\ ExpiredAll(d).plan[q] = Expired(d, q).plan[q]
                             /\ ExpiredAll(d).artifact[q] = Expired(d, q).artifact[q]
  <1> DEFINE P == [p \in Plans |-> Expired(d, p).plan[p]]
             A == [p \in Plans |-> Expired(d, p).artifact[p]]
  <1>1. \A p \in Plans : /\ Expired(d, p).plan[p] \in Record
                         /\ Expired(d, p).artifact[p] \in Artifact \cup {NoArtifact}
    BY ExpiredIs DEF Disk
  <1>2. P \in [Plans -> Record] /\ A \in [Plans -> Artifact \cup {NoArtifact}]
    BY <1>1
  <1>3. ExpiredAll(d) = [d EXCEPT !.plan = P, !.artifact = A]
    BY DEF ExpiredAll
  <1>4. /\ ExpiredAll(d) \in Disk /\ ExpiredAll(d).temp = d.temp
        /\ ExpiredAll(d).plan = P /\ ExpiredAll(d).artifact = A
    <2> HIDE DEF P, A
    <2> QED BY <1>2, <1>3 DEF Disk
  <1> QED BY <1>4

\* fail() and finish_cancel() close a plan in flight, or leave it alone.
LEMMA ClosedIs ==
  ASSUME NEW d \in Disk, NEW p \in Plans, NEW e \in {Failed(d, p), FinishedCancel(d, p)}
  PROVE  /\ e \in Disk /\ e.temp = d.temp
         /\ \A q \in Plans \ {p} : e.plan[q] = d.plan[q] /\ e.artifact[q] = d.artifact[q]
         /\ \/ e.plan[p] = d.plan[p] /\ e.artifact[p] = d.artifact[p]
            \/ Kept(d.plan[p], d.artifact[p], e.plan[p], e.artifact[p])
         /\ e.plan[p].status \notin {"running", "cancelling"} \/ e = d
  <1>0. d.plan[p] \in Record
    BY DEF Disk
  <1>1. ASSUME NEW s \in {"failed", "cancelled"}, d.plan[p].status \in Inflight,
               e = Marked(Unpublished(d, p), p, s)
        PROVE  /\ e \in Disk /\ e.temp = d.temp
               /\ \A q \in Plans \ {p} : e.plan[q] = d.plan[q] /\ e.artifact[q] = d.artifact[q]
               /\ Kept(d.plan[p], d.artifact[p], e.plan[p], e.artifact[p])
               /\ e.plan[p].status = s
    <2> DEFINE r == [d.plan[p] EXCEPT !.status = s, !.old = FALSE]
    <2>0. s \in Status
      BY DEF Status, Closed
    <2>1. e = Upd(d, p, r, NoArtifact)
      BY <1>1, <2>0, MarkedIs
    <2>2. r \in Record /\ r.status = s /\ r.key = d.plan[p].key /\ r.base = d.plan[p].base
      BY <1>0, <2>0, MarkedRecord
    <2> HIDE DEF r
    <2> QED BY <1>1, <2>1, <2>2, UpdIs DEF Kept, Shut
  <1>2. \/ e = d
        \/ \E s \in {"failed", "cancelled"} :
              d.plan[p].status \in Inflight /\ e = Marked(Unpublished(d, p), p, s)
    BY DEF Failed, FinishedCancel, Inflight
  <1> QED BY <1>1, <1>2

\* recover() closes, requeues or keeps the record it visits.
LEMMA RecoveredIs ==
  ASSUME NEW d \in Disk, NEW p \in Plans
  PROVE  /\ Recovered(d, p) \in Disk
         /\ \/ /\ Recovered(d, p).plan[p] = d.plan[p] /\ Recovered(d, p).artifact[p] = d.artifact[p]
               /\ d.plan[p].status \notin {"running", "cancelling"}
            \/ /\ Recovered(d, p).plan[p].key = d.plan[p].key
               /\ \/ Shut(d.plan[p], d.artifact[p], Recovered(d, p).plan[p], Recovered(d, p).artifact[p])
                  \/ Requeued(d.plan[p], d.artifact[p], Recovered(d, p).plan[p], Recovered(d, p).artifact[p])
  <1>0. d.plan[p] \in Record /\ {"cancelled", "failed", "queued"} \subseteq Status
    BY DEF Disk, Status, Closed, Inflight
  <1>1. ASSUME NEW s \in {"cancelled", "failed"}, d.plan[p].status \in Inflight,
               Recovered(d, p) = Marked(Unpublished(d, p), p, s)
        PROVE  /\ Recovered(d, p) \in Disk /\ Recovered(d, p).plan[p].key = d.plan[p].key
               /\ Shut(d.plan[p], d.artifact[p], Recovered(d, p).plan[p], Recovered(d, p).artifact[p])
    <2> DEFINE r == [d.plan[p] EXCEPT !.status = s, !.old = FALSE]
    <2>0. s \in Status
      BY <1>0
    <2>1. Recovered(d, p) = Upd(d, p, r, NoArtifact)
      BY <1>1, <2>0, MarkedIs
    <2>2. r \in Record /\ r.status = s /\ r.key = d.plan[p].key /\ r.base = d.plan[p].base
      BY <1>0, <2>0, MarkedRecord
    <2> HIDE DEF r
    <2> QED BY <1>1, <2>1, <2>2, UpdIs DEF Shut
  <1>2. CASE d.plan[p].status = "running" /\ d.plan[p].recoveries < MaxRecoveries
    <2> DEFINE r == [d.plan[p] EXCEPT !.status = "queued", !.old = FALSE]
               n == d.plan[p].recoveries + 1
               m == Upd(d, p, r, NoArtifact)
               t == [r EXCEPT !.recoveries = n, !.base = 0]
    <2>1. /\ r \in Record /\ r.status = "queued" /\ r.key = d.plan[p].key
          /\ r.recoveries = d.plan[p].recoveries
      BY <1>0, MarkedRecord
    <2>2. n \in 0..MaxRecoveries /\ 0 \in Revision
      BY <1>0, <1>2, PlanBoundsAssumption DEF Record, Revision
    <2>3. Recovered(d, p) = [Marked(Unpublished(d, p), p, "queued") EXCEPT !.plan[p].recoveries = @ + 1,
                                                                         !.plan[p].base = 0]
      <3>1. ~(d.plan[p].recoveries >= MaxRecoveries)
        BY <1>0, <1>2, PlanBoundsAssumption DEF Record
      <3> QED BY <1>2, <3>1 DEF Recovered
    <2>4. Marked(Unpublished(d, p), p, "queued") = m
      BY <1>0, MarkedIs
    <2>5. m \in Disk /\ m.plan[p] = r
      BY <2>1, UpdIs
    <2>6. Recovered(d, p) = [m EXCEPT !.plan = [m.plan EXCEPT ![p] = t]]
      <3> HIDE DEF m, r
      <3> QED BY <2>1, <2>3, <2>4, <2>5 DEF Disk, Record
    <2>7. t \in Record /\ t.status = "queued" /\ t.key = d.plan[p].key
      <3> HIDE DEF n, r
      <3> QED BY <2>1, <2>2 DEF Record
    <2>8. /\ Recovered(d, p) \in Disk /\ Recovered(d, p).plan[p] = t
          /\ Recovered(d, p).artifact[p] = m.artifact[p]
      <3> HIDE DEF t, m
      <3> QED BY <2>5, <2>6, <2>7 DEF Disk
    <2>9. m.artifact[p] = NoArtifact
      BY <2>1, UpdIs
    <2> QED BY <1>2, <2>7, <2>8, <2>9 DEF Requeued
  <1>3. CASE d.plan[p].status = "running" /\ ~(d.plan[p].recoveries < MaxRecoveries)
    <2>1. Recovered(d, p) = Marked(Unpublished(d, p), p, "failed")
      BY <1>0, <1>3, PlanBoundsAssumption DEF Recovered, Record
    <2> QED BY <1>1, <1>3, <2>1 DEF Inflight
  <1>4. CASE d.plan[p].status = "cancelling"
    BY <1>1, <1>4 DEF Recovered, Inflight
  <1>5. CASE d.plan[p].status \notin {"running", "cancelling"}
    BY <1>5 DEF Recovered
  <1> QED BY <1>2, <1>3, <1>4, <1>5

-----------------------------------------------------------------------------
(* Every step, by what it does to the files.                               *)

\* The disks a step passes through.
Derived(d) ==
    /\ d \in Disk /\ d.temp = disk.temp
    /\ \A q \in Plans : \/ Kept(disk.plan[q], disk.artifact[q], d.plan[q], d.artifact[q])
                        \/ Gone(disk.plan[q], d.plan[q], d.artifact[q])

\* Expiry, purge and listing lead to such a disk.
LEMMA DerivedIs ==
  ASSUME disk \in Disk
  PROVE  /\ Derived(disk) /\ Derived(Purged(disk)) /\ Derived(Purged(ExpiredAll(disk)))
         /\ \A p \in Plans : Derived(Expired(disk, p)) /\ Derived(Purged(Expired(disk, p)))
  <1>1. \A q \in Plans : Kept(disk.plan[q], disk.artifact[q], disk.plan[q], disk.artifact[q])
    BY DEF Kept, Aged
  <1>2. ASSUME NEW d \in Disk, d.temp = disk.temp,
               \A q \in Plans :
                 \/ d.plan[q] = disk.plan[q] /\ d.artifact[q] = disk.artifact[q]
                 \/ Kept(disk.plan[q], disk.artifact[q], d.plan[q], d.artifact[q]) /\ ~d.plan[q].old
        PROVE  Derived(d) /\ Derived(Purged(d))
    <2>1. Derived(d)
      BY <1>1, <1>2 DEF Derived
    <2>2. ASSUME NEW q \in Plans
          PROVE  \/ Kept(disk.plan[q], disk.artifact[q], Purged(d).plan[q], Purged(d).artifact[q])
                 \/ Gone(disk.plan[q], Purged(d).plan[q], Purged(d).artifact[q])
      <3>1. CASE d.plan[q].status \in Closed /\ d.plan[q].old
        BY <1>2, <3>1, PurgedIs, AbsentIs DEF Gone
      <3>2. CASE ~(d.plan[q].status \in Closed /\ d.plan[q].old)
        BY <2>1, <3>2, PurgedIs DEF Derived
      <3> QED BY <3>1, <3>2
    <2> QED BY <1>2, <2>1, <2>2, PurgedIs DEF Derived
  <1>3. Derived(disk) /\ Derived(Purged(disk))
    BY <1>2
  <1>4. ASSUME NEW p \in Plans PROVE Derived(Expired(disk, p)) /\ Derived(Purged(Expired(disk, p)))
    BY <1>2, ExpiredIs
  <1>5. Derived(Purged(ExpiredAll(disk)))
    <2> DEFINE d == ExpiredAll(disk)
    <2>1. d \in Disk /\ d.temp = disk.temp
      BY ExpiredAllIs
    <2>2. ASSUME NEW q \in Plans
          PROVE  \/ d.plan[q] = disk.plan[q] /\ d.artifact[q] = disk.artifact[q]
                 \/ Kept(disk.plan[q], disk.artifact[q], d.plan[q], d.artifact[q]) /\ ~d.plan[q].old
      <3>1. d.plan[q] = Expired(disk, q).plan[q] /\ d.artifact[q] = Expired(disk, q).artifact[q]
        BY ExpiredAllIs
      <3> HIDE DEF d
      <3> QED BY <3>1, ExpiredIs
    <2> HIDE DEF d
    <2>3. Derived(Purged(d))
      BY <1>2, <2>1, <2>2
    <2> QED BY <2>3 DEF d
  <1> QED BY <1>3, <1>4, <1>5

\* A step that leads to a derived disk.
LEMMA DerivedMove == ASSUME NEW d, Derived(d), disk' = d PROVE DiskMove
  BY DEF Derived, DiskMove, PlanMove

\* create() keeps, drops or adds a record with a key nobody else has.
LEMMA CreateMove ==
  ASSUME TypeOK, NEW d, Derived(d), NEW k \in Keys, NEW f \in Filters, CreateFrom(d, k, f)
  PROVE  DiskMove
  <1>1. CASE disk' = d
    BY <1>1, DerivedMove
  <1>2. ASSUME NEW p \in Plans \ Present(disk), Keyed(d, k) = {}, thread[p] = Idle,
               disk' = [d EXCEPT !.plan[p] = [Absent EXCEPT !.status = "queued", !.key = k, !.filters = f]]
        PROVE  DiskMove
    <2> DEFINE r == [Absent EXCEPT !.status = "queued", !.key = k, !.filters = f]
    <2>1. r \in Record /\ r.status = "queued" /\ r.key = k
      BY AbsentIs DEF Record, Status, Inflight
    <2> HIDE DEF r
    <2>2. d \in Disk /\ d.artifact[p] \in Artifact \cup {NoArtifact}
      BY DEF Derived, Disk
    <2>3. disk' = Upd(d, p, r, d.artifact[p])
      <3>1. disk' = [d EXCEPT !.plan = [d.plan EXCEPT ![p] = r]]
        BY <1>2 DEF r
      <3>2. [d.artifact EXCEPT ![p] = d.artifact[p]] = d.artifact
        BY <2>2 DEF Disk
      <3> QED BY <2>2, <3>1, <3>2 DEF Upd, Disk
    <2>4. /\ disk' \in Disk /\ disk'.temp = disk.temp
          /\ disk'.plan[p] = r /\ disk'.artifact[p] = d.artifact[p]
          /\ \A q \in Plans \ {p} : disk'.plan[q] = d.plan[q] /\ disk'.artifact[q] = d.artifact[q]
      BY <2>1, <2>2, <2>3, UpdIs DEF Derived
    <2>5. \A q \in Plans \ {p} : PlanMove(q)
      BY <2>4 DEF PlanMove, Derived
    <2>6. disk.plan[p].status = "absent"
      BY DEF Present
    <2>7. d.artifact[p] = disk.artifact[p]
      BY <2>6 DEF Derived, Kept, Gone, Aged, Shut, Inflight, Closed
    <2>8. \A q \in Plans : disk'.plan[q].status # "absent" /\ disk'.plan[q].key = k => q = p
      BY <1>2, <2>4 DEF Keyed, Present
    <2>9. PlanMove(p)
      BY <1>2, <2>1, <2>4, <2>6, <2>7, <2>8 DEF PlanMove, Idle
    <2> QED BY <2>4, <2>5, <2>9 DEF DiskMove
  <1> QED BY <1>1, <1>2 DEF CreateFrom

\* A write of one plan is a move when that plan moves.
LEMMA UpdMove ==
  ASSUME disk \in Disk, NEW p \in Plans, NEW r \in Record, NEW x \in Artifact \cup {NoArtifact},
         disk' = Upd(disk, p, r, x), PlanMove(p)
  PROVE  DiskMove
  <1>1. /\ disk' \in Disk /\ disk'.temp = disk.temp
        /\ \A q \in Plans \ {p} : disk'.plan[q] = disk.plan[q] /\ disk'.artifact[q] = disk.artifact[q]
    BY UpdIs
  <1>2. \A q \in Plans \ {p} : PlanMove(q)
    BY <1>1 DEF PlanMove, Kept, Aged
  <1> QED BY <1>1, <1>2 DEF DiskMove

\* The writes of one plan that the requests and the clock make.
LEMMA RequestMove ==
  ASSUME TypeOK, NEW p \in Plans, Cancel(p) \/ Age(p) \/ Read(p)
  PROVE  DiskMove
  <1>0. /\ disk \in Disk /\ disk.plan[p] \in Record /\ disk.artifact[p] \in Artifact \cup {NoArtifact}
        /\ {"cancelled", "cancelling"} \subseteq Status
    BY DEF TypeOK, Disk, Status, Inflight, Closed
  <1>1. ASSUME NEW s \in {"cancelled", "cancelling"}, disk' = Marked(disk, p, s), phase = "up",
               \/ disk.plan[p].status = "queued" /\ s = "cancelled"
               \/ disk.plan[p].status = "running" /\ s = "cancelling"
        PROVE  DiskMove
    <2> DEFINE r == [disk.plan[p] EXCEPT !.status = s, !.old = FALSE]
    <2>0. s \in Status
      BY <1>0
    <2>1. disk' = Upd(disk, p, r, disk.artifact[p])
      BY <1>0, <1>1, <2>0, MarkedIs
    <2>2. r \in Record /\ r.status = s /\ r.key = disk.plan[p].key /\ r.base = disk.plan[p].base
      BY <1>0, <2>0, MarkedRecord
    <2> HIDE DEF r
    <2>3. disk'.plan[p] = r /\ disk'.artifact[p] = disk.artifact[p]
      BY <1>0, <2>1, <2>2, UpdIs
    <2>4. PlanMove(p)
      BY <1>1, <2>2, <2>3 DEF PlanMove, Asked
    <2> QED BY <1>0, <2>1, <2>2, <2>4, UpdMove
  <1>2. CASE Cancel(p)
    BY <1>1, <1>2 DEF Cancel
  <1>3. CASE Age(p)
    <2> DEFINE r == [disk.plan[p] EXCEPT !.old = TRUE]
    <2>1. disk' = [disk EXCEPT !.plan = [disk.plan EXCEPT ![p] = r]]
      BY <1>3 DEF Age
    <2>2. /\ r \in Record /\ r.status = disk.plan[p].status
          /\ r.key = disk.plan[p].key /\ r.base = disk.plan[p].base
      BY <1>0 DEF Record
    <2> HIDE DEF r
    <2>3. disk' = Upd(disk, p, r, disk.artifact[p])
      <3>1. [disk.artifact EXCEPT ![p] = disk.artifact[p]] = disk.artifact
        BY <1>0 DEF Disk
      <3> QED BY <1>0, <2>1, <3>1 DEF Upd, Disk
    <2>4. disk'.plan[p] = r /\ disk'.artifact[p] = disk.artifact[p]
      BY <1>0, <2>2, <2>3, UpdIs
    <2>5. PlanMove(p)
      BY <2>2, <2>4 DEF PlanMove, Kept, Aged
    <2> QED BY <1>0, <2>2, <2>3, <2>5, UpdMove
  <1>4. CASE Read(p)
    BY <1>0, <1>4, DerivedIs, DerivedMove DEF Read
  <1> QED BY <1>2, <1>3, <1>4

\* fail() and finish_cancel() as moves.
LEMMA CloseMove ==
  ASSUME TypeOK, NEW p \in Plans, disk' \in {Failed(disk, p), FinishedCancel(disk, p)}
  PROVE  DiskMove
  <1>1. disk \in Disk
    BY DEF TypeOK
  <1>2. /\ disk' \in Disk /\ disk'.temp = disk.temp
        /\ \A q \in Plans \ {p} : disk'.plan[q] = disk.plan[q] /\ disk'.artifact[q] = disk.artifact[q]
        /\ \/ disk'.plan[p] = disk.plan[p] /\ disk'.artifact[p] = disk.artifact[p]
           \/ Kept(disk.plan[p], disk.artifact[p], disk'.plan[p], disk'.artifact[p])
    BY <1>1, ClosedIs
  <1>3. \A q \in Plans : PlanMove(q)
    BY <1>2 DEF PlanMove, Kept, Aged
  <1> QED BY <1>2, <1>3 DEF DiskMove

\* A step that leaves the files alone.
LEMMA SameMove == ASSUME TypeOK, disk' = disk PROVE DiskMove
  BY DerivedIs, DerivedMove DEF TypeOK

\* An artifact of the thread's own fields.
LEMMA BuiltIs == ASSUME TypeOK, NEW p \in Plans PROVE Built(p) \in Artifact
  BY DEF TypeOK, Built, Artifact, Thread

\* The worker thread moves its own plan.
LEMMA BuildMove ==
  ASSUME TypeOK, NEW p \in Plans, Build(p) \/ BuildFails(p)
  PROVE  DiskMove
  <1>0. /\ disk \in Disk /\ disk.plan[p] \in Record /\ disk.artifact[p] \in Artifact \cup {NoArtifact}
        /\ {"running", "completed"} \subseteq Status /\ thread[p] \in Thread
    BY DEF TypeOK, Disk, Status, Inflight
  <1>1. CASE Start(p) \/ ReadRevision(p) \/ FirstPage(p)
    BY <1>1, SameMove DEF Start, ReadRevision, FirstPage
  <1>2. CASE Check(p) \/ NextPage(p) \/ Verify(p) \/ FinishCancel(p) \/ BuildFails(p)
    <2>1. disk' \in {disk, Failed(disk, p), FinishedCancel(disk, p)}
      BY <1>2 DEF Check, NextPage, Verify, FinishCancel, BuildFails
    <2> QED BY <2>1, CloseMove, SameMove
  <1>3. CASE Claim(p)
    <2>1. CASE disk.plan[p].status = "queued"
      <3> DEFINE r == [disk.plan[p] EXCEPT !.status = "running", !.old = FALSE]
                 m == Upd(disk, p, r, disk.artifact[p])
                 t == [r EXCEPT !.base = thread[p].base]
      <3>1. r \in Record /\ r.status = "running" /\ r.key = disk.plan[p].key
        BY <1>0, MarkedRecord
      <3>2. Marked(disk, p, "running") = m
        BY <1>0, MarkedIs
      <3>3. disk' = [m EXCEPT !.plan = [m.plan EXCEPT ![p] = [m.plan[p] EXCEPT !.base = thread[p].base]]]
        <4> HIDE DEF m
        <4> QED BY <1>3, <2>1, <3>2 DEF Claim
      <3>4. m \in Disk /\ m.plan[p] = r
        BY <1>0, <3>1, UpdIs
      <3>5. t \in Record /\ t.status = "running" /\ t.key = disk.plan[p].key /\ t.base = thread[p].base
        <4> HIDE DEF r
        <4> QED BY <1>0, <3>1 DEF Record, Thread
      <3>6. disk' = Upd(disk, p, t, disk.artifact[p])
        <4>1. [m.plan EXCEPT ![p] = t] = [disk.plan EXCEPT ![p] = t]
          BY <1>0 DEF Upd, Disk
        <4>2. m.artifact = [disk.artifact EXCEPT ![p] = disk.artifact[p]] /\ m.temp = disk.temp
          BY DEF Upd
        <4> HIDE DEF m, t
        <4> QED BY <3>3, <3>4, <4>1, <4>2 DEF Upd, Disk, t
      <3> HIDE DEF t
      <3>7. disk'.plan[p] = t /\ disk'.artifact[p] = disk.artifact[p]
        BY <1>0, <3>5, <3>6, UpdIs
      <3>8. thread[p].at = "claim" /\ thread' = [thread EXCEPT ![p] = [thread[p] EXCEPT !.at = "check"]]
        BY <1>3, <2>1 DEF Claim, Running, Goto
      <3>9. PlanMove(p)
        BY <2>1, <3>5, <3>7, <3>8 DEF PlanMove
      <3> QED BY <1>0, <3>5, <3>6, <3>9, UpdMove
    <2>2. CASE disk.plan[p].status # "queued"
      BY <1>3, <2>2, CloseMove DEF Claim
    <2> QED BY <2>1, <2>2
  <1>4. CASE Publish(p)
    <2>1. CASE disk.plan[p].status = "running"
      <3> DEFINE r == [disk.plan[p] EXCEPT !.status = "completed", !.old = FALSE]
                 m == Upd(disk, p, r, disk.artifact[p])
      <3>1. /\ r \in Record /\ r.status = "completed"
            /\ r.key = disk.plan[p].key /\ r.base = disk.plan[p].base
        BY <1>0, MarkedRecord
      <3>2. Marked(disk, p, "completed") = m
        BY <1>0, MarkedIs
      <3>3. disk' = [m EXCEPT !.artifact = [m.artifact EXCEPT ![p] = Built(p)]]
        <4> HIDE DEF m
        <4> QED BY <1>4, <2>1, <3>2 DEF Publish
      <3>4. disk' = Upd(disk, p, r, Built(p))
        BY <1>0, <3>3 DEF Upd, Disk
      <3>5. Built(p) \in Artifact
        BY BuiltIs
      <3> HIDE DEF r
      <3>6. disk'.plan[p] = r /\ disk'.artifact[p] = Built(p)
        BY <1>0, <3>1, <3>4, <3>5, UpdIs
      <3>7. PlanMove(p)
        BY <1>4, <2>1, <3>1, <3>6 DEF PlanMove, Publish, Running
      <3> QED BY <1>0, <3>1, <3>4, <3>5, <3>7, UpdMove
    <2>2. CASE disk.plan[p].status # "running"
      <3>1. disk' \in {disk, Failed(disk, p)}
        BY <1>4, <2>2 DEF Publish
      <3> QED BY <3>1, CloseMove, SameMove
    <2> QED BY <2>1, <2>2
  <1> QED BY <1>1, <1>2, <1>3, <1>4 DEF Build

\* What recover() leaves of the records it visited.
LEMMA RecoveredAllIs ==
  ASSUME disk \in Disk, NEW V \in SUBSET Plans
  PROVE  /\ RecoveredAll(V) \in Disk /\ RecoveredAll(V).temp = disk.temp
         /\ \A q \in V : /\ RecoveredAll(V).plan[q] = Recovered(disk, q).plan[q]
                         /\ RecoveredAll(V).artifact[q] = Recovered(disk, q).artifact[q]
         /\ \A q \in Plans \ V : /\ RecoveredAll(V).plan[q] = disk.plan[q]
                                 /\ RecoveredAll(V).artifact[q] = disk.artifact[q]
  <1> DEFINE P == [p \in Plans |-> IF p \in V THEN Recovered(disk, p).plan[p] ELSE disk.plan[p]]
             A == [p \in Plans |-> IF p \in V THEN Recovered(disk, p).artifact[p] ELSE disk.artifact[p]]
  <1>1. \A p \in Plans : /\ Recovered(disk, p).plan[p] \in Record
                         /\ Recovered(disk, p).artifact[p] \in Artifact \cup {NoArtifact}
    BY RecoveredIs DEF Disk
  <1>2. P \in [Plans -> Record] /\ A \in [Plans -> Artifact \cup {NoArtifact}]
    BY <1>1 DEF Disk
  <1>3. RecoveredAll(V) = [disk EXCEPT !.plan = P, !.artifact = A]
    BY DEF RecoveredAll
  <1>4. /\ RecoveredAll(V) \in Disk /\ RecoveredAll(V).temp = disk.temp
        /\ RecoveredAll(V).plan = P /\ RecoveredAll(V).artifact = A
    <2> HIDE DEF P, A
    <2> QED BY <1>2, <1>3 DEF Disk
  <1> QED BY <1>4

\* A startup, complete or cut short, moves the plans it visits.
LEMMA RecoverMove ==
  ASSUME TypeOK, phase = "down", NEW V \in SUBSET Plans, disk' = RecoveredAll(V)
  PROVE  DiskMove
  <1>1. disk \in Disk
    BY DEF TypeOK
  <1>2. ASSUME NEW q \in Plans PROVE PlanMove(q)
    <2>1. CASE q \in V
      <3>1. disk'.plan[q] = Recovered(disk, q).plan[q] /\ disk'.artifact[q] = Recovered(disk, q).artifact[q]
        BY <1>1, <2>1, RecoveredAllIs
      <3>2. \/ disk'.plan[q] = disk.plan[q] /\ disk'.artifact[q] = disk.artifact[q]
            \/ /\ disk'.plan[q].key = disk.plan[q].key
               /\ \/ Shut(disk.plan[q], disk.artifact[q], disk'.plan[q], disk'.artifact[q])
                  \/ Requeued(disk.plan[q], disk.artifact[q], disk'.plan[q], disk'.artifact[q])
        BY <1>1, <3>1, RecoveredIs
      <3> QED BY <3>2 DEF PlanMove, Kept, Aged
    <2>2. CASE q \notin V
      BY <1>1, <2>2, RecoveredAllIs DEF PlanMove, Kept, Aged
    <2> QED BY <2>1, <2>2
  <1> QED BY <1>1, <1>2, RecoveredAllIs DEF DiskMove

\* A crash leaves the files as they are, or cuts a call between two of them.
LEMMA CrashMove ==
  ASSUME TypeOK, NEW p \in Plans, Crash \/ CrashInWrite \/ CrashInPublish(p) \/ CrashInExpiry(p)
  PROVE  DiskMove
  <1>0. /\ disk \in Disk /\ disk.plan[p] \in Record /\ disk.artifact[p] \in Artifact \cup {NoArtifact}
        /\ [disk.plan EXCEPT ![p] = disk.plan[p]] = disk.plan
    BY DEF TypeOK, Disk
  <1>1. CASE Crash
    BY <1>1, SameMove DEF Crash, Die
  <1>2. CASE CrashInWrite
    <2>1. disk' = [disk EXCEPT !.temp = TRUE]
      BY <1>2 DEF CrashInWrite, Die
    <2>2. disk' \in Disk /\ disk'.temp /\ disk'.plan = disk.plan /\ disk'.artifact = disk.artifact
      BY <1>0, <2>1 DEF Disk
    <2> QED BY <2>2 DEF DiskMove, PlanMove, Kept, Aged
  <1>3. CASE CrashInPublish(p)
    <2>1. disk' = [disk EXCEPT !.artifact[p] = Built(p)] /\ disk.plan[p].status = "running" /\ phase' = "down"
      BY <1>3 DEF CrashInPublish, Die
    <2>2. disk' = Upd(disk, p, disk.plan[p], Built(p)) /\ Built(p) \in Artifact
      BY <1>0, <2>1, BuiltIs DEF Upd, Disk
    <2>3. disk'.plan[p] = disk.plan[p] /\ disk'.artifact[p] = Built(p)
      BY <1>0, <2>2, UpdIs
    <2>4. PlanMove(p)
      BY <2>1, <2>3 DEF PlanMove
    <2> QED BY <1>0, <2>2, <2>4, UpdMove
  <1>4. CASE CrashInExpiry(p)
    <2>1. disk' = Unpublished(disk, p) /\ Expired(disk, p) # disk
      BY <1>4 DEF CrashInExpiry, Die
    <2>2. disk.plan[p].status = "completed"
      BY <2>1 DEF Expired
    <2>3. disk' = Upd(disk, p, disk.plan[p], NoArtifact)
      BY <1>0, <2>1, MarkedIs DEF Status
    <2>4. disk'.plan[p] = disk.plan[p] /\ disk'.artifact[p] = NoArtifact
      BY <1>0, <2>3, UpdIs
    <2>5. PlanMove(p)
      BY <2>2, <2>4 DEF PlanMove, Kept, Aged
    <2> QED BY <1>0, <2>3, <2>5, UpdMove
  <1> QED BY <1>1, <1>2, <1>3, <1>4

\* Every step of the system is a move of the files.
LEMMA EveryMove == ASSUME TypeOK, [Next]_vars PROVE DiskMove
  <1>0. disk \in Disk
    BY DEF TypeOK
  <1>1. ASSUME NEW k \in Keys, NEW f \in Filters, Create(k, f) PROVE DiskMove
    BY <1>0, <1>1, CreateMove, DerivedIs DEF Create
  <1>2. ASSUME NEW p \in Plans, NEW k \in Keys, Retry(p, k) PROVE DiskMove
    <2> DEFINE d == Expired(disk, p)
    <2>1. CreateFrom(Purged(d), k, d.plan[p].filters)
      BY <1>2 DEF Retry
    <2>2. d \in Disk /\ Derived(Purged(d))
      BY <1>0, ExpiredIs, DerivedIs
    <2> HIDE DEF d
    <2>3. d.plan[p].filters \in Filters
      BY <2>2 DEF Disk, Record
    <2> QED BY <2>1, <2>2, <2>3, CreateMove
  <1>3. ASSUME NEW p \in Plans, Read(p) \/ Cancel(p) \/ Age(p) PROVE DiskMove
    BY <1>3, RequestMove
  <1>4. ASSUME List PROVE DiskMove
    BY <1>0, <1>4, DerivedIs, DerivedMove DEF List
  <1>5. ASSUME Change \/ Shutdown \/ Exit \/ BootWithoutRecovery \/ UNCHANGED vars PROVE DiskMove
    BY <1>5, SameMove DEF Change, Shutdown, Exit, BootWithoutRecovery, vars
  <1>6. ASSUME Boot \/ BootRefused \/ CrashInBoot PROVE DiskMove
    <2>1. phase = "down" /\ \E V \in SUBSET Plans : disk' = RecoveredAll(V)
      BY <1>6 DEF Boot, BootRefused, CrashInBoot
    <2> QED BY <2>1, RecoverMove
  <1>7. ASSUME CrashInWrite PROVE DiskMove
    <2>1. PICK p \in Plans : TRUE
      BY <1>7 DEF CrashInWrite
    <2> QED BY <1>7, <2>1, CrashMove
  <1>8. ASSUME Crash PROVE DiskMove
    BY <1>8, SameMove DEF Crash, Die
  <1> QED
    BY <1>1, <1>2, <1>3, <1>4, <1>5, <1>6, <1>7, <1>8, BuildMove, CrashMove DEF Next, Startup

-----------------------------------------------------------------------------
(* Every step, by what it does to the threads and the process.             *)

\* What one step may do to the thread of plan p.
ThreadMove(p) ==
    LET t == thread[p]  u == thread'[p]
    IN \/ u = t
       \/ u.at \in {"none", "waiting", "revision", "cancelled"}
       \/ u.at = "first" /\ u.base = portfolio
       \/ t.at = "first" /\ u.at = "claim" /\ u.base = t.base /\ u.cursor = portfolio
       \/ /\ u.base = t.base /\ u.cursor = t.cursor
          /\ \/ t.at = "claim" /\ u.at = "check" /\ disk.plan[p].status = "queued"
             \/ /\ t.at \in Claimed /\ u.at \in {"check", "next", "verify"}
                /\ u.at = "next" => u.pages # Pages
             \/ t.at = "verify" /\ u.at = "publish" /\ t.base = portfolio

\* What every step does to the process.
ProcessMove ==
    /\ thread' \in [Plans -> Thread] /\ sched' \subseteq Plans
    /\ portfolio' \in Revision /\ portfolio <= portfolio'
    /\ phase' \in {"up", "stopping", "down"} /\ restarts' \in 0..MaxRestarts
    /\ phase' = "down" => \A p \in Plans : thread'[p].at = "none"
    /\ \A p \in Plans : ThreadMove(p)

\* A step that leaves the threads alone.
LEMMA SameThreads ==
  ASSUME TypeOK, ThreadOwns, UNCHANGED <<portfolio, sched, thread, phase, restarts>>
  PROVE  ProcessMove
  BY PlanBoundsAssumption DEF ProcessMove, ThreadMove, TypeOK, ThreadOwns, Revision

\* A step of one thread of a live process.
LEMMA OneThread ==
  ASSUME TypeOK, NEW p \in Plans, NEW u \in Thread, thread' = [thread EXCEPT ![p] = u],
         sched' \subseteq Plans, UNCHANGED <<portfolio, phase, restarts>>, phase # "down", ThreadMove(p)
  PROVE  ProcessMove
  <1>1. /\ thread' \in [Plans -> Thread]
        /\ \A q \in Plans \ {p} : thread'[q] = thread[q]
    BY DEF TypeOK
  <1>2. \A q \in Plans : ThreadMove(q)
    BY <1>1 DEF ThreadMove
  <1> QED BY <1>1, <1>2, PlanBoundsAssumption DEF ProcessMove, TypeOK, Revision

\* A thread that starts, ends or is not there.
LEMMA IdleIs == Idle \in Thread /\ [Idle EXCEPT !.at = "waiting"] \in Thread
  BY PlanBoundsAssumption DEF Idle, Thread, Revision

\* The end of a thread.
LEMMA DoneMove ==
  ASSUME TypeOK, NEW p \in Plans, Done(p), phase # "down", UNCHANGED Rest PROVE ProcessMove
  <1>1. thread' = [thread EXCEPT ![p] = Idle] /\ sched' \subseteq Plans
    BY DEF Done, TypeOK
  <1>2. ThreadMove(p)
    BY <1>1 DEF ThreadMove, TypeOK, Idle
  <1> QED BY <1>1, <1>2, IdleIs, OneThread DEF Rest

\* create() schedules at most one thread.
LEMMA ScheduleMove ==
  ASSUME TypeOK, ThreadOwns, NEW d, NEW k, NEW f, CreateFrom(d, k, f), phase = "up", UNCHANGED Rest
  PROVE  ProcessMove
  <1>1. ASSUME NEW p \in Plans, Schedule(p) PROVE ProcessMove
    <2>1. CASE p \in sched
      <3>1. UNCHANGED <<sched, thread>>
        BY <1>1, <2>1 DEF Schedule
      <3> QED BY <3>1, SameThreads DEF Rest
    <2>2. CASE p \notin sched
      <3>1. thread' = [thread EXCEPT ![p] = [Idle EXCEPT !.at = "waiting"]] /\ sched' \subseteq Plans
        BY <1>1, <2>2 DEF Schedule, TypeOK
      <3>2. ThreadMove(p)
        BY <3>1 DEF ThreadMove, TypeOK, Idle
      <3> QED BY <3>1, <3>2, IdleIs, OneThread DEF Rest
    <2> QED BY <2>1, <2>2
  <1>2. CASE UNCHANGED <<sched, thread>>
    BY <1>2, SameThreads DEF Rest
  <1>3. Keyed(d, k) \subseteq Plans
    BY DEF Keyed, Present
  <1> QED BY <1>1, <1>2, <1>3 DEF CreateFrom

\* build_remediation_plan(), step by step.
LEMMA BuildThread ==
  ASSUME TypeOK, ThreadRead, NEW p \in Plans, Build(p) \/ BuildFails(p)
  PROVE  ProcessMove
  <1> DEFINE t == thread[p]
  <1>0. t \in Thread /\ portfolio \in Revision /\ thread \in [Plans -> Thread]
    BY DEF TypeOK
  <1>1. phase # "down" /\ UNCHANGED Rest
    BY DEF Build, Start, ReadRevision, FirstPage, Claim, Check, NextPage, Verify, Publish, FinishCancel,
           BuildFails, Running
  <1>2. CASE Done(p)
    BY <1>1, <1>2, DoneMove
  <1>3. ASSUME NEW u \in Thread, thread' = [thread EXCEPT ![p] = u], UNCHANGED sched,
               ThreadMove(p)
        PROVE  ProcessMove
    BY <1>1, <1>3, OneThread DEF Rest, TypeOK
  <1>4. ASSUME NEW a \in {"revision", "check", "next", "verify", "publish", "cancelled"}, Goto(p, a),
               UNCHANGED sched,
               \/ a \in {"revision", "cancelled"}
               \/ t.at = "claim" /\ a = "check" /\ disk.plan[p].status = "queued"
               \/ t.at \in Claimed /\ a \in {"next", "verify"} /\ (a = "next" => t.pages # Pages)
               \/ t.at = "verify" /\ a = "publish" /\ t.base = portfolio
        PROVE  ProcessMove
    <2> DEFINE u == [t EXCEPT !.at = a]
    <2>1. /\ u \in Thread /\ u.at = a /\ u.base = t.base /\ u.cursor = t.cursor /\ u.pages = t.pages
      BY <1>0 DEF Thread
    <2>2. thread' = [thread EXCEPT ![p] = u]
      BY <1>4 DEF Goto
    <2> HIDE DEF u
    <2>3. thread'[p] = u
      BY <1>0, <2>2
    <2>4. ThreadMove(p)
      BY <1>4, <2>1, <2>3 DEF ThreadMove
    <2> QED BY <1>3, <1>4, <2>1, <2>2, <2>4
  <1>5. CASE ReadRevision(p)
    <2> DEFINE u == [t EXCEPT !.at = "first", !.base = portfolio]
    <2>1. u \in Thread /\ u.at = "first" /\ u.base = portfolio
      BY <1>0 DEF Thread
    <2>2. thread' = [thread EXCEPT ![p] = u] /\ UNCHANGED sched
      BY <1>5 DEF ReadRevision
    <2> HIDE DEF u
    <2>3. ThreadMove(p)
      BY <1>0, <2>1, <2>2 DEF ThreadMove
    <2> QED BY <1>3, <2>1, <2>2, <2>3
  <1>6. CASE FirstPage(p)
    <2> DEFINE u == [t EXCEPT !.at = "claim", !.cursor = portfolio, !.pages = 1]
    <2>0. 1 \in 0..Pages
      BY PlanBoundsAssumption
    <2>1. u \in Thread /\ u.at = "claim" /\ u.cursor = portfolio /\ u.base = t.base
      BY <1>0, <2>0 DEF Thread
    <2>2. thread' = [thread EXCEPT ![p] = u] /\ UNCHANGED sched /\ t.at = "first"
      BY <1>6 DEF FirstPage, Running
    <2> HIDE DEF u
    <2>3. ThreadMove(p)
      BY <1>0, <2>1, <2>2 DEF ThreadMove
    <2> QED BY <1>3, <2>1, <2>2, <2>3
  <1>7. CASE NextPage(p) /\ portfolio = t.cursor
    <2> DEFINE n == t.pages + 1
               u == [t EXCEPT !.at = "check", !.pages = n]
    <2>0. n \in 0..Pages /\ t.at = "next"
      BY <1>0, <1>7, PlanBoundsAssumption DEF NextPage, Running, ThreadRead, Thread
    <2>1. thread' = [thread EXCEPT ![p] = u] /\ UNCHANGED sched
      BY <1>0, <1>7 DEF NextPage, Thread
    <2> HIDE DEF n
    <2>2. u \in Thread /\ u.at = "check" /\ u.base = t.base /\ u.cursor = t.cursor
      BY <1>0, <2>0 DEF Thread
    <2> HIDE DEF u
    <2>3. ThreadMove(p)
      BY <1>0, <2>0, <2>1, <2>2 DEF ThreadMove, Claimed
    <2> QED BY <1>3, <2>1, <2>2, <2>3
  <1>8. CASE NextPage(p) /\ portfolio # t.cursor
    BY <1>2, <1>8 DEF NextPage
  <1>9. CASE Start(p)
    BY <1>2, <1>4, <1>9 DEF Start
  <1>10. CASE Claim(p)
    BY <1>2, <1>4, <1>10 DEF Claim, Running
  <1>11. CASE Check(p)
    BY <1>2, <1>4, <1>11 DEF Check, Running, Claimed
  <1>12. CASE Verify(p)
    BY <1>2, <1>4, <1>12 DEF Verify, Running
  <1>13. CASE Publish(p)
    BY <1>2, <1>4, <1>13 DEF Publish, Running
  <1>14. CASE FinishCancel(p) \/ BuildFails(p)
    BY <1>2, <1>14 DEF FinishCancel, BuildFails
  <1> QED
    BY <1>5, <1>6, <1>7, <1>8, <1>9, <1>10, <1>11, <1>12, <1>13, <1>14 DEF Build

\* A crash ends every thread.
LEMMA DieMove == ASSUME TypeOK, NEW d, Die(d) PROVE ProcessMove
  <1>1. /\ thread' = [p \in Plans |-> Idle] /\ sched' = {} /\ portfolio' = portfolio /\ phase' = "down"
        /\ restarts' = IF phase = "up" THEN restarts + 1 ELSE restarts
        /\ restarts < MaxRestarts \/ phase = "stopping"
    BY DEF Die
  <1>2. /\ thread' \in [Plans -> Thread]
        /\ \A p \in Plans : thread'[p].at = "none"
    BY <1>1, IdleIs DEF Idle
  <1>3. restarts' \in 0..MaxRestarts
    BY <1>1, PlanBoundsAssumption DEF TypeOK
  <1>4. \A p \in Plans : ThreadMove(p)
    BY <1>2 DEF ThreadMove
  <1> QED BY <1>1, <1>2, <1>3, <1>4, PlanBoundsAssumption DEF ProcessMove, TypeOK, Revision

\* Every step of the system is a move of the process.
LEMMA EveryThread == ASSUME TypeOK, ThreadRead, ThreadOwns, [Next]_vars PROVE ProcessMove
  <1>1. ASSUME NEW k \in Keys, NEW f \in Filters, Create(k, f) PROVE ProcessMove
    BY <1>1, ScheduleMove DEF Create, Rest
  <1>2. ASSUME NEW p \in Plans, NEW k \in Keys, Retry(p, k) PROVE ProcessMove
    BY <1>2, ScheduleMove DEF Retry, Rest
  <1>3. ASSUME NEW p \in Plans, Read(p) \/ Cancel(p) \/ Age(p) PROVE ProcessMove
    BY <1>3, SameThreads DEF Read, Cancel, Age, Memory
  <1>4. ASSUME List \/ BootRefused \/ UNCHANGED vars PROVE ProcessMove
    BY <1>4, SameThreads DEF List, BootRefused, Memory, vars
  <1>5. ASSUME Change PROVE ProcessMove
    BY <1>5, PlanBoundsAssumption DEF Change, ProcessMove, ThreadMove, TypeOK, Revision, ThreadOwns
  <1>6. ASSUME NEW d, Die(d) PROVE ProcessMove
    BY <1>6, DieMove
  <1>7. ASSUME Crash \/ CrashInWrite PROVE ProcessMove
    BY <1>6, <1>7 DEF Crash, CrashInWrite
  <1>8. ASSUME NEW p \in Plans, CrashInPublish(p) \/ CrashInExpiry(p) PROVE ProcessMove
    BY <1>6, <1>8 DEF CrashInPublish, CrashInExpiry
  <1>9. ASSUME Shutdown PROVE ProcessMove
    <2>1. thread' \in [Plans -> Thread] /\ \A p \in Plans : ThreadMove(p)
      BY <1>9, IdleIs DEF Shutdown, ThreadMove, TypeOK, Idle
    <2> QED BY <1>9, <2>1, PlanBoundsAssumption DEF Shutdown, ProcessMove, TypeOK, Revision
  <1>10. ASSUME Exit PROVE ProcessMove
    BY <1>10, PlanBoundsAssumption DEF Exit, ProcessMove, ThreadMove, TypeOK, Revision
  <1>11. ASSUME CrashInBoot PROVE ProcessMove
    BY <1>11, PlanBoundsAssumption DEF CrashInBoot, ProcessMove, ThreadMove, TypeOK, Revision, ThreadOwns
  <1>12. ASSUME BootWithoutRecovery PROVE ProcessMove
    BY <1>12, PlanBoundsAssumption DEF BootWithoutRecovery, ProcessMove, ThreadMove, TypeOK, Revision
  <1>13. ASSUME Boot PROVE ProcessMove
    <2>1. /\ thread' = [p \in Plans |-> IF p \in sched' THEN [Idle EXCEPT !.at = "waiting"] ELSE Idle]
          /\ sched' \subseteq Plans /\ phase' = "up" /\ UNCHANGED <<portfolio, restarts>>
      BY <1>13 DEF Boot
    <2>2. /\ thread' \in [Plans -> Thread]
          /\ \A p \in Plans : thread'[p].at \in {"none", "waiting"}
      BY <2>1, IdleIs DEF Idle
    <2> QED BY <2>1, <2>2, PlanBoundsAssumption DEF ProcessMove, ThreadMove, TypeOK, Revision
  <1> QED
    BY <1>1, <1>2, <1>3, <1>4, <1>5, <1>7, <1>8, <1>9, <1>10, <1>11, <1>12, <1>13, BuildThread
    DEF Next, Startup

-----------------------------------------------------------------------------
(* The invariant.                                                          *)

\* The empty store satisfies it.
LEMMA PlansInit == Init => PlansInv
  <1> SUFFICES ASSUME Init PROVE PlansInv
    OBVIOUS
  <1> USE PlanBoundsAssumption
  <1> DEFINE P == [p \in Plans |-> Absent]
             A == [p \in Plans |-> NoArtifact]
  <1>1. disk = [plan |-> P, artifact |-> A, temp |-> FALSE]
    BY DEF Init
  <1>2. disk \in Disk
    <2>1. P \in [Plans -> Record] /\ A \in [Plans -> Artifact \cup {NoArtifact}]
      BY AbsentIs
    <2> HIDE DEF P, A
    <2> QED BY <1>1, <2>1 DEF Disk
  <1>3. thread \in [Plans -> Thread] /\ \A p \in Plans : thread[p].at = "none"
    BY IdleIs DEF Init, Idle
  <1>4. TypeOK
    BY <1>2, <1>3 DEF Init, TypeOK, Revision
  <1>5. \A p \in Plans : disk.plan[p].status = "absent" /\ disk.artifact[p] = NoArtifact
    BY <1>1, AbsentIs
  <1> QED BY <1>3, <1>4, <1>5 DEF PlansInv, ThreadRead, ThreadOwns, Claimed, ArtifactOwned,
                                  PublishedIsOneRevision, OneRecordPerKey, Present

\* What a thread has read stays true while the index grows.
LEMMA ThreadReadStep == ASSUME TypeOK, ThreadRead, ProcessMove PROVE ThreadRead'
  <1> SUFFICES ASSUME NEW p \in Plans
               PROVE  /\ thread'[p].at = "first" => thread'[p].base <= portfolio'
                      /\ thread'[p].at \in {"claim"} \cup Claimed =>
                            thread'[p].base <= thread'[p].cursor /\ thread'[p].cursor <= portfolio'
                      /\ thread'[p].at = "publish" => thread'[p].base = thread'[p].cursor
                      /\ thread'[p].at = "next" => thread'[p].pages # Pages
    BY DEF ThreadRead
  <1>1. /\ thread[p].base \in Nat /\ thread[p].cursor \in Nat /\ portfolio \in Nat /\ portfolio' \in Nat
        /\ portfolio <= portfolio' /\ ThreadMove(p)
        /\ thread'[p].base \in Nat /\ thread'[p].cursor \in Nat
    BY PlanBoundsAssumption DEF ProcessMove, TypeOK, Thread, Revision
  <1> QED BY <1>1 DEF ThreadMove, ThreadRead, Claimed

\* The thread keeps the record it claimed.
LEMMA ThreadOwnsStep == ASSUME TypeOK, ThreadOwns, ProcessMove, DiskMove PROVE ThreadOwns'
  <1> SUFFICES ASSUME NEW p \in Plans, thread'[p].at \in Claimed, disk'.plan[p].status = "running"
               PROVE  disk'.plan[p].base = thread'[p].base
    BY DEF ThreadOwns, ProcessMove
  <1>1. PlanMove(p) /\ ThreadMove(p)
    BY DEF DiskMove, ProcessMove
  <1>2. /\ thread'[p].base = thread[p].base
        /\ thread[p].at \in Claimed \/ (thread[p].at = "claim" /\ disk.plan[p].status = "queued")
    BY <1>1 DEF ThreadMove, Claimed
  <1>3. CASE thread[p].at \in Claimed
    <2>1. disk.plan[p].status = "running" /\ disk'.plan[p].base = disk.plan[p].base
      BY <1>1, <1>3 DEF PlanMove, Kept, Aged, Shut, Asked, Requeued, Gone, Claimed
    <2> QED BY <1>2, <1>3, <2>1 DEF ThreadOwns
  <1>4. CASE thread[p].at = "claim" /\ disk.plan[p].status = "queued"
    <2>1. disk'.plan[p].base = thread[p].base
      BY <1>1, <1>4 DEF PlanMove, Kept, Aged, Shut, Asked, Requeued, Gone
    <2> QED BY <1>2, <2>1
  <1> QED BY <1>2, <1>3, <1>4

\* A startup that recovers leaves no plan running.
LEMMA BootCloses ==
  ASSUME TypeOK, Boot, NEW p \in Plans
  PROVE  \/ disk'.artifact[p] = NoArtifact
         \/ disk'.plan[p].status = disk.plan[p].status /\ disk'.artifact[p] = disk.artifact[p]
            /\ disk.plan[p].status # "running"
  <1>1. disk \in Disk /\ disk' = RecoveredAll(Plans)
    BY DEF Boot, TypeOK
  <1>2. disk'.plan[p] = Recovered(disk, p).plan[p] /\ disk'.artifact[p] = Recovered(disk, p).artifact[p]
    BY <1>1, RecoveredAllIs
  <1>3. \/ /\ disk'.plan[p] = disk.plan[p] /\ disk'.artifact[p] = disk.artifact[p]
           /\ disk.plan[p].status \notin {"running", "cancelling"}
        \/ Shut(disk.plan[p], disk.artifact[p], disk'.plan[p], disk'.artifact[p])
        \/ Requeued(disk.plan[p], disk.artifact[p], disk'.plan[p], disk'.artifact[p])
    BY <1>1, <1>2, RecoveredIs
  <1> QED BY <1>3 DEF Shut, Requeued

\* Files stay those of completed plans, or of a publication that was cut.
LEMMA ArtifactStep == ASSUME TypeOK, ArtifactOwned, DiskMove, [Next]_vars PROVE ArtifactOwned'
  <1> SUFFICES ASSUME ~disk'.temp, NEW p \in Plans, disk'.artifact[p] # NoArtifact
               PROVE  \/ disk'.plan[p].status = "completed"
                      \/ disk'.plan[p].status = "running" /\ phase' = "down"
    BY DEF ArtifactOwned
  <1>1. PlanMove(p) /\ ~disk.temp
    BY DEF DiskMove
  <1>2. CASE Boot
    <2>1. disk'.plan[p].status = disk.plan[p].status /\ disk'.artifact[p] = disk.artifact[p]
          /\ disk.plan[p].status # "running"
      BY <1>2, BootCloses
    <2> QED BY <1>1, <2>1 DEF ArtifactOwned
  <1>3. CASE phase = "down" => phase' = "down"
    BY <1>1, <1>3 DEF PlanMove, Kept, Aged, Shut, Asked, Requeued, Gone, ArtifactOwned
  <1>4. Boot \/ (phase = "down" => phase' = "down")
    <2>1. CASE BootWithoutRecovery
      BY <1>1, <2>1 DEF BootWithoutRecovery
    <2>2. CASE \E q \in Plans : Build(q) \/ BuildFails(q)
      BY <2>2 DEF Build, Start, ReadRevision, FirstPage, Claim, Check, NextPage, Verify, Publish,
                  FinishCancel, BuildFails, Running, Rest
    <2>3. CASE \/ \E k \in Keys, f \in Filters : Create(k, f)
               \/ \E q \in Plans, k \in Keys : Retry(q, k)
               \/ \E q \in Plans : Read(q) \/ Cancel(q) \/ Age(q)
               \/ List \/ Change \/ Shutdown \/ Exit
      BY <2>3 DEF Create, Retry, Read, Cancel, Age, List, Change, Shutdown, Exit, Memory
    <2>4. CASE \/ Crash \/ CrashInWrite \/ CrashInBoot \/ BootRefused \/ UNCHANGED vars
               \/ \E q \in Plans : CrashInPublish(q) \/ CrashInExpiry(q)
      BY <2>4 DEF Crash, CrashInWrite, CrashInBoot, BootRefused, CrashInPublish, CrashInExpiry, Die,
                  Memory, vars
    <2> QED BY <2>1, <2>2, <2>3, <2>4 DEF Next, Startup
  <1> QED BY <1>2, <1>3, <1>4

\* complete() publishes what the thread verified.
LEMMA PublishedStep ==
  ASSUME TypeOK, ThreadRead, ThreadOwns, PublishedIsOneRevision, DiskMove
  PROVE  PublishedIsOneRevision'
  <1> SUFFICES ASSUME NEW p \in Plans, disk'.plan[p].status = "completed", disk'.artifact[p] # NoArtifact
               PROVE  /\ disk'.artifact[p].pages = disk'.artifact[p].base
                      /\ disk'.plan[p].base = disk'.artifact[p].base
    BY DEF PublishedIsOneRevision
  <1>1. PlanMove(p)
    BY DEF DiskMove
  <1>2. CASE /\ disk.plan[p].status = "completed"
             /\ disk'.artifact[p] = disk.artifact[p] /\ disk'.plan[p].base = disk.plan[p].base
    BY <1>2 DEF PublishedIsOneRevision
  <1>3. CASE /\ disk.plan[p].status = "running" /\ disk'.plan[p].base = disk.plan[p].base
             /\ thread[p].at = "publish" /\ disk'.artifact[p] = Built(p)
    BY <1>3 DEF ThreadRead, ThreadOwns, Claimed, Built
  <1> QED BY <1>1, <1>2, <1>3 DEF PlanMove, Kept, Aged, Shut, Asked, Requeued, Gone

\* A new record has a key of its own.
LEMMA KeyStep == ASSUME OneRecordPerKey, DiskMove PROVE OneRecordPerKey'
  <1> SUFFICES ASSUME NEW p \in Plans, NEW q \in Plans, disk'.plan[p].status # "absent",
                      disk'.plan[q].status # "absent", disk'.plan[p].key = disk'.plan[q].key
               PROVE  p = q
    BY DEF OneRecordPerKey, Present
  <1>1. ASSUME NEW r \in Plans, disk'.plan[r].status # "absent"
        PROVE  \/ disk.plan[r].status # "absent" /\ disk'.plan[r].key = disk.plan[r].key
               \/ \A o \in Plans : disk'.plan[o].status # "absent" /\ disk'.plan[o].key = disk'.plan[r].key
                                      => o = r
    <2>1. PlanMove(r)
      BY DEF DiskMove
    <2> QED BY <1>1, <2>1 DEF PlanMove, Kept, Aged, Shut, Asked, Requeued, Gone, Inflight
  <1> QED BY <1>1 DEF OneRecordPerKey, Present

\* Every step keeps the invariant.
LEMMA PlansStep == PlansInv /\ [Next]_vars => PlansInv'
  <1> SUFFICES ASSUME PlansInv, [Next]_vars PROVE PlansInv'
    OBVIOUS
  <1>1. TypeOK /\ ThreadRead /\ ThreadOwns
    BY DEF PlansInv
  <1>2. DiskMove /\ ProcessMove
    BY <1>1, EveryMove, EveryThread
  <1>3. TypeOK'
    BY <1>2 DEF TypeOK, DiskMove, ProcessMove
  <1> QED
    BY <1>1, <1>2, <1>3, ThreadReadStep, ThreadOwnsStep, ArtifactStep, PublishedStep, KeyStep DEF PlansInv

\* The inductive invariant of the plans holds in every reachable state.
THEOREM PlansInvariant == Spec => []PlansInv
  BY PlansInit, PlansStep, PTL DEF Spec

\* What create(), the worker threads and recover() leave on disk agrees:
\* whatever call a crash cuts and however the index changes under a build, a
\* published artifact is one revision of the portfolio, only a completed plan
\* has one, and an idempotency key names one record.
THEOREM PlansAlwaysHold == Spec => []PlansHold
  <1>1. PlansInv => PlansHold
    <2> SUFFICES ASSUME PlansInv PROVE OnlyCompletedHasArtifact
      BY DEF PlansInv, PlansHold
    <2> QED BY DEF PlansInv, OnlyCompletedHasArtifact, Recoverable, ArtifactOwned
  <1> QED BY <1>1, PlansInvariant, PTL

\* No race of a worker thread, a request, recovery and a crash publishes a plan
\* that was asked to stop, reopens a closed one or unpublishes a completed one
\* other than by its expiry.
THEOREM CancellationAlwaysWins == Spec => CancellationWins
  <1> DEFINE Wins == \A p \in Plans :
         /\ disk.plan[p].status \in {"cancelling", "cancelled"} => disk'.plan[p].status # "completed"
         /\ disk.plan[p].status \in Closed => disk'.plan[p].status \in {disk.plan[p].status, "absent"}
         /\ disk.plan[p].status = "completed" => disk'.plan[p].status \in {"completed", "expired"}
  <1>1. ASSUME PlansInv, [Next]_vars PROVE Wins
    <2>1. DiskMove
      BY <1>1, EveryMove DEF PlansInv
    <2> QED
      BY <2>1 DEF DiskMove, PlanMove, Kept, Aged, Shut, Asked, Requeued, Gone, Inflight, Closed
  <1>2. PlansInv /\ [Next]_vars => [Wins]_vars
    BY <1>1
  <1> QED BY <1>2, PlansInvariant, PTL DEF Spec, CancellationWins
=============================================================================
