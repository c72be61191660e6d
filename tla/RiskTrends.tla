----------------------------- MODULE RiskTrends -----------------------------
(***************************************************************************)
(* The risk trends of an organization: a projection of its analyses,       *)
(* public snapshots and decisions that is rebuilt in the background, and   *)
(* the source clock that says when it is out of date                       *)
(* (project_risk_trends.py, project_risk_trend_index.py,                   *)
(* risk_trend_source_clock.py and the routes and tasks of main.py).        *)
(*                                                                         *)
(* Writers of sources hold the storage lock: the source is written, then   *)
(* the clock records whose it was.  Requests run on the event loop.  One   *)
(* refresh at a time runs in a thread; its transaction is open from the    *)
(* first row it deletes to its commit.                                     *)
(***************************************************************************)
EXTENDS TrendFacts

CONSTANTS Owners,
          Watched,       \* the ones whose members look at their trends
          Retained,      \* the analysis each organization has at first
          Analyses,      \* what a later one may find
          Findings,      \* what a decision may be about
          Nobody,
          SampleSize,    \* RISK_TREND_INDEX_SAMPLE_SIZE
          MaxPasses,     \* passes of one background task: 2 in the code
          MaxWrites, MaxRequests, MaxFaults   \* bounds

ASSUME BoundsAssumption ==
  /\ Nobody \notin Owners
  /\ Watched \subseteq Owners
  /\ {SampleSize, MaxPasses, MaxWrites, MaxRequests, MaxFaults} \subseteq Nat

VARIABLES jobs,        \* per owner: the retained analyses, newest first
          decisions,   \* per owner: the decisions about findings
          raw,         \* raw_source_revision(): it changes with every write
          clock,       \* the source clock's database
          writer,      \* who holds the storage lock between write and clock
          rows,        \* per owner: what is published, and for which revision
          refresh,     \* per owner: the refresh journal
          worker,      \* the refresh thread
          queue,       \* background tasks waiting for the semaphore
          scheduled,   \* scheduled_risk_trend_refresh_owner_ids
          reader,      \* the request on the event loop
          up,          \* the process runs
          spent        \* how much of each bound is used

sources == <<jobs, decisions, raw, clock, writer>>
index == <<rows, refresh>>
process == <<worker, queue, scheduled, reader>>
vars == <<sources, index, process, up, spent>>

-----------------------------------------------------------------------------
(* The source clock.                                                       *)

FreshClock(epoch, covered) == [ok |-> TRUE, epoch |-> epoch, covered |-> covered, generation |-> [o \in Owners |-> 0]]

(* revision(): an owner's own while the clock covers the sources as they   *)
(* are, else one for all owners.                                           *)
Revision(o) == IF clock.ok /\ clock.covered = raw
                 THEN <<"owner", clock.epoch, clock.generation[o]>>
                 ELSE <<"fallback", raw, 0>>

(* _reset_database() of the clock: a random epoch, covering what is there. *)
ClockReset == clock' = FreshClock(clock.epoch + 1, raw)

(* A source of the owner is written under the storage lock.                *)
Write(o) ==
  /\ up
  /\ writer = Nobody
  /\ raw <= MaxWrites
  /\ raw' = raw + 1
  /\ writer' = o
  /\ UNCHANGED <<clock, index, process, up, spent>>

(* A job completes.                                                        *)
SaveJob(o, a) ==
  /\ Write(o)
  /\ jobs' = [jobs EXCEPT ![o] = <<a @@ [id |-> raw', at |-> raw']>> \o @]
  /\ UNCHANGED decisions

(* A job that belongs to no project is saved: its directory changes and    *)
(* the clock is told nothing.                                              *)
SaveOtherJob ==
  /\ up
  /\ writer = Nobody
  /\ raw <= MaxWrites
  /\ raw' = raw + 1
  /\ UNCHANGED <<jobs, decisions, clock, writer, index, process, up, spent>>

(* Retention deletes the oldest one.                                       *)
DeleteJob(o) ==
  /\ Write(o)
  /\ jobs[o] # <<>>
  /\ jobs' = [jobs EXCEPT ![o] = Front(@)]
  /\ UNCHANGED decisions

(* The public snapshot of the newest analysis arrives.                     *)
PutSnapshot(o, advisories) ==
  /\ Write(o)
  /\ jobs[o] # <<>>
  /\ jobs' = [jobs EXCEPT ![o][1] = [@ EXCEPT !.public = "ready", !.advisories = advisories]]
  /\ UNCHANGED decisions

(* A decision about a finding is appended.                                 *)
Decide(o, f, status) ==
  /\ Write(o)
  /\ decisions' = [decisions EXCEPT ![o] = @ \union {[finding |-> f, at |-> raw', status |-> status, reviewed |-> TRUE]}]
  /\ UNCHANGED jobs

(* record_mutation(): the owner's generation, if the clock covered the     *)
(* sources as they were before; a new epoch otherwise, and when the        *)
(* database fails; nothing when that fails too.                            *)
\* Mutant of RecordMutation.
RecordRegardless(fails, stuck) ==
  /\ up
  /\ writer # Nobody
  /\ ~fails /\ ~stuck
  /\ clock' = [clock EXCEPT !.covered = raw, !.generation[writer] = @ + 1]
  /\ writer' = Nobody
  /\ UNCHANGED <<jobs, decisions, raw, index, process, up, spent>>
RecordMutation(fails, stuck) ==
  /\ up
  /\ writer # Nobody
  /\ fails => spent.faults < MaxFaults
  /\ stuck => fails
  /\ \/ stuck /\ UNCHANGED clock
     \/ ~stuck /\ (fails \/ ~clock.ok \/ clock.covered # raw - 1) /\ ClockReset
     \/ /\ ~fails /\ clock.ok /\ clock.covered = raw - 1
        /\ clock' = [clock EXCEPT !.covered = raw, !.generation = [clock.generation EXCEPT ![writer] = @ + 1]]
  /\ writer' = Nobody
  /\ spent' = IF fails THEN [spent EXCEPT !.faults = @ + 1] ELSE spent
  /\ UNCHANGED <<jobs, decisions, raw, index, process, up>>

(* The clock's file is lost or damaged.                                    *)
LoseClock ==
  /\ spent.faults < MaxFaults
  /\ clock.ok
  /\ clock' = [clock EXCEPT !.ok = FALSE]
  /\ spent' = [spent EXCEPT !.faults = @ + 1]
  /\ UNCHANGED <<jobs, decisions, raw, writer, index, process, up>>

-----------------------------------------------------------------------------
(* The index.  What a publication was computed from stands for the facts:  *)
(* they are Materialize(of.jobs, of.decisions).                            *)

Unpublished == [revision |-> <<"none", 0, 0>>, of |-> [jobs |-> <<>>, decisions |-> {}]]
NoRefresh == [desired |-> <<"none", 0, 0>>, state |-> "none"]
EmptyRows == [o \in Owners |-> Unpublished]
EmptyRefresh == [o \in Owners |-> NoRefresh]

IsCurrent(table, o, revision) == table[o] # Unpublished /\ table[o].revision = revision

(* request_refresh(), after the revision is read.                          *)
Requested(table, journal, o, desired, force) ==
  CASE IsCurrent(table, o, desired) /\ ~force -> [desired |-> desired, state |-> "ready"]
    [] /\ ~(IsCurrent(table, o, desired) /\ ~force)
       /\ journal[o].desired = desired
       /\ journal[o].state \in {"queued", "rebuilding"} \/ (journal[o].state = "failed" /\ ~force) -> journal[o]
    [] OTHER -> [desired |-> desired, state |-> "queued"]

(* _materialization_status_from_rows().                                    *)
Status(table, row, o, revision) ==
  [data |-> IF IsCurrent(table, o, revision) THEN "current" ELSE IF table[o] # Unpublished THEN "stale" ELSE "unavailable",
   inProgress |-> row.desired = revision /\ row.state \in {"queued", "rebuilding"}]

(* _validate_sample(): the first rows by job id must be jobs as they are.  *)
SampleHolds(o) ==
  LET ids == {rows[o].of.jobs[i].id : i \in DOMAIN rows[o].of.jobs}
      sample == {i \in ids : Cardinality({j \in ids : j < i}) < SampleSize}
  IN  sample \subseteq {jobs[o][i].id : i \in DOMAIN jobs[o]}

(* The transaction of the refresh thread is open.                          *)
TransactionOpen == worker.at \in {"scan", "after"}

(* _reset_database() of the index, which replaces the file: an open        *)
(* transaction commits to the file that was there.                         *)
DetachedWorker == IF TransactionOpen THEN [worker EXCEPT !.detached = TRUE] ELSE worker

-----------------------------------------------------------------------------
(* Requests: read(), in which a refresh is asked for and then the last     *)
(* publication is queried; the refresh thread may commit in between.       *)

NoReader == [owner |-> Nobody, kind |-> "none", data |-> "none", inProgress |-> FALSE]

Kinds == {"view", "refresh", "export"}

(* get_project_risk_trends(), retry_project_risk_trends() or               *)
(* export_project_risk_trends().  The write waits for an open transaction; *)
(* when it fails, after thirty seconds or for a damaged file, all that is  *)
(* published is dropped and the request is made again.                     *)
Request(o, kind, fails) ==
  LET table == IF fails THEN EmptyRows ELSE rows
      journal == IF fails THEN EmptyRefresh ELSE refresh
      revision == Revision(o)
      row == Requested(table, journal, o, revision, kind = "refresh")
  IN  /\ up
      /\ reader = NoReader
      /\ spent.requests < MaxRequests
      /\ IF fails THEN spent.faults < MaxFaults ELSE ~TransactionOpen
      /\ rows' = table
      /\ refresh' = [journal EXCEPT ![o] = row]
      /\ worker' = IF fails THEN DetachedWorker ELSE worker
      /\ reader' = [owner |-> o, kind |-> kind] @@ Status(table, row, o, revision)
      /\ spent' = [spent EXCEPT !.requests = @ + 1, !.faults = IF fails THEN @ + 1 ELSE @]
      /\ UNCHANGED <<sources, queue, scheduled, up>>

(* schedule_risk_trend_refresh_once(): the task starts when the response   *)
(* has been sent, and there is none to run after when the route raises.    *)
Schedule(o, wanted, raises) ==
  /\ scheduled' = IF wanted THEN scheduled \union {o} ELSE scheduled
  /\ queue' = IF wanted /\ o \notin scheduled /\ ~raises THEN Append(queue, o) ELSE queue

(* query_available() accepts the publication, or there is none.            *)
Answer ==
  LET o == reader.owner
      shown == reader.data # "unavailable" /\ rows[o] # Unpublished
  IN  /\ up
      /\ reader # NoReader
      /\ shown => SampleHolds(o)
      /\ Schedule(o, reader.inProgress \/ reader.kind = "refresh",
                  reader.kind = "export" /\ ~(shown /\ reader.data = "current"))
      /\ reader' = NoReader
      /\ UNCHANGED <<sources, index, worker, up, spent>>

(* query_available() rejects it: discard_owner_and_request_refresh().      *)
Discard ==
  LET o == reader.owner
      revision == Revision(o)
      table == [rows EXCEPT ![o] = Unpublished]
      row == [desired |-> revision, state |-> "queued"]
  IN  /\ up
      /\ reader # NoReader
      /\ reader.data # "unavailable" /\ rows[o] # Unpublished /\ ~SampleHolds(o)
      /\ ~TransactionOpen
      /\ rows' = table
      /\ refresh' = [refresh EXCEPT ![o] = row]
      /\ Schedule(o, TRUE, reader.kind = "export")
      /\ reader' = NoReader
      /\ UNCHANGED <<sources, worker, up, spent>>

-----------------------------------------------------------------------------
(* The background task: refresh_once() in a thread, at most MaxPasses      *)
(* times, one task at a time.                                              *)

NoSources == [jobs |-> <<>>, decisions |-> {}]
Idle == [at |-> "idle", owner |-> Nobody, pass |-> 0, claimed |-> <<"none", 0, 0>>, before |-> <<"none", 0, 0>>,
         current |-> <<"none", 0, 0>>, read |-> NoSources, detached |-> FALSE]

WorkerOnly == UNCHANGED <<sources, index, queue, scheduled, reader, up, spent>>
Goto(at) == worker' = [worker EXCEPT !.at = at]

(* run_scheduled_risk_trend_refresh() gets the semaphore.                  *)
StartTask ==
  /\ up
  /\ worker = Idle
  /\ queue # <<>>
  /\ worker' = [Idle EXCEPT !.at = "claim", !.owner = Head(queue), !.pass = 1]
  /\ queue' = Tail(queue)
  /\ UNCHANGED <<sources, index, scheduled, reader, up, spent>>

(* Back on the event loop.                                                 *)
EndTask ==
  /\ worker.at = "ending"
  /\ worker' = Idle
  /\ scheduled' = scheduled \ {worker.owner}
  /\ UNCHANGED <<sources, index, queue, reader, up, spent>>

(* Another pass is wanted.                                                 *)
NextPass(again) ==
  IF again /\ worker.pass < MaxPasses
    THEN worker' = [Idle EXCEPT !.at = "claim", !.owner = worker.owner, !.pass = worker.pass + 1]
    ELSE worker' = [Idle EXCEPT !.at = "ending", !.owner = worker.owner]

(* claim_refresh().                                                        *)
Claim ==
  LET o == worker.owner
  IN  /\ worker.at = "claim"
      /\ IF refresh[o].state = "queued"
           THEN /\ refresh' = [refresh EXCEPT ![o].state = "rebuilding"]
                /\ worker' = [worker EXCEPT !.at = "early", !.claimed = refresh[o].desired]
           ELSE NextPass(FALSE) /\ UNCHANGED refresh
      /\ UNCHANGED <<sources, rows, queue, scheduled, reader, up, spent>>

(* The snapshot of the projects and the decisions are read first.          *)
ReadEarly ==
  /\ worker.at = "early"
  /\ worker' = [worker EXCEPT !.at = "before", !.read.decisions = decisions[worker.owner]]
  /\ WorkerOnly

RevisionBefore ==
  /\ worker.at = "before"
  /\ worker' = [worker EXCEPT !.at = "scan", !.before = Revision(worker.owner)]
  /\ WorkerOnly

(* The transaction: every analysis is read and materialized.               *)
Scan ==
  /\ worker.at = "scan"
  /\ worker' = [worker EXCEPT !.at = "after", !.read.jobs = jobs[worker.owner]]
  /\ WorkerOnly

(* A source or the database fails while scanning: rebuild_failed or limit. *)
ScanFails ==
  /\ worker.at = "scan"
  /\ spent.faults < MaxFaults
  /\ Goto("failing")
  /\ spent' = [spent EXCEPT !.faults = @ + 1]
  /\ UNCHANGED <<sources, index, queue, scheduled, reader, up>>

(* The sources must still have the revision they had; then the             *)
(* transaction commits.  (A write between the two leaves what a write      *)
(* after both would.)                                                      *)
Published(o) == IF worker.detached THEN rows
                ELSE [rows EXCEPT ![o] = [revision |-> worker.before, of |-> worker.read]]
Publish ==
  LET o == worker.owner
  IN  /\ worker.at = "after"
      /\ IF Revision(o) = worker.before
           THEN rows' = Published(o) /\ Goto("completing")
           ELSE UNCHANGED rows /\ Goto("failing")
      /\ UNCHANGED <<sources, refresh, queue, scheduled, reader, up, spent>>

(* complete_refresh() and fail_refresh() read the revision, then write.    *)
Settle ==
  /\ worker.at \in {"completing", "failing"}
  /\ worker' = [worker EXCEPT !.at = IF @ = "completing" THEN "complete" ELSE "fail", !.current = Revision(worker.owner)]
  /\ WorkerOnly

Complete ==
  LET o == worker.owner
      lost == refresh[o].state # "rebuilding" \/ refresh[o].desired # worker.claimed
      moved == worker.current # worker.claimed
  IN  /\ worker.at = "complete"
      /\ IF lost
           THEN Goto("failing") /\ UNCHANGED refresh
           ELSE /\ refresh' = [refresh EXCEPT ![o] = IF moved THEN [desired |-> worker.current, state |-> "queued"]
                                                              ELSE [@ EXCEPT !.state = "ready"]]
                /\ NextPass(moved)
      /\ UNCHANGED <<sources, rows, queue, scheduled, reader, up, spent>>

\* Mutant of Fail.
FailSilently == worker.at = "fail" /\ NextPass(FALSE) /\ UNCHANGED <<sources, index, queue, scheduled, reader, up, spent>>
Fail ==
  LET o == worker.owner
      moved == worker.current # worker.claimed
  IN  /\ worker.at = "fail"
      /\ refresh' = [refresh EXCEPT ![o] =
           IF @.state # "rebuilding" THEN @
           ELSE IF moved THEN [desired |-> worker.current, state |-> "queued"]
           ELSE [@ EXCEPT !.state = "failed"]]
      /\ NextPass(moved)
      /\ UNCHANGED <<sources, rows, queue, scheduled, reader, up, spent>>

-----------------------------------------------------------------------------
(* The process stops anywhere; what is not in a file is lost.              *)
Crash ==
  /\ up
  /\ spent.faults < MaxFaults
  /\ up' = FALSE
  /\ writer' = Nobody
  /\ worker' = Idle /\ queue' = <<>> /\ scheduled' = {} /\ reader' = NoReader
  /\ spent' = [spent EXCEPT !.faults = @ + 1]
  /\ UNCHANGED <<jobs, decisions, raw, clock, index>>

(* Startup: recover() of the clock, which may fail, then                   *)
(* recover_pending_refreshes() and the tasks for what is queued.           *)
Restart(fails) ==
  /\ ~up
  /\ up' = TRUE
  /\ IF fails \/ (clock.ok /\ clock.covered = raw) THEN UNCHANGED clock ELSE ClockReset
  /\ refresh' = [o \in Owners |-> IF refresh[o].state = "rebuilding" THEN [refresh[o] EXCEPT !.state = "queued"] ELSE refresh[o]]
  /\ queue' = SetToSeq({o \in Owners : refresh'[o].state = "queued"})
  /\ UNCHANGED <<jobs, decisions, raw, writer, rows, worker, scheduled, reader, spent>>

-----------------------------------------------------------------------------
(* One analysis per organization, published already or never asked for.    *)
Init ==
  /\ jobs = [o \in Owners |-> <<Retained @@ [id |-> 1, at |-> 1]>>]
  /\ decisions = [o \in Owners |-> {}]
  /\ raw = 1
  /\ clock = FreshClock(0, 1)
  /\ writer = Nobody
  /\ \/ rows = EmptyRows /\ refresh = EmptyRefresh
     \/ /\ rows = [o \in Owners |-> [revision |-> Revision(o), of |-> [jobs |-> jobs[o], decisions |-> {}]]]
        /\ refresh = [o \in Owners |-> [desired |-> Revision(o), state |-> "ready"]]
  /\ worker = Idle
  /\ queue = <<>>
  /\ scheduled = {}
  /\ reader = NoReader
  /\ up = TRUE
  /\ spent = [requests |-> 0, faults |-> 0]

(* A bound: an organization that nobody watches only completes jobs.       *)
Mutation ==
  \/ SaveOtherJob
  \/ \E o \in Owners, a \in Analyses : SaveJob(o, a)
  \/ \E o \in Watched :
       \/ DeleteJob(o)
       \/ \E f \in Findings : PutSnapshot(o, {f}) \/ Decide(o, f, "accepted")

WorkerStep ==
  \/ StartTask \/ Claim \/ ReadEarly \/ RevisionBefore \/ Scan \/ ScanFails
  \/ Publish \/ Settle \/ Complete \/ Fail \/ EndTask

Next ==
  \/ Mutation
  \/ \E fails, stuck \in BOOLEAN : RecordMutation(fails, stuck)
  \/ LoseClock
  \/ \E o \in Watched, kind \in Kinds, fails \in BOOLEAN : Request(o, kind, fails)
  \/ Answer \/ Discard
  \/ WorkerStep
  \/ Crash
  \/ \E fails \in BOOLEAN : Restart(fails)

(* Started work goes on: the thread, the event loop and the writer are     *)
(* never starved, and the service manager restarts a stopped process.      *)
Fairness ==
  /\ WF_vars(WorkerStep)
  /\ WF_vars(Answer \/ Discard)
  /\ WF_vars(\E fails, stuck \in BOOLEAN : RecordMutation(fails, stuck))
  /\ WF_vars(\E fails \in BOOLEAN : Restart(fails))

Spec == Init /\ [][Next]_vars /\ Fairness

-----------------------------------------------------------------------------
(* What is labelled current for an owner: the analyses a publication was   *)
(* computed from, while its revision is the owner's.                       *)
Labelled == [o \in Owners |-> IF IsCurrent(rows, o, Revision(o)) THEN rows[o].of.jobs ELSE Nobody]

View == INSTANCE CurrentView WITH authority <- jobs, labelled <- Labelled, Unlabelled <- Nobody

(* The analyses and snapshots behind a projection that is labelled current *)
(* are the retained ones, whatever was written while it was rebuilt, and   *)
(* across lost clocks, failed clock updates and crashes between the write  *)
(* of a source and its record: the index implements CurrentView.           *)
CurrentIsAuthority == View!Spec

(* A refresh that is being rebuilt ends: in a publication, a recorded      *)
(* failure or a new request, also when the process stopped meanwhile.      *)
RebuildEnds == \A o \in Owners : refresh[o].state = "rebuilding" ~> refresh[o].state # "rebuilding"

(* The answer adds up: every analysis of the period is counted in exactly  *)
(* one bucket, also one that finished at either end of it; the ecosystems  *)
(* of an analysis add up to its public changes; a finding has one sample   *)
(* of each kind at most, and no median exceeds its ninetieth percentile.   *)
FactsAgree ==
  \A o \in Owners :
    LET facts == Materialize(rows[o].of.jobs, rows[o].of.decisions)
        sum(set, Field(_)) == FoldSet(LAMBDA x, acc : Field(x) + acc, 0, set)
    IN  /\ \A cutoff \in 0..raw, width \in 1..2 :
             LET buckets == Buckets(facts, cutoff, raw, width)
             IN  sum(DOMAIN buckets, LAMBDA k : buckets[k].completed)
                   = Cardinality({i \in DOMAIN facts.rows : InPeriod(facts.rows[i], cutoff, raw)})
        /\ \A i \in DOMAIN facts.rows :
             LET mine == {e \in facts.ecosystems : e.job = facts.rows[i].job}
             IN  /\ sum(mine, LAMBDA e : e.new) = facts.rows[i].publicNew
                 /\ sum(mine, LAMBDA e : e.gone) = facts.rows[i].publicGone
        /\ \A s, t \in facts.durations : s.kind = t.kind /\ s.finding = t.finding => s = t
        /\ \A kind \in {"first_review", "verified_resolution"}, cutoff \in 0..raw :
             DurationSummary(facts, kind, cutoff).twiceMedian <= 2 * DurationSummary(facts, kind, cutoff).p90
=============================================================================
