-------------------------- MODULE FindingDecisions --------------------------
(***************************************************************************)
(* Triage decisions of one organization (backend/app/finding_lifecycle.py) *)
(* and the deletion of a project's decisions (project_deletion.py), file   *)
(* by file.                                                                *)
(*                                                                         *)
(* A decision is never changed: a finding's history is a chain of files    *)
(* linked by previous_decision_id.  A batch stages its decisions, writes a *)
(* journal, moves the files into place and commits with a receipt; without *)
(* its receipt none of them is visible.  Every handler holds the storage   *)
(* lock, but each of its files is a separate write: a handler is compiled  *)
(* into `script`, and may fail or be cut by a crash before any of them.    *)
(***************************************************************************)
EXTENDS Absence, Integers, FiniteSets, SequencesExt

CONSTANTS
    Findings,     \* finding identities
    ProjectOf,    \* ProjectOf[f]: the project a finding belongs to
    Batches,      \* Batches[op] = [items, status]: the request behind an idempotency key
    Statuses,     \* statuses requested one by one
    MaxPerFinding,  \* MAX_DECISIONS_PER_FINDING
    MaxDecisions, \* bound: decision identifiers ever drawn
    MaxStops      \* bound: failed writes and crashes

VARIABLES
    fs,           \* [finals, staged, journals, receipts]: the four directories
    handler,      \* what is running: None or [what, op, project, ids]
    script,       \* its remaining writes
    life,         \* "down", "recovering", "resuming" or "up"
    overdue,      \* decisions whose review date has passed
    deleting,     \* projects with a deletion marker
    excused,      \* deletions whose own write failed in this process
    hurt,         \* a failed batch was left pending, or a deletion was cut short
    answered,     \* decisions whose creation was answered
    drawn,        \* identifiers drawn
    stops

fdVars == <<fs, handler, script, life, overdue, deleting, excused, hurt, answered, drawn, stops>>

AllowedTransitions ==
    [open |-> {"in_review", "accepted", "false_positive", "resolved"},
     in_review |-> {"open", "accepted", "false_positive", "resolved"},
     accepted |-> {"open", "in_review", "resolved"},
     false_positive |-> {"open", "in_review"},
     resolved |-> {"open", "in_review"}]
ExceptionStatuses == {"accepted", "false_positive"}

(* effective_status: an exception whose review is due is back in review. *)
EffectiveStatus(id, d) ==
    IF d.status \in ExceptionStatuses /\ id \in overdue THEN "in_review" ELSE d.status

-----------------------------------------------------------------------------
(* Reading. *)
(* _visible_records_unlocked: None is a store that cannot be read at all. *)
\* Mutant of VisibleIds.
VisibleUncommitted(s) == DOMAIN s.finals
VisibleIds(s) ==
    {x \in DOMAIN s.finals : s.finals[x].batch = None \/ s.finals[x].batch \in DOMAIN s.receipts}
StoreReadable(s) ==
    /\ \A x \in VisibleIds(s) :
          s.finals[x].batch \in DOMAIN s.receipts => x \in s.receipts[s.finals[x].batch].ids
    /\ \A op \in DOMAIN s.receipts :
          {x \in VisibleIds(s) : s.finals[x].batch = op} = s.receipts[op].ids

OfProject(s, p) == {x \in VisibleIds(s) : ProjectOf[s.finals[x].finding] = p}
History(s, f) == {x \in VisibleIds(s) : s.finals[x].finding = f}

(* validated_decision_chains: one root, no missing and no shared parent;    *)
(* identifiers are drawn in order here, so there is no cycle to look for.   *)
ValidChain(s, S) ==
    /\ Cardinality({x \in S : s.finals[x].prev = None}) = 1
    /\ \A x \in S : s.finals[x].prev \in S \cup {None}
    /\ \A x, y \in S : s.finals[x].prev = s.finals[y].prev => x = y
ProjectReadable(s, p) ==
    StoreReadable(s) /\ \A f \in Findings :
        ProjectOf[f] = p /\ History(s, f) # {} => ValidChain(s, History(s, f))

Latest(s, f) ==
    IF History(s, f) = {} THEN None
    ELSE CHOOSE x \in History(s, f) : \A y \in History(s, f) : s.finals[y].prev # x

(* The checks record and record_many share. *)
Admits(s, f, status) ==
    LET last == Latest(s, f) IN
    /\ ProjectOf[f] \notin deleting
    /\ ProjectReadable(s, ProjectOf[f])
    /\ Cardinality(History(s, f)) < MaxPerFinding
    /\ last # None => status \in AllowedTransitions[EffectiveStatus(last, s.finals[last])]

NewDecision(s, f, status, op) ==
    [finding |-> f, status |-> status, prev |-> Latest(s, f), batch |-> op]

-----------------------------------------------------------------------------
(* Writing: one file each. *)
Wr(what, key, id) == [what |-> what, key |-> key, id |-> id]

WrittenFile(s, w) ==
    CASE w.what = "final"     -> [s EXCEPT !.finals = (w.id :> w.key) @@ @]
      [] w.what = "mkdir"     -> [s EXCEPT !.staged = (w.key :> <<>>) @@ @]
      [] w.what = "stage"     -> [s EXCEPT !.staged[w.key.batch] = (w.id :> w.key) @@ @]
      [] w.what = "journal"   -> [s EXCEPT !.journals = (w.key :> w.id) @@ @]
      [] w.what = "move"      -> IF w.id \in DOMAIN s.finals THEN s
                                 ELSE [s EXCEPT !.finals = (w.id :> s.staged[w.key][w.id]) @@ @,
                                                !.staged[w.key] = Drop(@, {w.id})]
      [] w.what = "receipt"   -> [s EXCEPT !.receipts =
                                     (w.key :> [ids |-> w.id, replayable |-> TRUE]) @@ @]
      [] w.what = "unjournal" -> [s EXCEPT !.journals = Drop(@, {w.key})]
      [] w.what = "rmdir"     -> [s EXCEPT !.staged = Drop(@, {w.key})]
      [] w.what = "unlink"    -> [s EXCEPT !.finals = Drop(@, {w.id})]
      [] w.what = "cut"       ->
            IF s.receipts[w.key].ids \subseteq w.id
            THEN [s EXCEPT !.receipts = Drop(@, {w.key})]
            ELSE [s EXCEPT !.receipts[w.key] = [ids |-> @.ids \ w.id, replayable |-> FALSE]]

InOrderOf(S) == SetToSortSeq(S, <)
ForEach(seq, F(_)) == FlattenSeq([i \in 1..Len(seq) |-> <<F(seq[i])>>])

(* _cleanup_completed_batch_unlocked *)
Cleanup(op) == <<Wr("unjournal", op, None), Wr("rmdir", op, None)>>

(* _recover_batch_operation_unlocked: what is left to do for a journal. *)
\* Mutant of Complete.
CompleteReceiptFirst(op, ids) ==
    <<Wr("receipt", op, ids)>> \o ForEach(InOrderOf(ids), LAMBDA x : Wr("move", op, x)) \o Cleanup(op)
Complete(op, ids) ==
    ForEach(InOrderOf(ids), LAMBDA x : Wr("move", op, x)) \o <<Wr("receipt", op, ids)>> \o Cleanup(op)

(* Its refusals (batch_state_invalid): the receipt has been cut since, or a *)
(* decision is neither staged nor in place.                                 *)
Recoverable(s, op) ==
    IF op \in DOMAIN s.receipts THEN s.receipts[op].ids = s.journals[op]
    ELSE /\ op \in DOMAIN s.staged
         /\ s.journals[op] \subseteq DOMAIN s.finals \cup DOMAIN s.staged[op]

Recovery(s, op) ==
    IF op \in DOMAIN s.receipts THEN Cleanup(op) ELSE Complete(op, s.journals[op])

(* _prepare_batch_unlocked *)
Prepare(s, op, batch) ==
    ForEach(InOrderOf(DOMAIN batch), LAMBDA x : Wr("stage", batch[x], x))
    \o <<Wr("journal", op, DOMAIN batch)>>

(* _cleanup_orphan_batches_unlocked *)
Orphans(s) ==
    LET kept == DOMAIN s.receipts \cup DOMAIN s.journals IN
    ForEach(InOrderOf({x \in DOMAIN s.finals : s.finals[x].batch \notin kept \cup {None}}),
            LAMBDA x : Wr("unlink", None, x))
    \o ForEach(SetToSeq(DOMAIN s.staged \ DOMAIN s.journals), LAMBDA op : Wr("rmdir", op, None))

(* FindingDecisionStore.delete_project: the files, root first, then the     *)
(* receipts that named them.                                                *)
DeleteFiles(s, p) ==
    LET gone == OfProject(s, p) IN
    ForEach(InOrderOf(gone), LAMBDA x : Wr("unlink", p, x))
    \o ForEach(SetToSeq({op \in DOMAIN s.receipts : s.receipts[op].ids \cap gone # {}}),
               LAMBDA op : Wr("cut", op, gone))

-----------------------------------------------------------------------------
Run(what, op, project, ids, writes) ==
    /\ handler' = [what |-> what, op |-> op, project |-> project, ids |-> ids]
    /\ script' = writes

Free == life = "up" /\ handler = None

(* record *)
RecordDecision ==
    /\ Free
    /\ drawn < MaxDecisions
    /\ \E f \in Findings, status \in Statuses :
          /\ Admits(fs, f, status)
          /\ Run("record", None, None, {drawn + 1},
                 <<Wr("final", NewDecision(fs, f, status, None), drawn + 1)>>)
    /\ drawn' = drawn + 1
    /\ UNCHANGED <<fs, life, overdue, deleting, excused, hurt, answered, stops>>

(* record_many under a new key. *)
RecordBatch ==
    /\ Free
    /\ \E op \in DOMAIN Batches :
          LET items == InOrderOf(Batches[op].items)
              ids == [i \in 1..Len(items) |-> drawn + i]
              batch == [x \in ToSet(ids) |-> NewDecision(fs, items[x - drawn], Batches[op].status, op)]
          IN  /\ op \notin DOMAIN fs.receipts \cup DOMAIN fs.journals
              /\ drawn + Len(items) <= MaxDecisions
              /\ \A i \in 1..Len(items) : Admits(fs, items[i], Batches[op].status)
              /\ op \notin DOMAIN fs.staged                          \* batch_state_invalid
              /\ Run("batch", op, None, ToSet(ids),
                     <<Wr("mkdir", op, None)>> \o Prepare(fs, op, batch) \o Complete(op, ToSet(ids)))
              /\ drawn' = drawn + Len(items)
    /\ UNCHANGED <<fs, life, overdue, deleting, excused, hurt, answered, stops>>

(* The same key again: a receipt is replayed, a journal is completed. *)
RetryBatch ==
    /\ Free
    /\ \E op \in DOMAIN fs.journals \ DOMAIN fs.receipts :
          /\ Recoverable(fs, op)
          /\ Run("batch", op, None, fs.journals[op], Recovery(fs, op))
    /\ UNCHANGED <<fs, life, overdue, deleting, excused, hurt, answered, drawn, stops>>

ReplayBatch ==
    /\ Free
    /\ \E op \in DOMAIN fs.receipts :
          /\ fs.receipts[op].replayable
          /\ fs.receipts[op].ids \subseteq DOMAIN fs.finals
          /\ answered' = answered \cup fs.receipts[op].ids
    /\ UNCHANGED <<fs, handler, script, life, overdue, deleting, excused, hurt, drawn, stops>>

(* ProjectDeletionService.delete: the marker, then the cascade; a store     *)
(* that cannot be read leaves the marker.                                   *)
DeleteProject ==
    /\ Free
    /\ \E f \in Findings :
          LET p == ProjectOf[f] IN
          /\ p \in deleting \/ ProjectReadable(fs, p)
          /\ deleting' = deleting \cup {p}
          /\ IF ProjectReadable(fs, p)
             THEN Run("delete", None, p, OfProject(fs, p), DeleteFiles(fs, p))
             ELSE UNCHANGED <<handler, script>>
    /\ UNCHANGED <<fs, life, overdue, excused, hurt, answered, drawn, stops>>

Step ==
    /\ script # <<>>
    /\ fs' = WrittenFile(fs, Head(script))
    /\ script' = Tail(script)
    /\ UNCHANGED <<handler, life, overdue, deleting, excused, hurt, answered, drawn, stops>>

Done ==
    /\ handler # None
    /\ script = <<>>
    /\ handler' = None
    /\ answered' = IF handler.what \in {"record", "batch"} THEN answered \cup handler.ids ELSE answered
    /\ deleting' = deleting \ {handler.project}
    /\ UNCHANGED <<fs, script, life, overdue, excused, hurt, drawn, stops>>

(* The deletion was cut between its first and its last write. *)
CutShort == handler # None /\ handler.what = "delete" /\ script # <<>> /\
            handler.ids \ DOMAIN fs.finals # {}

(* A write raises.  Before its journal a batch removes its staging again;   *)
(* after it the journal stays for a retry or the next start.                *)
StepFails ==
    /\ script # <<>>
    /\ stops < MaxStops
    /\ stops' = stops + 1
    /\ LET unjournalled == handler # None /\ handler.what = "batch"
                           /\ handler.op \notin DOMAIN fs.journals \cup DOMAIN fs.receipts
       IN  /\ fs' = IF unjournalled THEN [fs EXCEPT !.staged = Drop(@, {handler.op})] ELSE fs
           /\ hurt' = (hurt \/ CutShort \/ fs'.journals # <<>>)
    /\ excused' = IF handler = None THEN excused ELSE excused \cup {handler.project}
    /\ handler' = None
    /\ script' = <<>>
    /\ life' = IF life = "recovering" THEN "resuming" ELSE life
    /\ UNCHANGED <<overdue, deleting, answered, drawn>>

StoreCrashes ==
    /\ life # "down"
    /\ stops < MaxStops
    /\ stops' = stops + 1
    /\ life' = "down"
    /\ hurt' = (hurt \/ CutShort)
    /\ handler' = None
    /\ script' = <<>>
    /\ excused' = {}
    /\ UNCHANGED <<fs, overdue, deleting, answered, drawn>>

(* lifespan: recover_pending_batches, which stops at the first refusal,     *)
(* then the pending deletions.                                              *)
Recover ==
    /\ life = "down"
    /\ life' = "recovering"
    /\ LET ops == SetToSeq(DOMAIN fs.journals)
           refused == {i \in 1..Len(ops) : ~Recoverable(fs, ops[i])}
           last == IF refused = {} THEN Len(ops) ELSE Min(refused) - 1
       IN  script' = FlattenSeq([i \in 1..last |-> Recovery(fs, ops[i])])
    /\ UNCHANGED <<fs, handler, overdue, deleting, excused, hurt, answered, drawn, stops>>

Sweep ==
    /\ life = "recovering"
    /\ script = <<>>
    /\ life' = "resuming"
    /\ script' = IF fs.journals = <<>> THEN Orphans(fs) ELSE <<>>
    /\ UNCHANGED <<fs, handler, overdue, deleting, excused, hurt, answered, drawn, stops>>

Resumable == {p \in deleting \ excused : ProjectReadable(fs, p)}

Resume ==
    /\ life = "resuming"
    /\ script = <<>>
    /\ handler = None
    /\ IF Resumable = {}
       THEN life' = "up" /\ UNCHANGED <<handler, script>>
       ELSE \E p \in Resumable :
               Run("delete", None, p, OfProject(fs, p), DeleteFiles(fs, p)) /\ UNCHANGED life
    /\ UNCHANGED <<fs, overdue, deleting, excused, hurt, answered, drawn, stops>>

ReviewPasses ==
    /\ Free
    /\ \E x \in DOMAIN fs.finals \ overdue :
          fs.finals[x].status \in ExceptionStatuses /\ overdue' = overdue \cup {x}
    /\ UNCHANGED <<fs, handler, script, life, deleting, excused, hurt, answered, drawn, stops>>

DecisionsInit ==
    /\ fs = [finals |-> <<>>, staged |-> <<>>, journals |-> <<>>, receipts |-> <<>>]
    /\ handler = None
    /\ script = <<>>
    /\ life = "up"
    /\ overdue = {}
    /\ deleting = {}
    /\ excused = {}
    /\ hurt = FALSE
    /\ answered = {}
    /\ drawn = 0
    /\ stops = 0

DecisionsNext ==
    \/ RecordDecision \/ RecordBatch \/ RetryBatch \/ ReplayBatch \/ DeleteProject
    \/ Step \/ Done \/ StepFails \/ StoreCrashes \/ Recover \/ Sweep \/ Resume \/ ReviewPasses

DecisionsSpec == DecisionsInit /\ [][DecisionsNext]_fdVars

-----------------------------------------------------------------------------
(* After any crash inside a decision or a batch, and the recovery of the   *)
(* next start, every project's history can be read and is one chain per    *)
(* finding; the exceptions are a batch whose write failed and that stays   *)
(* pending while decisions go on, and a deletion that was cut short        *)
(* (record_many, recover_pending_batches, validated_decision_chains).      *)
HistoryReadable ==
    life = "up" /\ ~hurt /\ script = <<>> => \A f \in Findings : ProjectReadable(fs, ProjectOf[f])

(* A batch is seen whole or not at all, at every step; once nothing is     *)
(* pending for its key it has left a receipt or no trace, and one key never *)
(* has more decisions than its request; what was answered stays visible    *)
(* until its project is deleted (record_many, _visible_records_unlocked,   *)
(* _cleanup_orphan_batches_unlocked).                                      *)
BatchIsWhole ==
    \A op \in DOMAIN Batches :
        LET made == {x \in DOMAIN fs.finals : fs.finals[x].batch = op}
            deleted == {x \in made : ProjectOf[fs.finals[x].finding] \in deleting}
            seen == made \cap VisibleIds(fs)
        IN  /\ seen # {} /\ deleting = {} => op \in DOMAIN fs.receipts /\ fs.receipts[op].ids = seen
            /\ Cardinality(made) <= Cardinality(Batches[op].items)
            /\ life = "up" /\ script = <<>> /\ op \notin DOMAIN fs.journals =>
                  made = {} \/ op \in DOMAIN fs.receipts
            /\ (answered \cap made) \ deleted \subseteq seen

(* docs/product-projects.md:431-432: an interruption keeps the journal and *)
(* the next attempt or start resumes the same operation.  A running        *)
(* service has no pending deletion but those whose own write failed in it  *)
(* (ProjectDeletionService.recover_pending).                               *)
DeletionResumes == life = "up" /\ handler = None => deleting \subseteq excused
=============================================================================
