-------------------------- MODULE ActiveGovernance --------------------------
(***************************************************************************)
(* Who may change an Active asset, and what a change leaves on disk: the   *)
(* four-eyes approvals of registrations, renewals and revocations          *)
(* (active_change_approvals.py), the asset registry with its batches and   *)
(* its derived identity index (active_assets.py), control verification     *)
(* across the await of its check (active_asset_verification.py) and the    *)
(* deletion cascade (active_asset_deletion.py), with the handlers of       *)
(* main.py that call them.                                                 *)
(*                                                                         *)
(* A handler is synchronous between two awaits, so a change, a batch and a *)
(* cascade are sequences of writes that only a crash separates: "op" holds *)
(* the one in progress and no other handler runs meanwhile.  The check of  *)
(* a challenge awaits, and everything may happen during it.                *)
(***************************************************************************)
EXTENDS Naturals, FiniteSets

CONSTANTS
  Actors, Admins,    \* accounts that request and apply changes; administrators
  Assets,            \* asset record ids
  Batch,             \* the ids one batch file derives from its idempotency key
  Exercised,         \* bound: the assets renewed, revoked, verified and executed
  Ident,             \* the (type, value) identity each id would register
  Approvals, Challenges,   \* ids of approval and verification records
  Remote,            \* the challenges checked by the isolated runner
  None,
  MaxRev,            \* bound: renewals of one asset
  MaxNow,            \* bound: clock
  MaxFaults,         \* bound: failed writes, failed steps and crashes
  Ttl,               \* hours an approval, a challenge and an authorization last
  Retention          \* terminal approvals are kept this long

\* The records of the stores.
ApprovalStatus ==
  {"pending", "approved", "executing", "consumed", "rejected", "expired", "interrupted"}
ChangeRecord ==
  [kind: {"registration", "renewal", "revocation"}, target: Assets, rev: 0..MaxRev]
AssetRecord == [rev: 1..MaxRev, revoked: BOOLEAN, exp: Nat]
ApprovalRecord ==
  [status: ApprovalStatus, chg: ChangeRecord, by: Actors, approver: Admins \cup {None},
   expires: Nat, at: Nat, spent: Nat]
ChallengeRecord ==
  [asset: Assets, status: {"pending", "verified", "failed", "revoked"}, until: Nat]
CheckRecord == [exp: Nat, asset: Assets]

ASSUME GovernanceAssumption ==
  /\ Batch \subseteq Assets /\ Exercised \subseteq Assets /\ Remote \subseteq Challenges
  /\ \A a, b \in Batch : Ident[a] = Ident[b] => a = b   \* batch_duplicate_identity
  /\ None \notin Approvals \cup Actors \cup Admins \cup Assets
  /\ None \notin AssetRecord /\ None \notin ApprovalRecord
  /\ None \notin ChallengeRecord /\ None \notin CheckRecord
  /\ Ttl \in Nat \ {0} /\ Retention \in Nat
  /\ MaxRev \in Nat \ {0} /\ MaxNow \in Nat /\ MaxFaults \in Nat

VARIABLES
  now, faults, fourEyes,   \* clock, faults so far, ACTIVE_FOUR_EYES_ENABLED of this boot
  assets, acked, dropped,  \* the files; ids whose creation was acknowledged; ids a start removed
  index, stamp,            \* identity index; FALSE: the memory of its file state is void
  admitted, journal, receipt,  \* the batch's preflight token, journal and receipt
  approvals, challenges, checks,
  jobs, policies, audited, \* executions, recurrences, audit rows naming the asset
  markers,                 \* deletion markers
  op                       \* the synchronous request in progress

vars == <<now, faults, fourEyes, assets, acked, dropped, index, stamp, admitted, journal, receipt,
          approvals, challenges, checks, jobs, policies, audited, markers, op>>

clock == <<now, faults, fourEyes>>
registry == <<assets, acked, dropped, index, stamp, admitted, journal, receipt>>
control == <<challenges, checks>>
cascade == <<jobs, policies, audited, markers>>

Idle == [pc |-> "idle"]
Disk == {a \in Assets : assets[a] # None}

Terminal == {"consumed", "rejected", "expired", "interrupted"}

Init ==
  /\ now = 0 /\ faults = 0 /\ fourEyes \in BOOLEAN
  /\ assets = [a \in Assets |-> None] /\ acked = {} /\ dropped = {}
  /\ index = {} /\ stamp = FALSE /\ admitted = FALSE /\ journal = "none" /\ receipt = FALSE
  /\ approvals = [p \in Approvals |-> None]
  /\ challenges = [c \in Challenges |-> None] /\ checks = [c \in Challenges |-> None]
  /\ jobs = [a \in Assets |-> "none"] /\ policies = [a \in Assets |-> "none"]
  /\ audited = {} /\ markers = {} /\ op = Idle

---------------------------------------------------------------------------
(* The registry: what a reader sees, and the derived identity index. *)

\* _materialize_status(), and get(): a marker hides the asset.
Status(a) ==
  IF assets[a] = None \/ a \in markers THEN "absent"
  ELSE IF assets[a].revoked THEN "revoked"
  ELSE IF assets[a].exp <= now THEN "expired" ELSE "active"

\* The change a payload asks for; a renewal names the revision it expects.
Change(kind, a) ==
  [kind |-> kind, target |-> a,
   rev |-> IF kind = "renewal" /\ assets[a] # None THEN assets[a].rev ELSE 0]

\* An approval of a registration names no asset.
ScopeOf(p) ==
  IF approvals[p] = None \/ approvals[p].chg.kind = "registration" THEN None
  ELSE approvals[p].chg.target

\* Mutant of EnsureIndex: the memory of the file state is trusted after a failure.
StaleIndex == index

\* _ensure_index_current_unlocked(): rebuilt from the records unless the file
\* states remembered by this process still hold.
EnsureIndex == IF stamp THEN index ELSE Disk

\* _index_identity_exists_unlocked().
IdentityTaken(S) == \E a \in EnsureIndex : Ident[a] \in {Ident[b] : b \in S}

Available == op = Idle /\ markers = {}

---------------------------------------------------------------------------
(* Four-eyes approvals. *)

\* _normalize_expired(): due requests expire.
NormalizedExpired(t) ==
  [p \in Approvals |->
     IF approvals[p] # None /\ approvals[p].status \in {"pending", "approved"}
        /\ approvals[p].expires <= t
     THEN [approvals[p] EXCEPT !.status = "expired", !.at = t] ELSE approvals[p]]

\* _normalize(): and old terminal records are dropped.
Normalized(t) ==
  LET seen == NormalizedExpired(t)
  IN [p \in Approvals |->
        IF seen[p] # None /\ seen[p].status \in Terminal /\ seen[p].at + Retention < t
        THEN None ELSE seen[p]]

\* request(): a live request of the same requester and digest is returned as
\* it is, a full store refuses.
Request(u, chg) ==
  LET recs == Normalized(now)
      live == {p \in Approvals : recs[p] # None /\ recs[p].chg = chg /\ recs[p].by = u
                                 /\ recs[p].status \in {"pending", "approved", "executing"}}
  IN /\ op = Idle /\ fourEyes /\ live = {}
     /\ \E p \in Approvals :
          /\ recs[p] = None
          /\ approvals' = [recs EXCEPT ![p] =
               [status |-> "pending", chg |-> chg, by |-> u, approver |-> None,
                expires |-> now + Ttl, at |-> now, spent |-> 0]]
     /\ UNCHANGED <<clock, registry, control, cascade, op>>

RequestRegistration(u, a) == a \notin Batch /\ Request(u, Change("registration", a))
RequestRenewal(u, a) == Status(a) # "absent" /\ Request(u, Change("renewal", a))
RequestRevocation(u, a) == Status(a) # "absent" /\ Request(u, Change("revocation", a))

\* _decide(), for administrators: u is not the requester.
Decide(u, p, approve) ==
  LET recs == Normalized(now)
  IN /\ op = Idle /\ fourEyes
     /\ recs[p] # None /\ recs[p].status = "pending" /\ recs[p].by # u
     /\ approvals' = [recs EXCEPT ![p].status = IF approve THEN "approved" ELSE "rejected",
                                  ![p].approver = u, ![p].at = now]
     /\ UNCHANGED <<clock, registry, control, cascade, op>>

ApproveChange(u, p) == Decide(u, p, TRUE)
RejectChange(u, p) == Decide(u, p, FALSE)

\* list(): saves what normalisation changed.
ListApprovals ==
  /\ op = Idle /\ Normalized(now) # approvals
  /\ approvals' = Normalized(now)
  /\ UNCHANGED <<clock, registry, control, cascade, op>>

\* The handler is in its claimed change.
Applying(u, chg, p) == op' = [pc |-> "apply", chg |-> chg, by |-> u, approval |-> p]

\* claim() with an approval's id, and claim_matching(), which refuses when
\* several match.
Claim(u, chg, p) ==
  LET recs == Normalized(now)
  IN /\ recs[p] # None /\ recs[p].status = "approved"
     /\ recs[p].by = u /\ recs[p].chg = chg
     /\ approvals' = [recs EXCEPT ![p].status = "executing"]

\* _claim_active_change(): without four-eyes nothing is claimed.
ClaimChange(u, chg) ==
  /\ op = Idle
  /\ \/ ~fourEyes /\ Applying(u, chg, None) /\ UNCHANGED approvals
     \/ fourEyes /\ \E p \in Approvals : Claim(u, chg, p) /\ Applying(u, chg, p)
  /\ UNCHANGED <<clock, registry, control, cascade>>

CreateAsset(u, a) == a \notin Batch /\ ClaimChange(u, Change("registration", a))
RenewAsset(u, a) == ClaimChange(u, Change("renewal", a))

\* revoke_active_asset(): an administrator's security hold bypasses the review.
RevokeAsset(u, a) ==
  \/ ClaimChange(u, Change("revocation", a))
  \/ /\ op = Idle /\ fourEyes /\ u \in Admins
     /\ Applying(u, Change("revocation", a), None)
     /\ UNCHANGED <<clock, registry, approvals, control, cascade>>

\* The refusals of create(), renew() and revoke(), and what each writes.
CreateAdmits(a) == assets[a] = None /\ markers = {} /\ ~IdentityTaken({a})
RenewAdmits(a, rev) ==
  Status(a) \in {"active", "expired"} /\ rev = assets[a].rev /\ assets[a].rev < MaxRev
RevokeAdmits(a) == Status(a) # "absent"

Admits(chg) ==
  CASE chg.kind = "registration" -> CreateAdmits(chg.target)
    [] chg.kind = "renewal"      -> RenewAdmits(chg.target, chg.rev)
    [] chg.kind = "revocation"   -> RevokeAdmits(chg.target)

Registered == [rev |-> 1, revoked |-> FALSE, exp |-> now + Ttl]
Renewed(r) == [r EXCEPT !.rev = @ + 1, !.exp = now + Ttl]

Written(chg) ==
  CASE chg.kind = "registration" -> Registered
    [] chg.kind = "renewal"      -> Renewed(assets[chg.target])
    [] chg.kind = "revocation"   -> [assets[chg.target] EXCEPT !.revoked = TRUE]

\* _index_upsert_records_unlocked() and _index_delete_records_unlocked().
Upsert(S) == index' = EnsureIndex \cup S /\ stamp' = TRUE
IndexDelete(S) == index' = EnsureIndex \ S /\ stamp' = TRUE

\* _write_record_unlocked(): the record, then the index.  When the index can
\* neither be updated nor rebuilt the record stays and the caller is refused.
ApplyChange ==
  LET chg == op.chg
  IN /\ op.pc = "apply"
     /\ \/ /\ Admits(chg)
           /\ assets' = [assets EXCEPT ![chg.target] = Written(chg)]
           /\ \/ /\ Upsert({chg.target})
                 /\ acked' = IF chg.kind = "registration" THEN acked \cup {chg.target} ELSE acked
                 /\ op' = [op EXCEPT !.pc = "applied"]
                 /\ UNCHANGED faults
              \/ /\ faults < MaxFaults /\ faults' = faults + 1
                 /\ index' = EnsureIndex /\ stamp' = FALSE
                 /\ op' = [op EXCEPT !.pc = "refused"]
                 /\ UNCHANGED acked
        \/ /\ op' = [op EXCEPT !.pc = "refused"]     \* refused, or a responsible left the team
           /\ UNCHANGED <<assets, acked, index, stamp, faults>>
     /\ UNCHANGED <<dropped, admitted, now, fourEyes, journal, receipt, approvals, control, cascade>>

\* Mutant of FinishChange: an applied change gives its approval back.
FinishReturns ==
  /\ op.pc \in {"applied", "refused"}
  /\ approvals' = IF op.approval = None THEN approvals
                  ELSE [approvals EXCEPT ![op.approval].status = "approved",
                                         ![op.approval].spent = IF op.pc = "applied" THEN @ + 1 ELSE @]
  /\ op' = IF op.pc = "applied" THEN [op EXCEPT !.pc = "suspend"] ELSE Idle
  /\ UNCHANGED <<clock, registry, control, cascade>>

\* _finish_active_change(): consumed, or approved again when the change was
\* refused.  "spent" counts the applications a requester was told of.
FinishChange ==
  /\ op.pc \in {"applied", "refused"}
  /\ approvals' =
       IF op.approval = None THEN approvals
       ELSE IF op.pc = "applied"
       THEN [approvals EXCEPT ![op.approval].status = "consumed", ![op.approval].at = now,
                              ![op.approval].spent = @ + 1]
       ELSE [approvals EXCEPT ![op.approval].status = "approved"]
  /\ op' = IF op.pc = "applied" THEN [op EXCEPT !.pc = "suspend"] ELSE Idle
  /\ UNCHANGED <<clock, registry, control, cascade>>

\* The rest of the handler: recurrences of a renewed or revoked asset are
\* suspended, and the audit row names the asset.
SuspendRecurrences ==
  LET a == op.chg.target
  IN /\ op.pc = "suspend"
     /\ policies' = IF op.chg.kind # "registration" /\ policies[a] = "armed"
                    THEN [policies EXCEPT ![a] = "suspended"] ELSE policies
     /\ audited' = audited \cup {a}
     /\ op' = Idle
     /\ UNCHANGED <<clock, registry, approvals, control, jobs, markers>>

---------------------------------------------------------------------------
(* Batches: create_many() and its recovery. *)

\* preflight_active_asset_batch(): a file without conflicts gets a token.
PreflightBatch ==
  /\ Available /\ ~fourEyes /\ ~admitted /\ ~IdentityTaken(Batch)
  /\ admitted' = TRUE
  /\ index' = EnsureIndex /\ stamp' = TRUE
  /\ UNCHANGED <<clock, assets, acked, dropped, journal, receipt, approvals, control, cascade, op>>

\* create_active_asset_batch() spends the token, and create_many() begins: a
\* retained receipt replays without a write, a leftover journal refuses.
BeginBatch ==
  /\ Available /\ ~fourEyes /\ admitted /\ ~receipt /\ journal = "none"
  /\ admitted' = FALSE
  /\ ~IdentityTaken(Batch)
  /\ \A a \in Batch : assets[a] = None
  /\ journal' = "pending"
  /\ index' = EnsureIndex /\ stamp' = TRUE
  /\ op' = [pc |-> "members", todo |-> Batch]
  /\ UNCHANGED <<clock, assets, acked, dropped, receipt, approvals, control, cascade>>

WriteMember ==
  /\ op.pc = "members" /\ op.todo # {}
  /\ \E a \in op.todo :
       /\ assets' = [assets EXCEPT ![a] = Registered]
       /\ op' = [op EXCEPT !.todo = @ \ {a}]
  /\ UNCHANGED <<dropped, admitted, clock, acked, index, stamp, journal, receipt, approvals, control, cascade>>

\* The index, the committed journal, the receipt and the end of the journal.
CommitBatch ==
  \/ /\ op.pc = "members" /\ op.todo = {}
     /\ index' = index \cup Batch /\ op' = [pc |-> "commit"]
     /\ UNCHANGED <<dropped, admitted, clock, assets, acked, stamp, journal, receipt, approvals, control, cascade>>
  \/ /\ op.pc = "commit" /\ journal = "pending"
     /\ journal' = "committed"
     /\ UNCHANGED <<dropped, admitted, clock, assets, acked, index, stamp, receipt, approvals, control, cascade, op>>
  \/ /\ op.pc = "commit" /\ journal = "committed" /\ ~receipt
     /\ receipt' = TRUE
     /\ UNCHANGED <<dropped, admitted, clock, assets, acked, index, stamp, journal, approvals, control, cascade, op>>
  \/ /\ op.pc = "commit" /\ receipt
     /\ journal' = "none" /\ acked' = acked \cup Batch /\ audited' = audited \cup Batch
     /\ op' = Idle
     /\ UNCHANGED <<dropped, admitted, clock, assets, index, stamp, receipt, approvals, control, jobs, policies, markers>>

\* The except clause undoes an I/O error.  An index that can neither be
\* updated nor rebuilt raises another error: nothing is undone and the
\* journal stays pending until the next start.
FailBatch ==
  /\ op.pc \in {"members", "commit"} /\ faults < MaxFaults /\ faults' = faults + 1
  /\ op' = Idle
  /\ \/ /\ assets' = [a \in Assets |-> IF a \in Batch THEN None ELSE assets[a]]
        /\ index' = index \ Batch /\ journal' = "none" /\ receipt' = FALSE
        /\ UNCHANGED stamp
     \/ /\ op.pc = "members" /\ op.todo = {}
        /\ stamp' = FALSE
        /\ UNCHANGED <<assets, index, journal, receipt>>
  /\ UNCHANGED <<dropped, admitted, now, fourEyes, acked, approvals, control, cascade>>

---------------------------------------------------------------------------
(* Control verification. *)

\* _materialize(), and get() of a record that is gone.
Materialized(c) ==
  IF challenges[c] = None THEN "absent"
  ELSE IF challenges[c].status \in {"pending", "verified"} /\ challenges[c].until <= now
  THEN "expired" ELSE challenges[c].status

\* start(): pending challenges of the asset are superseded.  The hourly limit
\* of attempts is the number of ids.
StartChallenge(a, c) ==
  LET mine == {d \in Challenges : challenges[d] # None /\ challenges[d].asset = a}
  IN /\ op = Idle /\ Status(a) = "active" /\ challenges[c] = None /\ checks[c] = None
     /\ challenges' = [d \in Challenges |->
          IF d = c THEN [asset |-> a, status |-> "pending", until |-> now + Ttl]
          ELSE IF d \in mine /\ Materialized(d) = "pending"
          THEN [challenges[d] EXCEPT !.status = "revoked", !.until = 0] ELSE challenges[d]]
     /\ audited' = audited \cup {a}
     /\ UNCHANGED <<clock, registry, approvals, checks, jobs, policies, markers, op>>

\* check_active_asset_verification() up to its await, with the asset it read.
BeginCheck(c) ==
  /\ op = Idle /\ challenges[c] # None /\ checks[c] = None
  /\ Status(challenges[c].asset) = "active" /\ Materialized(c) = "pending"
  /\ checks' = [checks EXCEPT ![c] = [exp |-> assets[challenges[c].asset].exp,
                                      asset |-> challenges[c].asset]]
  /\ UNCHANGED <<clock, registry, approvals, challenges, cascade, op>>

\* wait_for_active_verification_stop(): the watcher of a remote check.
StopCheck(c) ==
  /\ op = Idle /\ checks[c] # None /\ c \in Remote
  /\ \/ Materialized(c) # "pending"
     \/ Status(checks[c].asset) # "active"
  /\ checks' = [checks EXCEPT ![c] = None]
  /\ UNCHANGED <<clock, registry, approvals, challenges, cascade, op>>

\* Mutant of CompleteCheck: the challenge is not read again after the await.
CompleteUnread(c, matched) ==
  LET until == IF checks[c].exp < now + Ttl THEN checks[c].exp ELSE now + Ttl
  IN /\ op = Idle /\ checks[c] # None
     /\ checks' = [checks EXCEPT ![c] = None]
     /\ challenges' = [challenges EXCEPT ![c] =
          [asset |-> checks[c].asset, status |-> IF matched THEN "verified" ELSE "failed",
           until |-> until]]
     /\ UNCHANGED <<clock, registry, approvals, cascade, op>>

\* complete(): the challenge is read again, the asset is not.
CompleteCheck(c, matched) ==
  LET until == IF checks[c].exp < now + Ttl THEN checks[c].exp ELSE now + Ttl
  IN /\ op = Idle /\ checks[c] # None
     /\ checks' = [checks EXCEPT ![c] = None]
     /\ challenges' =
          IF Materialized(c) = "pending"
          THEN [challenges EXCEPT ![c].status = IF matched THEN "verified" ELSE "failed",
                                  ![c].until = IF matched THEN until ELSE 0]
          ELSE challenges
     /\ UNCHANGED <<clock, registry, approvals, cascade, op>>

\* revoke() and its handler.
RevokeChallenge(c) ==
  /\ op = Idle /\ challenges[c] # None /\ Status(challenges[c].asset) # "absent"
  /\ challenges' = [challenges EXCEPT ![c].status = "revoked", ![c].until = 0]
  /\ policies' = [policies EXCEPT ![challenges[c].asset] =
                    IF @ = "armed" THEN "suspended" ELSE @]
  /\ UNCHANGED <<clock, registry, approvals, checks, jobs, audited, markers, op>>

---------------------------------------------------------------------------
(* The executions and recurrences a deletion must find (ActiveExecution). *)

Execute(a) ==
  /\ op = Idle
  /\ \/ /\ Status(a) = "active" /\ jobs[a] # "active" /\ jobs' = [jobs EXCEPT ![a] = "active"]
        /\ audited' = audited \cup {a} /\ UNCHANGED policies
     \/ /\ jobs[a] = "active" /\ jobs' = [jobs EXCEPT ![a] = "done"] /\ UNCHANGED <<audited, policies>>
     \/ /\ Status(a) = "active" /\ policies[a] # "armed"
        /\ \E c \in Challenges : challenges[c] # None /\ challenges[c].asset = a
                                 /\ Materialized(c) = "verified"
        /\ policies' = [policies EXCEPT ![a] = "armed"] /\ UNCHANGED <<audited, jobs>>
  /\ UNCHANGED <<clock, registry, approvals, control, markers, op>>

---------------------------------------------------------------------------
(* Deletion. *)

ActiveWork(a) ==
  \/ jobs[a] = "active"
  \/ \E c \in Challenges : challenges[c] # None /\ challenges[c].asset = a
                           /\ Materialized(c) = "pending"

\* _prepare(): the marker of an earlier attempt is resumed.
BeginDelete(a) ==
  /\ op = Idle
  /\ \/ a \in markers /\ UNCHANGED markers
     \/ /\ a \notin markers /\ assets[a] # None /\ ~ActiveWork(a)
        /\ markers' = markers \cup {a}
  /\ op' = [pc |-> "verifications", asset |-> a, todo |-> {}]
  /\ UNCHANGED <<clock, registry, approvals, control, jobs, policies, audited>>

After == IF op.todo = {} THEN Idle ELSE [pc |-> "resume", todo |-> op.todo]

\* Mutant of NextPc: the asset goes before the receipts that name it.
AssetFirst ==
  [verifications |-> "jobs", jobs |-> "audit", audit |-> "policies", policies |-> "approvals",
   approvals |-> "asset", asset |-> "receipts", receipts |-> "marker"]

\* The order of the writes of _execute().
NextPc ==
  [verifications |-> "jobs", jobs |-> "audit", audit |-> "policies", policies |-> "approvals",
   approvals |-> "receipts", receipts |-> "asset", asset |-> "marker"]

\* _execute(): one disjunct per write, then the search for orphans.
DeleteStep ==
  LET a == op.asset
      To == op' = [op EXCEPT !.pc = NextPc[@]]
      Keep == UNCHANGED <<clock, journal, dropped, admitted>>
      orphans == \/ assets[a] # None \/ jobs[a] # "none" \/ policies[a] # "none"
                 \/ \E p \in Approvals : ScopeOf(p) = a
                 \/ \E c \in Challenges : challenges[c] # None /\ challenges[c].asset = a
  IN \/ /\ op.pc = "verifications" /\ To
        /\ challenges' = [c \in Challenges |->
             IF challenges[c] # None /\ challenges[c].asset = a THEN None ELSE challenges[c]]
        /\ Keep /\ UNCHANGED <<assets, acked, index, stamp, receipt, approvals, checks, cascade>>
     \/ /\ op.pc = "jobs" /\ To /\ jobs' = [jobs EXCEPT ![a] = "none"]
        /\ Keep /\ UNCHANGED <<assets, acked, index, stamp, receipt, approvals, control, policies, audited, markers>>
     \/ /\ op.pc = "audit" /\ To /\ audited' = audited \ {a}
        /\ Keep /\ UNCHANGED <<assets, acked, index, stamp, receipt, approvals, control, jobs, policies, markers>>
     \/ /\ op.pc = "policies" /\ To /\ policies' = [policies EXCEPT ![a] = "none"]
        /\ Keep /\ UNCHANGED <<assets, acked, index, stamp, receipt, approvals, control, jobs, audited, markers>>
     \/ /\ op.pc = "approvals" /\ To
        /\ approvals' = [p \in Approvals |-> IF ScopeOf(p) = a THEN None ELSE approvals[p]]
        /\ Keep /\ UNCHANGED <<assets, acked, index, stamp, receipt, control, cascade>>
     \/ /\ op.pc = "receipts" /\ To /\ receipt' = (receipt /\ a \notin Batch)
        /\ Keep /\ UNCHANGED <<assets, acked, index, stamp, approvals, control, cascade>>
     \/ /\ op.pc = "asset" /\ To
        /\ assets' = [assets EXCEPT ![a] = None] /\ acked' = acked \ {a}
        /\ IndexDelete({a})
        /\ Keep /\ UNCHANGED <<receipt, approvals, control, cascade>>
     \/ /\ op.pc = "marker" /\ ~orphans
        /\ markers' = markers \ {a} /\ op' = After
        /\ Keep /\ UNCHANGED <<assets, acked, index, stamp, receipt, approvals, control, jobs, policies, audited>>

DeletePcs == {"verifications", "jobs", "audit", "policies", "approvals", "receipts", "asset", "marker"}

\* A step raises: the marker stays for a retry or the next start.
FailDelete ==
  /\ op.pc \in DeletePcs /\ faults < MaxFaults /\ faults' = faults + 1
  /\ op' = After
  /\ UNCHANGED <<now, fourEyes, registry, approvals, control, cascade>>

---------------------------------------------------------------------------
(* Crash and start. *)

\* recover_interrupted(): what a crash left executing is never applied again.
Recovered(r) == IF r.status = "executing" THEN [r EXCEPT !.status = "interrupted", !.at = now] ELSE r

\* Mutant of Unfinished: a batch is judged by its receipt alone.
UnfinishedByReceipt == ~receipt

\* A journal that is not committed, or whose records are not all there.
Whole == journal = "committed" /\ Batch \subseteq Disk
Unfinished == journal # "none" /\ ~Whole

\* The process dies and starts again: batches are recovered, then approvals,
\* then deletions.  The operator may have changed the four-eyes setting.
Crash ==
  /\ faults < MaxFaults /\ faults' = faults + 1
  /\ receipt' = (Whole \/ (receipt /\ ~Unfinished))
  /\ assets' = [a \in Assets |-> IF Unfinished /\ a \in Batch THEN None ELSE assets[a]]
  /\ acked' = IF Whole THEN acked \cup Batch ELSE acked
  /\ dropped' = IF Unfinished THEN dropped \cup (Batch \cap Disk) ELSE dropped
  /\ journal' = "none"
  /\ stamp' = FALSE /\ admitted' = FALSE
  /\ approvals' = [p \in Approvals |->
       IF Normalized(now)[p] = None THEN None ELSE Recovered(Normalized(now)[p])]
  /\ checks' = [c \in Challenges |-> None]
  /\ jobs' = [a \in Assets |-> IF jobs[a] = "active" THEN "done" ELSE jobs[a]]
  /\ op' = IF markers = {} THEN Idle ELSE [pc |-> "resume", todo |-> markers]
  /\ fourEyes' \in BOOLEAN
  /\ UNCHANGED <<now, index, challenges, policies, audited, markers>>

\* recover_pending(): every marker is tried once.
ResumeDelete ==
  /\ op.pc = "resume"
  /\ \E a \in op.todo : op' = [pc |-> "verifications", asset |-> a, todo |-> op.todo \ {a}]
  /\ UNCHANGED <<clock, registry, approvals, control, cascade>>

Tick ==
  /\ op = Idle /\ now < MaxNow /\ now' = now + 1
  /\ UNCHANGED <<faults, fourEyes, registry, approvals, control, cascade, op>>

Next ==
  \/ \E u \in Actors, a \in Exercised :
       \/ RequestRegistration(u, a) \/ RequestRenewal(u, a) \/ RequestRevocation(u, a)
       \/ CreateAsset(u, a) \/ RenewAsset(u, a) \/ RevokeAsset(u, a)
  \/ \E u \in Admins, p \in Approvals : ApproveChange(u, p) \/ RejectChange(u, p)
  \/ ListApprovals
  \/ ApplyChange \/ FinishChange \/ SuspendRecurrences
  \/ PreflightBatch \/ BeginBatch \/ WriteMember \/ CommitBatch \/ FailBatch
  \/ \E a \in Exercised, c \in Challenges : StartChallenge(a, c)
  \/ \E c \in Challenges : BeginCheck(c) \/ StopCheck(c) \/ RevokeChallenge(c)
  \/ \E c \in Challenges, m \in BOOLEAN : CompleteCheck(c, m)
  \/ \E a \in Exercised : Execute(a)
  \/ \E a \in Assets : BeginDelete(a)
  \/ DeleteStep \/ FailDelete \/ Crash \/ ResumeDelete \/ Tick

Spec == Init /\ [][Next]_vars
---------------------------------------------------------------------------
(* Properties. *)

\* The synchronous requests: an approved change, a batch, a cascade, recovery.
Operation ==
  {Idle}
  \cup [pc: {"apply", "applied", "refused", "suspend"}, chg: ChangeRecord, by: Actors,
        approval: Approvals \cup {None}]
  \cup [pc: {"members"}, todo: SUBSET Batch]
  \cup {[pc |-> "commit"]}
  \cup [pc: DeletePcs, asset: Assets, todo: SUBSET Assets]
  \cup [pc: {"resume"}, todo: SUBSET Assets]

TypeOK ==
  /\ now \in 0..MaxNow /\ faults \in 0..MaxFaults /\ fourEyes \in BOOLEAN
  /\ assets \in [Assets -> AssetRecord \cup {None}]
  /\ acked \subseteq Assets /\ dropped \subseteq Assets
  /\ index \subseteq Assets /\ stamp \in BOOLEAN
  /\ admitted \in BOOLEAN /\ journal \in {"none", "pending", "committed"} /\ receipt \in BOOLEAN
  /\ approvals \in [Approvals -> ApprovalRecord \cup {None}]
  /\ challenges \in [Challenges -> ChallengeRecord \cup {None}]
  /\ checks \in [Challenges -> CheckRecord \cup {None}]
  /\ jobs \in [Assets -> {"none", "active", "done"}]
  /\ policies \in [Assets -> {"none", "armed", "suspended"}]
  /\ audited \subseteq Assets /\ markers \subseteq Assets
  /\ op \in Operation

\* An approval is somebody else's, and it is good for one application: once a
\* requester has been told that the change was applied, no request, retry or
\* restart lets the same approval be claimed again (claim(), finish() and
\* recover_interrupted() as three separate writes).
FourEyesOnce ==
  \A p \in Approvals : approvals[p] # None =>
    /\ approvals[p].status \in {"approved", "executing", "consumed", "interrupted"}
         => approvals[p].approver \notin {None, approvals[p].by}
    /\ approvals[p].spent <= 1
    /\ approvals[p].spent = 1 => approvals[p].status = "consumed"

\* An asset that is gone and whose marker is gone left nothing: no challenge
\* (an await in flight must not write one back), execution, recurrence,
\* approval or audit row still names it.  Ids a start removed with their
\* unacknowledged batch are the exception.
NothingLeftBehind ==
  \A a \in Assets \ dropped : assets[a] = None /\ a \notin markers =>
    /\ jobs[a] = "none" /\ policies[a] = "none" /\ a \notin audited
    /\ \A p \in Approvals : ScopeOf(p) # a
    /\ \A c \in Challenges : challenges[c] = None \/ challenges[c].asset # a

\* The replay of a batch reads every record its receipt names: a receipt never
\* outlives a member, not even in the middle of a cascade or of a rollback.
ReceiptMembersExist == receipt => Batch \subseteq Disk

\* Two records never share an identity, whatever failed between a record and
\* the derived index that registration consults.
UniqueIdentity == \A a, b \in Disk : Ident[a] = Ident[b] => a = b

\* A challenge that was revoked or superseded stays so while its check is in
\* flight.
RevokedStaysRevoked ==
  [][\A c \in Challenges :
          challenges[c] # None /\ challenges[c].status = "revoked" /\ challenges'[c] # None
            => challenges'[c].status = "revoked"]_vars

\* An acknowledged registration disappears only through the cascade of its own
\* deletion.
AcknowledgedKept ==
  [][\A a \in acked : assets'[a] # None \/ (op.pc = "asset" /\ op.asset = a)]_vars

\* The registry, its derived index, its receipts and what other stores keep of an
\* asset agree after every crash, failure and cascade.
RegistryWhole == TypeOK /\ NothingLeftBehind /\ ReceiptMembersExist /\ UniqueIdentity

\* No late answer and no restart undoes a revocation or an acknowledged
\* registration.
NothingUndone == RevokedStaysRevoked /\ AcknowledgedKept
=============================================================================
