----------------------- MODULE ActiveGovernanceProofs -----------------------
(***************************************************************************)
(* Proofs about Active changes for any accounts, assets, batch, approvals  *)
(* and challenges, any retention and any number of faults: an approval is  *)
(* somebody else's and good for one change; the registry, its index, its   *)
(* batch receipt and what other stores keep of an asset agree; and no late *)
(* answer, failure or restart undoes a revocation or an acknowledgement.   *)
(***************************************************************************)
EXTENDS ActiveGovernance, TLAPS

\* What the other stores keep of an asset.
Clean(a) ==
  /\ jobs[a] = "none" /\ policies[a] = "none" /\ a \notin audited
  /\ \A p \in Approvals : ScopeOf(p) # a
  /\ \A c \in Challenges : challenges[c] = None \/ challenges[c].asset # a

InBatch == op.pc \in {"members", "commit"}

\* A claimed approval waits in "executing" for the end of its change; only a
\* consumed one was ever spent.
ClaimHeld ==
  /\ \A p \in Approvals :
       approvals[p] # None => approvals[p].spent = IF approvals[p].status = "consumed" THEN 1 ELSE 0
  /\ op.pc \in {"apply", "applied", "refused"} /\ op.approval # None
       => approvals[op.approval] # None /\ approvals[op.approval].status = "executing"

\* An index whose memory holds is the directory, less the members a batch has
\* written so far.
IndexIsDisk == stamp => index = IF op.pc = "members" THEN Disk \ Batch ELSE Disk

\* What a batch in progress found: its ids and their identities free, nothing
\* acknowledged.
BatchOwnsIds ==
  /\ InBatch => acked \cap Batch = {}
  /\ op.pc = "members" => /\ Batch \ op.todo \subseteq Disk
                          /\ \A a \in Disk \ Batch, b \in Batch : Ident[a] # Ident[b]
                          /\ journal = "pending" /\ ~receipt
  /\ op.pc = "commit" => Batch \subseteq Disk /\ journal # "none"

\* Nothing names the ids of a batch in progress.
BatchIsNew == InBatch => \A a \in Batch \ dropped : Clean(a)

\* A batch without a receipt acknowledges nothing: its journal is pending, or
\* committed by the request in progress.
JournalIsOpen ==
  /\ journal = "committed" => op.pc = "commit"
  /\ journal = "pending" => acked \cap Batch = {}

\* A change in progress is one its target admits; a batch id has no other
\* registration.
ChangeApplies ==
  /\ op.pc \in {"apply", "applied", "refused", "suspend"} /\ op.chg.kind = "registration"
       => op.chg.target \notin Batch
  /\ op.pc \in {"applied", "suspend"} => op.chg.target \in Disk

\* A cascade works under its marker, in the order of its writes.
CascadeInOrder ==
  /\ op.pc \in DeletePcs => op.asset \in markers
  /\ op.pc \in {"policies", "approvals", "receipts", "asset", "marker"} => op.asset \notin audited
  /\ op.pc \in {"asset", "marker"} /\ op.asset \in Batch => ~receipt
  /\ op.pc \in DeletePcs \cup {"resume"} => op.todo \subseteq markers
  /\ op.pc \in DeletePcs => op.asset \notin op.todo

RegistryInv ==
  /\ UniqueIdentity /\ ReceiptMembersExist /\ acked \subseteq Disk
  /\ IndexIsDisk /\ BatchOwnsIds /\ JournalIsOpen /\ ChangeApplies

GovernanceInv ==
  /\ TypeOK /\ FourEyesOnce /\ ClaimHeld
  /\ RegistryInv /\ CascadeInOrder
  /\ NothingLeftBehind /\ BatchIsNew

-----------------------------------------------------------------------------
(* Types. *)

\* The fields of the request in progress, by its pc.
LEMMA OpShape ==
  ASSUME TypeOK
  PROVE  /\ op.pc \in {"apply", "applied", "refused", "suspend"} =>
              op \in [pc: {"apply", "applied", "refused", "suspend"}, chg: ChangeRecord, by: Actors,
                      approval: Approvals \cup {None}]
         /\ op.pc = "members" => op \in [pc: {"members"}, todo: SUBSET Batch]
         /\ op.pc \in DeletePcs => op \in [pc: DeletePcs, asset: Assets, todo: SUBSET Assets]
         /\ op.pc = "resume" => op \in [pc: {"resume"}, todo: SUBSET Assets]
  BY DEF TypeOK, Operation, Idle, DeletePcs

\* What normalisation does to one approval: it is kept, expired or dropped.
LEMMA NormalizedIs ==
  ASSUME TypeOK, NEW p \in Approvals
  PROVE  \/ Normalized(now)[p] = None
         \/ Normalized(now)[p] = approvals[p]
         \/ /\ approvals[p] # None /\ approvals[p].status \in {"pending", "approved"}
            /\ Normalized(now)[p] = [approvals[p] EXCEPT !.status = "expired", !.at = now]
  BY DEF Normalized, NormalizedExpired

\* Normalisation keeps the store typed.
LEMMA NormalizedType ==
  ASSUME TypeOK PROVE Normalized(now) \in [Approvals -> ApprovalRecord \cup {None}]
  <1>1. ASSUME NEW p \in Approvals PROVE Normalized(now)[p] \in ApprovalRecord \cup {None}
    <2>1. now \in Nat /\ approvals[p] \in ApprovalRecord \cup {None}
      BY GovernanceAssumption DEF TypeOK
    <2>2. ASSUME approvals[p] # None
          PROVE  [approvals[p] EXCEPT !.status = "expired", !.at = now] \in ApprovalRecord
      BY <2>1, <2>2 DEF ApprovalRecord, ApprovalStatus
    <2> QED BY <2>1, <2>2, NormalizedIs
  <1>2. Normalized(now) = [p \in Approvals |-> Normalized(now)[p]]
    BY DEF Normalized
  <1> QED BY <1>1, <1>2

\* A change names an asset and a revision it may have.
LEMMA ChangeType ==
  ASSUME TypeOK, NEW a \in Assets
  PROVE  \A k \in {"registration", "renewal", "revocation"} :
            /\ Change(k, a) \in ChangeRecord
            /\ Change(k, a).kind = k /\ Change(k, a).target = a
  BY GovernanceAssumption DEF Change, ChangeRecord, TypeOK, AssetRecord

\* The four-eyes store stays typed.
LEMMA ApprovalTypes ==
  ASSUME TypeOK
  PROVE  /\ \A u \in Actors, chg \in ChangeRecord :
              Request(u, chg) => approvals' \in [Approvals -> ApprovalRecord \cup {None}]
         /\ \A u \in Admins, p \in Approvals, b \in BOOLEAN :
              Decide(u, p, b) => approvals' \in [Approvals -> ApprovalRecord \cup {None}]
         /\ \A u \in Actors, chg \in ChangeRecord, p \in Approvals :
              Claim(u, chg, p) => approvals' \in [Approvals -> ApprovalRecord \cup {None}]
  <1> DEFINE recs == Normalized(now)
  <1>0. now \in Nat /\ now + Ttl \in Nat /\ recs \in [Approvals -> ApprovalRecord \cup {None}]
    BY GovernanceAssumption, NormalizedType DEF TypeOK
  <1> HIDE DEF recs
  <1>1. ASSUME NEW u \in Actors, NEW chg \in ChangeRecord, Request(u, chg)
        PROVE  approvals' \in [Approvals -> ApprovalRecord \cup {None}]
    <2>1. PICK p \in Approvals : approvals' = [recs EXCEPT ![p] =
               [status |-> "pending", chg |-> chg, by |-> u, approver |-> None,
                expires |-> now + Ttl, at |-> now, spent |-> 0]]
      BY <1>1 DEF Request, recs
    <2>2. [status |-> "pending", chg |-> chg, by |-> u, approver |-> None,
           expires |-> now + Ttl, at |-> now, spent |-> 0] \in ApprovalRecord
      BY <1>0 DEF ApprovalRecord, ApprovalStatus
    <2> QED BY <1>0, <2>1, <2>2
  <1>2. ASSUME NEW u \in Admins, NEW p \in Approvals, NEW b \in BOOLEAN, Decide(u, p, b)
        PROVE  approvals' \in [Approvals -> ApprovalRecord \cup {None}]
    <2> DEFINE s == IF b THEN "approved" ELSE "rejected"
    <2>1. /\ recs[p] # None
          /\ approvals' = [recs EXCEPT ![p] = [recs[p] EXCEPT !.status = s, !.approver = u, !.at = now]]
      BY <1>0, <1>2 DEF Decide, recs
    <2>2. [recs[p] EXCEPT !.status = s, !.approver = u, !.at = now] \in ApprovalRecord
      BY <1>0, <2>1 DEF ApprovalRecord, ApprovalStatus
    <2> QED BY <1>0, <2>1, <2>2
  <1>3. ASSUME NEW u \in Actors, NEW chg \in ChangeRecord, NEW p \in Approvals, Claim(u, chg, p)
        PROVE  approvals' \in [Approvals -> ApprovalRecord \cup {None}]
    <2>1. /\ recs[p] # None
          /\ approvals' = [recs EXCEPT ![p] = [recs[p] EXCEPT !.status = "executing"]]
      BY <1>0, <1>3 DEF Claim, recs
    <2>2. [recs[p] EXCEPT !.status = "executing"] \in ApprovalRecord
      BY <1>0, <2>1 DEF ApprovalRecord, ApprovalStatus
    <2> QED BY <1>0, <2>1, <2>2
  <1> QED BY <1>1, <1>2, <1>3

\* An admitted change writes a record.
LEMMA WrittenType ==
  ASSUME TypeOK, NEW chg \in ChangeRecord, Admits(chg) PROVE Written(chg) \in AssetRecord
  <1> USE GovernanceAssumption
  <1>0. now + Ttl \in Nat /\ chg.target \in Assets /\ chg.kind \in {"registration", "renewal", "revocation"}
    BY DEF TypeOK, ChangeRecord
  <1>1. CASE chg.kind = "registration"
    BY <1>0, <1>1 DEF Written, Registered, AssetRecord
  <1>2. CASE chg.kind # "registration"
    <2>1. assets[chg.target] \in AssetRecord
      BY <1>0, <1>2 DEF Admits, RenewAdmits, RevokeAdmits, Status, TypeOK
    <2>2. chg.kind = "renewal" => assets[chg.target].rev < MaxRev
      BY DEF Admits, RenewAdmits
    <2>3. [assets[chg.target] EXCEPT !.revoked = TRUE] \in AssetRecord
      BY <2>1 DEF AssetRecord
    <2>4. ASSUME NEW r \in AssetRecord, r.rev < MaxRev PROVE Renewed(r) \in AssetRecord
      <3> DEFINE n == r.rev + 1
                 e == now + Ttl
      <3>1. Renewed(r) = [r EXCEPT !.rev = n, !.exp = e]
        BY DEF Renewed
      <3>2. n \in 1..MaxRev /\ e \in Nat
        BY <1>0, <2>4 DEF AssetRecord
      <3> HIDE DEF n, e
      <3> QED BY <3>1, <3>2 DEF AssetRecord
    <2> QED BY <1>0, <1>2, <2>1, <2>2, <2>3, <2>4 DEF Written
  <1> QED BY <1>1, <1>2

\* _finish_active_change() of a claimed approval.
LEMMA FinishIs ==
  ASSUME TypeOK, FinishChange, NEW q \in Approvals, op.approval = q, q # None,
         approvals[q] \in ApprovalRecord
  PROVE  \E r \in ApprovalRecord :
            /\ approvals' = [approvals EXCEPT ![q] = r]
            /\ r.chg = approvals[q].chg /\ r.by = approvals[q].by /\ r.approver = approvals[q].approver
            /\ IF op.pc = "applied" THEN r.status = "consumed" /\ r.spent = approvals[q].spent + 1
               ELSE r.status = "approved" /\ r.spent = approvals[q].spent
  <1> DEFINE x == approvals[q]
             r == IF op.pc = "applied"
                  THEN [x EXCEPT !.status = "consumed", !.at = now, !.spent = x.spent + 1]
                  ELSE [x EXCEPT !.status = "approved"]
  <1>0. now \in Nat /\ x \in ApprovalRecord /\ approvals \in [Approvals -> ApprovalRecord \cup {None}]
    BY GovernanceAssumption DEF TypeOK
  <1>1. x.spent + 1 \in Nat
    BY <1>0 DEF ApprovalRecord
  <1>2. r \in ApprovalRecord
    BY <1>0, <1>1 DEF ApprovalRecord, ApprovalStatus
  <1>3. /\ r.chg = x.chg /\ r.by = x.by /\ r.approver = x.approver
        /\ IF op.pc = "applied" THEN r.status = "consumed" /\ r.spent = x.spent + 1
           ELSE r.status = "approved" /\ r.spent = x.spent
    BY <1>0 DEF ApprovalRecord
  <1>4. approvals' = [approvals EXCEPT ![q] = r]
    <2>1. CASE op.pc = "applied"
      <3>1. approvals' = [approvals EXCEPT ![q].status = "consumed", ![q].at = now, ![q].spent = @ + 1]
        BY <2>1 DEF FinishChange
      <3> QED BY <1>0, <2>1, <3>1
    <2>2. CASE op.pc # "applied"
      BY <1>0, <2>2 DEF FinishChange
    <2> QED BY <2>1, <2>2
  <1> QED BY <1>2, <1>3, <1>4

\* Every step keeps the types.
LEMMA TypeStep == ASSUME TypeOK, ClaimHeld, [Next]_vars PROVE TypeOK'
  <1> USE GovernanceAssumption DEF clock, registry, control, cascade
  <1>0. /\ Idle \in Operation /\ [pc |-> "commit"] \in Operation
        /\ \A chg \in ChangeRecord, u \in Actors, q \in Approvals \cup {None},
              c \in {"apply", "applied", "refused", "suspend"} :
                [pc |-> c, chg |-> chg, by |-> u, approval |-> q] \in Operation
        /\ \A T \in SUBSET Batch : [pc |-> "members", todo |-> T] \in Operation
        /\ \A a \in Assets, T \in SUBSET Assets, c \in DeletePcs :
                [pc |-> c, asset |-> a, todo |-> T] \in Operation
        /\ \A T \in SUBSET Assets : [pc |-> "resume", todo |-> T] \in Operation
    BY DEF Operation
  <1>1. now \in Nat /\ now + Ttl \in Nat /\ faults \in Nat
    BY DEF TypeOK
  <1>2. ASSUME NEW u \in Actors, NEW a \in Exercised,
               RequestRegistration(u, a) \/ RequestRenewal(u, a) \/ RequestRevocation(u, a)
        PROVE  TypeOK'
    <2>1. PICK k \in {"registration", "renewal", "revocation"} : Request(u, Change(k, a))
      BY <1>2 DEF RequestRegistration, RequestRenewal, RequestRevocation
    <2>2. approvals' \in [Approvals -> ApprovalRecord \cup {None}]
      BY <2>1, ChangeType, ApprovalTypes
    <2> QED BY <2>1, <2>2 DEF Request, TypeOK
  <1>3. ASSUME NEW u \in Actors, NEW a \in Exercised, NEW k \in {"registration", "renewal", "revocation"},
               ClaimChange(u, Change(k, a))
        PROVE  TypeOK'
    <2>1. Change(k, a) \in ChangeRecord
      BY ChangeType
    <2>2. PICK q \in Approvals \cup {None} :
            /\ op' = [pc |-> "apply", chg |-> Change(k, a), by |-> u, approval |-> q]
            /\ \/ q \in Approvals /\ Claim(u, Change(k, a), q)
               \/ UNCHANGED approvals
      BY <1>3 DEF ClaimChange, Applying
    <2>3. op' \in Operation
      BY <1>0, <2>1, <2>2
    <2>4. approvals' \in [Approvals -> ApprovalRecord \cup {None}]
      BY <2>1, <2>2, ApprovalTypes DEF TypeOK
    <2> QED BY <1>3, <2>3, <2>4 DEF ClaimChange, TypeOK
  <1>4. ASSUME NEW u \in Actors, NEW a \in Exercised,
               CreateAsset(u, a) \/ RenewAsset(u, a) \/ RevokeAsset(u, a)
        PROVE  TypeOK'
    <2>1. CASE \E k \in {"registration", "renewal", "revocation"} : ClaimChange(u, Change(k, a))
      BY <1>3, <2>1
    <2>2. CASE /\ Applying(u, Change("revocation", a), None)
               /\ UNCHANGED <<clock, registry, approvals, control, cascade>>
      <3>1. op' \in Operation
        BY <1>0, <2>2, ChangeType DEF Applying
      <3> QED BY <2>2, <3>1 DEF TypeOK
    <2> QED BY <1>4, <2>1, <2>2 DEF CreateAsset, RenewAsset, RevokeAsset
  <1>5. ASSUME NEW u \in Admins, NEW p \in Approvals, ApproveChange(u, p) \/ RejectChange(u, p)
        PROVE  TypeOK'
    <2>1. PICK b \in BOOLEAN : Decide(u, p, b)
      BY <1>5 DEF ApproveChange, RejectChange
    <2> QED BY <2>1, ApprovalTypes DEF Decide, TypeOK
  <1>6. ASSUME ListApprovals PROVE TypeOK'
    BY <1>6, NormalizedType DEF ListApprovals, TypeOK
  <1>7. ASSUME ApplyChange PROVE TypeOK'
    <2>1. /\ op \in [pc: {"apply", "applied", "refused", "suspend"}, chg: ChangeRecord, by: Actors,
                     approval: Approvals \cup {None}]
          /\ op.chg.target \in Assets
      BY <1>7, OpShape DEF ApplyChange, ChangeRecord
    <2>2. \A c \in {"apply", "applied", "refused", "suspend"} :
            [op EXCEPT !.pc = c] = [pc |-> c, chg |-> op.chg, by |-> op.by, approval |-> op.approval]
      BY <2>1
    <2>3. op' \in Operation
      <3>1. PICK c \in {"applied", "refused"} : op' = [op EXCEPT !.pc = c]
        BY <1>7 DEF ApplyChange
      <3> QED BY <1>0, <2>1, <2>2, <3>1
    <2>4. Admits(op.chg) => Written(op.chg) \in AssetRecord
      BY <2>1, WrittenType
    <2>5. assets' \in [Assets -> AssetRecord \cup {None}]
      BY <1>7, <2>1, <2>4 DEF ApplyChange, TypeOK
    <2>6. EnsureIndex \subseteq Assets
      BY DEF EnsureIndex, Disk, TypeOK
    <2>7. acked' \subseteq Assets /\ index' \subseteq Assets /\ stamp' \in BOOLEAN
      BY <1>7, <2>1, <2>6 DEF ApplyChange, Upsert, TypeOK
    <2>8. faults' \in 0..MaxFaults
      BY <1>7 DEF ApplyChange, TypeOK
    <2> QED BY <1>7, <2>3, <2>5, <2>7, <2>8 DEF ApplyChange, TypeOK
  <1>8. ASSUME FinishChange PROVE TypeOK'
    <2>1. op \in [pc: {"apply", "applied", "refused", "suspend"}, chg: ChangeRecord, by: Actors,
                  approval: Approvals \cup {None}]
      BY <1>8, OpShape DEF FinishChange
    <2>2. op' \in Operation
      <3>1. [op EXCEPT !.pc = "suspend"]
              = [pc |-> "suspend", chg |-> op.chg, by |-> op.by, approval |-> op.approval]
        BY <2>1
      <3>2. [pc |-> "suspend", chg |-> op.chg, by |-> op.by, approval |-> op.approval] \in Operation
        BY <1>0, <2>1
      <3> QED BY <1>0, <1>8, <3>1, <3>2 DEF FinishChange
    <2>3. approvals' \in [Approvals -> ApprovalRecord \cup {None}]
      <3>1. CASE op.approval = None
        BY <1>8, <3>1 DEF FinishChange, TypeOK
      <3>2. CASE op.approval # None
        <4>1. op.approval \in Approvals /\ approvals[op.approval] \in ApprovalRecord
          BY <1>8, <2>1, <3>2 DEF FinishChange, ClaimHeld, TypeOK
        <4> QED BY <1>8, <3>2, <4>1, FinishIs DEF TypeOK
      <3> QED BY <3>1, <3>2
    <2> QED BY <1>8, <2>2, <2>3 DEF FinishChange, TypeOK
  <1>9. ASSUME SuspendRecurrences PROVE TypeOK'
    <2>1. op.chg.target \in Assets
      BY <1>9, OpShape DEF SuspendRecurrences, ChangeRecord
    <2>2. policies' \in [Assets -> {"none", "armed", "suspended"}]
      BY <1>9, <2>1 DEF SuspendRecurrences, TypeOK
    <2> QED BY <1>0, <1>9, <2>1, <2>2 DEF SuspendRecurrences, TypeOK
  <1>10. ASSUME PreflightBatch PROVE TypeOK'
    BY <1>10 DEF PreflightBatch, EnsureIndex, Disk, TypeOK
  <1>11. ASSUME BeginBatch PROVE TypeOK'
    <2>1. op' \in Operation
      BY <1>0, <1>11 DEF BeginBatch
    <2> QED BY <1>11, <2>1 DEF BeginBatch, EnsureIndex, Disk, TypeOK
  <1>12. ASSUME WriteMember PROVE TypeOK'
    <2>1. op \in [pc: {"members"}, todo: SUBSET Batch]
      BY <1>12, OpShape DEF WriteMember
    <2>2. PICK a \in op.todo : assets' = [assets EXCEPT ![a] = Registered]
                               /\ op' = [op EXCEPT !.todo = @ \ {a}]
      BY <1>12 DEF WriteMember
    <2>3. op' \in Operation
      <3>1. op' = [pc |-> "members", todo |-> op.todo \ {a}]
        BY <2>1, <2>2
      <3> QED BY <1>0, <2>1, <3>1
    <2>4. Registered \in AssetRecord
      BY <1>1 DEF Registered, AssetRecord
    <2>5. assets' \in [Assets -> AssetRecord \cup {None}]
      BY <2>1, <2>2, <2>4 DEF TypeOK
    <2> QED BY <1>12, <2>3, <2>5 DEF WriteMember, TypeOK
  <1>13. ASSUME CommitBatch PROVE TypeOK'
    <2>1. op' \in Operation
      BY <1>0, <1>13 DEF CommitBatch, TypeOK
    <2> QED BY <1>13, <2>1 DEF CommitBatch, TypeOK
  <1>14. ASSUME FailBatch PROVE TypeOK'
    <2>1. /\ assets' \in [Assets -> AssetRecord \cup {None}]
          /\ index' \subseteq Assets /\ stamp' \in BOOLEAN /\ receipt' \in BOOLEAN
          /\ journal' \in {"none", "pending", "committed"}
      BY <1>14 DEF FailBatch, TypeOK
    <2>2. faults' \in 0..MaxFaults /\ op' \in Operation
      BY <1>0, <1>1, <1>14 DEF FailBatch
    <2> QED BY <1>14, <2>1, <2>2 DEF FailBatch, TypeOK
  <1>15. ASSUME NEW a \in Exercised, NEW c \in Challenges, StartChallenge(a, c) PROVE TypeOK'
    <2>1. ASSUME NEW r \in ChallengeRecord PROVE [r EXCEPT !.status = "revoked", !.until = 0] \in ChallengeRecord
      BY DEF ChallengeRecord
    <2>2. [asset |-> a, status |-> "pending", until |-> now + Ttl] \in ChallengeRecord
      BY <1>1 DEF ChallengeRecord
    <2>3. challenges' \in [Challenges -> ChallengeRecord \cup {None}]
      BY <1>15, <2>1, <2>2 DEF StartChallenge, TypeOK
    <2> QED BY <1>15, <2>3 DEF StartChallenge, TypeOK
  <1>16. ASSUME NEW c \in Challenges, BeginCheck(c) PROVE TypeOK'
    <2>1. challenges[c] \in ChallengeRecord /\ challenges[c].asset \in Assets
      BY <1>16 DEF BeginCheck, TypeOK, ChallengeRecord
    <2>2. assets[challenges[c].asset] \in AssetRecord
      BY <1>16, <2>1 DEF BeginCheck, Status, TypeOK
    <2>3. [exp |-> assets[challenges[c].asset].exp, asset |-> challenges[c].asset] \in CheckRecord
      BY <2>1, <2>2 DEF CheckRecord, AssetRecord
    <2> QED BY <1>16, <2>3 DEF BeginCheck, TypeOK
  <1>17. ASSUME NEW c \in Challenges, StopCheck(c) PROVE TypeOK'
    BY <1>17 DEF StopCheck, TypeOK
  <1>18. ASSUME NEW c \in Challenges, RevokeChallenge(c) PROVE TypeOK'
    <2>1. challenges[c] \in ChallengeRecord /\ challenges[c].asset \in Assets
      BY <1>18 DEF RevokeChallenge, TypeOK, ChallengeRecord
    <2>2. [challenges[c] EXCEPT !.status = "revoked", !.until = 0] \in ChallengeRecord
      BY <2>1 DEF ChallengeRecord
    <2>3. challenges' = [challenges EXCEPT ![c] = [challenges[c] EXCEPT !.status = "revoked", !.until = 0]]
      BY <1>18 DEF RevokeChallenge, TypeOK
    <2>4. challenges' \in [Challenges -> ChallengeRecord \cup {None}]
      BY <2>2, <2>3 DEF TypeOK
    <2> QED BY <1>18, <2>1, <2>4 DEF RevokeChallenge, TypeOK
  <1>19. ASSUME NEW c \in Challenges, NEW m \in BOOLEAN, CompleteCheck(c, m) PROVE TypeOK'
    <2> DEFINE until == IF checks[c].exp < now + Ttl THEN checks[c].exp ELSE now + Ttl
               s == IF m THEN "verified" ELSE "failed"
               u == IF m THEN until ELSE 0
    <2>1. s \in {"verified", "failed"} /\ u \in Nat
      BY <1>1, <1>19 DEF CompleteCheck, TypeOK, CheckRecord
    <2>2. challenges' \in [Challenges -> ChallengeRecord \cup {None}]
      <3>1. CASE Materialized(c) = "pending"
        <4>1. challenges[c] \in ChallengeRecord
          BY <3>1 DEF Materialized, TypeOK
        <4>2. challenges' = [challenges EXCEPT ![c] = [challenges[c] EXCEPT !.status = s, !.until = u]]
          BY <1>19, <3>1 DEF CompleteCheck, TypeOK
        <4>3. [challenges[c] EXCEPT !.status = s, !.until = u] \in ChallengeRecord
          BY <2>1, <4>1 DEF ChallengeRecord
        <4> QED BY <4>2, <4>3 DEF TypeOK
      <3>2. CASE Materialized(c) # "pending"
        BY <1>19, <3>2 DEF CompleteCheck, TypeOK
      <3> QED BY <3>1, <3>2
    <2> QED BY <1>19, <2>2 DEF CompleteCheck, TypeOK
  <1>20. ASSUME NEW a \in Exercised, Execute(a) PROVE TypeOK'
    BY <1>20 DEF Execute, TypeOK
  <1>21. ASSUME NEW a \in Assets, BeginDelete(a) PROVE TypeOK'
    <2>1. "verifications" \in DeletePcs
      BY DEF DeletePcs
    <2>2. op' \in Operation
      BY <1>0, <1>21, <2>1 DEF BeginDelete
    <2> QED BY <1>21, <2>2 DEF BeginDelete, TypeOK
  <1>22. ASSUME op \in [pc: DeletePcs, asset: Assets, todo: SUBSET Assets] PROVE After \in Operation
    BY <1>0, <1>22 DEF After
  <1>23. ASSUME DeleteStep PROVE TypeOK'
    <2>1. op \in [pc: DeletePcs, asset: Assets, todo: SUBSET Assets]
      BY <1>23, OpShape DEF DeleteStep, DeletePcs
    <2>2. op.pc # "marker" => NextPc[op.pc] \in DeletePcs
      BY <2>1 DEF NextPc, DeletePcs
    <2>3. op' \in Operation
      <3>1. ASSUME op' = [op EXCEPT !.pc = NextPc[@]], op.pc # "marker" PROVE op' \in Operation
        <4>1. op' = [pc |-> NextPc[op.pc], asset |-> op.asset, todo |-> op.todo]
          BY <2>1, <3>1
        <4> QED BY <1>0, <2>1, <2>2, <3>1, <4>1
      <3> QED BY <1>22, <1>23, <2>1, <3>1 DEF DeleteStep
    <2>4. EnsureIndex \subseteq Assets
      BY DEF EnsureIndex, Disk, TypeOK
    <2>5. /\ challenges' \in [Challenges -> ChallengeRecord \cup {None}]
          /\ approvals' \in [Approvals -> ApprovalRecord \cup {None}]
          /\ assets' \in [Assets -> AssetRecord \cup {None}]
      BY <1>23, <2>1 DEF DeleteStep, TypeOK
    <2>6. /\ jobs' \in [Assets -> {"none", "active", "done"}]
          /\ policies' \in [Assets -> {"none", "armed", "suspended"}]
          /\ audited' \subseteq Assets /\ markers' \subseteq Assets
      BY <1>23, <2>1 DEF DeleteStep, TypeOK
    <2>7. acked' \subseteq Assets /\ index' \subseteq Assets /\ stamp' \in BOOLEAN /\ receipt' \in BOOLEAN
      BY <1>23, <2>1, <2>4 DEF DeleteStep, IndexDelete, TypeOK
    <2>8. UNCHANGED <<clock, journal, dropped, admitted, checks>>
      BY <1>23 DEF DeleteStep
    <2> QED BY <2>3, <2>5, <2>6, <2>7, <2>8 DEF TypeOK
  <1>24. ASSUME FailDelete PROVE TypeOK'
    <2>1. op \in [pc: DeletePcs, asset: Assets, todo: SUBSET Assets]
      BY <1>24, OpShape DEF FailDelete
    <2> QED BY <1>22, <1>24, <2>1 DEF FailDelete, TypeOK
  <1>25. ASSUME Crash PROVE TypeOK'
    <2>1. approvals' \in [Approvals -> ApprovalRecord \cup {None}]
      <3>1. ASSUME NEW r \in ApprovalRecord PROVE Recovered(r) \in ApprovalRecord
        BY <1>1 DEF Recovered, ApprovalRecord, ApprovalStatus
      <3> QED BY <1>25, <3>1, NormalizedType DEF Crash
    <2>2. op' \in Operation
      BY <1>0, <1>25 DEF Crash, TypeOK
    <2>3. /\ assets' \in [Assets -> AssetRecord \cup {None}]
          /\ checks' \in [Challenges -> CheckRecord \cup {None}]
          /\ jobs' \in [Assets -> {"none", "active", "done"}]
      BY <1>25 DEF Crash, TypeOK
    <2>4. /\ acked' \subseteq Assets /\ dropped' \subseteq Assets
          /\ receipt' \in BOOLEAN /\ stamp' \in BOOLEAN /\ admitted' \in BOOLEAN
          /\ journal' \in {"none", "pending", "committed"}
      BY <1>25 DEF Crash, TypeOK, Whole, Unfinished
    <2> QED BY <1>25, <2>1, <2>2, <2>3, <2>4 DEF Crash, TypeOK
  <1>26. ASSUME ResumeDelete PROVE TypeOK'
    <2>1. op \in [pc: {"resume"}, todo: SUBSET Assets]
      BY <1>26, OpShape DEF ResumeDelete
    <2>2. "verifications" \in DeletePcs
      BY DEF DeletePcs
    <2>3. op' \in Operation
      BY <1>0, <1>26, <2>1, <2>2 DEF ResumeDelete
    <2> QED BY <1>26, <2>3 DEF ResumeDelete, TypeOK
  <1>27. ASSUME Tick \/ UNCHANGED vars PROVE TypeOK'
    BY <1>27 DEF Tick, vars, TypeOK
  <1> QED
    BY <1>2, <1>4, <1>5, <1>6, <1>7, <1>8, <1>9, <1>10, <1>11, <1>12, <1>13, <1>14, <1>15, <1>16,
       <1>17, <1>18, <1>19, <1>20, <1>21, <1>23, <1>24, <1>25, <1>26, <1>27 DEF Next

-----------------------------------------------------------------------------
(* Four-eyes approvals. *)

\* An approval that was decided by somebody else and is spent when consumed.
Sound(r) ==
  /\ r.status \in {"approved", "executing", "consumed", "interrupted"} => r.approver \notin {None, r.by}
  /\ r.spent = IF r.status = "consumed" THEN 1 ELSE 0

AllSound == \A p \in Approvals : approvals[p] # None => Sound(approvals[p])

\* The two invariants of the store, record by record.
LEMMA SoundIs ==
  ASSUME TypeOK
  PROVE  /\ AllSound => FourEyesOnce
         /\ FourEyesOnce /\ ClaimHeld => AllSound
  <1>1. AllSound => FourEyesOnce
    BY DEF AllSound, Sound, FourEyesOnce
  <1>2. FourEyesOnce /\ ClaimHeld => AllSound
    BY DEF AllSound, Sound, FourEyesOnce, ClaimHeld
  <1> QED BY <1>1, <1>2

\* Normalisation leaves sound approvals.
LEMMA NormalizedSound ==
  ASSUME TypeOK, AllSound, NEW p \in Approvals, Normalized(now)[p] # None
  PROVE  Sound(Normalized(now)[p])
  <1>1. CASE Normalized(now)[p] = approvals[p]
    BY <1>1 DEF AllSound
  <1>2. CASE /\ approvals[p] # None /\ approvals[p].status \in {"pending", "approved"}
             /\ Normalized(now)[p] = [approvals[p] EXCEPT !.status = "expired", !.at = now]
    <2> DEFINE r == Normalized(now)[p]
    <2>1. approvals[p] \in ApprovalRecord /\ approvals[p].spent = 0
      BY <1>2 DEF AllSound, Sound, TypeOK
    <2>2. r.status = "expired" /\ r.spent = 0
      BY <1>2, <2>1 DEF ApprovalRecord
    <2> QED BY <2>2 DEF Sound
  <1> QED BY <1>1, <1>2, NormalizedIs

\* Every step keeps the approvals sound and a claimed one executing.
LEMMA ApprovalStep ==
  ASSUME TypeOK, FourEyesOnce, ClaimHeld, [Next]_vars
  PROVE  FourEyesOnce' /\ ClaimHeld'
  <1> USE GovernanceAssumption DEF clock, registry, control, cascade
  <1> DEFINE Held == op.pc \in {"apply", "applied", "refused"} /\ op.approval # None
                        => approvals[op.approval] # None /\ approvals[op.approval].status = "executing"
             recs == Normalized(now)
  <1>0. AllSound /\ Held /\ TypeOK'
    BY SoundIs, TypeStep DEF ClaimHeld
  <1>1. recs \in [Approvals -> ApprovalRecord \cup {None}]
        /\ \A p \in Approvals : recs[p] # None => Sound(recs[p])
    BY <1>0, NormalizedType, NormalizedSound
  <1> HIDE DEF recs
  <1>2. ASSUME NEW u \in Actors, NEW chg, Request(u, chg) PROVE AllSound' /\ Held'
    <2>1. PICK p \in Approvals : approvals' = [recs EXCEPT ![p] =
               [status |-> "pending", chg |-> chg, by |-> u, approver |-> None,
                expires |-> now + Ttl, at |-> now, spent |-> 0]]
      BY <1>2 DEF Request, recs
    <2>2. ASSUME NEW q \in Approvals, approvals'[q] # None PROVE Sound(approvals'[q])
      BY <1>1, <2>1, <2>2 DEF Sound
    <2>3. op' = Idle
      BY <1>2 DEF Request
    <2> QED BY <2>2, <2>3 DEF AllSound, Idle
  <1>3. ASSUME NEW u \in Admins, NEW p \in Approvals, NEW b \in BOOLEAN, Decide(u, p, b)
        PROVE  AllSound' /\ Held'
    <2> DEFINE s == IF b THEN "approved" ELSE "rejected"
               r == [recs[p] EXCEPT !.status = s, !.approver = u, !.at = now]
    <2>1. /\ recs[p] \in ApprovalRecord /\ recs[p].status = "pending" /\ recs[p].by # u
          /\ approvals' = [recs EXCEPT ![p] = r]
      BY <1>1, <1>3 DEF Decide, recs
    <2>2. r.status \in {"approved", "rejected"} /\ r.approver = u /\ r.by = recs[p].by
          /\ r.spent = recs[p].spent
      BY <2>1 DEF ApprovalRecord
    <2>3. Sound(r)
      BY <1>1, <2>1, <2>2 DEF Sound
    <2> HIDE DEF r
    <2>4. ASSUME NEW q \in Approvals, approvals'[q] # None PROVE Sound(approvals'[q])
      BY <1>1, <2>1, <2>3, <2>4
    <2>5. op' = Idle
      BY <1>3 DEF Decide
    <2> QED BY <2>4, <2>5 DEF AllSound, Idle
  <1>4. ASSUME ListApprovals PROVE AllSound' /\ Held'
    BY <1>1, <1>4 DEF ListApprovals, AllSound, Idle, recs
  <1>5. ASSUME NEW u \in Actors, NEW chg, ClaimChange(u, chg) PROVE AllSound' /\ Held'
    <2>1. CASE UNCHANGED approvals /\ Applying(u, chg, None)
      BY <1>0, <2>1 DEF AllSound, Applying
    <2>2. ASSUME NEW p \in Approvals, Claim(u, chg, p), Applying(u, chg, p) PROVE AllSound' /\ Held'
      <3> DEFINE r == [recs[p] EXCEPT !.status = "executing"]
      <3>1. /\ recs[p] \in ApprovalRecord /\ recs[p].status = "approved"
            /\ approvals' = [recs EXCEPT ![p] = r]
        BY <1>1, <2>2 DEF Claim, recs
      <3>2. /\ r.status = "executing" /\ r.approver = recs[p].approver /\ r.by = recs[p].by
            /\ r.spent = recs[p].spent /\ r \in ApprovalRecord
        BY <3>1 DEF ApprovalRecord, ApprovalStatus
      <3>3. Sound(r)
        BY <1>1, <3>1, <3>2 DEF Sound
      <3> HIDE DEF r
      <3>4. ASSUME NEW q \in Approvals, approvals'[q] # None PROVE Sound(approvals'[q])
        BY <1>1, <3>1, <3>3, <3>4
      <3>5. op'.approval = p /\ approvals'[p] = r
        BY <1>1, <2>2, <3>1 DEF Applying
      <3> QED BY <3>2, <3>4, <3>5 DEF AllSound
    <2> QED BY <1>5, <2>1, <2>2 DEF ClaimChange
  <1>6. ASSUME NEW u \in Actors, NEW chg, Applying(u, chg, None), UNCHANGED approvals
        PROVE  AllSound' /\ Held'
    BY <1>0, <1>6 DEF AllSound, Applying
  <1>7. ASSUME ApplyChange PROVE AllSound' /\ Held'
    <2>1. op' \in {[op EXCEPT !.pc = "applied"], [op EXCEPT !.pc = "refused"]} /\ UNCHANGED approvals
      BY <1>7 DEF ApplyChange
    <2>2. op'.approval = op.approval
      BY <1>7, <2>1, OpShape DEF ApplyChange
    <2> QED BY <1>0, <1>7, <2>1, <2>2 DEF AllSound, ApplyChange
  <1>8. ASSUME FinishChange PROVE AllSound' /\ Held'
    <2>1. op'.pc \in {"idle", "suspend"}
      BY <1>8, OpShape DEF FinishChange, Idle
    <2>2. AllSound'
      <3>1. CASE op.approval = None
        BY <1>0, <1>8, <3>1 DEF FinishChange, AllSound
      <3>2. CASE op.approval # None
        <4>1. /\ op.approval \in Approvals /\ approvals[op.approval] \in ApprovalRecord
              /\ approvals[op.approval].status = "executing"
          BY <1>0, <1>8, <3>2, OpShape DEF FinishChange, TypeOK
        <4>2. PICK r \in ApprovalRecord :
                /\ approvals' = [approvals EXCEPT ![op.approval] = r]
                /\ r.by = approvals[op.approval].by /\ r.approver = approvals[op.approval].approver
                /\ IF op.pc = "applied" THEN r.status = "consumed" /\ r.spent = approvals[op.approval].spent + 1
                   ELSE r.status = "approved" /\ r.spent = approvals[op.approval].spent
          BY <1>8, <3>2, <4>1, FinishIs
        <4>3. Sound(r)
          BY <1>0, <4>1, <4>2 DEF AllSound, Sound
        <4> QED BY <1>0, <4>1, <4>2, <4>3 DEF AllSound, TypeOK
      <3> QED BY <3>1, <3>2
    <2> QED BY <2>1, <2>2
  <1>9. ASSUME UNCHANGED approvals, op'.pc \notin {"apply", "applied", "refused"}
        PROVE  AllSound' /\ Held'
    BY <1>0, <1>9 DEF AllSound
  <1>10. ASSUME DeleteStep PROVE AllSound' /\ Held'
    <2>1. op \in [pc: DeletePcs, asset: Assets, todo: SUBSET Assets]
      BY <1>10, OpShape DEF DeleteStep, DeletePcs
    <2>2. op'.pc \in DeletePcs \cup {"idle", "resume"}
      <3>1. op.pc # "marker" => NextPc[op.pc] \in DeletePcs
        BY <2>1 DEF NextPc, DeletePcs
      <3> QED BY <1>10, <2>1, <3>1 DEF DeleteStep, After, Idle
    <2>3. AllSound'
      BY <1>0, <1>10 DEF DeleteStep, AllSound
    <2> QED BY <2>2, <2>3 DEF DeletePcs
  <1>11. ASSUME Crash PROVE AllSound' /\ Held'
    <2>1. op'.pc \in {"idle", "resume"}
      BY <1>11 DEF Crash, Idle
    <2>2. ASSUME NEW r \in ApprovalRecord, Sound(r) PROVE Sound(Recovered(r))
      BY <2>2 DEF Sound, Recovered, ApprovalRecord
    <2>3. AllSound'
      BY <1>1, <1>11, <2>2 DEF Crash, AllSound, recs
    <2> QED BY <2>1, <2>3
  <1>12. ASSUME \/ SuspendRecurrences \/ PreflightBatch \/ BeginBatch \/ WriteMember \/ CommitBatch
                \/ FailBatch \/ FailDelete \/ ResumeDelete \/ Tick
         PROVE  AllSound' /\ Held'
    <2>1. CASE SuspendRecurrences \/ FailBatch
      BY <1>9, <2>1 DEF SuspendRecurrences, FailBatch, Idle
    <2>2. CASE PreflightBatch \/ Tick
      BY <1>9, <2>2 DEF PreflightBatch, Tick, Available, Idle
    <2>3. CASE BeginBatch \/ ResumeDelete
      BY <1>9, <2>3 DEF BeginBatch, ResumeDelete
    <2>4. CASE CommitBatch
      BY <1>9, <2>4 DEF CommitBatch, Idle
    <2>5. CASE WriteMember
      BY <1>9, <2>5, OpShape DEF WriteMember
    <2>6. CASE FailDelete
      BY <1>9, <2>6 DEF FailDelete, After, Idle
    <2> QED BY <1>12, <2>1, <2>2, <2>3, <2>4, <2>5, <2>6
  <1>13. ASSUME \/ \E a \in Exercised, c \in Challenges : StartChallenge(a, c)
                \/ \E c \in Challenges : BeginCheck(c) \/ StopCheck(c) \/ RevokeChallenge(c)
                \/ \E c \in Challenges, m \in BOOLEAN : CompleteCheck(c, m)
                \/ \E a \in Exercised : Execute(a)
         PROVE  AllSound' /\ Held'
    <2>1. op' = Idle /\ UNCHANGED approvals
      <3>1. CASE \E a \in Exercised, c \in Challenges : StartChallenge(a, c)
        BY <3>1 DEF StartChallenge
      <3>2. CASE \E c \in Challenges : BeginCheck(c) \/ StopCheck(c) \/ RevokeChallenge(c)
        BY <3>2 DEF BeginCheck, StopCheck, RevokeChallenge
      <3>3. CASE \E c \in Challenges, m \in BOOLEAN : CompleteCheck(c, m)
        BY <3>3 DEF CompleteCheck
      <3>4. CASE \E a \in Exercised : Execute(a)
        BY <3>4 DEF Execute
      <3> QED BY <1>13, <3>1, <3>2, <3>3, <3>4
    <2> QED BY <1>9, <2>1 DEF Idle
  <1>14. ASSUME NEW a \in Assets, BeginDelete(a) PROVE AllSound' /\ Held'
    BY <1>9, <1>14 DEF BeginDelete
  <1>15. ASSUME UNCHANGED vars PROVE AllSound' /\ Held'
    BY <1>0, <1>15 DEF vars, AllSound
  <1> HIDE DEF Held
  <1>16. AllSound' /\ Held'
    <2>1. ASSUME NEW u \in Actors, NEW a \in Exercised,
                 \/ RequestRegistration(u, a) \/ RequestRenewal(u, a) \/ RequestRevocation(u, a)
                 \/ CreateAsset(u, a) \/ RenewAsset(u, a) \/ RevokeAsset(u, a)
          PROVE  AllSound' /\ Held'
      BY <1>2, <1>5, <1>6, <2>1
      DEF RequestRegistration, RequestRenewal, RequestRevocation, CreateAsset, RenewAsset, RevokeAsset
    <2>2. ASSUME NEW u \in Admins, NEW p \in Approvals, ApproveChange(u, p) \/ RejectChange(u, p)
          PROVE  AllSound' /\ Held'
      BY <1>3, <2>2 DEF ApproveChange, RejectChange
    <2> QED
      BY <1>4, <1>7, <1>8, <1>10, <1>11, <1>12, <1>13, <1>14, <1>15, <2>1, <2>2 DEF Next
  <1> QED BY <1>0, <1>16, SoundIs DEF ClaimHeld, AllSound, Sound, FourEyesOnce, Held

-----------------------------------------------------------------------------
(* The registry. *)

\* The steps that leave the registry, the markers and the request in progress
\* alone.
QuietStep ==
  \/ \E u \in Actors, a \in Exercised :
       RequestRegistration(u, a) \/ RequestRenewal(u, a) \/ RequestRevocation(u, a)
  \/ \E u \in Admins, p \in Approvals : ApproveChange(u, p) \/ RejectChange(u, p)
  \/ ListApprovals
  \/ \E a \in Exercised, c \in Challenges : StartChallenge(a, c)
  \/ \E c \in Challenges : BeginCheck(c) \/ StopCheck(c) \/ RevokeChallenge(c)
  \/ \E c \in Challenges, m \in BOOLEAN : CompleteCheck(c, m)
  \/ \E a \in Exercised : Execute(a)
  \/ Tick

ClaimStep ==
  \E u \in Actors, a \in Exercised : CreateAsset(u, a) \/ RenewAsset(u, a) \/ RevokeAsset(u, a)

\* A quiet step leaves the registry alone and runs between two requests.
LEMMA QuietIs == QuietStep => UNCHANGED <<registry, markers, op>> /\ op = Idle
  <1> USE DEF registry, control, cascade, clock
  <1>1. ASSUME NEW u \in Actors, NEW a \in Exercised,
               RequestRegistration(u, a) \/ RequestRenewal(u, a) \/ RequestRevocation(u, a)
        PROVE  UNCHANGED <<registry, markers, op>> /\ op = Idle
    BY <1>1 DEF RequestRegistration, RequestRenewal, RequestRevocation, Request
  <1>2. ASSUME NEW u \in Admins, NEW p \in Approvals, ApproveChange(u, p) \/ RejectChange(u, p)
        PROVE  UNCHANGED <<registry, markers, op>> /\ op = Idle
    BY <1>2 DEF ApproveChange, RejectChange, Decide
  <1>3. ASSUME ListApprovals \/ Tick PROVE UNCHANGED <<registry, markers, op>> /\ op = Idle
    BY <1>3 DEF ListApprovals, Tick
  <1>4. ASSUME NEW a \in Exercised, NEW c \in Challenges, StartChallenge(a, c)
        PROVE  UNCHANGED <<registry, markers, op>> /\ op = Idle
    BY <1>4 DEF StartChallenge
  <1>5. ASSUME NEW c \in Challenges, BeginCheck(c) \/ StopCheck(c) \/ RevokeChallenge(c)
        PROVE  UNCHANGED <<registry, markers, op>> /\ op = Idle
    BY <1>5 DEF BeginCheck, StopCheck, RevokeChallenge
  <1>6. ASSUME NEW c \in Challenges, NEW m \in BOOLEAN, CompleteCheck(c, m)
        PROVE  UNCHANGED <<registry, markers, op>> /\ op = Idle
    BY <1>6 DEF CompleteCheck
  <1>7. ASSUME NEW a \in Exercised, Execute(a) PROVE UNCHANGED <<registry, markers, op>> /\ op = Idle
    BY <1>7 DEF Execute
  <1> QED BY <1>1, <1>2, <1>3, <1>4, <1>5, <1>6, <1>7 DEF QuietStep

\* A claim starts a change of an exercised asset.
LEMMA ClaimIs ==
  ASSUME TypeOK, ClaimStep
  PROVE  /\ op = Idle /\ UNCHANGED <<clock, registry, control, cascade>>
         /\ \E u \in Actors, a \in Assets, k \in {"registration", "renewal", "revocation"},
               q \in Approvals \cup {None} :
              /\ op' = [pc |-> "apply", chg |-> Change(k, a), by |-> u, approval |-> q]
              /\ k = "registration" => a \notin Batch
              /\ UNCHANGED approvals \/ (q \in Approvals /\ Claim(u, Change(k, a), q))
  <1>1. PICK u \in Actors, a \in Exercised : CreateAsset(u, a) \/ RenewAsset(u, a) \/ RevokeAsset(u, a)
    BY DEF ClaimStep
  <1>2. PICK k \in {"registration", "renewal", "revocation"} :
          /\ k = "registration" => a \notin Batch
          /\ \/ ClaimChange(u, Change(k, a))
             \/ /\ op = Idle /\ Applying(u, Change(k, a), None)
                /\ UNCHANGED <<clock, registry, approvals, control, cascade>>
    BY <1>1 DEF CreateAsset, RenewAsset, RevokeAsset
  <1>3. op = Idle /\ UNCHANGED <<clock, registry, control, cascade>>
    BY <1>2 DEF ClaimChange
  <1>4. \E q \in Approvals \cup {None} :
          /\ op' = [pc |-> "apply", chg |-> Change(k, a), by |-> u, approval |-> q]
          /\ UNCHANGED approvals \/ (q \in Approvals /\ Claim(u, Change(k, a), q))
    BY <1>2 DEF ClaimChange, Applying
  <1>5. a \in Assets
    BY GovernanceAssumption
  <1> QED BY <1>2, <1>3, <1>4, <1>5

\* Where a request goes next.
LEMMA PcIs ==
  ASSUME TypeOK
  PROVE  /\ \A a : BeginDelete(a) => op.pc = "idle" /\ op'.pc = "verifications"
         /\ DeleteStep => op.pc \in DeletePcs
         /\ DeleteStep /\ op.pc # "marker" =>
              op' = [pc |-> NextPc[op.pc], asset |-> op.asset, todo |-> op.todo]
         /\ (DeleteStep /\ op.pc = "marker") \/ FailDelete =>
              op' = IF op.todo = {} THEN [pc |-> "idle"] ELSE [pc |-> "resume", todo |-> op.todo]
  <1>1. DeleteStep => op.pc \in DeletePcs
    BY DEF DeleteStep, DeletePcs
  <1>2. ASSUME DeleteStep, op.pc # "marker"
        PROVE  op' = [pc |-> NextPc[op.pc], asset |-> op.asset, todo |-> op.todo]
    <2>1. op' = [op EXCEPT !.pc = NextPc[@]]
      BY <1>2 DEF DeleteStep
    <2> QED BY <1>1, <1>2, <2>1, OpShape
  <1>3. ASSUME (DeleteStep /\ op.pc = "marker") \/ FailDelete
        PROVE  op' = IF op.todo = {} THEN [pc |-> "idle"] ELSE [pc |-> "resume", todo |-> op.todo]
    BY <1>3 DEF DeleteStep, FailDelete, After, Idle
  <1>4. ASSUME NEW a, BeginDelete(a) PROVE op.pc = "idle" /\ op'.pc = "verifications"
    BY <1>4 DEF BeginDelete, Idle
  <1> QED BY <1>1, <1>2, <1>3, <1>4

\* The steps, by what they touch.
LEMMA NextCases ==
  ASSUME [Next]_vars
  PROVE  \/ QuietStep \/ ClaimStep \/ ApplyChange \/ FinishChange \/ SuspendRecurrences
         \/ PreflightBatch \/ BeginBatch \/ WriteMember \/ CommitBatch \/ FailBatch
         \/ (\E a \in Assets : BeginDelete(a)) \/ DeleteStep \/ FailDelete \/ Crash \/ ResumeDelete
         \/ UNCHANGED vars
  BY DEF Next, QuietStep, ClaimStep

\* The registry, its index, receipt and journal agree after every step.
LEMMA RegistryStep ==
  ASSUME TypeOK, RegistryInv, CascadeInOrder, [Next]_vars PROVE RegistryInv'
  <1> USE GovernanceAssumption DEF registry
  <1>0. /\ assets \in [Assets -> AssetRecord \cup {None}] /\ Disk \subseteq Assets
        /\ Registered # None
    <2>1. Registered \in AssetRecord
      BY DEF TypeOK, Registered, AssetRecord
    <2> QED BY <2>1 DEF TypeOK, Disk
  <1>1. ASSUME UNCHANGED <<registry, op>> PROVE RegistryInv'
    BY <1>1 DEF RegistryInv, UniqueIdentity, ReceiptMembersExist, IndexIsDisk, BatchOwnsIds, InBatch,
                JournalIsOpen, ChangeApplies, Disk
  <1>2. ASSUME UNCHANGED registry, op.pc \notin {"members", "commit"}, op'.pc \notin {"members", "commit"},
               ChangeApplies'
        PROVE  RegistryInv'
    BY <1>2 DEF RegistryInv, UniqueIdentity, ReceiptMembersExist, IndexIsDisk, BatchOwnsIds, InBatch,
                JournalIsOpen, Disk
  <1>3. CASE QuietStep
    BY <1>1, <1>3, QuietIs
  <1>4. CASE ClaimStep
    <2>1. PICK u \in Actors, a \in Assets, k \in {"registration", "renewal", "revocation"},
               q \in Approvals \cup {None} :
              /\ op' = [pc |-> "apply", chg |-> Change(k, a), by |-> u, approval |-> q]
              /\ k = "registration" => a \notin Batch
      BY <1>4, ClaimIs
    <2>2. Change(k, a).kind = k /\ Change(k, a).target = a
      BY ChangeType
    <2>3. ChangeApplies'
      BY <2>1, <2>2 DEF ChangeApplies
    <2> QED BY <1>2, <1>4, <2>1, <2>3, ClaimIs DEF Idle
  <1>5. CASE FinishChange
    <2>1. /\ op \in [pc: {"apply", "applied", "refused", "suspend"}, chg: ChangeRecord, by: Actors,
                     approval: Approvals \cup {None}]
          /\ UNCHANGED registry
      BY <1>5, OpShape DEF FinishChange
    <2>2. \/ op.pc = "applied" /\ op'.pc = "suspend" /\ op'.chg = op.chg
          \/ op'.pc = "idle"
      BY <1>5, <2>1 DEF FinishChange, Idle
    <2>3. ChangeApplies'
      BY <2>1, <2>2 DEF RegistryInv, ChangeApplies, Disk
    <2> QED BY <1>2, <1>5, <2>1, <2>2, <2>3 DEF FinishChange
  <1>6. CASE SuspendRecurrences \/ ResumeDelete \/ \E a \in Assets : BeginDelete(a)
    <2>1. UNCHANGED registry /\ op.pc \in {"suspend", "resume", "idle"}
      BY <1>6 DEF SuspendRecurrences, ResumeDelete, BeginDelete, Idle
    <2>2. op'.pc \in {"idle", "verifications"}
      BY <1>6 DEF SuspendRecurrences, ResumeDelete, BeginDelete, Idle
    <2> QED BY <1>2, <2>1, <2>2 DEF ChangeApplies
  <1>7. CASE FailDelete
    <2>1. op'.pc \in {"idle", "resume"}
      BY <1>7, PcIs
    <2> QED BY <1>2, <1>7, <2>1 DEF FailDelete, ChangeApplies, DeletePcs
  <1> USE DEF RegistryInv
  <1>8. op.pc # "members" => EnsureIndex = Disk
    BY DEF IndexIsDisk, EnsureIndex
  <1>9. CASE ApplyChange
    <2> DEFINE a == op.chg.target
    <2>1. /\ op \in [pc: {"apply", "applied", "refused", "suspend"}, chg: ChangeRecord, by: Actors,
                     approval: Approvals \cup {None}]
          /\ op.pc = "apply" /\ a \in Assets /\ op.chg \in ChangeRecord
      BY <1>9, OpShape DEF ApplyChange, ChangeRecord
    <2>2. op'.pc \in {"applied", "refused"} /\ op'.chg = op.chg
      BY <1>9, <2>1 DEF ApplyChange
    <2>3. CASE op'.pc = "refused" /\ UNCHANGED registry
      <3>1. ChangeApplies'
        BY <2>1, <2>2, <2>3 DEF ChangeApplies
      <3> QED BY <1>2, <2>1, <2>3, <3>1
    <2>4. CASE /\ Admits(op.chg) /\ assets' = [assets EXCEPT ![a] = Written(op.chg)]
               /\ UNCHANGED <<journal, receipt>>
               /\ stamp' => index' = EnsureIndex \cup {a}
               /\ acked' \in {acked, IF op.chg.kind = "registration" THEN acked \cup {a} ELSE acked}
      <3>1. Disk' = Disk \cup {a}
        BY <1>0, <2>1, <2>4, WrittenType DEF Disk
      <3>2. op.chg.kind = "registration" => a \notin Batch
        BY <2>1 DEF ChangeApplies
      <3>3. a \in Disk \/ \A b \in Disk : Ident[a] # Ident[b]
        <4>1. CASE op.chg.kind = "registration"
          BY <1>8, <2>1, <2>4, <4>1 DEF Admits, CreateAdmits, IdentityTaken
        <4>2. CASE op.chg.kind # "registration"
          BY <2>1, <2>4, <4>2 DEF Admits, RenewAdmits, RevokeAdmits, Status, Disk, ChangeRecord
        <4> QED BY <4>1, <4>2
      <3>4. UniqueIdentity'
        BY <3>1, <3>3 DEF UniqueIdentity
      <3>5. ReceiptMembersExist' /\ acked' \subseteq Disk' /\ IndexIsDisk'
        BY <1>8, <2>1, <2>2, <2>4, <3>1 DEF ReceiptMembersExist, IndexIsDisk
      <3>6. BatchOwnsIds' /\ JournalIsOpen' /\ ChangeApplies'
        BY <2>1, <2>2, <2>4, <3>1, <3>2 DEF BatchOwnsIds, InBatch, JournalIsOpen, ChangeApplies
      <3> QED BY <3>4, <3>5, <3>6
    <2>5. UNCHANGED <<dropped, admitted, journal, receipt>>
      BY <1>9 DEF ApplyChange
    <2>6. \/ /\ Admits(op.chg) /\ assets' = [assets EXCEPT ![a] = Written(op.chg)]
             /\ \/ /\ Upsert({a})
                   /\ acked' = IF op.chg.kind = "registration" THEN acked \cup {a} ELSE acked
                \/ stamp' = FALSE /\ UNCHANGED acked
          \/ op' = [op EXCEPT !.pc = "refused"] /\ UNCHANGED <<assets, acked, index, stamp>>
      BY <1>9 DEF ApplyChange
    <2>7. [op EXCEPT !.pc = "refused"].pc = "refused"
      BY <2>1
    <2> QED BY <2>3, <2>4, <2>5, <2>6, <2>7 DEF Upsert
  <1>10. CASE PreflightBatch
    <2>1. /\ op.pc = "idle" /\ op' = op /\ index' = Disk
          /\ UNCHANGED <<assets, acked, journal, receipt>>
      BY <1>8, <1>10 DEF PreflightBatch, Available, Idle
    <2>2. Disk' = Disk
      BY <2>1 DEF Disk
    <2> QED BY <2>1, <2>2 DEF UniqueIdentity, ReceiptMembersExist, IndexIsDisk, BatchOwnsIds, InBatch,
                              JournalIsOpen, ChangeApplies
  <1>11. CASE BeginBatch
    <2>1. /\ op.pc = "idle" /\ op' = [pc |-> "members", todo |-> Batch] /\ index' = Disk
          /\ journal' = "pending" /\ ~receipt /\ ~IdentityTaken(Batch)
          /\ UNCHANGED <<assets, acked, receipt>>
      BY <1>8, <1>11 DEF BeginBatch, Available, Idle
    <2>2. Disk' = Disk /\ Disk \cap Batch = {}
      BY <1>11, <2>1 DEF BeginBatch, Disk
    <2>3. \A a \in Disk, b \in Batch : Ident[a] # Ident[b]
      BY <1>8, <2>1 DEF IdentityTaken
    <2>4. UniqueIdentity' /\ ReceiptMembersExist' /\ acked' \subseteq Disk' /\ IndexIsDisk'
      BY <2>1, <2>2 DEF UniqueIdentity, ReceiptMembersExist, IndexIsDisk
    <2>5. BatchOwnsIds'
      BY <2>1, <2>2, <2>3 DEF BatchOwnsIds, InBatch
    <2>6. JournalIsOpen' /\ ChangeApplies'
      BY <2>1, <2>2 DEF JournalIsOpen, ChangeApplies
    <2> QED BY <2>4, <2>5, <2>6
  <1>12. CASE WriteMember
    <2>1. op \in [pc: {"members"}, todo: SUBSET Batch]
      BY <1>12, OpShape DEF WriteMember
    <2>2. PICK a \in op.todo : assets' = [assets EXCEPT ![a] = Registered]
                               /\ op' = [op EXCEPT !.todo = @ \ {a}]
      BY <1>12 DEF WriteMember
    <2>3. op' = [pc |-> "members", todo |-> op.todo \ {a}] /\ op.pc = "members" /\ a \in Batch
      BY <2>1, <2>2
    <2>4. UNCHANGED <<acked, index, stamp, journal, receipt>>
      BY <1>12 DEF WriteMember
    <2>5. Disk' = Disk \cup {a}
      BY <1>0, <2>2, <2>3 DEF Disk
    <2>6. UniqueIdentity'
      BY <2>3, <2>5 DEF UniqueIdentity, BatchOwnsIds
    <2>7. ReceiptMembersExist' /\ acked' \subseteq Disk' /\ IndexIsDisk'
      BY <2>3, <2>4, <2>5 DEF ReceiptMembersExist, IndexIsDisk
    <2>8. BatchOwnsIds' /\ JournalIsOpen' /\ ChangeApplies'
      BY <2>3, <2>4, <2>5 DEF BatchOwnsIds, InBatch, JournalIsOpen, ChangeApplies
    <2> QED BY <2>6, <2>7, <2>8
  <1>13. CASE CommitBatch
    <2>0. Disk' = Disk /\ UNCHANGED stamp
      BY <1>13 DEF CommitBatch, Disk
    <2> USE DEF UniqueIdentity, ReceiptMembersExist, IndexIsDisk, BatchOwnsIds, InBatch, JournalIsOpen,
                ChangeApplies
    <2>1. CASE /\ op.pc = "members" /\ op.todo = {} /\ index' = index \cup Batch /\ op' = [pc |-> "commit"]
               /\ UNCHANGED <<acked, journal, receipt>>
      BY <2>0, <2>1
    <2>2. CASE /\ op.pc = "commit" /\ journal' = "committed" /\ op' = op
               /\ UNCHANGED <<acked, index, receipt>>
      BY <2>0, <2>2
    <2>3. CASE /\ op.pc = "commit" /\ journal = "committed" /\ receipt' = TRUE /\ op' = op
               /\ UNCHANGED <<acked, index, journal>>
      BY <2>0, <2>3
    <2>4. CASE /\ op.pc = "commit" /\ journal' = "none" /\ acked' = acked \cup Batch /\ op' = Idle
               /\ UNCHANGED <<index, receipt>>
      BY <2>0, <2>4 DEF Idle
    <2> QED BY <1>13, <2>1, <2>2, <2>3, <2>4 DEF CommitBatch
  <1>14. CASE FailBatch
    <2>0. op.pc \in {"members", "commit"} /\ op'.pc = "idle" /\ UNCHANGED acked
      BY <1>14 DEF FailBatch, Idle
    <2>1. CASE /\ assets' = [a \in Assets |-> IF a \in Batch THEN None ELSE assets[a]]
               /\ index' = index \ Batch /\ journal' = "none" /\ receipt' = FALSE /\ UNCHANGED stamp
      <3>1. Disk' = Disk \ Batch
        BY <1>0, <2>1 DEF Disk
      <3> QED BY <2>0, <2>1, <3>1
          DEF UniqueIdentity, ReceiptMembersExist, IndexIsDisk, BatchOwnsIds, InBatch, JournalIsOpen,
              ChangeApplies
    <2>2. CASE op.pc = "members" /\ stamp' = FALSE /\ UNCHANGED <<assets, index, journal, receipt>>
      <3>1. Disk' = Disk
        BY <2>2 DEF Disk
      <3> QED BY <2>0, <2>2, <3>1
          DEF UniqueIdentity, ReceiptMembersExist, IndexIsDisk, BatchOwnsIds, InBatch, JournalIsOpen,
              ChangeApplies
    <2> QED BY <1>14, <2>1, <2>2 DEF FailBatch
  <1>15. CASE DeleteStep
    <2>0. op \in [pc: DeletePcs, asset: Assets, todo: SUBSET Assets]
      BY <1>15, OpShape, PcIs
    <2>1. op'.pc \in DeletePcs \cup {"idle", "resume"}
      <3>1. op.pc # "marker" => NextPc[op.pc] \in DeletePcs
        BY <2>0 DEF NextPc, DeletePcs
      <3> QED BY <1>15, <3>1, PcIs
    <2>2. CASE UNCHANGED registry
      BY <1>2, <2>0, <2>1, <2>2 DEF ChangeApplies, DeletePcs
    <2>3. CASE op.pc = "receipts" /\ (receipt' => receipt) /\ UNCHANGED <<assets, acked, index, stamp, journal>>
      <3>1. Disk' = Disk
        BY <2>3 DEF Disk
      <3> QED BY <2>1, <2>3, <3>1
          DEF UniqueIdentity, ReceiptMembersExist, IndexIsDisk, BatchOwnsIds, InBatch, JournalIsOpen,
              ChangeApplies, DeletePcs
    <2>4. CASE /\ op.pc = "asset" /\ assets' = [assets EXCEPT ![op.asset] = None]
               /\ acked' = acked \ {op.asset} /\ IndexDelete({op.asset}) /\ UNCHANGED <<journal, receipt>>
      <3>1. Disk' = Disk \ {op.asset} /\ index' = Disk \ {op.asset}
        BY <1>0, <1>8, <2>0, <2>4 DEF Disk, IndexDelete
      <3>2. receipt => op.asset \notin Batch
        BY <2>4 DEF CascadeInOrder
      <3> QED BY <2>1, <2>4, <3>1, <3>2
          DEF UniqueIdentity, ReceiptMembersExist, IndexIsDisk, BatchOwnsIds, InBatch, JournalIsOpen,
              ChangeApplies, DeletePcs
    <2> QED BY <1>15, <2>2, <2>3, <2>4 DEF DeleteStep
  <1>17. CASE Crash
    <2>0. /\ op'.pc \in {"idle", "resume"} /\ stamp' = FALSE /\ journal' = "none"
          /\ receipt' = (Whole \/ (receipt /\ ~Unfinished))
          /\ acked' = IF Whole THEN acked \cup Batch ELSE acked
      BY <1>17 DEF Crash, Idle
    <2>1. Disk' = IF Unfinished THEN Disk \ Batch ELSE Disk
      BY <1>0, <1>17 DEF Crash, Disk
    <2>2. /\ Whole => Batch \subseteq Disk /\ ~Unfinished
          /\ Unfinished => acked \cap Batch = {}
      BY DEF Whole, Unfinished, JournalIsOpen, BatchOwnsIds, TypeOK
    <2> QED BY <2>0, <2>1, <2>2
        DEF UniqueIdentity, ReceiptMembersExist, IndexIsDisk, BatchOwnsIds, InBatch, JournalIsOpen,
            ChangeApplies
  <1>16. CASE UNCHANGED vars
    BY <1>1, <1>16 DEF vars
  <1> QED
    BY <1>3, <1>4, <1>5, <1>6, <1>7, <1>9, <1>10, <1>11, <1>12, <1>13, <1>14, <1>15, <1>16, <1>17,
       NextCases

-----------------------------------------------------------------------------
(* Deletion. *)

\* A cascade keeps its marker until its last write, and its order.
LEMMA CascadeStep == ASSUME TypeOK, CascadeInOrder, [Next]_vars PROVE CascadeInOrder'
  <1> USE DEF registry, control, cascade, clock
  <1>0. ASSUME op'.pc \notin DeletePcs \cup {"resume"} PROVE CascadeInOrder'
    BY <1>0 DEF CascadeInOrder, DeletePcs
  <1>1. CASE QuietStep
    BY <1>0, <1>1, QuietIs DEF Idle, DeletePcs
  <1>2. CASE ClaimStep
    BY <1>0, <1>2, ClaimIs DEF DeletePcs
  <1>3. CASE ApplyChange
    <2>1. op'.pc \in {"applied", "refused"}
      BY <1>3, OpShape DEF ApplyChange
    <2> QED BY <1>0, <2>1 DEF DeletePcs
  <1>4. CASE FinishChange
    <2>1. op'.pc \in {"idle", "suspend"}
      BY <1>4, OpShape DEF FinishChange, Idle
    <2> QED BY <1>0, <2>1 DEF DeletePcs
  <1>5. CASE SuspendRecurrences \/ FailBatch \/ BeginBatch
    BY <1>0, <1>5 DEF SuspendRecurrences, FailBatch, BeginBatch, Idle, DeletePcs
  <1>6. CASE PreflightBatch
    BY <1>0, <1>6 DEF PreflightBatch, Available, Idle, DeletePcs
  <1>7. CASE WriteMember
    <2>1. op'.pc = "members"
      BY <1>7, OpShape DEF WriteMember
    <2> QED BY <1>0, <2>1 DEF DeletePcs
  <1>8. CASE CommitBatch
    <2>1. op'.pc \in {"idle", "commit"}
      BY <1>8 DEF CommitBatch, Idle
    <2> QED BY <1>0, <2>1 DEF DeletePcs
  <1>9. ASSUME NEW a \in Assets, BeginDelete(a) PROVE CascadeInOrder'
    BY <1>9 DEF BeginDelete, CascadeInOrder
  <1>10. CASE DeleteStep
    <2>0. op \in [pc: DeletePcs, asset: Assets, todo: SUBSET Assets]
      BY <1>10, OpShape, PcIs
    <2>1. CASE op.pc = "marker"
      <3>1. markers' = markers \ {op.asset}
        BY <1>10, <2>1 DEF DeleteStep
      <3>2. op' = IF op.todo = {} THEN [pc |-> "idle"] ELSE [pc |-> "resume", todo |-> op.todo]
        BY <1>10, <2>1, PcIs
      <3> QED BY <2>1, <3>1, <3>2 DEF CascadeInOrder, DeletePcs
    <2>2. CASE op.pc # "marker"
      <3>1. op' = [pc |-> NextPc[op.pc], asset |-> op.asset, todo |-> op.todo] /\ UNCHANGED markers
        BY <1>10, <2>2, PcIs DEF DeleteStep
      <3>2. /\ op.pc = "audit" => op.asset \notin audited'
            /\ op.pc # "audit" => UNCHANGED audited
            /\ op.pc = "receipts" => (receipt' => op.asset \notin Batch)
            /\ op.pc # "receipts" => UNCHANGED receipt
        BY <1>10, <2>2 DEF DeleteStep
      <3>3. /\ NextPc[op.pc] \in {"asset", "marker"} => op.pc \in {"receipts", "asset"}
            /\ NextPc[op.pc] \in {"policies", "approvals", "receipts", "asset", "marker"}
                 => op.pc \in {"audit", "policies", "approvals", "receipts", "asset"}
            /\ NextPc[op.pc] \in DeletePcs
        BY <2>0, <2>2 DEF NextPc, DeletePcs
      <3> QED BY <2>0, <3>1, <3>2, <3>3 DEF CascadeInOrder, DeletePcs
    <2> QED BY <2>1, <2>2
  <1>11. CASE FailDelete
    <2>1. op' = IF op.todo = {} THEN [pc |-> "idle"] ELSE [pc |-> "resume", todo |-> op.todo]
      BY <1>11, PcIs
    <2> QED BY <1>11, <2>1 DEF FailDelete, CascadeInOrder, DeletePcs
  <1>12. CASE Crash
    BY <1>12 DEF Crash, CascadeInOrder, Idle, DeletePcs
  <1>13. CASE ResumeDelete
    <2>1. PICK a \in op.todo : op' = [pc |-> "verifications", asset |-> a, todo |-> op.todo \ {a}]
      BY <1>13 DEF ResumeDelete
    <2>2. op.todo \subseteq markers /\ UNCHANGED <<markers, audited, receipt>>
      BY <1>13 DEF ResumeDelete, CascadeInOrder
    <2> QED BY <2>1, <2>2 DEF CascadeInOrder
  <1>14. CASE UNCHANGED vars
    BY <1>14 DEF vars, CascadeInOrder
  <1> QED
    BY <1>1, <1>2, <1>3, <1>4, <1>5, <1>6, <1>7, <1>8, <1>9, <1>10, <1>11, <1>12, <1>13, <1>14, NextCases

\* Where the approvals of the next state come from: an approval keeps its
\* change, and a new one registers an asset or names one that is on disk.
ApprovalsFollow ==
  \A p \in Approvals :
    \/ approvals'[p] = None
    \/ approvals[p] # None /\ approvals'[p].chg = approvals[p].chg
    \/ approvals'[p].chg.kind = "registration" \/ approvals'[p].chg.target \in Disk

\* No step writes an approval about an asset that is not there.
LEMMA ApprovalsFollowStep == ASSUME TypeOK, ClaimHeld, [Next]_vars PROVE ApprovalsFollow
  <1> USE GovernanceAssumption DEF registry, control, cascade, clock
  <1> DEFINE recs == Normalized(now)
             Kept(p) == recs[p] = None \/ (approvals[p] # None /\ recs[p].chg = approvals[p].chg)
  <1>0. /\ recs \in [Approvals -> ApprovalRecord \cup {None}]
        /\ approvals \in [Approvals -> ApprovalRecord \cup {None}]
        /\ \A p \in Approvals : Kept(p)
    <2>1. ASSUME NEW p \in Approvals PROVE Kept(p)
      <3>1. ASSUME approvals[p] # None
            PROVE  [approvals[p] EXCEPT !.status = "expired", !.at = now].chg = approvals[p].chg
        BY <3>1 DEF TypeOK, ApprovalRecord
      <3> QED BY <3>1, NormalizedIs
    <2> QED BY <2>1, NormalizedType DEF TypeOK
  <1> HIDE DEF recs
  <1>1. ASSUME UNCHANGED approvals PROVE ApprovalsFollow
    BY <1>1 DEF ApprovalsFollow
  <1>2. ASSUME NEW q \in Approvals, NEW r, approvals' = [recs EXCEPT ![q] = r],
               \/ approvals[q] # None /\ r.chg = approvals[q].chg
               \/ r.chg.kind = "registration" \/ r.chg.target \in Disk
        PROVE  ApprovalsFollow
    BY <1>0, <1>2 DEF ApprovalsFollow
  <1>3. ASSUME NEW u \in Actors, NEW a \in Exercised,
               RequestRegistration(u, a) \/ RequestRenewal(u, a) \/ RequestRevocation(u, a)
        PROVE  ApprovalsFollow
    <2>1. PICK k \in {"registration", "renewal", "revocation"} :
             Request(u, Change(k, a)) /\ (k = "registration" \/ Status(a) # "absent")
      BY <1>3 DEF RequestRegistration, RequestRenewal, RequestRevocation
    <2>2. Change(k, a).kind = "registration" \/ Change(k, a).target \in Disk
      BY <2>1, ChangeType DEF Status, Disk
    <2>3. PICK p \in Approvals : approvals' = [recs EXCEPT ![p] =
               [status |-> "pending", chg |-> Change(k, a), by |-> u, approver |-> None,
                expires |-> now + Ttl, at |-> now, spent |-> 0]]
      BY <2>1 DEF Request, recs
    <2> QED BY <1>2, <2>2, <2>3
  <1>4. ASSUME NEW u \in Admins, NEW p \in Approvals, NEW b \in BOOLEAN, Decide(u, p, b)
        PROVE  ApprovalsFollow
    <2> DEFINE s == IF b THEN "approved" ELSE "rejected"
               r == [recs[p] EXCEPT !.status = s, !.approver = u, !.at = now]
    <2>1. recs[p] \in ApprovalRecord /\ approvals' = [recs EXCEPT ![p] = r]
      BY <1>0, <1>4 DEF Decide, recs
    <2>2. approvals[p] # None /\ r.chg = approvals[p].chg
      BY <1>0, <2>1 DEF ApprovalRecord
    <2> QED BY <1>2, <2>1, <2>2
  <1>5. ASSUME ListApprovals PROVE ApprovalsFollow
    BY <1>0, <1>5 DEF ListApprovals, recs, ApprovalsFollow
  <1>6. ASSUME NEW u \in Actors, NEW chg, NEW p \in Approvals, Claim(u, chg, p) PROVE ApprovalsFollow
    <2> DEFINE r == [recs[p] EXCEPT !.status = "executing"]
    <2>1. recs[p] \in ApprovalRecord /\ approvals' = [recs EXCEPT ![p] = r]
      BY <1>0, <1>6 DEF Claim, recs
    <2>2. approvals[p] # None /\ r.chg = approvals[p].chg
      BY <1>0, <2>1 DEF ApprovalRecord
    <2> QED BY <1>2, <2>1, <2>2
  <1>7. CASE ClaimStep
    BY <1>1, <1>6, <1>7, ClaimIs
  <1>8. CASE FinishChange
    <2>1. CASE op.approval = None
      BY <1>1, <1>8, <2>1 DEF FinishChange
    <2>2. CASE op.approval # None
      <3>1. op.approval \in Approvals /\ approvals[op.approval] \in ApprovalRecord
        BY <1>8, <2>2, OpShape DEF FinishChange, ClaimHeld, TypeOK
      <3>2. PICK r \in ApprovalRecord : /\ approvals' = [approvals EXCEPT ![op.approval] = r]
                                        /\ r.chg = approvals[op.approval].chg
        BY <1>8, <2>2, <3>1, FinishIs
      <3> QED BY <1>0, <3>1, <3>2 DEF ApprovalsFollow
    <2> QED BY <2>1, <2>2
  <1>9. CASE DeleteStep
    BY <1>9 DEF DeleteStep, ApprovalsFollow
  <1>10. CASE Crash
    <2>1. ASSUME NEW r \in ApprovalRecord PROVE Recovered(r).chg = r.chg
      BY DEF Recovered, ApprovalRecord
    <2> QED BY <1>0, <1>10, <2>1 DEF Crash, ApprovalsFollow, recs
  <1>11. CASE QuietStep
    <2>1. CASE \/ \E a \in Exercised, c \in Challenges : StartChallenge(a, c)
               \/ \E c \in Challenges : BeginCheck(c) \/ StopCheck(c)
               \/ Tick
      BY <1>1, <2>1 DEF StartChallenge, BeginCheck, StopCheck, Tick
    <2>2. CASE \/ \E c \in Challenges : RevokeChallenge(c)
               \/ \E c \in Challenges, m \in BOOLEAN : CompleteCheck(c, m)
               \/ \E a \in Exercised : Execute(a)
      BY <1>1, <2>2 DEF RevokeChallenge, CompleteCheck, Execute
    <2>3. CASE \E u \in Admins, p \in Approvals : ApproveChange(u, p) \/ RejectChange(u, p)
      BY <1>4, <2>3 DEF ApproveChange, RejectChange
    <2> QED BY <1>3, <1>5, <1>11, <2>1, <2>2, <2>3 DEF QuietStep
  <1>12. CASE ApplyChange \/ SuspendRecurrences \/ PreflightBatch \/ BeginBatch \/ WriteMember
    BY <1>1, <1>12 DEF ApplyChange, SuspendRecurrences, PreflightBatch, BeginBatch, WriteMember
  <1>13. CASE CommitBatch \/ FailBatch \/ (\E a \in Assets : BeginDelete(a)) \/ FailDelete \/ ResumeDelete
    BY <1>1, <1>13 DEF CommitBatch, FailBatch, BeginDelete, FailDelete, ResumeDelete
  <1>14. CASE UNCHANGED vars
    BY <1>1, <1>14 DEF vars
  <1> QED BY <1>7, <1>8, <1>9, <1>10, <1>11, <1>12, <1>13, <1>14, NextCases

\* What the other stores gain names an asset that is on disk.
RestFollows ==
  /\ \A c \in Challenges :
       \/ challenges'[c] = None
       \/ challenges[c] # None /\ challenges'[c].asset = challenges[c].asset
       \/ challenges'[c].asset \in Disk
  /\ \A a \in Assets \ Disk : /\ jobs[a] = "none" => jobs'[a] = "none"
                              /\ policies[a] = "none" => policies'[a] = "none"
                              /\ a \in audited' => a \in audited

\* No challenge, execution, recurrence or audit row starts about an asset that
\* is not there; in particular a check that ends writes back nothing.
LEMMA RestFollowsStep == ASSUME TypeOK, RegistryInv, [Next]_vars PROVE RestFollows
  <1> USE GovernanceAssumption DEF registry, control, cascade, clock
  <1>0. /\ challenges \in [Challenges -> ChallengeRecord \cup {None}]
        /\ jobs \in [Assets -> {"none", "active", "done"}]
        /\ policies \in [Assets -> {"none", "armed", "suspended"}]
    BY DEF TypeOK
  <1>1. ASSUME UNCHANGED <<challenges, jobs, policies, audited>> PROVE RestFollows
    BY <1>1 DEF RestFollows
  <1>2. ASSUME NEW a \in Exercised, NEW c \in Challenges, StartChallenge(a, c) PROVE RestFollows
    <2>1. a \in Disk
      BY <1>2 DEF StartChallenge, Status, Disk
    <2>2. ASSUME NEW r \in ChallengeRecord
          PROVE  [r EXCEPT !.status = "revoked", !.until = 0].asset = r.asset
      BY DEF ChallengeRecord
    <2>3. ASSUME NEW d \in Challenges
          PROVE  \/ challenges'[d] = None
                 \/ challenges[d] # None /\ challenges'[d].asset = challenges[d].asset
                 \/ challenges'[d].asset \in Disk
      BY <1>0, <1>2, <2>1, <2>2 DEF StartChallenge
    <2>4. UNCHANGED <<jobs, policies>> /\ audited' = audited \cup {a}
      BY <1>2 DEF StartChallenge
    <2> QED BY <2>1, <2>3, <2>4 DEF RestFollows
  <1>3. ASSUME NEW c \in Challenges, RevokeChallenge(c) PROVE RestFollows
    <2>1. challenges[c] \in ChallengeRecord /\ challenges[c].asset \in Assets
      BY <1>0, <1>3 DEF RevokeChallenge, ChallengeRecord
    <2>2. challenges' = [challenges EXCEPT ![c] = [challenges[c] EXCEPT !.status = "revoked", !.until = 0]]
      BY <1>0, <1>3 DEF RevokeChallenge
    <2>3. [challenges[c] EXCEPT !.status = "revoked", !.until = 0].asset = challenges[c].asset
      BY <2>1 DEF ChallengeRecord
    <2>4. /\ \A a \in Assets : policies[a] = "none" => policies'[a] = "none"
          /\ UNCHANGED <<jobs, audited>>
      BY <1>0, <1>3 DEF RevokeChallenge
    <2> QED BY <1>0, <2>1, <2>2, <2>3, <2>4 DEF RestFollows
  <1>4. ASSUME NEW c \in Challenges, NEW m \in BOOLEAN, CompleteCheck(c, m) PROVE RestFollows
    <2>0. UNCHANGED <<jobs, policies, audited>>
      BY <1>4 DEF CompleteCheck
    <2>1. CASE UNCHANGED challenges
      BY <1>1, <2>0, <2>1
    <2>2. CASE Materialized(c) = "pending"
      <3> DEFINE s == IF m THEN "verified" ELSE "failed"
                 until == IF checks[c].exp < now + Ttl THEN checks[c].exp ELSE now + Ttl
                 u == IF m THEN until ELSE 0
      <3>1. challenges[c] \in ChallengeRecord
        BY <1>0, <2>2 DEF Materialized
      <3>2. challenges' = [challenges EXCEPT ![c] = [challenges[c] EXCEPT !.status = s, !.until = u]]
        BY <1>0, <1>4, <2>2 DEF CompleteCheck
      <3> HIDE DEF s, u, until
      <3>3. [challenges[c] EXCEPT !.status = s, !.until = u].asset = challenges[c].asset
        BY <3>1 DEF ChallengeRecord
      <3> QED BY <1>0, <2>0, <3>1, <3>2, <3>3 DEF RestFollows
    <2> QED BY <1>4, <2>1, <2>2 DEF CompleteCheck
  <1>5. ASSUME NEW a \in Exercised, Execute(a) PROVE RestFollows
    <2>1. UNCHANGED challenges /\ a \in Assets
      BY <1>5 DEF Execute
    <2>2. Status(a) = "active" => a \in Disk
      BY <2>1 DEF Status, Disk
    <2>3. CASE Status(a) = "active" /\ jobs' = [jobs EXCEPT ![a] = "active"]
               /\ audited' = audited \cup {a} /\ UNCHANGED policies
      BY <1>0, <2>1, <2>2, <2>3 DEF RestFollows
    <2>4. CASE jobs[a] = "active" /\ jobs' = [jobs EXCEPT ![a] = "done"] /\ UNCHANGED <<audited, policies>>
      BY <1>0, <2>1, <2>4 DEF RestFollows
    <2>5. CASE Status(a) = "active" /\ policies' = [policies EXCEPT ![a] = "armed"] /\ UNCHANGED <<audited, jobs>>
      BY <1>0, <2>1, <2>2, <2>5 DEF RestFollows
    <2> QED BY <1>5, <2>3, <2>4, <2>5 DEF Execute
  <1>6. CASE QuietStep
    <2>1. CASE \/ \E u \in Actors, a \in Exercised :
                    RequestRegistration(u, a) \/ RequestRenewal(u, a) \/ RequestRevocation(u, a)
               \/ \E u \in Admins, p \in Approvals : ApproveChange(u, p) \/ RejectChange(u, p)
               \/ ListApprovals \/ Tick
      BY <1>1, <2>1
      DEF RequestRegistration, RequestRenewal, RequestRevocation, Request, ApproveChange, RejectChange,
          Decide, ListApprovals, Tick
    <2>2. CASE \E c \in Challenges : BeginCheck(c) \/ StopCheck(c)
      BY <1>1, <2>2 DEF BeginCheck, StopCheck
    <2> QED BY <1>2, <1>3, <1>4, <1>5, <1>6, <2>1, <2>2 DEF QuietStep
  <1>7. CASE ClaimStep
    BY <1>1, <1>7, ClaimIs
  <1>8. CASE SuspendRecurrences
    <2>1. op.chg.target \in Disk
      BY <1>8 DEF SuspendRecurrences, RegistryInv, ChangeApplies
    <2> QED BY <1>0, <1>8, <2>1 DEF SuspendRecurrences, RestFollows, Disk
  <1>9. CASE ApplyChange \/ FinishChange \/ PreflightBatch \/ BeginBatch \/ WriteMember
    BY <1>1, <1>9 DEF ApplyChange, FinishChange, PreflightBatch, BeginBatch, WriteMember
  <1>10. CASE CommitBatch
    <2>1. op.pc = "commit" => Batch \subseteq Disk
      BY DEF RegistryInv, BatchOwnsIds
    <2> QED BY <1>10, <2>1 DEF CommitBatch, RestFollows
  <1>11. CASE FailBatch \/ (\E a \in Assets : BeginDelete(a)) \/ FailDelete \/ ResumeDelete
    BY <1>1, <1>11 DEF FailBatch, BeginDelete, FailDelete, ResumeDelete
  <1>12. CASE DeleteStep
    <2>1. op.asset \in Assets
      BY <1>12, OpShape, PcIs
    <2> QED BY <1>0, <1>12, <2>1 DEF DeleteStep, RestFollows
  <1>13. CASE Crash
    BY <1>0, <1>13 DEF Crash, RestFollows
  <1>14. CASE UNCHANGED vars
    BY <1>1, <1>14 DEF vars
  <1> QED
    BY <1>6, <1>7, <1>8, <1>9, <1>10, <1>11, <1>12, <1>13, <1>14, NextCases

\* An asset that is not there and that nothing names stays unnamed.
LEMMA CleanFollows ==
  ASSUME TypeOK, ClaimHeld, RegistryInv, [Next]_vars, NEW a \in Assets \ Disk, Clean(a)
  PROVE  Clean(a)'
  <1> USE GovernanceAssumption
  <1>0. approvals' \in [Approvals -> ApprovalRecord \cup {None}]
    BY TypeStep DEF TypeOK
  <1>1. jobs'[a] = "none" /\ policies'[a] = "none" /\ a \notin audited'
    BY RestFollowsStep DEF RestFollows, Clean
  <1>2. ASSUME NEW p \in Approvals PROVE ScopeOf(p)' # a
    BY ApprovalsFollowStep DEF ApprovalsFollow, Clean, ScopeOf
  <1>3. ASSUME NEW c \in Challenges PROVE challenges'[c] = None \/ challenges'[c].asset # a
    BY RestFollowsStep DEF RestFollows, Clean
  <1> QED BY <1>1, <1>2, <1>3 DEF Clean

\* A step that changes none of the stores that name assets.
LEMMA CleanSame ==
  ASSUME UNCHANGED <<jobs, policies, audited, approvals, challenges>>, NEW a PROVE Clean(a)' <=> Clean(a)
  BY DEF Clean, ScopeOf

\* What a cascade, a rollback or a restart removes leaves nothing behind, and
\* nothing names the ids of a batch in progress.
LEMMA LeftBehindStep ==
  ASSUME TypeOK, ClaimHeld, RegistryInv, CascadeInOrder, NothingLeftBehind, BatchIsNew, [Next]_vars
  PROVE  NothingLeftBehind' /\ BatchIsNew'
  <1> USE GovernanceAssumption DEF registry, control, cascade, clock
  <1>0. /\ \A a \in Assets \ dropped : a \notin Disk /\ a \notin markers => Clean(a)
        /\ assets \in [Assets -> AssetRecord \cup {None}]
    BY DEF NothingLeftBehind, Clean, Disk, TypeOK
  <1>1. ASSUME \A a \in Assets \ dropped' : a \notin Disk' /\ a \notin markers' => Clean(a)'
        PROVE  NothingLeftBehind'
    BY <1>1 DEF NothingLeftBehind, Clean, Disk
  <1>2. ASSUME dropped \subseteq dropped',
               \A a \in Assets \ dropped' : a \notin Disk' /\ a \notin markers' =>
                   (a \notin Disk /\ a \notin markers) \/ Clean(a)'
        PROVE  NothingLeftBehind'
    BY <1>0, <1>1, <1>2, CleanFollows
  <1>3. ASSUME UNCHANGED dropped, Disk \subseteq Disk', markers \subseteq markers'
        PROVE  NothingLeftBehind'
    BY <1>2, <1>3
  <1>4. ASSUME op'.pc \notin {"members", "commit"} PROVE BatchIsNew'
    BY <1>4 DEF BatchIsNew, InBatch
  <1>5. CASE QuietStep
    <2>1. Disk' = Disk
      BY <1>5, QuietIs DEF Disk
    <2> QED BY <1>3, <1>4, <1>5, <2>1, QuietIs DEF Idle
  <1>6. CASE ClaimStep
    <2>1. Disk' = Disk
      BY <1>6, ClaimIs DEF Disk
    <2> QED BY <1>3, <1>4, <1>6, <2>1, ClaimIs
  <1>7. CASE ApplyChange
    <2>1. op.chg \in ChangeRecord /\ op'.pc \in {"applied", "refused"}
      BY <1>7, OpShape DEF ApplyChange
    <2>2. Disk \subseteq Disk'
      BY <1>0, <1>7, <2>1, WrittenType DEF ApplyChange, Disk
    <2> QED BY <1>3, <1>4, <1>7, <2>1, <2>2 DEF ApplyChange
  <1>8. CASE FinishChange
    <2>1. op'.pc \in {"idle", "suspend"} /\ Disk' = Disk
      BY <1>8, OpShape DEF FinishChange, Idle, Disk
    <2> QED BY <1>3, <1>4, <1>8, <2>1 DEF FinishChange
  <1>9. CASE SuspendRecurrences \/ PreflightBatch \/ ResumeDelete \/ \E a \in Assets : BeginDelete(a)
    <2>1. Disk' = Disk /\ UNCHANGED dropped /\ markers \subseteq markers'
      BY <1>9 DEF SuspendRecurrences, PreflightBatch, ResumeDelete, BeginDelete, Disk
    <2>2. op'.pc \in {"idle", "verifications"}
      BY <1>9 DEF SuspendRecurrences, PreflightBatch, Available, ResumeDelete, BeginDelete, Idle
    <2> QED BY <1>3, <1>4, <2>1, <2>2
  <1>10. CASE FailDelete
    <2>1. Disk' = Disk /\ op'.pc \in {"idle", "resume"}
      BY <1>10, PcIs DEF FailDelete, Disk
    <2> QED BY <1>3, <1>4, <1>10, <2>1 DEF FailDelete
  <1>11. CASE BeginBatch
    <2>1. /\ UNCHANGED <<assets, dropped, approvals, control, cascade>> /\ markers = {}
          /\ \A a \in Batch : assets[a] = None
      BY <1>11 DEF BeginBatch, Available
    <2>2. \A a \in Batch \ dropped' : Clean(a)'
      BY <1>0, <2>1, CleanSame DEF Disk
    <2> QED BY <1>3, <2>1, <2>2 DEF BatchIsNew, Disk
  <1>12. CASE WriteMember
    <2>1. UNCHANGED <<dropped, approvals, control, cascade>> /\ op.pc = "members"
      BY <1>12 DEF WriteMember
    <2>2. Registered # None
      <3>1. Registered \in AssetRecord
        BY DEF TypeOK, Registered, AssetRecord
      <3> QED BY <3>1
    <2>3. Disk \subseteq Disk'
      BY <1>0, <1>12, <2>2 DEF WriteMember, Disk
    <2>4. \A a \in Batch \ dropped' : Clean(a)'
      BY <2>1, CleanSame DEF BatchIsNew, InBatch
    <2> QED BY <1>3, <2>1, <2>3, <2>4 DEF BatchIsNew
  <1>13. CASE CommitBatch
    <2>1. UNCHANGED <<assets, dropped, markers>> /\ op.pc \in {"members", "commit"}
      BY <1>13 DEF CommitBatch
    <2>2. Disk' = Disk
      BY <2>1 DEF Disk
    <2>3. op' = Idle \/ UNCHANGED <<approvals, control, jobs, policies, audited>>
      BY <1>13 DEF CommitBatch
    <2>4. BatchIsNew'
      <3>1. CASE op' = Idle
        BY <1>4, <3>1 DEF Idle
      <3>2. CASE UNCHANGED <<approvals, control, jobs, policies, audited>>
        BY <2>1, <3>2, CleanSame DEF BatchIsNew, InBatch
      <3> QED BY <2>3, <3>1, <3>2
    <2> QED BY <1>3, <2>1, <2>2, <2>4
  <1>14. CASE FailBatch
    <2>1. UNCHANGED <<dropped, approvals, control, cascade>> /\ InBatch /\ op'.pc = "idle"
      BY <1>14 DEF FailBatch, InBatch, Idle
    <2>2. Disk \ Batch \subseteq Disk'
      BY <1>0, <1>14 DEF FailBatch, Disk
    <2>3. ASSUME NEW a \in Assets \ dropped', a \notin Disk', a \notin markers'
          PROVE  (a \notin Disk /\ a \notin markers) \/ Clean(a)'
      BY <2>1, <2>2, <2>3, CleanSame DEF BatchIsNew
    <2> QED BY <1>2, <1>4, <2>1, <2>3
  <1>15. CASE DeleteStep
    <2>0. op \in [pc: DeletePcs, asset: Assets, todo: SUBSET Assets] /\ UNCHANGED dropped
      BY <1>15, OpShape, PcIs DEF DeleteStep
    <2>1. op'.pc \notin {"members", "commit"}
      <3>1. op.pc # "marker" => NextPc[op.pc] \in DeletePcs
        BY <2>0 DEF NextPc, DeletePcs
      <3> QED BY <1>15, <3>1, PcIs DEF DeletePcs
    <2>2. CASE op.pc = "marker"
      <3>1. /\ markers' = markers \ {op.asset}
            /\ UNCHANGED <<assets, approvals, control, jobs, policies, audited>>
        BY <1>15, <2>2 DEF DeleteStep
      <3>2. PICK b \in Assets : b = op.asset
        BY <2>0
      <3>3. Clean(b)
        BY <1>15, <2>2, <3>2 DEF DeleteStep, CascadeInOrder, Clean
      <3>4. Clean(b)' /\ Disk' = Disk
        BY <3>1, <3>3, CleanSame DEF Disk
      <3> QED BY <1>2, <1>4, <2>0, <2>1, <3>1, <3>2, <3>4
    <2>3. CASE op.pc = "asset"
      <3>1. /\ UNCHANGED markers /\ op.asset \in markers /\ assets' = [assets EXCEPT ![op.asset] = None]
        BY <1>15, <2>3 DEF DeleteStep, CascadeInOrder, DeletePcs
      <3>2. Disk \ {op.asset} \subseteq Disk'
        BY <1>0, <3>1 DEF Disk
      <3> QED BY <1>2, <1>4, <2>0, <2>1, <3>1, <3>2
    <2>4. CASE op.pc \notin {"marker", "asset"}
      <3>1. UNCHANGED <<assets, markers>>
        BY <1>15, <2>4 DEF DeleteStep
      <3>2. Disk' = Disk
        BY <3>1 DEF Disk
      <3> QED BY <1>3, <1>4, <2>0, <2>1, <3>1, <3>2
    <2> QED BY <2>2, <2>3, <2>4
  <1>16. CASE Crash
    <2>1. /\ UNCHANGED markers /\ dropped \subseteq dropped' /\ op'.pc \in {"idle", "resume"}
          /\ Disk \subseteq Disk' \cup dropped'
      BY <1>0, <1>16 DEF Crash, Disk, Idle
    <2> QED BY <1>2, <1>4, <2>1
  <1>17. CASE UNCHANGED vars
    <2>1. Disk' = Disk
      BY <1>17 DEF vars, Disk
    <2>2. BatchIsNew'
      BY <1>17, CleanSame DEF vars, BatchIsNew, InBatch
    <2> QED BY <1>3, <1>17, <2>1, <2>2 DEF vars
  <1> QED
    BY <1>5, <1>6, <1>7, <1>8, <1>9, <1>10, <1>11, <1>12, <1>13, <1>14, <1>15, <1>16, <1>17, NextCases

-----------------------------------------------------------------------------
(* The theorems. *)

\* A fresh data directory satisfies the invariant.
LEMMA GovernanceInit == Init => GovernanceInv
  <1> SUFFICES ASSUME Init PROVE GovernanceInv
    OBVIOUS
  <1> USE GovernanceAssumption
  <1>1. op.pc = "idle" /\ Disk = {}
    BY DEF Init, Idle, Disk
  <1>2. TypeOK
    <2>1. op \in Operation
      BY DEF Init, Operation
    <2>2. /\ assets \in [Assets -> AssetRecord \cup {None}]
          /\ approvals \in [Approvals -> ApprovalRecord \cup {None}]
          /\ challenges \in [Challenges -> ChallengeRecord \cup {None}]
          /\ checks \in [Challenges -> CheckRecord \cup {None}]
      BY DEF Init
    <2>3. /\ jobs \in [Assets -> {"none", "active", "done"}]
          /\ policies \in [Assets -> {"none", "armed", "suspended"}]
      BY DEF Init
    <2>4. now \in 0..MaxNow /\ faults \in 0..MaxFaults
      BY DEF Init
    <2> QED BY <2>1, <2>2, <2>3, <2>4 DEF Init, TypeOK
  <1>3. FourEyesOnce /\ ClaimHeld
    BY <1>1 DEF Init, FourEyesOnce, ClaimHeld
  <1>4. RegistryInv
    BY <1>1 DEF Init, RegistryInv, UniqueIdentity, ReceiptMembersExist, IndexIsDisk, BatchOwnsIds, InBatch,
                JournalIsOpen, ChangeApplies
  <1>5. CascadeInOrder /\ BatchIsNew
    BY <1>1 DEF CascadeInOrder, DeletePcs, BatchIsNew, InBatch
  <1>6. NothingLeftBehind
    BY DEF Init, NothingLeftBehind, ScopeOf
  <1> QED BY <1>2, <1>3, <1>4, <1>5, <1>6 DEF GovernanceInv

\* Every handler, recovery step and crash keeps it.
LEMMA GovernanceStep == GovernanceInv /\ [Next]_vars => GovernanceInv'
  BY TypeStep, ApprovalStep, RegistryStep, CascadeStep, LeftBehindStep DEF GovernanceInv

\* The inductive invariant of the module holds in every reachable state.
THEOREM GovernanceInvariant == Spec => []GovernanceInv
  BY GovernanceInit, GovernanceStep, PTL DEF Spec

\* An approval is decided by an administrator other than its requester and is
\* good for one application, whatever crash or refusal falls between claim(),
\* the change and finish().
THEOREM ApprovalsAreSpentOnce == Spec => []FourEyesOnce
  BY GovernanceInvariant, PTL DEF GovernanceInv

\* Two assets never share an identity, a batch receipt never outlives a member
\* and a deleted asset leaves nothing behind, whatever write, step or process
\* failed before.
THEOREM RegistryStaysWhole == Spec => []RegistryWhole
  <1>1. GovernanceInv => RegistryWhole
    BY DEF GovernanceInv, RegistryInv, RegistryWhole
  <1> QED BY <1>1, GovernanceInvariant, PTL

\* complete() of a check never revives a revoked or superseded challenge, and
\* no rollback, failed batch or restart removes an acknowledged registration.
THEOREM NothingIsUndone == Spec => NothingUndone
  <1> DEFINE Stays == \A c \in Challenges :
                        challenges[c] # None /\ challenges[c].status = "revoked" /\ challenges'[c] # None
                          => challenges'[c].status = "revoked"
             Kept == \A a \in acked : assets'[a] # None \/ (op.pc = "asset" /\ op.asset = a)
  <1>1. ASSUME GovernanceInv, [Next]_vars PROVE Stays
    <2> USE <1>1 DEF registry, control, cascade, clock
    <2>0. TypeOK /\ challenges \in [Challenges -> ChallengeRecord \cup {None}]
      BY DEF GovernanceInv, TypeOK
    <2>1. ASSUME UNCHANGED challenges PROVE Stays
      BY <2>1
    <2>2. ASSUME NEW a \in Exercised, NEW c \in Challenges, StartChallenge(a, c) PROVE Stays
      <3>1. ASSUME NEW d \in Challenges, challenges[d] # None, challenges[d].status = "revoked"
            PROVE  challenges'[d] = challenges[d]
        <4>1. d # c /\ Materialized(d) = "revoked"
          BY <2>2, <3>1 DEF StartChallenge, Materialized
        <4> QED BY <2>2, <4>1 DEF StartChallenge
      <3> QED BY <3>1
    <2>3. ASSUME NEW c \in Challenges, RevokeChallenge(c) PROVE Stays
      BY <2>0, <2>3 DEF RevokeChallenge
    <2>4. ASSUME NEW c \in Challenges, NEW m \in BOOLEAN, CompleteCheck(c, m) PROVE Stays
      <3>1. challenges[c] # None /\ challenges[c].status = "revoked" => UNCHANGED challenges
        BY <2>4 DEF CompleteCheck, Materialized
      <3>2. \A d \in Challenges \ {c} : challenges'[d] = challenges[d]
        BY <2>0, <2>4 DEF CompleteCheck
      <3> QED BY <3>1, <3>2
    <2>5. CASE QuietStep
      <3>1. CASE \/ \E u \in Actors, a \in Exercised :
                      RequestRegistration(u, a) \/ RequestRenewal(u, a) \/ RequestRevocation(u, a)
                 \/ \E u \in Admins, p \in Approvals : ApproveChange(u, p) \/ RejectChange(u, p)
                 \/ ListApprovals \/ Tick
        BY <2>1, <3>1
        DEF RequestRegistration, RequestRenewal, RequestRevocation, Request, ApproveChange, RejectChange,
            Decide, ListApprovals, Tick
      <3>2. CASE \/ \E c \in Challenges : BeginCheck(c) \/ StopCheck(c)
                 \/ \E a \in Exercised : Execute(a)
        BY <2>1, <3>2 DEF BeginCheck, StopCheck, Execute
      <3> QED BY <2>2, <2>3, <2>4, <2>5, <3>1, <3>2 DEF QuietStep
    <2>6. CASE ClaimStep
      BY <2>0, <2>1, <2>6, ClaimIs
    <2>7. CASE ApplyChange \/ FinishChange \/ SuspendRecurrences \/ PreflightBatch \/ BeginBatch \/ WriteMember
      BY <2>1, <2>7 DEF ApplyChange, FinishChange, SuspendRecurrences, PreflightBatch, BeginBatch, WriteMember
    <2>8. CASE \/ CommitBatch \/ FailBatch \/ (\E a \in Assets : BeginDelete(a)) \/ FailDelete
               \/ ResumeDelete \/ Crash \/ UNCHANGED vars
      BY <2>1, <2>8 DEF CommitBatch, FailBatch, BeginDelete, FailDelete, ResumeDelete, Crash, vars
    <2>9. CASE DeleteStep
      BY <2>0, <2>9 DEF DeleteStep
    <2> QED BY <2>5, <2>6, <2>7, <2>8, <2>9, NextCases
  <1>2. ASSUME GovernanceInv, [Next]_vars PROVE Kept
    <2>1. \A a \in acked : a \in Disk
      BY <1>2 DEF GovernanceInv, RegistryInv
    <2>2. GovernanceInv'
      BY <1>2, GovernanceStep
    <2>3. \A a \in acked : a \in acked' => assets'[a] # None
      BY <2>2 DEF GovernanceInv, RegistryInv, Disk
    <2>4. ASSUME NEW a \in acked, a \notin acked' PROVE op.pc = "asset" /\ op.asset = a
      <3> USE <2>4 DEF registry, cascade
      <3>1. TypeOK
        BY <1>2 DEF GovernanceInv
      <3>2. ~QuietStep /\ ~ClaimStep
        BY <3>1, QuietIs, ClaimIs
      <3>3. ~(ApplyChange \/ FinishChange \/ SuspendRecurrences \/ PreflightBatch \/ BeginBatch \/ WriteMember)
        BY DEF ApplyChange, FinishChange, SuspendRecurrences, PreflightBatch, BeginBatch, WriteMember
      <3>4. ~(CommitBatch \/ FailBatch \/ FailDelete \/ ResumeDelete \/ Crash \/ UNCHANGED vars)
        BY DEF CommitBatch, FailBatch, FailDelete, ResumeDelete, Crash, vars
      <3>5. ~(\E b \in Assets : BeginDelete(b))
        BY DEF BeginDelete
      <3>6. DeleteStep
        BY <1>2, <3>2, <3>3, <3>4, <3>5, NextCases
      <3> QED BY <3>6 DEF DeleteStep
    <2> QED BY <2>3, <2>4
  <1>3. GovernanceInv /\ [Next]_vars => [Stays]_vars /\ [Kept]_vars
    BY <1>1, <1>2
  <1> QED BY <1>3, GovernanceInvariant, PTL DEF Spec, NothingUndone, RevokedStaysRevoked, AcknowledgedKept
=============================================================================
