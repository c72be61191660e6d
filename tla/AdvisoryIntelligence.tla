------------------------- MODULE AdvisoryIntelligence -------------------------
(***************************************************************************)
(* Public vulnerability intelligence of one completed analysis: requests   *)
(* that run side by side in worker threads, the client that asks the       *)
(* provider (namespace approvals, response cache, circuit breaker,         *)
(* concurrency permits, retries, pages), and the stored snapshot they      *)
(* replace.                                                                *)
(*                                                                         *)
(* Time is a counter; a component has at most one advisory, which the      *)
(* provider lists or not.  The details of a listed advisory are the        *)
(* provider's: any status.  The offline snapshot, the counters of the      *)
(* summary and the freshness table of the sources are left out.            *)
(***************************************************************************)
EXTENDS Absence, Naturals, FiniteSets, Sequences, SequencesExt

CONSTANTS
    Components,   \* a sequence: the exact public identities of the inventory
    Secondary,    \* the GitHub, NVD and KEV providers explored
    Slots,        \* requests that may be in progress together
    BatchSize,    \* max_batch_components
    Ttl,          \* freshness of a cached response
    Retention,    \* life of a cached response
    Threshold,    \* failures that open the circuit
    Cooldown,     \* how long it stays open
    Validity,     \* requested_ttl_days of an attestation
    Permits,      \* sends at a time
    MaxRetries,   \* retries of a send
    MaxPages,     \* pages of one answer
    MaxNow,       \* instants explored
    MaxRequests,  \* requests explored
    MaxUpsets     \* changes of the provider and of the approvals, failed sends,
                  \* failed writes and stops explored

ASSUME IntelligenceAssumption ==
    /\ Components \in Seq(ToSet(Components))
    /\ \A i, j \in DOMAIN Components : Components[i] = Components[j] => i = j
    /\ Secondary \subseteq {"github_advisories", "nvd", "cisa_kev"}
    /\ {BatchSize, Ttl, Retention, MaxNow, Validity} \subseteq Nat
    /\ BatchSize > 0

VARIABLES
    now,
    listed,     \* the components the provider lists an advisory of
    cleanAt,    \* the instants at which it listed none, for each component
    approval,   \* the organization's attestation of each identity
    cache,      \* the cached answer to each batch, or None
    circuit,    \* failures in a row and the instant until which it is open
    req,        \* the request of each slot
    snapshot,   \* the stored intelligence, or None
    requests, upsets

intelligence == <<now, listed, cleanAt, approval, cache, circuit, req, snapshot,
                  requests, upsets>>

Names == ToSet(Components)

Idle == [phase |-> "idle"]

-----------------------------------------------------------------------------
(* Organization approvals. *)

IsApproved(c) == approval[c].state = "approved" /\ approval[c].expires > now

IdentityStatus(c) ==
    IF approval[c].state = "approved" /\ ~IsApproved(c) THEN "expired"
    ELSE approval[c].state

ProposePublicIdentity(c) ==
    /\ upsets < MaxUpsets
    /\ IdentityStatus(c) \notin {"pending", "approved"}
    /\ approval' = [approval EXCEPT ![c] = [state |-> "pending", expires |-> 0]]
    /\ upsets' = upsets + 1
    /\ UNCHANGED <<now, listed, cleanAt, cache, circuit, req, snapshot,
                   requests>>

ApprovePublicIdentity(c) ==
    /\ IdentityStatus(c) = "pending"
    /\ approval' = [approval EXCEPT ![c] = [state |-> "approved", expires |-> now + Validity]]
    /\ UNCHANGED <<now, listed, cleanAt, cache, circuit, req, snapshot,
                   requests, upsets>>

RevokePublicIdentity(c) ==
    /\ upsets < MaxUpsets
    /\ IdentityStatus(c) \in {"pending", "approved"}
    /\ approval' = [approval EXCEPT ![c].state = "revoked"]
    /\ upsets' = upsets + 1
    /\ UNCHANGED <<now, listed, cleanAt, cache, circuit, req, snapshot,
                   requests>>

-----------------------------------------------------------------------------
(* The client. *)

\* Mutant of CacheGet.
CacheGetForever(batch) == cache[batch]

\* A cached answer does not outlive its retention.
CacheGet(batch) ==
    IF cache[batch] = None \/ (cache[batch] # None => now > cache[batch].at + Retention)
    THEN None ELSE cache[batch]

IsFresh(entry) == entry # None /\ (entry # None => now <= entry.at + Ttl)

CircuitIsOpen == circuit.until # 0 /\ now < circuit.until

AfterCooldown ==
    IF circuit.until # 0 /\ now >= circuit.until
    THEN [failures |-> 0, until |-> 0] ELSE circuit

RecordProviderFailure(state) ==
    [failures |-> state.failures + 1,
     until |-> IF state.failures + 1 >= Threshold THEN now + Cooldown ELSE 0]

Sending == {s \in Slots : req[s].phase = "wire"}

\* How many of a set of identities come before one in the inventory.
Position(set, c) ==
    Cardinality({d \in set : \E i, j \in DOMAIN Components :
                                i < j /\ Components[i] = d /\ Components[j] = c})

\* Batches of a list of identities.
Batches(set) ==
    [i \in 1 .. (Cardinality(set) + BatchSize - 1) \div BatchSize |->
        {c \in set : Position(set, c) \div BatchSize = i - 1}]

-----------------------------------------------------------------------------
(* The correlation of a request. *)

StateOf(status) ==
    CASE status = "affected" -> "affected"
      [] status = "none" -> "not_affected"
      [] OTHER -> "unavailable"

\* What a thread holds of one batch.
NoBatch == [cached |-> None, looked |-> 0, tries |-> 0, pages |-> 0, body |-> <<>>,
            hydrating |-> FALSE]

\* The batch failed.
Failed(r) ==
    [r EXCEPT !.degraded = TRUE, !.todo = Tail(@), !.phase = "batch", !.batch = NoBatch]

\* The batch has a complete answer, of a fresh or of a stale response.
Answered(r, body, stale) ==
    [r EXCEPT
        !.told = [c \in Names |-> IF c \in DOMAIN body THEN StateOf(body[c]) ELSE @[c]],
        !.findings = @ \cup {c \in DOMAIN body : body[c] = "affected"},
        !.degraded = @ \/ \E c \in DOMAIN body : body[c] = "incomplete",
        !.stale = @ \/ stale, !.answered = @ \cup DOMAIN body,
        !.todo = Tail(@), !.phase = "batch", !.batch = NoBatch]

\* Without an answer the last response, if it is retained, is used.
Unanswered(r) ==
    IF r.batch.cached # None THEN Answered(r, r.batch.cached.body, TRUE) ELSE Failed(r)

\* The snapshot of a finished correlation.
SnapshotOf(r) ==
    [state |-> IF r.asked = {} THEN "no_correlatable_components"
               ELSE IF r.degraded THEN "degraded"
               ELSE IF r.stale THEN "stale" ELSE "ready",
     at |-> r.at, told |-> r.told, findings |-> [c \in r.findings |-> {}]]

ControlledFailure(r) ==
    [state |-> "degraded", at |-> now, findings |-> <<>>,
     told |-> [c \in Names |-> IF c \in r.asked THEN "unavailable" ELSE "not_correlatable"]]

\* Mutant of RetainPrevious.
RetainHealthyPrevious(previous, attempted) ==
    IF attempted.state # "degraded" \/ previous = None THEN attempted
    ELSE IF previous.state \notin {"ready", "stale"} THEN attempted
    ELSE [attempted EXCEPT !.findings =
            [c \in DOMAIN attempted.findings \cup DOMAIN previous.findings |->
                IF c \in DOMAIN previous.findings THEN previous.findings[c] ELSE {}]]

\* A degraded refresh keeps the findings of the snapshot that was stored when
\* the request began; a finding it repeats keeps the GitHub and KEV evidence.
RetainPrevious(previous, attempted) ==
    IF attempted.state # "degraded" \/ previous = None THEN attempted
    ELSE IF previous.state \notin {"ready", "stale", "degraded"} THEN attempted
    ELSE [attempted EXCEPT !.findings =
            [c \in DOMAIN attempted.findings \cup DOMAIN previous.findings |->
                IF c \notin DOMAIN previous.findings THEN {}
                ELSE IF c \in DOMAIN attempted.findings
                     THEN previous.findings[c] \cap {"github_advisories", "cisa_kev"}
                     ELSE previous.findings[c]]]

-----------------------------------------------------------------------------

IntelligenceInit ==
    /\ now = 1
    /\ listed \in SUBSET Names
    /\ cleanAt = [c \in Names |-> IF c \in listed THEN {} ELSE {1}]
    /\ approval = [c \in Names |-> [state |-> "approved", expires |-> MaxNow + 1]]
    /\ cache = [b \in SUBSET Names |-> None]
    /\ circuit = [failures |-> 0, until |-> 0]
    /\ req = [s \in Slots |-> Idle]
    /\ snapshot = None /\ requests = 0 /\ upsets = 0

\* An OSV request reads the stored snapshot and the approvals, and goes on in a
\* thread.
BeginOsv(s) ==
    /\ req[s].phase = "idle" /\ requests < MaxRequests
    /\ LET asked == {c \in Names : IsApproved(c)} IN
       req' = [req EXCEPT ![s] =
        [phase |-> "batch", kind |-> "osv", read |-> snapshot, overtaken |-> FALSE,
         at |-> now, asked |-> asked, todo |-> Batches(asked),
         told |-> [c \in Names |-> IF c \in asked THEN "unavailable" ELSE "not_correlatable"],
         findings |-> {}, answered |-> {}, degraded |-> FALSE, stale |-> FALSE,
         batch |-> NoBatch]]
    /\ requests' = requests + 1
    /\ UNCHANGED <<now, listed, cleanAt, approval, cache, circuit, snapshot,
                   upsets>>

\* The approvals are read again before a batch is assembled; a revoked one
\* fails the whole batch.  A fresh response answers it.
AssembleBatch(s) ==
    /\ req[s].phase = "batch" /\ req[s].todo # <<>>
    /\ LET r == req[s]
           batch == Head(r.todo)
           entry == CacheGet(batch)
       IN  /\ req' = [req EXCEPT ![s] =
                IF \E c \in batch : ~IsApproved(c) THEN Failed(r)
                ELSE IF IsFresh(entry) THEN Answered(r, entry.body, FALSE)
                ELSE [r EXCEPT !.phase = "send",
                        !.batch = [NoBatch EXCEPT !.cached = entry, !.looked = now,
                                     !.body = [c \in batch |-> "none"]]]]
           /\ cache' = IF \E c \in batch : ~IsApproved(c) THEN cache
                       ELSE [cache EXCEPT ![batch] = entry]
    /\ UNCHANGED <<now, listed, cleanAt, approval, circuit, snapshot, requests,
                   upsets>>

\* A send does not wait: an open circuit or the lack of a permit fails it.
StartSend(s) ==
    /\ req[s].phase = "send"
    /\ req' = [req EXCEPT ![s] =
                IF CircuitIsOpen \/ Cardinality(Sending) >= Permits
                THEN Unanswered(@)
                ELSE [@ EXCEPT !.phase = "wire", !.batch.tries = 1]]
    /\ circuit' = AfterCooldown
    /\ UNCHANGED <<now, listed, cleanAt, approval, cache, snapshot, requests,
                   upsets>>

\* An answer with more pages than are read is not an answer.
IncompletePages(r, more) == more # {} /\ r.batch.pages + 1 >= MaxPages

\* A page of the answer: it lists some of the advisories, and says of which
\* components there are more.
ReceivePage(s, seen, more) ==
    /\ req[s].phase = "wire" /\ ~req[s].batch.hydrating
    /\ LET r == req[s]
           batch == Head(r.todo)
           body == [c \in batch |-> IF c \in seen THEN "listed" ELSE r.batch.body[c]]
           unseen == {c \in batch \cap listed : body[c] = "none"}
       IN  /\ seen \subseteq {c \in batch \cap listed : r.batch.body[c] = "none"}
           /\ more \subseteq batch /\ unseen \subseteq more
           /\ req' = [req EXCEPT ![s] =
                IF IncompletePages(r, more) THEN Unanswered(r)
                ELSE [r EXCEPT !.batch.body = body, !.batch.pages = @ + 1,
                        !.batch.hydrating = (more = {}),
                        !.phase = IF more # {} \/ \E c \in batch : body[c] = "listed"
                                  THEN "send" ELSE "complete"]]
    /\ circuit' = [failures |-> 0, until |-> 0]
    /\ UNCHANGED <<now, listed, cleanAt, approval, cache, snapshot, requests,
                   upsets>>

\* The details of the listed advisories.
ReceiveDetails(s, status) ==
    /\ req[s].phase = "wire" /\ req[s].batch.hydrating
    /\ req' = [req EXCEPT ![s].phase = "complete",
                ![s].batch.body = [c \in DOMAIN @ |-> IF @[c] = "listed" THEN status ELSE @[c]]]
    /\ circuit' = [failures |-> 0, until |-> 0]
    /\ UNCHANGED <<now, listed, cleanAt, approval, cache, snapshot, requests,
                   upsets>>

\* A send that timed out or found no provider is retried with its permit held.
RetrySend(s) ==
    /\ req[s].phase = "wire" /\ upsets < MaxUpsets
    /\ req[s].batch.tries <= MaxRetries
    /\ req' = [req EXCEPT ![s].batch.tries = @ + 1]
    /\ upsets' = upsets + 1
    /\ UNCHANGED <<now, listed, cleanAt, approval, cache, circuit, snapshot,
                   requests>>

\* The last try failed, or the provider said something that is not retried:
\* a limit counts for the circuit, an invalid answer does not.
FailSend(s, counted) ==
    /\ req[s].phase = "wire" /\ upsets < MaxUpsets
    /\ req' = [req EXCEPT ![s] = Unanswered(@)]
    /\ circuit' = IF counted THEN RecordProviderFailure(circuit) ELSE circuit
    /\ upsets' = upsets + 1
    /\ UNCHANGED <<now, listed, cleanAt, approval, cache, snapshot, requests>>

\* A complete answer is cached under the instant of its lookup.  When that
\* write fails the retained response is used in its place.
CompleteBatch(s, written) ==
    /\ req[s].phase = "complete"
    /\ written \/ upsets < MaxUpsets
    /\ LET r == req[s] IN
       /\ req' = [req EXCEPT ![s] =
            IF ~written /\ r.batch.cached # None
            THEN Answered(r, r.batch.cached.body, TRUE)
            ELSE Answered(r, r.batch.body, FALSE)]
       /\ cache' = IF written
                   THEN [cache EXCEPT ![Head(r.todo)] =
                            [body |-> r.batch.body, at |-> r.batch.looked]]
                   ELSE cache
    /\ upsets' = IF written THEN upsets ELSE upsets + 1
    /\ UNCHANGED <<now, listed, cleanAt, approval, circuit, snapshot, requests>>

Stored(s, value) ==
    /\ snapshot' = value
    /\ req' = [t \in Slots |->
        IF t = s THEN Idle
        ELSE IF req[t].phase = "idle" THEN Idle
        ELSE [req[t] EXCEPT !.overtaken = TRUE]]

\* Back on the event loop the snapshot is merged with the one read at first
\* and stored.
StoreOsv(s) ==
    /\ req[s].phase = "batch" /\ req[s].todo = <<>>
    /\ Stored(s, RetainPrevious(req[s].read, SnapshotOf(req[s])))
    /\ UNCHANGED <<now, listed, cleanAt, approval, cache, circuit, requests, upsets>>

\* The correlation, or its first write, raised.
StoreControlledFailure(s) ==
    /\ req[s].phase = "batch" /\ upsets < MaxUpsets
    /\ Stored(s, RetainPrevious(req[s].read, ControlledFailure(req[s])))
    /\ upsets' = upsets + 1
    /\ UNCHANGED <<now, listed, cleanAt, approval, cache, circuit, requests>>

\* A GitHub, NVD or KEV request reads the stored snapshot.
BeginEnrichment(s, provider) ==
    /\ req[s].phase = "idle" /\ requests < MaxRequests
    /\ snapshot # None
    /\ snapshot.state \in {"ready", "stale", "degraded"}
    /\ req' = [req EXCEPT ![s] = [phase |-> "enrich", kind |-> provider,
                read |-> snapshot, overtaken |-> FALSE]]
    /\ requests' = requests + 1
    /\ UNCHANGED <<now, listed, cleanAt, approval, cache, circuit, snapshot,
                   upsets>>

\* Each finding gets the provider's evidence, loses it (the answer does not
\* support it any more), or keeps what it had because the lookup failed.
Evidence(read, p, gained, lost) ==
    [c \in DOMAIN read.findings |->
        IF c \in gained THEN read.findings[c] \cup {p}
        ELSE IF c \in lost THEN read.findings[c] \ {p} ELSE read.findings[c]]

\* A lookup answered by a stale response.
Aged(state, stale) == IF stale /\ state = "ready" THEN "stale" ELSE state

\* An advisory GitHub no longer supports degrades the snapshot.
CorroborateGithub(read, gained, lost, stale) ==
    [read EXCEPT !.findings = Evidence(read, "github_advisories", gained, lost),
        !.state = IF gained = DOMAIN read.findings THEN Aged(@, stale) ELSE "degraded"]

\* A CVE the NVD does not know does not.
EnrichNvd(read, gained, lost, stale) ==
    [read EXCEPT !.findings = Evidence(read, "nvd", gained, lost),
        !.state = IF gained \cup lost = DOMAIN read.findings THEN Aged(@, stale) ELSE "degraded"]

\* The catalog is read whole or not at all.
CorrelateCisaKev(read, available, stale) ==
    [read EXCEPT !.findings = Evidence(read, "cisa_kev",
                                IF available THEN DOMAIN read.findings ELSE {}, {}),
        !.state = IF available THEN Aged(@, stale) ELSE "degraded"]

EndEnrichment(s, gained, lost, stale) ==
    /\ req[s].phase = "enrich"
    /\ LET read == req[s].read
           all == DOMAIN read.findings
       IN  /\ gained \cup lost \subseteq all /\ gained \cap lost = {}
           /\ req[s].kind = "cisa_kev" => lost = {} /\ gained \in {{}, all}
           /\ gained \cup lost # all => upsets < MaxUpsets
           /\ upsets' = IF gained \cup lost # all THEN upsets + 1 ELSE upsets
           /\ Stored(s,
                CASE req[s].kind = "github_advisories" ->
                        CorroborateGithub(read, gained, lost, stale)
                  [] req[s].kind = "nvd" -> EnrichNvd(read, gained, lost, stale)
                  [] OTHER -> CorrelateCisaKev(read, gained = all, stale))
    /\ UNCHANGED <<now, listed, cleanAt, approval, cache, circuit, requests>>

ProviderChanges(c) ==
    /\ upsets < MaxUpsets
    /\ listed' = IF c \in listed THEN listed \ {c} ELSE listed \cup {c}
    /\ cleanAt' = IF c \in listed THEN [cleanAt EXCEPT ![c] = @ \cup {now}] ELSE cleanAt
    /\ upsets' = upsets + 1
    /\ UNCHANGED <<now, approval, cache, circuit, req, snapshot, requests>>

Tick ==
    /\ now < MaxNow
    /\ now' = now + 1
    /\ cleanAt' = [c \in Names |-> IF c \in listed THEN cleanAt[c]
                                   ELSE cleanAt[c] \cup {now + 1}]
    /\ UNCHANGED <<listed, approval, cache, circuit, req, snapshot, requests,
                   upsets>>

\* The service stops: the requests and the circuit are in memory.
Stop ==
    /\ upsets < MaxUpsets
    /\ req' = [s \in Slots |-> Idle]
    /\ circuit' = [failures |-> 0, until |-> 0]
    /\ upsets' = upsets + 1
    /\ UNCHANGED <<now, listed, cleanAt, approval, cache, snapshot, requests>>

IntelligenceNext ==
    \/ \E c \in Names : ProposePublicIdentity(c)
    \/ \E c \in Names : ApprovePublicIdentity(c)
    \/ \E c \in Names : RevokePublicIdentity(c)
    \/ \E s \in Slots : BeginOsv(s)
    \/ \E s \in Slots : AssembleBatch(s)
    \/ \E s \in Slots : StartSend(s)
    \/ \E s \in Slots, seen, more \in SUBSET Names : ReceivePage(s, seen, more)
    \/ \E s \in Slots, status \in {"affected", "withdrawn", "incomplete"} :
            ReceiveDetails(s, status)
    \/ \E s \in Slots : RetrySend(s)
    \/ \E s \in Slots, counted \in BOOLEAN : FailSend(s, counted)
    \/ \E s \in Slots, written \in BOOLEAN : CompleteBatch(s, written)
    \/ \E s \in Slots : StoreOsv(s)
    \/ \E s \in Slots : StoreControlledFailure(s)
    \/ \E s \in Slots, provider \in Secondary : BeginEnrichment(s, provider)
    \/ \E s \in Slots, gained, lost \in SUBSET Names, stale \in BOOLEAN :
            EndEnrichment(s, gained, lost, stale)
    \/ \E c \in Names : ProviderChanges(c)
    \/ Tick
    \/ Stop

IntelligenceSpec == IntelligenceInit /\ [][IntelligenceNext]_intelligence

-----------------------------------------------------------------------------
(* Properties. *)

\* A component the stored intelligence calls not affected really had no
\* advisory at an instant not older than the intelligence promises: the
\* freshness of a cached response before the query when it is ready, its
\* retention otherwise.  Failed sends, answers cut between pages, an open
\* circuit, approvals withdrawn on the way and responses that outlived their
\* retention never make a component look clean (_send_osv_batch_pages,
\* PublicAdvisoryResponseCache.get, _classify_component_batch).
NoFalseClean ==
    snapshot # None =>
        \A c \in Names : snapshot.told[c] = "not_affected" =>
            \E t \in cleanAt[c] :
                snapshot.at <= t + (IF snapshot.state = "ready" THEN Ttl ELSE Retention)

\* The request of a slot has the stored snapshot as it read it.
Alone(s) == req[s].phase # "idle" /\ (req[s].phase # "idle" => ~req[s].overtaken)

\* A stored finding disappears only when the request that replaces the snapshot
\* had the provider's answer for its component, or might not ask for it; and a
\* degraded refresh keeps its GitHub and KEV evidence.  A request that another
\* one overtook is excepted: it merges with the snapshot it read when it began
\* (retain_previous_on_degraded_refresh, run_project_osv_vulnerability_intelligence).
FindingsKept ==
    [][\A s \in Slots :
        (snapshot # None /\ snapshot' # snapshot /\ req'[s] = Idle /\ Alone(s)) =>
          /\ \A c \in DOMAIN snapshot.findings \ DOMAIN snapshot'.findings :
                req[s].kind = "osv" /\ (c \in req[s].answered \/ c \notin req[s].asked)
          /\ (req[s].kind = "osv" /\ snapshot'.state = "degraded") =>
                \A c \in DOMAIN snapshot.findings :
                    snapshot.findings[c] \cap {"github_advisories", "cisa_kev"}
                        \subseteq snapshot'.findings[c]]_intelligence

=============================================================================
