------------------------- MODULE IntegrationOutbox -------------------------
(***************************************************************************)
(* The durable outbox of signed integration events                         *)
(* (backend/app/integration_events.py): the SQLite table, the dispatcher   *)
(* that claims due rows under a lease and posts them, and the operator's   *)
(* replay of dead rows.                                                    *)
(*                                                                         *)
(* Time is kept as countdowns: "wait" is next_attempt_at - now, "lease" is *)
(* lease_until - now, both cut off at 0; "age" is now - created_at, or     *)
(* now - delivered_at in a delivered row (created_at is not read there).   *)
(* One workspace is modelled: every statement filters by organization_id.  *)
(***************************************************************************)
EXTENDS Naturals, FiniteSets

CONSTANTS
    NumEvents,      \* events 1..NumEvents, in the order of event_id
    MaxAttempts,    \* INTEGRATION_EVENT_MAX_ATTEMPTS
    MaxRecords,     \* INTEGRATION_EVENT_MAX_RECORDS
    Lease,          \* INTEGRATION_EVENT_LEASE_SECONDS
    MaxBackoff,     \* the 300 s cap of the retry delay
    Backoff,        \* the delay after n attempts, min(300, 2 ** n)
    DeliveredTTL,   \* INTEGRATION_EVENT_DELIVERED_RETENTION_DAYS
    DeadTTL,        \* INTEGRATION_EVENT_DEAD_RETENTION_DAYS
    ReplayMax,      \* INTEGRATION_EVENT_REPLAY_MAX_EVENTS
    ReplayTTL,      \* INTEGRATION_EVENT_REPLAY_TTL_SECONDS
    Concurrency,    \* max_concurrency of the dispatcher
    MaxCrashes      \* bound: crashes of the process in one behaviour

ASSUME OutboxConstants ==
    /\ NumEvents \in Nat /\ MaxRecords \in Nat /\ ReplayMax \in Nat
    /\ MaxAttempts \in Nat \ {0}
    /\ Lease \in Nat \ {0}
    /\ MaxBackoff \in Nat /\ Backoff \in [1..MaxAttempts -> 0..MaxBackoff]
    /\ DeliveredTTL \in Nat /\ DeadTTL \in Nat
    /\ ReplayTTL \in Nat /\ MaxCrashes \in Nat
    /\ Concurrency \in Nat \ {0}

VARIABLES
    rows,       \* the table integration_events
    call,       \* the delivery of an event that the running drain awaits
    received,   \* events the external receiver has persisted
    preflight,  \* the replay preflight the administrator holds
    crashes

outboxVars == <<rows, call, received, preflight, crashes>>

Events == 1..NumEvents
RowState == {"absent", "pending", "delivering", "delivered", "dead"}
MaxAge == IF DeliveredTTL > DeadTTL THEN DeliveredTTL + 1 ELSE DeadTTL + 1
Row == [state: RowState, attempts: 0..MaxAttempts, wait: 0..MaxBackoff,
        lease: 0..Lease, age: 0..MaxAge]
Answer == {"accepted", "retryable", "rejected"}
Call == {"idle", "sending"} \union Answer

Absent == [state |-> "absent", attempts |-> 0, wait |-> 0, lease |-> 0, age |-> 0]
NoPreflight == [sel |-> {}, age |-> ReplayTTL + 1]

Least(a, b) == IF a < b THEN a ELSE b

\* record_result: min(300, 2 ** attempts), the value a configuration gives Backoff.
RetryDelays == [n \in 1..MaxAttempts |-> Least(MaxBackoff, 2 ^ n)]

Greatest0(a) == IF a = 0 THEN 0 ELSE a - 1

OutboxTypeOK ==
    /\ rows \in [Events -> Row]
    /\ call \in [Events -> Call]
    /\ received \in SUBSET Events
    /\ preflight \in [sel: SUBSET Events, age: 0..(ReplayTTL + 1)]
    /\ crashes \in 0..MaxCrashes

OutboxInit ==
    /\ rows = [e \in Events |-> Absent]
    /\ call = [e \in Events |-> "idle"]
    /\ received = {}
    /\ preflight = NoPreflight
    /\ crashes = 0

-----------------------------------------------------------------------------
(* The store.                                                              *)

Expired(r) ==
    \/ r.state = "delivered" /\ r.age > DeliveredTTL
    \/ r.state = "dead" /\ r.age > DeadTTL

\* Mutant of Purged.
PurgedAndReaped ==
    [e \in Events |-> IF Expired(rows[e]) THEN Absent
                      ELSE IF rows[e].state = "delivering" /\ rows[e].lease = 0
                      THEN [rows[e] EXCEPT !.state = "pending"] ELSE rows[e]]

Purged == [e \in Events |-> IF Expired(rows[e]) THEN Absent ELSE rows[e]]

NewRow == [Absent EXCEPT !.state = "pending"]

\* enqueue_terminal_analysis: purge, then insert unless the deterministic
\* event id is there already; at capacity the transaction rolls back.
Enqueue(e) ==
    /\ \/ /\ Purged[e].state # "absent"
          /\ rows' = Purged
       \/ /\ Purged[e].state = "absent"
          /\ Cardinality({f \in Events : Purged[f].state # "absent"}) < MaxRecords
          /\ rows' = [Purged EXCEPT ![e] = NewRow]
    /\ UNCHANGED <<call, received, preflight, crashes>>

\* Mutant of LeaseOver.
LeaseNeverOver(r) == FALSE

LeaseOver(r) == r.state = "delivering" /\ r.lease = 0

DueRows == {e \in Events : \/ rows[e].state = "pending" /\ rows[e].wait = 0
                           \/ LeaseOver(rows[e])}

Idle == \A e \in Events : call[e] = "idle"

\* drain_once: the loop starts a drain only after asyncio.gather of the last
\* one returned.
DispatcherFree == Idle

\* drain_once / claim_due: expired leases return to pending, then up to
\* Concurrency due rows are claimed, each under a new lease.  No await
\* separates the claims.
Drain ==
    /\ DispatcherFree
    /\ \E S \in SUBSET DueRows :
        /\ S # {}
        /\ Cardinality(S) = Least(Concurrency, Cardinality(DueRows))
        /\ rows' = [e \in Events |->
             IF e \in S THEN [rows[e] EXCEPT !.state = "delivering", !.lease = Lease]
             ELSE IF LeaseOver(rows[e]) THEN [rows[e] EXCEPT !.state = "pending"]
             ELSE rows[e]]
        /\ call' = [e \in Events |-> IF e \in S THEN "sending" ELSE call[e]]
    /\ UNCHANGED <<received, preflight, crashes>>

\* IntegrationEventTransport.deliver: 2xx, or 429/5xx/timeout/network error,
\* or any other refusal.  The receiver may have persisted an event whose
\* answer was lost or refused.
Deliver(e) ==
    /\ call[e] = "sending"
    /\ \E a \in Answer :
        /\ call' = [call EXCEPT ![e] = a]
        /\ received' \in IF a = "accepted" THEN {received \union {e}}
                         ELSE {received, received \union {e}}
    /\ UNCHANGED <<rows, preflight, crashes>>

\* Mutant of Settle.
SettleRejectedAsDelivered(r, a) ==
    [r EXCEPT !.state = "delivered", !.attempts = r.attempts + 1, !.wait = 0, !.lease = 0, !.age = 0]

\* record_result: the row the answer leads to.
Settle(r, a) ==
    LET n == r.attempts + 1 IN
    IF a = "accepted"
    THEN [r EXCEPT !.state = "delivered", !.attempts = n, !.wait = 0, !.lease = 0, !.age = 0]
    ELSE IF a = "retryable" /\ n < MaxAttempts
    THEN [r EXCEPT !.state = "pending", !.attempts = n, !.lease = 0,
                   !.wait = Backoff[n]]
    ELSE [r EXCEPT !.state = "dead", !.attempts = n, !.wait = 0, !.lease = 0]

\* record_result: without the claim the code raises delivery_claim_lost.
RecordResult(e) ==
    /\ call[e] \in Answer
    /\ rows[e].state = "delivering"
    /\ rows' = [rows EXCEPT ![e] = Settle(rows[e], call[e])]
    /\ call' = [call EXCEPT ![e] = "idle"]
    /\ UNCHANGED <<received, preflight, crashes>>

-----------------------------------------------------------------------------
(* The operator's replay of dead rows.                                     *)

Dead == {e \in Events : rows[e].state = "dead"}

Before(e, f) == \/ rows[e].age > rows[f].age
                \/ rows[e].age = rows[f].age /\ e < f

\* _dead_selection_unlocked: ORDER BY created_at, event_id LIMIT ReplayMax.
DeadSelection ==
    {e \in Dead : Cardinality({f \in Dead : Before(f, e)}) < ReplayMax}

ReplayPreflight ==
    /\ preflight' = [sel |-> DeadSelection, age |-> 0]
    /\ UNCHANGED <<rows, call, received, crashes>>

Replayed(r) == [r EXCEPT !.state = "pending", !.attempts = 0, !.wait = 0, !.lease = 0]

\* replay_dead: within the TTL, and only if the selection recomputed now has
\* the digest of the preflight (event ids and immutable payloads).
ReplayDead ==
    /\ preflight.age <= ReplayTTL
    /\ DeadSelection # {}
    /\ DeadSelection = preflight.sel
    /\ rows' = [e \in Events |-> IF e \in DeadSelection THEN Replayed(rows[e]) ELSE rows[e]]
    /\ UNCHANGED <<call, received, preflight, crashes>>

-----------------------------------------------------------------------------
(* Time and failure.                                                       *)

Older(r) == IF r.state = "absent" THEN r
            ELSE [r EXCEPT !.wait = Greatest0(@), !.lease = Greatest0(@),
                           !.age = Least(MaxAge, @ + 1)]

Tick ==
    /\ rows' = [e \in Events |-> Older(rows[e])]
    /\ preflight' = [preflight EXCEPT !.age = Least(ReplayTTL + 1, @ + 1)]
    /\ UNCHANGED <<call, received, crashes>>

\* The process dies: deliveries in flight are forgotten, the table is not.
OutboxCrash ==
    /\ crashes < MaxCrashes
    /\ crashes' = crashes + 1
    /\ call' = [e \in Events |-> "idle"]
    /\ UNCHANGED <<rows, received, preflight>>

OutboxNext ==
    \/ \E e \in Events : Enqueue(e) \/ Deliver(e) \/ RecordResult(e)
    \/ Drain
    \/ ReplayPreflight
    \/ ReplayDead
    \/ Tick
    \/ OutboxCrash

\* The event loop keeps running the dispatcher task and its deliveries, every
\* request ends by its timeout, and time passes.
OutboxFairness ==
    /\ WF_outboxVars(Drain)
    /\ WF_outboxVars(Tick)
    /\ \A e \in Events : WF_outboxVars(Deliver(e)) /\ WF_outboxVars(RecordResult(e))

OutboxSpec == OutboxInit /\ [][OutboxNext]_outboxVars /\ OutboxFairness

-----------------------------------------------------------------------------
(* Properties.                                                             *)

\* record_result never raises delivery_claim_lost: while a delivery is
\* awaited its row stays claimed, even after the lease ran out, because only
\* the next drain reaps leases and it waits for the gather.
ClaimHeld == \A e \in Events : call[e] # "idle" => rows[e].state = "delivering"

\* The SQL check "attempts BETWEEN 0 AND 5" never fails an update: a row that
\* may be posted again has an attempt left.
AttemptLeft ==
    \A e \in Events : rows[e].state \in {"pending", "delivering"}
                        => rows[e].attempts < MaxAttempts

\* A row counts as delivered only if the receiver answered 2xx for it.
DeliveredWasReceived ==
    \A e \in Events : rows[e].state = "delivered" => e \in received

\* Retention removes rows, and only delivered or dead ones: an event that
\* still waits for delivery is never lost.
OnlyTerminalRowsVanish ==
    [][\A e \in Events : rows[e].state # "absent" /\ rows'[e].state = "absent"
                           => rows[e].state \in {"delivered", "dead"}]_outboxVars

\* Every pending row is in the end accepted or dead-lettered, through
\* retries, lost answers and crashes in the middle of a delivery.
EventuallySettled ==
    \A e \in Events : rows[e].state = "pending"
                        ~> rows[e].state \in {"delivered", "dead", "absent"}
=============================================================================
