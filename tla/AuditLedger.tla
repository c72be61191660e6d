---------------------------- MODULE AuditLedger ----------------------------
(***************************************************************************)
(* The chained product audit of one organization                           *)
(* (backend/app/product_audit.py), file by file: the event files, the      *)
(* ledger directory with its numbered entries and its state, and the       *)
(* backup directory a rotation leaves while it swaps ledgers.              *)
(*                                                                         *)
(* A ledger value is [events, dir, bak].  Events are numbered in recording *)
(* order, which is also their order in time; `body` is what an event says  *)
(* ("full", or "anonymous" once its resource was deleted).  SHA-256 is     *)
(* taken as injective, so a chain digest is the sequence of what was       *)
(* digested.                                                               *)
(***************************************************************************)
EXTENDS Integers, FiniteSets, Sequences, DataStore

ChainZero == <<>>
RotationSeed(previous) == Append(previous, "rotation")

(* _build_chain_entry *)
ChainEntry(gen, n, e, body, previous) ==
    [gen |-> gen, event |-> e, body |-> body, previous |-> previous,
     digest |-> Append(previous, <<gen, n, e, body>>)]

InOrder(S) == [i \in 1..Cardinality(S) |-> CHOOSE e \in S : Cardinality({x \in S : x <= e}) = i]

(* _build_integrity_tree: a fresh chain over the given events. *)
BuildTree(events, gen, parent, anchor) ==
    LET seq == InOrder(DOMAIN events)
        chain(n) == anchor \o [i \in 1..n |-> <<gen, i, seq[i], events[seq[i]]>>]
    IN  [entries |-> [n \in 1..Len(seq) |->
                         ChainEntry(gen, n, seq[n], events[seq[n]], chain(n - 1))],
         state |-> [gen |-> gen, parent |-> parent, anchor |-> 0, anchorDigest |-> anchor,
                    head |-> Len(seq), headDigest |-> chain(Len(seq)), count |-> Len(seq)]]

(* _valid_chain_state *)
ValidChainState(t) ==
    /\ t.anchor \in 0..t.head
    /\ t.count = t.head - t.anchor
    /\ t.count = 0 => t.headDigest = t.anchorDigest
    /\ t.anchor = 0 =>
          \/ t.gen = 1 /\ t.parent = ChainZero /\ t.anchorDigest = ChainZero
          \/ t.gen > 1 /\ t.parent # ChainZero /\ t.anchorDigest = RotationSeed(t.parent)

(* validate_product_audit_integrity_directory: exact entries, exact links, *)
(* exact events, and the head the state names.                             *)
ValidLedger(a) ==
    /\ a.dir # None
    /\ LET t == a.dir.state
           en == a.dir.entries
       IN  /\ ValidChainState(t)
           /\ DOMAIN en = (t.anchor + 1)..t.head
           /\ \A n \in DOMAIN en :
                 /\ en[n].event \in DOMAIN a.events
                 /\ en[n] = ChainEntry(t.gen, n, en[n].event, a.events[en[n].event],
                                       IF n = t.anchor + 1 THEN t.anchorDigest
                                       ELSE en[n - 1].digest)
           /\ {en[n].event : n \in DOMAIN en} = DOMAIN a.events
           /\ t.headDigest = IF t.count = 0 THEN t.anchorDigest ELSE en[t.head].digest

(* _ensure_integrity_unlocked: records without a ledger are bootstrapped. *)
Ensured(a) ==
    IF a.dir # None THEN a
    ELSE [a EXCEPT !.dir = BuildTree(a.events, 1, ChainZero, ChainZero)]

(* _purge_expired_unlocked takes the expired leading prefix only. *)
\* Mutant of ExpiredPrefix.
ExpiredPrefixInclusive(a, cutoff) ==
    {n \in DOMAIN a.dir.entries : \A m \in DOMAIN a.dir.entries : m <= n => a.dir.entries[m].event <= cutoff}
ExpiredPrefix(a, cutoff) ==
    {n \in DOMAIN a.dir.entries : \A m \in DOMAIN a.dir.entries : m <= n => a.dir.entries[m].event < cutoff}

PurgedState(t, entries, gone) ==
    LET last == CHOOSE n \in gone : \A m \in gone : m <= n IN
    [t EXCEPT !.anchor = last, !.anchorDigest = entries[last].digest,
              !.count = t.count - Cardinality(gone)]

(* _append_integrity_event_unlocked: the entry and the state it is about to write. *)
AppendedEntry(t, e, body) == ChainEntry(t.gen, t.head + 1, e, body, t.headDigest)
AppendedState(t, e, body) ==
    [t EXCEPT !.head = t.head + 1, !.headDigest = AppendedEntry(t, e, body).digest,
              !.count = t.count + 1]

(* _rotate_integrity_unlocked: the next generation over the rewritten events. *)
RotatedTree(a, t) ==
    BuildTree(a.events, t.gen + 1, t.headDigest, RotationSeed(t.headDigest))
=============================================================================
