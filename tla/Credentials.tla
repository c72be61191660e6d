---------------------------- MODULE Credentials ----------------------------
(***************************************************************************)
(* Failed logins, automation tokens and repository import grants           *)
(* (auth.py, auth_state_sqlite.py, automation_tokens.py,                   *)
(* repository_import_grants.py and the routes of main.py that use them).   *)
(*                                                                         *)
(* The three stores share nothing but the clock, so a behaviour follows    *)
(* the calls of one of them.  Each call of a store is one transaction.  An *)
(* import is authenticated by the middleware, its form is awaited, the     *)
(* grant is spent, the upload is awaited, and the project is created:      *)
(* other requests run at both awaits.                                      *)
(***************************************************************************)
EXTENDS Absence, Integers, FiniteSets, Sequences, SequencesExt

CONSTANTS
    Clients,            \* client keys that log in
    Tokens, Grants,     \* identifiers of tokens and grants
    Window, Threshold, Lockout, MaxKeys,   \* settings of the login attempts
    RateWindow, RateLimit,                 \* one hour and 600 requests
    MaxActiveTokens, MaxActiveGrants,      \* 2 per project and 3 per workspace
    Lifetime,           \* of a token and of a grant
    MaxTime,            \* a model bound
    MaxImports          \* imports under way (a model bound)

ASSUME CredentialsAssumption ==
    None \notin Int /\ {Lockout, RateWindow, RateLimit, Lifetime} \subseteq Nat

VARIABLES
    focus,        \* the store whose calls are followed (the others are idle)
    now,
    stored,       \* the attempts are kept in SQLite
    attempts,     \* client -> [count, last, locked]
    announced,    \* client -> end of the last lock it was told of (history)
    tokens,       \* token -> [ends, revoked, start, count]
    admitted,     \* token -> times of its admitted requests (history)
    grants,       \* grant -> [ends, spent]
    imports,      \* sequence of [grant, pc]
    imported      \* grants of the projects that were created, in order

credVars == <<focus, now, stored, attempts, announced, tokens, admitted, grants, imports, imported>>
loginVars == <<attempts, announced>>
tokenVars == <<tokens, admitted>>
grantVars == <<grants, imports, imported>>

Cut(f, xs) == [x \in DOMAIN f \ xs |-> f[x]]
Put(f, x, v) == [y \in DOMAIN f \cup {x} |-> IF y = x THEN v ELSE f[y]]

-----------------------------------------------------------------------------
(* Failed logins *)

AttemptExpired(a) == IF a.locked # None THEN a.locked <= now ELSE a.last + Window <= now

\* purge_expired, called first by every login.
Purged == Cut(attempts, {c \in DOMAIN attempts : AttemptExpired(attempts[c])})

Locked(c) == LET a == Purged IN c \in DOMAIN a /\ a[c].locked # None

\* The record after one more failure of a client that is not locked.
Failure(c) ==
    LET n == IF c \in DOMAIN Purged THEN Purged[c].count + 1 ELSE 1
    IN  [count |-> n, last |-> now, locked |-> IF n >= Threshold THEN now + Lockout ELSE None]

\* Mutant of Prunable.
PrunableAll(a) == DOMAIN a

\* The rows that may go when there are too many: SQLite keeps the locked ones, the store
\* in memory does not tell them apart.
Prunable(a) == IF stored THEN {c \in DOMAIN a : a[c].locked = None} ELSE DOMAIN a

\* Sets of the oldest prunable rows that bring the table back to its limit.
Pruned(a) ==
    LET excess == Cardinality(DOMAIN a) - MaxKeys
        able == Prunable(a)
        n == IF excess <= 0 THEN 0 ELSE IF Cardinality(able) < excess THEN Cardinality(able) ELSE excess
    IN  {xs \in SUBSET able : /\ Cardinality(xs) = n
                              /\ \A x \in xs, y \in able \ xs : a[x].last <= a[y].last}

LoginFails(c) ==
    /\ ~Locked(c)
    /\ LET a == Put(Purged, c, Failure(c))
       IN  /\ \E xs \in Pruned(a) : attempts' = Cut(a, xs)
           /\ announced' = [announced EXCEPT ![c] = IF a[c].locked = None THEN @ ELSE a[c].locked]
    /\ UNCHANGED <<focus, now, stored, tokenVars, grantVars>>

\* Answered 429.
LoginRefused(c) ==
    /\ Locked(c)
    /\ attempts' = Purged
    /\ UNCHANGED <<focus, now, stored, announced, tokenVars, grantVars>>

LoginSucceeds(c) ==
    /\ ~Locked(c)
    /\ attempts' = Cut(Purged, {c})
    /\ UNCHANGED <<focus, now, stored, announced, tokenVars, grantVars>>

-----------------------------------------------------------------------------
(* Automation tokens of one project *)

TokenActive(t) == t \in DOMAIN tokens /\ ~tokens[t].revoked /\ tokens[t].ends > now

CreateToken(t) ==
    /\ t \notin DOMAIN tokens /\ admitted[t] = <<>>
    /\ Cardinality({u \in Tokens : TokenActive(u)}) < MaxActiveTokens
    /\ tokens' = Put(tokens, t, [ends |-> now + Lifetime, revoked |-> FALSE, start |-> now, count |-> 0])
    /\ UNCHANGED <<focus, now, stored, loginVars, admitted, grantVars>>

\* Mutant of RateRow.
RateRowStartKept(t) ==
    LET k == tokens[t]
        over == now - k.start >= RateWindow
    IN  [k EXCEPT !.count = IF over THEN 0 ELSE k.count]

\* The fixed window a request falls into.
RateRow(t) ==
    LET k == tokens[t]
        over == now - k.start >= RateWindow
    IN  [k EXCEPT !.start = IF over THEN now ELSE k.start, !.count = IF over THEN 0 ELSE k.count]

UseToken(t) ==
    /\ TokenActive(t)
    /\ RateRow(t).count < RateLimit
    /\ tokens' = [tokens EXCEPT ![t] = [RateRow(t) EXCEPT !.count = @ + 1]]
    /\ admitted' = [admitted EXCEPT ![t] = Append(@, now)]
    /\ UNCHANGED <<focus, now, stored, loginVars, grantVars>>

RevokeToken(t) ==
    /\ t \in DOMAIN tokens
    /\ tokens' = [tokens EXCEPT ![t].revoked = TRUE]
    /\ UNCHANGED <<focus, now, stored, loginVars, admitted, grantVars>>

\* Retention removes revoked and expired tokens.
PurgeTokens ==
    /\ tokens' = Cut(tokens, {t \in DOMAIN tokens : ~TokenActive(t)})
    /\ UNCHANGED <<focus, now, stored, loginVars, admitted, grantVars>>

-----------------------------------------------------------------------------
(* Repository import grants of one workspace *)

GrantUsable(g) == g \in DOMAIN grants /\ ~grants[g].spent /\ grants[g].ends > now

\* A new grant first removes the expired and the spent ones.
CreateGrant(g) ==
    LET kept == Cut(grants, {h \in DOMAIN grants : ~GrantUsable(h)})
    IN  /\ g \notin DOMAIN grants /\ \A i \in DOMAIN imports : imports[i].grant # g
        /\ ~\E i \in DOMAIN imported : imported[i] = g
        /\ Cardinality(DOMAIN kept) < MaxActiveGrants
        /\ grants' = Put(kept, g, [ends |-> now + Lifetime, spent |-> FALSE])
        /\ UNCHANGED <<focus, now, stored, loginVars, tokenVars, imports, imported>>

ImportArrives(g) ==
    /\ GrantUsable(g) /\ Len(imports) < MaxImports
    /\ imports' = Append(imports, [grant |-> g, pc |-> "form"])
    /\ UNCHANGED <<focus, now, stored, loginVars, tokenVars, grants, imported>>

\* Mutant of Spendable.
SpendableOnceAdmitted(g) == g \in DOMAIN grants

\* The condition of the UPDATE that spends a grant.
Spendable(g) == GrantUsable(g)

\* The form has arrived: the grant is spent, or the import ends with 409.
SpendGrant(i) ==
    LET g == imports[i].grant
    IN  /\ imports[i].pc = "form"
        /\ IF Spendable(g)
           THEN /\ grants' = [grants EXCEPT ![g].spent = TRUE]
                /\ imports' = [imports EXCEPT ![i].pc = "upload"]
           ELSE imports' = RemoveAt(imports, i) /\ UNCHANGED grants
        /\ UNCHANGED <<focus, now, stored, loginVars, tokenVars, imported>>

\* The upload is stored and its digest matches: the project, its job and its snapshot.
CreateImported(i) ==
    /\ imports[i].pc = "upload"
    /\ imported' = Append(imported, imports[i].grant)
    /\ imports' = RemoveAt(imports, i)
    /\ UNCHANGED <<focus, now, stored, loginVars, tokenVars, grants>>

\* A refused form, a failed upload, another digest: a grant that is spent stays spent.
ImportFails(i) ==
    /\ imports' = RemoveAt(imports, i)
    /\ UNCHANGED <<focus, now, stored, loginVars, tokenVars, grants, imported>>

-----------------------------------------------------------------------------

ClockTicks ==
    /\ now < MaxTime /\ now' = now + 1
    /\ UNCHANGED <<focus, stored, loginVars, tokenVars, grantVars>>

\* The databases stay; what the process holds is gone.
RestartProcess ==
    /\ attempts' = IF stored THEN attempts ELSE <<>>
    /\ imports' = <<>>
    /\ UNCHANGED <<focus, now, stored, announced, tokenVars, grants, imported>>

CredentialsInit ==
    /\ focus \in {"logins", "tokens", "grants"}
    /\ now = 0 /\ stored \in BOOLEAN
    /\ attempts = <<>> /\ announced = [c \in Clients |-> 0]
    /\ tokens = <<>> /\ admitted = [t \in Tokens |-> <<>>]
    /\ grants = <<>> /\ imports = <<>> /\ imported = <<>>

CredentialsNext ==
    \/ focus = "logins" /\ \E c \in Clients : LoginFails(c) \/ LoginRefused(c) \/ LoginSucceeds(c)
    \/ focus = "tokens" /\ \E t \in Tokens : CreateToken(t) \/ UseToken(t) \/ RevokeToken(t)
    \/ focus = "tokens" /\ PurgeTokens
    \/ focus = "grants" /\ \E g \in Grants : CreateGrant(g) \/ ImportArrives(g)
    \/ \E i \in DOMAIN imports : SpendGrant(i) \/ CreateImported(i) \/ ImportFails(i)
    \/ ClockTicks
    \/ RestartProcess

CredentialsSpec == CredentialsInit /\ [][CredentialsNext]_credVars

-----------------------------------------------------------------------------
(* Properties *)

\* With the SQLite store a client that was told it is locked stays locked until that
\* moment: neither a restart, nor other clients filling the table beyond its limit
\* (prune_login_attempts), nor the clean-up before each login frees it earlier.
LockHolds ==
    stored => \A c \in Clients : now < announced[c] => Locked(c)

\* In any period of the length of the rate window a token is admitted at most twice the
\* limit, the most its fixed windows allow (AutomationTokenStore.authenticate).
BurstBounded ==
    \A t \in Tokens : \A i \in DOMAIN admitted[t] :
        LET j == i + 2 * RateLimit
        IN  j \in DOMAIN admitted[t] => admitted[t][j] - admitted[t][i] >= RateWindow

\* A grant creates at most one project, although two imports may be admitted with it
\* before either has spent it (RepositoryImportGrantStore.consume).
GrantSpentOnce == IsInjective(imported)

\* A lock lasts as long as it was announced, a token's burst is bounded,
\* and a grant creates one project (auth_state_sqlite.py,
\* automation_tokens.py, repository_import_grants.py).
CredentialsHold == LockHolds /\ BurstBounded /\ GrantSpentOnce
=============================================================================
