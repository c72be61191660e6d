------------------------ MODULE DataDirectoryProofs -------------------------
(***************************************************************************)
(* Proofs about what the data directory holds and who may use it, for any  *)
(* records, members, tokens and bounds.                                    *)
(*                                                                         *)
(* Credentials: an announced lock lasts, a token's burst is bounded by     *)
(* twice its limit, and a grant creates one project (CredentialsHold).     *)
(* Team access: every workspace keeps an administrator, a responsible is a *)
(* member, and what was taken away does not come back (AccessHolds).       *)
(* Stewardship: whatever startup, retention, recording and anonymization   *)
(* have written when they fail or the process dies, an acknowledged event  *)
(* is kept until it expires (LedgerIsHistory), no reference dangles        *)
(* (ReferencesHold), and a restored directory is the one that was sealed   *)
(* (RestoredIsFaithful).                                                   *)
(* Derived indexes: a generation that may answer has one row, and the right*)
(* one, for every record (IndexIsFaithful).                                *)
(***************************************************************************)
EXTENDS Credentials, TeamAccess, Stewardship, DerivedIndexes, FiniteSetTheorems,
        FunctionTheorems, SequenceTheorems, TLAPS

\* The clock and the histories are numbers.
ClockType == now \in Nat /\ announced \in [Clients -> Nat]

\* With the SQLite store, a client told of a lock has the row that says so.
LockRow ==
    stored => \A c \in Clients : now < announced[c] =>
        c \in DOMAIN attempts /\ attempts[c].locked = announced[c]

\* The admitted requests of a token: those before its window no later than its
\* start, those before the window before that a whole window earlier.
TokenRecord == [ends : Nat, revoked : BOOLEAN, start : Nat, count : Nat]
Spread(a) ==
    \A i \in 1..Len(a) : i + 2 * RateLimit <= Len(a) => a[i + 2 * RateLimit] - a[i] >= RateWindow
Windowed(a, k, n) ==
    /\ k.count \in 0..RateLimit /\ k.start <= n
    /\ \A i \in 1..Len(a) : /\ i <= Len(a) - k.count => a[i] <= k.start
                            /\ i <= Len(a) - k.count - RateLimit => a[i] <= k.start - RateWindow

TokenRow(a, n) == a \in Seq(Nat) /\ Spread(a) /\ \A i \in 1..Len(a) : a[i] <= n

TokensSound ==
    /\ DOMAIN admitted = Tokens /\ DOMAIN tokens \subseteq Tokens
    /\ \A t \in Tokens : TokenRow(admitted[t], now)
    /\ \A t \in DOMAIN tokens : tokens[t] \in TokenRecord /\ Windowed(admitted[t], tokens[t], now)

\* An import past its form has spent the grant, alone; a grant that created a
\* project is spent, and no import is left that could use it again.
GrantRecord == [ends : Nat, spent : BOOLEAN]
ImportRecord == [grant : Grants, pc : {"form", "upload"}]
Used(g, x) == x \in DOMAIN g => g[x].spent
Loads(m, i) == m[i].pc = "upload"

GrantsType(m, d, g) ==
    m \in Seq(ImportRecord) /\ d \in Seq(Grants) /\ \A x \in DOMAIN g : g[x] \in GrantRecord
LoadsAlone(m) ==
    \A i, j \in 1..Len(m) : Loads(m, i) /\ Loads(m, j) /\ m[i].grant = m[j].grant => i = j
LoadsUnused(m, d) ==
    \A i \in 1..Len(m) : Loads(m, i) => \A n \in 1..Len(d) : d[n] # m[i].grant
GrantsUsed(m, d, g) ==
    /\ \A i \in 1..Len(m) : Loads(m, i) => Used(g, m[i].grant)
    /\ \A n \in 1..Len(d) : Used(g, d[n])
Once(d) == \A i, j \in 1..Len(d) : d[i] = d[j] => i = j

GrantsAre(m, d, g) ==
    GrantsType(m, d, g) /\ LoadsAlone(m) /\ LoadsUnused(m, d) /\ GrantsUsed(m, d, g) /\ Once(d)
GrantsSound == GrantsAre(imports, imported, grants)

CredentialsInv == ClockType /\ stored \in BOOLEAN /\ LockRow /\ TokensSound /\ GrantsSound

-----------------------------------------------------------------------------
(* The attempts.                                                           *)

\* A row that a clean-up keeps.
LEMMA CutIs ==
  ASSUME NEW f, NEW xs, NEW x, x \in DOMAIN f, x \notin xs
  PROVE  x \in DOMAIN Cut(f, xs) /\ Cut(f, xs)[x] = f[x]
  BY DEF Cut

\* A row that is saved.
LEMMA PutIs ==
  ASSUME NEW f, NEW x, NEW v
  PROVE  /\ x \in DOMAIN Put(f, x, v) /\ Put(f, x, v)[x] = v
         /\ \A y \in DOMAIN f \ {x} : y \in DOMAIN Put(f, x, v) /\ Put(f, x, v)[y] = f[y]
  BY DEF Put

\* A lock that lasts is kept by the clean-up that starts every login.
LEMMA LockIsKept ==
  ASSUME ClockType, NEW c \in Clients, now < announced[c], c \in DOMAIN attempts,
         attempts[c].locked = announced[c]
  PROVE  /\ c \in DOMAIN Purged /\ Purged[c] = attempts[c] /\ Locked(c)
  <1>1. announced[c] \in Nat /\ now \in Nat /\ attempts[c].locked # None
    BY CredentialsAssumption DEF ClockType
  <1>2. ~AttemptExpired(attempts[c])
    BY <1>1 DEF AttemptExpired
  <1>3. c \in DOMAIN Purged /\ Purged[c] = attempts[c]
    <2>1. c \notin {x \in DOMAIN attempts : AttemptExpired(attempts[x])}
      BY <1>2
    <2> QED BY <2>1, CutIs DEF Purged
  <1> QED BY <1>1, <1>3 DEF Locked

\* Failures, refusals and successes of any client leave the locks of the others.
LEMMA LoginStep ==
  ASSUME ClockType, stored \in BOOLEAN, LockRow, NEW c \in Clients,
         LoginFails(c) \/ LoginRefused(c) \/ LoginSucceeds(c)
  PROVE  ClockType' /\ LockRow'
  <1>1. stored' = stored /\ now' = now /\ now \in Nat
    BY DEF LoginFails, LoginRefused, LoginSucceeds, ClockType
  <1>2. ASSUME stored, NEW x \in Clients, now < announced[x]
        PROVE  /\ x \in DOMAIN Purged /\ Purged[x] = attempts[x] /\ attempts[x].locked = announced[x]
               /\ Locked(x) /\ announced[x] # None
    <2>1. announced[x] \in Nat
      BY DEF ClockType
    <2> QED BY <1>2, <2>1, LockIsKept, CredentialsAssumption DEF LockRow
  <1>3. CASE LoginRefused(c)
    <2>1. attempts' = Purged /\ announced' = announced
      BY <1>3 DEF LoginRefused
    <2> QED BY <1>1, <1>2, <2>1 DEF LockRow, ClockType
  <1>4. CASE LoginSucceeds(c)
    <2>1. attempts' = Cut(Purged, {c}) /\ announced' = announced /\ ~Locked(c)
      BY <1>4 DEF LoginSucceeds
    <2>2. ASSUME stored, NEW x \in Clients, now < announced[x]
          PROVE  x \in DOMAIN attempts' /\ attempts'[x].locked = announced[x]
      <3>1. x # c
        BY <1>2, <2>1, <2>2
      <3>2. x \in DOMAIN Purged /\ x \notin {c} /\ Purged[x].locked = announced[x]
        BY <1>2, <2>2, <3>1
      <3>3. x \in DOMAIN Cut(Purged, {c}) /\ Cut(Purged, {c})[x] = Purged[x]
        BY <3>2, CutIs
      <3> QED BY <2>1, <3>2, <3>3
    <2> QED BY <1>1, <2>1, <2>2 DEF LockRow, ClockType
  <1>5. CASE LoginFails(c)
    <2> DEFINE r == Failure(c)
               a == Put(Purged, c, r)
               end == IF a[c].locked = None THEN announced[c] ELSE a[c].locked
    <2>1. /\ ~Locked(c) /\ announced' = [announced EXCEPT ![c] = end]
          /\ \E xs \in Pruned(a) : attempts' = Cut(a, xs)
      BY <1>5 DEF LoginFails
    <2>2. PICK xs \in Pruned(a) : attempts' = Cut(a, xs)
      BY <2>1
    <2>3. a[c] = r /\ c \in DOMAIN a /\ \A x \in DOMAIN Purged \ {c} : x \in DOMAIN a /\ a[x] = Purged[x]
      BY PutIs
    <2>4. r.locked = None \/ r.locked = now + Lockout
      BY DEF Failure
    <2>5. end \in Nat /\ (r.locked # None => end = r.locked) /\ (r.locked = None => end = announced[c])
      BY <1>1, <2>3, <2>4, CredentialsAssumption DEF ClockType
    <2>6. stored => \A x \in xs : a[x].locked = None
      BY <2>2 DEF Pruned, Prunable
    <2> HIDE DEF a, end, r
    <2>7. announced' \in [Clients -> Nat] /\ announced'[c] = end /\ \A x \in Clients \ {c} : announced'[x] = announced[x]
      BY <2>1, <2>5 DEF ClockType
    <2>8. ASSUME stored, NEW x \in Clients, now < announced'[x]
          PROVE  x \in DOMAIN attempts' /\ attempts'[x].locked = announced'[x]
      <3>1. CASE x = c
        <4>1. r.locked # None /\ end = r.locked
          BY <1>2, <2>1, <2>5, <2>7, <2>8, <3>1
        <4>2. c \notin xs
          BY <2>3, <2>6, <2>8, <4>1
        <4>3. c \in DOMAIN Cut(a, xs) /\ Cut(a, xs)[c] = a[c]
          BY <2>3, <4>2, CutIs
        <4> QED BY <2>2, <2>3, <2>7, <3>1, <4>1, <4>3
      <3>2. CASE x # c
        <4>1. /\ x \in DOMAIN Purged /\ Purged[x].locked = announced[x] /\ announced[x] # None
              /\ announced'[x] = announced[x]
          BY <1>2, <2>7, <2>8, <3>2
        <4>2. x \in DOMAIN a /\ a[x] = Purged[x] /\ x \notin xs
          BY <2>3, <2>6, <2>8, <3>2, <4>1
        <4>3. x \in DOMAIN Cut(a, xs) /\ Cut(a, xs)[x] = a[x]
          BY <4>2, CutIs
        <4> QED BY <2>2, <4>1, <4>2, <4>3
      <3> QED BY <3>1, <3>2
    <2> QED BY <1>1, <2>7, <2>8 DEF LockRow, ClockType
  <1> QED BY <1>3, <1>4, <1>5

-----------------------------------------------------------------------------
(* The tokens.                                                             *)

\* A request admitted into a window.
LEMMA AdmittedIs ==
  ASSUME NEW a \in Seq(Nat), Spread(a), NEW n \in Nat, \A i \in 1..Len(a) : a[i] <= n,
         NEW s \in Nat, s <= n, NEW k \in 0..RateLimit, k < RateLimit,
         \A i \in 1..Len(a) : /\ i <= Len(a) - k => a[i] <= s
                              /\ i <= Len(a) - k - RateLimit => a[i] <= s - RateWindow,
         NEW b, b = Append(a, n)
  PROVE  /\ b \in Seq(Nat) /\ Spread(b) /\ \A i \in 1..Len(b) : b[i] <= n
         /\ \A i \in 1..Len(b) : /\ i <= Len(b) - (k + 1) => b[i] <= s
                                 /\ i <= Len(b) - (k + 1) - RateLimit => b[i] <= s - RateWindow
  <1>1. /\ RateLimit \in Nat /\ RateWindow \in Nat /\ Len(a) \in Nat /\ k \in Nat
        /\ b \in Seq(Nat) /\ Len(b) = Len(a) + 1 /\ b[Len(a) + 1] = n
        /\ \A i \in 1..Len(a) : b[i] = a[i] /\ a[i] \in Nat
    BY CredentialsAssumption
  <1> DEFINE m == Len(a)
  <1> HIDE DEF m
  <1>2. \A i \in 1..Len(b) : b[i] <= n
    BY <1>1 DEF m
  <1>3. \A i \in 1..Len(b) : /\ i <= Len(b) - (k + 1) => b[i] <= s
                             /\ i <= Len(b) - (k + 1) - RateLimit => b[i] <= s - RateWindow
    BY <1>1
  <1>4. ASSUME NEW i \in 1..Len(b), i + 2 * RateLimit <= Len(b)
        PROVE  b[i + 2 * RateLimit] - b[i] >= RateWindow
    <2>1. CASE i + 2 * RateLimit <= Len(a)
      BY <1>1, <1>4, <2>1 DEF Spread
    <2>2. CASE i + 2 * RateLimit = Len(a) + 1
      <3>1. i <= Len(a) - k - RateLimit /\ i \in 1..Len(a)
        BY <1>1, <1>4, <2>2
      <3>2. b[i] = a[i] /\ a[i] <= s - RateWindow /\ a[i] \in Nat /\ b[i + 2 * RateLimit] = n
        BY <1>1, <2>2, <3>1
      <3> QED BY <1>1, <3>2
    <2>3. i + 2 * RateLimit \in Int
      BY <1>1
    <2>4. i + 2 * RateLimit <= Len(a) \/ i + 2 * RateLimit = Len(a) + 1
      BY <1>1, <1>4, <2>3
    <2> QED BY <2>1, <2>2, <2>4
  <1> QED BY <1>1, <1>2, <1>3, <1>4 DEF Spread

\* A request of an active token: its window goes on, or a new one starts.
LEMMA UseTokenStep ==
  ASSUME ClockType, TokensSound, NEW t \in Tokens, UseToken(t) PROVE TokensSound'
  <1> DEFINE k == tokens[t]
             a == admitted[t]
             over == now - k.start >= RateWindow
             s == IF over THEN now ELSE k.start
             n == IF over THEN 0 ELSE k.count
             r == [[k EXCEPT !.start = s, !.count = n] EXCEPT !.count = n + 1]
             b == Append(a, now)
  <1>1. /\ now' = now /\ now \in Nat /\ t \in DOMAIN tokens /\ n < RateLimit
        /\ tokens' = [tokens EXCEPT ![t] = r] /\ admitted' = [admitted EXCEPT ![t] = b]
    <2>1. k \in TokenRecord
      BY DEF TokensSound, UseToken, TokenActive
    <2>2. RateRow(t) = [k EXCEPT !.start = s, !.count = n]
      BY DEF RateRow
    <2>3. RateRow(t).count = n
      BY <2>1, <2>2 DEF TokenRecord
    <2> QED BY <2>2, <2>3 DEF UseToken, TokenActive, ClockType
  <1>2. /\ k \in TokenRecord /\ k.start \in Nat /\ k.count \in 0..RateLimit /\ k.start <= now
        /\ \A i \in 1..Len(a) : /\ i <= Len(a) - k.count => a[i] <= k.start
                                /\ i <= Len(a) - k.count - RateLimit => a[i] <= k.start - RateWindow
    BY <1>1 DEF TokensSound, Windowed, TokenRecord
  <1>3. /\ a \in Seq(Nat) /\ Spread(a) /\ \A i \in 1..Len(a) : a[i] <= now
    BY DEF TokensSound, TokenRow
  <1>4. /\ RateLimit \in Nat /\ RateWindow \in Nat /\ Len(a) \in Nat
        /\ \A i \in 1..Len(a) : a[i] \in Nat
    BY <1>3, CredentialsAssumption
  <1>5. s \in Nat /\ s <= now /\ n \in 0..RateLimit /\ n \in Nat
    BY <1>1, <1>2, <1>4
  <1>6. \A i \in 1..Len(a) : /\ i <= Len(a) - n => a[i] <= s
                             /\ i <= Len(a) - n - RateLimit => a[i] <= s - RateWindow
    <2>1. CASE ~over
      BY <1>2, <2>1
    <2>2. CASE over
      <3>1. s = now /\ n = 0 /\ k.start <= now - RateWindow
        BY <1>1, <1>2, <1>4, <2>2
      <3>2. ASSUME NEW i \in 1..Len(a), i <= Len(a) - RateLimit PROVE a[i] <= now - RateWindow
        <4>1. i <= Len(a) - k.count
          BY <1>2, <1>4, <3>2
        <4> QED BY <1>1, <1>2, <1>4, <3>1, <4>1
      <3>3. \A i \in 1..Len(a) : i <= Len(a) - 0 - RateLimit => i <= Len(a) - RateLimit
        BY <1>4
      <3> HIDE DEF s, n
      <3> QED BY <1>3, <3>1, <3>2, <3>3
    <2> QED BY <2>1, <2>2
  <1>7. r \in TokenRecord /\ r.start = s /\ r.count = n + 1
    <2> HIDE DEF s, n, k
    <2>0. k \in TokenRecord /\ s \in Nat /\ n \in Nat /\ n + 1 \in Nat
      BY <1>2, <1>5
    <2> DEFINE u == [k EXCEPT !.start = s, !.count = n]
    <2>1. u \in TokenRecord /\ u.start = s
      BY <2>0 DEF TokenRecord
    <2>2. r = [u EXCEPT !.count = n + 1]
      OBVIOUS
    <2> HIDE DEF u, r
    <2> QED BY <2>0, <2>1, <2>2 DEF TokenRecord
  <1> HIDE DEF r, s, n, a
  <1>8. /\ b \in Seq(Nat) /\ Spread(b) /\ \A i \in 1..Len(b) : b[i] <= now
        /\ \A i \in 1..Len(b) : /\ i <= Len(b) - (n + 1) => b[i] <= s
                                /\ i <= Len(b) - (n + 1) - RateLimit => b[i] <= s - RateWindow
    BY <1>1, <1>3, <1>5, <1>6, AdmittedIs
  <1> HIDE DEF b
  <1>9. TokenRow(b, now) /\ Windowed(b, r, now)
    BY <1>1, <1>4, <1>5, <1>7, <1>8 DEF TokenRow, Windowed
  <1>10. /\ DOMAIN admitted' = DOMAIN admitted /\ DOMAIN tokens' = DOMAIN tokens
         /\ \A x \in Tokens : admitted'[x] = IF x = t THEN b ELSE admitted[x]
         /\ \A x \in DOMAIN tokens : tokens'[x] = IF x = t THEN r ELSE tokens[x]
    BY <1>1 DEF TokensSound
  <1> QED BY <1>1, <1>7, <1>9, <1>10 DEF TokensSound

\* The other calls of the token store.
LEMMA TokenStep ==
  ASSUME ClockType, TokensSound, NEW t \in Tokens, CreateToken(t) \/ RevokeToken(t)
  PROVE  TokensSound'
  <1>1. now' = now /\ admitted' = admitted /\ now \in Nat
    BY DEF CreateToken, RevokeToken, ClockType
  <1>2. CASE CreateToken(t)
    <2> DEFINE r == [ends |-> now + Lifetime, revoked |-> FALSE, start |-> now, count |-> 0]
    <2>1. tokens' = Put(tokens, t, r) /\ admitted[t] = <<>>
      BY <1>2 DEF CreateToken
    <2>2. r \in TokenRecord /\ r.count = 0 /\ r.start = now
      BY <1>1, CredentialsAssumption DEF TokenRecord
    <2> HIDE DEF r
    <2>3. Windowed(<<>>, r, now)
      BY <1>1, <2>2, CredentialsAssumption DEF Windowed
    <2>4. /\ DOMAIN tokens' = DOMAIN tokens \cup {t}
          /\ \A x \in DOMAIN tokens' : tokens'[x] = IF x = t THEN r ELSE tokens[x]
      BY <2>1 DEF Put
    <2> QED BY <1>1, <2>1, <2>2, <2>3, <2>4 DEF TokensSound
  <1>3. CASE RevokeToken(t)
    <2> DEFINE r == [tokens[t] EXCEPT !.revoked = TRUE]
    <2>1. t \in DOMAIN tokens /\ tokens' = [tokens EXCEPT ![t] = r]
      BY <1>3 DEF RevokeToken
    <2>2. r \in TokenRecord /\ r.count = tokens[t].count /\ r.start = tokens[t].start
      BY <2>1 DEF TokensSound, TokenRecord
    <2> HIDE DEF r
    <2>3. Windowed(admitted[t], r, now)
      BY <2>1, <2>2 DEF TokensSound, Windowed
    <2>4. /\ DOMAIN tokens' = DOMAIN tokens
          /\ \A x \in DOMAIN tokens' : tokens'[x] = IF x = t THEN r ELSE tokens[x]
      BY <2>1
    <2> QED BY <1>1, <2>1, <2>2, <2>3, <2>4 DEF TokensSound
  <1> QED BY <1>2, <1>3

\* Retention leaves the rows of the active tokens as they are.
LEMMA PurgeStep ==
  ASSUME TokensSound, PurgeTokens PROVE TokensSound'
  <1>1. now' = now /\ admitted' = admitted
    BY DEF PurgeTokens
  <1>2. DOMAIN tokens' \subseteq DOMAIN tokens /\ \A x \in DOMAIN tokens' : tokens'[x] = tokens[x]
    BY DEF PurgeTokens, Cut
  <1> QED BY <1>1, <1>2 DEF TokensSound

-----------------------------------------------------------------------------
(* The grants.                                                             *)

\* The place an import had before one that ended was removed.
Shift(i, k) == IF k < i THEN k ELSE k + 1

\* An import that ends: the others keep their order.
LEMMA RemoveAtIs ==
  ASSUME NEW S, NEW s \in Seq(S), NEW i \in 1..Len(s)
  PROVE  /\ RemoveAt(s, i) \in Seq(S) /\ Len(RemoveAt(s, i)) = Len(s) - 1
         /\ \A k \in 1..(Len(s) - 1) : RemoveAt(s, i)[k] = s[Shift(i, k)]
  <1>1. Len(s) \in Nat /\ i \in Nat /\ 1 <= i /\ i <= Len(s)
    OBVIOUS
  <1> DEFINE p == SubSeq(s, 1, i - 1)
             q == SubSeq(s, i + 1, Len(s))
  <1>2. /\ p \in Seq(S) /\ Len(p) = i - 1 /\ \A k \in 1..(i - 1) : p[k] = s[k]
    BY <1>1
  <1>3. /\ q \in Seq(S) /\ Len(q) = Len(s) - i /\ \A k \in 1..(Len(s) - i) : q[k] = s[k + i]
    BY <1>1
  <1>4. RemoveAt(s, i) = p \o q
    BY DEF RemoveAt
  <1> HIDE DEF p, q
  <1>5. /\ p \o q \in Seq(S) /\ Len(p \o q) = Len(p) + Len(q)
        /\ \A k \in 1..(Len(p) + Len(q)) : (p \o q)[k] = IF k <= Len(p) THEN p[k] ELSE q[k - Len(p)]
    BY <1>2, <1>3, ConcatProperties
  <1>6. ASSUME NEW k \in 1..(Len(s) - 1) PROVE (p \o q)[k] = s[Shift(i, k)]
    <2>1. CASE k < i
      BY <1>1, <1>2, <1>3, <1>5, <2>1 DEF Shift
    <2>2. CASE ~(k < i)
      <3>1. k - Len(p) \in 1..(Len(s) - i) /\ (k - Len(p)) + i = k + 1
        BY <1>1, <1>2, <2>2
      <3>2. k \in 1..(Len(p) + Len(q)) /\ ~(k <= Len(p))
        BY <1>1, <1>2, <1>3, <2>2
      <3> QED BY <1>1, <1>3, <1>5, <2>2, <3>1, <3>2 DEF Shift
    <2> QED BY <2>1, <2>2
  <1>7. Len(p \o q) = Len(s) - 1
    BY <1>1, <1>2, <1>3, <1>5
  <1> QED BY <1>4, <1>5, <1>6, <1>7

\* An import that ends leaves the others as they were.
LEMMA RemovalKeeps ==
  ASSUME NEW m, NEW d, NEW g, GrantsAre(m, d, g), NEW i \in 1..Len(m), NEW h, h = RemoveAt(m, i)
  PROVE  /\ GrantsAre(h, d, g)
         /\ Loads(m, i) => \A k \in 1..Len(h) : Loads(h, k) => h[k].grant # m[i].grant
  <1>1. m \in Seq(ImportRecord) /\ d \in Seq(Grants)
    BY DEF GrantsAre, GrantsType
  <1>2. /\ h \in Seq(ImportRecord) /\ Len(h) = Len(m) - 1 /\ Len(m) \in Nat
        /\ \A k \in 1..(Len(m) - 1) : h[k] = m[Shift(i, k)]
    <2>1. /\ RemoveAt(m, i) \in Seq(ImportRecord) /\ Len(RemoveAt(m, i)) = Len(m) - 1
          /\ \A k \in 1..(Len(m) - 1) : RemoveAt(m, i)[k] = m[Shift(i, k)]
      BY <1>1, RemoveAtIs
    <2> QED BY <1>1, <2>1
  <1>3. \A k \in 1..Len(h) : /\ Shift(i, k) \in 1..Len(m) /\ Shift(i, k) # i
                             /\ \A l \in 1..Len(h) : Shift(i, k) = Shift(i, l) => k = l
    BY <1>2 DEF Shift
  <1>4. \A k \in 1..Len(h) : h[k] = m[Shift(i, k)]
    BY <1>2
  <1>5. \A k \in 1..Len(h) : (Loads(h, k) <=> Loads(m, Shift(i, k))) /\ h[k].grant = m[Shift(i, k)].grant
    BY <1>4 DEF Loads
  <1>6. LoadsAlone(m) /\ LoadsUnused(m, d) /\ GrantsUsed(m, d, g) /\ Once(d) /\ GrantsType(m, d, g)
    BY DEF GrantsAre
  <1>7. LoadsAlone(h)
    <2> SUFFICES ASSUME NEW k \in 1..Len(h), NEW l \in 1..Len(h), Loads(h, k), Loads(h, l),
                        h[k].grant = h[l].grant
                 PROVE  k = l
      BY DEF LoadsAlone
    <2>1. Shift(i, k) = Shift(i, l)
      BY <1>3, <1>5, <1>6 DEF LoadsAlone
    <2> QED BY <1>3, <2>1
  <1>8. LoadsUnused(h, d)
    BY <1>3, <1>5, <1>6 DEF LoadsUnused
  <1>9. GrantsUsed(h, d, g)
    BY <1>3, <1>5, <1>6 DEF GrantsUsed
  <1>10. Loads(m, i) => \A k \in 1..Len(h) : Loads(h, k) => h[k].grant # m[i].grant
    BY <1>3, <1>5, <1>6 DEF LoadsAlone
  <1>11. GrantsType(h, d, g)
    BY <1>2, <1>6 DEF GrantsType
  <1> QED BY <1>6, <1>7, <1>8, <1>9, <1>10, <1>11 DEF GrantsAre

\* A grant is created: it is the grant of no import and of no project.
LEMMA CreateGrantStep ==
  ASSUME ClockType, GrantsSound, NEW x \in Grants, CreateGrant(x) PROVE GrantsSound'
  <1> DEFINE kept == Cut(grants, {h \in DOMAIN grants : ~GrantUsable(h)})
             r == [ends |-> now + Lifetime, spent |-> FALSE]
             g == Put(kept, x, r)
  <1>1. /\ grants' = g /\ imports' = imports /\ imported' = imported
        /\ \A i \in DOMAIN imports : imports[i].grant # x
        /\ \A i \in DOMAIN imported : imported[i] # x
    BY DEF CreateGrant
  <1>2. imports \in Seq(ImportRecord) /\ imported \in Seq(Grants) /\ \A y \in DOMAIN grants : grants[y] \in GrantRecord
    BY DEF GrantsSound, GrantsAre, GrantsType
  <1>3. DOMAIN imports = 1..Len(imports) /\ DOMAIN imported = 1..Len(imported)
    BY <1>2
  <1>4. r \in GrantRecord
    BY CredentialsAssumption DEF GrantRecord, ClockType
  <1> HIDE DEF r
  <1>5. \A y \in DOMAIN g : (y = x /\ g[y] = r) \/ (y # x /\ y \in DOMAIN grants /\ g[y] = grants[y])
    BY DEF Put, Cut
  <1> HIDE DEF g
  <1>6. \A y : y # x /\ Used(grants, y) => Used(g, y)
    BY <1>5 DEF Used
  <1>7. GrantsType(imports, imported, g)
    BY <1>2, <1>4, <1>5 DEF GrantsType
  <1>8. GrantsUsed(imports, imported, g)
    BY <1>1, <1>3, <1>6 DEF GrantsSound, GrantsAre, GrantsUsed
  <1> QED BY <1>1, <1>7, <1>8 DEF GrantsSound, GrantsAre

\* An import is admitted: its grant is not spent yet.
LEMMA ImportArrivesStep ==
  ASSUME GrantsSound, NEW x \in Grants, ImportArrives(x) PROVE GrantsSound'
  <1> DEFINE r == [grant |-> x, pc |-> "form"]
             m == Append(imports, r)
  <1>1. grants' = grants /\ imports' = m /\ imported' = imported
    BY DEF ImportArrives
  <1>2. imports \in Seq(ImportRecord) /\ GrantsType(imports, imported, grants)
    BY DEF GrantsSound, GrantsAre, GrantsType
  <1>3. r \in ImportRecord /\ r.pc # "upload"
    BY DEF ImportRecord
  <1> HIDE DEF r
  <1>4. /\ m \in Seq(ImportRecord) /\ Len(m) = Len(imports) + 1 /\ Len(imports) \in Nat
        /\ m[Len(imports) + 1] = r /\ \A i \in 1..Len(imports) : m[i] = imports[i]
    BY <1>2, <1>3
  <1> HIDE DEF m
  <1>5. \A i \in 1..Len(m) : Loads(m, i) => i \in 1..Len(imports) /\ Loads(imports, i) /\ m[i] = imports[i]
    BY <1>3, <1>4 DEF Loads
  <1>6. LoadsAlone(m) /\ LoadsUnused(m, imported) /\ GrantsUsed(m, imported, grants)
    BY <1>5 DEF GrantsSound, GrantsAre, LoadsAlone, LoadsUnused, GrantsUsed
  <1> QED BY <1>1, <1>2, <1>4, <1>6 DEF GrantsSound, GrantsAre, GrantsType

\* The form arrived: of the imports admitted with a grant, one spends it.
LEMMA SpendGrantStep ==
  ASSUME GrantsSound, NEW i \in 1..Len(imports), SpendGrant(i) PROVE GrantsSound'
  <1> DEFINE x == imports[i].grant
  <1>0. /\ imports \in Seq(ImportRecord) /\ imported \in Seq(Grants)
        /\ \A y \in DOMAIN grants : grants[y] \in GrantRecord
    BY DEF GrantsSound, GrantsAre, GrantsType
  <1>1. CASE ~Spendable(x)
    <2>1. imports' = RemoveAt(imports, i) /\ grants' = grants /\ imported' = imported
      BY <1>1 DEF SpendGrant
    <2> QED BY <2>1, RemovalKeeps DEF GrantsSound
  <1>2. CASE Spendable(x)
    <2> DEFINE s == [grants[x] EXCEPT !.spent = TRUE]
               g == [grants EXCEPT ![x] = s]
               r == [imports[i] EXCEPT !.pc = "upload"]
               m == [imports EXCEPT ![i] = r]
    <2>1. /\ imports' = m /\ grants' = g /\ imported' = imported
          /\ x \in DOMAIN grants /\ ~grants[x].spent
      BY <1>2 DEF SpendGrant, Spendable, GrantUsable
    <2>2. ~Used(grants, x)
      BY <2>1 DEF Used
    <2>3. s \in GrantRecord /\ s.spent
      BY <1>0, <2>1 DEF GrantRecord
    <2>4. r \in ImportRecord /\ r.grant = x
      <3>1. imports[i] \in ImportRecord
        BY <1>0
      <3> QED BY <3>1 DEF ImportRecord
    <2> HIDE DEF s, r
    <2>5. DOMAIN g = DOMAIN grants /\ g[x] = s /\ \A y \in DOMAIN grants \ {x} : g[y] = grants[y]
      BY <2>1
    <2>6. /\ m \in Seq(ImportRecord) /\ Len(m) = Len(imports) /\ m[i] = r
          /\ \A j \in 1..Len(imports) \ {i} : m[j] = imports[j]
      BY <1>0, <2>4
    <2> HIDE DEF g, m
    <2>7. \A y : y = x \/ Used(grants, y) => Used(g, y)
      BY <2>3, <2>5 DEF Used
    <2>8. /\ \A j \in 1..Len(imports) : Loads(imports, j) => imports[j].grant # x
          /\ \A n \in 1..Len(imported) : imported[n] # x
      BY <2>2 DEF GrantsSound, GrantsAre, GrantsUsed
    <2> HIDE DEF x
    <2>9. /\ \A j \in 1..Len(m) \ {i} : m[j] = imports[j] /\ (Loads(m, j) <=> Loads(imports, j))
          /\ m[i].grant = x
      BY <2>4, <2>6 DEF Loads
    <2>10. LoadsAlone(m)
      BY <2>6, <2>8, <2>9 DEF GrantsSound, GrantsAre, LoadsAlone
    <2>11. LoadsUnused(m, imported)
      BY <2>6, <2>8, <2>9 DEF GrantsSound, GrantsAre, LoadsUnused
    <2>12. GrantsUsed(m, imported, g)
      BY <2>6, <2>7, <2>9 DEF GrantsSound, GrantsAre, GrantsUsed
    <2>13. GrantsType(m, imported, g)
      BY <1>0, <2>3, <2>5, <2>6 DEF GrantsType
    <2> QED BY <2>1, <2>10, <2>11, <2>12, <2>13 DEF GrantsSound, GrantsAre
  <1> QED BY <1>1, <1>2

\* The upload arrived: its grant becomes the grant of a project, once.
LEMMA CreateImportedStep ==
  ASSUME GrantsSound, NEW i \in 1..Len(imports), CreateImported(i) PROVE GrantsSound'
  <1> DEFINE x == imports[i].grant
             d == Append(imported, x)
             h == RemoveAt(imports, i)
  <1>1. /\ Loads(imports, i) /\ imported' = d /\ imports' = h /\ grants' = grants
    BY DEF CreateImported, Loads
  <1>2. /\ imports \in Seq(ImportRecord) /\ imported \in Seq(Grants)
        /\ \A y \in DOMAIN grants : grants[y] \in GrantRecord
    BY DEF GrantsSound, GrantsAre, GrantsType
  <1>3. x \in Grants
    <2>1. imports[i] \in ImportRecord
      BY <1>2
    <2> QED BY <2>1 DEF ImportRecord
  <1>4. /\ GrantsAre(h, imported, grants)
        /\ \A k \in 1..Len(h) : Loads(h, k) => h[k].grant # x
    BY <1>1, RemovalKeeps DEF GrantsSound
  <1>5. Used(grants, x) /\ \A n \in 1..Len(imported) : imported[n] # x
    BY <1>1 DEF GrantsSound, GrantsAre, GrantsUsed, LoadsUnused
  <1> HIDE DEF x, h
  <1>6. /\ d \in Seq(Grants) /\ Len(d) = Len(imported) + 1 /\ Len(imported) \in Nat
        /\ d[Len(imported) + 1] = x /\ \A n \in 1..Len(imported) : d[n] = imported[n]
    BY <1>2, <1>3
  <1> HIDE DEF d
  <1>7. \A n \in 1..Len(d) : (n \in 1..Len(imported) /\ d[n] = imported[n]) \/ (n = Len(imported) + 1 /\ d[n] = x)
    BY <1>6
  <1>8. Once(d)
    BY <1>4, <1>5, <1>7 DEF GrantsAre, Once
  <1>9. LoadsUnused(h, d)
    BY <1>4, <1>7 DEF GrantsAre, LoadsUnused
  <1>10. GrantsUsed(h, d, grants)
    BY <1>4, <1>5, <1>7 DEF GrantsAre, GrantsUsed
  <1>11. GrantsType(h, d, grants) /\ LoadsAlone(h)
    BY <1>4, <1>6 DEF GrantsAre, GrantsType
  <1> QED BY <1>1, <1>8, <1>9, <1>10, <1>11 DEF GrantsSound, GrantsAre

-----------------------------------------------------------------------------
(* The stores together.                                                    *)

\* The clock, a restart and stuttering.
LEMMA RestStep ==
  ASSUME CredentialsInv, ClockTicks \/ RestartProcess \/ UNCHANGED credVars PROVE CredentialsInv'
  <1> USE DEF CredentialsInv, loginVars, tokenVars, grantVars, credVars
  <1>1. CASE ClockTicks
    <2>1. /\ now' = now + 1 /\ now \in Nat /\ now' \in Nat /\ stored' = stored /\ attempts' = attempts
          /\ announced' = announced /\ tokens' = tokens /\ admitted' = admitted
          /\ grants' = grants /\ imports' = imports /\ imported' = imported
      BY <1>1 DEF ClockTicks, ClockType
    <2>2. LockRow' /\ ClockType'
      BY <2>1 DEF LockRow, ClockType
    <2>3. ASSUME NEW a, TokenRow(a, now) PROVE TokenRow(a, now')
      <3>1. \A i \in 1..Len(a) : a[i] \in Nat /\ a[i] <= now
        BY <2>3 DEF TokenRow
      <3> QED BY <2>1, <2>3, <3>1 DEF TokenRow
    <2>4. ASSUME NEW a, NEW k \in TokenRecord, Windowed(a, k, now) PROVE Windowed(a, k, now')
      <3>1. k.start \in Nat
        BY DEF TokenRecord
      <3> QED BY <2>1, <2>4, <3>1 DEF Windowed
    <2>5. TokensSound'
      BY <2>1, <2>3, <2>4 DEF TokensSound
    <2> QED BY <2>1, <2>2, <2>5 DEF GrantsSound
  <1>2. CASE RestartProcess
    <2>1. /\ now' = now /\ stored' = stored /\ (stored => attempts' = attempts) /\ announced' = announced
          /\ tokens' = tokens /\ admitted' = admitted
          /\ grants' = grants /\ imports' = <<>> /\ imported' = imported
      BY <1>2 DEF RestartProcess
    <2>2. GrantsAre(<<>>, imported, grants)
      BY DEF GrantsSound, GrantsAre, GrantsType, LoadsAlone, LoadsUnused, GrantsUsed
    <2>3. LockRow' /\ ClockType'
      BY <2>1 DEF LockRow, ClockType
    <2> QED BY <2>1, <2>2, <2>3 DEF TokensSound, GrantsSound
  <1>3. CASE UNCHANGED credVars
    BY <1>3 DEF ClockType, LockRow, TokensSound, GrantsSound
  <1> QED BY <1>1, <1>2, <1>3

\* Every call of a store keeps the invariant of its own, and leaves the others alone.
LEMMA CredentialsStep ==
  ASSUME CredentialsInv, [CredentialsNext]_credVars PROVE CredentialsInv'
  <1> USE DEF CredentialsInv, loginVars, tokenVars, grantVars
  <1>1. ASSUME NEW c \in Clients, LoginFails(c) \/ LoginRefused(c) \/ LoginSucceeds(c) PROVE CredentialsInv'
    <2>1. /\ now' = now /\ stored' = stored /\ tokens' = tokens /\ admitted' = admitted
          /\ grants' = grants /\ imports' = imports /\ imported' = imported
      BY <1>1 DEF LoginFails, LoginRefused, LoginSucceeds
    <2>2. ClockType' /\ LockRow'
      BY <1>1, LoginStep
    <2> QED BY <2>1, <2>2 DEF TokensSound, GrantsSound
  <1>2. ASSUME NEW t \in Tokens, CreateToken(t) \/ UseToken(t) \/ RevokeToken(t) PROVE CredentialsInv'
    <2>1. /\ now' = now /\ stored' = stored /\ attempts' = attempts /\ announced' = announced
          /\ grants' = grants /\ imports' = imports /\ imported' = imported
      BY <1>2 DEF CreateToken, UseToken, RevokeToken
    <2>2. TokensSound'
      BY <1>2, TokenStep, UseTokenStep
    <2> QED BY <2>1, <2>2 DEF ClockType, LockRow, GrantsSound
  <1>3. ASSUME PurgeTokens PROVE CredentialsInv'
    <2>1. /\ now' = now /\ stored' = stored /\ attempts' = attempts /\ announced' = announced
          /\ grants' = grants /\ imports' = imports /\ imported' = imported
      BY <1>3 DEF PurgeTokens
    <2>2. TokensSound'
      BY <1>3, PurgeStep
    <2> QED BY <2>1, <2>2 DEF ClockType, LockRow, GrantsSound
  <1>4. ASSUME GrantsSound', UNCHANGED <<now, stored, loginVars, tokenVars>> PROVE CredentialsInv'
    BY <1>4 DEF ClockType, LockRow, TokensSound
  <1>5. ASSUME NEW g \in Grants, CreateGrant(g) \/ ImportArrives(g) PROVE CredentialsInv'
    <2>1. UNCHANGED <<now, stored, loginVars, tokenVars>>
      BY <1>5 DEF CreateGrant, ImportArrives
    <2>2. GrantsSound'
      BY <1>5, CreateGrantStep, ImportArrivesStep
    <2> QED BY <1>4, <2>1, <2>2
  <1>6. ASSUME NEW i \in DOMAIN imports, SpendGrant(i) \/ CreateImported(i) \/ ImportFails(i)
        PROVE  CredentialsInv'
    <2>1. UNCHANGED <<now, stored, loginVars, tokenVars>>
      BY <1>6 DEF SpendGrant, CreateImported, ImportFails
    <2>2. i \in 1..Len(imports)
      <3>1. imports \in Seq(ImportRecord)
        BY DEF GrantsSound, GrantsAre, GrantsType
      <3> QED BY <3>1
    <2>3. ASSUME ImportFails(i) PROVE GrantsSound'
      <3>1. imports' = RemoveAt(imports, i) /\ grants' = grants /\ imported' = imported
        BY <2>3 DEF ImportFails
      <3> QED BY <2>2, <3>1, RemovalKeeps DEF GrantsSound
    <2>4. GrantsSound'
      BY <1>6, <2>2, <2>3, SpendGrantStep, CreateImportedStep
    <2> QED BY <1>4, <2>1, <2>4
  <1>7. ASSUME ClockTicks \/ RestartProcess \/ UNCHANGED credVars PROVE CredentialsInv'
    BY <1>7, RestStep
  <1> QED BY <1>1, <1>2, <1>3, <1>5, <1>6, <1>7 DEF CredentialsNext

\* The stores start empty.
LEMMA CredentialsStart ==
  ASSUME CredentialsInit PROVE CredentialsInv
  <1>1. ClockType /\ stored \in BOOLEAN
    BY DEF CredentialsInit, ClockType
  <1>2. LockRow
    <2>1. now = 0 /\ \A c \in Clients : announced[c] = 0
      BY DEF CredentialsInit
    <2> QED BY <2>1 DEF LockRow
  <1>3. TokensSound
    <2>1. Spread(<<>>)
      BY DEF Spread
    <2> QED BY <2>1 DEF CredentialsInit, TokensSound, TokenRow
  <1>4. GrantsSound
    BY DEF CredentialsInit, GrantsSound, GrantsAre, GrantsType, LoadsAlone, LoadsUnused, GrantsUsed, Once
  <1> QED BY <1>1, <1>2, <1>3, <1>4 DEF CredentialsInv

\* The inductive invariant: it says of a token's admitted requests where its fixed
\* windows lie, of an import which grant it holds, and of a lock which row keeps it
\* (prune_login_attempts, AutomationTokenStore.authenticate, consume).
THEOREM CredentialsInvariant == CredentialsSpec => []CredentialsInv
  <1>1. CredentialsInit => CredentialsInv
    BY CredentialsStart
  <1>2. CredentialsInv /\ [CredentialsNext]_credVars => CredentialsInv'
    BY CredentialsStep
  <1> QED BY <1>1, <1>2, PTL DEF CredentialsSpec

\* A lock lasts as long as it was announced, a token's burst stays within twice its
\* limit, and a grant creates one project (auth_state_sqlite.py, automation_tokens.py,
\* repository_import_grants.py).
THEOREM CredentialsAlwaysHold == CredentialsSpec => []CredentialsHold
  <1>1. ASSUME CredentialsInv PROVE CredentialsHold
    <2>1. LockHolds
      BY <1>1, LockIsKept DEF CredentialsInv, LockRow, LockHolds
    <2>2. BurstBounded
      <3>1. ASSUME NEW t \in Tokens PROVE admitted[t] \in Seq(Nat) /\ Spread(admitted[t])
        BY <1>1 DEF CredentialsInv, TokensSound, TokenRow
      <3>2. RateLimit \in Nat
        BY CredentialsAssumption
      <3>3. ASSUME NEW t \in Tokens, NEW i \in DOMAIN admitted[t], i + 2 * RateLimit \in DOMAIN admitted[t]
            PROVE  admitted[t][i + 2 * RateLimit] - admitted[t][i] >= RateWindow
        <4>1. DOMAIN admitted[t] = 1..Len(admitted[t])
          BY <3>1
        <4> QED BY <3>1, <3>2, <3>3, <4>1 DEF Spread
      <3> QED BY <3>3 DEF BurstBounded
    <2>3. GrantSpentOnce
      <3>1. Once(imported) /\ DOMAIN imported = 1..Len(imported)
        BY <1>1 DEF CredentialsInv, GrantsSound, GrantsAre, GrantsType
      <3> QED BY <3>1 DEF Once, GrantSpentOnce, IsInjective
    <2> QED BY <2>1, <2>2, <2>3 DEF CredentialsHold
  <1> QED BY <1>1, CredentialsInvariant, PTL

-----------------------------------------------------------------------------
(***************************************************************************)
(* Proofs about workspaces, members and sessions, for any accounts, roles, *)
(* resources and identities, any limits and any number of failed writes:   *)
(* every workspace keeps an administrator, a responsible is a member, and  *)
(* what was taken away does not come back (AccessHolds).                   *)
(*                                                                         *)
(* The actions touch the memberships in three ways: they leave them alone, *)
(* change the record of one, or add one.  A lemma for each says what the   *)
(* sessions and the duties of a step must satisfy.                         *)
(***************************************************************************)
Named == Names \cup {None, "admin"} \cup {Accounts[u] : u \in 1..Len(Accounts)}
UserRecord == [name : Named, active : BOOLEAN]
MemberRecord == [role : Roles, live : BOOLEAN, epoch : Nat]
InviteRecord == [org : Orgs, name : Names, role : AssignedRoles]

\* Accounts and workspaces are numbered without gaps.
Numbered ==
    /\ \E n \in Nat : DOMAIN users = 0..n
    /\ \E k \in Nat \ {0} : Orgs = 1..k

IdentityType ==
    /\ \A u \in DOMAIN users : users[u] \in UserRecord
    /\ DOMAIN members \subseteq Nat \X DOMAIN users
    /\ \A m \in DOMAIN members : members[m] \in MemberRecord
    /\ invites \subseteq InviteRecord

\* The bootstrap account keeps what a restart gives it: a restart brings nothing back.
BootstrapStays ==
    /\ <<LocalAdmin, Bootstrap>> \in DOMAIN members /\ Bootstrap \in DOMAIN users
    /\ members[<<LocalAdmin, Bootstrap>>].role = "administrator"
    /\ members[<<LocalAdmin, Bootstrap>>].live /\ users[Bootstrap].active

\* An account is deprovisioned with its last membership.
LiveIsActive == \A m \in DOMAIN members : members[m].live => users[m[2]].active

Steers(m) == members[m].live /\ members[m].role = "administrator"

Steered == \A o \in Orgs : \E m \in DOMAIN members : m[1] = o /\ Steers(m)

Belongs(m) == m \in DOMAIN members /\ members[m].live

DutiesHeld ==
    /\ DOMAIN held = Resources
    /\ \A x \in Resources : \A u \in held[x] : Belongs(<<OrgOf[x], u>>)
    /\ \A v \in views : Belongs(v)

\* The sessions of a membership are of its last epoch, also those that do not pass the
\* middleware now: another change of the role must not make them pass again.
OfEpoch(s) ==
    <<s.org, s.user>> \in DOMAIN members /\ s.epoch = members[<<s.org, s.user>>].epoch

AccessInv ==
    /\ Numbered /\ IdentityType /\ BootstrapStays /\ LiveIsActive /\ Steered /\ DutiesHeld
    /\ \A s \in sessions : OfEpoch(s)

-----------------------------------------------------------------------------
(* What the guards give.                                                   *)

\* Workspaces are those that have a membership.
LEMMA OrgsAre ==
  ASSUME NEW o, NEW u, <<o, u>> \in DOMAIN members PROVE o \in Orgs
  BY DEF Orgs

\* A membership that passes, of a session or of a member that is named.
LEMMA PrincipalIs ==
  ASSUME IdentityType, NEW o, NEW u, IsPrincipal(o, u)
  PROVE  /\ Belongs(<<o, u>>) /\ o \in Orgs /\ o \in Nat /\ u \in DOMAIN users
         /\ OfEpoch(SessionFor(o, u))
  <1>1. <<o, u>> \in DOMAIN members /\ members[<<o, u>>].live
    BY DEF IsPrincipal, LiveMembership
  <1>2. o \in Nat /\ u \in DOMAIN users
    BY <1>1 DEF IdentityType
  <1>3. SessionFor(o, u).org = o /\ SessionFor(o, u).user = u
        /\ SessionFor(o, u).epoch = members[<<o, u>>].epoch
    BY DEF SessionFor
  <1> QED BY <1>1, <1>2, <1>3, OrgsAre DEF Belongs, OfEpoch

\* An administrator of a workspace that has more than one is not its only one.
LEMMA AnotherSteers ==
  ASSUME IdentityType, NEW o, NEW u, Cardinality(Administrators(o)) > 1
  PROVE  \E v \in DOMAIN users : v # u /\ <<o, v>> \in DOMAIN members /\ Steers(<<o, v>>)
  <1>1. \E v \in Administrators(o) : v # u
    <2> SUFFICES ASSUME \A v \in Administrators(o) : v = u PROVE FALSE
      OBVIOUS
    <2>1. Administrators(o) = {} \/ Administrators(o) = {u}
      OBVIOUS
    <2>2. Cardinality({}) = 0 /\ Cardinality({u}) = 1
      BY FS_EmptySet, FS_Singleton
    <2> QED BY <2>1, <2>2
  <1> QED BY <1>1 DEF Administrators, LiveMembership, Steers

-----------------------------------------------------------------------------
(* Steps on the memberships.                                               *)

\* What a step may add: invitations to a workspace, sessions of the present epoch,
\* duties of members.
Adds ==
    /\ invites' \subseteq invites \cup InviteRecord
    /\ \A s \in sessions' : s \in sessions \/ OfEpoch(s)
    /\ DOMAIN held' = Resources
    /\ \A x \in Resources : \A u \in held'[x] : u \in held[x] \/ Belongs(<<OrgOf[x], u>>)
    /\ \A v \in views' : v \in views \/ Belongs(v)

\* The same function.
Kept(f, g) == DOMAIN g = DOMAIN f /\ \A x \in DOMAIN f : g[x] = f[x]

\* A step that leaves accounts and memberships alone (every route but those that rewrite,
\* add or revoke a membership).
LEMMA IdentityKept ==
  ASSUME AccessInv, Kept(users, users'), Kept(members, members'), Adds PROVE AccessInv'
  <1> USE DEF Kept
  <1>1. Orgs' = Orgs
    BY DEF Orgs
  <1>2. InviteRecord' = InviteRecord
    BY <1>1 DEF InviteRecord
  <1>3. IdentityType' /\ Numbered'
    BY <1>1, <1>2 DEF AccessInv, IdentityType, Numbered, Adds, UserRecord, MemberRecord, Named
  <1>4. \A m : Belongs(m)' <=> Belongs(m)
    BY DEF Belongs
  <1>5. \A s : OfEpoch(s) => OfEpoch(s)'
    BY DEF OfEpoch
  <1>6. DutiesHeld'
    BY <1>4 DEF AccessInv, DutiesHeld, Adds
  <1>7. Steered' /\ LiveIsActive' /\ BootstrapStays'
    <2>1. \A m \in DOMAIN members : Steers(m) => Steers(m)'
      BY DEF Steers
    <2>2. Steered'
      BY <1>1, <2>1 DEF AccessInv, Steered
    <2>3. \A m \in DOMAIN members : m[2] \in DOMAIN users
      BY DEF AccessInv, IdentityType
    <2> QED BY <2>2, <2>3 DEF AccessInv, LiveIsActive, BootstrapStays
  <1>8. (\A s \in sessions : OfEpoch(s))'
    BY <1>5 DEF AccessInv, Adds
  <1> QED BY <1>3, <1>6, <1>7, <1>8 DEF AccessInv

\* The record of one membership becomes r, which lives as long.
Rewritten(k, r) ==
    /\ k \in DOMAIN members /\ r \in MemberRecord /\ (r.live <=> members[k].live)
    /\ DOMAIN members' = DOMAIN members /\ members'[k] = r
    /\ \A m \in DOMAIN members \ {k} : members'[m] = members[m]

\* A role or an epoch changes: the workspace keeps an administrator, and the sessions of
\* an older epoch end.
LEMMA MemberRewritten ==
  ASSUME AccessInv, NEW k, NEW r, Rewritten(k, r), users' = users, invites' = invites,
         held' = held, views' = views, sessions' \subseteq sessions,
         \A s \in sessions' : <<s.org, s.user>> = k => r.epoch = members[k].epoch,
         k = <<LocalAdmin, Bootstrap>> => r.role = "administrator",
         Steers(k) /\ r.role # "administrator"
             => \E m \in DOMAIN members : m # k /\ m[1] = k[1] /\ Steers(m)
  PROVE  AccessInv'
  <1>1. Orgs' = Orgs /\ InviteRecord' = InviteRecord
    BY DEF Orgs, InviteRecord, Rewritten
  <1>2. \A m \in DOMAIN members : members'[m].live <=> members[m].live
    BY DEF Rewritten
  <1>3. IdentityType' /\ Numbered'
    BY <1>1 DEF AccessInv, IdentityType, Numbered, Rewritten, UserRecord, MemberRecord, Named
  <1>4. BootstrapStays'
    BY <1>2 DEF AccessInv, BootstrapStays, Rewritten
  <1>5. LiveIsActive'
    BY <1>2 DEF AccessInv, LiveIsActive, Rewritten
  <1>6. DutiesHeld'
    <2>1. \A m : Belongs(m) => Belongs(m)'
      BY <1>2 DEF Belongs, Rewritten
    <2> QED BY <2>1 DEF AccessInv, DutiesHeld
  <1>7. Steered'
    <2>1. \A m \in DOMAIN members \ {k} : Steers(m) => Steers(m)'
      BY DEF Rewritten, Steers
    <2>2. Steers(k) /\ r.role = "administrator" => Steers(k)'
      BY <1>2 DEF Rewritten, Steers
    <2> SUFFICES ASSUME NEW o \in Orgs PROVE \E m \in DOMAIN members : m[1] = o /\ Steers(m)'
      BY <1>1 DEF Steered, Rewritten
    <2>3. PICK m \in DOMAIN members : m[1] = o /\ Steers(m)
      BY DEF AccessInv, Steered
    <2>4. CASE m # k
      BY <2>1, <2>3, <2>4
    <2>5. CASE m = k
      BY <2>1, <2>2, <2>3, <2>5
    <2> QED BY <2>4, <2>5
  <1>8. \A s \in sessions' : OfEpoch(s)'
    BY DEF AccessInv, OfEpoch, Rewritten
  <1> QED BY <1>3, <1>4, <1>5, <1>6, <1>7, <1>8 DEF AccessInv

\* One membership is added, of an account that is there or the next one, in a workspace
\* that is there or as the administrator of the next one.
Joined(k, r, a) ==
    /\ k \notin DOMAIN members /\ DOMAIN members' = DOMAIN members \cup {k} /\ members'[k] = r
    /\ \A m \in DOMAIN members : members'[m] = members[m]
    /\ DOMAIN users' = DOMAIN users \cup {k[2]} /\ users'[k[2]] = a
    /\ \A v \in DOMAIN users \ {k[2]} : users'[v] = users[v]
    /\ r \in MemberRecord /\ r.live /\ a \in UserRecord /\ a.active

\* A step that adds a membership (create_organization, accept_invitation).
LEMMA MemberAdded ==
  ASSUME AccessInv, NEW o \in Nat, NEW u, NEW r, NEW a, Joined(<<o, u>>, r, a),
         u \in DOMAIN users \/ u = NewUser,
         o \in Orgs \/ (o = Cardinality(Orgs) + 1 /\ r.role = "administrator"),
         invites' \subseteq invites, sessions' = sessions, held' = held, views' = views
  PROVE  AccessInv'
  <1> DEFINE k == <<o, u>>
  <1>1. /\ k \notin DOMAIN members /\ DOMAIN members' = DOMAIN members \cup {k} /\ members'[k] = r
        /\ \A m \in DOMAIN members : members'[m] = members[m]
        /\ DOMAIN users' = DOMAIN users \cup {u} /\ users'[u] = a
        /\ \A v \in DOMAIN users \ {u} : users'[v] = users[v]
        /\ r \in MemberRecord /\ r.live /\ a \in UserRecord /\ a.active
    BY DEF Joined
  <1>2. Orgs' = Orgs \cup {o}
    BY <1>1 DEF Orgs
  <1>3. Numbered'
    <2>1. PICK n \in Nat : DOMAIN users = 0..n
      BY DEF AccessInv, Numbered
    <2>2. Cardinality(0..n) = n + 1
      BY FS_Interval
    <2>3. NewUser = n + 1
      BY <2>1, <2>2 DEF NewUser
    <2>4. DOMAIN users' = 0..n \/ DOMAIN users' = 0..(n + 1)
      BY <1>1, <2>1, <2>3
    <2>5. PICK q \in Nat \ {0} : Orgs = 1..q
      BY DEF AccessInv, Numbered
    <2>6. Cardinality(1..q) = q
      BY FS_Interval
    <2>7. o \in 1..q \/ o = q + 1
      BY <2>5, <2>6
    <2>8. Orgs' = 1..q \/ Orgs' = 1..(q + 1)
      BY <1>2, <2>5, <2>7
    <2>9. n + 1 \in Nat /\ q + 1 \in Nat \ {0}
      OBVIOUS
    <2> QED BY <2>4, <2>5, <2>8, <2>9 DEF Numbered
  <1>4. IdentityType'
    <2>1. IdentityType
      BY DEF AccessInv
    <2>2. InviteRecord \subseteq InviteRecord'
      BY <1>2 DEF InviteRecord
    <2>3. invites' \subseteq InviteRecord'
      BY <2>1, <2>2 DEF IdentityType
    <2>4. DOMAIN members' \subseteq Nat \X DOMAIN users'
      BY <1>1, <2>1 DEF IdentityType
    <2>5. \A m \in DOMAIN members' : members'[m] \in MemberRecord
      BY <1>1, <2>1 DEF IdentityType
    <2>6. \A v \in DOMAIN users' : users'[v] \in UserRecord
      BY <1>1, <2>1 DEF IdentityType
    <2>7. UserRecord' = UserRecord /\ MemberRecord' = MemberRecord
      BY DEF UserRecord, MemberRecord, Named
    <2> QED BY <2>3, <2>4, <2>5, <2>6 DEF IdentityType, UserRecord, MemberRecord, Named
  <1>5. BootstrapStays'
    BY <1>1 DEF AccessInv, BootstrapStays
  <1>6. LiveIsActive'
    <2> SUFFICES ASSUME NEW m \in DOMAIN members', members'[m].live PROVE users'[m[2]].active
      BY DEF LiveIsActive
    <2>1. CASE m = k
      BY <1>1, <2>1
    <2>2. CASE m # k
      <3>1. m \in DOMAIN members /\ m[2] \in DOMAIN users /\ members[m].live
        BY <1>1, <2>2 DEF AccessInv, IdentityType
      <3>2. users[m[2]].active
        BY <3>1 DEF AccessInv, LiveIsActive
      <3> QED BY <1>1, <3>1, <3>2
    <2> QED BY <2>1, <2>2
  <1>7. DutiesHeld'
    <2>1. \A m : Belongs(m) => Belongs(m)'
      BY <1>1 DEF Belongs
    <2> QED BY <2>1 DEF AccessInv, DutiesHeld
  <1>8. Steered'
    <2>1. \A m \in DOMAIN members : m \in DOMAIN members' /\ (Steers(m) => Steers(m)')
      BY <1>1 DEF Steers
    <2>2. \A x \in Orgs : \E m \in DOMAIN members' : m[1] = x /\ Steers(m)'
      BY <2>1 DEF AccessInv, Steered
    <2>3. o \notin Orgs => k \in DOMAIN members' /\ k[1] = o /\ Steers(k)'
      BY <1>1 DEF Steers
    <2> QED BY <1>2, <2>2, <2>3 DEF Steered
  <1>9. \A s \in sessions' : OfEpoch(s)'
    BY <1>1 DEF AccessInv, OfEpoch
  <1> QED BY <1>3, <1>4, <1>5, <1>6, <1>7, <1>8, <1>9 DEF AccessInv

-----------------------------------------------------------------------------
(* The actions.                                                            *)

\* Logins, requests, federated logins: the sessions they open are of the present epoch.
LEMMA SessionStep ==
  ASSUME AccessInv,
         \/ \E u \in DOMAIN users : Login(u)
         \/ \E s \in sessions : EndSession(s) \/ RequestArrives(s)
         \/ \E r \in requests : RequestEnds(r) \/ \E org \in Orgs : SelectOrganization(r, org)
         \/ OidcStart
         \/ \E sub \in Subjects, role \in AssignedRoles \ {"administrator"} : OidcCallback(sub, role)
         \/ \E c \in callbacks : OidcFinish(c)
  PROVE  AccessInv'
  <1> USE DEF identity, oidc, duties
  <1>1. users' = users /\ members' = members /\ invites' = invites /\ held' = held /\ views' = views
    BY DEF Login, EndSession, RequestArrives, RequestEnds, SelectOrganization, OidcStart, OidcCallback,
           OidcFinish
  <1>2. IdentityType /\ DOMAIN held = Resources
    BY DEF AccessInv, DutiesHeld
  <1>3. \A s \in sessions' : s \in sessions \/ \E o, u : IsPrincipal(o, u) /\ s = SessionFor(o, u)
    <2>1. ASSUME NEW u \in DOMAIN users, Login(u)
          PROVE  \A s \in sessions' : s \in sessions \/ \E o : IsPrincipal(o, u) /\ s = SessionFor(o, u)
      BY <2>1 DEF Login, LoginOrg
    <2>2. ASSUME NEW s \in sessions, EndSession(s) \/ RequestArrives(s) PROVE sessions' \subseteq sessions
      BY <2>2 DEF EndSession, RequestArrives
    <2>3. ASSUME NEW r \in requests, RequestEnds(r) PROVE sessions' \subseteq sessions
      BY <2>3 DEF RequestEnds
    <2>4. ASSUME NEW r \in requests, NEW org \in Orgs, SelectOrganization(r, org)
          PROVE  \A s \in sessions' : s \in sessions \/ (IsPrincipal(org, r.user) /\ s = SessionFor(org, r.user))
      BY <2>4 DEF SelectOrganization
    <2>5. ASSUME OidcStart \/ \E sub \in Subjects, role \in AssignedRoles \ {"administrator"} : OidcCallback(sub, role)
          PROVE  sessions' = sessions
      BY <2>5 DEF OidcStart, OidcCallback
    <2>6. ASSUME NEW c \in callbacks, OidcFinish(c)
          PROVE  \A s \in sessions' : s \in sessions \/ \E u : IsPrincipal(OidcOrg, u) /\ s = SessionFor(OidcOrg, u)
      BY <2>6 DEF OidcFinish, Resolves
    <2> QED BY <2>1, <2>2, <2>3, <2>4, <2>5, <2>6
  <1>4. \A s \in sessions' : s \in sessions \/ OfEpoch(s)
    BY <1>2, <1>3, PrincipalIs
  <1>5. Adds
    BY <1>1, <1>2, <1>4 DEF Adds
  <1> QED BY <1>1, <1>5, IdentityKept DEF Kept

\* A restart gives the bootstrap account what it has.
LEMMA RestartStep ==
  ASSUME AccessInv, Restart PROVE AccessInv'
  <1> DEFINE k == <<LocalAdmin, Bootstrap>>
  <1>1. /\ k \in DOMAIN members /\ Bootstrap \in DOMAIN users
        /\ members[k].role = "administrator" /\ members[k].live /\ users[Bootstrap].active
        /\ members[k] \in MemberRecord /\ users[Bootstrap] \in UserRecord
    BY DEF AccessInv, BootstrapStays, IdentityType
  <1>2. Kept(users, users')
    <2> DEFINE a == [users[Bootstrap] EXCEPT !.active = TRUE]
    <2>1. a = users[Bootstrap]
      BY <1>1 DEF UserRecord
    <2>2. users' = [users EXCEPT ![Bootstrap] = a]
      BY DEF Restart
    <2> HIDE DEF a
    <2> QED BY <1>1, <2>1, <2>2 DEF Kept
  <1>3. Kept(members, members')
    <2> DEFINE r == [members[k] EXCEPT !.role = "administrator", !.live = TRUE]
    <2>1. r = members[k]
      BY <1>1 DEF MemberRecord
    <2>2. members' = [members EXCEPT ![k] = r]
      BY <1>1 DEF Restart
    <2> HIDE DEF r, k
    <2> QED BY <1>1, <2>1, <2>2 DEF Kept
  <1>4. invites' = invites /\ sessions' \subseteq sessions /\ held' = held /\ views' = views
    BY DEF Restart, duties
  <1>5. Adds
    BY <1>4 DEF Adds, AccessInv, DutiesHeld
  <1> QED BY <1>2, <1>3, <1>5, IdentityKept DEF Kept

\* A workspace is created by an administrator, who administers it.
LEMMA CreateOrganizationStep ==
  ASSUME AccessInv, NEW r, CreateOrganization(r) PROVE AccessInv'
  <1> DEFINE o == Cardinality(Orgs) + 1
             e == [role |-> "administrator", live |-> TRUE, epoch |-> 0]
             k == <<o, r.user>>
  <1>1. /\ members' = Upd(members, k, e) /\ users' = users /\ invites' = invites
        /\ sessions' = sessions /\ held' = held /\ views' = views /\ IsPrincipal(r.org, r.user)
    BY DEF CreateOrganization, IsAdministrator, Current, duties
  <1>2. e \in MemberRecord /\ e.live /\ e.role = "administrator"
    BY DEF MemberRecord, Roles
  <1> HIDE DEF e
  <1>3. r.user \in DOMAIN users /\ users[r.user] \in UserRecord /\ users[r.user].active
    BY <1>1, PrincipalIs DEF AccessInv, IdentityType, IsPrincipal
  <1>4. o \in Nat /\ k \notin DOMAIN members
    <2>1. PICK q \in Nat \ {0} : Orgs = 1..q
      BY DEF AccessInv, Numbered
    <2>2. Cardinality(1..q) = q
      BY FS_Interval
    <2>3. o = q + 1 /\ o \notin Orgs
      BY <2>1, <2>2
    <2> QED BY <2>3, OrgsAre
  <1> HIDE DEF o
  <1>5. Joined(k, e, users[r.user])
    BY <1>1, <1>2, <1>3, <1>4 DEF Joined, Upd
  <1> QED BY <1>1, <1>2, <1>3, <1>4, <1>5, MemberAdded DEF o

\* An invitation is accepted: its workspace is there.
LEMMA AcceptInvitationStep ==
  ASSUME AccessInv, NEW i \in invites, AcceptInvitation(i) PROVE AccessInv'
  <1> DEFINE usable == {v \in DOMAIN users : users[v].name = i.name}
             u == IF usable = {} THEN NewUser ELSE CHOOSE v \in usable : TRUE
             e == [role |-> i.role, live |-> TRUE, epoch |-> 0]
             a == [name |-> i.name, active |-> TRUE]
             k == <<i.org, u>>
  <1>1. /\ k \notin DOMAIN members /\ members' = Upd(members, k, e) /\ users' = Upd(users, u, a)
        /\ invites' = invites \ {i} /\ sessions' = sessions /\ held' = held /\ views' = views
    BY DEF AcceptInvitation, duties
  <1>2. i.org \in Orgs /\ i.name \in Names /\ i.role \in AssignedRoles
    BY DEF AccessInv, IdentityType, InviteRecord
  <1>3. i.org \in Nat
    BY <1>2 DEF AccessInv, Numbered
  <1>4. e \in MemberRecord /\ e.live /\ a \in UserRecord /\ a.active
    BY <1>2 DEF MemberRecord, Roles, UserRecord, Named
  <1>5. u \in DOMAIN users \/ u = NewUser
    OBVIOUS
  <1> HIDE DEF e, a, u
  <1>6. Joined(k, e, a)
    BY <1>1, <1>4 DEF Joined, Upd
  <1> QED BY <1>1, <1>2, <1>3, <1>5, <1>6, MemberAdded

\* A role changes: not the last administrator's, and the sessions of the old role end, or
\* the request fails and nobody was told.
LEMMA ChangeRoleStep ==
  ASSUME AccessInv, NEW r, NEW u, NEW role \in AssignedRoles,
         ChangeRole(r, u, role) \/ ChangeRoleCut(r, u, role)
  PROVE  AccessInv'
  <1> DEFINE k == <<r.org, u>>
             c == members[k]
  <1>1. /\ RoleChangeable(r, u, role) /\ users' = users /\ invites' = invites /\ held' = held /\ views' = views
    BY DEF ChangeRole, ChangeRoleCut, duties
  <1>2. k \in DOMAIN members /\ c \in MemberRecord /\ c.live
    BY <1>1 DEF RoleChangeable, LiveMembership, AccessInv, IdentityType
  <1>3. role \in Roles
    BY DEF Roles
  <1>4. \E n \in {c.epoch, c.epoch + 1} :
          /\ members' = [members EXCEPT ![k] = [[c EXCEPT !.role = role] EXCEPT !.epoch = n]]
          /\ sessions' \subseteq sessions
          /\ n # c.epoch => \A s \in sessions' : <<s.org, s.user>> # k
    <2>1. CASE ChangeRole(r, u, role)
      <3>1. members' = [members EXCEPT ![k] = [[c EXCEPT !.role = role] EXCEPT
                              !.epoch = IF u = r.user THEN c.epoch ELSE c.epoch + 1]]
        BY <1>2, <2>1 DEF ChangeRole, MemberRecord
      <3>2. CASE u = r.user
        <4>1. sessions' = sessions
          BY <2>1, <3>2 DEF ChangeRole
        <4> QED BY <3>1, <3>2, <4>1
      <3>3. CASE u # r.user
        <4>1. sessions' = Invalidated(r.org, u)
          BY <2>1, <3>3 DEF ChangeRole
        <4>2. sessions' \subseteq sessions /\ \A s \in sessions' : <<s.org, s.user>> # k
          BY <4>1 DEF Invalidated
        <4> QED BY <3>1, <3>3, <4>2
      <3> QED BY <3>2, <3>3
    <2>2. CASE ChangeRoleCut(r, u, role)
      <3>1. members' = [members EXCEPT ![k] = [[c EXCEPT !.role = role] EXCEPT !.epoch = c.epoch]]
        BY <1>2, <2>2 DEF ChangeRoleCut, MemberRecord
      <3>2. sessions' = sessions
        BY <2>2 DEF ChangeRoleCut
      <3> QED BY <3>1, <3>2
    <2> QED BY <2>1, <2>2
  <1>5. PICK n \in {c.epoch, c.epoch + 1} :
          /\ members' = [members EXCEPT ![k] = [[c EXCEPT !.role = role] EXCEPT !.epoch = n]]
          /\ sessions' \subseteq sessions
          /\ n # c.epoch => \A s \in sessions' : <<s.org, s.user>> # k
    BY <1>4
  <1> DEFINE d == [[c EXCEPT !.role = role] EXCEPT !.epoch = n]
  <1>6. n \in Nat
    BY <1>2 DEF MemberRecord
  <1>7. d \in MemberRecord /\ (d.live <=> c.live) /\ d.role = role /\ d.epoch = n
    <2> HIDE DEF c
    <2> QED BY <1>2, <1>3, <1>6 DEF MemberRecord
  <1> HIDE DEF d
  <1>8. members' = [members EXCEPT ![k] = d]
    BY <1>5 DEF d
  <1>9. Rewritten(k, d)
    BY <1>2, <1>7, <1>8 DEF Rewritten
  <1>10. k = <<LocalAdmin, Bootstrap>> => d.role = "administrator"
    BY <1>1, <1>7 DEF RoleChangeable
  <1>11. ASSUME Steers(k), d.role # "administrator"
         PROVE  \E m \in DOMAIN members : m # k /\ m[1] = k[1] /\ Steers(m)
    <2>1. u \in DOMAIN users
      BY <1>2 DEF AccessInv, IdentityType
    <2>2. u \in Administrators(r.org)
      BY <1>2, <1>11, <2>1 DEF Administrators, LiveMembership, Steers
    <2>3. Cardinality(Administrators(r.org)) > 1
      BY <1>1, <1>7, <1>11, <2>2 DEF RoleChangeable
    <2>4. PICK v \in DOMAIN users : v # u /\ <<r.org, v>> \in DOMAIN members /\ Steers(<<r.org, v>>)
      BY <2>3, AnotherSteers DEF AccessInv
    <2>5. <<r.org, v>> # k /\ <<r.org, v>>[1] = k[1]
      BY <2>4
    <2> QED BY <2>4, <2>5
  <1>12. \A s \in sessions' : <<s.org, s.user>> = k => d.epoch = members[k].epoch
    BY <1>5, <1>7
  <1> HIDE DEF k
  <1> QED BY <1>1, <1>5, <1>9, <1>10, <1>11, <1>12, MemberRewritten

\* A federated identity is revoked: its member's sessions end.
LEMMA RevokeFederatedStep ==
  ASSUME AccessInv, NEW r, NEW sub, RevokeFederated(r, sub) PROVE AccessInv'
  <1> DEFINE u == bindings[sub].user
             k == <<OidcOrg, u>>
             c == members[k]
             d == [c EXCEPT !.epoch = c.epoch + 1]
  <1>1. /\ users' = users /\ invites' = invites /\ held' = held /\ views' = views
        /\ sessions' = Invalidated(OidcOrg, u) /\ members' = [members EXCEPT ![k] = d]
    BY DEF RevokeFederated, duties
  <1>2. sessions' \subseteq sessions /\ \A s \in sessions' : <<s.org, s.user>> # k
    BY <1>1 DEF Invalidated
  <1>3. CASE k \notin DOMAIN members
    <2>1. Kept(members, members')
      BY <1>1, <1>3 DEF Kept
    <2>2. Adds
      BY <1>1, <1>2 DEF Adds, AccessInv, DutiesHeld
    <2> QED BY <1>1, <2>1, <2>2, IdentityKept DEF Kept
  <1>4. CASE k \in DOMAIN members
    <2>1. c \in MemberRecord
      BY <1>4 DEF AccessInv, IdentityType
    <2>2. d \in MemberRecord /\ (d.live <=> c.live) /\ d.role = c.role
      <3> HIDE DEF c
      <3> QED BY <2>1 DEF MemberRecord
    <2> HIDE DEF d
    <2>3. Rewritten(k, d)
      BY <1>1, <1>4, <2>2 DEF Rewritten
    <2>4. k = <<LocalAdmin, Bootstrap>> => d.role = "administrator"
      BY <2>2 DEF AccessInv, BootstrapStays
    <2>5. Steers(k) => d.role = "administrator"
      BY <2>2 DEF Steers
    <2> HIDE DEF k
    <2> QED BY <1>1, <1>2, <2>3, <2>4, <2>5, MemberRewritten
  <1> QED BY <1>3, <1>4

\* A member is revoked: another administrator stays, the files no longer name the member,
\* and the account goes with its last membership.
LEMMA RevokeMemberStep ==
  ASSUME AccessInv, NEW r, NEW u, RevokeMember(r, u) PROVE AccessInv'
  <1> DEFINE k == <<r.org, u>>
             c == members[k]
             d == [[c EXCEPT !.live = FALSE] EXCEPT !.epoch = c.epoch + 1]
             done == Affected(Projects, r.org, u) \cup Affected(Assets, r.org, u)
             stays == \E o \in Orgs \ {r.org} : LiveMembership(o, u)
             b == [name |-> None, active |-> FALSE]
  <1>1. /\ RevokeRequested(r, u) /\ invites' = invites /\ views' = views \ {k}
        /\ u \in Administrators(r.org) => Cardinality(Administrators(r.org)) > 1
        /\ Unassign(done, u) /\ RevokeCommits(r.org, u)
    BY DEF RevokeMember
  <1>2. k \in DOMAIN members /\ c \in MemberRecord /\ u \in DOMAIN users /\ u # Bootstrap
    BY <1>1 DEF RevokeRequested, IsPrincipal, LiveMembership, AccessInv, IdentityType
  <1>3. members' = [members EXCEPT ![k] = d]
    BY <1>1, <1>2 DEF RevokeCommits, MemberRecord
  <1>4. d \in MemberRecord /\ ~d.live
    <2> HIDE DEF c
    <2> DEFINE no == FALSE
               e == [c EXCEPT !.live = no]
    <2>1. d = [e EXCEPT !.epoch = c.epoch + 1] /\ no \in BOOLEAN /\ ~no
      OBVIOUS
    <2> HIDE DEF no
    <2>2. e \in MemberRecord /\ e.live = no /\ c.epoch + 1 \in Nat
      BY <1>2, <2>1 DEF MemberRecord
    <2> HIDE DEF d, e
    <2> QED BY <2>1, <2>2 DEF MemberRecord
  <1> HIDE DEF d
  <1>5. /\ DOMAIN members' = DOMAIN members /\ members'[k] = d
        /\ \A m \in DOMAIN members \ {k} : members'[m] = members[m]
    BY <1>2, <1>3
  <1>6. users' = IF stays THEN users ELSE [users EXCEPT ![u] = b]
    BY <1>1 DEF RevokeCommits
  <1>7. b \in UserRecord
    BY DEF UserRecord, Named
  <1> HIDE DEF b
  <1>8. /\ DOMAIN users' = DOMAIN users /\ \A v \in DOMAIN users \ {u} : users'[v] = users[v]
        /\ users'[u] \in {users[u], b} /\ (stays => users' = users)
    BY <1>2, <1>6
  <1>9. Orgs' = Orgs /\ InviteRecord' = InviteRecord
    BY <1>5 DEF Orgs, InviteRecord
  <1>10. Numbered'
    BY <1>8, <1>9 DEF AccessInv, Numbered
  <1>11. IdentityType'
    <2>1. IdentityType
      BY DEF AccessInv
    <2>2. \A m \in DOMAIN members' : members'[m] \in MemberRecord
      BY <1>4, <1>5, <2>1 DEF IdentityType
    <2>3. \A v \in DOMAIN users' : users'[v] \in UserRecord
      BY <1>7, <1>8, <2>1 DEF IdentityType
    <2>4. invites' \subseteq InviteRecord' /\ DOMAIN members' \subseteq Nat \X DOMAIN users'
      BY <1>1, <1>5, <1>8, <1>9, <2>1 DEF IdentityType
    <2> QED BY <2>2, <2>3, <2>4 DEF IdentityType, UserRecord, MemberRecord, Named
  <1>12. BootstrapStays'
    BY <1>2, <1>5, <1>8 DEF AccessInv, BootstrapStays
  <1>13. LiveIsActive'
    <2> SUFFICES ASSUME NEW m \in DOMAIN members, members'[m].live PROVE users'[m[2]].active
      BY <1>5 DEF LiveIsActive
    <2>1. m # k /\ members[m].live
      BY <1>4, <1>5
    <2>2. m \in Nat \X DOMAIN users /\ m = <<m[1], m[2]>> /\ users[m[2]].active
      BY <2>1 DEF AccessInv, IdentityType, LiveIsActive
    <2>3. CASE m[2] # u
      BY <1>8, <2>2, <2>3
    <2>4. CASE m[2] = u
      <3>1. m[1] # r.org /\ m[1] \in Orgs /\ LiveMembership(m[1], u)
        BY <2>1, <2>2, <2>4, OrgsAre DEF LiveMembership
      <3>2. stays
        BY <3>1
      <3> QED BY <1>8, <2>2, <3>2
    <2> QED BY <2>3, <2>4
  <1>14. Steered'
    <2>1. \A m \in DOMAIN members \ {k} : Steers(m) => Steers(m)'
      BY <1>5 DEF Steers
    <2> SUFFICES ASSUME NEW o \in Orgs PROVE \E m \in DOMAIN members : m[1] = o /\ Steers(m)'
      BY <1>5, <1>9 DEF Steered
    <2>2. PICK m \in DOMAIN members : m[1] = o /\ Steers(m)
      BY DEF AccessInv, Steered
    <2>3. CASE m # k
      BY <2>1, <2>2, <2>3
    <2>4. CASE m = k
      <3>1. u \in Administrators(r.org) /\ o = r.org
        BY <1>2, <2>2, <2>4 DEF Administrators, LiveMembership, Steers
      <3>2. PICK v \in DOMAIN users : v # u /\ <<r.org, v>> \in DOMAIN members /\ Steers(<<r.org, v>>)
        BY <1>1, <3>1, AnotherSteers DEF AccessInv
      <3>3. <<r.org, v>> # k /\ <<r.org, v>>[1] = o
        BY <3>1, <3>2
      <3> QED BY <2>1, <3>2, <3>3
    <2> QED BY <2>3, <2>4
  <1>15. DutiesHeld'
    <2>1. \A m : m # k /\ Belongs(m) => Belongs(m)'
      BY <1>5 DEF Belongs
    <2>2. /\ DOMAIN held' = Resources
          /\ \A x \in Resources : held'[x] = IF x \in done THEN held[x] \ {u} ELSE held[x]
      BY <1>1 DEF Unassign
    <2>3. ASSUME NEW x \in Resources, NEW v \in held'[x] PROVE v \in held[x] /\ <<OrgOf[x], v>> # k
      <3>1. v \in held[x] /\ (x \in done => v # u)
        BY <2>2, <2>3
      <3>2. OrgOf[x] = r.org /\ u \in held[x] => x \in done
        BY DEF Affected, Resources
      <3> QED BY <3>1, <3>2
    <2>4. \A v \in views' : v \in views /\ v # k
      BY <1>1
    <2> HIDE DEF k
    <2> QED BY <2>1, <2>2, <2>3, <2>4 DEF AccessInv, DutiesHeld
  <1>16. \A s \in sessions' : OfEpoch(s)'
    <2>1. \A s \in sessions' : s \in sessions /\ <<s.org, s.user>> # k
      BY <1>1 DEF RevokeRequested, Invalidated
    <2> QED BY <1>5, <2>1 DEF AccessInv, OfEpoch
  <1> QED BY <1>10, <1>11, <1>12, <1>13, <1>14, <1>15, <1>16 DEF AccessInv

\* A revocation that is refused, or cut, only takes duties and sessions away.
LEMMA RevokeStopsStep ==
  ASSUME AccessInv, NEW r, NEW u, RevokeRefused(r, u) \/ RevokeCut(r, u) PROVE AccessInv'
  <1>1. users' = users /\ members' = members /\ invites' = invites /\ sessions' \subseteq sessions
    BY DEF RevokeRefused, RevokeCut, RevokeRequested, Invalidated, identity
  <1>2. ASSUME NEW done, Unassign(done, u)
        PROVE  DOMAIN held' = Resources /\ \A x \in Resources : held'[x] \subseteq held[x]
    BY <1>2 DEF Unassign
  <1>3. DOMAIN held' = Resources /\ \A x \in Resources : held'[x] \subseteq held[x]
    <2>1. held' = held \/ \E done : Unassign(done, u)
      BY DEF RevokeRefused, RevokeCut
    <2> QED BY <1>2, <2>1 DEF AccessInv, DutiesHeld
  <1>4. views' \subseteq views
    BY DEF RevokeRefused, RevokeCut
  <1>5. Adds
    BY <1>1, <1>3, <1>4 DEF Adds
  <1> QED BY <1>1, <1>5, IdentityKept DEF Kept

\* The routes that leave the memberships alone: what they add is of members.
LEMMA RouteKeepsStep ==
  ASSUME AccessInv, NEW r,
         \/ CreateView(r) \/ DeleteViews(r)
         \/ \E name \in Names, role \in AssignedRoles : CreateInvitation(r, name, role)
         \/ \E x \in Resources, new \in SUBSET DOMAIN users : SetResponsibles(r, x, new)
         \/ \E u, sub : ProvisionFederated(r, u, sub)
         \/ \E sub : RevokeFederatedCut(r, sub)
  PROVE  AccessInv'
  <1> USE DEF identity, oidc, duties
  <1>1. users' = users /\ members' = members /\ sessions' = sessions /\ IsPrincipal(r.org, r.user)
    BY DEF CreateView, DeleteViews, CreateInvitation, SetResponsibles, ProvisionFederated, RevokeFederatedCut,
           IsAdministrator, IsMaintainer, Current
  <1>2. /\ DOMAIN held = Resources /\ IdentityType
    BY DEF AccessInv, DutiesHeld
  <1>3. r.org \in Orgs /\ Belongs(<<r.org, r.user>>)
    BY <1>1, <1>2, PrincipalIs
  <1>4. ASSUME invites' = invites, held' = held, \A v \in views' : v \in views \/ v = <<r.org, r.user>>
        PROVE  Adds
    BY <1>1, <1>2, <1>3, <1>4 DEF Adds
  <1>5. ASSUME CreateView(r) \/ DeleteViews(r) PROVE Adds
    BY <1>4, <1>5 DEF CreateView, DeleteViews
  <1>6. ASSUME NEW name \in Names, NEW role \in AssignedRoles, CreateInvitation(r, name, role) PROVE Adds
    <2> DEFINE i == [org |-> r.org, name |-> name, role |-> role]
    <2>1. invites' \subseteq invites \cup {i} /\ held' = held /\ views' = views
      BY <1>6 DEF CreateInvitation
    <2>2. i \in InviteRecord
      BY <1>3 DEF InviteRecord
    <2> HIDE DEF i
    <2> QED BY <1>1, <1>2, <2>1, <2>2 DEF Adds
  <1>7. ASSUME NEW x \in Resources, NEW new, SetResponsibles(r, x, new) PROVE Adds
    <2>1. /\ held' = [held EXCEPT ![x] = new] /\ OrgOf[x] = r.org /\ \A u \in new : IsPrincipal(r.org, u)
          /\ invites' = invites /\ views' = views
      BY <1>7 DEF SetResponsibles
    <2>2. \A u \in new : Belongs(<<OrgOf[x], u>>)
      BY <1>2, <2>1, PrincipalIs
    <2> QED BY <1>1, <1>2, <2>1, <2>2 DEF Adds
  <1>8. ASSUME (\E u, sub : ProvisionFederated(r, u, sub)) \/ \E sub : RevokeFederatedCut(r, sub) PROVE Adds
    BY <1>4, <1>8 DEF ProvisionFederated, RevokeFederatedCut
  <1>9. Adds
    BY <1>5, <1>6, <1>7, <1>8
  <1> QED BY <1>1, <1>9, IdentityKept DEF Kept

\* Every step keeps the invariant.
LEMMA AccessStep ==
  ASSUME AccessInv, [AccessNext]_accessVars PROVE AccessInv'
  <1>1. ASSUME RouteRuns PROVE AccessInv'
    <2>1. PICK r \in requests :
            \/ CreateOrganization(r)
            \/ CreateView(r)
            \/ DeleteViews(r)
            \/ \E name \in Names, role \in AssignedRoles : CreateInvitation(r, name, role)
            \/ \E x \in Resources, new \in SUBSET DOMAIN users : SetResponsibles(r, x, new)
            \/ \E u \in DOMAIN users :
                  \/ RevokeMember(r, u)
                  \/ RevokeRefused(r, u)
                  \/ RevokeCut(r, u)
                  \/ \E role \in AssignedRoles : ChangeRole(r, u, role) \/ ChangeRoleCut(r, u, role)
                  \/ \E sub \in Subjects : ProvisionFederated(r, u, sub)
            \/ \E sub \in DOMAIN bindings : RevokeFederated(r, sub) \/ RevokeFederatedCut(r, sub)
      BY <1>1 DEF RouteRuns
    <2>2. ASSUME \/ CreateView(r) \/ DeleteViews(r)
                 \/ \E name \in Names, role \in AssignedRoles : CreateInvitation(r, name, role)
                 \/ \E x \in Resources, new \in SUBSET DOMAIN users : SetResponsibles(r, x, new)
                 \/ \E u, sub : ProvisionFederated(r, u, sub)
                 \/ \E sub : RevokeFederatedCut(r, sub)
          PROVE  AccessInv'
      BY <2>2, RouteKeepsStep
    <2>3. ASSUME NEW u, NEW role \in AssignedRoles, ChangeRole(r, u, role) \/ ChangeRoleCut(r, u, role)
          PROVE  AccessInv'
      BY <2>3, ChangeRoleStep
    <2>4. ASSUME NEW u, RevokeMember(r, u) PROVE AccessInv'
      BY <2>4, RevokeMemberStep
    <2>5. ASSUME NEW u, RevokeRefused(r, u) \/ RevokeCut(r, u) PROVE AccessInv'
      BY <2>5, RevokeStopsStep
    <2>6. ASSUME NEW sub, RevokeFederated(r, sub) PROVE AccessInv'
      BY <2>6, RevokeFederatedStep
    <2>7. ASSUME CreateOrganization(r) PROVE AccessInv'
      BY <2>7, CreateOrganizationStep
    <2> QED BY <2>1, <2>2, <2>3, <2>4, <2>5, <2>6, <2>7
  <1>2. ASSUME NEW i \in invites, AcceptInvitation(i) PROVE AccessInv'
    BY <1>2, AcceptInvitationStep
  <1>3. ASSUME NEW i \in invites, ExpireInvitation(i) PROVE AccessInv'
    <2>1. /\ users' = users /\ members' = members /\ invites' \subseteq invites /\ sessions' = sessions
          /\ held' = held /\ views' = views
      BY <1>3 DEF ExpireInvitation, identity, duties
    <2>2. Adds
      BY <2>1 DEF Adds, AccessInv, DutiesHeld
    <2> QED BY <2>1, <2>2, IdentityKept DEF Kept
  <1>4. ASSUME UNCHANGED accessVars PROVE AccessInv'
    <2>1. /\ users' = users /\ members' = members /\ invites' = invites /\ sessions' = sessions
          /\ held' = held /\ views' = views
      BY <1>4 DEF accessVars
    <2>2. Adds
      BY <2>1 DEF Adds, AccessInv, DutiesHeld
    <2> QED BY <2>1, <2>2, IdentityKept DEF Kept
  <1>5. ASSUME Restart PROVE AccessInv'
    BY <1>5, RestartStep
  <1> QED BY <1>1, <1>2, <1>3, <1>4, <1>5, SessionStep DEF AccessNext

\* An installation in use satisfies it.
LEMMA AccessStart ==
  ASSUME AccessInit PROVE AccessInv
  <1> DEFINE k == <<LocalAdmin, Bootstrap>>
             orgs == {LocalAdmin} \cup {m[1] : m \in DOMAIN Members}
  <1>1. /\ DOMAIN users = 0..Len(Accounts)
        /\ \A u \in DOMAIN users : users[u] = [name |-> IF u = Bootstrap THEN "admin" ELSE Accounts[u],
                                               active |-> TRUE]
        /\ DOMAIN members = {k} \cup DOMAIN Members
        /\ \A m \in DOMAIN members : members[m] = [role |-> IF m = k THEN "administrator" ELSE Members[m],
                                                   live |-> TRUE, epoch |-> 0]
        /\ invites = {} /\ sessions = {} /\ held = Responsibles /\ views = Owners
    BY DEF AccessInit
  <1>2. /\ Len(Accounts) \in Nat /\ Cardinality(orgs) \in Nat /\ orgs = 1..Cardinality(orgs)
        /\ DOMAIN Members \subseteq Nat \X (1..Len(Accounts))
        /\ \A m \in DOMAIN Members : Members[m] \in Roles
        /\ \A o \in orgs \ {LocalAdmin} : \E m \in DOMAIN Members :
               m[1] = o /\ Members[m] = "administrator"
        /\ DOMAIN Responsibles = Resources
        /\ \A x \in Resources : \A u \in Responsibles[x] : <<OrgOf[x], u>> \in DOMAIN Members
        /\ Owners \subseteq DOMAIN Members
    BY AccessAssumption
  <1>3. Orgs = orgs
    <2>1. DOMAIN members = {k} \cup DOMAIN Members /\ k[1] = LocalAdmin
      BY <1>1
    <2>2. \A m \in DOMAIN members : m[1] \in orgs
      BY <2>1
    <2>3. \A o \in orgs : \E m \in DOMAIN members : m[1] = o
      BY <2>1
    <2> HIDE DEF orgs
    <2> QED BY <2>2, <2>3 DEF Orgs
  <1>4. Numbered
    <2>1. 1 \in orgs
      BY DEF LocalAdmin
    <2>2. Cardinality(orgs) # 0
      BY <1>2, <2>1
    <2> HIDE DEF orgs
    <2> QED BY <1>1, <1>2, <1>3, <2>2 DEF Numbered
  <1>5. \A m \in DOMAIN members : members[m].live /\ members[m] \in MemberRecord
        /\ members[m].role = IF m = k THEN "administrator" ELSE Members[m]
    <2> SUFFICES ASSUME NEW m \in DOMAIN members
                 PROVE  /\ members[m].live /\ members[m] \in MemberRecord
                        /\ members[m].role = IF m = k THEN "administrator" ELSE Members[m]
      OBVIOUS
    <2> DEFINE x == IF m = k THEN "administrator" ELSE Members[m]
    <2>1. x \in Roles
      BY <1>1, <1>2 DEF Roles
    <2>2. members[m] = [role |-> x, live |-> TRUE, epoch |-> 0]
      BY <1>1
    <2> HIDE DEF x
    <2>3. members[m].live /\ members[m] \in MemberRecord /\ members[m].role = x
      BY <2>1, <2>2 DEF MemberRecord
    <2> QED BY <2>3 DEF x
  <1>6. \A u \in DOMAIN users : users[u].active /\ users[u] \in UserRecord
    <2> SUFFICES ASSUME NEW u \in DOMAIN users PROVE users[u].active /\ users[u] \in UserRecord
      OBVIOUS
    <2> DEFINE x == IF u = Bootstrap THEN "admin" ELSE Accounts[u]
    <2>1. u \in 0..Len(Accounts) /\ (u # Bootstrap => u \in 1..Len(Accounts))
      BY <1>1, <1>2 DEF Bootstrap
    <2>2. x \in Named
      BY <2>1 DEF Named
    <2>3. users[u] = [name |-> x, active |-> TRUE]
      BY <1>1
    <2> HIDE DEF x
    <2> QED BY <2>2, <2>3 DEF UserRecord
  <1>7. \A m \in DOMAIN Members : m # k /\ m \in Nat \X DOMAIN users
    BY <1>1, <1>2 DEF Bootstrap
  <1>8. k \in Nat \X DOMAIN users
    BY <1>1, <1>2 DEF Bootstrap, LocalAdmin
  <1>9. IdentityType
    BY <1>1, <1>5, <1>6, <1>7, <1>8 DEF IdentityType
  <1>10. BootstrapStays
    BY <1>1, <1>5, <1>6, <1>8 DEF BootstrapStays
  <1>11. LiveIsActive
    BY <1>6, <1>9 DEF LiveIsActive, IdentityType
  <1>12. Steered
    <2> SUFFICES ASSUME NEW o \in orgs PROVE \E m \in DOMAIN members : m[1] = o /\ Steers(m)
      BY <1>3 DEF Steered
    <2>1. CASE o = LocalAdmin
      <3>1. k \in DOMAIN members /\ k[1] = o /\ Steers(k)
        BY <1>1, <1>5, <2>1 DEF Steers
      <3> QED BY <3>1
    <2>2. CASE o # LocalAdmin
      <3>1. PICK m \in DOMAIN Members : m[1] = o /\ Members[m] = "administrator"
        BY <1>2, <2>2
      <3>2. m \in DOMAIN members /\ Steers(m)
        BY <1>1, <1>5, <1>7, <3>1 DEF Steers
      <3> QED BY <3>1, <3>2
    <2> QED BY <2>1, <2>2
  <1>13. DutiesHeld
    <2>1. \A m \in DOMAIN Members : Belongs(m)
      BY <1>1, <1>5 DEF Belongs
    <2> HIDE DEF k, orgs
    <2> QED BY <1>1, <1>2, <2>1 DEF DutiesHeld
  <1> QED BY <1>1, <1>4, <1>9, <1>10, <1>11, <1>12, <1>13 DEF AccessInv

\* The inductive invariant: the memberships behind accounts, sessions, responsibles and
\* saved views, whatever write of a route fails (revoke_team_member).
THEOREM AccessInvariant == AccessSpec => []AccessInv
  <1>1. AccessInit => AccessInv
    BY AccessStart
  <1>2. AccessInv /\ [AccessNext]_accessVars => AccessInv'
    BY AccessStep
  <1> QED BY <1>1, <1>2, PTL DEF AccessSpec

\* Every workspace keeps an administrator who can log in, whoever is responsible or owns a
\* view is a member, and no session opened before an acknowledged change passes after it
\* (change_member_role, revoke_member, revoke_federated_identity, auth_oidc_callback).
THEOREM AccessAlwaysHolds == AccessSpec => []AccessHolds
  <1>1. ASSUME AccessInv PROVE AccessHolds
    <2>1. \A o, u : Belongs(<<o, u>>) => IsPrincipal(o, u)
      <3> SUFFICES ASSUME NEW o, NEW u, Belongs(<<o, u>>) PROVE IsPrincipal(o, u)
        OBVIOUS
      <3>1. <<o, u>> \in DOMAIN members /\ members[<<o, u>>].live /\ <<o, u>>[2] = u
        BY DEF Belongs
      <3> QED BY <1>1, <3>1 DEF AccessInv, LiveIsActive, IsPrincipal, LiveMembership
    <2>2. \A m \in DOMAIN members : m = <<m[1], m[2]>> /\ m[2] \in DOMAIN users
      BY <1>1 DEF AccessInv, IdentityType
    <2>3. AdministratorRemains
      <3> SUFFICES ASSUME NEW o \in Orgs
                   PROVE  \E u \in DOMAIN users : IsPrincipal(o, u) /\ members[<<o, u>>].role = "administrator"
        BY DEF AdministratorRemains
      <3>1. PICK m \in DOMAIN members : m[1] = o /\ Steers(m)
        BY <1>1 DEF AccessInv, Steered
      <3>2. m = <<o, m[2]>> /\ m[2] \in DOMAIN users /\ Belongs(m)
        BY <2>2, <3>1 DEF Steers, Belongs
      <3>3. IsPrincipal(o, m[2]) /\ members[<<o, m[2]>>].role = "administrator"
        BY <2>1, <3>1, <3>2 DEF Steers
      <3> QED BY <3>2, <3>3
    <2>4. ResponsibleIsMember
      <3>1. \A v \in views : v = <<v[1], v[2]>> /\ Belongs(v)
        BY <1>1, <2>2 DEF AccessInv, DutiesHeld, Belongs
      <3>2. \A v \in views : IsPrincipal(v[1], v[2])
        BY <2>1, <3>1
      <3>3. \A x \in Resources : \A u \in held[x] : IsPrincipal(OrgOf[x], u)
        BY <1>1, <2>1 DEF AccessInv, DutiesHeld
      <3> QED BY <3>2, <3>3 DEF ResponsibleIsMember
    <2>5. OldAccessNeverReturns
      BY <1>1 DEF AccessInv, OfEpoch, OldAccessNeverReturns
    <2> QED BY <2>3, <2>4, <2>5 DEF AccessHolds
  <1> QED BY <1>1, AccessInvariant, PTL

-----------------------------------------------------------------------------
(***************************************************************************)
(* The writes of the data directory.  An operation runs its classes in     *)
(* order; a class takes up its items one at a time and plans the writes of *)
(* each; a step makes the next write.  The invariant says which suffix of  *)
(* which plan is left, and what the directory holds at that point.         *)
(***************************************************************************)
(* What is still to be written of the item a class has taken up, named by  *)
(* the write that comes next.                                              *)
AdvisoryNext(j) ==
    <<W("advisory", j), W("baseline", j), W("syncProj", j), W("job", j), W("syncJobs", j)>>
BaselineNext(j) == <<W("baseline", j), W("syncProj", j), W("job", j), W("syncJobs", j)>>
SyncProjNext(j) == <<W("syncProj", j), W("job", j), W("syncJobs", j)>>
JobNext(j) == <<W("job", j), W("syncJobs", j)>>
SyncJobsNext(j) == <<W("syncJobs", j)>>
JobRest(j) == {AdvisoryNext(j), BaselineNext(j), SyncProjNext(j), JobNext(j), SyncJobsNext(j)}

MarkJobsNext(f) ==
    <<W("markJobs", f), W("syncJobs", f), W("markProj", f), W("syncProj", f),
      W("payload", f), W("file", f), W("syncFiles", f)>>
MarksSyncNext(f) ==
    <<W("syncJobs", f), W("markProj", f), W("syncProj", f),
      W("payload", f), W("file", f), W("syncFiles", f)>>
MarkProjNext(f) ==
    <<W("markProj", f), W("syncProj", f), W("payload", f), W("file", f), W("syncFiles", f)>>
SnapsSyncNext(f) == <<W("syncProj", f), W("payload", f), W("file", f), W("syncFiles", f)>>
PayloadNext(f) == <<W("payload", f), W("file", f), W("syncFiles", f)>>
FileNext(f) == <<W("file", f), W("syncFiles", f)>>
SyncFilesNext(f) == <<W("syncFiles", f)>>
FileRest(f) ==
    {MarkJobsNext(f), MarksSyncNext(f), MarkProjNext(f), SnapsSyncNext(f),
     PayloadNext(f), FileNext(f), SyncFilesNext(f)}

PurgeNext(t) == <<W("state", t)>>
DelEventNext(e, n) == <<W("delEvent", e), W("delEntry", n)>>
DelEntryNext(n) == <<W("delEntry", n)>>

EntryWrite(t) == W("entry", [n |-> t.head + 1, entry |-> AppendedEntry(t, pending, "full")])
StateWrite(t) == W("state", AppendedState(t, pending, "full"))
EventNext(t) == <<W("event", pending), EntryWrite(t), StateWrite(t)>>
EntryNext(t) == <<EntryWrite(t), StateWrite(t)>>
StateNext(t) == <<StateWrite(t)>>

SwapOutNext(t) == <<W("swapOut", None), W("swapIn", t), W("dropBak", None)>>
SwapInNext(t) == <<W("swapIn", t), W("dropBak", None)>>
DropBakNext == <<W("dropBak", None)>>
RewriteNext(e) == <<W("rewrite", e)>>
ClassNext(c) == <<W(c, None)>>

TodoForm ==
    \/ todo = <<>>
    \/ current = "results" /\ \E j : todo \in JobRest(j)
    \/ current = "sources" /\ \E f : todo \in FileRest(f)
    \/ current = "audit" /\ \E t : todo = PurgeNext(t)
    \/ current = "audit" /\ \E e, n : todo = DelEventNext(e, n)
    \/ current = "audit" /\ \E n : todo = DelEntryNext(n)
    \/ current = "append" /\ \E t : todo \in {EventNext(t), EntryNext(t), StateNext(t)}
    \/ current = "rotate" /\ \E t : todo \in {SwapOutNext(t), SwapInNext(t), DropBakNext}
    \/ current = "anonymize" /\ \E e : todo = RewriteNext(e)
    \/ current \in {"tokens", "invites", "approvals", "weekly"} /\ todo = ClassNext(current)

(* Where each kind of operation stands: the class at work and the classes  *)
(* to come.                                                                *)
StartupStage ==
    \/ current = "startup" /\ classes = <<"audit", "results", "sources">>
    \/ current = "audit"   /\ classes = <<"results", "sources">>
    \/ current = "results" /\ classes = <<"sources">>
    \/ current = "sources" /\ classes = <<>>
RetentionStage ==
    \/ /\ current = "startup"
       /\ classes = <<"results", "sources", "tokens", "invites", "approvals", "weekly", "audit">>
    \/ current = "results"   /\ classes = <<"sources", "tokens", "invites", "approvals", "weekly", "audit">>
    \/ current = "sources"   /\ classes = <<"tokens", "invites", "approvals", "weekly", "audit">>
    \/ current = "tokens"    /\ classes = <<"invites", "approvals", "weekly", "audit">>
    \/ current = "invites"   /\ classes = <<"approvals", "weekly", "audit">>
    \/ current = "approvals" /\ classes = <<"weekly", "audit">>
    \/ current = "weekly"    /\ classes = <<"audit">>
    \/ current = "audit"     /\ classes = <<>>
RecordStage ==
    \/ current = "startup" /\ classes = <<"audit", "append">>
    \/ current = "audit"   /\ classes \in {<<"append">>, <<>>}
    \/ current = "append"  /\ classes = <<>>
AnonymizeStage ==
    \/ current = "anonymize" /\ classes \in {<<"rotate">>, <<>>}
    \/ current = "rotate"    /\ classes = <<>>

Control ==
    /\ phase \in {"stopped", "refused", "idle", "working"}
    /\ phase # "working" => todo = <<>> /\ items = {}
    /\ phase = "idle" => kind = "startup" /\ current = "startup" /\ classes = <<>>
    /\ phase = "working" =>
          \/ kind = "startup" /\ StartupStage
          \/ kind = "retention" /\ RetentionStage
          \/ kind = "record" /\ RecordStage
          \/ kind = "anonymize" /\ AnonymizeStage
    /\ items # {} => current \in {"results", "sources", "audit", "anonymize"}
    /\ TodoForm

\* The two fields of a planned write.
LEMMA WFields ==
  ASSUME NEW op, NEW id
  PROVE  W(op, id).op = op /\ W(op, id).id = id
  BY DEF W

\* One write further into the purge of a job.
LEMMA JobRestMoves ==
  ASSUME NEW j
  PROVE  /\ AdvisoryNext(j) # <<>> /\ Head(AdvisoryNext(j)) = W("advisory", j) /\ Tail(AdvisoryNext(j)) = BaselineNext(j)
         /\ BaselineNext(j) # <<>> /\ Head(BaselineNext(j)) = W("baseline", j) /\ Tail(BaselineNext(j)) = SyncProjNext(j)
         /\ SyncProjNext(j) # <<>> /\ Head(SyncProjNext(j)) = W("syncProj", j) /\ Tail(SyncProjNext(j)) = JobNext(j)
         /\ JobNext(j) # <<>> /\ Head(JobNext(j)) = W("job", j) /\ Tail(JobNext(j)) = SyncJobsNext(j)
         /\ SyncJobsNext(j) # <<>> /\ Head(SyncJobsNext(j)) = W("syncJobs", j) /\ Tail(SyncJobsNext(j)) = <<>>
  BY DEF AdvisoryNext, BaselineNext, SyncProjNext, JobNext, SyncJobsNext

\* One write further into the purge of a source.
LEMMA FileRestMoves ==
  ASSUME NEW f
  PROVE  /\ MarkJobsNext(f) # <<>> /\ Head(MarkJobsNext(f)) = W("markJobs", f) /\ Tail(MarkJobsNext(f)) = MarksSyncNext(f)
         /\ MarksSyncNext(f) # <<>> /\ Head(MarksSyncNext(f)) = W("syncJobs", f) /\ Tail(MarksSyncNext(f)) = MarkProjNext(f)
         /\ MarkProjNext(f) # <<>> /\ Head(MarkProjNext(f)) = W("markProj", f) /\ Tail(MarkProjNext(f)) = SnapsSyncNext(f)
         /\ SnapsSyncNext(f) # <<>> /\ Head(SnapsSyncNext(f)) = W("syncProj", f) /\ Tail(SnapsSyncNext(f)) = PayloadNext(f)
         /\ PayloadNext(f) # <<>> /\ Head(PayloadNext(f)) = W("payload", f) /\ Tail(PayloadNext(f)) = FileNext(f)
         /\ FileNext(f) # <<>> /\ Head(FileNext(f)) = W("file", f) /\ Tail(FileNext(f)) = SyncFilesNext(f)
         /\ SyncFilesNext(f) # <<>> /\ Head(SyncFilesNext(f)) = W("syncFiles", f) /\ Tail(SyncFilesNext(f)) = <<>>
  BY DEF MarkJobsNext, MarksSyncNext, MarkProjNext, SnapsSyncNext, PayloadNext, FileNext, SyncFilesNext

\* One write further into a purge of the ledger or an append to it.
LEMMA LedgerRestMoves ==
  ASSUME NEW t, NEW e, NEW n
  PROVE  /\ PurgeNext(t) # <<>> /\ Head(PurgeNext(t)) = W("state", t) /\ Tail(PurgeNext(t)) = <<>>
         /\ DelEventNext(e, n) # <<>> /\ Head(DelEventNext(e, n)) = W("delEvent", e) /\ Tail(DelEventNext(e, n)) = DelEntryNext(n)
         /\ DelEntryNext(n) # <<>> /\ Head(DelEntryNext(n)) = W("delEntry", n) /\ Tail(DelEntryNext(n)) = <<>>
         /\ EventNext(t) # <<>> /\ Head(EventNext(t)) = W("event", pending) /\ Tail(EventNext(t)) = EntryNext(t)
         /\ EntryNext(t) # <<>> /\ Head(EntryNext(t)) = EntryWrite(t) /\ Tail(EntryNext(t)) = StateNext(t)
         /\ StateNext(t) # <<>> /\ Head(StateNext(t)) = StateWrite(t) /\ Tail(StateNext(t)) = <<>>
  BY DEF PurgeNext, DelEventNext, DelEntryNext, EventNext, EntryNext, StateNext

\* One write further into a rotation, an anonymization or a class of one write.
LEMMA OtherRestMoves ==
  ASSUME NEW t
  PROVE  /\ SwapOutNext(t) # <<>> /\ Head(SwapOutNext(t)) = W("swapOut", None) /\ Tail(SwapOutNext(t)) = SwapInNext(t)
         /\ SwapInNext(t) # <<>> /\ Head(SwapInNext(t)) = W("swapIn", t) /\ Tail(SwapInNext(t)) = DropBakNext
         /\ DropBakNext # <<>> /\ Head(DropBakNext) = W("dropBak", None) /\ Tail(DropBakNext) = <<>>
         /\ RewriteNext(t) # <<>> /\ Head(RewriteNext(t)) = W("rewrite", t) /\ Tail(RewriteNext(t)) = <<>>
         /\ ClassNext(t) # <<>> /\ Head(ClassNext(t)) = W(t, None) /\ Tail(ClassNext(t)) = <<>>
  BY DEF SwapOutNext, SwapInNext, DropBakNext, RewriteNext, ClassNext

(* Directory t differs from s in the given collections only. *)
Only(s, t, F) == DOMAIN t = DOMAIN s /\ \A g \in DOMAIN s \ F : t[g] = s[g]

\* Deleting a job's advisory snapshot changes the advisories only.
LEMMA WrittenAdvisory ==
  ASSUME NEW s, StoreFields \subseteq DOMAIN s, NEW x
  PROVE  LET t == Written(s, W("advisory", x)) IN
         Only(s, t, {"advisories"}) /\ t.advisories = s.advisories \ {x}
  BY WFields DEF Written, Only, StoreFields

\* Clearing a baseline changes the projects that had it.
LEMMA WrittenBaseline ==
  ASSUME NEW s, StoreFields \subseteq DOMAIN s, NEW x
  PROVE  LET t == Written(s, W("baseline", x)) IN
         /\ Only(s, t, {"projects", "projectIdx"})
         /\ t.projects = [p \in DOMAIN s.projects |->
                            IF s.projects[p].baseline = x THEN [s.projects[p] EXCEPT !.baseline = None]
                            ELSE s.projects[p]]
         /\ t.projectIdx = IF \E p \in DOMAIN s.projects : s.projects[p].baseline = x
                           THEN Touched(s.projectIdx) ELSE s.projectIdx
  <1>1. Written(s, W("baseline", x)) = ClearBaseline(s, x)
    BY WFields DEF Written
  <1> QED BY <1>1 DEF ClearBaseline, Only, StoreFields

\* Deleting a job's record changes the jobs and their index.
LEMMA WrittenJob ==
  ASSUME NEW s, StoreFields \subseteq DOMAIN s, NEW x
  PROVE  LET t == Written(s, W("job", x)) IN
         Only(s, t, {"jobs", "jobIdx"}) /\ t.jobs = Without(s.jobs, x) /\ t.jobIdx = Touched(s.jobIdx)
  <1>1. Written(s, W("job", x)) = RemoveJob(s, x)
    BY WFields DEF Written
  <1> QED BY <1>1 DEF RemoveJob, Only, StoreFields

\* Marking a source's jobs changes those jobs.
LEMMA WrittenMarkJobs ==
  ASSUME NEW s, StoreFields \subseteq DOMAIN s, NEW x
  PROVE  LET t == Written(s, W("markJobs", x)) IN
         /\ Only(s, t, {"jobs", "jobIdx"})
         /\ t.jobs = [j \in DOMAIN s.jobs |->
                        IF j \in Unmarked(s, x) THEN [s.jobs[j] EXCEPT !.gone = TRUE] ELSE s.jobs[j]]
         /\ t.jobIdx = IF Unmarked(s, x) = {} THEN s.jobIdx ELSE Touched(s.jobIdx)
  <1>1. Written(s, W("markJobs", x)) = MarkJobs(s, x)
    BY WFields DEF Written
  <1> QED BY <1>1 DEF MarkJobs, Only, StoreFields

\* Marking a source's snapshots changes those snapshots.
LEMMA WrittenMarkProj ==
  ASSUME NEW s, StoreFields \subseteq DOMAIN s, NEW x
  PROVE  LET t == Written(s, W("markProj", x)) IN
         /\ Only(s, t, {"projects", "projectIdx"})
         /\ t.projects = [p \in DOMAIN s.projects |->
              [s.projects[p] EXCEPT !.snaps =
                 {IF n.file = x THEN [n EXCEPT !.gone = TRUE] ELSE n : n \in s.projects[p].snaps}]]
         /\ t.projectIdx = IF \E p \in DOMAIN s.projects : \E n \in s.projects[p].snaps :
                                 n.file = x /\ ~n.gone
                           THEN Touched(s.projectIdx) ELSE s.projectIdx
  <1>1. Written(s, W("markProj", x)) = MarkProjects(s, x)
    BY WFields DEF Written
  <1> QED BY <1>1 DEF MarkProjects, Only, StoreFields

\* Deleting a payload changes the payloads only.
LEMMA WrittenPayload ==
  ASSUME NEW s, StoreFields \subseteq DOMAIN s, NEW x
  PROVE  LET t == Written(s, W("payload", x)) IN
         Only(s, t, {"payloads"}) /\ t.payloads = Without(s.payloads, x)
  BY WFields DEF Written, Only, StoreFields

\* Deleting a file's record changes the files and their index.
LEMMA WrittenFile ==
  ASSUME NEW s, StoreFields \subseteq DOMAIN s, NEW x
  PROVE  LET t == Written(s, W("file", x)) IN
         Only(s, t, {"files", "fileIdx"}) /\ t.files = Without(s.files, x) /\ t.fileIdx = Touched(s.fileIdx)
  <1>1. Written(s, W("file", x)) = RemoveFile(s, x)
    BY WFields DEF Written
  <1> QED BY <1>1 DEF RemoveFile, Only, StoreFields

\* Synchronizing an index changes that index only.
LEMMA WrittenSync ==
  ASSUME NEW s, StoreFields \subseteq DOMAIN s, NEW x
  PROVE  /\ LET t == Written(s, W("syncJobs", x)) IN
            Only(s, t, {"jobIdx"}) /\ t.jobIdx = Synced(s.jobIdx, s.jobs, "jobs" \in known)
         /\ LET t == Written(s, W("syncProj", x)) IN
            Only(s, t, {"projectIdx"}) /\ t.projectIdx = Synced(s.projectIdx, s.projects, "projects" \in known)
         /\ LET t == Written(s, W("syncFiles", x)) IN
            Only(s, t, {"fileIdx"}) /\ t.fileIdx = Synced(s.fileIdx, s.files, "files" \in known)
  <1>1. Written(s, W("syncJobs", x)) = [s EXCEPT !.jobIdx = Synced(@, s.jobs, "jobs" \in known)]
    BY WFields DEF Written
  <1>2. Written(s, W("syncProj", x)) = [s EXCEPT !.projectIdx = Synced(@, s.projects, "projects" \in known)]
    BY WFields DEF Written
  <1>3. Written(s, W("syncFiles", x)) = [s EXCEPT !.fileIdx = Synced(@, s.files, "files" \in known)]
    BY WFields DEF Written
  <1> QED BY <1>1, <1>2, <1>3 DEF Only, StoreFields

\* The classes of one write drop what has expired.
LEMMA WrittenAuth ==
  ASSUME NEW s, StoreFields \subseteq DOMAIN s, NEW x, {"key", "receipts"} \subseteq DOMAIN s.weekly
  PROVE  /\ LET t == Written(s, W("tokens", x)) IN
            Only(s, t, {"auth"}) /\ t.auth = LiveOnly(s.auth, "tokens")
         /\ LET t == Written(s, W("invites", x)) IN
            Only(s, t, {"auth"}) /\ t.auth = LiveOnly(s.auth, "invitations")
         /\ LET t == Written(s, W("approvals", x)) IN
            Only(s, t, {"approvals"}) /\ t.approvals = {a \in s.approvals : a.live}
         /\ LET t == Written(s, W("weekly", x)) IN
            /\ Only(s, t, {"weekly"}) /\ {"key", "receipts"} \subseteq DOMAIN t.weekly
            /\ t.weekly.key = s.weekly.key /\ t.weekly.receipts = {r \in s.weekly.receipts : r.live}
  <1>1. Written(s, W("tokens", x)) = [s EXCEPT !.auth = LiveOnly(@, "tokens")]
    BY WFields DEF Written
  <1>2. Written(s, W("invites", x)) = [s EXCEPT !.auth = LiveOnly(@, "invitations")]
    BY WFields DEF Written
  <1>3. Written(s, W("approvals", x)) = [s EXCEPT !.approvals = {a \in @ : a.live}]
    BY WFields DEF Written
  <1>4. Written(s, W("weekly", x)) = [s EXCEPT !.weekly.receipts = {r \in @ : r.live}]
    BY WFields DEF Written
  <1> QED BY <1>1, <1>2, <1>3, <1>4 DEF Only, StoreFields

AuditFields == {"events", "dir", "bak"}

\* Writing, deleting and rewriting an event change the events only.
LEMMA WrittenEvents ==
  ASSUME NEW s, StoreFields \subseteq DOMAIN s, AuditFields \subseteq DOMAIN s.audit, NEW x
  PROVE  /\ LET t == Written(s, W("event", x)) IN
            /\ Only(s, t, {"audit"}) /\ Only(s.audit, t.audit, {"events"})
            /\ t.audit.events = With(s.audit.events, x, "full")
         /\ LET t == Written(s, W("delEvent", x)) IN
            /\ Only(s, t, {"audit"}) /\ Only(s.audit, t.audit, {"events"})
            /\ t.audit.events = Without(s.audit.events, x)
         /\ LET t == Written(s, W("rewrite", x)) IN
            /\ Only(s, t, {"audit"}) /\ Only(s.audit, t.audit, {"events"})
            /\ t.audit.events = [s.audit.events EXCEPT ![x] = "anonymous"]
  <1>1. Written(s, W("event", x)) = [s EXCEPT !.audit.events = With(@, x, "full")]
    BY WFields DEF Written
  <1>2. Written(s, W("delEvent", x)) = [s EXCEPT !.audit.events = Without(@, x)]
    BY WFields DEF Written
  <1>3. Written(s, W("rewrite", x)) = [s EXCEPT !.audit.events[x] = "anonymous"]
    BY WFields DEF Written
  <1> QED BY <1>1, <1>2, <1>3 DEF Only, StoreFields, AuditFields

\* Writing an entry or the state changes the ledger's directory only.
LEMMA WrittenLedger ==
  ASSUME NEW s, StoreFields \subseteq DOMAIN s, AuditFields \subseteq DOMAIN s.audit, NEW x
  PROVE  /\ LET t == Written(s, W("entry", x)) IN
            /\ Only(s, t, {"audit"}) /\ Only(s.audit, t.audit, {"dir"})
            /\ t.audit.dir = [s.audit.dir EXCEPT !.entries = With(@, x.n, x.entry)]
         /\ LET t == Written(s, W("delEntry", x)) IN
            /\ Only(s, t, {"audit"}) /\ Only(s.audit, t.audit, {"dir"})
            /\ t.audit.dir = [s.audit.dir EXCEPT !.entries = Without(@, x)]
         /\ LET t == Written(s, W("state", x)) IN
            /\ Only(s, t, {"audit"}) /\ Only(s.audit, t.audit, {"dir"})
            /\ t.audit.dir = [s.audit.dir EXCEPT !.state = x]
  <1>0. ASSUME NEW w, w.op = "entry"
        PROVE  Written(s, w) = [s EXCEPT !.audit.dir.entries = With(@, w.id.n, w.id.entry)]
    BY <1>0 DEF Written
  <1>1. Written(s, W("entry", x)) = [s EXCEPT !.audit.dir.entries = With(@, x.n, x.entry)]
    BY <1>0, WFields
  <1>4. ASSUME NEW w, w.op = "delEntry"
        PROVE  Written(s, w) = [s EXCEPT !.audit.dir.entries = Without(@, w.id)]
    BY <1>4 DEF Written
  <1>2. Written(s, W("delEntry", x)) = [s EXCEPT !.audit.dir.entries = Without(@, x)]
    BY <1>4, WFields
  <1>5. ASSUME NEW w, w.op = "state"
        PROVE  Written(s, w) = [s EXCEPT !.audit.dir.state = w.id]
    BY <1>5 DEF Written
  <1>3. Written(s, W("state", x)) = [s EXCEPT !.audit.dir.state = x]
    BY <1>5, WFields
  <1> QED BY <1>1, <1>2, <1>3 DEF Only, StoreFields, AuditFields

\* The three renames of a rotation.
LEMMA WrittenSwap ==
  ASSUME NEW s, StoreFields \subseteq DOMAIN s, AuditFields \subseteq DOMAIN s.audit, NEW x
  PROVE  /\ LET t == Written(s, W("swapOut", x)) IN
            /\ Only(s, t, {"audit"}) /\ Only(s.audit, t.audit, {"dir", "bak"})
            /\ t.audit.dir = None /\ t.audit.bak = s.audit.dir
         /\ LET t == Written(s, W("swapIn", x)) IN
            /\ Only(s, t, {"audit"}) /\ Only(s.audit, t.audit, {"dir"})
            /\ t.audit.dir = RotatedTree(s.audit, x)
         /\ LET t == Written(s, W("dropBak", x)) IN
            /\ Only(s, t, {"audit"}) /\ Only(s.audit, t.audit, {"bak"})
            /\ t.audit.bak = None
  <1>1. Written(s, W("swapOut", x)) = [s EXCEPT !.audit = SwappedOut(@)]
    BY WFields DEF Written
  <1>2. Written(s, W("swapIn", x)) = [s EXCEPT !.audit.dir = RotatedTree(s.audit, x)]
    BY WFields DEF Written
  <1>3. Written(s, W("dropBak", x)) = [s EXCEPT !.audit.bak = None]
    BY WFields DEF Written
  <1>4. /\ Only(s.audit, SwappedOut(s.audit), {"dir", "bak"})
        /\ SwappedOut(s.audit).dir = None /\ SwappedOut(s.audit).bak = s.audit.dir
    BY DEF SwappedOut, Only, AuditFields
  <1>5. LET t == [s EXCEPT !.audit = SwappedOut(@)] IN Only(s, t, {"audit"}) /\ t.audit = SwappedOut(s.audit)
    BY DEF Only, StoreFields
  <1> QED BY <1>1, <1>2, <1>3, <1>4, <1>5 DEF Only, StoreFields, AuditFields

\* The index operations keep the fields of an index.
LEMMA IndexShape ==
  ASSUME NEW idx, IndexFields \subseteq DOMAIN idx, NEW recs, NEW b
  PROVE  /\ IndexFields \subseteq DOMAIN Touched(idx)
         /\ IndexFields \subseteq DOMAIN Synced(idx, recs, b)
         /\ IndexFields \subseteq DOMAIN EnsureCurrent(idx, recs)
  BY DEF Touched, Synced, EnsureCurrent, IndexFields

\* A write to the indexes and the audit log keeps the shape of the directory.
LEMMA IndexOnlyShape ==
  ASSUME NEW s, StoreShape(s), NEW t, Only(s, t, {"jobIdx", "projectIdx", "fileIdx", "audit"}),
         IndexFields \subseteq DOMAIN t.jobIdx, IndexFields \subseteq DOMAIN t.projectIdx,
         IndexFields \subseteq DOMAIN t.fileIdx, AuditFields \subseteq DOMAIN t.audit
  PROVE  StoreShape(t)
  <1>1. t.jobs = s.jobs /\ t.projects = s.projects /\ t.weekly = s.weekly /\ t.auth = s.auth
    BY DEF StoreShape, StoreFields, Only
  <1> QED BY <1>1 DEF StoreShape, Only, AuditFields

\* A write to the audit log keeps the shape of the directory.
LEMMA AuditOnlyShape ==
  ASSUME NEW s, StoreShape(s), NEW t, Only(s, t, {"audit"}), AuditFields \subseteq DOMAIN t.audit
  PROVE  StoreShape(t)
  <1>1. t.jobIdx = s.jobIdx /\ t.projectIdx = s.projectIdx /\ t.fileIdx = s.fileIdx
    BY DEF StoreShape, StoreFields, Only
  <1>2. Only(s, t, {"jobIdx", "projectIdx", "fileIdx", "audit"})
    BY DEF Only
  <1> QED BY <1>1, <1>2, IndexOnlyShape DEF StoreShape

\* The writes of a job's purge keep the shape of the directory.
LEMMA ShapeResults ==
  ASSUME NEW s, StoreShape(s), NEW x
  PROVE  /\ StoreShape(Written(s, W("advisory", x)))
         /\ StoreShape(Written(s, W("baseline", x)))
         /\ StoreShape(Written(s, W("job", x)))
  <1> USE DEF AuditFields
  <1>0. StoreFields \subseteq DOMAIN s
    BY DEF StoreShape
  <1>1. StoreShape(Written(s, W("advisory", x)))
    <2> DEFINE t == Written(s, W("advisory", x))
    <2>1. Only(s, t, {"advisories"})
      BY <1>0, WrittenAdvisory
    <2> HIDE DEF t
    <2>2. /\ t.jobs = s.jobs /\ t.projects = s.projects /\ t.weekly = s.weekly /\ t.auth = s.auth
          /\ t.jobIdx = s.jobIdx /\ t.projectIdx = s.projectIdx /\ t.fileIdx = s.fileIdx /\ t.audit = s.audit
      BY <1>0, <2>1 DEF StoreFields, Only
    <2>3. StoreShape(t) BY <2>1, <2>2 DEF StoreShape, Only
    <2> QED BY <2>3 DEF t
  <1>2. StoreShape(Written(s, W("baseline", x)))
    <2> DEFINE t == Written(s, W("baseline", x))
    <2>1. /\ Only(s, t, {"projects", "projectIdx"})
          /\ t.projects = [p \in DOMAIN s.projects |->
                            IF s.projects[p].baseline = x THEN [s.projects[p] EXCEPT !.baseline = None]
                            ELSE s.projects[p]]
          /\ t.projectIdx = IF \E p \in DOMAIN s.projects : s.projects[p].baseline = x
                           THEN Touched(s.projectIdx) ELSE s.projectIdx
      BY <1>0, WrittenBaseline
    <2> HIDE DEF t
    <2>2. /\ t.jobs = s.jobs /\ t.weekly = s.weekly /\ t.auth = s.auth
          /\ t.jobIdx = s.jobIdx /\ t.fileIdx = s.fileIdx /\ t.audit = s.audit
      BY <1>0, <2>1 DEF StoreFields, Only
    <2>3. IndexFields \subseteq DOMAIN t.projectIdx
      BY <2>1, IndexShape DEF StoreShape
    <2>4. \A p \in DOMAIN t.projects :
             /\ ProjectFields \subseteq DOMAIN t.projects[p]
             /\ \A n \in t.projects[p].snaps : SnapFields \subseteq DOMAIN n
      BY <2>1 DEF StoreShape, ProjectFields
    <2>5. StoreShape(t) BY <2>1, <2>2, <2>3, <2>4 DEF StoreShape, Only
    <2> QED BY <2>5 DEF t
  <1>3. StoreShape(Written(s, W("job", x)))
    <2> DEFINE t == Written(s, W("job", x))
    <2>1. Only(s, t, {"jobs", "jobIdx"}) /\ t.jobs = Without(s.jobs, x) /\ t.jobIdx = Touched(s.jobIdx)
      BY <1>0, WrittenJob
    <2> HIDE DEF t
    <2>2. /\ t.projects = s.projects /\ t.weekly = s.weekly /\ t.auth = s.auth
          /\ t.projectIdx = s.projectIdx /\ t.fileIdx = s.fileIdx /\ t.audit = s.audit
      BY <1>0, <2>1 DEF StoreFields, Only
    <2>3. IndexFields \subseteq DOMAIN t.jobIdx
      BY <2>1, IndexShape DEF StoreShape
    <2>4. \A j \in DOMAIN t.jobs : JobFields \subseteq DOMAIN t.jobs[j]
      BY <2>1 DEF StoreShape, Without, Drop
    <2>5. StoreShape(t) BY <2>1, <2>2, <2>3, <2>4 DEF StoreShape, Only
    <2> QED BY <2>5 DEF t
  <1> QED BY <1>1, <1>2, <1>3

\* The writes of a purged source keep the shape of the directory.
LEMMA ShapeSources ==
  ASSUME NEW s, StoreShape(s), NEW x
  PROVE  /\ StoreShape(Written(s, W("markJobs", x)))
         /\ StoreShape(Written(s, W("markProj", x)))
         /\ StoreShape(Written(s, W("payload", x)))
         /\ StoreShape(Written(s, W("file", x)))
  <1> USE DEF AuditFields
  <1>0. StoreFields \subseteq DOMAIN s
    BY DEF StoreShape
  <1>1. StoreShape(Written(s, W("markJobs", x)))
    <2> DEFINE t == Written(s, W("markJobs", x))
    <2>1. /\ Only(s, t, {"jobs", "jobIdx"})
          /\ t.jobs = [j \in DOMAIN s.jobs |->
                         IF j \in Unmarked(s, x) THEN [s.jobs[j] EXCEPT !.gone = TRUE] ELSE s.jobs[j]]
          /\ t.jobIdx = IF Unmarked(s, x) = {} THEN s.jobIdx ELSE Touched(s.jobIdx)
      BY <1>0, WrittenMarkJobs
    <2> HIDE DEF t
    <2>2. t.projects = s.projects /\ t.weekly = s.weekly /\ t.auth = s.auth /\ t.projectIdx = s.projectIdx /\ t.fileIdx = s.fileIdx /\ t.audit = s.audit
      BY <1>0, <2>1 DEF StoreFields, Only
    <2>3. IndexFields \subseteq DOMAIN t.jobIdx
      BY <2>1, IndexShape DEF StoreShape
    <2>4. \A j \in DOMAIN t.jobs : JobFields \subseteq DOMAIN t.jobs[j]
      BY <2>1 DEF StoreShape
    <2>5. StoreShape(t)
      BY <2>1, <2>2, <2>3, <2>4 DEF StoreShape, Only
    <2> QED BY <2>5 DEF t
  <1>2. StoreShape(Written(s, W("markProj", x)))
    <2> DEFINE t == Written(s, W("markProj", x))
    <2>1. /\ Only(s, t, {"projects", "projectIdx"})
          /\ t.projects = [p \in DOMAIN s.projects |->
               [s.projects[p] EXCEPT !.snaps =
                  {IF n.file = x THEN [n EXCEPT !.gone = TRUE] ELSE n : n \in s.projects[p].snaps}]]
          /\ t.projectIdx = IF \E p \in DOMAIN s.projects : \E n \in s.projects[p].snaps :
                                  n.file = x /\ ~n.gone
                            THEN Touched(s.projectIdx) ELSE s.projectIdx
      BY <1>0, WrittenMarkProj
    <2> HIDE DEF t
    <2>2. t.jobs = s.jobs /\ t.weekly = s.weekly /\ t.auth = s.auth /\ t.jobIdx = s.jobIdx /\ t.fileIdx = s.fileIdx /\ t.audit = s.audit
      BY <1>0, <2>1 DEF StoreFields, Only
    <2>3. IndexFields \subseteq DOMAIN t.projectIdx
      BY <2>1, IndexShape DEF StoreShape
    <2>4. \A p \in DOMAIN t.projects :
             /\ ProjectFields \subseteq DOMAIN t.projects[p]
             /\ \A n \in t.projects[p].snaps : SnapFields \subseteq DOMAIN n
      BY <2>1 DEF StoreShape, ProjectFields, SnapFields
    <2>5. StoreShape(t)
      BY <2>1, <2>2, <2>3, <2>4 DEF StoreShape, Only
    <2> QED BY <2>5 DEF t
  <1>3. StoreShape(Written(s, W("payload", x)))
    <2> DEFINE t == Written(s, W("payload", x))
    <2>1. Only(s, t, {"payloads"})
      BY <1>0, WrittenPayload
    <2> HIDE DEF t
    <2>2. t.jobs = s.jobs /\ t.projects = s.projects /\ t.weekly = s.weekly /\ t.auth = s.auth /\ t.jobIdx = s.jobIdx /\ t.projectIdx = s.projectIdx /\ t.fileIdx = s.fileIdx /\ t.audit = s.audit
      BY <1>0, <2>1 DEF StoreFields, Only
    <2>3. StoreShape(t)
      BY <2>1, <2>2 DEF StoreShape, Only
    <2> QED BY <2>3 DEF t
  <1>4. StoreShape(Written(s, W("file", x)))
    <2> DEFINE t == Written(s, W("file", x))
    <2>1. Only(s, t, {"files", "fileIdx"}) /\ t.fileIdx = Touched(s.fileIdx)
      BY <1>0, WrittenFile
    <2> HIDE DEF t
    <2>2. t.jobs = s.jobs /\ t.projects = s.projects /\ t.weekly = s.weekly /\ t.auth = s.auth /\ t.jobIdx = s.jobIdx /\ t.projectIdx = s.projectIdx /\ t.audit = s.audit
      BY <1>0, <2>1 DEF StoreFields, Only
    <2>3. IndexFields \subseteq DOMAIN t.fileIdx
      BY <2>1, IndexShape DEF StoreShape
    <2>4. StoreShape(t)
      BY <2>1, <2>2, <2>3 DEF StoreShape, Only
    <2> QED BY <2>4 DEF t
  <1> QED BY <1>1, <1>2, <1>3, <1>4

\* Bringing an index up to date keeps the shape of the directory.
LEMMA ShapeSync ==
  ASSUME NEW s, StoreShape(s), NEW x
  PROVE  /\ StoreShape(Written(s, W("syncJobs", x)))
         /\ StoreShape(Written(s, W("syncProj", x)))
         /\ StoreShape(Written(s, W("syncFiles", x)))
  <1> USE DEF AuditFields
  <1>0. StoreFields \subseteq DOMAIN s
    BY DEF StoreShape
  <1>1. StoreShape(Written(s, W("syncJobs", x)))
    <2> DEFINE t == Written(s, W("syncJobs", x))
    <2>1. Only(s, t, {"jobIdx"}) /\ t.jobIdx = Synced(s.jobIdx, s.jobs, "jobs" \in known)
      BY <1>0, WrittenSync
    <2> HIDE DEF t
    <2>2. t.jobs = s.jobs /\ t.projects = s.projects /\ t.weekly = s.weekly /\ t.auth = s.auth /\ t.projectIdx = s.projectIdx /\ t.fileIdx = s.fileIdx /\ t.audit = s.audit
      BY <1>0, <2>1 DEF StoreFields, Only
    <2>3. IndexFields \subseteq DOMAIN t.jobIdx
      BY <2>1, IndexShape DEF StoreShape
    <2>4. StoreShape(t)
      BY <2>1, <2>2, <2>3 DEF StoreShape, Only
    <2> QED BY <2>4 DEF t
  <1>2. StoreShape(Written(s, W("syncProj", x)))
    <2> DEFINE t == Written(s, W("syncProj", x))
    <2>1. Only(s, t, {"projectIdx"}) /\ t.projectIdx = Synced(s.projectIdx, s.projects, "projects" \in known)
      BY <1>0, WrittenSync
    <2> HIDE DEF t
    <2>2. t.jobs = s.jobs /\ t.projects = s.projects /\ t.weekly = s.weekly /\ t.auth = s.auth /\ t.jobIdx = s.jobIdx /\ t.fileIdx = s.fileIdx /\ t.audit = s.audit
      BY <1>0, <2>1 DEF StoreFields, Only
    <2>3. IndexFields \subseteq DOMAIN t.projectIdx
      BY <2>1, IndexShape DEF StoreShape
    <2>4. StoreShape(t)
      BY <2>1, <2>2, <2>3 DEF StoreShape, Only
    <2> QED BY <2>4 DEF t
  <1>3. StoreShape(Written(s, W("syncFiles", x)))
    <2> DEFINE t == Written(s, W("syncFiles", x))
    <2>1. Only(s, t, {"fileIdx"}) /\ t.fileIdx = Synced(s.fileIdx, s.files, "files" \in known)
      BY <1>0, WrittenSync
    <2> HIDE DEF t
    <2>2. t.jobs = s.jobs /\ t.projects = s.projects /\ t.weekly = s.weekly /\ t.auth = s.auth /\ t.jobIdx = s.jobIdx /\ t.projectIdx = s.projectIdx /\ t.audit = s.audit
      BY <1>0, <2>1 DEF StoreFields, Only
    <2>3. IndexFields \subseteq DOMAIN t.fileIdx
      BY <2>1, IndexShape DEF StoreShape
    <2>4. StoreShape(t)
      BY <2>1, <2>2, <2>3 DEF StoreShape, Only
    <2> QED BY <2>4 DEF t
  <1> QED BY <1>1, <1>2, <1>3

\* Purging tokens, invitations, approvals or receipts keeps the shape.
LEMMA ShapeIdentity ==
  ASSUME NEW s, StoreShape(s), NEW x
  PROVE  /\ StoreShape(Written(s, W("tokens", x)))
         /\ StoreShape(Written(s, W("invites", x)))
         /\ StoreShape(Written(s, W("approvals", x)))
         /\ StoreShape(Written(s, W("weekly", x)))
  <1> USE DEF AuditFields
  <1>0. StoreFields \subseteq DOMAIN s
    BY DEF StoreShape
  <1>w. {"key", "receipts"} \subseteq DOMAIN s.weekly
    BY DEF StoreShape
  <1>1. StoreShape(Written(s, W("tokens", x)))
    <2> DEFINE t == Written(s, W("tokens", x))
    <2>1. Only(s, t, {"auth"}) /\ t.auth = LiveOnly(s.auth, "tokens")
      BY <1>0, <1>w, WrittenAuth
    <2> HIDE DEF t
    <2>2. t.jobs = s.jobs /\ t.projects = s.projects /\ t.weekly = s.weekly /\ t.jobIdx = s.jobIdx /\ t.projectIdx = s.projectIdx /\ t.fileIdx = s.fileIdx /\ t.audit = s.audit
      BY <1>0, <2>1 DEF StoreFields, Only
    <2>3. t.auth # None => AuthFields \subseteq DOMAIN t.auth
      BY <2>1 DEF StoreShape, LiveOnly, AuthFields
    <2>4. StoreShape(t)
      BY <2>1, <2>2, <2>3 DEF StoreShape, Only
    <2> QED BY <2>4 DEF t
  <1>2. StoreShape(Written(s, W("invites", x)))
    <2> DEFINE t == Written(s, W("invites", x))
    <2>1. Only(s, t, {"auth"}) /\ t.auth = LiveOnly(s.auth, "invitations")
      BY <1>0, <1>w, WrittenAuth
    <2> HIDE DEF t
    <2>2. t.jobs = s.jobs /\ t.projects = s.projects /\ t.weekly = s.weekly /\ t.jobIdx = s.jobIdx /\ t.projectIdx = s.projectIdx /\ t.fileIdx = s.fileIdx /\ t.audit = s.audit
      BY <1>0, <2>1 DEF StoreFields, Only
    <2>3. t.auth # None => AuthFields \subseteq DOMAIN t.auth
      BY <2>1 DEF StoreShape, LiveOnly, AuthFields
    <2>4. StoreShape(t)
      BY <2>1, <2>2, <2>3 DEF StoreShape, Only
    <2> QED BY <2>4 DEF t
  <1>3. StoreShape(Written(s, W("approvals", x)))
    <2> DEFINE t == Written(s, W("approvals", x))
    <2>1. Only(s, t, {"approvals"})
      BY <1>0, <1>w, WrittenAuth
    <2> HIDE DEF t
    <2>2. t.jobs = s.jobs /\ t.projects = s.projects /\ t.weekly = s.weekly /\ t.auth = s.auth /\ t.jobIdx = s.jobIdx /\ t.projectIdx = s.projectIdx /\ t.fileIdx = s.fileIdx /\ t.audit = s.audit
      BY <1>0, <2>1 DEF StoreFields, Only
    <2>3. StoreShape(t)
      BY <2>1, <2>2 DEF StoreShape, Only
    <2> QED BY <2>3 DEF t
  <1>4. StoreShape(Written(s, W("weekly", x)))
    <2> DEFINE t == Written(s, W("weekly", x))
    <2>1. Only(s, t, {"weekly"}) /\ {"key", "receipts"} \subseteq DOMAIN t.weekly
      BY <1>0, <1>w, WrittenAuth
    <2> HIDE DEF t
    <2>2. t.jobs = s.jobs /\ t.projects = s.projects /\ t.auth = s.auth /\ t.jobIdx = s.jobIdx /\ t.projectIdx = s.projectIdx /\ t.fileIdx = s.fileIdx /\ t.audit = s.audit
      BY <1>0, <2>1 DEF StoreFields, Only
    <2>3. StoreShape(t)
      BY <2>1, <2>2 DEF StoreShape, Only
    <2> QED BY <2>3 DEF t
  <1> QED BY <1>1, <1>2, <1>3, <1>4

\* The writes of the ledger keep the shape of the directory.
LEMMA ShapeLedger ==
  ASSUME NEW s, StoreShape(s), NEW x
  PROVE  /\ StoreShape(Written(s, W("event", x)))
         /\ StoreShape(Written(s, W("delEvent", x)))
         /\ StoreShape(Written(s, W("rewrite", x)))
         /\ StoreShape(Written(s, W("entry", x)))
         /\ StoreShape(Written(s, W("delEntry", x)))
         /\ StoreShape(Written(s, W("state", x)))
         /\ StoreShape(Written(s, W("swapOut", x)))
         /\ StoreShape(Written(s, W("swapIn", x)))
         /\ StoreShape(Written(s, W("dropBak", x)))
  <1>1. StoreFields \subseteq DOMAIN s /\ AuditFields \subseteq DOMAIN s.audit
    BY DEF StoreShape, AuditFields
  <1>2. StoreShape(Written(s, W("event", x)))
    <2>1. LET t == Written(s, W("event", x)) IN Only(s, t, {"audit"}) /\ Only(s.audit, t.audit, {"events"})
      BY <1>1, WrittenEvents
    <2> QED BY <1>1, <2>1, AuditOnlyShape DEF Only
  <1>3. StoreShape(Written(s, W("delEvent", x)))
    <2>1. LET t == Written(s, W("delEvent", x)) IN Only(s, t, {"audit"}) /\ Only(s.audit, t.audit, {"events"})
      BY <1>1, WrittenEvents
    <2> QED BY <1>1, <2>1, AuditOnlyShape DEF Only
  <1>4. StoreShape(Written(s, W("rewrite", x)))
    <2>1. LET t == Written(s, W("rewrite", x)) IN Only(s, t, {"audit"}) /\ Only(s.audit, t.audit, {"events"})
      BY <1>1, WrittenEvents
    <2> QED BY <1>1, <2>1, AuditOnlyShape DEF Only
  <1>5. StoreShape(Written(s, W("entry", x)))
    <2>1. LET t == Written(s, W("entry", x)) IN Only(s, t, {"audit"}) /\ Only(s.audit, t.audit, {"dir"})
      BY <1>1, WrittenLedger
    <2> QED BY <1>1, <2>1, AuditOnlyShape DEF Only
  <1>6. StoreShape(Written(s, W("delEntry", x)))
    <2>1. LET t == Written(s, W("delEntry", x)) IN Only(s, t, {"audit"}) /\ Only(s.audit, t.audit, {"dir"})
      BY <1>1, WrittenLedger
    <2> QED BY <1>1, <2>1, AuditOnlyShape DEF Only
  <1>7. StoreShape(Written(s, W("state", x)))
    <2>1. LET t == Written(s, W("state", x)) IN Only(s, t, {"audit"}) /\ Only(s.audit, t.audit, {"dir"})
      BY <1>1, WrittenLedger
    <2> QED BY <1>1, <2>1, AuditOnlyShape DEF Only
  <1>8. StoreShape(Written(s, W("swapOut", x)))
    <2>1. LET t == Written(s, W("swapOut", x)) IN Only(s, t, {"audit"}) /\ Only(s.audit, t.audit, {"dir", "bak"})
      BY <1>1, WrittenSwap
    <2> QED BY <1>1, <2>1, AuditOnlyShape DEF Only
  <1>9. StoreShape(Written(s, W("swapIn", x)))
    <2>1. LET t == Written(s, W("swapIn", x)) IN Only(s, t, {"audit"}) /\ Only(s.audit, t.audit, {"dir"})
      BY <1>1, WrittenSwap
    <2> QED BY <1>1, <2>1, AuditOnlyShape DEF Only
  <1>10. StoreShape(Written(s, W("dropBak", x)))
    <2>1. LET t == Written(s, W("dropBak", x)) IN Only(s, t, {"audit"}) /\ Only(s.audit, t.audit, {"bak"})
      BY <1>1, WrittenSwap
    <2> QED BY <1>1, <2>1, AuditOnlyShape DEF Only
  <1> QED BY <1>2, <1>3, <1>4, <1>5, <1>6, <1>7, <1>8, <1>9, <1>10

\* What opening a class's stores leaves in the directory.
LEMMA PreparedIs ==
  ASSUME StoreShape(store), NEW c
  PROVE  LET t == Prepared(c) IN
         /\ Only(store, t, {"jobIdx", "projectIdx", "fileIdx", "audit"})
         /\ t.jobIdx = IF "jobs" \in Adopted(c) THEN EnsureCurrent(store.jobIdx, store.jobs) ELSE store.jobIdx
         /\ t.projectIdx = IF "projects" \in Adopted(c) THEN EnsureCurrent(store.projectIdx, store.projects)
                           ELSE store.projectIdx
         /\ t.fileIdx = IF "files" \in Adopted(c) THEN EnsureCurrent(store.fileIdx, store.files) ELSE store.fileIdx
         /\ t.audit = IF c \in {"audit", "append"} THEN Ensured(store.audit) ELSE store.audit
  BY DEF Prepared, Only, StoreShape, StoreFields

\* Opening the ledger changes its directory only.
LEMMA EnsuredShape ==
  ASSUME NEW a, AuditFields \subseteq DOMAIN a
  PROVE  Only(a, Ensured(a), {"dir"})
  BY DEF Ensured, Only, AuditFields

\* Opening a class's stores keeps the shape of the directory.
LEMMA PreparedShape ==
  ASSUME StoreShape(store), NEW c
  PROVE  StoreShape(Prepared(c))
  <1> DEFINE t == Prepared(c)
  <1>1. /\ Only(store, t, {"jobIdx", "projectIdx", "fileIdx", "audit"})
        /\ t.jobIdx \in {store.jobIdx, EnsureCurrent(store.jobIdx, store.jobs)}
        /\ t.projectIdx \in {store.projectIdx, EnsureCurrent(store.projectIdx, store.projects)}
        /\ t.fileIdx \in {store.fileIdx, EnsureCurrent(store.fileIdx, store.files)}
        /\ t.audit \in {store.audit, Ensured(store.audit)}
    BY PreparedIs
  <1> HIDE DEF t
  <1>2. AuditFields \subseteq DOMAIN t.audit
    BY <1>1, EnsuredShape DEF StoreShape, AuditFields, Only
  <1>3. /\ IndexFields \subseteq DOMAIN t.jobIdx /\ IndexFields \subseteq DOMAIN t.projectIdx
        /\ IndexFields \subseteq DOMAIN t.fileIdx
    BY <1>1, IndexShape DEF StoreShape
  <1>4. StoreShape(t) BY <1>1, <1>2, <1>3, IndexOnlyShape
  <1> QED BY <1>4 DEF t

\* What is planned when a class begins.
LEMMA PlanIs ==
  ASSUME NEW s, NEW c
  PROVE  /\ c \in {"results", "sources"} => Plan(c, s) = <<>>
         /\ c = "audit" => Plan(c, s) = <<>> \/ \E t : Plan(c, s) = PurgeNext(t)
         /\ c = "append" => Plan(c, s) = EventNext(s.audit.dir.state)
         /\ c = "rotate" => Plan(c, s) = SwapOutNext(s.audit.dir.state)
         /\ c \in {"tokens", "invites", "approvals", "weekly"} => Plan(c, s) = ClassNext(c)
         /\ c \notin {"results", "sources", "audit"} => TakenUp(c, s) = {}
         /\ c = "results" => TakenUp(c, s) = ExpiredJobs(s, Owner)
         /\ c = "sources" => TakenUp(c, s) = ExpiredFiles(s, Owner)
         /\ c = "audit" => TakenUp(c, s) = ExpiredPrefix(s.audit, cutoff)
  <1>1. c \in {"results", "sources"} => Plan(c, s) = <<>>
    BY DEF Plan
  <1>2. c = "audit" => Plan(c, s) = <<>> \/ \E t : Plan(c, s) = PurgeNext(t)
    BY DEF Plan, PurgeLedger, PurgeNext
  <1>3. c = "append" => Plan(c, s) = EventNext(s.audit.dir.state)
    BY DEF Plan, AppendEvent, EventNext, EntryWrite, StateWrite
  <1>4. c = "rotate" => Plan(c, s) = SwapOutNext(s.audit.dir.state)
    BY DEF Plan, Rotate, SwapOutNext
  <1>5. c \in {"tokens", "invites", "approvals", "weekly"} => Plan(c, s) = ClassNext(c)
    BY DEF Plan, ClassNext
  <1>6. /\ c \notin {"results", "sources", "audit"} => TakenUp(c, s) = {}
        /\ c = "results" => TakenUp(c, s) = ExpiredJobs(s, Owner)
        /\ c = "sources" => TakenUp(c, s) = ExpiredFiles(s, Owner)
        /\ c = "audit" => TakenUp(c, s) = ExpiredPrefix(s.audit, cutoff)
    BY DEF TakenUp
  <1> QED BY <1>1, <1>2, <1>3, <1>4, <1>5, <1>6

\* The writes of an item.
LEMMA WritesOfIs ==
  ASSUME NEW s, NEW c, NEW x
  PROVE  /\ c = "results" => WritesOf(c, s, x) = AdvisoryNext(x)
         /\ c = "sources" => WritesOf(c, s, x) = MarkJobsNext(x)
         /\ c = "audit" => WritesOf(c, s, x) = DelEventNext(s.audit.dir.entries[x].event, x)
         /\ c = "anonymize" => WritesOf(c, s, x) = RewriteNext(x)
  BY DEF WritesOf, PurgeJob, AdvisoryNext, PurgeFile, MarkJobsNext, PurgeEntry, DelEventNext, RewriteNext

ControlInv == StoreShape(store) /\ Control

\* The next write, whatever it is, keeps the shape of the directory.
LEMMA WriteShape ==
  ASSUME StoreShape(store), TodoForm, todo # <<>>
  PROVE  StoreShape(Written(store, Head(todo)))
  <1>1. CASE current = "results" /\ \E j : todo \in JobRest(j)
    BY <1>1, JobRestMoves, ShapeResults, ShapeSync DEF JobRest
  <1>2. CASE current = "sources" /\ \E f : todo \in FileRest(f)
    BY <1>2, FileRestMoves, ShapeSources, ShapeSync DEF FileRest
  <1>3. CASE current = "audit" /\ \E t : todo = PurgeNext(t)
    BY <1>3, LedgerRestMoves, ShapeLedger
  <1>4. CASE current = "audit" /\ \E e, n : todo = DelEventNext(e, n)
    BY <1>4, LedgerRestMoves, ShapeLedger
  <1>5. CASE current = "audit" /\ \E n : todo = DelEntryNext(n)
    <2>1. PICK n : todo = DelEntryNext(n)
      BY <1>5
    <2>2. Head(todo) = W("delEntry", n)
      BY <2>1, LedgerRestMoves
    <2> QED BY <2>2, ShapeLedger
  <1>6. CASE current = "append" /\ \E t : todo \in {EventNext(t), EntryNext(t), StateNext(t)}
    <2>1. PICK t : todo \in {EventNext(t), EntryNext(t), StateNext(t)}
      BY <1>6
    <2>2. Head(todo) \in {W("event", pending), EntryWrite(t), StateWrite(t)}
      BY <2>1, LedgerRestMoves
    <2>3. \E x : Head(todo) \in {W("event", x), W("entry", x), W("state", x)}
      BY <2>2 DEF EntryWrite, StateWrite
    <2> QED BY <2>3, ShapeLedger
  <1>7. CASE current = "rotate" /\ \E t : todo \in {SwapOutNext(t), SwapInNext(t), DropBakNext}
    BY <1>7, OtherRestMoves, ShapeLedger
  <1>8. CASE current = "anonymize" /\ \E e : todo = RewriteNext(e)
    BY <1>8, OtherRestMoves, ShapeLedger
  <1>9. CASE current \in {"tokens", "invites", "approvals", "weekly"} /\ todo = ClassNext(current)
    BY <1>9, OtherRestMoves, ShapeIdentity
  <1> QED BY <1>1, <1>2, <1>3, <1>4, <1>5, <1>6, <1>7, <1>8, <1>9 DEF TodoForm

\* What is left to write keeps its form.
LEMMA WriteForm ==
  ASSUME TodoForm, todo # <<>>, todo' = Tail(todo), UNCHANGED <<current, pending>>
  PROVE  TodoForm'
  <1>1. CASE current = "results" /\ \E j : todo \in JobRest(j)
    BY <1>1, JobRestMoves DEF JobRest, TodoForm
  <1>2. CASE current = "sources" /\ \E f : todo \in FileRest(f)
    BY <1>2, FileRestMoves DEF FileRest, TodoForm
  <1>3. CASE current = "audit" /\ \E t : todo = PurgeNext(t)
    BY <1>3, LedgerRestMoves DEF TodoForm
  <1>4. CASE current = "audit" /\ \E e, n : todo = DelEventNext(e, n)
    BY <1>4, LedgerRestMoves DEF TodoForm
  <1>5. CASE current = "audit" /\ \E n : todo = DelEntryNext(n)
    BY <1>5, LedgerRestMoves DEF TodoForm
  <1>6. CASE current = "append" /\ \E t : todo \in {EventNext(t), EntryNext(t), StateNext(t)}
    <2>1. PICK t : todo \in {EventNext(t), EntryNext(t), StateNext(t)}
      BY <1>6
    <2>2. todo' \in {EntryNext(t), StateNext(t), <<>>}
      BY <2>1, LedgerRestMoves
    <2>3. EntryNext(t)' = EntryNext(t) /\ StateNext(t)' = StateNext(t)
      BY DEF EntryNext, StateNext, EntryWrite, StateWrite
    <2> QED BY <1>6, <2>2 DEF TodoForm, EntryNext, StateNext, EntryWrite, StateWrite
  <1>7. CASE current = "rotate" /\ \E t : todo \in {SwapOutNext(t), SwapInNext(t), DropBakNext}
    BY <1>7, OtherRestMoves DEF TodoForm
  <1>8. CASE current = "anonymize" /\ \E e : todo = RewriteNext(e)
    BY <1>8, OtherRestMoves DEF TodoForm
  <1>9. CASE current \in {"tokens", "invites", "approvals", "weekly"} /\ todo = ClassNext(current)
    BY <1>9, OtherRestMoves DEF TodoForm
  <1> QED BY <1>1, <1>2, <1>3, <1>4, <1>5, <1>6, <1>7, <1>8, <1>9 DEF TodoForm

\* What a failed write leaves behind.
LEMMA UndoneIs ==
  ASSUME NEW s, StoreShape(s)
  PROVE  LET t == Undone(s) IN
         /\ current = "append" =>
               /\ Only(s, t, {"audit"}) /\ Only(s.audit, t.audit, {"events", "dir"})
               /\ t.audit.events = Without(s.audit.events, pending)
               /\ t.audit.dir = [s.audit.dir EXCEPT !.entries = Without(@, s.audit.dir.state.head + 1)]
         /\ current = "rotate" /\ s.audit.dir = None =>
               /\ Only(s, t, {"audit"}) /\ Only(s.audit, t.audit, {"dir", "bak"})
               /\ t.audit.dir = s.audit.bak /\ t.audit.bak = None
         /\ current # "append" /\ ~(current = "rotate" /\ s.audit.dir = None) => t = s
  <1>0. "audit" \in DOMAIN s /\ AuditFields \subseteq DOMAIN s.audit
    BY DEF StoreShape, StoreFields, AuditFields
  <1>1. LET u == Unappended(s.audit) IN
        /\ Only(s.audit, u, {"events", "dir"})
        /\ u.events = Without(s.audit.events, pending)
        /\ u.dir = [s.audit.dir EXCEPT !.entries = Without(@, s.audit.dir.state.head + 1)]
    BY <1>0 DEF Unappended, Only, AuditFields
  <1>2. LET u == SwappedBack(s.audit) IN
        /\ Only(s.audit, u, {"dir", "bak"}) /\ u.dir = s.audit.bak /\ u.bak = None
    BY <1>0 DEF SwappedBack, Only, AuditFields
  <1>3. ASSUME NEW u PROVE LET t == [s EXCEPT !.audit = u] IN Only(s, t, {"audit"}) /\ t.audit = u
    BY <1>0 DEF Only
  <1>4. current = "append" => Undone(s) = [s EXCEPT !.audit = Unappended(s.audit)]
    BY DEF Undone
  <1>5. current = "rotate" /\ s.audit.dir = None => Undone(s) = [s EXCEPT !.audit = SwappedBack(s.audit)]
    BY DEF Undone
  <1>6. current # "append" /\ ~(current = "rotate" /\ s.audit.dir = None) => Undone(s) = s
    BY DEF Undone
  <1> QED BY <1>1, <1>2, <1>3, <1>4, <1>5, <1>6

\* Undoing a failed write keeps the shape of the directory.
LEMMA UndoneShape ==
  ASSUME NEW s, StoreShape(s)
  PROVE  StoreShape(Undone(s))
  <1>1. AuditFields \subseteq DOMAIN s.audit
    BY DEF StoreShape, AuditFields
  <1>2. CASE current = "append"
    <2>1. LET t == Undone(s) IN Only(s, t, {"audit"}) /\ Only(s.audit, t.audit, {"events", "dir"})
      BY <1>2, UndoneIs
    <2> QED BY <1>1, <2>1, AuditOnlyShape DEF Only
  <1>3. CASE current = "rotate" /\ s.audit.dir = None
    <2>1. LET t == Undone(s) IN Only(s, t, {"audit"}) /\ Only(s.audit, t.audit, {"dir", "bak"})
      BY <1>3, UndoneIs
    <2> QED BY <1>1, <2>1, AuditOnlyShape DEF Only
  <1>4. CASE current # "append" /\ ~(current = "rotate" /\ s.audit.dir = None)
    BY <1>4, UndoneIs
  <1> QED BY <1>2, <1>3, <1>4

Stage ==
    \/ kind = "startup" /\ StartupStage
    \/ kind = "retention" /\ RetentionStage
    \/ kind = "record" /\ RecordStage
    \/ kind = "anonymize" /\ AnonymizeStage

\* The class that begins and the classes left make up the next stage.
LEMMA NextStage ==
  ASSUME Stage, classes # <<>>, UNCHANGED kind, current' = Head(classes),
         \/ classes' = Tail(classes)
         \/ kind = "record" /\ current' \in {"audit", "append"} /\ classes' = <<>>
  PROVE  /\ Stage'
         /\ current' \in {"audit", "results", "sources", "tokens", "invites", "approvals", "weekly",
                          "append", "rotate"}
  <1>1. CASE kind = "startup" /\ StartupStage
    <2>1. CASE current = "startup" /\ classes = <<"audit", "results", "sources">>
      <3>1. Head(classes) = "audit" /\ Tail(classes) = <<"results", "sources">>
        BY <2>1
      <3> QED BY <1>1, <2>1, <3>1 DEF StartupStage, Stage
    <2>2. CASE current = "audit" /\ classes = <<"results", "sources">>
      <3>1. Head(classes) = "results" /\ Tail(classes) = <<"sources">>
        BY <2>2
      <3> QED BY <1>1, <2>2, <3>1 DEF StartupStage, Stage
    <2>3. CASE current = "results" /\ classes = <<"sources">>
      <3>1. Head(classes) = "sources" /\ Tail(classes) = <<>>
        BY <2>3
      <3> QED BY <1>1, <2>3, <3>1 DEF StartupStage, Stage
    <2> QED BY <1>1, <2>1, <2>2, <2>3 DEF StartupStage
  <1>2. CASE kind = "retention" /\ RetentionStage
    <2>1. CASE current = "startup" /\ classes = <<"results", "sources", "tokens", "invites", "approvals", "weekly", "audit">>
      <3>1. Head(classes) = "results" /\ Tail(classes) = <<"sources", "tokens", "invites", "approvals", "weekly", "audit">>
        BY <2>1
      <3> QED BY <1>2, <2>1, <3>1 DEF RetentionStage, Stage
    <2>2. CASE current = "results" /\ classes = <<"sources", "tokens", "invites", "approvals", "weekly", "audit">>
      <3>1. Head(classes) = "sources" /\ Tail(classes) = <<"tokens", "invites", "approvals", "weekly", "audit">>
        BY <2>2
      <3> QED BY <1>2, <2>2, <3>1 DEF RetentionStage, Stage
    <2>3. CASE current = "sources" /\ classes = <<"tokens", "invites", "approvals", "weekly", "audit">>
      <3>1. Head(classes) = "tokens" /\ Tail(classes) = <<"invites", "approvals", "weekly", "audit">>
        BY <2>3
      <3> QED BY <1>2, <2>3, <3>1 DEF RetentionStage, Stage
    <2>4. CASE current = "tokens" /\ classes = <<"invites", "approvals", "weekly", "audit">>
      <3>1. Head(classes) = "invites" /\ Tail(classes) = <<"approvals", "weekly", "audit">>
        BY <2>4
      <3> QED BY <1>2, <2>4, <3>1 DEF RetentionStage, Stage
    <2>5. CASE current = "invites" /\ classes = <<"approvals", "weekly", "audit">>
      <3>1. Head(classes) = "approvals" /\ Tail(classes) = <<"weekly", "audit">>
        BY <2>5
      <3> QED BY <1>2, <2>5, <3>1 DEF RetentionStage, Stage
    <2>6. CASE current = "approvals" /\ classes = <<"weekly", "audit">>
      <3>1. Head(classes) = "weekly" /\ Tail(classes) = <<"audit">>
        BY <2>6
      <3> QED BY <1>2, <2>6, <3>1 DEF RetentionStage, Stage
    <2>7. CASE current = "weekly" /\ classes = <<"audit">>
      <3>1. Head(classes) = "audit" /\ Tail(classes) = <<>>
        BY <2>7
      <3> QED BY <1>2, <2>7, <3>1 DEF RetentionStage, Stage
    <2> QED BY <1>2, <2>1, <2>2, <2>3, <2>4, <2>5, <2>6, <2>7 DEF RetentionStage
  <1>3. CASE kind = "record" /\ RecordStage
    <2>1. CASE current = "startup" /\ classes = <<"audit", "append">>
      <3>1. Head(classes) = "audit" /\ Tail(classes) = <<"append">>
        BY <2>1
      <3> QED BY <1>3, <2>1, <3>1 DEF RecordStage, Stage
    <2>2. CASE current = "audit" /\ classes = <<"append">>
      <3>1. Head(classes) = "append" /\ Tail(classes) = <<>>
        BY <2>2
      <3> QED BY <1>3, <2>2, <3>1 DEF RecordStage, Stage
    <2> QED BY <1>3, <2>1, <2>2 DEF RecordStage
  <1>4. CASE kind = "anonymize" /\ AnonymizeStage
    BY <1>4 DEF AnonymizeStage, Stage
  <1> QED BY <1>1, <1>2, <1>3, <1>4 DEF Stage

\* A class begins, or its stores refuse it.
LEMMA BeginClassIs ==
  ASSUME ControlInv, BeginClass
  PROVE  LET c == Head(classes)  s == Prepared(c) IN
         /\ phase = "working" /\ todo = <<>> /\ items = {} /\ classes # <<>> /\ Stage
         /\ store' = s /\ current' = c /\ known' = known \cup Adopted(c)
         /\ UNCHANGED <<old, intact, kind, rested, faults, ledgerVars, toolVars>>
         /\ \/ /\ items' = TakenUp(c, s) /\ todo' = Plan(c, s) /\ failed' = failed
               /\ phase' = "working" /\ classes' = Tail(classes)
               /\ c \in {"audit", "append"} => ValidLedger(s.audit)
            \/ /\ items' = {} /\ todo' = <<>> /\ c \in {"audit", "append"}
               /\ failed' = IF ValidLedger(s.audit) THEN failed ELSE failed \cup {c}
               /\ ValidLedger(s.audit) => c = "append"
               /\ phase' = IF kind = "startup" THEN "refused" ELSE "working"
               /\ classes' = IF kind # "retention" THEN <<>> ELSE Tail(classes)
  BY DEF BeginClass, ControlInv, Control, Stage

\* A service that has not started has nothing to write.
LEMMA ControlInit ==
  ASSUME Init
  PROVE  ControlInv
  BY SeedsAssumption DEF Init, ControlInv, Control, TodoForm

\* The class that begins is the next of its operation.
LEMMA ControlBegin ==
  ASSUME ControlInv, BeginClass
  PROVE  ControlInv'
  <1> DEFINE c == Head(classes)
             s == Prepared(c)
  <1>1. /\ phase = "working" /\ todo = <<>> /\ items = {} /\ classes # <<>> /\ Stage
        /\ store' = s /\ current' = c
        /\ UNCHANGED <<kind, pending>>
        /\ \/ /\ items' = TakenUp(c, s) /\ todo' = Plan(c, s)
              /\ phase' = "working" /\ classes' = Tail(classes)
           \/ /\ items' = {} /\ todo' = <<>> /\ c \in {"audit", "append"}
              /\ phase' = IF kind = "startup" THEN "refused" ELSE "working"
              /\ classes' = IF kind # "retention" THEN <<>> ELSE Tail(classes)
    BY BeginClassIs DEF ledgerVars
  <1>2. StoreShape(store)'
    BY <1>1, PreparedShape DEF ControlInv
  <1> HIDE DEF c, s
  <1>3. CASE items' = TakenUp(c, s) /\ todo' = Plan(c, s) /\ phase' = "working" /\ classes' = Tail(classes)
    <2>1. Stage' /\ c \in {"audit", "results", "sources", "tokens", "invites", "approvals", "weekly",
                          "append", "rotate"}
      BY <1>1, <1>3, NextStage DEF c
    <2>2. items' # {} => current' \in {"results", "sources", "audit", "anonymize"}
      BY <1>1, <1>3, <2>1, PlanIs
    <2>3. TodoForm'
      <3>1. CASE c \in {"results", "sources"}
        BY <1>3, <3>1, PlanIs DEF TodoForm
      <3>2. CASE c = "audit"
        BY <1>1, <1>3, <3>2, PlanIs DEF TodoForm
      <3>3. CASE c = "append"
        <4>1. PICK t : todo' = EventNext(t)
          BY <1>3, <3>3, PlanIs
        <4> QED BY <1>1, <3>3, <4>1 DEF TodoForm, EventNext, EntryWrite, StateWrite
      <3>4. CASE c = "rotate"
        BY <1>1, <1>3, <3>4, PlanIs DEF TodoForm
      <3>5. CASE c \in {"tokens", "invites", "approvals", "weekly"}
        BY <1>1, <1>3, <3>5, PlanIs DEF TodoForm
      <3> QED BY <2>1, <3>1, <3>2, <3>3, <3>4, <3>5
    <2> QED BY <1>1, <1>2, <1>3, <2>1, <2>2, <2>3 DEF ControlInv, Control, Stage
  <1>4. CASE /\ items' = {} /\ todo' = <<>> /\ c \in {"audit", "append"}
             /\ phase' = IF kind = "startup" THEN "refused" ELSE "working"
             /\ classes' = IF kind # "retention" THEN <<>> ELSE Tail(classes)
    <2>1. TodoForm'
      BY <1>4 DEF TodoForm
    <2>2. CASE kind = "startup"
      BY <1>1, <1>2, <1>4, <2>1, <2>2 DEF ControlInv, Control
    <2>3. CASE kind \in {"retention", "record"}
      <3>1. Stage'
        BY <1>1, <1>4, <2>3, NextStage DEF c
      <3> QED BY <1>1, <1>2, <1>4, <2>1, <2>3, <3>1 DEF ControlInv, Control, Stage
    <2>4. CASE kind = "anonymize"
      <3>1. c = "rotate"
        BY <1>1, <2>4 DEF Stage, AnonymizeStage, c
      <3> QED BY <1>4, <3>1
    <2> QED BY <1>1, <2>2, <2>3, <2>4 DEF Stage
  <1> QED BY <1>1, <1>3, <1>4

\* Every step keeps the stages and the plan of writes.
LEMMA ControlStep ==
  ASSUME ControlInv, [Next]_vars
  PROVE  ControlInv'
  <1> USE DEF ControlInv, Control
  <1>1. CASE StartService
    BY <1>1 DEF StartService, TodoForm, StartupStage
  <1>2. CASE RunRetention
    BY <1>2 DEF RunRetention, TodoForm, RetentionStage
  <1>3. CASE RecordAction
    BY <1>3 DEF RecordAction, BeginRecord, TodoForm, RecordStage
  <1>4. CASE AnonymizeAsset
    <2>1. store' = [store EXCEPT !.audit = Ensured(store.audit)]
      BY <1>4 DEF AnonymizeAsset
    <2>2. Only(store, store', {"audit"}) /\ store'.audit = Ensured(store.audit)
      BY <2>1 DEF Only, StoreShape, StoreFields
    <2>3. AuditFields \subseteq DOMAIN store'.audit
      BY <2>2, EnsuredShape DEF StoreShape, AuditFields, Only
    <2>4. StoreShape(store)'
      BY <2>2, <2>3, AuditOnlyShape
    <2> QED BY <1>4, <2>4 DEF AnonymizeAsset, TodoForm, AnonymizeStage
  <1>5. CASE BeginClass
    BY <1>5, ControlBegin
  <1>6. CASE TakeItem
    <2>1. PICK x : todo' = WritesOf(current, store, x)
      BY <1>6 DEF TakeItem
    <2>2. current' = current /\ current \in {"results", "sources", "audit", "anonymize"}
      BY <1>6 DEF TakeItem
    <2>3. TodoForm'
      BY <2>1, <2>2, WritesOfIs DEF TodoForm, JobRest, FileRest
    <2> QED BY <1>6, <2>2, <2>3 DEF TakeItem, StartupStage, RetentionStage, RecordStage, AnonymizeStage
  <1>7. CASE WriteStep
    <2>1. StoreShape(store)'
      BY <1>7, WriteShape DEF WriteStep
    <2>2. TodoForm'
      BY <1>7, WriteForm DEF WriteStep
    <2> QED BY <1>7, <2>1, <2>2 DEF WriteStep, StartupStage, RetentionStage, RecordStage, AnonymizeStage
  <1>8. CASE WriteFails
    <2>1. StoreShape(store)'
      BY <1>8, UndoneShape DEF WriteFails
    <2>2. TodoForm' /\ items' = {} /\ todo' = <<>>
      BY <1>8 DEF WriteFails, TodoForm
    <2>3. CASE kind = "startup"
      BY <1>8, <2>1, <2>2, <2>3 DEF WriteFails
    <2>4. CASE kind = "retention"
      BY <1>8, <2>1, <2>2, <2>4 DEF WriteFails, RetentionStage
    <2>5. CASE kind = "record"
      <3>1. current # "startup"
        BY <1>8 DEF WriteFails, TodoForm
      <3> QED BY <1>8, <2>1, <2>2, <2>5, <3>1 DEF WriteFails, RecordStage
    <2>6. CASE kind = "anonymize"
      BY <1>8, <2>1, <2>2, <2>6 DEF WriteFails, AnonymizeStage
    <2> QED BY <1>8, <2>3, <2>4, <2>5, <2>6 DEF WriteFails
  <1>9. CASE Finish
    BY <1>9 DEF Finish, BeginRecord, TodoForm, RecordStage
  <1>10. CASE Crash
    BY <1>10 DEF Crash, TodoForm
  <1>11. CASE StopService
    BY <1>11 DEF StopService, TodoForm
  <1>12. CASE Tick
    BY <1>12 DEF Tick, TodoForm, Idle
  <1>13. CASE BackupBegin \/ BackupSeal \/ ToolFails \/ BundleDecays \/ RestoreBegin \/ RestoreCopy \/ RestorePublish
    <2>1. UNCHANGED <<store, phase, kind, classes, current, items, todo, pending>>
      BY <1>13 DEF BackupBegin, BackupSeal, ToolFails, BundleDecays, RestoreBegin, RestoreCopy,
                   RestorePublish, Idle, ledgerVars
    <2>2. TodoForm' <=> TodoForm
      BY <2>1 DEF TodoForm, EventNext, EntryNext, StateNext, EntryWrite, StateWrite
    <2> QED BY <2>1, <2>2 DEF StartupStage, RetentionStage, RecordStage, AnonymizeStage
  <1>14. CASE LateWrite
    <2>1. UNCHANGED <<phase, kind, classes, current, items, todo, pending>> /\ phase = "idle"
      BY <1>14 DEF LateWrite, Idle, ledgerVars
    <2>2. TodoForm'
      BY <2>1 DEF TodoForm
    <2>3. StoreShape(store)'
      <3>1. CASE \E j \in DOMAIN store.jobs : store' = [store EXCEPT !.advisories = @ \cup {j}]
        <4>1. Only(store, store', {"advisories"})
          BY <3>1 DEF Only
        <4>2. /\ store'.jobs = store.jobs /\ store'.projects = store.projects
              /\ store'.weekly = store.weekly /\ store'.auth = store.auth
              /\ store'.jobIdx = store.jobIdx /\ store'.projectIdx = store.projectIdx
              /\ store'.fileIdx = store.fileIdx /\ store'.audit = store.audit
          BY <4>1 DEF Only, StoreShape, StoreFields
        <4> QED BY <4>1, <4>2 DEF StoreShape, Only
      <3>2. CASE store.auth # None /\ \E u \in store.auth.users : store' = [store EXCEPT !.auth.sessions = @ \cup {u}]
        <4>1. Only(store, store', {"auth"}) /\ DOMAIN store'.auth = DOMAIN store.auth
          BY <3>2 DEF Only, StoreShape, StoreFields
        <4>2. /\ store'.jobs = store.jobs /\ store'.projects = store.projects
              /\ store'.weekly = store.weekly
              /\ store'.jobIdx = store.jobIdx /\ store'.projectIdx = store.projectIdx
              /\ store'.fileIdx = store.fileIdx /\ store'.audit = store.audit
          BY <4>1 DEF Only, StoreShape, StoreFields
        <4> QED BY <3>2, <4>1, <4>2 DEF StoreShape, Only
      <3> QED BY <1>14, <3>1, <3>2 DEF LateWrite
    <2> QED BY <2>1, <2>2, <2>3
  <1>15. CASE UNCHANGED vars
    <2>1. UNCHANGED <<store, phase, kind, classes, current, items, todo, pending>>
      BY <1>15 DEF vars
    <2>2. TodoForm' <=> TodoForm
      BY <2>1 DEF TodoForm, EventNext, EntryNext, StateNext, EntryWrite, StateWrite
    <2> QED BY <2>1, <2>2 DEF StartupStage, RetentionStage, RecordStage, AnonymizeStage
  <1> QED BY <1>1, <1>2, <1>3, <1>4, <1>5, <1>6, <1>7, <1>8, <1>9, <1>10, <1>11, <1>12, <1>13,
             <1>14, <1>15 DEF Next

\* What is still to be written of an operation is a suffix of the plan of one
\* item, for the class its kind of operation has reached: startup, retention,
\* recording an event and anonymizing an asset each run their classes in order,
\* and the directory keeps its shape.
THEOREM ControlInvariant == Spec => []ControlInv
  <1>1. Init => ControlInv
    BY ControlInit
  <1>2. ControlInv /\ [Next]_vars => ControlInv'
    BY ControlStep
  <1> QED BY <1>1, <1>2, PTL DEF Spec

RecordClasses == {"results", "sources", "tokens", "invites", "approvals", "weekly"}
LedgerClasses == {"audit", "append", "anonymize", "rotate"}

\* A write of a record class leaves the audit alone, a write of a ledger
\* class everything else.
LEMMA WriteSides ==
  ASSUME ControlInv, todo # <<>>
  PROVE  LET t == Written(store, Head(todo)) IN
         /\ current \in RecordClasses \cup LedgerClasses
         /\ current \in RecordClasses => t.audit = store.audit
         /\ current \in LedgerClasses => Only(store, t, {"audit"})
  <1>0. /\ StoreFields \subseteq DOMAIN store /\ AuditFields \subseteq DOMAIN store.audit
        /\ {"key", "receipts"} \subseteq DOMAIN store.weekly /\ "audit" \in DOMAIN store
    BY DEF ControlInv, StoreShape, AuditFields, StoreFields
  <1> DEFINE t == Written(store, Head(todo))
  <1>1. CASE current = "results" /\ \E j : todo \in JobRest(j)
    <2>1. PICK j : todo \in JobRest(j)
      BY <1>1
    <2>2. Head(todo) \in {W("advisory", j), W("baseline", j), W("syncProj", j), W("job", j), W("syncJobs", j)}
      BY <2>1, JobRestMoves DEF JobRest
    <2>3. Only(store, t, {"advisories", "projects", "projectIdx", "jobs", "jobIdx"})
      <3>1. Head(todo) = W("advisory", j) => Only(store, t, {"advisories"})
        BY <1>0, WrittenAdvisory
      <3>2. Head(todo) = W("baseline", j) => Only(store, t, {"projects", "projectIdx"})
        BY <1>0, WrittenBaseline
      <3>3. Head(todo) = W("job", j) => Only(store, t, {"jobs", "jobIdx"})
        BY <1>0, WrittenJob
      <3>4. Head(todo) = W("syncProj", j) => Only(store, t, {"projectIdx"})
        BY <1>0, WrittenSync
      <3>5. Head(todo) = W("syncJobs", j) => Only(store, t, {"jobIdx"})
        BY <1>0, WrittenSync
      <3> HIDE DEF t
      <3> QED BY <2>2, <3>1, <3>2, <3>3, <3>4, <3>5 DEF Only
    <2> QED BY <1>0, <1>1, <2>3 DEF Only, RecordClasses, LedgerClasses
  <1>2. CASE current = "sources" /\ \E f : todo \in FileRest(f)
    <2>1. PICK f : todo \in FileRest(f)
      BY <1>2
    <2>2. Head(todo) \in {W("markJobs", f), W("syncJobs", f), W("markProj", f), W("syncProj", f),
                          W("payload", f), W("file", f), W("syncFiles", f)}
      BY <2>1, FileRestMoves DEF FileRest
    <2>3. Only(store, t, {"projects", "projectIdx", "jobs", "jobIdx", "payloads", "files", "fileIdx"})
      <3>1. Head(todo) = W("markJobs", f) => Only(store, t, {"jobs", "jobIdx"})
        BY <1>0, WrittenMarkJobs
      <3>2. Head(todo) = W("markProj", f) => Only(store, t, {"projects", "projectIdx"})
        BY <1>0, WrittenMarkProj
      <3>3. Head(todo) = W("payload", f) => Only(store, t, {"payloads"})
        BY <1>0, WrittenPayload
      <3>4. Head(todo) = W("file", f) => Only(store, t, {"files", "fileIdx"})
        BY <1>0, WrittenFile
      <3>5. Head(todo) = W("syncJobs", f) => Only(store, t, {"jobIdx"})
        BY <1>0, WrittenSync
      <3>6. Head(todo) = W("syncProj", f) => Only(store, t, {"projectIdx"})
        BY <1>0, WrittenSync
      <3>7. Head(todo) = W("syncFiles", f) => Only(store, t, {"fileIdx"})
        BY <1>0, WrittenSync
      <3> HIDE DEF t
      <3> QED BY <2>2, <3>1, <3>2, <3>3, <3>4, <3>5, <3>6, <3>7 DEF Only
    <2> QED BY <1>0, <1>2, <2>3 DEF Only, RecordClasses, LedgerClasses
  <1>3. CASE current = "audit" /\ \E n : todo = PurgeNext(n)
    <2>1. PICK n : todo = PurgeNext(n)
      BY <1>3
    <2>2. Head(todo) = W("state", n)
      BY <2>1, LedgerRestMoves
    <2> QED BY <1>0, <1>3, <2>2, WrittenLedger DEF RecordClasses, LedgerClasses
  <1>4. CASE current = "audit" /\ \E e, n : todo = DelEventNext(e, n)
    <2>1. PICK e, n : todo = DelEventNext(e, n)
      BY <1>4
    <2>2. Head(todo) = W("delEvent", e)
      BY <2>1, LedgerRestMoves
    <2> QED BY <1>0, <1>4, <2>2, WrittenEvents DEF RecordClasses, LedgerClasses
  <1>5. CASE current = "audit" /\ \E n : todo = DelEntryNext(n)
    <2>1. PICK n : todo = DelEntryNext(n)
      BY <1>5
    <2>2. Head(todo) = W("delEntry", n)
      BY <2>1, LedgerRestMoves
    <2> QED BY <1>0, <1>5, <2>2, WrittenLedger DEF RecordClasses, LedgerClasses
  <1>6. CASE current = "append" /\ \E n : todo \in {EventNext(n), EntryNext(n), StateNext(n)}
    <2>1. PICK n : todo \in {EventNext(n), EntryNext(n), StateNext(n)}
      BY <1>6
    <2>2. Head(todo) \in {W("event", pending), EntryWrite(n), StateWrite(n)}
      BY <2>1, LedgerRestMoves
    <2>3. \E x : Head(todo) \in {W("event", x), W("entry", x), W("state", x)}
      BY <2>2 DEF EntryWrite, StateWrite
    <2> QED BY <1>0, <1>6, <2>3, WrittenEvents, WrittenLedger DEF RecordClasses, LedgerClasses
  <1>7. CASE current = "rotate" /\ \E n : todo \in {SwapOutNext(n), SwapInNext(n), DropBakNext}
    <2>1. \E n : Head(todo) \in {W("swapOut", None), W("swapIn", n), W("dropBak", None)}
      BY <1>7, OtherRestMoves
    <2> QED BY <1>0, <1>7, <2>1, WrittenSwap DEF RecordClasses, LedgerClasses
  <1>8. CASE current = "anonymize" /\ \E e : todo = RewriteNext(e)
    <2>1. \E e : Head(todo) = W("rewrite", e)
      BY <1>8, OtherRestMoves
    <2> QED BY <1>0, <1>8, <2>1, WrittenEvents DEF RecordClasses, LedgerClasses
  <1>9. CASE current \in {"tokens", "invites", "approvals", "weekly"} /\ todo = ClassNext(current)
    <2>1. Head(todo) = W(current, None)
      BY <1>9, OtherRestMoves
    <2>2. Only(store, t, {"auth", "approvals", "weekly"})
      BY <1>0, <1>9, <2>1, WrittenAuth DEF Only
    <2> QED BY <1>0, <1>9, <2>2 DEF Only, RecordClasses, LedgerClasses
  <1> QED BY <1>1, <1>2, <1>3, <1>4, <1>5, <1>6, <1>7, <1>8, <1>9 DEF ControlInv, Control, TodoForm

(***************************************************************************)
(* No acknowledged event is lost.                                          *)
(***************************************************************************)
TreeFields == {"entries", "state"}
TreeShape(d) == d # None => TreeFields \subseteq DOMAIN d

(* Only what has expired is about to be removed, and what is removed next  *)
(* is not taken up again.                                                  *)
Expiring ==
    phase = "working" /\ current = "audit" =>
        LET en == store.audit.dir.entries IN
        /\ todo # <<>> \/ items # {} => TreeFields \subseteq DOMAIN store.audit.dir
        /\ \A n \in items : n \in DOMAIN en /\ en[n].event < cutoff
        /\ \/ todo = <<>>
           \/ \E t : todo = PurgeNext(t)
           \/ \E e, n : todo = DelEventNext(e, n) /\ e < cutoff /\ n \notin items
           \/ \E n : todo = DelEntryNext(n) /\ n \notin items

(* The event file is there before the entry and the state that name it. *)
Recording ==
    phase = "working" /\ current = "append" =>
        \/ todo = <<>>
        \/ /\ TreeFields \subseteq DOMAIN store.audit.dir
           /\ \E t : \/ todo = EventNext(t)
                     \/ todo \in {EntryNext(t), StateNext(t)} /\ pending \in DOMAIN store.audit.events

(* An event is acknowledged by the last write of its recording. *)
Unacknowledged ==
    phase = "working" /\ kind = "record" =>
        /\ pending > 0
        /\ current # "append" \/ todo # <<>> => pending \notin acked

History == {e \in acked : e >= cutoff} \subseteq DOMAIN store.audit.events

HistoryInv ==
    /\ pending \in Nat /\ cutoff \in Nat /\ acked \subseteq 1..pending
    /\ TreeShape(store.audit.dir) /\ TreeShape(store.audit.bak)
    /\ Expiring
    /\ Recording
    /\ Unacknowledged
    /\ History

\* The last write of an append is the third.
LEMMA AppendLengths ==
  ASSUME NEW t
  PROVE  Len(EventNext(t)) = 3 /\ Len(EntryNext(t)) = 2 /\ Len(StateNext(t)) = 1
  BY DEF EventNext, EntryNext, StateNext

\* An empty log has acknowledged nothing.
LEMMA HistoryInit ==
  ASSUME Init
  PROVE  HistoryInv
  <1>1. store.audit = [events |-> <<>>, dir |-> None, bak |-> None]
    BY SeedsAssumption DEF Init
  <1>2. store.audit.dir = None /\ store.audit.bak = None
    BY <1>1
  <1> QED BY <1>2 DEF Init, HistoryInv, TreeShape, Expiring, Recording, Unacknowledged, History

\* Bootstrapping a ledger leaves the events as they are.
LEMMA EnsuredKeeps ==
  ASSUME NEW a, AuditFields \subseteq DOMAIN a, TreeShape(a.dir)
  PROVE  LET b == Ensured(a) IN
         b.events = a.events /\ b.bak = a.bak /\ TreeShape(b.dir)
  <1>1. CASE a.dir # None
    BY <1>1 DEF Ensured
  <1>2. CASE a.dir = None
    <2> DEFINE d == BuildTree(a.events, 1, ChainZero, ChainZero)
    <2>1. DOMAIN d = {"entries", "state"}
      BY DEF BuildTree
    <2> HIDE DEF d
    <2>2. Ensured(a) = [a EXCEPT !.dir = d]
      BY <1>2 DEF Ensured, d
    <2> QED BY <2>1, <2>2 DEF AuditFields, TreeShape, TreeFields
  <1> QED BY <1>1, <1>2

\* Opening the stores of a class loses no acknowledged event.
LEMMA HistoryBegin ==
  ASSUME ControlInv, HistoryInv, BeginClass
  PROVE  HistoryInv'
  <1> DEFINE c == Head(classes)
             s == Prepared(c)
  <1>1. /\ phase = "working" /\ todo = <<>> /\ items = {} /\ classes # <<>> /\ Stage
        /\ store' = s /\ current' = c
        /\ UNCHANGED <<kind, pending, cutoff, acked>>
        /\ \/ /\ items' = TakenUp(c, s) /\ todo' = Plan(c, s)
              /\ c \in {"audit", "append"} => ValidLedger(s.audit)
           \/ items' = {} /\ todo' = <<>>
    BY BeginClassIs DEF ledgerVars
  <1>2. s.audit = IF c \in {"audit", "append"} THEN Ensured(store.audit) ELSE store.audit
    BY PreparedIs DEF ControlInv
  <1>3. AuditFields \subseteq DOMAIN store.audit
    BY DEF ControlInv, StoreShape, AuditFields
  <1> HIDE DEF c, s
  <1>4. /\ s.audit.events = store.audit.events /\ s.audit.bak = store.audit.bak
        /\ TreeShape(s.audit.dir)
    BY <1>2, <1>3, EnsuredKeeps DEF HistoryInv
  <1>5. /\ (pending \in Nat /\ cutoff \in Nat /\ acked \subseteq 1..pending)'
        /\ TreeShape(store.audit.dir)' /\ TreeShape(store.audit.bak)' /\ History'
    BY <1>1, <1>4 DEF HistoryInv, TreeShape, History
  <1>6. Unacknowledged'
    <2>1. kind = "record" => current # "append"
      BY <1>1 DEF Stage, RecordStage
    <2> QED BY <1>1, <2>1 DEF HistoryInv, Unacknowledged
  <1>7. Expiring'
    <2> SUFFICES ASSUME c = "audit" PROVE Expiring'
      BY <1>1 DEF Expiring
    <2>1. CASE items' = TakenUp(c, s) /\ todo' = Plan(c, s) /\ ValidLedger(s.audit)
      <3>1. items' = ExpiredPrefix(s.audit, cutoff) /\ (todo' = <<>> \/ \E t : todo' = PurgeNext(t))
        BY <2>1, PlanIs
      <3>2. TreeFields \subseteq DOMAIN s.audit.dir
        BY <1>4, <2>1 DEF ValidLedger, TreeShape
      <3>3. DOMAIN s.audit.dir.entries \subseteq Int
        BY <2>1 DEF ValidLedger
      <3>4. \A n \in items' : n \in DOMAIN s.audit.dir.entries /\ s.audit.dir.entries[n].event < cutoff
        BY <3>1, <3>3 DEF ExpiredPrefix
      <3> QED BY <1>1, <3>1, <3>2, <3>4 DEF Expiring
    <2>2. CASE items' = {} /\ todo' = <<>>
      BY <2>2 DEF Expiring
    <2> QED BY <1>1, <2>1, <2>2
  <1>8. Recording'
    <2> SUFFICES ASSUME c = "append" PROVE Recording'
      BY <1>1 DEF Recording
    <2>1. CASE items' = TakenUp(c, s) /\ todo' = Plan(c, s) /\ ValidLedger(s.audit)
      <3>1. todo' = EventNext(s.audit.dir.state)
        BY <2>1, PlanIs
      <3>2. TreeFields \subseteq DOMAIN s.audit.dir
        BY <1>4, <2>1 DEF ValidLedger, TreeShape
      <3>3. \A t : EventNext(t)' = EventNext(t)
        BY <1>1 DEF EventNext, EntryWrite, StateWrite
      <3> QED BY <1>1, <3>1, <3>2 DEF Recording, EventNext, EntryWrite, StateWrite
    <2>2. CASE items' = {} /\ todo' = <<>>
      BY <2>2 DEF Recording
    <2> QED BY <1>1, <2>1, <2>2
  <1> QED BY <1>5, <1>6, <1>7, <1>8 DEF HistoryInv

\* The steps that leave the directory and the ledger's counters alone.
LEMMA HistoryQuiet ==
  ASSUME HistoryInv, UNCHANGED <<cutoff, acked, pending>>, store'.audit = store.audit,
         \/ phase' # "working"
         \/ todo' = <<>> /\ items' = {} /\ kind' # "record"
         \/ UNCHANGED <<phase, kind, current, items, todo>>
  PROVE  HistoryInv'
  <1>1. /\ (pending \in Nat /\ cutoff \in Nat /\ acked \subseteq 1..pending)'
        /\ TreeShape(store.audit.dir)' /\ TreeShape(store.audit.bak)' /\ History'
    BY DEF HistoryInv, TreeShape, History
  <1>2. CASE phase' # "working"
    BY <1>1, <1>2 DEF HistoryInv, Expiring, Recording, Unacknowledged
  <1>3. CASE todo' = <<>> /\ items' = {} /\ kind' # "record"
    BY <1>1, <1>3 DEF HistoryInv, Expiring, Recording, Unacknowledged
  <1>4. CASE UNCHANGED <<phase, kind, current, items, todo>>
    <2>1. Expiring' /\ Unacknowledged'
      BY <1>4 DEF HistoryInv, Expiring, Unacknowledged
    <2>2. Recording'
      BY <1>4 DEF HistoryInv, Recording, EventNext, EntryNext, StateNext, EntryWrite, StateWrite
    <2> QED BY <1>1, <2>1, <2>2 DEF HistoryInv
  <1> QED BY <1>2, <1>3, <1>4

\* Taking up an expired entry loses no acknowledged event.
LEMMA HistoryTake ==
  ASSUME ControlInv, HistoryInv, TakeItem
  PROVE  HistoryInv'
  <1>1. /\ UNCHANGED <<store, phase, kind, current, cutoff, acked, pending>> /\ phase = "working" /\ todo = <<>>
        /\ items # {}
    BY DEF TakeItem, ledgerVars
  <1>2. PICK x \in items : items' = items \ {x} /\ todo' = WritesOf(current, store, x)
    BY DEF TakeItem
  <1>3. /\ (pending \in Nat /\ cutoff \in Nat /\ acked \subseteq 1..pending)'
        /\ TreeShape(store.audit.dir)' /\ TreeShape(store.audit.bak)' /\ History'
    BY <1>1 DEF HistoryInv, TreeShape, History
  <1>4. current # "append"
    BY <1>1 DEF ControlInv, Control
  <1>5. Recording' /\ Unacknowledged'
    BY <1>1, <1>4 DEF HistoryInv, Recording, Unacknowledged
  <1>6. Expiring'
    <2> SUFFICES ASSUME current = "audit" PROVE Expiring'
      BY <1>1 DEF Expiring
    <2>1. todo' = DelEventNext(store.audit.dir.entries[x].event, x)
      BY <1>2, WritesOfIs
    <2>2. store.audit.dir.entries[x].event < cutoff /\ TreeFields \subseteq DOMAIN store.audit.dir
      BY <1>1, <1>2 DEF HistoryInv, Expiring
    <2>3. \A n \in items' : n \in DOMAIN store.audit.dir.entries /\ store.audit.dir.entries[n].event < cutoff
      BY <1>1, <1>2 DEF HistoryInv, Expiring
    <2>4. \E e, n : todo' = DelEventNext(e, n) /\ e < cutoff' /\ n \notin items'
      BY <1>1, <1>2, <2>1, <2>2
    <2> QED BY <1>1, <2>2, <2>3, <2>4 DEF Expiring
  <1> QED BY <1>3, <1>5, <1>6 DEF HistoryInv

\* A purge deletes expired events only.
LEMMA HistoryWriteAudit ==
  ASSUME ControlInv, HistoryInv, WriteStep, current = "audit"
  PROVE  HistoryInv'
  <1>1. /\ UNCHANGED <<phase, kind, current, items, cutoff, acked, pending>> /\ phase = "working"
        /\ todo # <<>> /\ todo' = Tail(todo) /\ store' = Written(store, Head(todo))
    BY DEF WriteStep
  <1>2. /\ StoreFields \subseteq DOMAIN store /\ AuditFields \subseteq DOMAIN store.audit
    BY DEF ControlInv, StoreShape, AuditFields
  <1> DEFINE a == store.audit  b == store'.audit
  <1>3. /\ TreeFields \subseteq DOMAIN a.dir
        /\ \A n \in items : n \in DOMAIN a.dir.entries /\ a.dir.entries[n].event < cutoff
    BY <1>1 DEF HistoryInv, Expiring, TreeShape
  <1>4. pending \in Nat /\ cutoff \in Nat /\ acked \subseteq 1..pending
    BY DEF HistoryInv
  <1>5. Recording' /\ Unacknowledged'
    BY <1>1 DEF HistoryInv, Recording, Unacknowledged
  <1>6. SUFFICES TreeShape(b.dir) /\ TreeShape(b.bak) /\ Expiring' /\ History'
    BY <1>1, <1>4, <1>5 DEF HistoryInv
  <1>7. CASE \E t : todo = PurgeNext(t)
    <2>1. PICK t : todo = PurgeNext(t)
      BY <1>7
    <2>2. Head(todo) = W("state", t) /\ todo' = <<>>
      BY <1>1, <2>1, LedgerRestMoves
    <2>3. Only(a, b, {"dir"}) /\ b.dir = [a.dir EXCEPT !.state = t]
      <3> DEFINE u == Written(store, W("state", t))
      <3>1. Only(store.audit, u.audit, {"dir"}) /\ u.audit.dir = [store.audit.dir EXCEPT !.state = t]
        BY <1>2, WrittenLedger
      <3> QED BY <1>1, <2>2, <3>1
    <2>4. b.events = a.events /\ b.bak = a.bak
      BY <1>2, <2>3 DEF Only, AuditFields
    <2>5. b.dir.entries = a.dir.entries /\ DOMAIN b.dir = DOMAIN a.dir
      BY <1>3, <2>3 DEF TreeFields
    <2> QED BY <1>1, <1>3, <2>2, <2>4, <2>5 DEF HistoryInv, TreeShape, Expiring, History
  <1>8. CASE \E e, n : todo = DelEventNext(e, n) /\ e < cutoff /\ n \notin items
    <2>1. PICK e, n : todo = DelEventNext(e, n) /\ e < cutoff /\ n \notin items
      BY <1>8
    <2>2. Head(todo) = W("delEvent", e) /\ todo' = DelEntryNext(n)
      BY <1>1, <2>1, LedgerRestMoves
    <2>3. Only(a, b, {"events"}) /\ b.events = Without(a.events, e)
      BY <1>1, <1>2, <2>2, WrittenEvents
    <2>4. b.dir = a.dir /\ b.bak = a.bak
      BY <1>2, <2>3 DEF Only, AuditFields
    <2>5. \A x \in acked : x >= cutoff => x # e
      BY <1>4, <2>1
    <2>6. History'
      BY <1>1, <2>3, <2>5 DEF HistoryInv, History, Without, Drop
    <2> QED BY <1>1, <1>3, <2>1, <2>2, <2>4, <2>6 DEF HistoryInv, TreeShape, Expiring
  <1>9. CASE \E n : todo = DelEntryNext(n) /\ n \notin items
    <2>1. PICK n : todo = DelEntryNext(n) /\ n \notin items
      BY <1>9
    <2>2. Head(todo) = W("delEntry", n) /\ todo' = <<>>
      BY <1>1, <2>1, LedgerRestMoves
    <2>3. Only(a, b, {"dir"}) /\ b.dir = [a.dir EXCEPT !.entries = Without(@, n)]
      <3> DEFINE u == Written(store, W("delEntry", n))
      <3>1. /\ Only(store.audit, u.audit, {"dir"})
            /\ u.audit.dir = [store.audit.dir EXCEPT !.entries = Without(@, n)]
        BY <1>2, WrittenLedger
      <3> QED BY <1>1, <2>2, <3>1
    <2>4. b.events = a.events /\ b.bak = a.bak
      BY <1>2, <2>3 DEF Only, AuditFields
    <2>5. b.dir.entries = Without(a.dir.entries, n) /\ DOMAIN b.dir = DOMAIN a.dir
      BY <1>3, <2>3 DEF TreeFields
    <2>6. \A m \in items : m \in DOMAIN b.dir.entries /\ b.dir.entries[m].event < cutoff
      BY <1>3, <2>1, <2>5 DEF Without, Drop
    <2> QED BY <1>1, <1>3, <2>2, <2>4, <2>5, <2>6 DEF HistoryInv, TreeShape, Expiring, History
  <1> QED BY <1>1, <1>7, <1>8, <1>9 DEF HistoryInv, Expiring

\* An event is acknowledged once its state is written.
LEMMA HistoryWriteAppend ==
  ASSUME ControlInv, HistoryInv, WriteStep, current = "append"
  PROVE  HistoryInv'
  <1>1. /\ UNCHANGED <<phase, kind, current, items, cutoff, pending>> /\ phase = "working"
        /\ todo # <<>> /\ todo' = Tail(todo) /\ store' = Written(store, Head(todo))
        /\ acked' = IF Len(todo) = 1 THEN acked \cup {pending} ELSE acked
    BY DEF WriteStep
  <1>2. /\ StoreFields \subseteq DOMAIN store /\ AuditFields \subseteq DOMAIN store.audit
    BY DEF ControlInv, StoreShape, AuditFields
  <1> DEFINE a == store.audit  b == store'.audit
  <1>3. /\ TreeFields \subseteq DOMAIN a.dir
        /\ \E t : \/ todo = EventNext(t)
                  \/ todo \in {EntryNext(t), StateNext(t)} /\ pending \in DOMAIN a.events
    BY <1>1 DEF HistoryInv, Recording
  <1>4. pending \in Nat /\ cutoff \in Nat /\ acked \subseteq 1..pending
    BY DEF HistoryInv
  <1>5. kind = "record" /\ pending \notin acked /\ pending > 0
    BY <1>1 DEF HistoryInv, ControlInv, Control, StartupStage, RetentionStage, RecordStage, AnonymizeStage,
                Unacknowledged
  <1>6. \A t : EntryNext(t)' = EntryNext(t) /\ StateNext(t)' = StateNext(t)
    BY <1>1 DEF EntryNext, StateNext, EntryWrite, StateWrite
  <1>7. SUFFICES /\ TreeShape(b.dir) /\ TreeShape(b.bak) /\ Recording' /\ History' /\ acked' \subseteq 1..pending
                 /\ todo' # <<>> => acked' = acked
    BY <1>1, <1>4, <1>5 DEF HistoryInv, Expiring, Unacknowledged
  <1>8. CASE \E t : todo = EventNext(t)
    <2>1. PICK t : todo = EventNext(t)
      BY <1>8
    <2>2. Head(todo) = W("event", pending) /\ todo' = EntryNext(t) /\ acked' = acked
      <3>1. Len(todo) = 3
        BY <2>1, AppendLengths
      <3>2. Head(todo) = W("event", pending) /\ Tail(todo) = EntryNext(t)
        BY <2>1, LedgerRestMoves
      <3> QED BY <1>1, <3>1, <3>2
    <2>3. Only(a, b, {"events"}) /\ b.events = With(a.events, pending, "full")
      <3> DEFINE u == Written(store, W("event", pending))
      <3>1. Only(store.audit, u.audit, {"events"}) /\ u.audit.events = With(store.audit.events, pending, "full")
        BY <1>2, WrittenEvents
      <3> QED BY <1>1, <2>2, <3>1
    <2>4. b.dir = a.dir /\ b.bak = a.bak /\ DOMAIN b.events = DOMAIN a.events \cup {pending}
      BY <1>2, <2>3 DEF Only, AuditFields, With
    <2>5. Recording'
      BY <1>1, <1>3, <2>2, <2>4 DEF Recording, EntryNext, EntryWrite, StateWrite
    <2>6. History'
      BY <1>1, <2>2, <2>4 DEF HistoryInv, History
    <2> QED BY <1>4, <2>2, <2>4, <2>5, <2>6 DEF HistoryInv
  <1>9. CASE pending \in DOMAIN a.events /\ \E t : todo = EntryNext(t)
    <2>1. PICK t : todo = EntryNext(t)
      BY <1>9
    <2>2. Head(todo) = EntryWrite(t) /\ todo' = StateNext(t) /\ acked' = acked
      <3>1. Len(todo) = 2
        BY <2>1, AppendLengths
      <3>2. Head(todo) = EntryWrite(t) /\ Tail(todo) = StateNext(t)
        BY <2>1, LedgerRestMoves
      <3> QED BY <1>1, <3>1, <3>2
    <2>3. PICK x : Head(todo) = W("entry", x)
      BY <2>2 DEF EntryWrite
    <2>4. Only(a, b, {"dir"}) /\ b.dir = [a.dir EXCEPT !.entries = With(@, x.n, x.entry)]
      <3> DEFINE u == Written(store, W("entry", x))
      <3>1. /\ Only(store.audit, u.audit, {"dir"})
            /\ u.audit.dir = [store.audit.dir EXCEPT !.entries = With(@, x.n, x.entry)]
        BY <1>2, WrittenLedger
      <3> QED BY <1>1, <2>3, <3>1
    <2>5. b.events = a.events /\ b.bak = a.bak /\ DOMAIN b.dir = DOMAIN a.dir
      BY <1>2, <2>4 DEF Only, AuditFields
    <2>6. Recording'
      BY <1>1, <1>3, <1>9, <2>2, <2>5 DEF Recording, StateNext, StateWrite
    <2>7. History'
      BY <1>1, <2>2, <2>5 DEF HistoryInv, History
    <2> QED BY <1>3, <1>4, <2>2, <2>5, <2>6, <2>7 DEF HistoryInv, TreeShape
  <1>10. CASE pending \in DOMAIN a.events /\ \E t : todo = StateNext(t)
    <2>1. PICK t : todo = StateNext(t)
      BY <1>10
    <2>2. Head(todo) = StateWrite(t) /\ todo' = <<>> /\ acked' = acked \cup {pending}
      BY <1>1, <2>1, LedgerRestMoves, AppendLengths
    <2>3. PICK x : Head(todo) = W("state", x)
      BY <2>2 DEF StateWrite
    <2>4. Only(a, b, {"dir"}) /\ b.dir = [a.dir EXCEPT !.state = x]
      <3> DEFINE u == Written(store, W("state", x))
      <3>1. Only(store.audit, u.audit, {"dir"}) /\ u.audit.dir = [store.audit.dir EXCEPT !.state = x]
        BY <1>2, WrittenLedger
      <3> QED BY <1>1, <2>3, <3>1
    <2>5. b.events = a.events /\ b.bak = a.bak /\ DOMAIN b.dir = DOMAIN a.dir
      BY <1>2, <2>4 DEF Only, AuditFields
    <2>6. Recording'
      BY <2>2 DEF Recording
    <2>7. History'
      BY <1>1, <1>10, <2>2, <2>5 DEF HistoryInv, History
    <2>8. acked' \subseteq 1..pending
      BY <1>4, <1>5, <2>2
    <2> QED BY <1>3, <2>2, <2>5, <2>6, <2>7, <2>8 DEF HistoryInv, TreeShape
  <1> QED BY <1>3, <1>8, <1>9, <1>10

\* No other class touches the events, save to anonymize them.
LEMMA HistoryWriteOther ==
  ASSUME ControlInv, HistoryInv, WriteStep, current \notin {"audit", "append"}
  PROVE  HistoryInv'
  <1>1. /\ UNCHANGED <<phase, kind, current, items, cutoff, acked, pending>> /\ phase = "working"
        /\ todo # <<>> /\ store' = Written(store, Head(todo))
    BY DEF WriteStep
  <1>2. /\ StoreFields \subseteq DOMAIN store /\ AuditFields \subseteq DOMAIN store.audit
    BY DEF ControlInv, StoreShape, AuditFields
  <1> DEFINE a == store.audit  b == store'.audit
  <1>3. SUFFICES TreeShape(b.dir) /\ TreeShape(b.bak) /\ DOMAIN b.events = DOMAIN a.events
    BY <1>1 DEF HistoryInv, Expiring, Recording, Unacknowledged, History
  <1>4. TreeShape(a.dir) /\ TreeShape(a.bak)
    BY DEF HistoryInv
  <1>5. CASE current \in RecordClasses
    BY <1>1, <1>4, <1>5, WriteSides
  <1>6. CASE current = "rotate"
    <2>1. PICK t : todo \in {SwapOutNext(t), SwapInNext(t), DropBakNext}
      BY <1>1, <1>6 DEF ControlInv, Control, TodoForm
    <2>2. Head(todo) \in {W("swapOut", None), W("swapIn", t), W("dropBak", None)}
      BY <2>1, OtherRestMoves
    <2>3. CASE Head(todo) = W("swapOut", None)
      <3>1. LET u == Written(store, W("swapOut", None)) IN
            Only(a, u.audit, {"dir", "bak"}) /\ u.audit.dir = None /\ u.audit.bak = a.dir
        BY <1>2, WrittenSwap
      <3>2. Only(a, b, {"dir", "bak"}) /\ b.dir = None /\ b.bak = a.dir
        BY <1>1, <2>3, <3>1
      <3> QED BY <1>2, <1>4, <3>2 DEF Only, AuditFields, TreeShape
    <2>4. CASE Head(todo) = W("swapIn", t)
      <3>1. LET u == Written(store, W("swapIn", t)) IN
            Only(a, u.audit, {"dir"}) /\ u.audit.dir = RotatedTree(a, t)
        BY <1>2, WrittenSwap
      <3>2. Only(a, b, {"dir"}) /\ b.dir = RotatedTree(a, t)
        BY <1>1, <2>4, <3>1
      <3>3. DOMAIN RotatedTree(a, t) = TreeFields
        BY DEF RotatedTree, BuildTree, TreeFields
      <3> QED BY <1>2, <1>4, <3>2, <3>3 DEF Only, AuditFields, TreeShape
    <2>5. CASE Head(todo) = W("dropBak", None)
      <3>1. LET u == Written(store, W("dropBak", None)) IN
            Only(a, u.audit, {"bak"}) /\ u.audit.bak = None
        BY <1>2, WrittenSwap
      <3>2. Only(a, b, {"bak"}) /\ b.bak = None
        BY <1>1, <2>5, <3>1
      <3> QED BY <1>2, <1>4, <3>2 DEF Only, AuditFields, TreeShape
    <2> QED BY <2>2, <2>3, <2>4, <2>5
  <1>7. CASE current = "anonymize"
    <2>1. PICK e : todo = RewriteNext(e)
      BY <1>1, <1>7 DEF ControlInv, Control, TodoForm
    <2>2. Head(todo) = W("rewrite", e)
      BY <2>1, OtherRestMoves
    <2>3. LET u == Written(store, W("rewrite", e)) IN
          Only(a, u.audit, {"events"}) /\ u.audit.events = [a.events EXCEPT ![e] = "anonymous"]
      BY <1>2, WrittenEvents
    <2>4. Only(a, b, {"events"}) /\ b.events = [a.events EXCEPT ![e] = "anonymous"]
      BY <1>1, <2>2, <2>3
    <2> QED BY <1>2, <1>4, <2>4 DEF Only, AuditFields
  <1> QED BY <1>1, <1>5, <1>6, <1>7, WriteSides DEF LedgerClasses

\* What a failed append undoes was not acknowledged.
LEMMA HistoryFail ==
  ASSUME ControlInv, HistoryInv, WriteFails
  PROVE  HistoryInv'
  <1>1. /\ UNCHANGED <<kind, current, cutoff, acked, pending>> /\ phase = "working"
        /\ todo # <<>> /\ items' = {} /\ todo' = <<>> /\ store' = Undone(store)
    BY DEF WriteFails, ledgerVars
  <1>2. StoreShape(store) /\ AuditFields \subseteq DOMAIN store.audit
    BY DEF ControlInv, StoreShape, AuditFields
  <1> DEFINE a == store.audit  b == store'.audit
  <1>3. Expiring' /\ Recording'
    BY <1>1 DEF Expiring, Recording
  <1>4. Unacknowledged'
    BY <1>1 DEF HistoryInv, Unacknowledged
  <1>5. SUFFICES TreeShape(b.dir) /\ TreeShape(b.bak) /\ History'
    BY <1>1, <1>3, <1>4 DEF HistoryInv
  <1>6. CASE current = "append"
    <2>1. /\ Only(a, b, {"events", "dir"}) /\ b.events = Without(a.events, pending)
          /\ DOMAIN b.dir = DOMAIN a.dir
      BY <1>1, <1>2, <1>6, UndoneIs
    <2>2. TreeFields \subseteq DOMAIN a.dir
      BY <1>1, <1>6 DEF HistoryInv, Recording
    <2>3. pending \notin acked
      BY <1>1, <1>6 DEF HistoryInv, ControlInv, Control, StartupStage, RetentionStage, RecordStage, AnonymizeStage,
                Unacknowledged
    <2>4. History'
      BY <1>1, <2>1, <2>3 DEF HistoryInv, History, Without, Drop
    <2> QED BY <1>2, <2>1, <2>2, <2>4 DEF HistoryInv, TreeShape, Only, AuditFields
  <1>7. CASE current = "rotate" /\ a.dir = None
    <2>1. Only(a, b, {"dir", "bak"}) /\ b.dir = a.bak /\ b.bak = None
      BY <1>1, <1>2, <1>7, UndoneIs
    <2> QED BY <1>1, <1>2, <2>1 DEF HistoryInv, TreeShape, Only, AuditFields, History
  <1>8. CASE current # "append" /\ ~(current = "rotate" /\ a.dir = None)
    <2>1. store' = store
      BY <1>1, <1>2, <1>8, UndoneIs
    <2> QED BY <1>1, <2>1 DEF HistoryInv, History
  <1> QED BY <1>6, <1>7, <1>8

\* Every step keeps the acknowledged history.
LEMMA HistoryStep ==
  ASSUME ControlInv, HistoryInv, [Next]_vars
  PROVE  HistoryInv'
  <1>1. CASE StartService
    BY <1>1, HistoryQuiet DEF StartService, ledgerVars
  <1>2. CASE RunRetention
    BY <1>2, HistoryQuiet DEF RunRetention, ledgerVars, ControlInv, Control
  <1>3. CASE RecordAction \/ Finish
    <2>1. /\ UNCHANGED <<store, cutoff, acked>> /\ todo' = <<>> /\ items' = {} /\ current' = "startup"
          /\ \/ pending' = pending + 1
             \/ phase' = "idle" /\ pending' = pending
      BY <1>3 DEF RecordAction, Finish, BeginRecord, ControlInv, Control
    <2>2. pending' \in Nat /\ acked' \subseteq 1..pending'
      BY <2>1 DEF HistoryInv
    <2>3. phase' = "working" => pending' > 0 /\ pending' \notin acked'
      BY <2>1 DEF HistoryInv
    <2> QED BY <2>1, <2>2, <2>3 DEF HistoryInv, TreeShape, Expiring, Recording, Unacknowledged, History
  <1>4. CASE AnonymizeAsset
    <2>1. /\ UNCHANGED ledgerVars /\ store' = [store EXCEPT !.audit = Ensured(store.audit)]
          /\ current' = "anonymize" /\ kind' = "anonymize"
      BY <1>4 DEF AnonymizeAsset
    <2>2. "audit" \in DOMAIN store /\ AuditFields \subseteq DOMAIN store.audit
      BY DEF ControlInv, StoreShape, StoreFields, AuditFields
    <2>3. store'.audit = Ensured(store.audit)
      BY <2>1, <2>2
    <2>4. LET b == store'.audit IN
          b.events = store.audit.events /\ b.bak = store.audit.bak /\ TreeShape(b.dir)
      BY <2>2, <2>3, EnsuredKeeps DEF HistoryInv
    <2> QED BY <2>1, <2>4 DEF HistoryInv, Expiring, Recording, Unacknowledged, History, ledgerVars
  <1>5. CASE BeginClass
    BY <1>5, HistoryBegin
  <1>6. CASE TakeItem
    BY <1>6, HistoryTake
  <1>7. CASE WriteStep
    BY <1>7, HistoryWriteAudit, HistoryWriteAppend, HistoryWriteOther
  <1>8. CASE WriteFails
    BY <1>8, HistoryFail
  <1>9. CASE Crash
    BY <1>9, HistoryQuiet DEF Crash, ledgerVars
  <1>10. CASE StopService
    BY <1>10, HistoryQuiet DEF StopService, ledgerVars
  <1>11. CASE Tick
    <2>1. /\ phase' = "idle" /\ cutoff' = cutoff + 1 /\ UNCHANGED <<store, acked, pending>>
      BY <1>11 DEF Tick, Idle
    <2>2. \A e \in acked : e >= cutoff' => e >= cutoff
      BY <2>1 DEF HistoryInv
    <2>3. History'
      BY <2>1, <2>2 DEF HistoryInv, History
    <2>4. cutoff' \in Nat
      BY <2>1 DEF HistoryInv
    <2>5. Expiring' /\ Recording' /\ Unacknowledged'
      BY <2>1 DEF Expiring, Recording, Unacknowledged
    <2> QED BY <2>1, <2>3, <2>4, <2>5 DEF HistoryInv
  <1>12. CASE BackupBegin \/ BackupSeal \/ ToolFails \/ BundleDecays \/ RestoreBegin \/ RestoreCopy \/ RestorePublish
    <2>1. UNCHANGED <<store, phase, kind, current, items, todo, cutoff, acked, pending>>
      BY <1>12 DEF BackupBegin, BackupSeal, ToolFails, BundleDecays, RestoreBegin, RestoreCopy,
                   RestorePublish, Idle, ledgerVars
    <2> QED BY <2>1, HistoryQuiet
  <1>13. CASE LateWrite
    <2>1. UNCHANGED <<phase, kind, current, items, todo, cutoff, acked, pending>>
      BY <1>13 DEF LateWrite, Idle, ledgerVars
    <2>2. store'.audit = store.audit
      BY <1>13 DEF LateWrite, ControlInv, StoreShape, StoreFields
    <2> QED BY <2>1, <2>2, HistoryQuiet
  <1>14. CASE UNCHANGED vars
    <2>1. UNCHANGED <<store, phase, kind, current, items, todo, cutoff, acked, pending>>
      BY <1>14 DEF vars
    <2> QED BY <2>1, HistoryQuiet
  <1> QED BY <1>1, <1>2, <1>3, <1>4, <1>5, <1>6, <1>7, <1>8, <1>9, <1>10, <1>11, <1>12, <1>13,
             <1>14 DEF Next

\* A ledger that verifies holds every acknowledged event that has not
\* expired, whatever appends failed, whatever was purged, rotated or
\* bootstrapped and wherever the process died (product_audit.py record,
\* purge_expired, anonymize_active_asset).
THEOREM AcknowledgedHistory == Spec => []LedgerIsHistory
  <1>1. Init => HistoryInv
    BY HistoryInit
  <1>2. ControlInv /\ HistoryInv /\ [Next]_vars => HistoryInv'
    BY HistoryStep
  <1>3. HistoryInv => LedgerIsHistory
    BY DEF HistoryInv, History, LedgerIsHistory
  <1> QED BY <1>1, <1>2, <1>3, ControlInvariant, PTL DEF Spec

(***************************************************************************)
(* No reference dangles between two writes.                                *)
(***************************************************************************)
SameRecords(s, t) ==
    /\ t.jobs = s.jobs /\ t.projects = s.projects
    /\ t.advisories = s.advisories /\ t.payloads = s.payloads

(* What hangs from a job goes before the job. *)
Unhooked(s, j) ==
    /\ j \notin s.advisories
    /\ \A p \in DOMAIN s.projects : s.projects[p].baseline \in (DOMAIN s.jobs \ {j}) \cup {None}
ResultsOrder ==
    phase = "working" /\ current = "results" =>
        \/ todo = <<>>
        \/ \E j : \/ todo \in {AdvisoryNext(j), SyncJobsNext(j)}
                  \/ todo = BaselineNext(j) /\ j \notin store.advisories
                  \/ todo \in {SyncProjNext(j), JobNext(j)} /\ Unhooked(store, j)

(* The references to a source say it is gone before it goes. *)
JobsSay(s, f) == \A j \in DOMAIN s.jobs : s.jobs[j].file = f => s.jobs[j].gone
SnapsSay(s, f) == \A p \in DOMAIN s.projects : \A n \in s.projects[p].snaps : n.file = f => n.gone
SourcesOrder ==
    phase = "working" /\ current = "sources" =>
        \/ todo = <<>>
        \/ \E f : \/ todo \in {MarkJobsNext(f), FileNext(f), SyncFilesNext(f)}
                  \/ todo \in {MarksSyncNext(f), MarkProjNext(f)} /\ JobsSay(store, f)
                  \/ todo \in {SnapsSyncNext(f), PayloadNext(f)} /\ JobsSay(store, f) /\ SnapsSay(store, f)

ReferenceInv == intact => References(store) /\ ResultsOrder /\ SourcesOrder

\* A directory the tool accepts has no dangling reference.
LEMMA ValidReferences ==
  ASSUME NEW s, ValidateDataStore(s)
  PROVE  References(s)
  <1>1. DOMAIN s.payloads = DOMAIN s.files
    BY DEF ValidateDataStore, ValidUploadedPayloads
  <1>2. s.advisories \subseteq DOMAIN s.jobs
    BY DEF ValidateDataStore, ValidPublicAdvisorySnapshots
  <1>3. \A p \in DOMAIN s.projects : s.projects[p].baseline \in DOMAIN s.jobs \cup {None}
    BY DEF ValidateDataStore, ValidProject
  <1>4. \A p \in DOMAIN s.projects : \A n \in s.projects[p].snaps : n.file \in DOMAIN s.payloads \/ n.gone
    BY <1>1 DEF ValidateDataStore, ValidProject
  <1>5. \A j \in DOMAIN s.jobs : s.jobs[j].file \in DOMAIN s.payloads \cup {None} \/ s.jobs[j].gone
    BY <1>1 DEF ValidateDataStore, ValidJob
  <1> QED BY <1>2, <1>3, <1>4, <1>5 DEF References

\* References depend on the records and the payloads only.
LEMMA SameReferences ==
  ASSUME NEW s, NEW t, SameRecords(s, t), References(s)
  PROVE  References(t)
  BY DEF SameRecords, References

\* The seeds an installation starts from have no dangling reference.
LEMMA ReferenceInit ==
  ASSUME Init
  PROVE  ReferenceInv
  <1>1. intact => ValidateDataStore(store)
    BY SeedsAssumption DEF Init
  <1> QED BY <1>1, ValidReferences DEF Init, ReferenceInv, ResultsOrder, SourcesOrder

\* Purging a job, write by write.
LEMMA ReferencesWriteJob ==
  ASSUME ControlInv, intact, References(store), ResultsOrder, WriteStep, current = "results"
  PROVE  References(store)' /\ ResultsOrder'
  <1>1. /\ UNCHANGED <<phase, current>> /\ phase = "working"
        /\ todo # <<>> /\ todo' = Tail(todo) /\ store' = Written(store, Head(todo))
    BY DEF WriteStep
  <1>2. StoreFields \subseteq DOMAIN store
    BY DEF ControlInv, StoreShape
  <1>3. PICK j : \/ todo \in {AdvisoryNext(j), SyncJobsNext(j)}
                 \/ todo = BaselineNext(j) /\ j \notin store.advisories
                 \/ todo \in {SyncProjNext(j), JobNext(j)} /\ Unhooked(store, j)
    BY <1>1 DEF ResultsOrder
  <1>4. CASE todo = AdvisoryNext(j)
    <2>1. Head(todo) = W("advisory", j) /\ todo' = BaselineNext(j)
      BY <1>1, <1>4, JobRestMoves
    <2>2. LET u == Written(store, W("advisory", j)) IN
          Only(store, u, {"advisories"}) /\ u.advisories = store.advisories \ {j}
      BY <1>2, WrittenAdvisory
    <2>3. Only(store, store', {"advisories"}) /\ store'.advisories = store.advisories \ {j}
      BY <1>1, <2>1, <2>2
    <2>4. store'.jobs = store.jobs /\ store'.projects = store.projects /\ store'.payloads = store.payloads
      BY <1>2, <2>3 DEF Only, StoreFields
    <2> QED BY <1>1, <2>1, <2>3, <2>4 DEF References, ResultsOrder
  <1>5. CASE todo = BaselineNext(j) /\ j \notin store.advisories
    <2>1. Head(todo) = W("baseline", j) /\ todo' = SyncProjNext(j)
      BY <1>1, <1>5, JobRestMoves
    <2>2. LET u == Written(store, W("baseline", j)) IN
          /\ Only(store, u, {"projects", "projectIdx"})
          /\ u.projects = [p \in DOMAIN store.projects |->
                             IF store.projects[p].baseline = j THEN [store.projects[p] EXCEPT !.baseline = None]
                             ELSE store.projects[p]]
          /\ u.projectIdx = IF \E p \in DOMAIN store.projects : store.projects[p].baseline = j
                            THEN Touched(store.projectIdx) ELSE store.projectIdx
      BY <1>2, WrittenBaseline
    <2>3. /\ Only(store, store', {"projects", "projectIdx"})
          /\ store'.projects = [p \in DOMAIN store.projects |->
                             IF store.projects[p].baseline = j THEN [store.projects[p] EXCEPT !.baseline = None]
                             ELSE store.projects[p]]
      BY <1>1, <2>1, <2>2
    <2>4. store'.jobs = store.jobs /\ store'.advisories = store.advisories /\ store'.payloads = store.payloads
      BY <1>2, <2>3 DEF Only, StoreFields
    <2>5. \A p \in DOMAIN store.projects : ProjectFields \subseteq DOMAIN store.projects[p]
      BY DEF ControlInv, StoreShape
    <2>6. /\ DOMAIN store'.projects = DOMAIN store.projects
          /\ \A p \in DOMAIN store.projects :
                /\ store'.projects[p].snaps = store.projects[p].snaps
                /\ store'.projects[p].baseline = IF store.projects[p].baseline = j THEN None
                                                 ELSE store.projects[p].baseline
      BY <2>3, <2>5 DEF ProjectFields
    <2>7. Unhooked(store', j)
      BY <1>5, <2>4, <2>6 DEF Unhooked, References
    <2> QED BY <1>1, <2>1, <2>4, <2>6, <2>7 DEF References, ResultsOrder
  <1>6. CASE todo = SyncProjNext(j) /\ Unhooked(store, j)
    <2>1. Head(todo) = W("syncProj", j) /\ todo' = JobNext(j)
      BY <1>1, <1>6, JobRestMoves
    <2>2. LET u == Written(store, W("syncProj", j)) IN Only(store, u, {"projectIdx"})
      BY <1>2, WrittenSync
    <2>3. SameRecords(store, store')
      BY <1>1, <1>2, <2>1, <2>2 DEF Only, StoreFields, SameRecords
    <2>4. Unhooked(store', j)
      BY <1>6, <2>3 DEF Unhooked, SameRecords
    <2> QED BY <1>1, <2>1, <2>3, <2>4, SameReferences DEF ResultsOrder
  <1>7. CASE todo = JobNext(j) /\ Unhooked(store, j)
    <2>1. Head(todo) = W("job", j) /\ todo' = SyncJobsNext(j)
      BY <1>1, <1>7, JobRestMoves
    <2>2. LET u == Written(store, W("job", j)) IN
          Only(store, u, {"jobs", "jobIdx"}) /\ u.jobs = Without(store.jobs, j)
      BY <1>2, WrittenJob
    <2>3. Only(store, store', {"jobs", "jobIdx"}) /\ store'.jobs = Without(store.jobs, j)
      BY <1>1, <2>1, <2>2
    <2>4. store'.projects = store.projects /\ store'.advisories = store.advisories /\ store'.payloads = store.payloads
      BY <1>2, <2>3 DEF Only, StoreFields
    <2>5. /\ DOMAIN store'.jobs = DOMAIN store.jobs \ {j}
          /\ \A k \in DOMAIN store'.jobs : store'.jobs[k] = store.jobs[k]
      BY <2>3 DEF Without, Drop
    <2>6. References(store)'
      BY <1>7, <2>4, <2>5 DEF References, Unhooked
    <2> QED BY <1>1, <2>1, <2>6 DEF ResultsOrder
  <1>8. CASE todo = SyncJobsNext(j)
    <2>1. Head(todo) = W("syncJobs", j) /\ todo' = <<>>
      BY <1>1, <1>8, JobRestMoves
    <2>2. LET u == Written(store, W("syncJobs", j)) IN Only(store, u, {"jobIdx"})
      BY <1>2, WrittenSync
    <2>3. SameRecords(store, store')
      BY <1>1, <1>2, <2>1, <2>2 DEF Only, StoreFields, SameRecords
    <2> QED BY <1>1, <2>1, <2>3, SameReferences DEF ResultsOrder
  <1> QED BY <1>3, <1>4, <1>5, <1>6, <1>7, <1>8

\* Purging a source, write by write.
LEMMA ReferencesWriteFile ==
  ASSUME ControlInv, intact, References(store), SourcesOrder, WriteStep, current = "sources"
  PROVE  References(store)' /\ SourcesOrder'
  <1>1. /\ UNCHANGED <<phase, current>> /\ phase = "working"
        /\ todo # <<>> /\ todo' = Tail(todo) /\ store' = Written(store, Head(todo))
    BY DEF WriteStep
  <1>2. StoreFields \subseteq DOMAIN store
    BY DEF ControlInv, StoreShape
  <1>3. PICK f : \/ todo \in {MarkJobsNext(f), FileNext(f), SyncFilesNext(f)}
                 \/ todo \in {MarksSyncNext(f), MarkProjNext(f)} /\ JobsSay(store, f)
                 \/ todo \in {SnapsSyncNext(f), PayloadNext(f)} /\ JobsSay(store, f) /\ SnapsSay(store, f)
    BY <1>1 DEF SourcesOrder
  <1>4. CASE todo = MarkJobsNext(f)
    <2>1. Head(todo) = W("markJobs", f) /\ todo' = MarksSyncNext(f)
      BY <1>1, <1>4, FileRestMoves
    <2>2. LET u == Written(store, W("markJobs", f)) IN
          /\ Only(store, u, {"jobs", "jobIdx"})
          /\ u.jobs = [j \in DOMAIN store.jobs |->
                         IF j \in Unmarked(store, f) THEN [store.jobs[j] EXCEPT !.gone = TRUE] ELSE store.jobs[j]]
      BY <1>2, WrittenMarkJobs
    <2>3. /\ Only(store, store', {"jobs", "jobIdx"})
          /\ store'.jobs = [j \in DOMAIN store.jobs |->
                         IF j \in Unmarked(store, f) THEN [store.jobs[j] EXCEPT !.gone = TRUE] ELSE store.jobs[j]]
      BY <1>1, <2>1, <2>2
    <2>4. /\ store'.projects = store.projects /\ store'.advisories = store.advisories
          /\ store'.payloads = store.payloads
      BY <1>2, <2>3 DEF Only, StoreFields
    <2>5. \A j \in DOMAIN store.jobs : JobFields \subseteq DOMAIN store.jobs[j]
      BY DEF ControlInv, StoreShape
    <2>6. /\ DOMAIN store'.jobs = DOMAIN store.jobs
          /\ \A j \in DOMAIN store.jobs :
                /\ store'.jobs[j].file = store.jobs[j].file
                /\ store.jobs[j].gone => store'.jobs[j].gone
                /\ store.jobs[j].file = f => store'.jobs[j].gone
      BY <2>3, <2>5 DEF JobFields, Unmarked
    <2>7. JobsSay(store', f)
      BY <2>6 DEF JobsSay
    <2>8. References(store)'
      BY <2>4, <2>6 DEF References
    <2> QED BY <1>1, <2>1, <2>7, <2>8 DEF SourcesOrder
  <1>5. CASE todo = MarksSyncNext(f) /\ JobsSay(store, f)
    <2>1. Head(todo) = W("syncJobs", f) /\ todo' = MarkProjNext(f)
      BY <1>1, <1>5, FileRestMoves
    <2>2. LET u == Written(store, W("syncJobs", f)) IN Only(store, u, {"jobIdx"})
      BY <1>2, WrittenSync
    <2>3. SameRecords(store, store')
      BY <1>1, <1>2, <2>1, <2>2 DEF Only, StoreFields, SameRecords
    <2>4. JobsSay(store', f)
      BY <1>5, <2>3 DEF JobsSay, SameRecords
    <2> QED BY <1>1, <2>1, <2>3, <2>4, SameReferences DEF SourcesOrder
  <1>6. CASE todo = MarkProjNext(f) /\ JobsSay(store, f)
    <2>1. Head(todo) = W("markProj", f) /\ todo' = SnapsSyncNext(f)
      BY <1>1, <1>6, FileRestMoves
    <2>2. LET u == Written(store, W("markProj", f)) IN
          /\ Only(store, u, {"projects", "projectIdx"})
          /\ u.projects = [p \in DOMAIN store.projects |->
               [store.projects[p] EXCEPT !.snaps =
                  {IF n.file = f THEN [n EXCEPT !.gone = TRUE] ELSE n : n \in store.projects[p].snaps}]]
      BY <1>2, WrittenMarkProj
    <2>3. /\ Only(store, store', {"projects", "projectIdx"})
          /\ store'.projects = [p \in DOMAIN store.projects |->
               [store.projects[p] EXCEPT !.snaps =
                  {IF n.file = f THEN [n EXCEPT !.gone = TRUE] ELSE n : n \in store.projects[p].snaps}]]
      BY <1>1, <2>1, <2>2
    <2>4. store'.jobs = store.jobs /\ store'.advisories = store.advisories /\ store'.payloads = store.payloads
      BY <1>2, <2>3 DEF Only, StoreFields
    <2>5. \A p \in DOMAIN store.projects :
             /\ ProjectFields \subseteq DOMAIN store.projects[p]
             /\ \A n \in store.projects[p].snaps : SnapFields \subseteq DOMAIN n
      BY DEF ControlInv, StoreShape
    <2>6. /\ DOMAIN store'.projects = DOMAIN store.projects
          /\ \A p \in DOMAIN store.projects :
                /\ store'.projects[p].baseline = store.projects[p].baseline
                /\ store'.projects[p].snaps =
                     {IF n.file = f THEN [n EXCEPT !.gone = TRUE] ELSE n : n \in store.projects[p].snaps}
      BY <2>3, <2>5 DEF ProjectFields
    <2>7. \A p \in DOMAIN store.projects : \A m \in store'.projects[p].snaps :
             \E n \in store.projects[p].snaps :
                m.file = n.file /\ (n.gone => m.gone) /\ (n.file = f => m.gone)
      <3> SUFFICES ASSUME NEW p \in DOMAIN store.projects, NEW m \in store'.projects[p].snaps
                   PROVE  \E n \in store.projects[p].snaps :
                             m.file = n.file /\ (n.gone => m.gone) /\ (n.file = f => m.gone)
        OBVIOUS
      <3>1. PICK n \in store.projects[p].snaps : m = IF n.file = f THEN [n EXCEPT !.gone = TRUE] ELSE n
        BY <2>6
      <3>2. SnapFields \subseteq DOMAIN n
        BY <2>5
      <3> QED BY <3>1, <3>2 DEF SnapFields
    <2>8. SnapsSay(store', f)
      BY <2>6, <2>7 DEF SnapsSay
    <2>9. References(store)'
      BY <2>4, <2>6, <2>7 DEF References
    <2>10. JobsSay(store', f)
      BY <1>6, <2>4 DEF JobsSay
    <2> QED BY <1>1, <2>1, <2>8, <2>9, <2>10 DEF SourcesOrder
  <1>7. CASE todo = SnapsSyncNext(f) /\ JobsSay(store, f) /\ SnapsSay(store, f)
    <2>1. Head(todo) = W("syncProj", f) /\ todo' = PayloadNext(f)
      BY <1>1, <1>7, FileRestMoves
    <2>2. LET u == Written(store, W("syncProj", f)) IN Only(store, u, {"projectIdx"})
      BY <1>2, WrittenSync
    <2>3. SameRecords(store, store')
      BY <1>1, <1>2, <2>1, <2>2 DEF Only, StoreFields, SameRecords
    <2>4. JobsSay(store', f) /\ SnapsSay(store', f)
      BY <1>7, <2>3 DEF JobsSay, SnapsSay, SameRecords
    <2> QED BY <1>1, <2>1, <2>3, <2>4, SameReferences DEF SourcesOrder
  <1>8. CASE todo = PayloadNext(f) /\ JobsSay(store, f) /\ SnapsSay(store, f)
    <2>1. Head(todo) = W("payload", f) /\ todo' = FileNext(f)
      BY <1>1, <1>8, FileRestMoves
    <2>2. LET u == Written(store, W("payload", f)) IN
          Only(store, u, {"payloads"}) /\ u.payloads = Without(store.payloads, f)
      BY <1>2, WrittenPayload
    <2>3. Only(store, store', {"payloads"}) /\ store'.payloads = Without(store.payloads, f)
      BY <1>1, <2>1, <2>2
    <2>4. store'.jobs = store.jobs /\ store'.projects = store.projects /\ store'.advisories = store.advisories
      BY <1>2, <2>3 DEF Only, StoreFields
    <2>5. DOMAIN store'.payloads = DOMAIN store.payloads \ {f}
      BY <2>3 DEF Without, Drop
    <2>6. \A j \in DOMAIN store.jobs :
             store.jobs[j].file \in DOMAIN store'.payloads \cup {None} \/ store.jobs[j].gone
      BY <1>8, <2>5 DEF References, JobsSay
    <2>7. \A p \in DOMAIN store.projects : \A n \in store.projects[p].snaps :
             n.file \in DOMAIN store'.payloads \/ n.gone
      BY <1>8, <2>5 DEF References, SnapsSay
    <2>8. References(store)'
      BY <2>4, <2>6, <2>7 DEF References
    <2> QED BY <1>1, <2>1, <2>8 DEF SourcesOrder
  <1>9. CASE todo = FileNext(f)
    <2>1. Head(todo) = W("file", f) /\ todo' = SyncFilesNext(f)
      BY <1>1, <1>9, FileRestMoves
    <2>2. LET u == Written(store, W("file", f)) IN Only(store, u, {"files", "fileIdx"})
      BY <1>2, WrittenFile
    <2>3. SameRecords(store, store')
      BY <1>1, <1>2, <2>1, <2>2 DEF Only, StoreFields, SameRecords
    <2> QED BY <1>1, <2>1, <2>3, SameReferences DEF SourcesOrder
  <1>10. CASE todo = SyncFilesNext(f)
    <2>1. Head(todo) = W("syncFiles", f) /\ todo' = <<>>
      BY <1>1, <1>10, FileRestMoves
    <2>2. LET u == Written(store, W("syncFiles", f)) IN Only(store, u, {"fileIdx"})
      BY <1>2, WrittenSync
    <2>3. SameRecords(store, store')
      BY <1>1, <1>2, <2>1, <2>2 DEF Only, StoreFields, SameRecords
    <2> QED BY <1>1, <2>1, <2>3, SameReferences DEF SourcesOrder
  <1> QED BY <1>3, <1>4, <1>5, <1>6, <1>7, <1>8, <1>9, <1>10

\* The other classes write no record.
LEMMA OtherWritesKeepRecords ==
  ASSUME ControlInv, WriteStep, current \notin {"results", "sources"}
  PROVE  SameRecords(store, store')
  <1>1. todo # <<>> /\ store' = Written(store, Head(todo))
    BY DEF WriteStep
  <1>2. StoreFields \subseteq DOMAIN store /\ {"key", "receipts"} \subseteq DOMAIN store.weekly
    BY DEF ControlInv, StoreShape
  <1>3. CASE current \in LedgerClasses
    <2>1. Only(store, store', {"audit"})
      BY <1>1, <1>3, WriteSides
    <2> QED BY <1>2, <2>1 DEF Only, StoreFields, SameRecords
  <1>4. CASE current \in {"tokens", "invites", "approvals", "weekly"}
    <2>1. todo = ClassNext(current)
      BY <1>1, <1>4 DEF ControlInv, Control, TodoForm
    <2>2. Head(todo) = W(current, None)
      BY <2>1, OtherRestMoves
    <2>3. Only(store, store', {"auth", "approvals", "weekly"})
      BY <1>1, <1>2, <1>4, <2>2, WrittenAuth DEF Only
    <2> QED BY <1>2, <2>3 DEF Only, StoreFields, SameRecords
  <1> QED BY <1>1, <1>3, <1>4, WriteSides DEF RecordClasses

\* Every step keeps the order in which references go before what they name.
LEMMA ReferenceStep ==
  ASSUME ControlInv, ReferenceInv, [Next]_vars
  PROVE  ReferenceInv'
  <1>0. UNCHANGED intact
    BY DEF Next, vars, StartService, RunRetention, RecordAction, AnonymizeAsset, BeginClass, TakeItem,
           WriteStep, WriteFails, Finish, Crash, StopService, Tick, BackupBegin, LateWrite, BackupSeal,
           ToolFails, BundleDecays, RestoreBegin, RestoreCopy, RestorePublish
  <1> SUFFICES ASSUME intact PROVE References(store)' /\ ResultsOrder' /\ SourcesOrder'
    BY <1>0 DEF ReferenceInv
  <1>1. References(store) /\ ResultsOrder /\ SourcesOrder
    BY DEF ReferenceInv
  <1>2. StoreFields \subseteq DOMAIN store
    BY DEF ControlInv, StoreShape
  <1>3. ASSUME SameRecords(store, store'), todo' = <<>> \/ current' \notin {"results", "sources"}
        PROVE  References(store)' /\ ResultsOrder' /\ SourcesOrder'
    BY <1>1, <1>3, SameReferences DEF ResultsOrder, SourcesOrder
  <1>4. CASE StartService \/ RunRetention \/ RecordAction \/ Finish \/ Crash \/ StopService \/ Tick
    <2>1. store' = store /\ todo' = <<>>
      BY <1>4 DEF StartService, RunRetention, RecordAction, Finish, Crash, StopService, Tick, Idle,
                  ControlInv, Control
    <2> QED BY <1>3, <2>1 DEF SameRecords
  <1>5. CASE AnonymizeAsset
    <2>1. store' = [store EXCEPT !.audit = Ensured(store.audit)] /\ current' = "anonymize"
      BY <1>5 DEF AnonymizeAsset
    <2>2. SameRecords(store, store')
      BY <1>2, <2>1 DEF SameRecords, StoreFields
    <2> QED BY <1>3, <2>1, <2>2
  <1>6. CASE BeginClass
    <2>1. /\ store' = Prepared(Head(classes)) /\ current' = Head(classes)
          /\ todo' = Plan(Head(classes), store') \/ todo' = <<>>
      BY <1>6, BeginClassIs
    <2>2. Only(store, store', {"jobIdx", "projectIdx", "fileIdx", "audit"})
      BY <2>1, PreparedIs DEF ControlInv
    <2>3. SameRecords(store, store')
      BY <1>2, <2>2 DEF SameRecords, StoreFields, Only
    <2>4. todo' = <<>> \/ current' \notin {"results", "sources"}
      BY <2>1, PlanIs
    <2> QED BY <1>3, <2>3, <2>4
  <1>7. CASE TakeItem
    <2>1. /\ UNCHANGED <<store, phase, current>> /\ \E x : todo' = WritesOf(current, store, x)
      BY <1>7 DEF TakeItem
    <2>2. PICK x : todo' = WritesOf(current, store, x)
      BY <2>1
    <2>3. ResultsOrder'
      BY <2>1, <2>2, WritesOfIs DEF ResultsOrder
    <2>4. SourcesOrder'
      BY <2>1, <2>2, WritesOfIs DEF SourcesOrder
    <2> QED BY <1>1, <2>1, <2>3, <2>4
  <1>8. CASE WriteStep
    <2>1. current' = current
      BY <1>8 DEF WriteStep
    <2>2. CASE current = "results"
      BY <1>1, <1>8, <2>1, <2>2, ReferencesWriteJob DEF SourcesOrder
    <2>3. CASE current = "sources"
      BY <1>1, <1>8, <2>1, <2>3, ReferencesWriteFile DEF ResultsOrder
    <2>4. CASE current \notin {"results", "sources"}
      BY <1>3, <1>8, <2>1, <2>4, OtherWritesKeepRecords
    <2> QED BY <2>2, <2>3, <2>4
  <1>9. CASE WriteFails
    <2>1. store' = Undone(store) /\ todo' = <<>>
      BY <1>9 DEF WriteFails
    <2>2. Only(store, store', {"audit"})
      BY <2>1, UndoneIs DEF ControlInv, Only
    <2>3. SameRecords(store, store')
      BY <1>2, <2>2 DEF SameRecords, StoreFields, Only
    <2> QED BY <1>3, <2>1, <2>3
  <1>10. CASE BackupBegin \/ BackupSeal \/ ToolFails \/ BundleDecays \/ RestoreBegin \/ RestoreCopy
              \/ RestorePublish \/ UNCHANGED vars
    <2>1. UNCHANGED <<store, phase, current, todo>>
      BY <1>10 DEF BackupBegin, BackupSeal, ToolFails, BundleDecays, RestoreBegin, RestoreCopy,
                   RestorePublish, Idle, vars
    <2> QED BY <1>1, <2>1 DEF ResultsOrder, SourcesOrder
  <1>11. CASE LateWrite
    <2>1. todo' = <<>>
      BY <1>11 DEF LateWrite, Idle, ControlInv, Control
    <2>2. References(store)'
      <3>1. CASE \E j \in DOMAIN store.jobs : store' = [store EXCEPT !.advisories = @ \cup {j}]
        BY <1>1, <1>2, <3>1 DEF References, StoreFields
      <3>2. CASE \E u \in store.auth.users : store' = [store EXCEPT !.auth.sessions = @ \cup {u}]
        <4>1. SameRecords(store, store')
          BY <1>2, <3>2 DEF SameRecords, StoreFields
        <4> QED BY <1>1, <4>1, SameReferences
      <3> QED BY <1>11, <3>1, <3>2 DEF LateWrite
    <2> QED BY <2>1, <2>2 DEF ResultsOrder, SourcesOrder
  <1> QED BY <1>4, <1>5, <1>6, <1>7, <1>8, <1>9, <1>10, <1>11 DEF Next

\* No advisory snapshot or baseline names a purged analysis and no project or
\* job names bytes that are gone without saying so, between any two writes of
\* retention and after any crash or failed write (retention.py, the
\* before_delete callbacks; storage.py purge_expired).
THEOREM NoDanglingReference == Spec => []ReferencesHold
  <1>1. Init => ReferenceInv
    BY ReferenceInit
  <1>2. ControlInv /\ ReferenceInv /\ [Next]_vars => ReferenceInv'
    BY ReferenceStep
  <1>3. ReferenceInv => ReferencesHold
    BY DEF ReferenceInv, ReferencesHold
  <1> QED BY <1>1, <1>2, <1>3, ControlInvariant, PTL DEF Spec

(***************************************************************************)
(* A restored directory is the sealed one.                                 *)
(***************************************************************************)
(* A directory at rest, with the fields a restore rewrites. *)
Sealable(s) ==
    /\ StoreFields \subseteq DOMAIN s
    /\ s.auth # None => AuthFields \subseteq DOMAIN s.auth
    /\ Quiescent(s)

Sealed == bundle # None /\ {"content", "manifest"} \subseteq DOMAIN bundle /\ Sealable(bundle.manifest)

RestoreInv ==
    /\ {"op", "payload"} \subseteq DOMAIN tool
    /\ bundle # None => Sealed
    /\ tool.op = "backup" => bundle = None /\ Sealable(tool.payload)
    /\ tool.op = "restore" => Sealed /\ restored = None /\ tool.payload \in {None, bundle.manifest}
    /\ restored # None =>
          Sealed /\ restored = Revoked(bundle.manifest) /\ ValidateDataStore(restored)

\* A restored directory has no session, no attempt and no invitation.
LEMMA RevokedIs ==
  ASSUME NEW s, Sealable(s)
  PROVE  /\ Only(s, Revoked(s), {"auth"})
         /\ Revoked(s).auth = None \/ Revoked(s).auth.sessions \cup Revoked(s).auth.invitations = {}
  <1>1. CASE s.auth = None
    BY <1>1 DEF Revoked, Only
  <1>2. CASE s.auth # None
    <2>1. "auth" \in DOMAIN s /\ {"sessions", "attempts", "invitations"} \subseteq DOMAIN s.auth
      BY <1>2 DEF Sealable, StoreFields, AuthFields
    <2>2. Revoked(s) = [s EXCEPT !.auth.sessions = {}, !.auth.attempts = {}, !.auth.invitations = {}]
      BY <1>2 DEF Revoked
    <2> QED BY <2>1, <2>2 DEF Only
  <1> QED BY <1>1, <1>2

\* What a backup copies of a directory at rest is at rest.
LEMMA DurableIs ==
  ASSUME NEW s, StoreShape(s), Quiescent(s)
  PROVE  Sealable(Durable(s))
  <1> DEFINE t == Durable(s)
  <1>1. Only(s, t, {"outbox", "journals", "workspaces"}) /\ t.outbox = {} /\ t.journals = {} /\ t.workspaces = {}
    BY DEF Durable, Only, StoreShape, StoreFields
  <1> HIDE DEF t
  <1>2. t.jobs = s.jobs /\ t.plans = s.plans /\ t.companions = s.companions /\ t.auth = s.auth
    BY <1>1 DEF Only, StoreShape, StoreFields
  <1>3. Sealable(t)
    BY <1>1, <1>2 DEF Sealable, StoreShape, Only, Quiescent, OutboxSafeToExclude
  <1> QED BY <1>3 DEF t

\* The identity file is copied last.
LEMMA SealedIs ==
  ASSUME NEW s, Sealable(s), NEW auth, auth # None => AuthFields \subseteq DOMAIN auth
  PROVE  Sealable([s EXCEPT !.auth = auth])
  <1> DEFINE t == [s EXCEPT !.auth = auth]
  <1>1. Only(s, t, {"auth"}) /\ t.auth = auth
    BY DEF Sealable, StoreFields, Only
  <1> HIDE DEF t
  <1>2. /\ t.jobs = s.jobs /\ t.plans = s.plans /\ t.companions = s.companions
        /\ t.outbox = s.outbox /\ t.journals = s.journals /\ t.workspaces = s.workspaces
    BY <1>1 DEF Only, Sealable, StoreFields
  <1>3. Sealable(t)
    BY <1>1, <1>2 DEF Sealable, Only, Quiescent, OutboxSafeToExclude
  <1> QED BY <1>3 DEF t

\* Every step of the service and of the tool keeps the sealed bundle and what is restored from it.
LEMMA RestoreStep ==
  ASSUME ControlInv, RestoreInv, [Next]_vars
  PROVE  RestoreInv'
  <1>1. CASE UNCHANGED toolVars
    BY <1>1 DEF RestoreInv, Sealed, toolVars
  <1>2. CASE BackupBegin
    <2>1. /\ bundle = None /\ bundle' = bundle /\ restored' = restored
          /\ tool' = [op |-> "backup", payload |-> Durable(store)]
      BY <1>2 DEF BackupBegin
    <2>2. Sealable(Durable(store))
      BY <1>2, DurableIs DEF BackupBegin, ControlInv
    <2>3. tool'.op = "backup" /\ tool'.payload = Durable(store) /\ {"op", "payload"} \subseteq DOMAIN tool'
      BY <2>1
    <2> QED BY <2>1, <2>2, <2>3 DEF RestoreInv, Sealed
  <1>3. CASE BackupSeal
    <2> DEFINE payload == [tool.payload EXCEPT !.auth = store.auth]
    <2>1. /\ tool.op = "backup" /\ tool' = NoTool /\ restored' = restored
          /\ bundle' = IF ValidateDataStore(payload) THEN [content |-> payload, manifest |-> payload] ELSE None
      BY <1>3 DEF BackupSeal
    <2>2. Sealable(payload)
      BY <2>1, SealedIs DEF RestoreInv, ControlInv, StoreShape
    <2> HIDE DEF payload
    <2>3. tool'.op = "idle" /\ {"op", "payload"} \subseteq DOMAIN tool'
      BY <2>1 DEF NoTool
    <2>4. bundle' # None => Sealed'
      BY <2>1, <2>2 DEF Sealed
    <2>5. restored = None
      BY <2>1 DEF RestoreInv, Sealed
    <2> QED BY <2>1, <2>3, <2>4, <2>5 DEF RestoreInv
  <1>4. CASE ToolFails
    <2>1. tool'.op = "idle" /\ {"op", "payload"} \subseteq DOMAIN tool' /\ UNCHANGED <<bundle, restored>>
      BY <1>4 DEF ToolFails, NoTool
    <2> QED BY <2>1 DEF RestoreInv, Sealed
  <1>5. CASE BundleDecays
    <2>1. bundle # None /\ restored = None /\ UNCHANGED <<tool, restored>>
      BY <1>5 DEF BundleDecays
    <2>2. "manifest" \in DOMAIN bundle
      BY <2>1 DEF RestoreInv, Sealed
    <2>3. DOMAIN bundle' = DOMAIN bundle /\ bundle'.manifest = bundle.manifest /\ bundle' # None
      <3>1. CASE \E f \in DOMAIN bundle.content.payloads :
                    bundle' = [bundle EXCEPT !.content.payloads[f] = "rot"]
        BY <1>5, <2>2, <3>1 DEF BundleDecays
      <3>2. CASE \E j \in bundle.content.advisories :
                    bundle' = [bundle EXCEPT !.content.advisories = @ \ {j}]
        BY <1>5, <2>2, <3>2 DEF BundleDecays
      <3> QED BY <1>5, <3>1, <3>2 DEF BundleDecays
    <2> QED BY <2>1, <2>3 DEF RestoreInv, Sealed
  <1>6. CASE RestoreBegin
    <2>1. /\ bundle # None /\ restored = None /\ UNCHANGED <<bundle, restored>>
          /\ tool' = [op |-> "restore", payload |-> None]
      BY <1>6 DEF RestoreBegin
    <2>2. tool'.op = "restore" /\ tool'.payload = None /\ {"op", "payload"} \subseteq DOMAIN tool'
      BY <2>1
    <2> QED BY <2>1, <2>2 DEF RestoreInv, Sealed
  <1>7. CASE RestoreCopy
    <2>1. /\ tool.op = "restore" /\ UNCHANGED <<bundle, restored>>
          /\ \/ tool' = [tool EXCEPT !.payload = bundle.content] /\ bundle.content = bundle.manifest
             \/ tool' = NoTool
      BY <1>7 DEF RestoreCopy, RestoreCopyMatches
    <2>2. CASE tool' = [tool EXCEPT !.payload = bundle.content] /\ bundle.content = bundle.manifest
      BY <2>1, <2>2 DEF RestoreInv, Sealed
    <2>3. CASE tool' = NoTool
      <3>1. tool'.op = "idle" /\ {"op", "payload"} \subseteq DOMAIN tool'
        BY <2>3 DEF NoTool
      <3> QED BY <2>1, <3>1 DEF RestoreInv, Sealed
    <2> QED BY <2>1, <2>2, <2>3
  <1>8. CASE RestorePublish
    <2>1. /\ tool.op = "restore" /\ tool.payload # None /\ bundle' = bundle /\ tool' = NoTool
          /\ restored' = IF ValidateDataStore(Revoked(tool.payload)) THEN Revoked(tool.payload) ELSE None
      BY <1>8 DEF RestorePublish
    <2>2. tool.payload = bundle.manifest /\ Sealed
      BY <2>1 DEF RestoreInv
    <2>3. tool'.op = "idle" /\ {"op", "payload"} \subseteq DOMAIN tool'
      BY <2>1 DEF NoTool
    <2> QED BY <2>1, <2>2, <2>3 DEF RestoreInv, Sealed
  <1> QED BY <1>1, <1>2, <1>3, <1>4, <1>5, <1>6, <1>7, <1>8
          DEF Next, vars, toolVars, StartService, RunRetention, RecordAction, AnonymizeAsset, BeginClass,
              TakeItem, WriteStep, WriteFails, Finish, Crash, StopService, Tick, LateWrite

\* A restored directory is the one the bundle was sealed from with nobody
\* signed in or invited, and its references hold, although the bundle may
\* have decayed before or while it was read and a writer that takes no lock
\* may have been at work (backup.py create_backup, restore_backup).
THEOREM FaithfulRestore == Spec => []RestoredIsFaithful
  <1>1. Init => RestoreInv
    BY DEF Init, RestoreInv, NoTool
  <1>2. ControlInv /\ RestoreInv /\ [Next]_vars => RestoreInv'
    BY RestoreStep
  <1>3. RestoreInv => RestoredIsFaithful
    <2> SUFFICES ASSUME RestoreInv, restored # None
                 PROVE  /\ restored = Revoked(bundle.manifest)
                        /\ restored.auth = None \/ restored.auth.sessions \cup restored.auth.invitations = {}
                        /\ References(restored)
                        /\ Quiescent(restored)
      BY DEF RestoredIsFaithful
    <2> DEFINE s == bundle.manifest
    <2>1. restored = Revoked(s) /\ Sealable(s) /\ ValidateDataStore(restored)
      BY DEF RestoreInv, Sealed
    <2> HIDE DEF s
    <2>2. /\ Only(s, restored, {"auth"})
          /\ restored.auth = None \/ restored.auth.sessions \cup restored.auth.invitations = {}
      BY <2>1, RevokedIs
    <2>3. /\ restored.jobs = s.jobs /\ restored.plans = s.plans /\ restored.companions = s.companions
          /\ restored.outbox = s.outbox /\ restored.journals = s.journals /\ restored.workspaces = s.workspaces
      BY <2>1, <2>2 DEF Only, Sealable, StoreFields
    <2>4. Quiescent(restored)
      BY <2>1, <2>3 DEF Sealable, Quiescent, OutboxSafeToExclude
    <2> QED BY <2>1, <2>2, <2>4, ValidReferences DEF s
  <1> QED BY <1>1, <1>2, <1>3, ControlInvariant, PTL DEF Spec

-----------------------------------------------------------------------------
(***************************************************************************)
(* The derived indexes (DerivedIndexes).                                   *)
(***************************************************************************)
(* The rows of the index file and the rows of the records agree, but for   *)
(* some identifiers.                                                       *)
AgreesBut(S) ==
    \A x : x \notin S =>
        /\ x \in DOMAIN file.rows <=> x \in DOMAIN records
        /\ x \in DOMAIN records => file.rows[x] = Table[x]

Underway == IF writing = None THEN {} ELSE {writing}

(* A process that has used the index keeps it up to date; a file it has    *)
(* not used yet is as good as its stat says.                               *)
IndexInv ==
    /\ ixKind \in Kinds /\ dir \in Nat
    /\ None \notin DOMAIN records
    /\ mem # None => mem \in Nat /\ mem <= dir /\ (writing # None => mem < dir)
    /\ file # None =>
        /\ {"rows", "marker"} \subseteq DOMAIN file
        /\ file.rows = [x \in DOMAIN file.rows |-> file.rows[x]]
        /\ file.marker \in Nat /\ file.marker <= dir /\ (writing # None => file.marker < dir)
        /\ mem # None => AgreesBut(missed \cup Underway)
        /\ file.marker = dir => AgreesBut(missed)

(* The index a query would use as it stands is the table of the records,   *)
(* unless the row of a record and the rebuild after it both failed.        *)
IndexIsFaithful ==
    writing = None /\ missed = {} /\ (Adopts \/ Trusts) => file.rows = Table

\* A table has one row for each record, and the row depends on nothing else.
LEMMA TableRows ==
  ASSUME NEW k \in Kinds, NEW rs, NEW ss
  PROVE  /\ DOMAIN TableOf(k, rs) = DOMAIN rs
         /\ \A x \in DOMAIN rs \cap DOMAIN ss : rs[x] = ss[x] => TableOf(k, rs)[x] = TableOf(k, ss)[x]
         /\ \E f : TableOf(k, rs) = [x \in DOMAIN rs |-> f[x]]
  <1>1. k \in {"jobs", "projects", "files", "verifications", "recurrences"}
    BY DerivedIndexesAssumption
  <1>2. CASE k = "jobs"
    <2>1. TableOf(k, rs) = JobTable(rs) /\ TableOf(k, ss) = JobTable(ss)
      BY <1>2 DEF TableOf
    <2> QED BY <2>1 DEF JobTable
  <1>3. CASE k = "projects"
    <2>1. TableOf(k, rs) = ProjectTable(rs) /\ TableOf(k, ss) = ProjectTable(ss)
      BY <1>3 DEF TableOf
    <2> QED BY <2>1 DEF ProjectTable
  <1>4. CASE k = "files"
    <2>1. TableOf(k, rs) = FileTable(rs) /\ TableOf(k, ss) = FileTable(ss)
      BY <1>4 DEF TableOf
    <2> QED BY <2>1 DEF FileTable
  <1>5. CASE k = "verifications"
    <2>1. TableOf(k, rs) = VerificationTable(rs) /\ TableOf(k, ss) = VerificationTable(ss)
      BY <1>5 DEF TableOf
    <2> QED BY <2>1 DEF VerificationTable
  <1>6. CASE k = "recurrences"
    <2>1. TableOf(k, rs) = RecurrenceTable(rs) /\ TableOf(k, ss) = RecurrenceTable(ss)
      BY <1>6 DEF TableOf
    <2> QED BY <2>1 DEF RecurrenceTable
  <1> QED BY <1>1, <1>2, <1>3, <1>4, <1>5, <1>6

\* A rebuilt file is the table of the records.
LEMMA RebuiltHolds ==
  ASSUME IndexInv, file' = Rebuilt, mem' = dir, writing' = None,
         UNCHANGED <<ixKind, records, dir>>
  PROVE  IndexInv'
  <1>1. DOMAIN Table = DOMAIN records /\ Table = [x \in DOMAIN Table |-> Table[x]] /\ Table' = Table
    BY TableRows DEF IndexInv, Table
  <1>2. file'.rows = Table /\ file'.marker = dir /\ DOMAIN file' = {"rows", "marker"}
    BY DEF Rebuilt
  <1>3. \A S : AgreesBut(S)'
    BY <1>1, <1>2 DEF AgreesBut
  <1> QED BY <1>1, <1>2, <1>3 DEF IndexInv

\* _ensure_current leaves an index that holds.
LEMMA CurrentHolds ==
  ASSUME IndexInv, IndexIsCurrent, writing' = None, UNCHANGED <<ixKind, records, dir>>
  PROVE  IndexInv'
  <1>1. CASE Adopts \/ Trusts
    <2>1. mem' = dir /\ file' = file /\ missed' = missed
      BY <1>1 DEF IndexIsCurrent
    <2>2. file # None /\ writing = None
      BY <1>1 DEF Adopts, Trusts, IndexInv
    <2>3. AgreesBut(missed)
      BY <1>1, <2>2 DEF Adopts, Trusts, IndexInv, Underway
    <2>4. Table' = Table
      BY DEF Table
    <2>5. AgreesBut(missed)' /\ AgreesBut(missed \cup Underway)'
      BY <2>1, <2>3, <2>4 DEF AgreesBut, Underway
    <2> QED BY <2>1, <2>2, <2>5 DEF IndexInv
  <1>2. CASE ~(Adopts \/ Trusts)
    BY <1>2, RebuiltHolds DEF IndexIsCurrent
  <1> QED BY <1>1, <1>2

\* A record that is replaced or removed changes the row of its own.
LEMMA ChangeHolds ==
  ASSUME IndexInv, NEW x, x # None, writing = None, writing' = x, dir' = dir + 1,
         \A y : y # x => /\ y \in DOMAIN records' <=> y \in DOMAIN records
                         /\ y \in DOMAIN records => records'[y] = records[y],
         UNCHANGED <<ixKind, file, mem, missed>>
  PROVE  IndexInv'
  <1>1. DOMAIN Table = DOMAIN records /\ DOMAIN Table' = DOMAIN records'
    BY TableRows DEF IndexInv, Table
  <1>2. \A y \in DOMAIN records \cap DOMAIN records' : records[y] = records'[y] => Table[y] = Table'[y]
    BY TableRows DEF IndexInv, Table
  <1>3. ASSUME AgreesBut(missed) PROVE AgreesBut(missed \cup Underway)'
    BY <1>1, <1>2, <1>3 DEF AgreesBut, Underway
  <1>4. (missed \cup Underway) = missed
    BY DEF Underway
  <1>5. None \notin DOMAIN records'
    BY DEF IndexInv
  <1>6. ASSUME mem # None PROVE mem' \in Nat /\ mem' <= dir' /\ mem' < dir'
    BY <1>6 DEF IndexInv
  <1>7. ASSUME file # None
        PROVE  /\ {"rows", "marker"} \subseteq DOMAIN file' /\ file'.rows = [y \in DOMAIN file'.rows |-> file'.rows[y]]
               /\ file'.marker \in Nat /\ file'.marker <= dir' /\ file'.marker < dir' /\ file'.marker # dir'
               /\ mem # None => AgreesBut(missed \cup Underway)'
    BY <1>3, <1>4, <1>7 DEF IndexInv
  <1> QED BY <1>5, <1>6, <1>7 DEF IndexInv

\* One row is brought up to date.
LEMMA RowHolds ==
  ASSUME IndexInv, writing # None, mem # None, file # None,
         file' = [rows |-> SyncedRows(file.rows, writing), marker |-> dir], mem' = dir,
         missed' = missed \ {writing}, writing' = None, UNCHANGED <<ixKind, records, dir>>
  PROVE  IndexInv'
  <1>1. DOMAIN Table = DOMAIN records /\ Table' = Table
    BY TableRows DEF IndexInv, Table
  <1>2. AgreesBut(missed \cup {writing})
    BY DEF IndexInv, Underway
  <1> DEFINE rows == SyncedRows(file.rows, writing)
  <1>3. \A x : x # writing => /\ x \in DOMAIN rows <=> x \in DOMAIN file.rows
                              /\ x \in DOMAIN file.rows => rows[x] = file.rows[x]
    BY DEF SyncedRows, With, Drop
  <1>4. /\ writing \in DOMAIN rows <=> writing \in DOMAIN records
        /\ writing \in DOMAIN records => rows[writing] = Table[writing]
    BY DEF SyncedRows, With, Drop
  <1>5. rows = [x \in DOMAIN rows |-> rows[x]]
    BY DEF SyncedRows, With, Drop
  <1>6. file'.rows = rows /\ file'.marker = dir /\ DOMAIN file' = {"rows", "marker"}
    OBVIOUS
  <1> HIDE DEF rows
  <1>7. AgreesBut(missed)' /\ AgreesBut(missed \cup Underway)'
    BY <1>1, <1>2, <1>3, <1>4, <1>6 DEF AgreesBut, Underway
  <1> QED BY <1>5, <1>6, <1>7 DEF IndexInv

\* Every step keeps the rows that are not being written in agreement with the records.
LEMMA IndexStep == IndexInv /\ [IndexNext]_ixVars => IndexInv'
  <1> SUFFICES ASSUME IndexInv, [IndexNext]_ixVars PROVE IndexInv'
    OBVIOUS
  <1>1. CASE WriteRecord
    <2>1. PICK r \in Values[ixKind] : records' = With(records, r.id, r) /\ writing' = r.id
      BY <1>1 DEF WriteRecord
    <2>2. r.id # None /\ writing = None /\ dir' = dir + 1 /\ UNCHANGED <<ixKind, file, mem, missed>>
      BY <1>1, DerivedIndexesAssumption DEF WriteRecord, IndexInv
    <2>3. \A y : y # r.id => /\ y \in DOMAIN records' <=> y \in DOMAIN records
                             /\ y \in DOMAIN records => records'[y] = records[y]
      BY <2>1 DEF With
    <2> QED BY <2>1, <2>2, <2>3, ChangeHolds
  <1>2. CASE RemoveRecord
    <2>1. PICK x \in DOMAIN records : records' = Drop(records, {x}) /\ writing' = x
      BY <1>2 DEF RemoveRecord
    <2>2. x # None /\ writing = None /\ dir' = dir + 1 /\ UNCHANGED <<ixKind, file, mem, missed>>
      BY <1>2 DEF RemoveRecord, IndexInv
    <2>3. \A y : y # x => /\ y \in DOMAIN records' <=> y \in DOMAIN records
                          /\ y \in DOMAIN records => records'[y] = records[y]
      BY <2>1 DEF Drop
    <2> QED BY <2>1, <2>2, <2>3, ChangeHolds
  <1>3. ASSUME mem = None, UNCHANGED <<ixKind, records, dir, file, mem, missed>>, writing' = None
        PROVE  IndexInv'
    <2>1. Table' = Table
      BY <1>3 DEF Table
    <2>2. AgreesBut(missed) => AgreesBut(missed)'
      BY <1>3, <2>1 DEF AgreesBut
    <2> QED BY <1>3, <2>2 DEF IndexInv
  <1>4. CASE Sync
    <2>1. writing # None /\ writing' = None /\ UNCHANGED <<ixKind, records, dir>>
      BY <1>4 DEF Sync
    <2>2. CASE mem = None /\ ~(ixKind = "projects" /\ writing \notin DOMAIN records)
      <3>1. UNCHANGED <<file, mem, missed>>
        BY <1>4, <2>2 DEF Sync
      <3> QED BY <1>3, <2>1, <2>2, <3>1
    <2>3. CASE ~(mem = None /\ ~(ixKind = "projects" /\ writing \notin DOMAIN records)) /\ (mem = None \/ file = None)
      <3>1. IndexIsCurrent
        BY <1>4, <2>3 DEF Sync
      <3> QED BY <2>1, <3>1, CurrentHolds
    <2>4. CASE mem # None /\ file # None
      <3>1. /\ file' = [rows |-> SyncedRows(file.rows, writing), marker |-> dir]
            /\ mem' = dir /\ missed' = missed \ {writing}
        BY <1>4, <2>4 DEF Sync
      <3> QED BY <2>1, <2>4, <3>1, RowHolds
    <2> QED BY <2>2, <2>3, <2>4
  <1>5. CASE SyncFails
    <2>1. writing # None /\ mem # None /\ writing' = None /\ UNCHANGED <<ixKind, records, dir>>
      BY <1>5 DEF SyncFails
    <2>2. CASE file' = Rebuilt /\ mem' = dir
      BY <2>1, <2>2, RebuiltHolds
    <2>3. CASE missed' = missed \cup {writing} /\ UNCHANGED <<file, mem>>
      <3>1. Table' = Table
        BY <2>1 DEF Table
      <3>2. ASSUME file # None PROVE AgreesBut(missed)' /\ AgreesBut(missed \cup Underway)'
        <4>1. AgreesBut(missed \cup {writing})
          BY <2>1, <3>2 DEF IndexInv, Underway
        <4> QED BY <2>1, <2>3, <3>1, <4>1 DEF AgreesBut, Underway
      <3> QED BY <2>1, <2>3, <3>2 DEF IndexInv
    <2> QED BY <1>5, <2>2, <2>3 DEF SyncFails
  <1>6. CASE Ask
    BY <1>6, CurrentHolds DEF Ask
  <1>7. CASE NextPage
    BY <1>7, CurrentHolds DEF NextPage
  <1>8. CASE LoseIndex
    <2>1. file' = None /\ UNCHANGED <<ixKind, records, dir, mem, writing>>
      BY <1>8 DEF LoseIndex
    <2> QED BY <2>1 DEF IndexInv
  <1>9. CASE IndexRestart
    <2>1. mem' = None /\ writing' = None /\ UNCHANGED <<ixKind, records, dir, file, missed>>
      BY <1>9 DEF IndexRestart
    <2>2. Table' = Table
      BY <2>1 DEF Table
    <2>3. AgreesBut(missed) => AgreesBut(missed)'
      BY <2>1, <2>2 DEF AgreesBut
    <2> QED BY <2>1, <2>3 DEF IndexInv
  <1>10. CASE UNCHANGED ixVars
    <2>1. UNCHANGED <<ixKind, records, dir, file, mem, writing, missed>>
      BY <1>10 DEF ixVars
    <2>2. Table' = Table
      BY <2>1 DEF Table
    <2>3. \A S : AgreesBut(S) => AgreesBut(S)'
      BY <2>1, <2>2 DEF AgreesBut
    <2>4. (AgreesBut(missed) => AgreesBut(missed)') /\ (AgreesBut(missed \cup Underway) => AgreesBut(missed \cup Underway)')
      BY <2>1, <2>2 DEF AgreesBut, Underway
    <2> QED BY <2>1, <2>4 DEF IndexInv
  <1> QED BY <1>1, <1>2, <1>4, <1>5, <1>6, <1>7, <1>8, <1>9, <1>10 DEF IndexNext

\* Every query reads the table of the records as they are.
THEOREM IndexCoherence == IndexSpec => []IndexIsFaithful
  <1>1. IndexInit => IndexInv
    BY DEF IndexInit, IndexInv
  <1>2. IndexInv => IndexIsFaithful
    <2> SUFFICES ASSUME IndexInv, writing = None, missed = {}, Adopts \/ Trusts
                 PROVE  file.rows = Table
      BY DEF IndexIsFaithful
    <2>1. file # None /\ AgreesBut({})
      BY DEF Adopts, Trusts, IndexInv, Underway
    <2>2. DOMAIN Table = DOMAIN records /\ Table = [x \in DOMAIN Table |-> Table[x]]
      BY TableRows DEF IndexInv, Table
    <2>3. file.rows = [x \in DOMAIN file.rows |-> file.rows[x]] /\ DOMAIN file.rows = DOMAIN Table
      BY <2>1, <2>2 DEF IndexInv, AgreesBut
    <2>4. \A x \in DOMAIN Table : file.rows[x] = Table[x]
      BY <2>1, <2>2 DEF AgreesBut
    <2> QED BY <2>2, <2>3, <2>4
  <1> QED BY <1>1, <1>2, IndexStep, PTL DEF IndexSpec
=============================================================================
