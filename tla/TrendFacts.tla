------------------------------ MODULE TrendFacts ------------------------------
(***************************************************************************)
(* The facts of an organization's risk trends: what                        *)
(* project_risk_trend_index.py computes from one project's retained        *)
(* analyses and decisions, and what it answers for a period.               *)
(*                                                                         *)
(* A history is the sequence of a project's completed analyses, newest     *)
(* first.  An analysis has an id, the time at which it finished (a number  *)
(* of hours), its source type, the execution profile it recorded, its      *)
(* coverage, its local findings and its public ones.                       *)
(***************************************************************************)
EXTENDS Integers, FiniteSets, Sequences, FiniteSetsExt, SequencesExt

CONSTANTS Severe,      \* the findings of critical or high severity
          Exploited,   \* the public findings with a known-exploited signal
          Ecosystem    \* per public finding: its ecosystem

Absent == "absent"   \* no profile was recorded

(* _coverage_projection(): whether the analysis was complete, and the      *)
(* counts, of which alone the signature is made; none without a summary.   *)
NoCoverage == [complete |-> FALSE, counts |-> -1]
Signature(analysis) == analysis.coverage.counts

(* _incomparability(): why two consecutive analyses are not compared.      *)
Incomparability(base, target) ==
  CASE ~base.localValid \/ ~target.localValid -> "invalid_local_findings"
    [] base.profile = Absent \/ target.profile = Absent -> "missing_execution_profile"
    [] base.profile # target.profile -> "profile_changed"
    [] base.coverage = NoCoverage \/ target.coverage = NoCoverage \/ Signature(base) # Signature(target) -> "coverage_changed"
    [] OTHER -> "comparable"

Comparable(base, target) == Incomparability(base, target) = "comparable"

(* Why the public findings of two comparable analyses are not compared.    *)
PublicExclusion(base, target) ==
  CASE base.public = "invalid" \/ target.public = "invalid" -> "invalid_public_findings"
    [] base.public # "ready" \/ target.public # "ready" -> "public_snapshot_unavailable"
    [] OTHER -> "none"

PublicComparable(base, target) ==
  Comparable(base, target) /\ PublicExclusion(base, target) = "none"

(* _coverage_direction(): what was lost and gained, when signatures        *)
(* differ.                                                                 *)
NoDirection == [lost |-> 0, gained |-> 0]
CoverageDirection(base, target) ==
  LET decreased(l, r) == (l.complete /\ ~r.complete) \/ r.counts < l.counts
  IN  IF base.coverage = NoCoverage \/ target.coverage = NoCoverage \/ Signature(base) = Signature(target)
        THEN NoDirection
        ELSE [lost   |-> IF decreased(base.coverage, target.coverage) THEN 1 ELSE 0,
              gained |-> IF decreased(target.coverage, base.coverage) THEN 1 ELSE 0]

(* _insert_analysis_fact(): the row of the analysis target whose           *)
(* predecessor is base, or which has none.                                 *)
Row(target, current, state, exclusion, direction, new, kept, gone, pnew, pkept, pgone) ==
  LET valid == current /\ target.localValid /\ target.public # "invalid"
  IN  [job |-> target.id, at |-> target.at, source |-> target.source, current |-> current,
       state |-> state, exclusion |-> exclusion, direction |-> direction, publicInvalid |-> target.public = "invalid",
       new |-> Cardinality(new), kept |-> Cardinality(kept), gone |-> Cardinality(gone),
       highNew |-> Cardinality(new \cap Severe),
       publicNew |-> Cardinality(pnew), publicKept |-> Cardinality(pkept), publicGone |-> Cardinality(pgone),
       severe |-> IF valid THEN Cardinality(target.local \cap Severe) + Cardinality(target.advisories \cap Severe) ELSE 0,
       exploited |-> IF valid THEN Cardinality(target.advisories \cap Exploited) ELSE 0]

(* _insert_transition().                                                   *)
Transition(base, target, current) ==
  LET local == Comparable(base, target)
      public == PublicComparable(base, target)
      pick(cond, set) == IF cond THEN set ELSE {}
  IN  Row(target, current, Incomparability(base, target),
          IF local THEN PublicExclusion(base, target) ELSE "none",
          IF local THEN CoverageDirection(base, target) ELSE NoDirection,
          pick(local, target.local \ base.local), pick(local, base.local \cap target.local),
          pick(local, base.local \ target.local),
          pick(public, target.advisories \ base.advisories), pick(public, base.advisories \cap target.advisories),
          pick(public, base.advisories \ target.advisories))

(* _insert_no_previous().                                                  *)
First(target, current) == Row(target, current, "no_previous_analysis", "none", NoDirection, {}, {}, {}, {}, {}, {})

(* The rows of a history: every analysis against the one before it.        *)
Rows(history) ==
  [i \in DOMAIN history |->
     IF i = Len(history) THEN First(history[i], i = 1)
                         ELSE Transition(history[i + 1], history[i], i = 1)]

(* _insert_ecosystem_facts(): per analysis and ecosystem of its public     *)
(* findings, or of those the transition compared.                          *)
EcosystemRows(history) ==
  UNION {LET target == history[i]
             base == IF i < Len(history) THEN history[i + 1] ELSE target
             compared == i < Len(history) /\ PublicComparable(base, target)
             open == IF i = 1 /\ target.localValid /\ target.public # "invalid" THEN target.advisories ELSE {}
             touched == IF compared THEN base.advisories \union target.advisories ELSE {}
             of(set, e) == Cardinality({f \in set : Ecosystem[f] = e})
         IN  {[job |-> target.id, at |-> target.at, ecosystem |-> e, open |-> of(open, e),
               comparable |-> IF compared /\ of(touched, e) > 0 THEN 1 ELSE 0,
               new |-> IF compared THEN of(target.advisories \ base.advisories, e) ELSE 0,
               gone |-> IF compared THEN of(base.advisories \ target.advisories, e) ELSE 0] :
                e \in {Ecosystem[f] : f \in open \union touched}} : i \in DOMAIN history}

FindingsOf(analysis) == analysis.local \union analysis.advisories

(* The earliest analysis that holds the finding.                           *)
FirstSeen(history, f) == Min({history[i].at : i \in {j \in DOMAIN history : f \in FindingsOf(history[j])}})

(* The earliest comparable analysis the finding had disappeared from.      *)
Resolutions(history, f) ==
  {history[i].at : i \in {j \in 1..Len(history) - 1 :
      \/ /\ Comparable(history[j + 1], history[j])
         /\ f \in history[j + 1].local \ history[j].local
      \/ /\ PublicComparable(history[j + 1], history[j])
         /\ f \in history[j + 1].advisories \ history[j].advisories}}

Seen(history) == UNION {FindingsOf(history[i]) : i \in DOMAIN history}

(* _insert_duration(): one sample per finding, from its first observation  *)
(* to its first verified resolution or to the first decision about it.     *)
Sample(kind, f, from, to) == [kind |-> kind, finding |-> f, from |-> from, to |-> to, hours |-> to - from]

Durations(history, decisions) ==
  {Sample("verified_resolution", f, FirstSeen(history, f), Min(Resolutions(history, f))) :
     f \in {g \in Seen(history) : /\ Resolutions(history, g) # {}
                                  /\ Min(Resolutions(history, g)) >= FirstSeen(history, g)}}
  \union
  {Sample("first_review", d.finding, FirstSeen(history, d.finding), d.at) :
     d \in {e \in decisions : /\ e.finding \in Seen(history)
                              /\ \A other \in decisions : other.finding = e.finding => e.at <= other.at
                              /\ e.at >= FirstSeen(history, e.finding)}}

(* _current_decisions(): the last decision about each finding.             *)
CurrentDecisions(decisions) ==
  {d \in decisions : \A e \in decisions : e.finding = d.finding => e.at <= d.at}

(* The exceptions to review: accepted or rejected findings that the newest *)
(* analysis still shows, when that analysis is valid.                      *)
Exceptions(history, decisions) ==
  LET newest == history[1]
      shown == IF newest.localValid /\ newest.public # "invalid" THEN FindingsOf(newest) ELSE {}
  IN  {d \in CurrentDecisions(decisions) :
         d.finding \in shown /\ d.status \in {"accepted", "false_positive"} /\ d.reviewed}

(* _materialize_project(): nothing is written for a project without        *)
(* analyses.                                                               *)
Materialize(history, decisions) ==
  IF history = <<>>
    THEN [rows |-> <<>>, ecosystems |-> {}, durations |-> {}, exceptions |-> {}]
    ELSE [rows |-> Rows(history), ecosystems |-> EcosystemRows(history),
          durations |-> Durations(history, decisions), exceptions |-> Exceptions(history, decisions)]

-----------------------------------------------------------------------------
(* _query(): the answer for the period from cutoff to observed, in buckets *)
(* of width hours.                                                         *)

InPeriod(row, cutoff, observed) == cutoff <= row.at /\ row.at <= observed

Ceil(a, b) == (a + b - 1) \div b
BucketCount(cutoff, observed, width) == Max({1, Ceil(observed - cutoff, width)})

(* The bucket of a row: the last one takes what falls on the end of the    *)
(* period.                                                                 *)
\* Mutant of BucketOf.
BucketUnclamped(at, cutoff, observed, width) == (at - cutoff) \div width
BucketOf(at, cutoff, observed, width) ==
  Min({(at - cutoff) \div width, BucketCount(cutoff, observed, width) - 1})

Bucket(facts, index, cutoff, observed, width) ==
  LET inside == {i \in DOMAIN facts.rows : /\ InPeriod(facts.rows[i], cutoff, observed)
                                           /\ BucketOf(facts.rows[i].at, cutoff, observed, width) = index}
      sum(Field(_)) == FoldSet(LAMBDA i, acc : Field(facts.rows[i]) + acc, 0, inside)
      count(P(_)) == Cardinality({i \in inside : P(facts.rows[i])})
  IN  [starts |-> cutoff + width * index, ends |-> Min({cutoff + width * (index + 1), observed}),
       completed |-> Cardinality(inside),
       comparable |-> count(LAMBDA r : r.state = "comparable"),
       publicComparable |-> count(LAMBDA r : r.state = "comparable" /\ r.exclusion = "none"),
       excluded |-> count(LAMBDA r : r.state # "comparable"),
       lost |-> sum(LAMBDA r : r.direction.lost), gained |-> sum(LAMBDA r : r.direction.gained),
       new |-> sum(LAMBDA r : r.new), gone |-> sum(LAMBDA r : r.gone), kept |-> sum(LAMBDA r : r.kept)]

Buckets(facts, cutoff, observed, width) ==
  [k \in 0..BucketCount(cutoff, observed, width) - 1 |-> Bucket(facts, k, cutoff, observed, width)]

(* _duration(): the number of samples, twice the median and the ninetieth  *)
(* percentile.                                                             *)
DurationSummary(facts, kind, cutoff) ==
  LET samples == {s \in facts.durations : s.kind = kind /\ s.from >= cutoff}
      sorted == SortSeq(SetToSeq(samples), LAMBDA a, b : a.hours < b.hours)
      n == Len(sorted)
      at(k) == sorted[k + 1].hours
  IN  IF n = 0 THEN [count |-> 0, twiceMedian |-> 0, p90 |-> 0]
               ELSE [count |-> n,
                     twiceMedian |-> IF n % 2 = 1 THEN 2 * at(n \div 2) ELSE at(n \div 2 - 1) + at(n \div 2),
                     p90 |-> at(Max({0, Ceil(n * 9, 10) - 1}))]

=============================================================================
