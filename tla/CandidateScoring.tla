--------------------------- MODULE CandidateScoring ---------------------------
(***************************************************************************)
(* The deterministic evaluation of one candidate's facts against the       *)
(* criteria of a vacancy (evaluation/, scoring/): a status for every       *)
(* criterion, a fit band and a score for the whole, and the order of a     *)
(* ranking.                                                                *)
(*                                                                         *)
(* Names are values after normalisation, so that equal means the same      *)
(* name.  Lists whose order no decision reads are sets.  Explanations,     *)
(* evidence references and reason codes are left out.                      *)
(***************************************************************************)
EXTENDS Integers, Sequences, SequencesExt, Rankings

CONSTANTS
    NoValue,    \* no value
    AsOf     \* evaluation_as_of_date.year: given by the caller, never the clock

(* A text of a date: a year, Present ("now", "ongoing"), a text in which   *)
(* no year can be found, or NoValue.                                          *)
Present == -1
NoYear == 0

(* parse_year. *)
Year(text, current) ==
    IF current \/ text = Present THEN AsOf ELSE IF text = NoValue THEN NoYear ELSE text

-----------------------------------------------------------------------------
(* Periods: pairs <<start, end>>, the end excluded.                        *)

Longer(a, b) == IF a > b THEN a ELSE b
Span(p) == Longer(p[2] - p[1], 0)
RangesOverlap(p, q) == p[1] < q[2] /\ q[1] < p[2]

(* sorted(): by start, then by end; of equal periods either may be first. *)
StartsBefore(p, q) == p[1] < q[1] \/ (p[1] = q[1] /\ p[2] < q[2])
Sorted(ranges) ==
    LET places == DOMAIN ranges
        before == {x \in places \X places :
                      \/ StartsBefore(ranges[x[1]], ranges[x[2]])
                      \/ ranges[x[1]] = ranges[x[2]] /\ x[1] < x[2]}
        order == InOrder(places, before)
    IN  [k \in places |-> ranges[order[k]]]

(* Variant: a period inside the last one cuts it short. *)
MergedIntoShort(merged, p) ==
    IF merged = <<>> \/ p[1] > Last(merged)[2]
    THEN Append(merged, p)
    ELSE Append(Front(merged), <<Last(merged)[1], p[2]>>)

(* One step of the merge: a period that begins within the last one, or     *)
(* where it ends, extends it.                                              *)
MergedInto(merged, p) ==
    IF merged = <<>> \/ p[1] > Last(merged)[2]
    THEN Append(merged, p)
    ELSE Append(Front(merged), <<Last(merged)[1], Longer(Last(merged)[2], p[2])>>)

(* The merge of the first k periods, one after the other. *)
Merged(ordered) ==
    LET merged[k \in 0..Len(ordered)] ==
            IF k = 0 THEN <<>> ELSE MergedInto(merged[k - 1], ordered[k])
    IN  merged[Len(ordered)]

SumOf(numbers) ==
    LET sum[k \in 0..Len(numbers)] == IF k = 0 THEN 0 ELSE sum[k - 1] + numbers[k]
    IN  sum[Len(numbers)]

TotalSpan(ranges) == SumOf([i \in DOMAIN ranges |-> Span(ranges[i])])
MergeAndSumYears(ranges) == TotalSpan(Merged(Sorted(ranges)))

-----------------------------------------------------------------------------
(* Criteria: [kind, type, value, level, years, weight, review].            *)
(* Profiles: [skills, certifications, education, languages, employment,    *)
(* skillPeriods, domainPeriods]; a dated item has start, end and current,  *)
(* a skill or domain period also a name and the index of its employment.   *)

(* _finalize: the flag of the criterion, or a conflict, asks for a human.  *)
Finalized(criterion, status) ==
    IF criterion.review \/ status = "CONFLICTING_EVIDENCE" THEN "MANUAL_REVIEW_REQUIRED" ELSE status

Duration(years, required) ==
    IF years >= (IF required = NoValue THEN 0 ELSE required) THEN "MATCH" ELSE "NOT_MATCHED"

Listed(criterion, names) == IF criterion.value \in names THEN "MATCH" ELSE "UNKNOWN"
EvaluateSkill(criterion, profile) == Listed(criterion, profile.skills)
EvaluateCertification(criterion, profile) == Listed(criterion, profile.certifications)
EvaluateEducation(criterion, profile) ==
    Listed(criterion, UNION {{e.degree, e.field} : e \in profile.education})

(* A level is <<"cefr", n>> with n from 1 (A1) to 6 (C2), or <<"word", w>>. *)
CompareLanguageLevel(level, required) ==
    IF level = NoValue THEN "unstated"
    ELSE IF level[1] = "cefr" /\ required[1] = "cefr"
         THEN IF level[2] >= required[2] THEN "threshold_met" ELSE "below"
    ELSE IF level = required THEN "explicit_match" ELSE "incompatible"

EvaluateLanguage(criterion, profile) ==
    LET levels == {f.level : f \in {g \in profile.languages : g.language = criterion.value}}
        outcomes == {CompareLanguageLevel(l, criterion.level) : l \in levels}
    IN  IF levels = {} THEN "UNKNOWN"
        ELSE IF criterion.level = NoValue THEN "MATCH"
        ELSE IF outcomes \cap {"threshold_met", "explicit_match"} # {} THEN "MATCH"
        ELSE IF outcomes \cap {"unstated", "incompatible"} # {} THEN "UNKNOWN"
        ELSE "NOT_MATCHED"

Period(item) == <<Year(item.start, FALSE), Year(item.end, item.current)>>
Readable(period) == period[1] # NoYear /\ period[2] # NoYear

EvaluateExperience(criterion, profile) ==
    LET ranges == [i \in DOMAIN profile.employment |-> Period(profile.employment[i])]
    IN  IF ranges = <<>> THEN "UNKNOWN"
        ELSE IF \E i \in DOMAIN ranges : ~Readable(ranges[i]) THEN "MANUAL_REVIEW_REQUIRED"
        ELSE IF \E i, j \in DOMAIN ranges : i < j /\ RangesOverlap(ranges[i], ranges[j])
             THEN "CONFLICTING_EVIDENCE"
        ELSE Duration(TotalSpan(ranges), criterion.years)

HasDeclaredInterval(item) == item.start # NoValue \/ item.end # NoValue \/ item.current
CompatibleWith(period, entry) ==
    LET whole == Period(entry)
    IN  Readable(whole) /\ whole[1] <= period[1] /\ period[2] <= whole[2]

(* The period of the item itself, if it is readable and lies within the    *)
(* employment it is linked to; a domain need not be linked.                *)
Provable(item, profile) ==
    /\ Readable(Period(item))
    /\ item.employment = NoValue \/ CompatibleWith(Period(item), profile.employment[item.employment])

Named(items, name) == SelectSeq(items, LAMBDA i : i.name = name)
OwnPeriods(items) == [i \in DOMAIN items |-> Period(items[i])]

EvaluateSkillExperience(criterion, profile) ==
    LET linked == Named(profile.skillPeriods, criterion.value)
    IN  IF linked = <<>>
           \/ \E i \in DOMAIN linked : ~HasDeclaredInterval(linked[i]) \/ ~Provable(linked[i], profile)
        THEN "UNKNOWN"
        ELSE Duration(MergeAndSumYears(OwnPeriods(linked)), criterion.years)

EvaluateDomainExperience(criterion, profile) ==
    LET matches == Named(profile.domainPeriods, criterion.value)
        dated == SelectSeq(matches, HasDeclaredInterval)
    IN  IF matches = <<>> THEN "UNKNOWN"
        ELSE IF criterion.years \in {NoValue, 0} THEN "MATCH"
        ELSE IF dated = <<>> \/ \E i \in DOMAIN dated : ~Provable(dated[i], profile) THEN "UNKNOWN"
        ELSE Duration(MergeAndSumYears(OwnPeriods(dated)), criterion.years)

EvaluateCriterion(criterion, profile) ==
    Finalized(criterion,
        CASE criterion.kind = "SKILL" -> EvaluateSkill(criterion, profile)
          [] criterion.kind = "CERTIFICATION" -> EvaluateCertification(criterion, profile)
          [] criterion.kind = "EDUCATION" -> EvaluateEducation(criterion, profile)
          [] criterion.kind = "LANGUAGE" -> EvaluateLanguage(criterion, profile)
          [] criterion.kind = "EXPERIENCE" -> EvaluateExperience(criterion, profile)
          [] criterion.kind = "SKILL_EXPERIENCE" -> EvaluateSkillExperience(criterion, profile)
          [] criterion.kind = "DOMAIN_EXPERIENCE" -> EvaluateDomainExperience(criterion, profile))

(* CriterionIn and CriteriaListIn: what a criteria version may hold. *)
CriterionKinds ==
    {"SKILL", "CERTIFICATION", "EDUCATION", "LANGUAGE", "EXPERIENCE", "SKILL_EXPERIENCE",
     "DOMAIN_EXPERIENCE"}
ValidCriterion(c) ==
    /\ c.kind \in CriterionKinds /\ c.type \in {"MUST_HAVE", "PREFERRED"} /\ c.weight \in Nat
    /\ IF c.kind = "EXPERIENCE" THEN c.value = NoValue ELSE c.value # NoValue
    /\ c.kind \in {"EXPERIENCE", "SKILL_EXPERIENCE"} => c.years # NoValue
    /\ c.years # NoValue => c.kind \in {"EXPERIENCE", "SKILL_EXPERIENCE", "DOMAIN_EXPERIENCE"}
    /\ c.level # NoValue => c.kind = "LANGUAGE"
ValidCriteria(criteria) ==
    /\ criteria # <<>>
    /\ \A i \in DOMAIN criteria : ValidCriterion(criteria[i])
    /\ \E i \in DOMAIN criteria : criteria[i].weight > 0

-----------------------------------------------------------------------------
(* Results: sequences of [type, weight, status].                           *)

Results(criteria, profile) ==
    [i \in DOMAIN criteria |-> [type |-> criteria[i].type, weight |-> criteria[i].weight,
                                status |-> EvaluateCriterion(criteria[i], profile)]]

(* compute_overall_result: the fit band. *)
OverallResult(results) ==
    LET statuses(type) == {results[i].status : i \in {k \in DOMAIN results : results[k].type = type}}
        preferred == SelectSeq(results, LAMBDA r : r.type = "PREFERRED")
        matched == SelectSeq(preferred, LAMBDA r : r.status = "MATCH")
    IN  IF \E i \in DOMAIN results : results[i].status \in {"MANUAL_REVIEW_REQUIRED", "CONFLICTING_EVIDENCE"}
        THEN "MANUAL_REVIEW_REQUIRED"
        ELSE IF statuses("MUST_HAVE") \cap {"NOT_MATCHED", "UNKNOWN", "PARTIAL_MATCH"} # {}
             THEN "INSUFFICIENT_EVIDENCE"
        ELSE IF 2 * Len(matched) >= Len(preferred) THEN "STRONG_MATCH" ELSE "POTENTIAL_MATCH"

(* STATUS_FACTORS, in halves. *)
HalvesFor(status) == CASE status = "MATCH" -> 2 [] status = "PARTIAL_MATCH" -> 1 [] OTHER -> 0
TotalWeight(results) == SumOf([i \in DOMAIN results |-> results[i].weight])
WeightedHalves(results) ==
    SumOf([i \in DOMAIN results |-> results[i].weight * HalvesFor(results[i].status)])

(* The score in hundredths, rounded half up; weights are whole numbers of  *)
(* hundredths, and the quotient is 10000 * (halves / 2) / total.           *)
ScoreResults(results) ==
    LET total == TotalWeight(results)
    IN  (10000 * WeightedHalves(results) + total) \div (2 * total)

(* What is kept of one evaluation: its results, the band and the score. *)
Scorecard(criteria, profile) ==
    LET results == Results(criteria, profile)
    IN  [results |-> results, band |-> OverallResult(results), score |-> ScoreResults(results)]

FitTier(band) ==
    CASE band = "STRONG_MATCH" -> 0 [] band = "POTENTIAL_MATCH" -> 1
      [] band = "MANUAL_REVIEW_REQUIRED" -> 2 [] band = "INSUFFICIENT_EVIDENCE" -> 3

(* The key a ranking is sorted by. *)
Outranks(a, b) ==
    \/ FitTier(a.band) < FitTier(b.band)
    \/ FitTier(a.band) = FitTier(b.band) /\ a.score > b.score
    \/ FitTier(a.band) = FitTier(b.band) /\ a.score = b.score /\ a.candidate < b.candidate

(* What a ranking presents of the scored candidates. *)
Presented(entries, eligibleOnly, limit) ==
    LET kept == {e \in entries : eligibleOnly => e.band \in {"STRONG_MATCH", "POTENTIAL_MATCH"}}
        ranked == InOrder(kept, {x \in kept \X kept : Outranks(x[1], x[2])})
    IN  SubSeq(ranked, 1, IF Len(ranked) < limit THEN Len(ranked) ELSE limit)

-----------------------------------------------------------------------------
(* What merge_and_sum_years has to return for every list of three periods: *)
(* the number of years that lie in at least one of them.                   *)
DurationsAreUnions ==
    \A ranges \in [1..3 -> (2001..2004) \X (2001..2004)] :
        MergeAndSumYears(ranges) = Cardinality(UNION {p[1]..(p[2] - 1) : p \in ToSet(ranges)})
=============================================================================
