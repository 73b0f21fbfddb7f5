--------------------------- MODULE CandidateSearch ---------------------------
(***************************************************************************)
(* One search, from the words of the request to the ranked answer:         *)
(* search/planner_service.py reads the request, by rules where it can and  *)
(* by the model where it must, and search/service.py answers from the      *)
(* profiles and vectors while they change.                                 *)
(*                                                                         *)
(* A request is what was read from it: its requirements, what the parser   *)
(* of whole sentences makes of it, and what it literally mentions, each    *)
(* with the modality of the nearest marker.  Skills, certificates,         *)
(* education and languages are terms; durations and language levels are    *)
(* timed; the total of all experience stands alone.                        *)
(***************************************************************************)
EXTENDS Integers, Sequences, FiniteSets, FiniteSetsExt, SequencesExt, Rankings

CONSTANTS
    CandidateIds,   \* numbered in the order of the identifiers
    Texts,          \* the texts considered
    PlannerDrafts,  \* what the model can make of a text
    Profiles,       \* contents of a profile: [terms, years, total, fit]
    Corpora,        \* the profiles there are at first: candidate -> content
    Protected,      \* terms no search may use
    Unsafe,         \* queries that name a person, an instruction or a weighting
    BestFit,        \* bound of "fit", the similarity to the request's own query
    DefaultLimit,
    MaxChanges,     \* bound: changes of the corpus during the search
    Absent

FiniteFilters(f) == IsFiniteSet(f.terms) /\ IsFiniteSet(f.timed) /\ IsFiniteSet(f.totals)

ASSUME SearchAssumption ==
    /\ CandidateIds \subseteq Nat /\ IsFiniteSet(CandidateIds)
    /\ BestFit \in Nat \ {0} /\ DefaultLimit \in Nat \ {0} /\ MaxChanges \in Nat
    /\ \A q \in Texts :
          /\ IsFiniteSet(DOMAIN q.requirements) /\ IsFiniteSet(DOMAIN q.clauses)
          /\ q.count \in Nat \ {0}
          /\ q.refusal # "EXECUTABLE"
    /\ \A d \in PlannerDrafts :
          /\ FiniteFilters(d.required) /\ FiniteFilters(d.preferred)
          /\ d.limit = Absent \/ d.limit \in Nat \ {0}
    /\ \A content \in Profiles : content.fit \in 0..BestFit
    /\ Corpora \subseteq [CandidateIds -> Profiles \cup {Absent}]
    /\ Absent \notin {"VALIDATION_FAILURE", "UNSUPPORTED_SEMANTICS", "AMBIGUOUS_REQUEST",
                     "STRUCTURED_ONLY", "SEMANTIC_ONLY", "HYBRID"}

VARIABLES
    request,        \* the text
    searchStage,      \* "text" | "model" | "planned" | "embed" | "rank" | "done"
    attempts,       \* model calls whose answer broke the schema
    outcome,        \* of the plan, or why the search has no answer
    searchRequest,  \* the executable search, or Absent
    eligible,       \* candidate -> profile version read before the query is embedded
    response,       \* the ranked candidates
    tenantActive,   \* is the tenant active
    effective,      \* candidate -> [version, content], or Absent without one
    embeddings,     \* <<candidate, version>> that have a compatible embedding
    changes

searchVars == <<request, searchStage, attempts, outcome, searchRequest, eligible, response,
                tenantActive, effective, embeddings, changes>>
corpus == <<tenantActive, effective, embeddings, changes>>

Profiled == {c \in CandidateIds : effective[c] # Absent}

SearchInit ==
    /\ request \in Texts
    /\ searchStage = "text" /\ attempts = 0 /\ outcome = Absent
    /\ searchRequest = Absent /\ eligible = <<>> /\ response = <<>>
    /\ tenantActive = TRUE /\ changes = 0
    /\ \E content \in Corpora :
           effective = [c \in CandidateIds |->
                          IF content[c] = Absent THEN Absent
                          ELSE [version |-> 1, content |-> content[c]]]
    /\ embeddings = {<<c, 1>> : c \in Profiled}

-----------------------------------------------------------------------------
(* Filters.                                                                *)

NoFilters == [terms |-> {}, timed |-> {}, totals |-> {}]

Filters(items) ==
    [terms |-> {r.subject : r \in {x \in items : x.kind = "term"}},
     timed |-> {<<r.subject, r.years>> : r \in {x \in items : x.kind = "timed"}},
     totals |-> {r.years : r \in {x \in items : x.kind = "total"}}]

Conditions(f) ==
    {<<"term", t, 0>> : t \in f.terms}
    \cup {<<"timed", x[1], x[2]>> : x \in f.timed}
    \cup {<<"total", Absent, y>> : y \in f.totals}

\* A total that overlapping or unreadable dates leave unproven meets nothing.
Proves(content, x) ==
    CASE x[1] = "term"  -> x[2] \in content.terms
      [] x[1] = "timed" -> content.years[x[2]] >= x[3]
      [] x[1] = "total" -> content.total # Absent /\ content.total >= x[3]
Met(content, f) == {x \in Conditions(f) : Proves(content, x)}

\* An unproven required filter excludes; preferred ones only count.
Satisfies(content, f) == Met(content, f) = Conditions(f)

HasFilters(f) == Conditions(f) # {}

-----------------------------------------------------------------------------
(* Planning.                                                               *)

Scorable(r) == r.state = "SCORABLE"
Requirements == ToSet(request.requirements)

\* A filter holds one total of experience: the last one mentioned.
LastTotal(type) ==
    LET mine == SelectSeq(request.requirements, LAMBDA r : r.kind = "total" /\ r.type = type)
    IN IF mine = <<>> THEN {} ELSE {Last(mine)}

Gathered(type) ==
    Filters({r \in Requirements : r.type = type /\ r.kind # "total"} \cup LastTotal(type))

Preserved(r, p) ==
    LET f == IF r.type = "MUST_HAVE" THEN p.required ELSE p.preferred IN
    /\ r.type \in {"MUST_HAVE", "PREFERRED"}
    /\ CASE r.kind = "term"  -> r.subject \in f.terms
         [] r.kind = "timed" -> <<r.subject, r.years>> \in f.timed
         [] r.kind = "total" -> r.years \in f.totals
         [] OTHER -> FALSE

\* Variant: only the kind of each requirement has to come back.
CompleteByKind(p) ==
    \A r \in Requirements : Scorable(r) =>
        \E x \in Conditions(IF r.type = "MUST_HAVE" THEN p.required ELSE p.preferred) :
            x[1] = r.kind
\* Every scorable requirement is a filter of its own family and modality.
Complete(p) == \A r \in Requirements : Scorable(r) => Preserved(r, p)

Mode(required, preferred, query) ==
    LET structured == HasFilters(required) \/ HasFilters(preferred) IN
    CASE structured /\ query # Absent  -> "HYBRID"
      [] ~structured /\ query # Absent -> "SEMANTIC_ONLY"
      [] structured /\ query = Absent  -> "STRUCTURED_ONLY"
      [] OTHER -> Absent

Search(required, preferred, query, limit) ==
    [required |-> required, preferred |-> preferred, query |-> query,
     mode |-> Mode(required, preferred, query), limit |-> limit]

\* What the text literally names, and the modality of the marker nearest to it.
SaidTerms == DOMAIN request.near
SaidTotals == DOMAIN request.nearYears

\* Modality is neither weakened nor raised against the nearest marker.
Misread(nearest, required) ==
    \/ ~required /\ nearest = "MUST_HAVE"
    \/ required /\ nearest = "PREFERRED"

\* The checks of a draft against the text; each gives None when it passes.
ProtectedRefusal(d) ==
    CASE (d.required.terms \cup d.preferred.terms) \cap Protected # {} -> "PROHIBITED_REQUEST"
      [] d.query \in Unsafe -> "UNSUPPORTED_SEMANTICS"
      [] OTHER -> Absent

\* Similarity is never a condition: a mandatory phrase cannot be a query.
QueryRefusal(d) ==
    CASE d.query = Absent -> Absent
      [] d.query \notin DOMAIN request.phrases -> "VALIDATION_FAILURE"
      [] request.phrases[d.query] = "MUST_HAVE" -> "UNSUPPORTED_SEMANTICS"
      [] OTHER -> Absent

FilterRefusal(d) ==
    LET bad(terms, required) ==
            \E t \in terms : t \notin SaidTerms \/ Misread(request.near[t], required)
    IN IF \/ request.marker /\ d.required.terms = {} /\ d.required.totals = {}
          \/ bad(d.required.terms, TRUE) \/ bad(d.preferred.terms, FALSE)
       THEN "VALIDATION_FAILURE" ELSE Absent

ExperienceRefusal(d) ==
    LET bad(totals, required) ==
            \E y \in totals : y \notin SaidTotals \/ Misread(request.nearYears[y], required)
    IN IF \/ bad(d.required.totals, TRUE) \/ bad(d.preferred.totals, FALSE)
          \/ SaidTotals # {} /\ d.required.totals \cup d.preferred.totals = {}
       THEN "VALIDATION_FAILURE" ELSE Absent

LimitRefusal(d) ==
    IF d.limit \in (IF request.limits # {} THEN request.limits ELSE {Absent, DefaultLimit})
    THEN Absent ELSE "VALIDATION_FAILURE"

\* The first check that fails decides.
DraftRefusal(d) ==
    CASE d.required.timed \cup d.preferred.timed # {} -> "VALIDATION_FAILURE"
      [] d.declined -> "UNSUPPORTED_SEMANTICS"
      [] OTHER ->
           LET checks == <<ProtectedRefusal(d), QueryRefusal(d), FilterRefusal(d),
                           ExperienceRefusal(d), LimitRefusal(d),
                           IF Mode(d.required, d.preferred, d.query) = Absent
                             THEN "AMBIGUOUS_REQUEST" ELSE Absent>>
               failed == {i \in DOMAIN checks : checks[i] # Absent}
           IN IF failed = {} THEN Absent ELSE checks[Min(failed)]

Converted(d) ==
    Search(d.required, d.preferred, d.query, IF d.limit = Absent THEN DefaultLimit ELSE d.limit)

\* The parser of whole sentences: required filters only, and nothing unless
\* it accounts for every clause, in agreement about the total.
SentenceDraft ==
    LET f == Filters(ToSet(request.clauses)) IN
    [required |-> f, preferred |-> NoFilters, query |-> Absent, limit |-> Absent,
     declined |-> FALSE]
Parsed ==
    /\ request.clauses # <<>>
    /\ Cardinality(SentenceDraft.required.totals) <= 1
    /\ "PREFERRED" \notin {request.near[t] : t \in SaidTerms}

Planned(p) ==
    /\ searchRequest' = p /\ outcome' = "EXECUTABLE" /\ searchStage' = "planned"
    /\ UNCHANGED <<request, attempts, eligible, response, corpus>>
Refused(why) ==
    /\ outcome' = why /\ searchStage' = "done"
    /\ UNCHANGED <<request, attempts, searchRequest, eligible, response, corpus>>

AllScorable == Requirements # {} /\ \A r \in Requirements : Scorable(r)

\* Length, protected words, unsupported wishes, an ambiguous number of
\* results, a language or a segmentation the rules do not read.
RefuseText ==
    /\ searchStage = "text" /\ tenantActive /\ request.refusal # Absent
    /\ Refused(request.refusal)

PlanFromRequirements ==
    /\ searchStage = "text" /\ tenantActive /\ request.refusal = Absent
    /\ AllScorable
    /\ LET p == Search(Gathered("MUST_HAVE"), Gathered("PREFERRED"), Absent, request.count)
       IN IF Complete(p) THEN Planned(p) ELSE Refused("VALIDATION_FAILURE")

ParsedPlan ==
    /\ Parsed
    /\ DraftRefusal(SentenceDraft) = Absent
    /\ Complete(Converted(SentenceDraft))

PlanFromSentences ==
    /\ searchStage = "text" /\ tenantActive /\ request.refusal = Absent
    /\ ~AllScorable /\ ParsedPlan
    /\ Planned(Converted(SentenceDraft))

AskModel ==
    /\ searchStage = "text" /\ tenantActive /\ request.refusal = Absent
    /\ ~AllScorable /\ ~ParsedPlan
    /\ searchStage' = "model"
    /\ UNCHANGED <<request, attempts, outcome, searchRequest, eligible, response, corpus>>

\* The answer must be of the configured model, and its plan is held to the
\* same completeness as the rules' own.
ModelDrafts ==
    /\ searchStage = "model" /\ tenantActive
    /\ \E d \in PlannerDrafts :
         LET why == DraftRefusal(d) IN
         IF why # Absent THEN Refused(why)
         ELSE IF Complete(Converted(d)) THEN Planned(Converted(d))
         ELSE Refused("VALIDATION_FAILURE")

\* MAX_PLANNER_ATTEMPTS = 2
ModelBreaksSchema ==
    /\ searchStage = "model" /\ tenantActive
    /\ attempts' = attempts + 1
    /\ IF attempts' = 2 THEN searchStage' = "done" /\ outcome' = "MALFORMED_MODEL_OUTPUT"
       ELSE UNCHANGED <<searchStage, outcome>>
    /\ UNCHANGED <<request, searchRequest, eligible, response, corpus>>

ModelFails ==
    /\ searchStage = "model" /\ tenantActive
    /\ \E why \in {"PLANNER_PROVIDER_FAILURE", "VALIDATION_FAILURE"} : Refused(why)

-----------------------------------------------------------------------------
(* The search.                                                             *)

\* Relevance over one denominator: half the preferred filters met, half the
\* similarity; a mode leaves its other half out.
Score(c, p) ==
    LET total == Cardinality(Conditions(p.preferred))
        structured == Cardinality(Met(eligible[c].content, p.preferred)) * BestFit
        semantic == eligible[c].content.fit * (IF total = 0 THEN 1 ELSE total)
    IN CASE p.mode = "STRUCTURED_ONLY" -> structured
         [] p.mode = "SEMANTIC_ONLY"   -> semantic
         [] p.mode = "HYBRID"          -> structured + semantic

Ahead(a, b, p) ==
    \/ Score(a, p) > Score(b, p)
    \/ Score(a, p) = Score(b, p) /\ a < b

Cut(s, n) == SubSeq(s, 1, IF Len(s) < n THEN Len(s) ELSE n)
Ranked(S, p) == Cut(InOrder(S, {x \in S \X S : Ahead(x[1], x[2], p)}), p.limit)

\* One statement reads the effective profiles of the tenant.
ReadProfiles ==
    /\ searchStage = "planned" /\ tenantActive
    /\ LET found == {c \in Profiled : Satisfies(effective[c].content, searchRequest.required)} IN
       eligible' = [c \in found |-> effective[c]]
    /\ searchStage' = IF searchRequest.mode = "STRUCTURED_ONLY" THEN "rank" ELSE "embed"
    /\ UNCHANGED <<request, attempts, outcome, searchRequest, response, corpus>>

\* The query is embedded outside any transaction; afterwards the tenant row is
\* locked, until the answer is committed.
Embed ==
    /\ searchStage = "embed" /\ tenantActive
    /\ searchStage' = "rank"
    /\ UNCHANGED <<request, attempts, outcome, searchRequest, eligible, response, corpus>>

\* Busy, failed, of another model, or no usable vector.
EmbedFails ==
    /\ searchStage = "embed"
    /\ outcome' = "SEARCH_FAILED" /\ searchStage' = "done"
    /\ UNCHANGED <<request, attempts, searchRequest, eligible, response, corpus>>

\* A vector counts only if it is of the very version that was read.
Comparable ==
    IF searchRequest.mode = "STRUCTURED_ONLY" THEN DOMAIN eligible
    ELSE {c \in DOMAIN eligible : <<c, eligible[c].version>> \in embeddings}

Answer ==
    /\ searchStage = "rank" /\ tenantActive
    /\ response' = Ranked(Comparable, searchRequest)
    /\ searchStage' = "done"
    /\ UNCHANGED <<request, attempts, outcome, searchRequest, eligible, corpus>>

\* Every step that reads or writes for the tenant looks at its state first.
Suspended ==
    /\ searchStage # "done" /\ ~tenantActive
    /\ outcome' = "TENANT_SUSPENDED" /\ searchStage' = "done"
    /\ UNCHANGED <<request, attempts, searchRequest, eligible, response, corpus>>

-----------------------------------------------------------------------------
(* Meanwhile: analysis, deletion, suspension.                              *)

Change == searchStage \notin {"text", "done"} /\ changes < MaxChanges /\ changes' = changes + 1

\* A new effective profile; its vector comes later.
Reanalysed(c) ==
    /\ Change /\ effective[c] # Absent
    /\ \E content \in Profiles \ {effective[c].content} :
           effective' = [effective EXCEPT ![c] = [version |-> @.version + 1, content |-> content]]
    /\ UNCHANGED <<request, searchStage, attempts, outcome, searchRequest, eligible, response,
                   tenantActive, embeddings>>

Embedded(c) ==
    /\ Change /\ effective[c] # Absent
    /\ <<c, effective[c].version>> \notin embeddings
    /\ embeddings' = embeddings \cup {<<c, effective[c].version>>}
    /\ UNCHANGED <<request, searchStage, attempts, outcome, searchRequest, eligible, response,
                   tenantActive, effective>>

Removed(c) ==
    /\ Change /\ effective[c] # Absent
    /\ effective' = [effective EXCEPT ![c] = Absent]
    /\ embeddings' = {v \in embeddings : v[1] # c}
    /\ UNCHANGED <<request, searchStage, attempts, outcome, searchRequest, eligible, response,
                   tenantActive>>

\* A suspension waits for the lock the answer of a semantic search holds.
Suspend ==
    /\ Change /\ tenantActive
    /\ ~(searchStage = "rank" /\ searchRequest.mode # "STRUCTURED_ONLY")
    /\ tenantActive' = FALSE
    /\ UNCHANGED <<request, searchStage, attempts, outcome, searchRequest, eligible, response,
                   effective, embeddings>>

SearchNext ==
    \/ RefuseText \/ PlanFromRequirements \/ PlanFromSentences \/ AskModel
    \/ ModelDrafts \/ ModelBreaksSchema \/ ModelFails
    \/ ReadProfiles \/ Embed \/ EmbedFails \/ Answer \/ Suspended
    \/ \E c \in CandidateIds : Reanalysed(c) \/ Embedded(c) \/ Removed(c)
    \/ Suspend

SearchSpec == SearchInit /\ [][SearchNext]_searchVars

-----------------------------------------------------------------------------
SearchAnswered == searchStage = "done" /\ outcome = "EXECUTABLE"

\* What the text demands reaches the answer: every candidate in it was read as
\* meeting each must-have requirement the server understood, whoever planned
\* the search, and each preferred one counts in the ranking.
MustHavesHold ==
    SearchAnswered =>
        \A r \in {x \in Requirements : Scorable(x)} :
            IF r.type = "PREFERRED"
              THEN Conditions(Filters({r})) \subseteq Conditions(searchRequest.preferred)
              ELSE \A c \in ToSet(response) : Satisfies(eligible[c].content, Filters({r}))

\* No candidate that could be compared is left out while there is room, or for
\* one that ranks behind it; none is compared by the vector of an older version
\* or after its deletion.
BestFirst ==
    SearchAnswered =>
        LET shown == ToSet(response)
            possible == IF searchRequest.mode = "STRUCTURED_ONLY" THEN DOMAIN eligible
                        ELSE {c \in DOMAIN eligible : <<c, eligible[c].version>> \in embeddings}
        IN /\ shown \subseteq possible
           /\ shown # possible => Len(response) = searchRequest.limit
           /\ \A c \in shown, d \in possible \ shown : ~Ahead(d, c, searchRequest)

\* A mandatory requirement of the text holds of every candidate in the answer
\* and a preferred one counts, and the answer is the best of all that can be
\* compared, by vectors of the versions that were read.
SearchHolds == MustHavesHold /\ BestFirst
=============================================================================
