----------------------------- MODULE AgentPlanning -----------------------------
(***************************************************************************)
(* What one agent turn does with the text of a message: the entry routing, *)
(* the plan proposed by the model or built by the server, the validation   *)
(* of that plan against the text, and its execution step by step           *)
(* (agent/service.py, agent/intent_routing.py, agent/capabilities/).  The  *)
(* words of a message are values, its analysis (the requirements, the      *)
(* protected spans, the cues the regular expressions find) is given with   *)
(* it.  How a search runs is CandidateSearch's, how sets of results live   *)
(* is ResultSets', how a question is answered is DialogueLanes'.           *)
(***************************************************************************)
EXTENDS Naturals, FiniteSets, Sequences

CONSTANTS
    Inputs,         \* [text, reqs, protected, wrapper, count, cues] each
    Plans,          \* the plans a model may propose: [goal, steps]
    Snapshots,      \* [context, results, pending, waiting, scopes] each
    Coordinators,   \* words that join the parts of one requirement
    Units,          \* words that make the number before them a duration
    CountOf,        \* word -> number, for the words that count
    OrdinalOf,      \* word -> number, for the words that point at a result
    Denied,         \* words of the prohibited list
    MaxRef,         \* MAX_CANDIDATE_REF
    MaxSteps,       \* min(MAX_PLAN_STEPS, agent_max_tool_calls)
    MaxDrifts,      \* bound: changes of the live set of results in a turn
    Nothing         \* an absent value

VARIABLES
    phase,      \* "start" "entry" "model" "validate" "execute" "done"
    message,    \* the canonical text of this turn
    snapshot,    \* the snapshot of the session the turn works on
    live,       \* the active set of results: [status, size, stale]
    plan,       \* [origin, goal, steps, source, offered] or Nothing
    attempts,   \* proposals asked of the model
    ran,        \* the executed steps: [step, cap, text, ref, ok]
    working,    \* size of the set this plan produced, or Nothing
    result,     \* [outcome, question, draft, activated] or Nothing
    drifts      \* changes of the live set so far

planningVars == <<phase, message, snapshot, live, plan, attempts, ran, working, result, drifts>>

-----------------------------------------------------------------------------
(* The capabilities.                                                        *)

Read == {"candidates:read"}
Search == "CANDIDATE_SEARCH"
Followup == "RESULT_FOLLOWUP"
Vacancy == "VACANCY_ANALYSIS"

Capability(inTurn, proposable, scopes, needs, produces, goals) ==
    [inTurn |-> inTurn, proposable |-> proposable, scopes |-> scopes,
     needs |-> needs, produces |-> produces, goals |-> goals]

Registry ==
    [SEARCH |-> Capability(TRUE, TRUE, Read, {}, {"set"}, {Search}),
     REFINE |-> Capability(TRUE, TRUE, Read, {"set"}, {}, {Search, Followup}),
     PROFILE |-> Capability(TRUE, TRUE, Read, {"set"}, {}, {Search, Followup}),
     EVIDENCE |-> Capability(TRUE, TRUE, Read, {"set"}, {}, {Search, Followup}),
     ANALYZE |-> Capability(TRUE, FALSE, Read, {}, {"draft"}, {Vacancy}),
     CREATE_JOB |-> Capability(FALSE, TRUE, Read \cup {"jobs:write", "jobs:read",
                                                       "evaluations:write"},
                               {"draft"}, {}, {Vacancy}),
     RANK |-> Capability(FALSE, FALSE, Read \cup {"jobs:read", "evaluations:write"},
                         {"job"}, {}, {Vacancy})]

Planners == {"SEARCH", "REFINE"}

(* What this session can use, of what it may use: a set of results may be  *)
(* produced on the way, the target of a human action must be there.        *)
Offered(s) ==
    LET permitted == {c \in DOMAIN Registry : /\ Registry[c].proposable
                                              /\ Registry[c].scopes \subseteq s.scopes}
        producible == UNION {Registry[c].produces : c \in permitted}
        there == (IF s.results THEN {"set"} ELSE {}) \cup (IF s.pending THEN {"draft"} ELSE {})
    IN {c \in permitted : \A need \in Registry[c].needs :
                              need \in there \/ (Registry[c].inTurn /\ need \in producible)}

-----------------------------------------------------------------------------
(* Spans of a text and what a quote resolves to.                            *)

All(t) == <<1, Len(t)>>
Overlap(s, u) == s[1] <= u[2] /\ u[1] <= s[2]
Inside(s, u) == u[1] <= s[1] /\ s[2] <= u[2]

(* The one place where the quote stands, or Nothing.                          *)
Place(q, t) ==
    LET at == {i \in 1..(Len(t) - Len(q) + 1) : SubSeq(t, i, i + Len(q) - 1) = q}
    IN IF Cardinality(at) = 1 THEN LET i == CHOOSE i \in at : TRUE IN <<i, i + Len(q) - 1>>
       ELSE Nothing

Whole == {}     \* the selection WHOLE_MESSAGE; another one is its set of quotes

Selected(sel, t) ==
    LET places == {Place(q, t) : q \in sel}
    IN IF sel = Whole THEN {All(t)}
       ELSE IF Nothing \in places \/ \E a, b \in places : a # b /\ Overlap(a, b) THEN {}
       ELSE places

Numbers(table, s, t) == {i \in s[1]..s[2] : t[i] \in DOMAIN table}

OneNumber(table, s, t) ==
    LET hits == Numbers(table, s, t)
        value == table[t[CHOOSE i \in hits : TRUE]]
    IN IF Cardinality(hits) = 1 /\ value \in 1..MaxRef THEN value ELSE Nothing

Ordinal(s, t) == OneNumber(OrdinalOf, s, t)

(* Only the quote itself is looked at: a unit that the model leaves out of *)
(* its quote goes unseen.                                                  *)
Count(s, t) ==
    IF \E i \in Numbers(CountOf, s, t) : i < s[2] /\ t[i + 1] \in Units THEN Nothing
    ELSE OneNumber(CountOf, s, t)

(* The coordinated parts of a span: the runs between its coordinators.     *)
Conjuncts(s, t) ==
    LET runs == {p \in (s[1]..s[2]) \X (s[1]..s[2]) :
                    /\ p[1] <= p[2] /\ \A i \in p[1]..p[2] : t[i] \notin Coordinators
                    /\ p[1] = s[1] \/ t[p[1] - 1] \in Coordinators
                    /\ p[2] = s[2] \/ t[p[2] + 1] \in Coordinators}
    IN IF runs = {} THEN {s} ELSE runs

SubjectSpan(r) == IF r.subject = Nothing THEN r.owner ELSE r.subject
Material(m) == {r \in m.reqs : r.state \in {"SCORABLE", "NEEDS_HUMAN_REVIEW"}}

\* Variant: one quoted part of a coordinated requirement stands for all.
CoversByOccurrence(spans, m) ==
    \A r \in Material(m) : \E s \in spans : Overlap(s, SubjectSpan(r))

Covers(spans, m) ==
    \A r \in Material(m) : \A part \in Conjuncts(SubjectSpan(r), m.text) :
        \E s \in spans : Overlap(s, part)

ProtectedSpans(m) == m.protected \cup {r.owner : r \in {x \in m.reqs : x.state = "PROHIBITED"}}

DeniedIn(s, t) == \E i \in s[1]..s[2] : t[i] \in Denied

Protected(m) == ProtectedSpans(m) # {} \/ DeniedIn(All(m.text), m.text)

-----------------------------------------------------------------------------
(* Layer 1: what the steps of a plan resolve to.                            *)

NoStep == [cap |-> "SEARCH", source |-> Nothing, limit |-> Nothing, ref |-> Nothing,
           topic |-> Nothing, span |-> Nothing, number |-> Nothing]

PlaceOf(q, t) == IF q = Nothing THEN Nothing ELSE Place(q, t)

(* A step with the text, the ordinal, the limit and the topic it resolves  *)
(* to, the spans that count as coverage (a limit does not), and what       *)
(* cannot be resolved.                                                     *)
Resolve(step, m, guarded) ==
    LET t == m.text
        text == IF step.source = Nothing THEN {} ELSE Selected(step.source, t)
        limitAt == PlaceOf(step.limit, t)
        refAt == PlaceOf(step.ref, t)
        topicAt == PlaceOf(step.topic, t)
        limit == IF limitAt = Nothing THEN Nothing ELSE Count(limitAt, t)
        ref == IF refAt = Nothing THEN Nothing ELSE Ordinal(refAt, t)
    IN [cap |-> step.cap,
        text |-> IF step.span # Nothing THEN {step.span} ELSE text,
        limit |-> IF step.number # Nothing THEN step.number ELSE limit,
        ref |-> ref, topic |-> topicAt,
        spans |-> text \cup (IF ref # Nothing THEN {refAt} ELSE {})
                       \cup (IF topicAt # Nothing THEN {topicAt} ELSE {}),
        forbidden |-> guarded /\ step.cap \in Planners /\ step.source # Whole,
        lost |-> \/ step.source # Nothing /\ text = {}
                 \/ step.limit # Nothing /\ limitAt = Nothing
                 \/ step.ref # Nothing /\ refAt = Nothing
                 \/ step.topic # Nothing /\ topicAt = Nothing,
        unread |-> \/ limitAt # Nothing /\ limit = Nothing
                   \/ refAt # Nothing /\ ref = Nothing]

Resolved(p) ==
    [i \in DOMAIN p.steps |->
        Resolve(p.steps[i], p.source, p.origin = "MODEL" /\ Protected(p.source))]

Fails(code, at) == [code |-> code, at |-> at]

Least(S) == CHOOSE i \in S : \A j \in S : i <= j

FirstFailure(checks) ==
    LET failing == {k \in DOMAIN checks : checks[k].at # {}}
        first == checks[Least(failing)]
    IN IF failing = {} THEN [code |-> "VALID", at |-> 0]
       ELSE [code |-> first.code, at |-> Least(first.at)]

(* One capability with one meaning, twice.                                 *)
Same(p, r, i, j) ==
    LET failed(k) == r[k].forbidden \/ r[k].lost \/ r[k].unread
        meaning(k) == <<r[k].text, r[k].ref, r[k].limit, r[k].topic>>
    IN /\ r[i].cap = r[j].cap /\ failed(i) = failed(j)
       /\ IF failed(i) THEN p.steps[i] = p.steps[j] ELSE meaning(i) = meaning(j)

(* Does step i read the set that was there before the plan?                *)
ReadsLive(p, i) ==
    /\ "set" \in Registry[p.steps[i].cap].needs
    /\ \A j \in 1..(i - 1) : "set" \notin Registry[p.steps[j].cap].produces

(* What of the live set the server looks at: the places a plan points at,  *)
(* all of it for a refinement.                                             *)
Inspected(p, r, set) ==
    LET reads == {i \in DOMAIN p.steps : ReadsLive(p, i)}
    IN [set EXCEPT !.stale = IF \E i \in reads : p.steps[i].cap = "REFINE" THEN @
                             ELSE @ \cap {r[i].ref : i \in reads}]

(* A step reads what a later step, or itself, or the second of two         *)
(* producers produces.                                                     *)
Misordered(p) ==
    {i \in DOMAIN p.steps : \E what \in {"set", "draft", "job"} :
        LET producers == {j \in DOMAIN p.steps : what \in Registry[p.steps[j].cap].produces}
        IN \/ i \in producers /\ \E j \in producers : j < i
           \/ /\ what \in Registry[p.steps[i].cap].needs /\ producers # {}
              /\ \A j \in producers : j >= i}

(* What a plan may hold, and how its steps may be put.                      *)
Shape(p, r, s) ==
    LET of(i) == Registry[p.steps[i].cap]
        Steps == DOMAIN p.steps
        model == p.origin = "MODEL"
    IN <<
        Fails("UNKNOWN_CAPABILITY",
              {i \in Steps : model /\ of(i).proposable /\ p.steps[i].cap \notin p.offered}),
        Fails("NOT_MODEL_PROPOSABLE", {i \in Steps : model /\ ~of(i).proposable}),
        Fails("PLAN_TOO_LONG", IF Len(p.steps) > MaxSteps THEN {1} ELSE {}),
        Fails("DUPLICATE_STEP", {i \in Steps : \E j \in 1..(i - 1) : Same(p, r, i, j)}),
        Fails("SCOPE_MISSING", {i \in Steps : ~(of(i).scopes \subseteq s.scopes)}),
        Fails("TASK_TYPE_CONFLICT", {i \in Steps : p.goal \notin of(i).goals}) >>

(* What its steps resolve to, against the text.                            *)
Grounding(p, r) ==
    LET Steps == DOMAIN p.steps
        model == p.origin = "MODEL"
        spans == UNION {r[i].spans : i \in Steps}
    IN <<
        Fails("SOURCE_SELECTION_FORBIDDEN", {i \in Steps : r[i].forbidden}),
        Fails("SOURCE_NOT_GROUNDED", {i \in Steps : r[i].lost}),
        Fails("REFERENCE_NOT_GROUNDED", {i \in Steps : r[i].unread}),
        Fails("SOURCE_COVERAGE_INCOMPLETE",
              IF model /\ ~Covers(spans, p.source) THEN {1} ELSE {}),
        Fails("PROHIBITED_ATTRIBUTE",
              {i \in Steps : /\ model /\ r[i].topic # Nothing
                             /\ \/ DeniedIn(r[i].topic, p.source.text)
                                \/ \E q \in ProtectedSpans(p.source) : Overlap(r[i].topic, q)}) >>

SetCode(status) == IF status = "EXPIRED" THEN "RESULT_SET_EXPIRED" ELSE "RESULT_SET_NONE"

(* What its steps need, against the session and its set of results.        *)
Context(p, r, s, set) ==
    LET Steps == DOMAIN p.steps
        of(i) == Registry[p.steps[i].cap]
        reads == {i \in Steps : ReadsLive(p, i)}
    IN <<
        Fails("DEPENDENCY_INVALID", Misordered(p)),
        Fails(SetCode(set.status), IF set.status = "VALID" THEN {} ELSE reads),
        Fails("RESULT_SET_STALE",
              {i \in reads : IF r[i].ref = Nothing THEN set.stale # {} ELSE r[i].ref \in set.stale}),
        Fails("CANDIDATE_REF_OUT_OF_RANGE",
              {i \in reads : r[i].ref # Nothing /\ r[i].ref > set.size}),
        Fails("CONFIRMATION_REQUIRED",
              {i \in Steps : ~of(i).inTurn /\ ~(s.pending /\ of(i).needs = {"draft"})}) >>

Verdict(p, s, set) ==
    LET r == Resolved(p)
        shape == FirstFailure(Shape(p, r, s))
        grounding == FirstFailure(Grounding(p, r))
    IN IF shape.code # "VALID" THEN shape
       ELSE IF grounding.code # "VALID" THEN grounding
       ELSE FirstFailure(Context(p, r, s, Inspected(p, r, set)))

-----------------------------------------------------------------------------
(* The entry routing: the first rule whose cues the text shows.            *)

JobSource(m) == IF m.wrapper = Nothing THEN All(m.text) ELSE <<m.wrapper, Len(m.text)>>

UsefulSource(m) ==
    /\ JobSource(m)[1] <= JobSource(m)[2]
    /\ \/ \E r \in m.reqs : Inside(r.owner, JobSource(m))
       \/ m.wrapper # Nothing /\ "lines" \in m.cues

(* A command to search, at the place where a command stands, for people,   *)
(* for a requirement or for a number of results.                           *)
ExplicitNewSearch(m) ==
    /\ "imperative" \in m.cues /\ "too long to search" \notin m.cues
    /\ \/ "candidates" \in m.cues
       \/ m.reqs # {}
       \/ "result count" \in m.cues

(* A vacancy that was pasted: a heading, or two lines or bullets.          *)
Pasted(m) ==
    \/ "header" \in m.cues /\ m.reqs # {}
    \/ "lines" \in m.cues /\ Cardinality(m.reqs) >= 2

Rule(name, holds) == Fails(name, IF holds THEN {1} ELSE {})

Rules(m) ==
    LET has(cue) == cue \in m.cues IN <<
        Rule("CLARIFY_INPUT_STRUCTURE", has("overflow")),
        Rule("CLARIFY_JOB_SOURCE_REQUIRED", has("job analysis") /\ ~UsefulSource(m)),
        Rule("FORCE_JOB_DRAFT", has("job analysis")),
        Rule("FORCE_RESULT_LIMIT", m.count # Nothing),
        Rule("MODEL_ROUTED", has("result context")),
        Rule("FORCE_CANDIDATE_SEARCH", ExplicitNewSearch(m)),
        Rule("MODEL_ROUTED", has("search words") \/ has("result count")),
        Rule("FORCE_JOB_DRAFT", Pasted(m)),
        Rule("CLARIFY_AMBIGUOUS", m.reqs # {}),
        Rule("MODEL_ROUTED", TRUE) >>

Route(m) == FirstFailure(Rules(m)).code

Eligible(m) == Material(m) # {} /\ \A r \in m.reqs : r.state # "PROHIBITED"

(* What the analysis promises of the spans it gives, and the schemas of    *)
(* the arguments a model may author (no offsets, no numbers, and only the  *)
(* names of the registry).                                                 *)
ASSUME PlanningAssumption ==
    /\ \A m \in Inputs :
        /\ Len(m.text) \in Nat
        /\ \A q \in m.protected \cup {r.owner : r \in m.reqs} :
               q[1] \in 1..Len(m.text) /\ q[2] \in q[1]..Len(m.text)
        /\ Nothing \notin {All(m.text), JobSource(m)}
    /\ \A p \in Plans : \A i \in DOMAIN p.steps :
        /\ p.steps[i].cap \in DOMAIN Registry
        /\ p.steps[i].span = Nothing /\ p.steps[i].number = Nothing
    /\ Nothing # Whole

-----------------------------------------------------------------------------
PlanningInit ==
    /\ phase = "start" /\ message \in Inputs /\ snapshot \in Snapshots
    /\ live = IF snapshot.results THEN [status |-> "VALID", size |-> MaxRef, stale |-> {}]
              ELSE [status |-> "NONE", size |-> 0, stale |-> {}]
    /\ plan = Nothing /\ attempts = 0 /\ ran = {} /\ working = Nothing /\ result = Nothing
    /\ drifts = 0

Outcome(outcome, question) ==
    [outcome |-> outcome, question |-> question, draft |-> FALSE, activated |-> FALSE]

Answer(r) == phase' = "done" /\ result' = r

Clarify(question) == Answer(Outcome("CLARIFICATION_REQUESTED", question))

Adopt(p) == phase' = "validate" /\ plan' = p

ServerPlan(goal, step, source) ==
    [origin |-> "SERVER", goal |-> goal, steps |-> <<step>>, source |-> source, offered |-> {}]

SearchPlan(source) == ServerPlan(Search, [NoStep EXCEPT !.source = Whole], source)

VacancyPlan(span, source) ==
    ServerPlan(Vacancy, [NoStep EXCEPT !.cap = "ANALYZE", !.span = span], source)

LimitPlan(n, source) ==
    ServerPlan(Followup, [NoStep EXCEPT !.cap = "REFINE", !.number = n], source)

(* [1] A waiting question comes first: it ends the turn, resumes over the  *)
(* text it was asked about, or lets the message pass on.                   *)
ResolveDialogue ==
    /\ phase = "start"
    /\ \/ snapshot.waiting /\ Clarify(Nothing) /\ UNCHANGED plan
       \/ /\ snapshot.waiting
          /\ \E source \in {m \in Inputs : Eligible(m)} :
                \/ Adopt(VacancyPlan(All(source.text), source)) /\ UNCHANGED result
                \/ IF "too long to search" \in source.cues THEN Clarify(Nothing) /\ UNCHANGED plan
                   ELSE Adopt(SearchPlan(source)) /\ UNCHANGED result
       \/ phase' = "entry" /\ UNCHANGED <<plan, result>>
    /\ UNCHANGED <<message, snapshot, live, attempts, ran, working, drifts>>

(* A pending draft takes a follow-up before any routing.                   *)
FollowUpDraft ==
    /\ phase = "entry" /\ snapshot.pending /\ "followup" \in message.cues
    /\ \/ Clarify(Nothing)
       \/ Answer([Outcome("ANSWERED_FROM_TOOL_RESULT", Nothing) EXCEPT !.draft = TRUE])
    /\ UNCHANGED <<message, snapshot, live, plan, attempts, ran, working, drifts>>

(* Of the clarifications of the server, two can be answered later.         *)
Question(route, m) ==
    IF ~snapshot.context THEN Nothing
    ELSE IF route = "CLARIFY_JOB_SOURCE_REQUIRED" THEN "VACANCY_SOURCE"
    ELSE IF route = "CLARIFY_AMBIGUOUS" /\ Eligible(m) THEN "SEARCH_OR_VACANCY" ELSE Nothing

RouteEntry ==
    LET route == Route(message) IN
    /\ phase = "entry" /\ ~(snapshot.pending /\ "followup" \in message.cues)
    /\ \/ /\ route \in {"CLARIFY_AMBIGUOUS", "CLARIFY_JOB_SOURCE_REQUIRED",
                        "CLARIFY_INPUT_STRUCTURE"}
          /\ Clarify(Question(route, message)) /\ UNCHANGED plan
       \/ /\ route = "FORCE_JOB_DRAFT" /\ UNCHANGED result
          /\ Adopt(VacancyPlan(IF "job analysis" \in message.cues THEN JobSource(message)
                               ELSE All(message.text), message))
       \/ /\ route = "FORCE_CANDIDATE_SEARCH"
          /\ Adopt(SearchPlan(message)) /\ UNCHANGED result
       \/ /\ route = "FORCE_RESULT_LIMIT"
          /\ Adopt(LimitPlan(message.count, message)) /\ UNCHANGED result
       \/ route = "MODEL_ROUTED" /\ phase' = "model" /\ UNCHANGED <<plan, result>>
    /\ UNCHANGED <<message, snapshot, live, attempts, ran, working, drifts>>

MaxProposals == 2

(* [3] The reply is malformed (one repair is asked for), a reply without   *)
(* steps (well formed or not), or a plan.                                  *)
Propose ==
    /\ phase = "model" /\ attempts' = attempts + 1
    /\ \/ IF attempts' = MaxProposals THEN Answer(Outcome("MALFORMED_MODEL_OUTPUT", Nothing))
          ELSE UNCHANGED <<phase, result>>
       \/ Clarify(Nothing)
       \/ Clarify(Question("CLARIFY_AMBIGUOUS", message))
       \/ Answer(Outcome("ANSWERED", Nothing))
    /\ UNCHANGED <<message, snapshot, live, plan, ran, working, drifts>>

ProposePlan ==
    /\ phase = "model"
    /\ \E p \in Plans :
        Adopt([origin |-> "MODEL", goal |-> p.goal, steps |-> p.steps, source |-> message,
               offered |-> Offered(snapshot)])
    /\ UNCHANGED <<message, snapshot, live, attempts, ran, working, result, drifts>>

-----------------------------------------------------------------------------
(* [4] The whole plan is valid, against the set of results as it is now,   *)
(* or nothing of it is executed.                                           *)

SetFailures == {"RESULT_SET_NONE", "RESULT_SET_STALE", "RESULT_SET_EXPIRED",
                "CANDIDATE_REF_OUT_OF_RANGE"}

\* What the user reads when the set of results, or the place in it, is wrong.
SetOutcome(code, cap) ==
    IF code \in {"RESULT_SET_STALE", "RESULT_SET_EXPIRED"} THEN code
    ELSE IF cap = "REFINE" THEN "CLARIFICATION_REQUESTED" ELSE "CANDIDATE_REF_NOT_FOUND"

RejectForSet(v) == Answer(Outcome(SetOutcome(v.code, plan.steps[v.at].cap), Nothing))

RejectPlan(v) ==
    LET cap == plan.steps[v.at].cap IN
    IF v.code \in SetFailures THEN RejectForSet(v)
    ELSE Clarify(IF v.code = "NOT_MODEL_PROPOSABLE" /\ cap = "ANALYZE"
                 THEN Question("CLARIFY_AMBIGUOUS", message) ELSE Nothing)

\* The steps this turn executes; the others wait for a human confirmation.
Executable(p) == {i \in DOMAIN p.steps : Registry[p.steps[i].cap].inTurn}

Validate ==
    LET v == Verdict(plan, snapshot, live) IN
    /\ phase = "validate"
    /\ \/ v.code # "VALID" /\ RejectPlan(v)
       \/ /\ v.code = "VALID" /\ Executable(plan) = {}
          /\ Answer(Outcome("ANSWERED", Nothing))
       \/ /\ v.code = "VALID" /\ Executable(plan) # {}
          /\ phase' = "execute" /\ UNCHANGED result
    /\ UNCHANGED <<message, snapshot, live, plan, attempts, ran, working, drifts>>

(* Why a step cannot answer, "" when it may: the planner refuses a text    *)
(* with protected content, a place is not in the set it points into.       *)
Obstacle(r) ==
    IF r.cap \in Planners /\ r.text # {}
    THEN IF \E s \in r.text : \/ DeniedIn(s, plan.source.text)
                              \/ \E q \in ProtectedSpans(plan.source) : Overlap(s, q)
         THEN "REFUSED" ELSE ""
    ELSE IF "set" \notin Registry[r.cap].needs THEN ""
    ELSE IF working # Nothing
    THEN IF working = 0 \/ (r.ref # Nothing /\ r.ref > working) THEN "CANDIDATE_REF_OUT_OF_RANGE"
         ELSE ""
    ELSE IF live.status # "VALID" THEN SetCode(live.status)
    ELSE IF r.ref \in live.stale \/ (r.ref = Nothing /\ live.stale # {}) THEN "RESULT_SET_STALE"
    ELSE ""

(* A plan of one step reports its own failure, a longer one that it is     *)
(* incomplete; a set it produced is live only when all of it succeeded.    *)
StepFailure(r, why) ==
    IF Cardinality(Executable(plan)) > 1 THEN "PLAN_INCOMPLETE"
    ELSE IF r.cap = "ANALYZE" THEN "JOB_DRAFT_FAILED"
    ELSE IF r.cap = "SEARCH" THEN "ANSWERED_FROM_TOOL_RESULT"
    ELSE IF r.cap = "REFINE" /\ why \in {"", "REFUSED"} THEN "CLARIFICATION_REQUESTED"
    ELSE SetOutcome(why, r.cap)

(* What an executor may report: success where nothing stands against it,   *)
(* and the size of the set it leaves.                                      *)
Reports(r) ==
    {o \in [ok : BOOLEAN, size : 0..MaxRef] :
        /\ o.ok => Obstacle(r) = ""
        /\ ~(o.ok /\ r.cap \in Planners) => o.size = 0
        /\ r.limit # Nothing => o.size <= r.limit}

ExecuteStep ==
    /\ phase = "execute"
    /\ \E i \in Executable(plan) \ {e.step : e \in ran} :
        LET r == Resolve(plan.steps[i], plan.source, FALSE)
            later == {j \in Executable(plan) : j > i}
        IN \E o \in Reports(r) :
            /\ \A j \in Executable(plan) : j < i => \E e \in ran : e.step = j
            /\ ran' = ran \cup {[step |-> i, cap |-> r.cap, text |-> r.text, ref |-> r.ref,
                                 ok |-> o.ok]}
            /\ working' = IF o.ok /\ r.cap \in Planners THEN o.size ELSE working
            /\ \/ ~o.ok /\ Answer(Outcome(StepFailure(r, Obstacle(r)), Nothing))
               \/ o.ok /\ later # {} /\ UNCHANGED <<phase, result>>
               \/ /\ o.ok /\ later = {}
                  /\ Answer([Outcome("ANSWERED_FROM_TOOL_RESULT", Nothing) EXCEPT
                                !.draft = \E e \in ran' : e.cap = "ANALYZE",
                                !.activated = working' # Nothing])
    /\ UNCHANGED <<message, snapshot, live, plan, attempts, drifts>>

(* While the model works, and between the validation and each step, the    *)
(* live set expires or a profile in it is replaced.                        *)
Drift ==
    /\ phase \in {"model", "execute"} /\ drifts < MaxDrifts
    /\ live.status = "VALID" /\ drifts' = drifts + 1
    /\ \/ live' = [live EXCEPT !.status = "EXPIRED"]
       \/ \E n \in 1..live.size : live' = [live EXCEPT !.stale = @ \cup {n}]
    /\ UNCHANGED <<phase, message, snapshot, plan, attempts, ran, working, result>>

PlanningNext ==
    \/ ResolveDialogue \/ FollowUpDraft \/ RouteEntry
    \/ Propose \/ ProposePlan \/ Validate \/ ExecuteStep \/ Drift

PlanningSpec == PlanningInit /\ [][PlanningNext]_planningVars

-----------------------------------------------------------------------------
(* What of the source the steps of a plan look for, or point at.           *)
Reached(p) ==
    LET t == p.source.text
        places(s) == {PlaceOf(s.ref, t), PlaceOf(s.topic, t)} \ {Nothing}
    IN UNION {places(p.steps[i]) \cup Resolve(p.steps[i], p.source, FALSE).text :
                i \in DOMAIN p.steps}

(* Whatever the model proposes, a step that answered answers for the whole *)
(* message: every part of every requirement is reached by its plan, a text *)
(* with protected content found nobody and narrowed nobody down (a count   *)
(* that is all of the message is the server's, and it alone is taken), and *)
(* a vacancy was analysed on the word of the server alone, over material   *)
(* of its own (agent/capabilities/grounding.py, agent/intent_routing.py).  *)
PlanAnswersMessage ==
    \A e \in ran : e.ok =>
        /\ plan.origin = "MODEL" =>
               \A r \in Material(message) : \A part \in Conjuncts(SubjectSpan(r), message.text) :
                   \E s \in Reached(plan) : Overlap(s, part)
        /\ e.cap \in Planners /\ (plan.origin = "MODEL" \/ e.text # {}) => ~Protected(plan.source)
        /\ e.cap = "ANALYZE" =>
               /\ plan.origin = "SERVER"
               /\ \/ "lines" \in plan.source.cues
                  \/ \E r \in plan.source.reqs, s \in e.text : Inside(r.owner, s)

(* The values the variables take.                                          *)
PlanningTypeOK ==
    /\ phase \in {"start", "entry", "model", "validate", "execute", "done"}
    /\ message \in Inputs /\ snapshot \in Snapshots
    /\ attempts \in 0..MaxProposals /\ drifts \in 0..MaxDrifts /\ working \in 0..MaxRef \cup {Nothing}
    /\ (phase = "done") = (result # Nothing)
    /\ Cardinality(ran) <= MaxSteps
=============================================================================
