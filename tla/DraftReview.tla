----------------------------- MODULE DraftReview -----------------------------
(***************************************************************************)
(* One job draft, from the requirements found in the text of a vacancy to  *)
(* the confirmed criteria: the server's own reading of each source span,   *)
(* the model's proposals and what they may change, the collision policy,   *)
(* HR's clicks and follow-up messages, and the proof of origin that the    *)
(* confirmation demands of the result.                                     *)
(* A span's text is reduced to what was read from it.  Its years stand for *)
(* a duration or a language level alike.                                   *)
(***************************************************************************)
EXTENDS Naturals, FiniteSets, FiniteSetsExt, Sequences

CONSTANTS
    Spans,          \* source spans, numbered in the order of the text
    Subjects,       \* canonical subjects with their kind (semantic_identity)
    Timed,          \* the subjects whose kind needs a duration
    Years,          \* durations a text or a follow-up can name
    Unset,
    Sources,        \* the vacancies considered: functions from spans to readings
    MaxAmendments   \* bound on follow-ups (the code's own bound is 256)

Types == {"MUST_HAVE", "PREFERRED"}

\* What can be found in a span, first match first.
Priority ==
    <<"PROHIBITED", "SEGMENTATION", "NEGATED", "COUNT_ENTITY", "PARTICLE", "EXCEEDS",
      "OTHER_FAMILY", "TRAILING_PLUS", "MODALITY_UNKNOWN", "SUBJECT_MISSING", "PERSON",
      "UNAUTHORIZED", "NO_DURATION", "QUANTITY", "RAW_SUBJECT">>

\* What the constants must satisfy; a module that extends this one assumes it.
DraftAssumption ==
    /\ Spans \subseteq Nat /\ IsFiniteSet(Spans)
    /\ Timed \subseteq Subjects
    /\ Unset \notin Years /\ Unset \notin Types /\ Unset # "EXCLUDED"
    /\ \A i \in DOMAIN Priority : Unset # Priority[i]
    /\ \A reading \in Sources : \A s \in Spans :
          /\ reading[s].subject \in Subjects
          /\ reading[s].type \in Types \cup {Unset} /\ reading[s].years \in Years \cup {Unset}

VARIABLES
    source,       \* what the server reads in each span of the vacancy
    stage,        \* "text" | "draft" | "confirmed"
    requirements, \* span |-> [state, type, criterion]
    criteria,     \* the draft's must_have and preferred criteria
    needsReview,  \* the items HR is shown for review
    decisions,    \* span |-> HR's last decision, or Unset
    resolutions,  \* conflicts HR settled
    amendments,   \* follow-up changes, in order
    limitOpen,    \* the number of results asked for is ambiguous
    lateJoins     \* spans clicked into a criterion that was already amended (history)

reviewVars == <<source, stage, requirements, criteria, needsReview, decisions,
          resolutions, amendments, limitOpen, lateJoins>>

Params(x) == [type |-> x.type, years |-> x.years]

\* CriterionIn refuses a timed kind without a duration.
Valid(subject, years) == subject \in Timed => years # Unset

-----------------------------------------------------------------------------
(* The deterministic reading of a span.                                    *)

Found(r) ==
    r.cues
    \cup {"MODALITY_UNKNOWN" : x \in {y \in {r.type} : y = Unset}}
    \cup {"NO_DURATION" : x \in {y \in {r} : ~Valid(y.subject, y.years)}}

Reason(r) ==
    LET hits == {i \in DOMAIN Priority : Priority[i] \in Found(r)}
    IN  IF hits = {} THEN Unset ELSE Priority[Min(hits)]

Outside == {"PROHIBITED", "NEGATED", "EXCEEDS", "OTHER_FAMILY"}

Liftable == {"RAW_SUBJECT", "PERSON"}

Interpretable(s) == Reason(source[s]) \notin Outside

\* A canonical subject, and nothing but the modality in doubt.
ShapedAlone(s) ==
    /\ Reason(source[s]) \in {Unset, "MODALITY_UNKNOWN", "TRAILING_PLUS"}
    /\ "RAW_SUBJECT" \notin source[s].cues

-----------------------------------------------------------------------------
(* The draft.  accepted: the spans for which the model proposed exactly    *)
(* one subject that passed the validation.                                 *)

Lifted(accepted) == {s \in accepted : Reason(source[s]) \in Liftable}

Readable(accepted) == {s \in Spans : Reason(source[s]) = Unset} \cup Lifted(accepted)

\* The sides of one coordinated clause are scorable together or not at all.
Symmetric(accepted) ==
    LET sides == {s \in Spans : source[s].coordinated /\ Interpretable(s)}
        whole == Cardinality(sides) < 2 \/ sides \subseteq Readable(accepted)
    IN  IF whole THEN Readable(accepted) ELSE Readable(accepted) \ sides

SameSubject(accepted) ==
    {{s \in Symmetric(accepted) : source[s].subject = x} : x \in Subjects}

\* Variant: only the modality is compared.
ClashInTypeOnly(accepted) ==
    {S \in SameSubject(accepted) : Cardinality({source[s].type : s \in S}) > 1}

\* Scorable spans of one identity that do not agree on its parameters.
Clashes(accepted) ==
    {S \in SameSubject(accepted) : Cardinality({Params(source[s]) : s \in S}) > 1}

Settled(accepted) ==
    {s \in Symmetric(accepted) \ UNION Clashes(accepted) :
        Valid(source[s].subject, source[s].years)}

\* The first span of an identity names its criterion; the others share it.
Origin(s, S) == Min({t \in S : source[t].subject = source[s].subject})

Criterion(id, subject, params) ==
    [id |-> id, subject |-> subject, type |-> params.type, years |-> params.years]

ConflictItem(S) ==
    [span |-> Min(S), spans |-> S, subject |-> source[Min(S)].subject, years |-> Unset,
     allowed |-> {}, options |-> {Params(source[s]) : s \in S},
     blocking |-> TRUE, excluded |-> FALSE]

\* Variant: only a validated shape can block.
BlockingShaped(s, shaped) == shaped /\ source[s].type = "MUST_HAVE"

\* An explicit must-have that stays in review blocks the confirmation.
Blocking(s, shaped) == source[s].type = "MUST_HAVE"

ReviewItem(s, shaped) ==
    [span |-> s, spans |-> {s}, subject |-> source[s].subject, years |-> source[s].years,
     allowed |-> IF shaped /\ source[s].type = Unset THEN Types ELSE {}, options |-> {},
     blocking |-> Blocking(s, shaped), excluded |-> FALSE]

ReviewItems(accepted) ==
    LET open   == {s \in Spans : Interpretable(s)} \ (Settled(accepted) \cup UNION Clashes(accepted))
        shaped == {s \in open : ShapedAlone(s) /\ Reason(source[s]) # Unset}
    IN  {ConflictItem(S) : S \in Clashes(accepted)}
        \cup {ReviewItem(s, s \in shaped) : s \in open}

Requirement(state, type, criterion) ==
    [state |-> state, type |-> type, criterion |-> criterion]

ReviewInit ==
    /\ source \in Sources
    /\ stage = "text"
    /\ requirements = [s \in Spans |-> Requirement("UNREAD", Unset, Unset)]
    /\ criteria = {} /\ needsReview = {} /\ resolutions = {} /\ lateJoins = {}
    /\ decisions = [s \in Spans |-> Unset]
    /\ amendments = <<>>
    /\ limitOpen \in BOOLEAN

\* Nothing accepted is also what a failing model leaves behind.
Build(accepted) ==
    LET good == Settled(accepted) IN
    /\ stage = "text"
    /\ stage' = "draft"
    /\ requirements' = [s \in Spans |->
            IF s \in good
            THEN Requirement("SCORABLE", source[s].type, Origin(s, good))
            ELSE Requirement(IF Interpretable(s) THEN "REVIEW" ELSE "OUTSIDE",
                             source[s].type, Unset)]
    /\ criteria' = {Criterion(Origin(s, good), source[s].subject, Params(source[s])) : s \in good}
    /\ needsReview' = ReviewItems(accepted)
    /\ UNCHANGED <<source, decisions, resolutions, amendments, limitOpen, lateJoins>>

-----------------------------------------------------------------------------
(* HR's clicks and messages.                                               *)

Existing(subject) == {c \in criteria : c.subject = subject}

FollowedUp(c) == \E i \in DOMAIN amendments : amendments[i].criterion = c.id

Joinable(c, params) == Params(c) = params

\* A click on a modality: a new criterion, or one more span of the equal one.
ResolveModality(item, type) ==
    LET params == [type |-> type, years |-> item.years]
        same   == Existing(item.subject)
        id     == IF same = {} THEN item.span ELSE (CHOOSE c \in same : TRUE).id
    IN
    /\ stage = "draft" /\ item \in needsReview /\ type \in item.allowed
    /\ Valid(item.subject, item.years)
    /\ \A c \in same : Joinable(c, params)
    /\ criteria' = IF same = {} THEN criteria \cup {Criterion(id, item.subject, params)}
                   ELSE criteria
    /\ requirements' = [requirements EXCEPT ![item.span] = Requirement("SCORABLE", type, id)]
    /\ needsReview' = needsReview \ {item}
    /\ decisions' = [decisions EXCEPT ![item.span] = type]
    /\ lateJoins' = IF \E c \in same : FollowedUp(c) THEN lateJoins \cup {item.span} ELSE lateJoins
    /\ UNCHANGED <<source, stage, resolutions, amendments, limitOpen>>

\* A conflict becomes one criterion with the parameters HR chose.
ResolveConflict(item, chosen) ==
    /\ stage = "draft" /\ item \in needsReview /\ ~item.excluded
    /\ chosen \in item.options
    /\ Existing(item.subject) = {}
    /\ Valid(item.subject, chosen.years)
    /\ criteria' = criteria \cup {Criterion(item.span, item.subject, chosen)}
    /\ requirements' = [s \in Spans |->
            IF s \in item.spans THEN Requirement("SCORABLE", chosen.type, item.span)
            ELSE requirements[s]]
    /\ needsReview' = needsReview \ {item}
    /\ resolutions' = resolutions \cup
            {[spans |-> item.spans, options |-> item.options, chosen |-> chosen]}
    /\ UNCHANGED <<source, stage, decisions, amendments, limitOpen, lateJoins>>

\* HR acknowledges that a blocking requirement is left out of the ranking.
Exclude(item) ==
    /\ stage = "draft" /\ item \in needsReview /\ item.blocking /\ ~item.excluded
    /\ needsReview' = (needsReview \ {item}) \cup {[item EXCEPT !.excluded = TRUE]}
    /\ decisions' = [decisions EXCEPT ![item.span] = "EXCLUDED"]
    /\ UNCHANGED <<source, stage, requirements, criteria, resolutions, amendments, limitOpen, lateJoins>>

Chain(c, field, new) ==
    Append(amendments, [criterion |-> c.id, field |-> field, previous |-> c[field], new |-> new])

\* The spans of an amended criterion show its new type.
Retyped(c, type) ==
    [s \in Spans |-> IF requirements[s].criterion = c.id
                     THEN [requirements[s] EXCEPT !.type = type] ELSE requirements[s]]

\* A follow-up that names one criterion and changes one of its values.
Amend(c, field, new) ==
    /\ stage = "draft" /\ Len(amendments) < MaxAmendments
    /\ c \in criteria /\ c[field] # Unset /\ c[field] # new
    /\ criteria' = (criteria \ {c}) \cup {[c EXCEPT ![field] = new]}
    /\ requirements' = IF field = "type" THEN Retyped(c, new) ELSE requirements
    /\ amendments' = Chain(c, field, new)
    /\ UNCHANGED <<source, stage, needsReview, decisions, resolutions, limitOpen, lateJoins>>

\* "10 yox, 5": a follow-up that names the number of results.
SetLimit ==
    /\ stage = "draft" /\ limitOpen
    /\ limitOpen' = FALSE
    /\ UNCHANGED <<source, stage, requirements, criteria, needsReview, decisions,
                   resolutions, amendments, lateJoins>>

-----------------------------------------------------------------------------
(* The confirmation.                                                       *)

\* agent_draft_requires_resolution.
RequiresResolution ==
    limitOpen \/ \E item \in needsReview : item.allowed # {} \/ (item.blocking /\ ~item.excluded)

Supporting(c) ==
    {s \in Spans : requirements[s].state = "SCORABLE" /\ requirements[s].criterion = c.id}

\* The parameters a span gives its criterion before any follow-up.
OriginOf(s) ==
    IF \E r \in resolutions : s \in r.spans
    THEN (CHOOSE r \in resolutions : s \in r.spans).chosen
    ELSE [type |-> IF decisions[s] \in Types THEN decisions[s] ELSE source[s].type,
          years |-> source[s].years]

\* A resolution is a choice among what the source really says.
OptionsHold ==
    \A r \in resolutions :
        r.options = {Params(source[s]) : s \in r.spans} /\ Cardinality(r.options) > 1

DecisionsHold ==
    \A s \in Spans : requirements[s].state = "SCORABLE" =>
        /\ OriginOf(s).type # Unset
        /\ decisions[s] \in Types => source[s].type = Unset

\* What a parameter has become before follow-up i: what the last follow-up on
\* its criterion made of it, or what the origin gives.
ValueAt(origin, id, field, i) ==
    LET past == {j \in 1..(i - 1) : amendments[j].criterion = id /\ amendments[j].field = field}
    IN  IF past = {} THEN origin[field] ELSE amendments[Max(past)].new

\* The follow-ups replayed over an origin, each upon the value it replaced,
\* end in what the criterion says.
Replays(origin, c) ==
    /\ \A i \in DOMAIN amendments : amendments[i].criterion = c.id =>
          /\ amendments[i].previous # Unset
          /\ amendments[i].previous = ValueAt(origin, c.id, amendments[i].field, i)
    /\ \A field \in {"type", "years"} :
          c[field] = ValueAt(origin, c.id, field, Len(amendments) + 1)

Explained(c) ==
    LET origins == {OriginOf(s) : s \in Supporting(c)}
    IN  Supporting(c) # {} /\ \A o \in origins : origins = {o} /\ Replays(o, c)

ExclusionsHold ==
    {s \in Spans : decisions[s] = "EXCLUDED"}
        = {item.span : item \in {i \in needsReview : i.excluded}}

\* build_agent_semantic_provenance accepts the draft.
Proven ==
    /\ {requirements[s].criterion : s \in {t \in Spans : requirements[t].state = "SCORABLE"}}
         = {c.id : c \in criteria}
    /\ \A c, d \in criteria : c.subject = d.subject => c = d
    /\ OptionsHold /\ DecisionsHold /\ ExclusionsHold
    /\ \A c \in criteria : Explained(c)

Confirm ==
    /\ stage = "draft" /\ ~RequiresResolution /\ criteria # {} /\ Proven
    /\ stage' = "confirmed"
    /\ UNCHANGED <<source, requirements, criteria, needsReview, decisions,
                   resolutions, amendments, limitOpen, lateJoins>>

FollowUp ==
    \E c \in criteria :
        \/ \E type \in Types : Amend(c, "type", type)
        \/ \E years \in Years : Amend(c, "years", years)

ReviewNext ==
    \/ \E accepted \in SUBSET Spans : accepted = Lifted(accepted) /\ Build(accepted)
    \/ \E item \in needsReview, type \in Types : ResolveModality(item, type)
    \/ \E item \in needsReview : \E chosen \in item.options : ResolveConflict(item, chosen)
    \/ \E item \in needsReview : Exclude(item)
    \/ FollowUp
    \/ SetLimit
    \/ Confirm

ReviewSpec == ReviewInit /\ [][ReviewNext]_reviewVars

-----------------------------------------------------------------------------
(* Properties                                                              *)

\* Every draft HR can bring to the confirmation can be proven to come from
\* the vacancy and HR's decisions - unless HR clicked one more occurrence of
\* a requirement into a criterion that a follow-up had already changed: the
\* two origins disagree then, and the draft is refused for good.
RefusedOnlyAfterLateJoin ==
    stage = "draft" /\ ~RequiresResolution /\ lateJoins = {} => Proven

\* A requirement has one weight, and each of its spans shows the importance
\* that weight is given with, whatever was clicked, chosen or amended.
OneWeightAsShown ==
    /\ \A c, d \in criteria : c.id = d.id \/ c.subject = d.subject => c = d
    /\ \A s \in Spans : requirements[s].state = "SCORABLE" =>
           \E c \in criteria : c.id = requirements[s].criterion
                            /\ c.type = requirements[s].type
                            /\ c.subject = source[s].subject

\* HR's own act for span s: an exclusion, a choice in a conflict, a follow-up.
Decided(s) ==
    \/ \E item \in needsReview : s \in item.spans /\ item.excluded
    \/ \E r \in resolutions : s \in r.spans
    \/ \E i \in DOMAIN amendments : amendments[i].criterion = requirements[s].criterion

\* An explicit must-have of the vacancy is a must-have of the confirmed
\* criteria, unless HR decided otherwise: no proposal, no failed model call,
\* no coordinated clause and no collision can drop or weaken it.
MustHaveKept ==
    stage = "confirmed" =>
        \A s \in Spans : source[s].type = "MUST_HAVE" /\ Interpretable(s) =>
            \/ requirements[s].state = "SCORABLE"
               /\ \E c \in criteria : c.id = requirements[s].criterion /\ c.type = "MUST_HAVE"
            \/ Decided(s)

\* Nothing is weighed but as it is written, shown and decided.
WeightsAsWritten == OneWeightAsShown /\ MustHaveKept

\* A draft HR can bring to the confirmation can be proven to come from the
\* vacancy and HR's decisions, with one weight per requirement, shown as it is
\* given, and no explicit must-have is dropped or weakened but by HR's own act.
ReviewHolds == RefusedOnlyAfterLateJoin /\ WeightsAsWritten
=============================================================================
