---------------------------- MODULE MCAgentPlanning ----------------------------
(***************************************************************************)
(* A behaviour is either the signing in, the requests and the commands of  *)
(* MCAccessAuthority, or one turn of the agent over one message.           *)
(***************************************************************************)
EXTENDS MCAccessAuthority, AgentPlanning

VARIABLE planning   \* is this behaviour a turn of the agent?

Message(text, cues) ==
    [text |-> text, cues |-> cues, reqs |-> {}, protected |-> {}, wrapper |-> Nothing,
     count |-> Nothing]
Requirement(state, subject, owner) == [state |-> state, subject |-> subject, owner |-> owner]
Skills(from) == {Requirement("SCORABLE", <<from, from + 2>>, <<from, from + 2>>)}

(* A coordinated requirement in a follow-up, in a pasted text of one and   *)
(* of two lines, behind an instruction and alone; a protected attribute as *)
(* a requirement, as a cue of the analysis and as a word of the list; a    *)
(* search, a duration, a count alone and with such a word, small talk.     *)
MCInputs ==
    {[Message(<<"first", "python", "and", "java">>, {"result context"}) EXCEPT !.reqs = Skills(2)],
     [Message(<<"python", "and", "java", "leads", "team">>, {"lines"}) EXCEPT
        !.reqs = Skills(1) \cup {Requirement("UNSUPPORTED", Nothing, <<4, 5>>)}],
     [Message(<<"analyse", "python", "and", "java">>, {"job analysis"}) EXCEPT
        !.wrapper = 2, !.reqs = Skills(2)],
     [Message(<<"analyse">>, {"job analysis"}) EXCEPT !.wrapper = 2],
     [Message(<<"python", "and", "java">>, {}) EXCEPT !.reqs = Skills(1)],
     [Message(<<"python", "and", "java">>, {"too long to search"}) EXCEPT !.reqs = Skills(1)],
     [Message(<<"two", "python", "gender">>, {"search words"}) EXCEPT
        !.reqs = {Requirement("SCORABLE", Nothing, <<2, 2>>), Requirement("PROHIBITED", Nothing, <<3, 3>>)}],
     [Message(<<"two", "first", "married">>, {"result count"}) EXCEPT !.protected = {<<3, 3>>}],
     [Message(<<"find", "python", "two", "years">>, {"imperative"}) EXCEPT
        !.reqs = {Requirement("NEEDS_HUMAN_REVIEW", <<2, 2>>, <<2, 4>>)}],
     [Message(<<"first", "two">>, {"result count"}) EXCEPT !.count = 2],
     [Message(<<"first", "two", "gender">>, {"result count"}) EXCEPT !.count = 2],
     Message(<<"find", "gender">>, {"imperative", "candidates"}),
     Message(<<"make", "preferred">>, {"followup"}),
     Message(<<"thanks">>, {}),
     Message(<<"python">>, {"overflow"})}

(* Every step over a few quotes (one of them stands nowhere in most of the *)
(* messages), alone under every goal and before a few others under one.    *)
Selections ==
    {{}, {<<"python">>}, {<<"java">>}, {<<"first">>}, {<<"two">>}, {<<"python">>, <<"java">>}}
Step(cap) ==
    [cap |-> cap, source |-> Nothing, limit |-> Nothing, ref |-> Nothing, topic |-> Nothing,
     span |-> Nothing, number |-> Nothing]
MCSteps ==
    {[Step("SEARCH") EXCEPT !.source = s] : s \in Selections}
    \cup {[Step("REFINE") EXCEPT !.source = s] : s \in Selections}
    \cup {[Step("REFINE") EXCEPT !.source = s, !.limit = l] :
            s \in {Nothing, {}, {<<"python">>}}, l \in {<<"two">>, <<"two", "years">>}}
    \cup {[Step("PROFILE") EXCEPT !.ref = q] : q \in {<<"first">>, <<"two">>, <<"python">>}}
    \cup {[Step("EVIDENCE") EXCEPT !.ref = <<"first">>, !.topic = q] :
            q \in {Nothing, <<"python">>, <<"married">>}}
    \cup {Step("ANALYZE"), Step("CREATE_JOB"), Step("RANK")}
MCSecond ==
    {[Step("SEARCH") EXCEPT !.source = {}], [Step("REFINE") EXCEPT !.source = {<<"java">>}],
     [Step("REFINE") EXCEPT !.limit = <<"two">>], [Step("PROFILE") EXCEPT !.ref = <<"two">>],
     Step("CREATE_JOB")}
Goals == {"CANDIDATE_SEARCH", "RESULT_FOLLOWUP", "VACANCY_ANALYSIS"}
MCPlans ==
    {[goal |-> g, steps |-> <<s>>] : g \in Goals, s \in MCSteps}
    \cup {[goal |-> "CANDIDATE_SEARCH", steps |-> <<s, q>>] : s \in MCSteps, q \in MCSecond}

Snapshot(context, results, pending, waiting, scopes) ==
    [context |-> context, results |-> results, pending |-> pending, waiting |-> waiting,
     scopes |-> scopes]
MCSnapshots ==
    {Snapshot(TRUE, TRUE, FALSE, FALSE, Read),
     Snapshot(TRUE, FALSE, TRUE, TRUE, Read \cup {"jobs:write", "jobs:read", "evaluations:write"}),
     Snapshot(FALSE, FALSE, FALSE, FALSE, Read)}

MCCountOf == "two" :> 2
MCOrdinalOf == "first" :> 1 @@ "two" :> 2

MCInit ==
    /\ planning \in BOOLEAN /\ Init
    /\ IF planning THEN PlanningInit
       ELSE /\ phase = "done" /\ message = Nothing /\ snapshot = Nothing /\ live = Nothing
            /\ plan = Nothing /\ attempts = 0 /\ ran = {} /\ working = Nothing
            /\ result = Nothing /\ drifts = 0

MCNext ==
    \/ ~planning /\ Next /\ UNCHANGED <<planning, planningVars>>
    \/ planning /\ PlanningNext /\ UNCHANGED <<planning, vars>>
    \/ planning /\ phase = "done" /\ UNCHANGED <<planning, vars, planningVars>>

MCSpec == MCInit /\ [][MCNext]_<<planning, vars, planningVars>>
================================================================================
