--------------------------- MODULE MCCandidateSearch ---------------------------
(***************************************************************************)
(* A behaviour is either a pair of agent turns, or one search from its     *)
(* words to its answer, which a turn takes for one of its steps: to the    *)
(* turn it is a call that ends.                                            *)
(***************************************************************************)
EXTENDS MCAgentTurn, CandidateSearch

VARIABLE searching   \* is this behaviour a search?

Req(state, type, kind, subject, years) ==
    [state |-> state, type |-> type, kind |-> kind, subject |-> subject, years |-> years]
Said(requirements, clauses, near, nearYears) ==
    [requirements |-> requirements, clauses |-> clauses, near |-> near, nearYears |-> nearYears,
     phrases |-> <<>>, marker |-> FALSE, limits |-> {}, count |-> 2, refusal |-> Absent]
Must(k, s, y) == Req("SCORABLE", "MUST_HAVE", k, s, y)
Nice(k, s, y) == Req("SCORABLE", "PREFERRED", k, s, y)
Loose == "phrase" :> Absent

(* Read by rules alone; by rules that disagree about the total; refused; by *)
(* the sentence parser; and left to the model, with one mandatory or one    *)
(* preferred requirement to keep, a phrase to look for, or a number of      *)
(* results to respect.                                                      *)
MCTexts ==
    {Said(<<Must("term", "A", 0), Nice("timed", "B", 2), Nice("term", "C", 0)>>, <<>>,
          "A" :> "MUST_HAVE" @@ "C" :> "PREFERRED", <<>>),
     Said(<<Must("total", Absent, 5), Must("total", Absent, 3)>>, <<>>, <<>>,
          5 :> Absent @@ 3 :> Absent),
     [Said(<<>>, <<>>, <<>>, <<>>) EXCEPT !.refusal = "PROHIBITED_REQUEST"],
     Said(<<Req("NEEDS_HUMAN_REVIEW", Absent, "term", "A", 0)>>,
          <<Must("term", "A", 0), Must("total", Absent, 3)>>, "A" :> Absent, 3 :> Absent),
     Said(<<>>, <<Must("total", Absent, 5), Must("total", Absent, 3)>>, <<>>,
          5 :> Absent @@ 3 :> Absent),
     [Said(<<Must("term", "A", 0), Req("UNSUPPORTED", Absent, "term", "C", 0)>>, <<>>,
           "A" :> "MUST_HAVE" @@ "C" :> Absent, <<>>)
         EXCEPT !.phrases = Loose, !.marker = TRUE],
     [Said(<<Nice("term", "C", 0), Req("NEEDS_HUMAN_REVIEW", Absent, "term", "A", 0)>>, <<>>,
           "A" :> Absent @@ "C" :> Absent, <<>>) EXCEPT !.phrases = Loose],
     [Said(<<>>, <<>>, <<>>, <<>>) EXCEPT !.phrases = Loose, !.limits = {1}],
     [Said(<<>>, <<>>, <<>>, <<>>) EXCEPT !.phrases = "phrase" :> "MUST_HAVE"]}

Draft(required, preferred, total, query, limit) ==
    [required |-> [terms |-> required, timed |-> {}, totals |-> total],
     preferred |-> [terms |-> preferred, timed |-> {}, totals |-> {}],
     query |-> query, limit |-> limit, declined |-> FALSE]
MCDrafts ==
    {Draft(r, p, y, q, n) : r \in SUBSET {"A", "C"}, p \in SUBSET {"A", "C"}, y \in {{}, {3}},
                            q \in {Absent, "phrase", "other", "unsafe"}, n \in {Absent, 1}}
    \cup {Draft({"protected"}, {}, {}, Absent, Absent),
          [Draft({"A"}, {}, {}, Absent, Absent) EXCEPT !.required.timed = {<<"B", 2>>}],
          [Draft({"A"}, {}, {}, Absent, Absent) EXCEPT !.declined = TRUE]}

Content(terms, years, total, fit) ==
    [terms |-> terms, years |-> "B" :> years, total |-> total, fit |-> fit]
MCProfiles ==
    {Content({"A", "C"}, 3, 5, 0), Content({"A"}, 0, Absent, 2), Content({"A", "C"}, 1, 3, 1)}

\* The last candidate is there at first, with a profile of middling fit.
MCCorpora ==
    {f \in [1..3 -> MCProfiles \cup {Absent}] : f[3] = Content({"A", "C"}, 1, 3, 1)}

MCInit ==
    /\ searching \in BOOLEAN /\ Init
    /\ IF searching THEN SearchInit
       ELSE /\ request = Absent /\ searchStage = "idle" /\ attempts = 0 /\ outcome = Absent
            /\ searchRequest = Absent /\ eligible = <<>> /\ response = <<>>
            /\ tenantActive = FALSE /\ effective = <<>> /\ embeddings = {} /\ changes = 0

MCNext ==
    \/ ~searching /\ Next /\ UNCHANGED <<searching, searchVars>>
    \/ searching /\ SearchNext /\ UNCHANGED <<searching, vars>>

MCSpec == MCInit /\ [][MCNext]_<<searching, vars, searchVars>>
=============================================================================
