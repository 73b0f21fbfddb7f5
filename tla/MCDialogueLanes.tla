---------------------------- MODULE MCDialogueLanes ----------------------------
(***************************************************************************)
(* A behaviour is one of the two lanes of a conversation, in which a draft *)
(* is a pointer, or one of a single draft, from its text to its            *)
(* confirmation: the two share no more than the pending draft's identity.  *)
(***************************************************************************)
EXTENDS DialogueLanes, DraftReview, TLC

VARIABLE drafting   \* is this behaviour a draft?

(* Two duplicates, conflicts and follow-ups on a timed subject "A", an     *)
(* untimed "B", and what a text can hold that no click may turn into a     *)
(* criterion; the third span repeats "A" or stands beside it.              *)
Reading(cues, type, subject, years) ==
    [cues |-> cues, type |-> type, subject |-> subject, years |-> years]
Plain ==
    {Reading({}, t, "A", y) : t \in Types \cup {Unset}, y \in Years}
    \cup {Reading({}, t, "B", Unset) : t \in Types \cup {Unset}}
Doubtful ==
    {Reading({"RAW_SUBJECT"}, "MUST_HAVE", "A", 3), Reading({"PERSON"}, "MUST_HAVE", "A", Unset),
     Reading({"SEGMENTATION"}, "MUST_HAVE", "B", Unset), Reading({"NEGATED"}, "MUST_HAVE", "B", Unset),
     Reading({}, Unset, "A", Unset)}
Third ==
    {Reading({}, Unset, "A", 3), Reading({}, "MUST_HAVE", "A", 5), Reading({}, "PREFERRED", "B", Unset)}
MCSources ==
    {[s \in 1..3 |-> <<r, q, t>>[s] @@ [coordinated |-> s \in C]] :
        r \in Plain \cup Doubtful, q \in Plain \cup Doubtful, t \in Third, C \in {{}, {1, 2}}}

ASSUME DraftAssumption

(* While the lanes run there is no draft to look into. *)
MCInit ==
    /\ drafting \in BOOLEAN /\ Init
    /\ IF drafting THEN ReviewInit
       ELSE /\ source = Unset /\ stage = "text" /\ criteria = {} /\ needsReview = {}
            /\ requirements = [s \in Spans |-> Requirement("UNREAD", Unset, Unset)]
            /\ decisions = [s \in Spans |-> Unset] /\ resolutions = {} /\ amendments = <<>>
            /\ limitOpen = FALSE /\ lateJoins = {}

MCNext ==
    \/ ~drafting /\ Next /\ UNCHANGED <<drafting, reviewVars>>
    \/ drafting /\ ReviewNext /\ UNCHANGED <<drafting, vars>>

MCSpec == MCInit /\ [][MCNext]_<<drafting, vars, reviewVars>>

Sym == Permutations(Ctxs) \cup Permutations(Handlers)
================================================================================
