------------------------------ MODULE ResultSets ------------------------------
(***************************************************************************)
(* The ordered candidate lists of one (conversation, BrowserSession) scope  *)
(* (services/agent_result_set_repo.py) and the plan that produces them      *)
(* inside one turn (agent/capabilities/execution.py and executors.py over   *)
(* the _dispatch_* functions of agent/service.py).                          *)
(*                                                                         *)
(* A result set is an immutable snapshot: candidates in order, each with    *)
(* the profile version the search saw.  The session context points at the   *)
(* active one.  A plan of up to three steps works on a private pointer and  *)
(* every model call inside it commits what it wrote so far, so the rows of  *)
(* a plan that later fails stay behind, inert.  Retention runs when a set   *)
(* is created, and from the command line at any moment.                     *)
(*                                                                         *)
(* The reservation of AgentTurn admits one turn of the conversation at a    *)
(* time to the database, so one turn is modelled, and an expired            *)
(* reservation is its Abandon.  An action is one database transaction or    *)
(* one step outside any; the sweep's SELECT and DELETE are two.             *)
(***************************************************************************)
EXTENDS Naturals, Sequences, SequencesExt

CONSTANTS
    Cands,        \* candidates of the tenant
    MaxInactive,  \* MAX_INACTIVE_RESULT_SETS_PER_CONTEXT
    Batch,        \* RESULT_SET_RETIRE_BATCH_SIZE
    MaxSteps,     \* min(MAX_PLAN_STEPS, agent_max_tool_calls)
    MaxSets,      \* bound: result sets ever created
    MaxVersion    \* bound: profile versions of a candidate

ASSUME ResultSetAssumption ==
    /\ IsFiniteSet(Cands)
    /\ MaxInactive \in Nat \ {0}
    /\ Batch \in Nat \ {0}
    /\ MaxSteps \in Nat \ {0}
    /\ MaxSets \in Nat
    /\ MaxVersion \in Nat

VARIABLES
    sets,       \* every result set ever created, in creation order
    active,     \* active_result_set_id of the session context; 0 is NULL
    profileOf,  \* candidate -> its effective profile version; 0: none accepted
    turn,       \* the turn in flight and its plan
    sweep,      \* ids the retirement sweep has selected and not yet deleted
    ended       \* the BrowserSession, and with it every set, has expired

setVars == <<sets, active, profileOf, turn, sweep, ended>>

NoSet == 0
Ids == DOMAIN sets
InTable(i) == i \in Ids /\ sets[i].row = "present"

Kinds == {"search", "refine", "profile"}
Consumer(kind) == kind # "search"

\* DEPENDENCY_INVALID: one producer of a result set at most, and no consumer
\* before it.  A refinement is not registered as a producer.
DependencyValid(p) ==
    \A i, j \in DOMAIN p :
        /\ p[i] = "search" /\ p[j] = "search" => i = j
        /\ Consumer(p[i]) /\ p[j] = "search" => j < i

Plans == {p \in BoundedSeq(Kinds, MaxSteps) : p # <<>> /\ DependencyValid(p)}

Idle == [pc |-> "idle", plan |-> <<>>, step |-> 0, base |-> NoSet, work |-> NoSet,
         made |-> NoSet]

SetsInit ==
    /\ sets = <<>>
    /\ active = NoSet
    /\ profileOf \in [Cands -> {1}]
    /\ turn = Idle
    /\ sweep = {}
    /\ ended = FALSE

----------------------------------------------------------------------------
\* Variant: the retirement does not look at the live pointers.
UnprotectedAll(keep) == {i \in Ids : InTable(i) /\ i \notin keep}

\* The rows of the scope that no session context points at and the caller
\* does not keep.
Unprotected(keep) == {i \in Ids : InTable(i) /\ i # active /\ i \notin keep}

\* Unexpired rows below the newest "slots"; every row once they have expired.
Excess(U, slots) ==
    IF ended THEN U ELSE {i \in U : Cardinality({j \in U : j > i}) >= slots}

\* _select_retirement_batch: up to Batch of them.  LIMIT takes expired rows
\* oldest first and excess rows newest first; which of them goes first is
\* left open here.
Batches(keep, slots) ==
    LET E == Excess(Unprotected(keep), slots)
    IN {B \in SUBSET E :
          \/ B = E /\ Cardinality(E) <= Batch
          \/ Cardinality(B) = Batch}

\* Deletion cascades to the member rows.
Gone == [row |-> "retired", members |-> <<>>]
Retired(S, B) == [i \in DOMAIN S |-> IF i \in B THEN Gone ELSE S[i]]

\* ON DELETE SET NULL of the context's foreign key.
AfterDelete(pointer, B) == IF pointer \in B THEN NoSet ELSE pointer

\* create_result_set_from_search / create_result_set_from_refinement: insert,
\* then one retention pass that keeps the new set and the one in "keep": the
\* source of a refinement, the set a search supersedes.
Create(members, keep) ==
    LET new == Len(sets) + 1
    IN /\ Len(sets) < MaxSets
       /\ \E B \in Batches({keep}, MaxInactive - 1) :
            /\ sets' = Append(Retired(sets, B),
                              [row |-> "present", members |-> members])
            /\ active' = AfterDelete(active, B)
       /\ turn' = [turn EXCEPT !.pc = "step", !.step = @ + 1, !.work = new, !.made = new]

----------------------------------------------------------------------------
Fresh(member) == profileOf[member.cand] = member.version
Versioned(c) == [cand |-> c, version |-> profileOf[c]]

\* _validate_active_result_set: structural authority of the working pointer.
Structural(i) == i # NoSet /\ InTable(i) /\ ~ended

\* validate_member_snapshots over the whole set.
Snapshot(i) == \A k \in DOMAIN sets[i].members : Fresh(sets[i].members[k])

\* check_plan_produced_result_set for a set produced earlier in this plan.
ProducedUsable ==
    turn.made = NoSet \/ (Structural(turn.made) /\ sets[turn.made].members # <<>>)

\* Layer 1 over the pre-existing set: what the steps before any search need.
\* (A stale ordinal is refused here too, and again by its step.)
Inspected(p) ==
    \/ p[1] = "search"
    \/ /\ Structural(active)
       /\ (\E k \in DOMAIN p : p[k] = "refine") => Snapshot(active)

Step == turn.plan[turn.step]
Running == turn.pc = "step" /\ turn.step <= Len(turn.plan)

\* execute_agent_turn up to its plan.  A rejected plan runs no executor.
Propose ==
    /\ turn.pc = "idle" /\ ~ended
    /\ \E p \in Plans :
         /\ Inspected(p)
         /\ turn' = [pc |-> "step", plan |-> p, step |-> 1, base |-> active,
                     work |-> active, made |-> NoSet]
    /\ UNCHANGED <<sets, active, profileOf, sweep, ended>>

\* Variant: a failed step leaves the working pointer where it is.
StopKeepsPointer == turn' = [turn EXCEPT !.pc = "commit"]

\* stop(): the previous pointer is restored exactly.
Stop == turn' = [turn EXCEPT !.pc = "commit", !.work = turn.base, !.made = NoSet]

\* A search, and a refinement with a filter, ask the planner: the turn leaves
\* the database.  A refinement checks its source first.
StartStep ==
    /\ Running /\ Step \in {"search", "refine"}
    /\ IF Step = "search" \/ (ProducedUsable /\ Structural(turn.work) /\ Snapshot(turn.work))
       THEN turn' = [turn EXCEPT !.pc = "planner"]
       ELSE Stop
    /\ UNCHANGED <<sets, active, profileOf, sweep, ended>>

\* The planner's answer is not executable, or asks more than a refinement does.
PlannerDeclines ==
    /\ turn.pc = "planner"
    /\ Stop
    /\ UNCHANGED <<sets, active, profileOf, sweep, ended>>

Principal == ~ended
ReservedPointer == active = turn.base

SearchStep ==
    /\ turn.pc = "planner" /\ Step = "search" /\ Principal /\ ReservedPointer
    /\ \E found \in SUBSET {c \in Cands : profileOf[c] # 0} :
         \E order \in SetToSeqs(found) :
           Create([k \in DOMAIN order |-> Versioned(order[k])], turn.work)
    /\ UNCHANGED <<profileOf, sweep, ended>>

\* Variant: the source is trusted because it was checked before the planner ran.
SourceCheckedBefore == turn.work # NoSet

\* The second check of the source, after the planner answered.
SourceStillValid == Structural(turn.work) /\ Snapshot(turn.work)

\* What a required filter and a limit can leave of a list: the survivors, of
\* which the k-th stood at kept[k], in the order they had.
Narrowed(members) ==
    UNION {{[k \in 1..n |-> members[kept[k]]] :
              kept \in {f \in [1..n -> DOMAIN members] : \A k, l \in 1..n : k < l => f[k] < f[l]}} :
            n \in 0..Len(members)}

RefineStep ==
    /\ turn.pc = "planner" /\ Step = "refine" /\ Principal /\ ReservedPointer
    /\ IF SourceStillValid
       THEN \E members \in Narrowed(sets[turn.work].members) :
            Create(members, turn.work)
       ELSE Stop /\ UNCHANGED <<sets, active>>
    /\ UNCHANGED <<profileOf, sweep, ended>>

\* resolve_active_candidate_ref: one member of the working set, by ordinal.
ProfileStep ==
    /\ Running /\ Step = "profile"
    /\ \E ref \in 1..(Cardinality(Cands) + 1) :
         IF /\ ProducedUsable /\ Structural(turn.work)
            /\ ref \in DOMAIN sets[turn.work].members
            /\ Fresh(sets[turn.work].members[ref])
         THEN turn' = [turn EXCEPT !.step = @ + 1]
         ELSE Stop
    /\ UNCHANGED <<sets, active, profileOf, sweep, ended>>

AllDone ==
    /\ turn.pc = "step" /\ turn.step > Len(turn.plan)
    /\ turn' = [turn EXCEPT !.pc = "commit"]
    /\ UNCHANGED <<sets, active, profileOf, sweep, ended>>

\* Phase B: apply_agent_turn_commit moves the pointer.
CommitTurn ==
    /\ turn.pc = "commit" /\ Principal /\ ReservedPointer
    /\ active' = turn.work
    /\ turn' = Idle
    /\ UNCHANGED <<sets, profileOf, sweep, ended>>

\* Busy gate, provider failure, disconnect, lost reservation, dead principal:
\* what was committed before stays, the pointer does not move.
Abandon ==
    /\ turn.pc # "idle"
    /\ turn' = Idle
    /\ UNCHANGED <<sets, active, profileOf, sweep, ended>>

----------------------------------------------------------------------------
\* retire_next_result_set_batch: select, then delete what is still unprotected.
SweepSelect ==
    /\ sweep = {}
    /\ sweep' \in Batches({}, MaxInactive) \ {{}}
    /\ UNCHANGED <<sets, active, profileOf, turn, ended>>

SweepDelete ==
    /\ sweep # {}
    /\ LET B == sweep \cap Unprotected({})
       IN sets' = Retired(sets, B) /\ active' = AfterDelete(active, B)
    /\ sweep' = {}
    /\ UNCHANGED <<profileOf, turn, ended>>

\* A new accepted profile version, or the loss of the accepted one.
ProfileMoves(c) ==
    /\ \/ /\ profileOf[c] # 0 /\ profileOf[c] < MaxVersion
          /\ profileOf' = [profileOf EXCEPT ![c] = @ + 1]
       \/ profileOf' = [profileOf EXCEPT ![c] = 0]
    /\ UNCHANGED <<sets, active, turn, sweep, ended>>

\* expires_at of every set is its session's own.
SessionEnds ==
    /\ ~ended
    /\ ended' = TRUE
    /\ UNCHANGED <<sets, active, profileOf, turn, sweep>>

SetsNext ==
    \/ Propose \/ StartStep \/ PlannerDeclines \/ SearchStep \/ RefineStep
    \/ ProfileStep \/ AllDone \/ CommitTurn \/ Abandon
    \/ SweepSelect \/ SweepDelete
    \/ \E c \in Cands : ProfileMoves(c)
    \/ SessionEnds

SetsSpec == SetsInit /\ [][SetsNext]_setVars

----------------------------------------------------------------------------
Members == [cand : Cands, version : 0..MaxVersion]

SetsTypeOK ==
    /\ Len(sets) <= MaxSets
    /\ \A i \in Ids : /\ sets[i].row \in {"present", "retired"}
                      /\ Range(sets[i].members) \subseteq Members
    /\ active \in 0..Len(sets)
    /\ profileOf \in [Cands -> 0..MaxVersion]
    /\ turn.pc \in {"idle", "step", "planner", "commit"}
    /\ turn.step \in 0..(MaxSteps + 1)
    /\ {turn.base, turn.work, turn.made} \subseteq 0..Len(sets)
    /\ sweep \subseteq Ids
    /\ ended \in BOOLEAN

\* Retention never takes what somebody is working with: the set the context
\* points at, and the set the plan in flight reads, are in the table, whatever
\* the sweep selected before they came into use.
LiveSetsKept ==
    /\ active # NoSet => InTable(active)
    /\ turn.pc # "idle" /\ turn.work # NoSet /\ ~ended => InTable(turn.work)

\* The pointer only moves forward: no deletion sets it to NULL behind HR's
\* back, and a failed or abandoned plan leaves it where it was.
PointerNeverDropped == [][active' = active \/ active' > active]_setVars

\* A step moves the pointer only to the last set of a plan whose every step
\* succeeded.
WholePlanOrNothing == active' # active => turn.step > Len(turn.plan) /\ active' = turn.made

\* The members of a refinement are members of its source, in the order the
\* source has, none of them a snapshot whose profile has moved.
RefinementNarrows ==
    Len(sets') > Len(sets) /\ Step = "refine" =>
        LET new == sets'[Len(sets')]
            old == sets[turn.work].members
        IN /\ \A k \in DOMAIN new.members : Fresh(new.members[k])
           /\ \E where \in [DOMAIN new.members -> DOMAIN old] :
                /\ \A k \in DOMAIN where : new.members[k] = old[where[k]]
                /\ \A k, l \in DOMAIN where : k < l => where[k] < where[l]

\* A plan activates all or nothing, although its steps commit one by one; and a
\* refinement narrows what HR was looking at, although profiles move while the
\* planner thinks.
PlansHold == [][WholePlanOrNothing /\ RefinementNarrows]_setVars

Inactive == {i \in Ids : InTable(i) /\ i # active}

\* Between turns, the rows retention leaves behind stay bounded: one more than
\* the policy, because each further step of a plan protects its source as well.
RetentionOneOver == Cardinality(Inactive) <= MaxInactive + 1

\* The retention contract: one active result set and at most MaxInactive
\* inactive ones, whenever no turn is in flight.
RetentionBound ==
    turn.pc = "idle" /\ active # NoSet => Cardinality(Inactive) <= MaxInactive
===============================================================================
