----------------------------- MODULE JobRanking -----------------------------
(***************************************************************************)
(* Vacancies, their criteria versions, and the rankings of the library of  *)
(* candidates against them: the human and the machine way to create a      *)
(* vacancy, appending a criteria version, archiving, ranking the library,  *)
(* scoring one candidate, and the deletion and re-analysis of candidates   *)
(* that happen in between.                                                 *)
(*                                                                         *)
(* Every request is one transaction (READ COMMITTED) of several            *)
(* statements.  The variables hold committed rows; what a request has      *)
(* written and not committed is in its record, and the database makes      *)
(* other requests wait for it where a unique index, a row lock or a        *)
(* foreign key says so: those waits are the Blocked operators.             *)
(***************************************************************************)
EXTENDS CandidateScoring

CONSTANTS
    Requests,      \* requests, each made once
    Candidates,    \* the ids of the candidates of the library
    Unanalysed,    \* those of them who have no profile yet when a run begins
    Signatures,    \* duplicate signatures of vacancies (title and criteria)
    Facts,         \* [Candidates \X 1..MaxProfile -> profile]
    Unverified,    \* the candidate and profile pairs whose evidence is not supported
    Criteria,      \* the criteria of version n: a sequence of criteria lists
    EligibleOnly,  \* the versions that present eligible candidates only
    ResultLimit,   \* result_limit of every version
    MaxJobs,       \* bound: vacancies
    MaxProfile     \* bound: analyses of one candidate

ASSUME HiringAssumption ==
    /\ NoValue \notin Requests
    /\ NoValue \notin {"created", "duplicate"}
    /\ Candidates \subseteq Nat /\ IsFiniteSet(Candidates) /\ ResultLimit \in Nat
    /\ MaxProfile \in Nat \ {0} /\ DOMAIN Facts = Candidates \X (1..MaxProfile)
    /\ \A v \in DOMAIN Criteria : Criteria[v] \in Seq(ToSet(Criteria[v])) /\ ValidCriteria(Criteria[v])

VARIABLES
    jobs,          \* sequence of [status, signature, versions, by, archivedBy]
    profile,       \* [Candidates -> effective profile version; 0 before the first, NoCandidate]
    evaluations,   \* rows [by, candidate, profile, job, version, status]
    req            \* [Requests -> what the request has read, written and answered]

hiringVars == <<jobs, profile, evaluations, req>>

(* The candidate was deleted. *)
NoCandidate == -1

NewRequest == [pc |-> "idle", job |-> 0, version |-> 0, signature |-> NoValue, todo |-> <<>>,
               mine |-> {}, found |-> {}, single |-> FALSE, answer |-> NoValue, result |-> {}]

HiringInit ==
    /\ jobs = <<[status |-> "ACTIVE", signature |-> CHOOSE s \in Signatures : TRUE,
                 versions |-> 1, by |-> NoValue, archivedBy |-> {}]>>
    /\ profile = [c \in Candidates |-> IF c \in Unanalysed THEN 0 ELSE 1]
    /\ evaluations = {}
    /\ req = [r \in Requests |-> NewRequest]

Becomes(r, w) == req' = [req EXCEPT ![r] = w]
MovesTo(r, pc) == Becomes(r, [req[r] EXCEPT !.pc = pc])
Answers(r, answer) ==
    Becomes(r, [req[r] EXCEPT !.pc = "done", !.answer = answer, !.mine = {}, !.todo = <<>>])
Others(r, pc) == {o \in Requests \ {r} : req[o].pc = pc}
NothingCommitted == UNCHANGED <<jobs, profile, evaluations>>

-----------------------------------------------------------------------------
(* Creating a vacancy.                                                     *)

ActiveDuplicate(signature) ==
    signature # NoValue /\ \E j \in DOMAIN jobs : jobs[j].status = "ACTIVE" /\ jobs[j].signature = signature

RoomForOne(r) ==
    Len(jobs) + Cardinality(Others(r, "create")) + Cardinality(Others(r, "created")) < MaxJobs

(* create_job_route, confirm_job_draft: the pre-check. *)
CreateChecked(r, signature) ==
    /\ req[r].pc = "idle" /\ RoomForOne(r)
    /\ IF ActiveDuplicate(signature) THEN Answers(r, "duplicate")
       ELSE Becomes(r, [req[r] EXCEPT !.pc = "create", !.signature = signature])
    /\ NothingCommitted

(* post_job: no signature, and no pre-check. *)
CreateByMachine(r) ==
    /\ req[r].pc = "idle" /\ RoomForOne(r)
    /\ MovesTo(r, "create")
    /\ NothingCommitted

(* uq_jobs_active_duplicate_signature: an insert waits for an uncommitted  *)
(* insert of its signature, and for an archive that has not committed.     *)
InsertBlocked(r, signature) ==
    signature # NoValue
    /\ \/ \E o \in Others(r, "created") : req[o].signature = signature
       \/ \E o \in Others(r, "archived") : jobs[req[o].job].signature = signature
                                           /\ jobs[req[o].job].status = "ACTIVE"

(* Variant: the pre-check is all there is. *)
RefusedByIndexNever(signature) == FALSE

(* The index refuses a second ACTIVE row of a signature: IntegrityError. *)
RefusedByIndex(signature) == ActiveDuplicate(signature)

CreateInsert(r) ==
    /\ req[r].pc = "create"
    /\ ~InsertBlocked(r, req[r].signature)
    /\ IF RefusedByIndex(req[r].signature) THEN Answers(r, "duplicate") ELSE MovesTo(r, "created")
    /\ NothingCommitted

(* The vacancy, its first criteria version and the audit commit together. *)
CreateCommit(r) ==
    /\ req[r].pc = "created"
    /\ jobs' = Append(jobs, [status |-> "ACTIVE", signature |-> req[r].signature, versions |-> 1,
                             by |-> r, archivedBy |-> {}])
    /\ Answers(r, "created")
    /\ UNCHANGED <<profile, evaluations>>

(* The database fails at any statement or at COMMIT, which rolls back. *)
Fail(r) ==
    /\ req[r].pc \notin {"idle", "done"}
    /\ Answers(r, "unavailable")
    /\ NothingCommitted

-----------------------------------------------------------------------------
(* create_criteria_version for an existing vacancy (post_job_criteria).    *)

AppendRead(r, j) ==
    /\ req[r].pc = "idle" /\ j \in DOMAIN jobs /\ jobs[j].versions < Len(Criteria)
    /\ Becomes(r, [req[r] EXCEPT !.pc = "append", !.job = j, !.version = jobs[j].versions + 1])
    /\ NothingCommitted

(* uq_job_version: the second of two equal numbers waits, then fails. *)
AppendInsert(r) ==
    /\ req[r].pc = "append"
    /\ ~\E o \in Others(r, "appended") : req[o].job = req[r].job /\ req[o].version = req[r].version
    /\ IF jobs[req[r].job].versions >= req[r].version THEN Answers(r, "error")
       ELSE MovesTo(r, "appended")
    /\ NothingCommitted

AppendCommit(r) ==
    /\ req[r].pc = "appended"
    /\ jobs' = [jobs EXCEPT ![req[r].job].versions = req[r].version]
    /\ Answers(r, "appended")
    /\ UNCHANGED <<profile, evaluations>>

-----------------------------------------------------------------------------
(* archive_job_for.                                                        *)

ArchiveRead(r, j) ==
    /\ req[r].pc = "idle" /\ j \in DOMAIN jobs
    /\ IF jobs[j].status = "ARCHIVED" THEN Answers(r, "already_archived")
       ELSE Becomes(r, [req[r] EXCEPT !.pc = "archive", !.job = j])
    /\ NothingCommitted

(* The update locks the row; it does not look at the status again. *)
ArchiveUpdate(r) ==
    /\ req[r].pc = "archive"
    /\ ~\E o \in Others(r, "archived") : req[o].job = req[r].job
    /\ MovesTo(r, "archived")
    /\ NothingCommitted

ArchiveCommit(r) ==
    /\ req[r].pc = "archived"
    /\ jobs' = [jobs EXCEPT ![req[r].job].status = "ARCHIVED", ![req[r].job].archivedBy = @ \cup {r}]
    /\ Answers(r, "archived")
    /\ UNCHANGED <<profile, evaluations>>

-----------------------------------------------------------------------------
(* rank_candidates_for_job and score_candidate.                            *)

(* The candidates of the library now who are analysed: a ranking skips the *)
(* others.  (The one status a candidate ever has is ACTIVE.)               *)
Kept == {c \in Candidates : profile[c] > 0}

(* Variant: the library, candidates without evaluations first. *)
LibraryUnscoredFirst ==
    LET rows(c) == Cardinality({e \in evaluations : e.candidate = c})
        before == {x \in Kept \X Kept : \/ rows(x[1]) < rows(x[2])
                                        \/ rows(x[1]) = rows(x[2]) /\ x[1] < x[2]}
        order == InOrder(Kept, before)
    IN  [k \in DOMAIN order |-> <<order[k], profile[order[k]]>>]

(* list_candidates_for_tenant, in the order of ids, each with its          *)
(* effective profile of this moment.                                       *)
Library ==
    LET order == InOrder(Kept, {x \in Kept \X Kept : x[1] < x[2]})
    IN  [k \in DOMAIN order |-> <<order[k], profile[order[k]]>>]

RankStart(r, j, v) ==
    /\ req[r].pc = "idle" /\ j \in DOMAIN jobs /\ v \in 1..jobs[j].versions
    /\ IF jobs[j].status # "ACTIVE" THEN Answers(r, "JOB_ARCHIVED")
       ELSE Becomes(r, [req[r] EXCEPT !.pc = "evaluate", !.job = j, !.version = v, !.todo = Library])
    /\ NothingCommitted

(* One candidate, an archived vacancy included, by the profile the caller  *)
(* names, which may be a historical one, or by the effective one.          *)
ScoreStart(r, c, p, j, v) ==
    /\ req[r].pc = "idle" /\ j \in DOMAIN jobs /\ v \in 1..jobs[j].versions
    /\ IF p \in 1..profile[c]
       THEN Becomes(r, [req[r] EXCEPT !.pc = "evaluate", !.job = j, !.version = v, !.single = TRUE,
                                      !.todo = <<<<c, p>>>>])
       ELSE Answers(r, "PROFILE_NOT_FOUND")
    /\ NothingCommitted

Row(r, status) ==
    [by |-> r, candidate |-> Head(req[r].todo)[1], profile |-> Head(req[r].todo)[2],
     job |-> req[r].job, version |-> req[r].version, status |-> status]

(* The columns of uq_evaluations_scored_provenance (the date and the two   *)
(* policy versions are the same throughout).                               *)
SameProvenance(e, f) ==
    /\ e.status = "COMPLETED" /\ f.status = "COMPLETED"
    /\ e.candidate = f.candidate /\ e.profile = f.profile /\ e.job = f.job /\ e.version = f.version

Deleting(c) == \E o \in Requests : req[o].pc = "deleting" /\ c = req[o].todo[1][1]
Verified(r) == Head(req[r].todo) \notin Unverified

(* get_scored_evaluation_by_provenance sees what is committed and what its *)
(* own transaction wrote.                                                  *)
Visible(r) == evaluations \cup req[r].mine

(* authorize_profile_version, then the lookup: the evaluation exists       *)
(* already.                                                                *)
Reuse(r) ==
    /\ req[r].pc = "evaluate" /\ req[r].todo # <<>> /\ Verified(r)
    /\ \E e \in Visible(r) :
         /\ SameProvenance(e, Row(r, "COMPLETED"))
         /\ Becomes(r, [req[r] EXCEPT !.todo = Tail(@), !.found = @ \cup {e}])
    /\ NothingCommitted

(* Variant: the insert does not wait for an equal row. *)
EvaluationBlockedByDeleteOnly(r, row) == Deleting(row.candidate)

(* An insert refers to the candidate: it waits for a deletion that holds   *)
(* its row; a unique index makes it wait for an equal uncommitted row.     *)
(* (After the wait the insert fails and the row that won is used: that is  *)
(* Reuse; a lookup and an insert with nothing in between decide the same.) *)
EvaluationBlocked(r, row) ==
    \/ Deleting(row.candidate)
    \/ \E o \in Requests \ {r} : \E e \in req[o].mine : SameProvenance(e, row)

(* No evaluation was found: the row is inserted, in a savepoint; evidence  *)
(* that is not supported leaves a FAILED row, which no ranking lists.      *)
Insert(r) ==
    /\ req[r].pc = "evaluate" /\ req[r].todo # <<>>
    /\ LET row == Row(r, IF Verified(r) THEN "COMPLETED" ELSE "FAILED")
       IN  /\ ~\E e \in Visible(r) : SameProvenance(e, row)
           /\ profile[row.candidate] # NoCandidate /\ ~EvaluationBlocked(r, row)
           /\ Becomes(r, [req[r] EXCEPT !.todo = Tail(@), !.mine = @ \cup {row}])
    /\ NothingCommitted

(* The candidate was deleted after the library was read: the evidence is   *)
(* gone and so is what the row would refer to.  The foreign key fails the  *)
(* whole request.                                                          *)
CandidateGone(r) ==
    /\ req[r].pc = "evaluate" /\ req[r].todo # <<>> /\ profile[Head(req[r].todo)[1]] = NoCandidate
    /\ Answers(r, "unavailable")
    /\ NothingCommitted

Scored(r) == {e \in req[r].mine \cup req[r].found : e.status = "COMPLETED"}

EvaluateCommit(r) ==
    /\ req[r].pc = "evaluate" /\ req[r].todo = <<>>
    /\ evaluations' = evaluations \cup req[r].mine
    /\ Becomes(r, [req[r] EXCEPT !.pc = "done", !.mine = {}, !.result = Scored(r),
           !.answer = IF req[r].single /\ Scored(r) = {} THEN "unscorable" ELSE "ranked"])
    /\ UNCHANGED <<jobs, profile>>

(* An evaluation depends on its criteria and the facts of its profile, on  *)
(* nothing else.                                                           *)
Scorecards == [x \in (DOMAIN Criteria) \X (DOMAIN Facts) |-> Scorecard(Criteria[x[1]], Facts[x[2]])]
ScorecardOf(e) == Scorecards[<<e.version, <<e.candidate, e.profile>>>>]
Entry(e) ==
    [candidate |-> e.candidate, row |-> e, band |-> ScorecardOf(e).band, score |-> ScorecardOf(e).score]

(* The list the answer presents. *)
Listing(r) ==
    Presented({Entry(e) : e \in req[r].result}, ~req[r].single /\ req[r].version \in EligibleOnly, ResultLimit)

-----------------------------------------------------------------------------
(* Candidates: hard deletion (see StorageRecovery for the files) and a new *)
(* completed analysis, the first one included.                             *)

(* FOR UPDATE waits for every transaction that refers to the candidate. *)
DeleteLock(r, c) ==
    /\ req[r].pc = "idle" /\ profile[c] # NoCandidate /\ ~Deleting(c)
    /\ \A o \in Requests : \A e \in req[o].mine : e.candidate # c
    /\ Becomes(r, [req[r] EXCEPT !.pc = "deleting", !.todo = <<<<c, profile[c]>>>>])
    /\ NothingCommitted

DeleteCommit(r) ==
    LET c == req[r].todo[1][1]
    IN  /\ req[r].pc = "deleting"
        /\ profile' = [profile EXCEPT ![c] = NoCandidate]
        /\ evaluations' = {e \in evaluations : e.candidate # c}
        /\ Answers(r, "deleted")
        /\ UNCHANGED jobs

(* External to this module: see CandidateAnalysis. *)
Analysed(c) ==
    /\ profile[c] \in 0..(MaxProfile - 1) /\ ~Deleting(c)
    /\ profile' = [profile EXCEPT ![c] = @ + 1]
    /\ UNCHANGED <<jobs, evaluations, req>>

-----------------------------------------------------------------------------
Work(r) ==
    \/ CreateInsert(r) \/ CreateCommit(r) \/ AppendInsert(r) \/ AppendCommit(r)
    \/ ArchiveUpdate(r) \/ ArchiveCommit(r)
    \/ Reuse(r) \/ Insert(r) \/ CandidateGone(r) \/ EvaluateCommit(r) \/ DeleteCommit(r)

Arrive(r) ==
    \/ \E s \in Signatures : CreateChecked(r, s)
    \/ CreateByMachine(r)
    \/ \E j \in DOMAIN jobs : AppendRead(r, j) \/ ArchiveRead(r, j)
    \/ \E j \in DOMAIN jobs, v \in DOMAIN Criteria : RankStart(r, j, v)
    \/ \E c \in Candidates, p \in 1..MaxProfile, j \in DOMAIN jobs, v \in DOMAIN Criteria :
          ScoreStart(r, c, p, j, v)
    \/ \E c \in Candidates : DeleteLock(r, c)

HiringNext ==
    \/ \E r \in Requests : Arrive(r) \/ Work(r) \/ Fail(r)
    \/ \E c \in Candidates : Analysed(c)

HiringSpec == HiringInit /\ [][HiringNext]_hiringVars

(* A vacancy is created once: no two ACTIVE vacancies of one signature, a  *)
(* request has created one if and only if it says so, and one told of a     *)
(* duplicate left nothing and there is a vacancy somebody else created.    *)
(* (Two confirmations at once both pass the pre-check; an archive may free *)
(* the signature in between.)                                              *)
VacancyOnce ==
    /\ \A i, j \in DOMAIN jobs :
         i # j /\ jobs[i].signature = jobs[j].signature /\ jobs[i].signature # NoValue
         => "ARCHIVED" \in {jobs[i].status, jobs[j].status}
    /\ \A r \in Requests :
         /\ req[r].answer = "created" <=> \E j \in DOMAIN jobs : jobs[j].by = r
         /\ req[r].answer = "duplicate" /\ req[r].signature # NoValue
            => \E j \in DOMAIN jobs : jobs[j].by # r /\ jobs[j].signature = req[r].signature

(* Two answers about one candidate, profile and criteria version name the  *)
(* same evaluation, and every evaluation an answer names is still there    *)
(* unless its candidate was deleted: nobody is shown a score of a          *)
(* transaction that did not commit, or a second score of the same inputs.  *)
AnswersAgree ==
    LET named == UNION {req[r].result : r \in Requests}
    IN  /\ \A e \in named : e \in evaluations \/ profile[e.candidate] = NoCandidate
        /\ \A e, f \in evaluations : SameProvenance(e, f) => e = f

MustHavesMet(e) ==
    \A x \in ToSet(ScorecardOf(e.row).results) : x.type = "MUST_HAVE" => x.status = "MATCH"

(* No candidate is listed after one whose must-haves are not all met, if   *)
(* its own are and no criterion waits for a human: whatever preferred      *)
(* criteria add to the score.                                              *)
MustHavesFirst ==
    \A r \in Requests :
        LET list == Listing(r)
        IN  \A i, j \in DOMAIN list :
                i < j /\ MustHavesMet(list[j]) /\ list[j].band # "MANUAL_REVIEW_REQUIRED"
                => MustHavesMet(list[i])

(* No ranking is answered with a year counted twice, lost, or counted for  *)
(* a period that ends before it begins: what is listed rests on durations  *)
(* that are the union of their periods, for every list of three periods.   *)
YearsCountOnce == (\E r \in Requests : req[r].result # {}) => DurationsAreUnions

(* What is listed is in the order the must-haves ask for, and counted in    *)
(* years that are the union of their periods.                              *)
ScoringHolds == MustHavesFirst /\ YearsCountOnce

(* While a request that has begun is not waiting, some request goes on.    *)
(* Requests are finite, so that each of them gets its turn.                *)
HiringFairSpec == HiringSpec /\ WF_hiringVars(\E r \in Requests : Work(r))

(* Every request is answered: rankings, scorings, deletions and creations  *)
(* never wait for one another in a circle.  (PostgreSQL would break one by *)
(* failing a request; rankings take the candidates in the order of ids.)   *)
RequestsEnd == []<>(\A r \in Requests : req[r].pc \in {"idle", "done"})
=============================================================================
