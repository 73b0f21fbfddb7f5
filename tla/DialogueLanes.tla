----------------------------- MODULE DialogueLanes -----------------------------
(***************************************************************************)
(* The two dialogue lanes of a conversation (agent/dialogue.py,             *)
(* services/agent_task_repo.py and the dialogue parts of agent/service.py). *)
(*                                                                         *)
(* Lane A is one question to HR at a time: a clarification row, the task    *)
(* waiting for it and the context's pointer at it.  It may be answered only *)
(* by the turn right after the question, is asked again once if the answer  *)
(* is unclear, and dies with its time limit.  Lane B is one vacancy draft   *)
(* at a time: the draft pointer and the task waiting for its confirmation.  *)
(*                                                                         *)
(* A turn stages its changes when it starts and writes them in Phase B,     *)
(* after model calls that hold no lock.  Every browser session of the owner *)
(* has its own lanes and appends to the same transcript; a reservation      *)
(* keeps turns apart, but it may expire under a slow one.  Draft review and *)
(* confirmation come from their own routes at any time.                     *)
(***************************************************************************)
EXTENDS Naturals, Sequences, FiniteSets

CONSTANTS
    Ctxs,      \* session contexts of the conversation, one per BrowserSession
    Handlers,  \* turn requests in flight
    Kept,      \* exchanges the stored transcript keeps
    KeptTasks, \* TERMINAL_TASKS_KEPT_PER_CONTEXT
    MaxTurns,  \* bound: exchanges ever committed
    None

ASSUME DialogueAssumption ==
    /\ Kept \in Nat /\ Kept >= 2
    /\ KeptTasks \in Nat
    /\ MaxTurns \in Nat
    /\ None \notin Ctxs \cup Handlers

VARIABLES
    log,      \* every exchange ever committed: "plain", "draft" (its payload pending), "confirmed"
    rows,     \* clarifications, in creation order
    tasks,    \* tasks, in creation order
    asking,   \* context -> active_clarification_id; 0 is NULL
    draft,    \* context -> active_pending_draft_id: the exchange that made it; 0 is NULL
    holder,   \* the handler whose turn holds the reservation
    turn      \* handler -> its turn: the context, its draft pointer as read, and what it staged

vars == <<log, rows, tasks, asking, draft, holder, turn>>

MaxAttempts == 2
TerminalStatuses == {"COMPLETED", "CANCELLED", "FAILED_SAFE", "EXPIRED"}

\* A staged DialogueCommit.  "to" is the status of the answered row, "task" the
\* one its task takes ("" leaves it), "ask" the kind of a new question.
NoChange == [row |-> 0, to |-> "", task |-> "", live |-> FALSE, ask |-> "", retry |-> FALSE,
             lane |-> "NONE"]
Idle == [ctx |-> None, stale |-> FALSE, say |-> NoChange, draft |-> 0]

Init ==
    /\ log = <<>>
    /\ rows = <<>>
    /\ tasks = <<>>
    /\ asking = [c \in Ctxs |-> 0]
    /\ draft = [c \in Ctxs |-> 0]
    /\ holder = None
    /\ turn = [h \in Handlers |-> Idle]

----------------------------------------------------------------------------
\* Variant: the position of the question in the transcript does not matter.
QuestionIsLastAnywhere(r) == TRUE

\* The last exchange is the question; before a second attempt comes the first.
QuestionIsLast(r) ==
    /\ rows[r].asked = Len(log)
    /\ rows[r].attempt = 2 => rows[rows[r].pred].asked = Len(log) - 1

\* liveness_failure is None.
Live(r) ==
    /\ rows[r].status = "OPEN"
    /\ ~rows[r].late
    /\ tasks[rows[r].task].status = "WAITING_CLARIFICATION"
    /\ QuestionIsLast(r)
    /\ rows[r].attempt = 2 =>
         LET p == rows[rows[r].pred]
         IN p.status = "SUPERSEDED" /\ p.why = "UNCLEAR" /\ p.attempt = 1
              /\ p.task = rows[r].task /\ p.source = rows[r].source

\* The stored transcript still holds the pending payload of draft d.
PayloadKept(d) == d # 0 /\ d + Kept > Len(log) /\ log[d] = "draft"

\* What the body of a turn may stage beside a lane A transition.  Only the
\* follow-up words of a pending draft amend it.
Bodies(c) ==
    {NoChange,
     [NoChange EXCEPT !.ask = "SEARCH_OR_VACANCY"],
     [NoChange EXCEPT !.ask = "VACANCY_SOURCE"],
     [NoChange EXCEPT !.lane = "NEW_DRAFT"]}
    \cup (IF PayloadKept(draft[c]) THEN {[NoChange EXCEPT !.lane = "AMENDED"]} ELSE {})

\* The whole lane A table.  A button, a label or the classifier resolve a
\* SEARCH_OR_VACANCY question; a message with a source resolves the other one.
Resolutions(r) ==
    {[NoChange EXCEPT !.row = r, !.to = "RESOLVED", !.live = TRUE, !.task = "WAITING_CONFIRMATION",
                      !.lane = "NEW_DRAFT"],
     [NoChange EXCEPT !.row = r, !.to = "RESOLVED", !.live = TRUE, !.task = "FAILED_SAFE"]}
    \cup (IF rows[r].kind = "SEARCH_OR_VACANCY"
          THEN {[NoChange EXCEPT !.row = r, !.to = "RESOLVED", !.live = TRUE, !.task = "COMPLETED"]}
          ELSE {})

NewTask(c, r) ==
    {[b EXCEPT !.row = r, !.to = "NEW_TASK", !.live = TRUE, !.task = "CANCELLED"] : b \in Bodies(c)}

Unclear(r) ==
    IF rows[r].attempt >= MaxAttempts
    THEN [NoChange EXCEPT !.row = r, !.to = "EXPIRED", !.live = TRUE, !.task = "FAILED_SAFE"]
    ELSE [NoChange EXCEPT !.row = r, !.to = "UNCLEAR", !.live = TRUE, !.ask = rows[r].kind,
                          !.retry = TRUE]

ExpireStale(r) == [NoChange EXCEPT !.row = r, !.to = "EXPIRED", !.task = "EXPIRED"]

\* _resolve_dialogue_state and the rest of the turn, up to Phase B.  Rejected
\* buttons and classifier failures leave no trace; they are Abandon.
Staged(c) ==
    LET r == asking[c]
    IN IF r = 0 THEN Bodies(c)
       ELSE IF ~Live(r) THEN {ExpireStale(r)}
       ELSE Resolutions(r) \cup NewTask(c, r) \cup {Unclear(r)}

Start(h, c) ==
    /\ holder = None /\ turn[h] = Idle
    /\ holder' = h
    /\ \E s \in Staged(c) :
         turn' = [turn EXCEPT ![h] = [ctx |-> c, stale |-> FALSE, say |-> s, draft |-> draft[c]]]
    /\ UNCHANGED <<log, rows, tasks, asking, draft>>

----------------------------------------------------------------------------
\* lock_dialogue_rows: the rows the turn staged changes of, locked and judged
\* again.  (A pointer at an unreadable row has a branch of its own in the
\* code; LanesConsistent shows that no history leads there.)
Unchanged(c, s) ==
    IF s.row = 0
    THEN s.ask # "" => asking[c] = 0
    ELSE /\ asking[c] = s.row
         /\ rows[s.row].status = "OPEN"
         /\ tasks[rows[s.row].task].status = "WAITING_CLARIFICATION"
         /\ s.live => Live(s.row)

\* The reservation is still this turn's and nobody wrote the transcript since.
Revalidated(h) == holder = h /\ ~turn[h].stale

\* Every write of the transcript outdates the turns in flight.
Outdated(h) == IF turn[h] = Idle THEN Idle ELSE [turn[h] EXCEPT !.stale = TRUE]

Waiting(c) == {t \in DOMAIN tasks : tasks[t].ctx = c /\ tasks[t].status = "WAITING_CONFIRMATION"}

\* T11: only a new draft ends the task of the old one.
DraftReplaced(T, c, s) ==
    [t \in DOMAIN T |->
       IF s.lane = "NEW_DRAFT" /\ t \in Waiting(c)
       THEN [T[t] EXCEPT !.status = "CANCELLED", !.draft = 0] ELSE T[t]]

\* T1-T8: the task of the answered row; a resolution with a draft moves it to
\* lane B.
TaskMoved(T, s, d) ==
    [t \in DOMAIN T |->
       IF s.row # 0 /\ s.task # "" /\ t = rows[s.row].task
       THEN [T[t] EXCEPT !.status = s.task,
                         !.draft = IF s.task = "WAITING_CONFIRMATION" THEN d ELSE 0]
       ELSE T[t]]

\* T9: the amendment mints a new draft id for the same task.
Amended(T, c, s, d) ==
    [t \in DOMAIN T |->
       IF s.lane = "AMENDED" /\ t \in Waiting(c) THEN [T[t] EXCEPT !.draft = d] ELSE T[t]]

NeedsDraftTask(s) == s.lane = "NEW_DRAFT" /\ s.task # "WAITING_CONFIRMATION"

\* Variant: a retry opens a task of its own.
NeedsQuestionTaskAlways(s) == s.ask # ""

NeedsQuestionTask(s) == s.ask # "" /\ ~s.retry

Created(T, c, s, d) ==
    IF NeedsDraftTask(s)
    THEN Append(T, [ctx |-> c, status |-> "WAITING_CONFIRMATION", draft |-> d])
    ELSE IF NeedsQuestionTask(s)
    THEN Append(T, [ctx |-> c, status |-> "WAITING_CLARIFICATION", draft |-> 0])
    ELSE T

Terminal(T, c) == {t \in DOMAIN T : T[t].ctx = c /\ T[t].status \in TerminalStatuses}

\* _retire_terminal_tasks, when a task is created: the newest KeptTasks stay.
\* Several may end in one transaction; their order is left open.
Retirable(T, c, s) ==
    IF NeedsDraftTask(s) \/ NeedsQuestionTask(s)
    THEN {R \in SUBSET Terminal(T, c) : Cardinality(Terminal(T, c) \ R) = KeptTasks}
           \cup {R \in {{}} : Cardinality(Terminal(T, c)) <= KeptTasks}
    ELSE {{}}

RowAfter(row, s) ==
    [row EXCEPT !.status = IF s.to \in {"UNCLEAR", "NEW_TASK"} THEN "SUPERSEDED" ELSE s.to,
                !.why = s.to]

NewRow(c, s, task, n) ==
    [ctx |-> c, task |-> task, kind |-> s.ask, status |-> "OPEN", why |-> "", late |-> FALSE,
     asked |-> n,
     attempt |-> IF s.retry THEN rows[s.row].attempt + 1 ELSE 1,
     pred |-> IF s.retry THEN s.row ELSE 0,
     source |-> IF s.retry THEN rows[s.row].source ELSE n]

\* apply_agent_turn_commit and apply_dialogue_commit, one transaction.
Commit(h) ==
    LET s == turn[h].say
        c == turn[h].ctx
        n == Len(log) + 1
        d == IF s.lane = "NONE" THEN turn[h].draft ELSE n
        T == Created(Amended(TaskMoved(DraftReplaced(tasks, c, s), s, d), c, s, d), c, s, d)
        old == [r \in DOMAIN rows |-> IF r = s.row THEN RowAfter(rows[r], s) ELSE rows[r]]
        all == IF s.ask = "" THEN old
               ELSE Append(old, NewRow(c, s, IF s.retry THEN rows[s.row].task ELSE Len(T), n))
    IN /\ c # None /\ Revalidated(h) /\ Unchanged(c, s)
       /\ n <= MaxTurns
       /\ log' = Append(log, IF s.lane = "NONE" THEN "plain" ELSE "draft")
       /\ \E R \in Retirable(T, c, s) :
            /\ tasks' = [t \in DOMAIN T |-> IF t \in R THEN [T[t] EXCEPT !.status = "DELETED"] ELSE T[t]]
            /\ rows' = [r \in DOMAIN all |->
                          IF all[r].task \in R THEN [all[r] EXCEPT !.status = "DELETED"] ELSE all[r]]
       /\ asking' = [asking EXCEPT ![c] = IF s.ask # "" THEN Len(all)
                                          ELSE IF s.row # 0 THEN 0 ELSE @]
       /\ draft' = [draft EXCEPT ![c] = d]
       /\ holder' = None
       /\ turn' = [x \in Handlers |-> IF x = h THEN Idle ELSE Outdated(x)]

\* Lost authority, provider or classifier failure, busy gate, disconnect,
\* rejected button.
Abandon(h) ==
    /\ turn[h] # Idle
    /\ turn' = [turn EXCEPT ![h] = Idle]
    /\ holder' = IF holder = h THEN None ELSE holder
    /\ UNCHANGED <<log, rows, tasks, asking, draft>>

\* The reservation runs out under a turn that still waits for the model.
ReservationExpires ==
    /\ holder # None
    /\ holder' = None
    /\ UNCHANGED <<log, rows, tasks, asking, draft, turn>>

\* The time limit of an open question.
QuestionExpires(r) ==
    /\ rows[r].status = "OPEN" /\ ~rows[r].late
    /\ rows' = [rows EXCEPT ![r].late = TRUE]
    /\ UNCHANGED <<log, tasks, asking, draft, holder, turn>>

TranscriptWritten == turn' = [h \in Handlers |-> Outdated(h)]

\* resolve_draft_review: the payload changes in place under the same draft id.
ReviewDraft(c) ==
    /\ PayloadKept(draft[c])
    /\ TranscriptWritten
    /\ UNCHANGED <<log, rows, tasks, asking, draft, holder>>

\* confirm_job_draft with complete_confirmed_draft_task.
ConfirmDraft(c) ==
    /\ PayloadKept(draft[c])
    /\ log' = [log EXCEPT ![draft[c]] = "confirmed"]
    /\ tasks' = [t \in DOMAIN tasks |->
                   IF t \in Waiting(c) /\ tasks[t].draft = draft[c]
                   THEN [tasks[t] EXCEPT !.status = "COMPLETED", !.draft = 0] ELSE tasks[t]]
    /\ draft' = [draft EXCEPT ![c] = 0]
    /\ TranscriptWritten
    /\ UNCHANGED <<rows, asking, holder>>

Next ==
    \/ \E h \in Handlers : (\E c \in Ctxs : Start(h, c)) \/ Commit(h) \/ Abandon(h)
    \/ \E c \in Ctxs : ReviewDraft(c) \/ ConfirmDraft(c)
    \/ ReservationExpires
    \/ \E r \in DOMAIN rows : QuestionExpires(r)

Spec == Init /\ [][Next]_vars

----------------------------------------------------------------------------
TypeOK ==
    /\ log \in Seq({"plain", "draft", "confirmed"})
    /\ \A r \in DOMAIN rows :
         /\ rows[r].ctx \in Ctxs
         /\ rows[r].task \in DOMAIN tasks
         /\ rows[r].status \in {"OPEN", "RESOLVED", "SUPERSEDED", "EXPIRED", "DELETED"}
         /\ rows[r].attempt \in 1..MaxAttempts
         /\ rows[r].pred \in 0..(r - 1)
         /\ {rows[r].asked, rows[r].source} \subseteq 1..Len(log)
    /\ \A t \in DOMAIN tasks :
         /\ tasks[t].ctx \in Ctxs
         /\ tasks[t].status \in {"WAITING_CLARIFICATION", "WAITING_CONFIRMATION", "DELETED"}
                                 \cup TerminalStatuses
         /\ tasks[t].draft \in 0..Len(log)
    /\ asking \in [Ctxs -> 0..Len(rows)]
    /\ draft \in [Ctxs -> 0..Len(log)]
    /\ holder \in Handlers \cup {None}
    /\ \A h \in Handlers : turn[h].ctx \in Ctxs \cup {None}

Open(c) == {r \in DOMAIN rows : rows[r].ctx = c /\ rows[r].status = "OPEN"}
WaitingAnswer(c) ==
    {t \in DOMAIN tasks : tasks[t].ctx = c /\ tasks[t].status = "WAITING_CLARIFICATION"}

\* Lane A is one thing in three places: the context's pointer, the one open
\* clarification and the one task that waits for it say the same, or none of
\* them says anything.  (The partial unique indexes rely on it.)
LaneAConsistent ==
    \A c \in Ctxs :
        IF asking[c] = 0
        THEN Open(c) = {} /\ WaitingAnswer(c) = {}
        ELSE Open(c) = {asking[c]} /\ WaitingAnswer(c) = {rows[asking[c]].task}

\* Lane B likewise: the draft HR can confirm is the draft of the one task that
\* waits for a confirmation; confirming or replacing it ends that task.
LaneBConsistent ==
    \A c \in Ctxs :
        IF draft[c] = 0
        THEN Waiting(c) = {}
        ELSE \E t \in DOMAIN tasks : Waiting(c) = {t} /\ tasks[t].draft = draft[c]

\* Both lanes agree with their tasks in every committed state.
LanesConsistent == LaneAConsistent /\ LaneBConsistent

\* An answer is read as the answer to the question HR just saw: a clarification
\* is resolved only by the very next exchange of the conversation, in time, and
\* a second attempt still binds the message the first one asked about.
AnswerFollowsQuestion ==
    [][\A r \in DOMAIN rows :
         rows[r].status = "OPEN" /\ rows'[r].status = "RESOLVED" =>
           /\ ~rows[r].late
           /\ Len(log') = rows[r].asked + 1
           /\ rows[r].source = rows[r].asked - (rows[r].attempt - 1)]_vars
===============================================================================
